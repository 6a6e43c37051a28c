-------------------------- MODULE EvalFramesProofs --------------------------
(***************************************************************************)
(* EvalStack implements CallFrames: proof that one growing array of slots  *)
(* behaves as frames of their own, for every program whose calls leave     *)
(* room enough for do_call (NoEarlyGrowth).                                *)
(***************************************************************************)
EXTENDS EvalStackProofs

(* What is in s after position a, up to position b.                         *)
Seg(s, a, b) == SubSeq(s, a + 1, b)

(* s and t are the same up to position n.                                   *)
SameUpTo(s, t, n) == \A i \in 1..n : s[i] = t[i]

LEMMA SegFacts ==
    ASSUME NEW S, NEW s \in Seq(S), NEW a \in Nat, NEW b \in Nat,
           a <= b, b <= Len(s)
    PROVE  /\ Seg(s, a, b) \in Seq(S)
           /\ Len(Seg(s, a, b)) = b - a
           /\ \A i \in 1..(b - a) : Seg(s, a, b)[i] = s[a + i]
<1>1. \A i \in (a + 1)..b : s[i] \in S
    BY ElementOfSeq, LenProperties
<1>2. /\ SubSeq(s, a + 1, b) \in Seq(S)
      /\ Len(SubSeq(s, a + 1, b)) = IF a + 1 <= b THEN b - (a + 1) + 1 ELSE 0
      /\ \A i \in 1..(b - (a + 1) + 1) : SubSeq(s, a + 1, b)[i] = s[a + 1 + i - 1]
    BY <1>1, SubSeqProperties
<1>3. b - (a + 1) + 1 = b - a /\ (~ (a + 1 <= b) => b - a = 0)
    OBVIOUS
<1>4. \A i \in 1..(b - a) : a + 1 + i - 1 = a + i
    OBVIOUS
<1>. QED  BY <1>2, <1>3, <1>4 DEF Seg

(* Slots that are the same hold the same.                                   *)
LEMMA SegSame ==
    ASSUME NEW S, NEW s \in Seq(S), NEW t \in Seq(S), NEW a \in Nat, NEW b \in Nat,
           a <= b, b <= Len(s), b <= Len(t), SameUpTo(s, t, b)
    PROVE  Seg(s, a, b) = Seg(t, a, b)
<1>. DEFINE u == Seg(s, a, b)
            w == Seg(t, a, b)
<1>1. u \in Seq(S) /\ Len(u) = b - a /\ \A i \in 1..(b - a) : u[i] = s[a + i]
    BY SegFacts
<1>2. w \in Seq(S) /\ Len(w) = b - a /\ \A i \in 1..(b - a) : w[i] = t[a + i]
    BY SegFacts
<1>3. \A i \in 1..(b - a) : a + i \in 1..b
    OBVIOUS
<1>4. \A i \in 1..(b - a) : u[i] = w[i]
    BY <1>1, <1>2, <1>3 DEF SameUpTo
<1>. HIDE DEF u, w
<1>5. u = w
    BY <1>1, <1>2, <1>4, SeqEqual
<1>. QED  BY <1>5 DEF u, w

(* The segment without its last elements.                                   *)
LEMMA SegDrop ==
    ASSUME NEW S, NEW s \in Seq(S), NEW a \in Nat, NEW b \in Nat, NEW n \in Nat,
           a + n <= b, b <= Len(s)
    PROVE  Drop(Seg(s, a, b), n) = Seg(s, a, b - n)
<1>. DEFINE u == Seg(s, a, b)
            w == Seg(s, a, b - n)
            d == Drop(u, n)
<1>0. a <= b
    OBVIOUS
<1>1. u \in Seq(S) /\ Len(u) = b - a /\ \A i \in 1..(b - a) : u[i] = s[a + i]
    BY <1>0, SegFacts
<1>2. b - n \in Nat /\ a <= b - n /\ b - n <= Len(s) /\ b - n - a = b - a - n
      /\ n \in 0..(b - a)
    BY LenProperties
<1>3. w \in Seq(S) /\ Len(w) = b - n - a /\ \A i \in 1..(b - n - a) : w[i] = s[a + i]
    <2>. DEFINE e == b - n
    <2>1. e \in Nat /\ a <= e /\ e <= Len(s)
        BY <1>2
    <2>. HIDE DEF e, w
    <2>2. Seg(s, a, e) \in Seq(S) /\ Len(Seg(s, a, e)) = e - a
          /\ \A i \in 1..(e - a) : Seg(s, a, e)[i] = s[a + i]
        BY <2>1, SegFacts
    <2>. QED  BY <2>2 DEF e, w
<1>. HIDE DEF u, w
<1>4. d \in Seq(S) /\ Len(d) = b - a - n /\ \A i \in 1..(b - a - n) : d[i] = u[i]
    BY <1>1, <1>2, DropFacts
<1>. HIDE DEF d
<1>5. \A i \in 1..(b - a - n) : i \in 1..(b - a)
    OBVIOUS
<1>6. Len(d) = Len(w) /\ \A i \in 1..Len(d) : d[i] = w[i]
    BY <1>1, <1>2, <1>3, <1>4, <1>5
<1>7. d = w
    BY <1>3, <1>4, <1>6, SeqEqual
<1>. QED  BY <1>7 DEF u, w, d

(* What is appended to s is appended to each of its segments that ends where
   s does.                                                                  *)
LEMMA SegConcat ==
    ASSUME NEW S, NEW s \in Seq(S), NEW g \in Seq(S), NEW a \in Nat, a <= Len(s)
    PROVE  Seg(s \o g, a, Len(s) + Len(g)) = Seg(s, a, Len(s)) \o g
<1>1. PICK m \in Nat, k \in Nat, e \in Nat : m = Len(s) /\ k = Len(g) /\ e = m + k
    BY LenProperties
<1>. DEFINE x == s \o g
            u == Seg(x, a, e)
            v == Seg(s, a, m)
            w == v \o g
<1>2. x \in Seq(S) /\ Len(x) = e
      /\ \A i \in 1..e : x[i] = IF i <= m THEN s[i] ELSE g[i - m]
    BY <1>1, ConcatProperties
<1>3. a <= m /\ a <= e
    BY <1>1
<1>10. x \in Seq(S) /\ e <= Len(x) /\ m <= Len(s)
    BY <1>1, <1>2
<1>. HIDE DEF x
<1>4. u \in Seq(S) /\ Len(u) = e - a /\ \A i \in 1..(e - a) : u[i] = x[a + i]
    BY <1>10, <1>3, SegFacts
<1>5. v \in Seq(S) /\ Len(v) = m - a /\ \A i \in 1..(m - a) : v[i] = s[a + i]
    BY <1>10, <1>3, SegFacts
<1>. HIDE DEF u, v
<1>6. w \in Seq(S) /\ Len(w) = m - a + k
      /\ \A i \in 1..(m - a + k) : w[i] = IF i <= m - a THEN v[i] ELSE g[i - (m - a)]
    <2>1. /\ v \o g \in Seq(S) /\ Len(v \o g) = Len(v) + Len(g)
          /\ \A i \in 1..(Len(v) + Len(g)) :
                (v \o g)[i] = IF i <= Len(v) THEN v[i] ELSE g[i - Len(v)]
        BY <1>5, ConcatProperties
    <2>. QED  BY <1>1, <1>5, <2>1
<1>. HIDE DEF w
<1>7. ASSUME NEW i \in 1..(e - a)
      PROVE  u[i] = w[i]
    <2>1. a + i \in 1..e /\ i \in 1..(m - a + k)
        BY <1>1, <1>3
    <2>2. CASE i <= m - a
        <3>1. a + i <= m /\ i \in 1..(m - a)
            BY <1>1, <1>3, <2>2
        <3>. QED  BY <1>2, <1>4, <1>5, <1>6, <2>1, <2>2, <3>1
    <2>3. CASE ~ (i <= m - a)
        <3>1. ~ (a + i <= m) /\ i - (m - a) = a + i - m
            BY <1>1, <1>3, <2>3
        <3>2. u[i] = x[a + i]
            BY <1>4
        <3>3. x[a + i] = g[a + i - m]
            BY <1>2, <2>1, <3>1
        <3>4. w[i] = g[i - (m - a)]
            BY <1>6, <2>1, <2>3
        <3>. QED  BY <3>1, <3>2, <3>3, <3>4
    <2>. QED  BY <2>2, <2>3
<1>8. e - a = m - a + k
    BY <1>1
<1>9. u = w
    BY <1>4, <1>6, <1>7, <1>8, SeqEqual
<1>. QED  BY <1>1, <1>9 DEF u, w, v, x

(* The n topmost elements of s are replaced by g.                           *)
LEMMA SegReplaced ==
    ASSUME NEW S, NEW s \in Seq(S), NEW g \in Seq(S), NEW a \in Nat, NEW n \in Nat,
           a + n <= Len(s)
    PROVE  LET r == Drop(s, n) \o g
           IN  Len(r) = Len(s) - n + Len(g) /\ Seg(r, a, Len(r)) = Drop(Seg(s, a, Len(s)), n) \o g
<1>1. PICK m \in Nat, e \in Nat : m = Len(s) /\ e = m - n
    BY LenProperties
<1>. DEFINE d == Drop(s, n)
<1>2. n \in 0..Len(s)
    BY <1>1
<1>3. d \in Seq(S) /\ Len(d) = e /\ SameUpTo(d, s, e)
    <2>1. d \in Seq(S) /\ Len(d) = Len(s) - n /\ \A i \in 1..(Len(s) - n) : d[i] = s[i]
        BY <1>2, DropFacts
    <2>. QED  BY <1>1, <2>1 DEF SameUpTo
<1>4. Drop(Seg(s, a, m), n) = Seg(s, a, e)
    <2>1. a + n <= m /\ m <= Len(s)
        BY <1>1
    <2>2. Drop(Seg(s, a, m), n) = Seg(s, a, m - n)
        BY <2>1, SegDrop
    <2>. QED  BY <1>1, <2>2
<1>. HIDE DEF d
<1>5. Seg(d, a, e) = Seg(s, a, e)
    <2>1. a <= e /\ e <= Len(s) /\ e <= Len(d)
        BY <1>1, <1>3
    <2>2. d \in Seq(S) /\ SameUpTo(d, s, e)
        BY <1>3
    <2>. QED  BY <2>1, <2>2, SegSame
<1>6. Seg(d \o g, a, Len(d) + Len(g)) = Seg(d, a, Len(d)) \o g
    <2>1. d \in Seq(S) /\ a <= Len(d)
        BY <1>1, <1>3
    <2>. QED  BY <2>1, SegConcat
<1>7. Len(d \o g) = Len(d) + Len(g)
    BY <1>3, ConcatProperties
<1>8. Seg(d \o g, a, Len(d \o g)) = Drop(Seg(s, a, m), n) \o g
    BY <1>3, <1>4, <1>5, <1>6, <1>7
<1>9. Len(d \o g) = Len(s) - n + Len(g)
    BY <1>1, <1>3, <1>7
<1>. QED  BY <1>1, <1>8, <1>9 DEF d

(* What was appended, and nothing else.                                     *)
LEMMA SegTail ==
    ASSUME NEW S, NEW s \in Seq(S), NEW g \in Seq(S)
    PROVE  Seg(s \o g, Len(s), Len(s \o g)) = g
<1>1. PICK m \in Nat : m = Len(s)
    BY LenProperties
<1>2. Seg(s \o g, m, Len(s) + Len(g)) = Seg(s, m, Len(s)) \o g
    <2>1. m <= Len(s)
        BY <1>1
    <2>. QED  BY <2>1, SegConcat
<1>3. Seg(s, m, m) = <<>>
    <2>1. m + 1 \in Int /\ m \in Int /\ m < m + 1
        OBVIOUS
    <2>2. SubSeq(s, m + 1, m) = <<>>
        BY <2>1, SubSeqEmpty
    <2>. QED  BY <2>2 DEF Seg
<1>4. <<>> \o g = g
    BY ConcatEmptySeq
<1>5. Len(s \o g) = Len(s) + Len(g)
    BY ConcatProperties
<1>. QED  BY <1>1, <1>2, <1>3, <1>4, <1>5

(* Replacing the last element.                                              *)
LEMMA LastReplaced ==
    ASSUME NEW S, NEW s \in Seq(S), NEW n \in Nat, n = Len(s), n >= 1, NEW x \in S
    PROVE  Drop(s, 1) \o << x >> = [s EXCEPT ![n] = x]
<1>. DEFINE d == Drop(s, 1)
            u == d \o << x >>
            w == [s EXCEPT ![n] = x]
<1>1. 1 \in 0..Len(s)
    OBVIOUS
<1>2. d \in Seq(S) /\ Len(d) = n - 1 /\ \A i \in 1..(n - 1) : d[i] = s[i]
    BY <1>1, DropFacts
<1>. HIDE DEF d
<1>3. << x >> \in Seq(S) /\ Len(<< x >>) = 1 /\ << x >>[1] = x
    OBVIOUS
<1>4. /\ u \in Seq(S) /\ Len(u) = Len(d) + Len(<< x >>)
      /\ \A i \in 1..(Len(d) + Len(<< x >>)) :
            u[i] = IF i <= Len(d) THEN d[i] ELSE << x >>[i - Len(d)]
    BY <1>2, <1>3, ConcatProperties
<1>. HIDE DEF u
<1>5. u \in Seq(S) /\ Len(u) = n /\ \A i \in 1..n : u[i] = IF i = n THEN x ELSE s[i]
    BY <1>2, <1>3, <1>4
<1>6. w \in Seq(S) /\ Len(w) = n /\ \A i \in 1..n : w[i] = IF i = n THEN x ELSE s[i]
    BY ExceptSeq
<1>. HIDE DEF w
<1>7. u = w
    BY <1>5, <1>6, SeqEqual
<1>. QED  BY <1>7 DEF u, w, d

-----------------------------------------------------------------------------
(* Frames.                                                                  *)

(* The frame of a call site whose operands end at stop.                     *)
FrameAt(s, site, stop) ==
    [fn |-> site.callee, consts |-> Shape[site.callee].chunk,
     locals |-> Seg(s, site.bottom, OperandsStart(site)),
     opnds |-> Seg(s, OperandsStart(site), stop)]

StopOf(p, i) == IF i = Len(p.cs) THEN Len(p.slots) - p.wait ELSE p.cs[i + 1].bottom - 1

FramesOf(p) == [i \in 1..Len(p.cs) |-> FrameOf(p, i)]

(* In order, with its locals where the registers say.                       *)
Good(p) == PadOK(p) /\ LocalsOK(p)

LEMMA StopFacts ==
    ASSUME NEW p, Good(p), NEW i \in 1..Len(p.cs)
    PROVE  /\ StopOf(p, i) \in Nat /\ StopOf(p, i) <= Len(p.slots)
           /\ OperandsStart(p.cs[i]) \in Nat /\ OperandsStart(p.cs[i]) <= StopOf(p, i)
           /\ p.cs[i].bottom \in Nat /\ p.cs[i].bottom <= OperandsStart(p.cs[i])
           /\ i < Len(p.cs) => StopOf(p, i) < Last(p.cs).bottom
           /\ p.cs[i] \in CallSite
<1>1. /\ p.cs[i] \in CallSite /\ p.cs[i].bottom \in Nat
      /\ OperandsStart(p.cs[i]) \in Nat /\ p.cs[i].bottom <= OperandsStart(p.cs[i])
      /\ \A j \in 1..Len(p.cs) : i < j => OperandsStart(p.cs[i]) < p.cs[j].bottom
    BY FrameFacts DEF Good
<1>2. /\ p.slots \in Seq(Value) /\ Len(p.slots) \in Nat /\ Len(p.cs) \in Nat
      /\ p.wait \in Nat /\ p.ip \in Ip /\ p.ip.depth \in Nat /\ p.ip.nargs \in Nat
    BY PadFacts DEF Good, PadOK
<1>3. CASE i = Len(p.cs)
    <2>1. TopAt(p, OperandsStart(p.cs[i]))
        BY <1>3, TopFacts DEF Good, Last
    <2>. DEFINE l == Len(p.slots)
                o == OperandsStart(p.cs[i])
    <2>2. /\ p.wait = 0 => l = o + p.ip.depth
          /\ p.wait # 0 => p.ip.nargs < p.ip.depth /\ l = o + p.ip.depth - p.ip.nargs + p.wait - 1
        BY <2>1 DEF TopAt
    <2>3. l \in Nat /\ o \in Nat
        BY <1>1, <1>2
    <2>. HIDE DEF l, o
    <2>4. l - p.wait \in Nat /\ l - p.wait <= l /\ o <= l - p.wait
        <3>1. PICK w \in Nat, d \in Nat, x \in Nat :
                 w = p.wait /\ d = p.ip.depth /\ x = p.ip.nargs
            BY <1>2
        <3>2. (w = 0 => l = o + d) /\ (w # 0 => x < d /\ l = o + d - x + w - 1)
            BY <2>2, <3>1
        <3>3. l - w \in Nat /\ l - w <= l /\ o <= l - w
            BY <2>3, <3>2, SMTT(30)
        <3>. QED  BY <3>1, <3>3
    <2>5. StopOf(p, i) = l - p.wait
        BY <1>3 DEF StopOf, l
    <2>. QED  BY <1>1, <1>3, <2>4, <2>5 DEF l, o
<1>4. CASE i # Len(p.cs)
    <2>1. i + 1 \in 1..Len(p.cs) /\ i < i + 1
        BY <1>2, <1>4
    <2>2. /\ p.cs[i + 1].bottom \in Nat /\ p.cs[i + 1].bottom <= Len(p.slots)
          /\ p.cs[i + 1].bottom <= OperandsStart(p.cs[i + 1])
          /\ OperandsStart(p.cs[i + 1]) \in Nat
          /\ \A j \in 1..Len(p.cs) : i + 1 < j => OperandsStart(p.cs[i + 1]) < p.cs[j].bottom
        BY <2>1, FrameFacts DEF Good
    <2>3. OperandsStart(p.cs[i]) < p.cs[i + 1].bottom
        BY <1>1, <2>1
    <2>4. StopOf(p, i) = p.cs[i + 1].bottom - 1
        BY <1>4 DEF StopOf
    <2>5. StopOf(p, i) \in Nat /\ StopOf(p, i) < p.cs[i + 1].bottom
          /\ OperandsStart(p.cs[i]) <= StopOf(p, i) /\ StopOf(p, i) <= Len(p.slots)
        BY <1>1, <1>2, <2>2, <2>3, <2>4, SMTT(30)
    <2>6. p.cs[i + 1].bottom <= Last(p.cs).bottom
        <3>1. CASE i + 1 = Len(p.cs)
            BY <2>2, <3>1 DEF Last
        <3>2. CASE i + 1 # Len(p.cs)
            <4>1. Len(p.cs) \in 1..Len(p.cs) /\ i + 1 < Len(p.cs)
                BY <1>2, <2>1, <3>2
            <4>2. p.cs[Len(p.cs)].bottom \in Nat
                BY <4>1, FrameFacts DEF Good
            <4>3. OperandsStart(p.cs[i + 1]) < p.cs[Len(p.cs)].bottom
                BY <2>2, <4>1
            <4>. QED  BY <2>2, <4>2, <4>3 DEF Last
        <3>. QED  BY <3>1, <3>2
    <2>7. Last(p.cs).bottom \in Nat
        <3>1. Len(p.cs) \in 1..Len(p.cs)
            BY <1>2
        <3>. QED  BY <3>1, FrameFacts DEF Good, Last
    <2>8. StopOf(p, i) < Last(p.cs).bottom
        BY <2>2, <2>5, <2>6, <2>7
    <2>. QED  BY <1>1, <2>5, <2>8
<1>. QED  BY <1>3, <1>4

(* Where the code would look for a frame's locals is where they are.        *)
LEMMA FrameIs ==
    ASSUME NEW p, Good(p), NEW i \in 1..Len(p.cs)
    PROVE  FrameOf(p, i) = FrameAt(p.slots, p.cs[i], StopOf(p, i))
<1>1. /\ Len(p.cs) \in Nat /\ p.slots \in Seq(Value) /\ Len(p.slots) \in Nat /\ p.wait \in Nat
      /\ p.blk \in Nat
    BY PadFacts DEF Good, PadOK
<1>2. ASSUME NEW j \in 1..Len(p.cs)
      PROVE  StartOf(p, j) = p.cs[j].bottom
    <2>1. CASE j = Len(p.cs)
        BY <2>1 DEF Good, LocalsOK, StartOf, Last
    <2>2. CASE j # Len(p.cs)
        <3>1. j + 1 \in 2..Len(p.cs) /\ j + 1 - 1 = j
            BY <1>1, <2>2
        <3>2. p.cs[j + 1].prevOff = p.cs[j].bottom
            BY <3>1 DEF Good, LocalsOK
        <3>. QED  BY <2>2, <3>2 DEF StartOf
    <2>. QED  BY <2>1, <2>2
<1>3. FrameOf(p, i).consts = Shape[p.cs[i].callee].chunk
    <2>1. CASE i = Len(p.cs)
        BY <2>1, TopFacts DEF FrameOf, Good, Last
    <2>2. CASE i # Len(p.cs)
        <3>1. i + 1 \in 2..Len(p.cs) /\ i + 1 - 1 = i
            BY <1>1, <2>2
        <3>2. SiteOK(p.cs[i], p.cs[i + 1])
            BY <3>1 DEF Good, PadOK, SitesOK
        <3>. QED  BY <2>2, <3>2 DEF FrameOf, SiteOK
    <2>. QED  BY <2>1, <2>2
<1>4. OperandsStart(p.cs[i]) = p.cs[i].bottom + Shape[p.cs[i].callee].nlocals
    BY DEF OperandsStart
<1>5. FrameOf(p, i).locals = Seg(p.slots, p.cs[i].bottom, OperandsStart(p.cs[i]))
    BY <1>2, <1>4 DEF FrameOf, Seg
<1>6. FrameOf(p, i).opnds = Seg(p.slots, OperandsStart(p.cs[i]), StopOf(p, i))
    <2>1. CASE i = Len(p.cs)
        BY <1>2, <1>4, <2>1 DEF FrameOf, Seg, StopOf
    <2>2. CASE i # Len(p.cs)
        <3>1. i + 1 \in 1..Len(p.cs)
            BY <1>1, <2>2
        <3>. QED  BY <1>2, <1>4, <2>2, <3>1 DEF FrameOf, Seg, StopOf
    <2>. QED  BY <2>1, <2>2
<1>7. FrameOf(p, i) = [fn |-> p.cs[i].callee, consts |-> FrameOf(p, i).consts,
                       locals |-> FrameOf(p, i).locals, opnds |-> FrameOf(p, i).opnds]
    BY DEF FrameOf
<1>. QED  BY <1>3, <1>5, <1>6, <1>7 DEF FrameAt

(* A frame is what its slots are.                                           *)
LEMMA FrameSame ==
    ASSUME NEW s \in Seq(Value), NEW t \in Seq(Value), NEW site \in CallSite,
           NEW stop \in Nat, OperandsStart(site) <= stop,
           stop <= Len(s), stop <= Len(t), SameUpTo(s, t, stop)
    PROVE  FrameAt(s, site, stop) = FrameAt(t, site, stop)
<1>1. PICK b \in Nat, o \in Nat : b = site.bottom /\ o = OperandsStart(site) /\ b <= o
    BY SiteFacts
<1>2. o <= stop /\ b <= o
    BY <1>1
<1>3. Seg(s, o, stop) = Seg(t, o, stop)
    BY <1>2, SegSame
<1>4. Seg(s, b, o) = Seg(t, b, o)
    <2>1. o <= Len(s) /\ o <= Len(t)
        BY <1>2, LenProperties
    <2>2. SameUpTo(s, t, o)
        BY <1>2 DEF SameUpTo
    <2>. QED  BY <1>2, <2>1, <2>2, SegSame
<1>. QED  BY <1>1, <1>3, <1>4 DEF FrameAt

(* The frames of a pad, in order.                                           *)
AnyFrame == {FrameOf(q, i) : q \in ScratchPad, i \in Nat}

LEMMA FramesFacts ==
    ASSUME NEW p \in ScratchPad
    PROVE  /\ FramesOf(p) \in Seq(AnyFrame) /\ Len(FramesOf(p)) = Len(p.cs)
           /\ \A i \in 1..Len(p.cs) : FramesOf(p)[i] = FrameOf(p, i)
           /\ \A i \in 1..Len(p.cs) : FrameOf(p, i) \in AnyFrame
<1>1. PICK n \in Nat : n = Len(p.cs)
    BY PadFacts
<1>2. \A i \in 1..n : FrameOf(p, i) \in AnyFrame
    BY DEF AnyFrame
<1>. DEFINE F == [i \in 1..n |-> FrameOf(p, i)]
<1>3. F \in [1..n -> AnyFrame]
    BY <1>2
<1>4. F \in Seq(AnyFrame) /\ Len(F) = n
    BY <1>3
<1>5. \A i \in 1..n : F[i] = FrameOf(p, i)
    OBVIOUS
<1>6. F = FramesOf(p)
    BY <1>1 DEF FramesOf
<1>. HIDE DEF F
<1>. QED  BY <1>1, <1>2, <1>4, <1>5, <1>6

(* A frame that was not running and is not running now.                     *)
LEMMA FrameBelow ==
    ASSUME NEW p, Good(p), NEW r, Good(r), NEW i \in Nat, i >= 1,
           i < Len(p.cs), i < Len(r.cs),
           r.cs[i] = p.cs[i], r.cs[i + 1].bottom = p.cs[i + 1].bottom,
           NEW m \in Nat, p.cs[i + 1].bottom <= m + 1, SameUpTo(p.slots, r.slots, m)
    PROVE  FrameOf(r, i) = FrameOf(p, i)
<1>1. p.slots \in Seq(Value) /\ r.slots \in Seq(Value) /\ Len(p.cs) \in Nat /\ Len(r.cs) \in Nat
    BY PadFacts DEF Good, PadOK
<1>2. i \in 1..Len(p.cs) /\ i \in 1..Len(r.cs) /\ i # Len(p.cs) /\ i # Len(r.cs)
      /\ i + 1 \in 1..Len(p.cs)
    BY <1>1
<1>3. PICK stop \in Nat : stop = StopOf(p, i)
    BY <1>2, StopFacts
<1>4. stop = StopOf(r, i) /\ stop = p.cs[i + 1].bottom - 1
    BY <1>2, <1>3 DEF StopOf
<1>5. /\ OperandsStart(p.cs[i]) <= stop /\ stop <= Len(p.slots) /\ stop <= Len(r.slots)
      /\ p.cs[i] \in CallSite
    BY <1>2, <1>3, <1>4, StopFacts
<1>6. SameUpTo(p.slots, r.slots, stop)
    <2>1. p.cs[i + 1].bottom \in Nat
        BY <1>2, FrameFacts DEF Good
    <2>2. stop <= m
        BY <1>4, <2>1
    <2>. QED  BY <2>2 DEF SameUpTo
<1>7. FrameAt(p.slots, p.cs[i], stop) = FrameAt(r.slots, p.cs[i], stop)
    BY <1>1, <1>5, <1>6, FrameSame
<1>8. FrameOf(p, i) = FrameAt(p.slots, p.cs[i], stop)
    BY <1>2, <1>3, FrameIs
<1>9. FrameOf(r, i) = FrameAt(r.slots, p.cs[i], stop)
    BY <1>2, <1>4, FrameIs
<1>. QED  BY <1>7, <1>8, <1>9

(* Call sites are in the order of their frames.                             *)
LEMMA BottomsGrow ==
    ASSUME NEW p, Good(p), NEW i \in 1..Len(p.cs)
    PROVE  p.cs[i].bottom \in Nat /\ Last(p.cs).bottom \in Nat
           /\ p.cs[i].bottom <= Last(p.cs).bottom /\ Last(p.cs) = p.cs[Len(p.cs)]
           /\ p.cs[i].bottom >= 1 /\ Last(p.cs) \in CallSite
           /\ Last(p.cs).bottom <= Len(p.slots)
<1>1. Len(p.cs) \in 1..Len(p.cs) /\ Len(p.cs) \in Nat
    BY PadFacts DEF Good, PadOK
<1>2. /\ p.cs[i].bottom \in Nat /\ OperandsStart(p.cs[i]) \in Nat
      /\ p.cs[i].bottom <= OperandsStart(p.cs[i]) /\ p.cs[i].bottom >= 1
      /\ \A j \in 1..Len(p.cs) : i < j => OperandsStart(p.cs[i]) < p.cs[j].bottom
    BY FrameFacts DEF Good
<1>3. /\ p.cs[Len(p.cs)].bottom \in Nat /\ p.cs[Len(p.cs)] \in CallSite
      /\ p.cs[Len(p.cs)].bottom <= Len(p.slots)
    BY <1>1, FrameFacts DEF Good
<1>4. Last(p.cs) = p.cs[Len(p.cs)]
    BY DEF Last
<1>5. p.cs[i].bottom <= p.cs[Len(p.cs)].bottom
    <2>1. CASE i = Len(p.cs)
        BY <1>2, <2>1
    <2>2. CASE i # Len(p.cs)
        <3>1. i < Len(p.cs)
            BY <1>1, <2>2
        <3>. QED  BY <1>1, <1>2, <1>3, <3>1
    <2>. QED  BY <2>1, <2>2
<1>. QED  BY <1>2, <1>3, <1>4, <1>5

(* An instruction touches the top frame only.                               *)
LEMMA TopFrameChanged ==
    ASSUME NEW p, Good(p), NEW r, Good(r), r.cs = p.cs,
           SameUpTo(p.slots, r.slots, Last(p.cs).bottom - 1)
    PROVE  FramesOf(r) = [FramesOf(p) EXCEPT ![Len(p.cs)] = FrameOf(r, Len(p.cs))]
<1>1. PICK n \in Nat : n = Len(p.cs) /\ n >= 1
    BY PadFacts, TopFacts DEF Good, PadOK
<1>2. /\ FramesOf(p) \in Seq(AnyFrame) /\ Len(FramesOf(p)) = n
      /\ \A i \in 1..n : FramesOf(p)[i] = FrameOf(p, i)
    BY <1>1, FramesFacts DEF Good, PadOK
<1>3. /\ FramesOf(r) \in Seq(AnyFrame) /\ Len(FramesOf(r)) = n
      /\ \A i \in 1..n : FramesOf(r)[i] = FrameOf(r, i) /\ FrameOf(r, i) \in AnyFrame
    BY <1>1, FramesFacts DEF Good, PadOK
<1>4. ASSUME NEW i \in Nat, i >= 1, i < n
      PROVE  FrameOf(r, i) = FrameOf(p, i)
    <2>1. i + 1 \in 1..Len(p.cs) /\ i \in 1..Len(p.cs)
        BY <1>1, <1>4
    <2>2. PICK m \in Nat : m = Last(p.cs).bottom - 1 /\ p.cs[i + 1].bottom <= m + 1
        <3>1. /\ p.cs[i + 1].bottom \in Nat /\ Last(p.cs).bottom \in Nat
              /\ p.cs[i + 1].bottom <= Last(p.cs).bottom /\ p.cs[i + 1].bottom >= 1
            BY <2>1, BottomsGrow
        <3>2. Last(p.cs).bottom - 1 \in Nat
            BY <3>1
        <3>. QED  BY <3>1, <3>2
    <2>3. SameUpTo(p.slots, r.slots, m)
        BY <2>2
    <2>4. /\ i < Len(p.cs) /\ i < Len(r.cs) /\ r.cs[i] = p.cs[i]
          /\ r.cs[i + 1].bottom = p.cs[i + 1].bottom
        BY <1>1, <1>4
    <2>. QED  BY <1>4, <2>2, <2>3, <2>4, FrameBelow
<1>. DEFINE F == FramesOf(p)
            G == FramesOf(r)
            x == FrameOf(r, n)
            H == [F EXCEPT ![n] = x]
<1>. HIDE DEF F, G
<1>5. x \in AnyFrame
    BY <1>1, <1>3
<1>. HIDE DEF x
<1>6. H \in Seq(AnyFrame) /\ Len(H) = n /\ \A i \in 1..n : H[i] = IF i = n THEN x ELSE F[i]
    BY <1>1, <1>2, <1>5, ExceptSeq DEF F
<1>. HIDE DEF H
<1>7. \A i \in 1..n : G[i] = H[i]
    <2>. SUFFICES ASSUME NEW i \in 1..n PROVE G[i] = H[i]
        OBVIOUS
    <2>1. CASE i = n
        BY <1>3, <1>6, <2>1 DEF G, x
    <2>2. CASE i # n
        BY <1>2, <1>3, <1>4, <1>6, <2>2 DEF F, G
    <2>. QED  BY <2>1, <2>2
<1>8. G = H
    BY <1>3, <1>6, <1>7, SeqEqual DEF G
<1>. QED  BY <1>1, <1>8 DEF F, G, H, x

(* A call site more is a frame more; the caller's frame is another one now. *)
LEMMA FramePushed ==
    ASSUME NEW p, Good(p), NEW r, Good(r), NEW n \in Nat, n = Len(p.cs),
           Len(r.cs) = n + 1, \A i \in 1..n : r.cs[i] = p.cs[i],
           NEW m \in Nat, m >= Last(p.cs).bottom, SameUpTo(p.slots, r.slots, m)
    PROVE  FramesOf(r) = Append(Drop(FramesOf(p), 1) \o << FrameOf(r, n) >>, FrameOf(r, n + 1))
<1>1. n >= 1
    BY TopFacts DEF Good
<1>2. /\ FramesOf(p) \in Seq(AnyFrame) /\ Len(FramesOf(p)) = n
      /\ \A i \in 1..n : FramesOf(p)[i] = FrameOf(p, i)
    BY FramesFacts DEF Good, PadOK
<1>3. /\ FramesOf(r) \in Seq(AnyFrame) /\ Len(FramesOf(r)) = n + 1
      /\ \A i \in 1..(n + 1) : FramesOf(r)[i] = FrameOf(r, i) /\ FrameOf(r, i) \in AnyFrame
    BY FramesFacts DEF Good, PadOK
<1>4. ASSUME NEW i \in Nat, i >= 1, i < n
      PROVE  FrameOf(r, i) = FrameOf(p, i)
    <2>1. i + 1 \in 1..Len(p.cs) /\ i \in 1..n /\ i + 1 \in 1..n
        BY <1>4
    <2>2. p.cs[i + 1].bottom <= m + 1
        <3>1. /\ p.cs[i + 1].bottom \in Nat /\ Last(p.cs).bottom \in Nat
              /\ p.cs[i + 1].bottom <= Last(p.cs).bottom
            BY <2>1, BottomsGrow
        <3>. QED  BY <3>1
    <2>3. /\ i < Len(p.cs) /\ i < Len(r.cs) /\ r.cs[i] = p.cs[i]
          /\ r.cs[i + 1].bottom = p.cs[i + 1].bottom
        BY <1>4, <2>1
    <2>. QED  BY <1>4, <2>2, <2>3, FrameBelow
<1>. DEFINE F == FramesOf(p)
            G == FramesOf(r)
            x == FrameOf(r, n)
            y == FrameOf(r, n + 1)
            E == [F EXCEPT ![n] = x]
            H == Append(E, y)
<1>. HIDE DEF F, G
<1>5. x \in AnyFrame /\ y \in AnyFrame
    BY <1>1, <1>3
<1>6. G[n] = x /\ G[n + 1] = y
    BY <1>1, <1>3 DEF G
<1>. HIDE DEF x, y
<1>7. E \in Seq(AnyFrame) /\ Len(E) = n /\ \A i \in 1..n : E[i] = IF i = n THEN x ELSE F[i]
    BY <1>1, <1>2, <1>5, ExceptSeq DEF F
<1>8. Drop(F, 1) \o << x >> = E
    BY <1>1, <1>2, <1>5, LastReplaced DEF F
<1>. HIDE DEF E
<1>9. /\ H \in Seq(AnyFrame) /\ Len(H) = n + 1
      /\ \A i \in 1..n : H[i] = E[i]
      /\ H[n + 1] = y
    BY <1>5, <1>7, AppendFacts
<1>. HIDE DEF H
<1>10. \A i \in 1..(n + 1) : G[i] = H[i]
    <2>. SUFFICES ASSUME NEW i \in 1..(n + 1) PROVE G[i] = H[i]
        OBVIOUS
    <2>1. CASE i = n + 1
        BY <1>6, <1>9, <2>1
    <2>2. CASE i = n
        BY <1>1, <1>6, <1>7, <1>9, <2>2
    <2>3. CASE i # n /\ i # n + 1
        <3>1. i \in Nat /\ i >= 1 /\ i < n /\ i \in 1..n
            BY <2>3
        <3>2. G[i] = F[i]
            BY <1>2, <1>3, <1>4, <3>1 DEF F, G
        <3>. QED  BY <1>7, <1>9, <2>3, <3>1, <3>2
    <2>. QED  BY <2>1, <2>2, <2>3
<1>11. G = H
    BY <1>3, <1>9, <1>10, SeqEqual DEF G
<1>. QED  BY <1>8, <1>11 DEF F, G, H, x, y

(* A call site less is a frame less; the caller's frame is another one now. *)
LEMMA FramePopped ==
    ASSUME NEW p, Good(p), NEW r, Good(r), NEW n \in Nat, n = Len(p.cs), n >= 2,
           r.cs = Drop(p.cs, 1), SameUpTo(p.slots, r.slots, Last(p.cs).bottom - 1)
    PROVE  FramesOf(r) = [Drop(FramesOf(p), 1) EXCEPT ![n - 1] = FrameOf(r, n - 1)]
<1>1. PICK l \in Nat : l = n - 1 /\ l >= 1
    BY SMTT(30)
<1>2. /\ FramesOf(p) \in Seq(AnyFrame) /\ Len(FramesOf(p)) = n
      /\ \A i \in 1..n : FramesOf(p)[i] = FrameOf(p, i)
    BY FramesFacts DEF Good, PadOK
<1>3. Len(r.cs) = l /\ \A i \in 1..l : r.cs[i] = p.cs[i]
    <2>1. p.cs \in Seq(CallSite) /\ 1 \in 0..Len(p.cs)
        BY PadFacts DEF Good, PadOK
    <2>2. Len(r.cs) = Len(p.cs) - 1 /\ \A i \in 1..(Len(p.cs) - 1) : r.cs[i] = p.cs[i]
        BY <2>1, DropFacts, SMTT(30)
    <2>. QED  BY <1>1, <2>2
<1>4. /\ FramesOf(r) \in Seq(AnyFrame) /\ Len(FramesOf(r)) = l
      /\ \A i \in 1..l : FramesOf(r)[i] = FrameOf(r, i) /\ FrameOf(r, i) \in AnyFrame
    BY <1>3, FramesFacts DEF Good, PadOK
<1>5. ASSUME NEW i \in Nat, i >= 1, i < l
      PROVE  FrameOf(r, i) = FrameOf(p, i)
    <2>1. i + 1 \in 1..Len(p.cs) /\ i \in 1..l /\ i + 1 \in 1..l
        BY <1>1, <1>5
    <2>2. PICK m \in Nat : m = Last(p.cs).bottom - 1 /\ p.cs[i + 1].bottom <= m + 1
        <3>1. /\ p.cs[i + 1].bottom \in Nat /\ Last(p.cs).bottom \in Nat
              /\ p.cs[i + 1].bottom <= Last(p.cs).bottom /\ p.cs[i + 1].bottom >= 1
            BY <2>1, BottomsGrow
        <3>2. Last(p.cs).bottom - 1 \in Nat
            BY <3>1
        <3>. QED  BY <3>1, <3>2
    <2>3. SameUpTo(p.slots, r.slots, m)
        BY <2>2
    <2>4. /\ i < Len(p.cs) /\ i < Len(r.cs) /\ r.cs[i] = p.cs[i]
          /\ r.cs[i + 1].bottom = p.cs[i + 1].bottom
        BY <1>1, <1>3, <1>5, <2>1
    <2>. QED  BY <1>5, <2>2, <2>3, <2>4, FrameBelow
<1>. DEFINE F == FramesOf(p)
            G == FramesOf(r)
            x == FrameOf(r, l)
            D == Drop(F, 1)
            H == [D EXCEPT ![l] = x]
<1>. HIDE DEF F, G
<1>6. x \in AnyFrame /\ G[l] = x
    BY <1>1, <1>4 DEF G
<1>. HIDE DEF x
<1>7. D \in Seq(AnyFrame) /\ Len(D) = l /\ \A i \in 1..l : D[i] = F[i]
    <2>1. F \in Seq(AnyFrame) /\ Len(F) = n /\ 1 \in 0..Len(F)
        BY <1>2 DEF F
    <2>2. D \in Seq(AnyFrame) /\ Len(D) = Len(F) - 1 /\ \A i \in 1..(Len(F) - 1) : D[i] = F[i]
        BY <2>1, DropFacts
    <2>. QED  BY <1>1, <2>1, <2>2
<1>. HIDE DEF D
<1>8. H \in Seq(AnyFrame) /\ Len(H) = l /\ \A i \in 1..l : H[i] = IF i = l THEN x ELSE D[i]
    BY <1>1, <1>6, <1>7, ExceptSeq
<1>. HIDE DEF H
<1>9. \A i \in 1..l : G[i] = H[i]
    <2>. SUFFICES ASSUME NEW i \in 1..l PROVE G[i] = H[i]
        OBVIOUS
    <2>1. CASE i = l
        BY <1>6, <1>8, <2>1
    <2>2. CASE i # l
        <3>1. i \in Nat /\ i >= 1 /\ i < l /\ i \in 1..n
            BY <1>1, <2>2
        <3>2. G[i] = F[i]
            BY <1>2, <1>4, <1>5, <3>1 DEF F, G
        <3>. QED  BY <1>7, <1>8, <2>2, <3>2
    <2>. QED  BY <2>1, <2>2
<1>10. G = H
    BY <1>4, <1>8, <1>9, SeqEqual DEF G
<1>. QED  BY <1>1, <1>10 DEF F, G, H, D, x

-----------------------------------------------------------------------------
(* Evaluations, and the steps all actions are made of.                      *)

EvalsOf(ps) == [k \in 1..Len(ps) |-> EvaluationOf(ps[k])]
Evals == EvalsOf(pads)

LEMMA EvaluationIs ==
    ASSUME NEW p
    PROVE  EvaluationOf(p) = [frames |-> FramesOf(p), native |-> Tops(p.slots, p.wait)]
BY DEF EvaluationOf, FramesOf

LEMMA FramesOps ==
    ASSUME NEW s, NEW n
    PROVE  /\ Frames!Drop(s, n) = Drop(s, n) /\ Frames!Tops(s, n) = Tops(s, n)
           /\ Frames!Nils(n) = Nils(n)
BY DEF Frames!Drop, Frames!Tops, Frames!Nils, Drop, Tops, Nils

AnyEvaluation == {EvaluationOf(p) : p \in ScratchPad}

LEMMA EvalsFacts ==
    ASSUME NEW ps \in Seq(ScratchPad)
    PROVE  /\ EvalsOf(ps) \in Seq(AnyEvaluation) /\ Len(EvalsOf(ps)) = Len(ps)
           /\ \A k \in 1..Len(ps) : EvalsOf(ps)[k] = EvaluationOf(ps[k])
<1>1. PICK n \in Nat : n = Len(ps)
    OBVIOUS
<1>. DEFINE E == [k \in 1..n |-> EvaluationOf(ps[k])]
<1>2. \A k \in 1..n : EvaluationOf(ps[k]) \in AnyEvaluation
    BY <1>1 DEF AnyEvaluation
<1>3. E \in [1..n -> AnyEvaluation]
    BY <1>2
<1>4. E \in Seq(AnyEvaluation) /\ Len(E) = n
    BY <1>3
<1>5. \A k \in 1..n : E[k] = EvaluationOf(ps[k])
    OBVIOUS
<1>6. E = EvalsOf(ps)
    BY <1>1 DEF EvalsOf
<1>. HIDE DEF E
<1>. QED  BY <1>1, <1>4, <1>5, <1>6

(* The running pad's evaluation is the running evaluation.                  *)
LEMMA PadIs ==
    ASSUME IInv, pads # <<>>
    PROVE  /\ Frames!Pad = EvaluationOf(Pad) /\ Evals # <<>>
           /\ Frames!Running <=> Running
           /\ Frames!InNative <=> InNative
           /\ pads \in Seq(ScratchPad) /\ Pad \in ScratchPad
<1>1. pads \in Seq(ScratchPad) /\ Len(pads) \in 1..Len(pads)
    BY DEF IInv
<1>2. Pad = pads[Len(pads)] /\ Pad \in ScratchPad
    BY <1>1 DEF Pad, Last
<1>3. /\ Evals \in Seq(AnyEvaluation) /\ Len(Evals) = Len(pads)
      /\ Evals[Len(pads)] = EvaluationOf(Pad)
    BY <1>1, <1>2, EvalsFacts DEF Evals
<1>4. Frames!Pad = Evals[Len(Evals)]
    BY DEF Frames!Pad, Evals, EvalsOf
<1>5. Evals # <<>>
    BY <1>1, <1>3
<1>6. EvaluationOf(Pad).native = Tops(Pad.slots, Pad.wait)
    BY EvaluationIs
<1>7. Tops(Pad.slots, Pad.wait) = <<>> <=> Pad.wait = 0
    <2>1. /\ PadOK(Pad) /\ Pad.slots \in Seq(Value) /\ Pad.wait \in Nat
          /\ Len(Pad.slots) \in Nat
        BY <1>2, PadInv, PadFacts
    <2>2. Pad.wait <= Len(Pad.slots)
        <3>1. /\ TopAt(Pad, OperandsStart(Last(Pad.cs))) /\ Last(Pad.cs) \in CallSite
            BY <2>1, TopFacts
        <3>2. PICK l \in Nat, o \in Nat, w \in Nat, d \in Nat, x \in Nat :
                 /\ l = Len(Pad.slots) /\ o = OperandsStart(Last(Pad.cs))
                 /\ w = Pad.wait /\ d = Pad.ip.depth /\ x = Pad.ip.nargs
            BY <1>2, <2>1, <3>1, PadFacts, SiteFacts
        <3>3. w # 0 => x < d /\ l = o + d - x + w - 1
            BY <3>1, <3>2 DEF TopAt
        <3>4. w <= l
            BY <3>3, SMTT(30)
        <3>. QED  BY <3>2, <3>4
    <2>4. Pad.wait \in 0..Len(Pad.slots)
        BY <2>1, <2>2
    <2>5. Tops(Pad.slots, Pad.wait) \in Seq(Value) /\ Len(Tops(Pad.slots, Pad.wait)) = Pad.wait
        BY <2>1, <2>4, TopsFacts
    <2>. QED  BY <2>1, <2>5
<1>8. Frames!Pad = EvaluationOf(Pad)
    BY <1>3, <1>4
<1>9. /\ Frames!Running <=> (Evals # <<>> /\ ret = None /\ Frames!Pad.native = <<>>)
      /\ Frames!InNative <=> (Evals # <<>> /\ ret = None /\ Frames!Pad.native # <<>>)
    BY DEF Frames!Running, Frames!InNative, Evals, EvalsOf
<1>10. Pad.wait \in Nat
    BY <1>2, PadFacts
<1>11. Pad.wait = 0 <=> ~ (Pad.wait > 0)
    BY <1>10
<1>. QED
    BY <1>1, <1>2, <1>5, <1>6, <1>7, <1>8, <1>9, <1>11 DEF Running, InNative

(* Changing the running pad changes the running evaluation.                 *)
LEMMA SetPadStep ==
    ASSUME IInv, pads # <<>>, NEW r \in ScratchPad, SetPad(r)
    PROVE  Frames!SetPad(EvaluationOf(r))
<1>1. PICK n \in Nat : n = Len(pads) /\ n >= 1
    BY DEF IInv
<1>2. pads \in Seq(ScratchPad) /\ pads' = [pads EXCEPT ![n] = r] /\ ret' = None
    BY <1>1 DEF IInv, SetPad
<1>3. /\ pads' \in Seq(ScratchPad) /\ Len(pads') = n
      /\ \A k \in 1..n : pads'[k] = IF k = n THEN r ELSE pads[k]
    BY <1>1, <1>2, ExceptSeq
<1>. DEFINE E == EvalsOf(pads)
            G == EvalsOf(pads')
            e == EvaluationOf(r)
            H == [E EXCEPT ![n] = e]
<1>4. E \in Seq(AnyEvaluation) /\ Len(E) = n /\ \A k \in 1..n : E[k] = EvaluationOf(pads[k])
    BY <1>1, <1>2, EvalsFacts
<1>5. G \in Seq(AnyEvaluation) /\ Len(G) = n /\ \A k \in 1..n : G[k] = EvaluationOf(pads'[k])
    BY <1>3, EvalsFacts
<1>6. e \in AnyEvaluation
    BY DEF AnyEvaluation
<1>7. \A k \in 1..n : G[k] = IF k = n THEN e ELSE E[k]
    BY <1>3, <1>4, <1>5
<1>. HIDE DEF E, G, e
<1>8. H \in Seq(AnyEvaluation) /\ Len(H) = n /\ \A k \in 1..n : H[k] = IF k = n THEN e ELSE E[k]
    BY <1>1, <1>4, <1>6, ExceptSeq
<1>. HIDE DEF H
<1>9. G = H
    BY <1>5, <1>7, <1>8, SeqEqual
<1>10. G = [E EXCEPT ![Len(E)] = e] /\ ret' = None
    BY <1>2, <1>4, <1>9 DEF H
<1>. QED  BY <1>10 DEF Frames!SetPad, E, G, e, EvalsOf

(* The end of the running evaluation.                                       *)
LEMMA PopStep ==
    ASSUME IInv, pads # <<>>, pads' = Drop(pads, 1)
    PROVE  Evals' = Frames!Drop(Evals, 1)
<1>1. PICK n \in Nat : n = Len(pads) /\ n >= 1
    BY DEF IInv
<1>2. pads \in Seq(ScratchPad) /\ 1 \in 0..Len(pads)
    BY <1>1 DEF IInv
<1>3. /\ pads' \in Seq(ScratchPad) /\ Len(pads') = n - 1
      /\ \A k \in 1..(n - 1) : pads'[k] = pads[k]
    BY <1>1, <1>2, DropFacts
<1>. DEFINE E == EvalsOf(pads)
            G == EvalsOf(pads')
            D == Drop(E, 1)
<1>4. E \in Seq(AnyEvaluation) /\ Len(E) = n /\ \A k \in 1..n : E[k] = EvaluationOf(pads[k])
    BY <1>1, <1>2, EvalsFacts
<1>5. G \in Seq(AnyEvaluation) /\ Len(G) = n - 1 /\ \A k \in 1..(n - 1) : G[k] = EvaluationOf(pads'[k])
    BY <1>3, EvalsFacts
<1>. HIDE DEF E, G
<1>6. D \in Seq(AnyEvaluation) /\ Len(D) = n - 1 /\ \A k \in 1..(n - 1) : D[k] = E[k]
    <2>1. 1 \in 0..Len(E)
        BY <1>1, <1>4
    <2>2. D \in Seq(AnyEvaluation) /\ Len(D) = Len(E) - 1 /\ \A k \in 1..(Len(E) - 1) : D[k] = E[k]
        BY <1>4, <2>1, DropFacts
    <2>. QED  BY <1>4, <2>2
<1>. HIDE DEF D
<1>7. \A k \in 1..(n - 1) : k \in 1..n
    OBVIOUS
<1>8. G = D
    BY <1>3, <1>4, <1>5, <1>6, <1>7, SeqEqual
<1>9. Evals' = G /\ Evals = E
    BY DEF Evals, E, G
<1>. QED  BY <1>8, <1>9, FramesOps DEF D

LEMMA UnwindStep ==
    ASSUME IInv, pads # <<>>, Unwind
    PROVE  Frames!Unwind
<1>1. Evals' = Frames!Drop(Evals, 1) /\ ret' = Failed
    BY PopStep DEF Unwind
<1>. QED  BY <1>1 DEF Frames!Unwind, Evals, EvalsOf

(* A fresh pad is one frame, of a function without arguments.               *)
LEMMA FreshEvaluation ==
    ASSUME NEW f \in Func, Main(f), NEW r \in FreshPad(f)
    PROVE  /\ r \in ScratchPad
           /\ EvaluationOf(r) = [frames |-> << Frames!NewFrame(f, <<>>) >>, native |-> <<>>]
<1>1. Good(r) /\ r.wait = 0 /\ r \in ScratchPad
    BY FreshOK, FreshLocals DEF Good, PadOK
<1>2. PICK e \in Ensure(EmptyPad(f), Shape[f].maxstack + Shape[f].nlocals + 1) :
         r = Started(Pushed(e, <<f>>), f, OutermostSite(f))
    BY DEF FreshPad
<1>3. e \in ScratchPad /\ e.slots = <<>> /\ e.cs = <<>>
    <2>1. Shape[f].maxstack + Shape[f].nlocals + 1 \in Nat
        BY ShapeFacts
    <2>2. EmptyPad(f) \in ScratchPad
        <3>1. /\ [fn |-> f, depth |-> 0, nargs |-> 0] \in Ip
              /\ [blk |-> 0, off |-> 1] \in Pointer
            BY DEF Ip, Pointer
        <3>2. <<>> \in Seq(Value) /\ <<>> \in Seq(CallSite)
            OBVIOUS
        <3>. QED BY <3>1, <3>2, ShapeFacts DEF EmptyPad, ScratchPad
    <2>3. EmptyPad(f).cs = <<>> /\ EmptyPad(f).slots = <<>>
        BY DEF EmptyPad
    <2>. QED  BY <2>1, <2>2, <2>3, EnsureFacts
<1>. DEFINE h == Pushed(e, <<f>>)
<1>4. h.slots = <<>> \o <<f>> /\ h.cs = <<>>
    BY <1>3 DEF Pushed, ScratchPad
<1>5. r = Started(h, f, OutermostSite(f))
    BY <1>2
<1>. HIDE DEF h
<1>6. PICK k \in Nat : k = Shape[f].nlocals /\ k = NVars(f)
    <2>1. Params(f) = 0
        BY ShapeFacts DEF Main, Params, Gathers, Required
    <2>. QED  BY <2>1, ShapeFacts DEF NVars
<1>7. <<f>> \in Seq(Value) /\ Len(<<f>>) = 1 /\ Nils(k) \in Seq(Value) /\ Len(Nils(k)) = k
    BY ShapeFacts, NilsFacts
<1>8. r.slots = <<f>> \o Nils(k) /\ r.cs = << OutermostSite(f) >>
    <2>1. <<>> \o <<f>> = <<f>>
        BY <1>7, ConcatEmptySeq
    <2>. QED  BY <1>4, <1>5, <1>6, <2>1 DEF Started
<1>9. Len(r.slots) = 1 + k
    BY <1>7, <1>8, ConcatProperties
<1>10. /\ Len(r.cs) = 1 /\ r.cs[1] = OutermostSite(f) /\ OutermostSite(f).bottom = 1
       /\ OutermostSite(f).callee = f /\ OperandsStart(OutermostSite(f)) = 1 + k
    <2>1. Len(r.cs) = 1 /\ r.cs[1] = OutermostSite(f)
        BY <1>8
    <2>2. OutermostSite(f).bottom = 1 /\ OutermostSite(f).callee = f
        BY DEF OutermostSite
    <2>. QED  BY <1>6, <2>1, <2>2 DEF OperandsStart
<1>11. StopOf(r, 1) = 1 + k
    BY <1>1, <1>9, <1>10 DEF StopOf
<1>12. FrameOf(r, 1) = FrameAt(r.slots, OutermostSite(f), 1 + k)
    BY <1>1, <1>10, <1>11, FrameIs
<1>13. Seg(r.slots, 1, 1 + k) = Nils(k)
    <2>1. Seg(<<f>> \o Nils(k), Len(<<f>>), Len(<<f>> \o Nils(k))) = Nils(k)
        BY <1>7, SegTail
    <2>. QED  BY <1>7, <1>8, <1>9, <2>1
<1>14. Seg(r.slots, 1 + k, 1 + k) = <<>>
    <2>1. 1 + k + 1 \in Int /\ 1 + k \in Int /\ 1 + k < 1 + k + 1
        OBVIOUS
    <2>2. SubSeq(r.slots, 1 + k + 1, 1 + k) = <<>>
        BY <2>1, SubSeqEmpty
    <2>. QED  BY <2>2 DEF Seg
<1>15. FrameOf(r, 1) = [fn |-> f, consts |-> Shape[f].chunk, locals |-> Nils(k), opnds |-> <<>>]
    BY <1>10, <1>12, <1>13, <1>14 DEF FrameAt
<1>16. Frames!NewFrame(f, <<>>) = FrameOf(r, 1)
    <2>1. <<>> \o Nils(k) = Nils(k)
        BY <1>7, ConcatEmptySeq
    <2>2. Len(<<>>) = 0 /\ k - 0 = k
        OBVIOUS
    <2>3. Frames!NewFrame(f, <<>>) =
             [fn |-> f, consts |-> Shape[f].chunk,
              locals |-> <<>> \o Frames!Nils(k - Len(<<>>)), opnds |-> <<>>]
        BY <1>6 DEF Frames!NewFrame
    <2>. QED  BY <1>15, <2>1, <2>2, <2>3, FramesOps
<1>17. FramesOf(r) = << FrameOf(r, 1) >>
    BY <1>10 DEF FramesOf
<1>18. Tops(r.slots, r.wait) = <<>>
    <2>1. r.slots \in Seq(Value) /\ Len(r.slots) \in Int
        BY <1>1, PadFacts
    <2>2. SubSeq(r.slots, Len(r.slots) - 0 + 1, Len(r.slots)) = <<>>
        BY <2>1, SubSeqEmpty
    <2>. QED  BY <1>1, <2>2 DEF Tops
<1>. QED  BY <1>1, <1>16, <1>17, <1>18, EvaluationIs

LEMMA BeginStep ==
    ASSUME IInv, NEW f \in Func, Main(f), Begin(f)
    PROVE  Frames!Begin(f)
<1>1. PICK r \in FreshPad(f) : pads' = Append(pads, r) /\ ret' = None
    BY DEF Begin
<1>. DEFINE E == EvalsOf(pads)
            G == EvalsOf(pads')
            e == EvaluationOf(r)
<1>2. r \in ScratchPad /\ e = [frames |-> << Frames!NewFrame(f, <<>>) >>, native |-> <<>>]
    BY FreshEvaluation
<1>3. PICK n \in Nat : n = Len(pads) /\ pads \in Seq(ScratchPad)
    BY DEF IInv
<1>4. /\ pads' \in Seq(ScratchPad) /\ Len(pads') = n + 1 /\ pads'[n + 1] = r
      /\ \A k \in 1..n : pads'[k] = pads[k]
    BY <1>1, <1>2, <1>3, AppendFacts
<1>5. E \in Seq(AnyEvaluation) /\ Len(E) = n /\ \A k \in 1..n : E[k] = EvaluationOf(pads[k])
    BY <1>3, EvalsFacts
<1>6. G \in Seq(AnyEvaluation) /\ Len(G) = n + 1
      /\ \A k \in 1..(n + 1) : G[k] = EvaluationOf(pads'[k])
    BY <1>4, EvalsFacts
<1>7. e \in AnyEvaluation
    BY <1>2 DEF AnyEvaluation
<1>8. G[n + 1] = e /\ \A k \in 1..n : G[k] = E[k]
    BY <1>4, <1>5, <1>6
<1>. HIDE DEF E, G, e
<1>. DEFINE H == Append(E, e)
<1>9. H \in Seq(AnyEvaluation) /\ Len(H) = n + 1 /\ H[n + 1] = e /\ \A k \in 1..n : H[k] = E[k]
    BY <1>5, <1>7, AppendFacts
<1>. HIDE DEF H
<1>10. \A k \in 1..(n + 1) : G[k] = H[k]
    BY <1>8, <1>9
<1>11. G = H
    BY <1>6, <1>9, <1>10, SeqEqual
<1>12. G = Append(E, [frames |-> << Frames!NewFrame(f, <<>>) >>, native |-> <<>>]) /\ ret' = None
    BY <1>1, <1>2, <1>11 DEF H
<1>. QED  BY <1>12 DEF Frames!Begin, E, G, EvalsOf

-----------------------------------------------------------------------------
(* Instructions.                                                            *)

LEMMA LInvPad ==
    ASSUME LInv, pads # <<>>
    PROVE  Good(Pad) /\ IInv
<1>1. pads \in Seq(ScratchPad) /\ Len(pads) \in 1..Len(pads) /\ IInv
    BY DEF LInv, IInv
<1>2. LocalsOK(pads[Len(pads)])
    BY <1>1 DEF LInv
<1>. QED  BY <1>1, <1>2, PadInv DEF Good, Pad, Last

LEMMA GoodNext ==
    ASSUME LInv, LInv', pads # <<>>, NEW r \in ScratchPad, SetPad(r)
    PROVE  Good(r)
<1>1. PICK n \in Nat : n = Len(pads) /\ n >= 1 /\ pads \in Seq(ScratchPad)
    BY DEF LInv, IInv
<1>2. pads' = [pads EXCEPT ![n] = r]
    BY <1>1 DEF SetPad
<1>3. Len(pads') = n /\ pads'[n] = r
    BY <1>1, <1>2, ExceptSeq
<1>4. \A k \in 1..Len(pads') : PadOK(pads'[k]) /\ LocalsOK(pads'[k])
    BY DEF LInv, IInv
<1>. QED  BY <1>1, <1>3, <1>4 DEF Good

(* The top frame of a pad, its site and what it ends with.                  *)
LEMMA TopFrame ==
    ASSUME NEW p, Good(p)
    PROVE  LET site == Last(p.cs)
           IN  /\ site \in CallSite /\ site = p.cs[Len(p.cs)] /\ Len(p.cs) \in 1..Len(p.cs)
               /\ site.bottom \in Nat /\ site.bottom >= 1
               /\ OperandsStart(site) \in Nat /\ site.bottom <= OperandsStart(site)
               /\ Len(p.slots) - p.wait \in Nat /\ OperandsStart(site) <= Len(p.slots) - p.wait
               /\ Len(p.slots) - p.wait <= Len(p.slots) /\ Len(p.slots) \in Nat
               /\ p.slots \in Seq(Value) /\ p \in ScratchPad /\ p.wait \in Nat
               /\ FrameOf(p, Len(p.cs)) = FrameAt(p.slots, site, Len(p.slots) - p.wait)
<1>1. /\ p \in ScratchPad /\ p.slots \in Seq(Value) /\ Len(p.slots) \in Nat /\ p.wait \in Nat
      /\ Len(p.cs) \in Nat
    BY PadFacts DEF Good, PadOK
<1>2. Len(p.cs) \in 1..Len(p.cs) /\ Last(p.cs) = p.cs[Len(p.cs)]
    BY <1>1, TopFacts DEF Good
<1>3. StopOf(p, Len(p.cs)) = Len(p.slots) - p.wait
    BY DEF StopOf
<1>4. /\ StopOf(p, Len(p.cs)) \in Nat /\ StopOf(p, Len(p.cs)) <= Len(p.slots)
      /\ OperandsStart(p.cs[Len(p.cs)]) \in Nat
      /\ OperandsStart(p.cs[Len(p.cs)]) <= StopOf(p, Len(p.cs))
      /\ p.cs[Len(p.cs)].bottom \in Nat
      /\ p.cs[Len(p.cs)].bottom <= OperandsStart(p.cs[Len(p.cs)])
      /\ p.cs[Len(p.cs)] \in CallSite
    BY <1>2, StopFacts
<1>5. p.cs[Len(p.cs)].bottom >= 1
    BY <1>2, BottomsGrow
<1>6. FrameOf(p, Len(p.cs)) = FrameAt(p.slots, p.cs[Len(p.cs)], StopOf(p, Len(p.cs)))
    BY <1>2, FrameIs
<1>. QED  BY <1>1, <1>2, <1>3, <1>4, <1>5, <1>6

(* The running frame.                                                       *)
LEMMA RunningFacts ==
    ASSUME LInv, Running
    PROVE  /\ Good(Pad) /\ IInv /\ pads # <<>> /\ Pad.wait = 0 /\ Frames!Running
           /\ Frames!Pad = [frames |-> FramesOf(Pad), native |-> <<>>]
           /\ Len(FramesOf(Pad)) = Len(Pad.cs)
           /\ Frames!Fr = FrameAt(Pad.slots, Last(Pad.cs), Len(Pad.slots))
           /\ Frames!Fr.opnds \in Seq(Value) /\ Len(Frames!Fr.opnds) = Pad.ip.depth
           /\ \A j \in 1..Pad.ip.depth :
                 Frames!Fr.opnds[j] = Pad.slots[OperandsStart(Last(Pad.cs)) + j]
           /\ Pad.ip.depth \in Nat
           /\ Len(Pad.slots) = OperandsStart(Last(Pad.cs)) + Pad.ip.depth
<1>1. pads # <<>> /\ ret = None /\ Pad.wait = 0
    BY DEF Running
<1>2. Good(Pad) /\ IInv
    BY <1>1, LInvPad
<1>3. Frames!Pad = EvaluationOf(Pad) /\ Frames!Running
    BY <1>1, <1>2, PadIs
<1>4. /\ Pad \in ScratchPad /\ Pad.slots \in Seq(Value) /\ Len(Pad.slots) \in Nat
      /\ Pad.ip.depth \in Nat
    BY <1>2, PadFacts DEF Good, PadOK
<1>5. Tops(Pad.slots, 0) = <<>>
    <2>1. SubSeq(Pad.slots, Len(Pad.slots) - 0 + 1, Len(Pad.slots)) = <<>>
        BY <1>4, SubSeqEmpty
    <2>. QED  BY <2>1 DEF Tops
<1>6. Frames!Pad = [frames |-> FramesOf(Pad), native |-> <<>>]
    BY <1>1, <1>3, <1>5, EvaluationIs
<1>7. /\ Len(FramesOf(Pad)) = Len(Pad.cs)
      /\ \A i \in 1..Len(Pad.cs) : FramesOf(Pad)[i] = FrameOf(Pad, i)
    BY <1>4, FramesFacts
<1>8. /\ Len(Pad.cs) \in 1..Len(Pad.cs)
      /\ OperandsStart(Last(Pad.cs)) \in Nat
      /\ OperandsStart(Last(Pad.cs)) <= Len(Pad.slots) - Pad.wait
      /\ FrameOf(Pad, Len(Pad.cs)) = FrameAt(Pad.slots, Last(Pad.cs), Len(Pad.slots) - Pad.wait)
    BY <1>2, TopFrame
<1>9. Len(Pad.slots) - 0 = Len(Pad.slots)
    BY <1>4
<1>10. Frames!Fr = FrameOf(Pad, Len(Pad.cs))
    <2>1. Frames!Fr = Frames!Pad.frames[Len(Frames!Pad.frames)]
        BY DEF Frames!Fr
    <2>. QED  BY <1>6, <1>7, <1>8, <2>1
<1>11. Frames!Fr = FrameAt(Pad.slots, Last(Pad.cs), Len(Pad.slots))
    BY <1>1, <1>8, <1>9, <1>10
<1>12. Frames!Fr.opnds = Seg(Pad.slots, OperandsStart(Last(Pad.cs)), Len(Pad.slots))
    BY <1>11 DEF FrameAt
<1>13. Len(Pad.slots) = OperandsStart(Last(Pad.cs)) + Pad.ip.depth
    BY <1>1, <1>2, TopFacts DEF Good, TopAt
<1>14. PICK o \in Nat, l \in Nat, d \in Nat :
          o = OperandsStart(Last(Pad.cs)) /\ l = Len(Pad.slots) /\ d = Pad.ip.depth
          /\ l = o + d
    BY <1>4, <1>8, <1>13
<1>15. Seg(Pad.slots, o, l) \in Seq(Value) /\ Len(Seg(Pad.slots, o, l)) = l - o
       /\ \A j \in 1..(l - o) : Seg(Pad.slots, o, l)[j] = Pad.slots[o + j]
    <2>1. o <= l /\ l <= Len(Pad.slots)
        BY <1>14
    <2>2. Pad.slots \in Seq(Value)
        BY <1>4
    <2>. QED  BY <2>1, <2>2, SegFacts, ZenonT(30)
<1>16. l - o = d
    BY <1>14
<1>17. Frames!Fr.opnds = Seg(Pad.slots, o, l)
    BY <1>12, <1>14
<1>18. /\ Frames!Fr.opnds \in Seq(Value) /\ Len(Frames!Fr.opnds) = Pad.ip.depth
       /\ \A j \in 1..Pad.ip.depth :
             Frames!Fr.opnds[j] = Pad.slots[OperandsStart(Last(Pad.cs)) + j]
    <2>1. /\ Frames!Fr.opnds \in Seq(Value) /\ Len(Frames!Fr.opnds) = d
          /\ \A j \in 1..d : Frames!Fr.opnds[j] = Pad.slots[o + j]
        BY <1>15, <1>16, <1>17
    <2>. QED  BY <1>14, <2>1
<1>. QED  BY <1>1, <1>2, <1>3, <1>4, <1>6, <1>7, <1>11, <1>13, <1>18

(* A frame whose locals are where they were and hold what they held.        *)
LEMMA OperandsReplaced ==
    ASSUME NEW s \in Seq(Value), NEW t \in Seq(Value), NEW site \in CallSite,
           NEW stop, NEW stop2, OperandsStart(site) <= Len(s), OperandsStart(site) <= Len(t),
           SameUpTo(s, t, OperandsStart(site))
    PROVE  FrameAt(t, site, stop2) =
              [FrameAt(s, site, stop) EXCEPT !.opnds = Seg(t, OperandsStart(site), stop2)]
<1>1. PICK b \in Nat, o \in Nat : b = site.bottom /\ o = OperandsStart(site) /\ b <= o
    BY SiteFacts
<1>2. b <= o /\ o <= Len(s) /\ o <= Len(t) /\ SameUpTo(s, t, o)
    BY <1>1
<1>3. Seg(s, b, o) = Seg(t, b, o)
    BY <1>2, SegSame
<1>. QED  BY <1>1, <1>3 DEF FrameAt

(* Changing the top frame.                                                  *)
LEMMA SetFrameStep ==
    ASSUME LInv, LInv', Running, NEW r \in ScratchPad, SetPad(r),
           r.cs = Pad.cs, r.wait = 0,
           SameUpTo(Pad.slots, r.slots, Last(Pad.cs).bottom - 1)
    PROVE  Frames!SetFrame(FrameAt(r.slots, Last(Pad.cs), Len(r.slots)))
<1>1. /\ Good(Pad) /\ IInv /\ pads # <<>>
      /\ Frames!Pad = [frames |-> FramesOf(Pad), native |-> <<>>]
      /\ Len(FramesOf(Pad)) = Len(Pad.cs)
    BY RunningFacts
<1>2. Good(r)
    BY <1>1, GoodNext
<1>. DEFINE x == FrameAt(r.slots, Last(Pad.cs), Len(r.slots))
            n == Len(Pad.cs)
<1>3. x = FrameOf(r, n)
    <2>1. FrameOf(r, Len(r.cs)) = FrameAt(r.slots, Last(r.cs), Len(r.slots) - r.wait)
          /\ Len(r.slots) \in Nat
        BY <1>2, TopFrame
    <2>2. Len(r.slots) - 0 = Len(r.slots)
        BY <2>1
    <2>. QED  BY <2>1, <2>2
<1>4. FramesOf(r) = [FramesOf(Pad) EXCEPT ![n] = x]
    BY <1>1, <1>2, <1>3, TopFrameChanged
<1>5. Tops(r.slots, r.wait) = <<>>
    <2>1. r.slots \in Seq(Value) /\ Len(r.slots) \in Int
        BY PadFacts
    <2>2. SubSeq(r.slots, Len(r.slots) - 0 + 1, Len(r.slots)) = <<>>
        BY <2>1, SubSeqEmpty
    <2>. QED  BY <2>2 DEF Tops
<1>. HIDE DEF x, n
<1>6. EvaluationOf(r) = [frames |-> [FramesOf(Pad) EXCEPT ![n] = x], native |-> <<>>]
    BY <1>4, <1>5, EvaluationIs
<1>7. EvaluationOf(r) = [Frames!Pad EXCEPT !.frames[Len(Frames!Pad.frames)] = x]
    <2>. DEFINE F == FramesOf(Pad)
                P == Frames!Pad
    <2>1. P = [frames |-> F, native |-> <<>>] /\ Len(F) = n
        BY <1>1 DEF n
    <2>2. EvaluationOf(r) = [frames |-> [F EXCEPT ![n] = x], native |-> <<>>]
        BY <1>6
    <2>. HIDE DEF F, P
    <2>3. EvaluationOf(r) = [P EXCEPT !.frames[Len(P.frames)] = x]
        BY <2>1, <2>2
    <2>. QED  BY <2>3 DEF P
<1>8. Frames!SetPad(EvaluationOf(r))
    BY <1>1, SetPadStep
<1>. QED  BY <1>7, <1>8 DEF Frames!SetFrame, x

(* A frame, part by part.                                                   *)
FrameOfParts(fn, consts, locals, opnds) ==
    [fn |-> fn, consts |-> consts, locals |-> locals, opnds |-> opnds]

(* Instructions on operands.                                                *)
LEMMA OperateStep ==
    ASSUME LInv, LInv', NEW take \in Nat, NEW given \in Seq(Value), Operate(take, given)
    PROVE  Frames!Instruction(take, given) /\ take \in 0..Len(Frames!Fr.opnds)
<1>1. Running /\ take <= Pad.ip.depth
    BY DEF Operate, LInv, IInv
<1>2. /\ Good(Pad) /\ pads # <<>> /\ Frames!Running
      /\ Frames!Fr = FrameAt(Pad.slots, Last(Pad.cs), Len(Pad.slots))
      /\ Len(Frames!Fr.opnds) = Pad.ip.depth /\ Pad.ip.depth \in Nat
      /\ Len(Pad.slots) = OperandsStart(Last(Pad.cs)) + Pad.ip.depth
    BY <1>1, RunningFacts
<1>3. /\ Last(Pad.cs) \in CallSite /\ Last(Pad.cs).bottom \in Nat
      /\ OperandsStart(Last(Pad.cs)) \in Nat
      /\ Last(Pad.cs).bottom <= OperandsStart(Last(Pad.cs))
      /\ Pad.slots \in Seq(Value) /\ Pad \in ScratchPad
    BY <1>2, TopFrame
<1>. DEFINE depth == Pad.ip.depth - take + Len(given)
            s == Drop(Pad.slots, take) \o given
            r == [Pad EXCEPT !.slots = s, !.ip.depth = depth]
<1>4. SetPad(r)
    BY DEF Operate
<1>5. PICK o \in Nat, l \in Nat : o = OperandsStart(Last(Pad.cs)) /\ l = Len(Pad.slots)
                                  /\ o + take <= l
    BY <1>1, <1>2, <1>3
<1>6. Len(s) = Len(Pad.slots) - take + Len(given)
      /\ Seg(s, o, Len(s)) = Drop(Seg(Pad.slots, o, Len(Pad.slots)), take) \o given
    <2>1. o + take <= Len(Pad.slots)
        BY <1>5
    <2>. QED  BY <1>3, <2>1, SegReplaced
<1>7. s \in Seq(Value) /\ o <= Len(s) /\ SameUpTo(Pad.slots, s, o)
    <2>. DEFINE d == Drop(Pad.slots, take)
    <2>1. take \in 0..Len(Pad.slots)
        BY <1>5
    <2>2. /\ d \in Seq(Value) /\ Len(d) = Len(Pad.slots) - take
          /\ \A i \in 1..(Len(Pad.slots) - take) : d[i] = Pad.slots[i]
        BY <1>3, <2>1, DropFacts
    <2>. HIDE DEF d
    <2>3. /\ d \o given \in Seq(Value) /\ Len(d \o given) = Len(d) + Len(given)
          /\ \A i \in 1..(Len(d) + Len(given)) :
                (d \o given)[i] = IF i <= Len(d) THEN d[i] ELSE given[i - Len(d)]
        BY <2>2, ConcatProperties
    <2>4. PICK k \in Nat, g \in Nat : k = Len(d) /\ k = l - take /\ o <= k /\ g = Len(given)
        BY <1>5, <2>2
    <2>5. \A i \in 1..o : i \in 1..k /\ i \in 1..(k + g) /\ i <= k
        BY <2>4
    <2>6. \A i \in 1..o : (d \o given)[i] = Pad.slots[i]
        BY <1>5, <2>2, <2>3, <2>4, <2>5
    <2>7. o <= Len(d \o given)
        BY <2>3, <2>4
    <2>. QED  BY <2>3, <2>6, <2>7 DEF d, SameUpTo
<1>. HIDE DEF s
<1>8. depth \in Nat
    BY <1>1, <1>2
<1>. HIDE DEF depth
<1>9. r \in ScratchPad /\ r.cs = Pad.cs /\ r.wait = 0 /\ r.slots = s
    <2>1. Pad.wait = 0 /\ [Pad.ip EXCEPT !.depth = depth] \in Ip
        BY <1>1, <1>3, <1>8, PadFacts DEF Running, Ip
    <2>. QED  BY <1>3, <1>7, <1>8, <2>1 DEF ScratchPad
<1>. HIDE DEF r
<1>10. SameUpTo(Pad.slots, r.slots, Last(Pad.cs).bottom - 1)
    <2>1. \A i \in 1..(Last(Pad.cs).bottom - 1) : i \in 1..o
        BY <1>3, <1>5
    <2>. QED  BY <1>7, <1>9, <2>1 DEF SameUpTo
<1>11. Frames!SetFrame(FrameAt(r.slots, Last(Pad.cs), Len(r.slots)))
    BY <1>1, <1>4, <1>9, <1>10, SetFrameStep
<1>12. FrameAt(s, Last(Pad.cs), Len(s)) =
          [FrameAt(Pad.slots, Last(Pad.cs), Len(Pad.slots)) EXCEPT !.opnds = Seg(s, o, Len(s))]
    <2>1. OperandsStart(Last(Pad.cs)) <= Len(Pad.slots) /\ OperandsStart(Last(Pad.cs)) <= Len(s)
          /\ SameUpTo(Pad.slots, s, OperandsStart(Last(Pad.cs)))
        BY <1>5, <1>7
    <2>. QED  BY <1>3, <1>5, <1>7, <2>1, OperandsReplaced
<1>13. Frames!Fr.opnds = Seg(Pad.slots, o, Len(Pad.slots))
    BY <1>2, <1>5 DEF FrameAt
<1>14. FrameAt(s, Last(Pad.cs), Len(s)) =
          [Frames!Fr EXCEPT !.opnds = Frames!Drop(Frames!Fr.opnds, take) \o given]
    <2>1. Seg(s, o, Len(s)) = Frames!Drop(Frames!Fr.opnds, take) \o given
        BY <1>6, <1>13, FramesOps
    <2>. QED  BY <1>2, <1>12, <2>1
<1>15. Len(Frames!Fr.opnds) >= take /\ take \in 0..Len(Frames!Fr.opnds)
    BY <1>1, <1>2
<1>16. Frames!SetFrame([Frames!Fr EXCEPT !.opnds = Frames!Drop(Frames!Fr.opnds, take) \o given])
    BY <1>9, <1>11, <1>14
<1>17. [Frames!Fr EXCEPT !.opnds = Frames!Drop(@, take) \o given] =
          [Frames!Fr EXCEPT !.opnds = Frames!Drop(Frames!Fr.opnds, take) \o given]
    OBVIOUS
<1>. QED  BY <1>2, <1>15, <1>16, <1>17 DEF Frames!Instruction

(* Stores to locals.                                                        *)
LEMMA WriteLocalStep ==
    ASSUME LInv, LInv', Running, NEW i \in 1..Shape[Pad.ip.fn].nlocals, NEW v \in Value,
           WriteLocal(i, v)
    PROVE  Frames!SetLocal(i, v) /\ i \in DOMAIN Frames!Fr.locals
<1>2. /\ Good(Pad) /\ pads # <<>> /\ Frames!Running /\ Pad.wait = 0
      /\ Frames!Fr = FrameAt(Pad.slots, Last(Pad.cs), Len(Pad.slots))
      /\ Len(Frames!Fr.opnds) = Pad.ip.depth /\ Pad.ip.depth \in Nat /\ Pad.ip.depth >= 1
      /\ Len(Pad.slots) = OperandsStart(Last(Pad.cs)) + Pad.ip.depth
      /\ Frames!Fr.opnds \in Seq(Value)
    BY RunningFacts DEF WriteLocal
<1>3. /\ Last(Pad.cs) \in CallSite /\ Last(Pad.cs).bottom \in Nat
      /\ OperandsStart(Last(Pad.cs)) \in Nat
      /\ Last(Pad.cs).bottom <= OperandsStart(Last(Pad.cs))
      /\ Pad.slots \in Seq(Value) /\ Pad \in ScratchPad
    BY <1>2, TopFrame
<1>4. LocalsValid(Pad) /\ Pad.locals.off = Last(Pad.cs).bottom
    BY <1>2, <1>3 DEF Good, LocalsOK, LocalsValid, Wild
<1>5. PICK b \in Nat, o \in Nat, l \in Nat, k \in Nat :
         /\ b = Last(Pad.cs).bottom /\ o = OperandsStart(Last(Pad.cs)) /\ l = Len(Pad.slots)
         /\ o + 1 <= l /\ k = l - 1 /\ o <= k /\ b <= o /\ o = b + Shape[Last(Pad.cs).callee].nlocals
    <2>1. OperandsStart(Last(Pad.cs)) = Last(Pad.cs).bottom + Shape[Last(Pad.cs).callee].nlocals
        BY DEF OperandsStart
    <2>2. /\ Len(Pad.slots) \in Nat /\ Len(Pad.slots) - 1 \in Nat
          /\ OperandsStart(Last(Pad.cs)) + 1 <= Len(Pad.slots)
          /\ OperandsStart(Last(Pad.cs)) <= Len(Pad.slots) - 1
        BY <1>2, <1>3
    <2>. QED  BY <1>3, <2>1, <2>2
<1>6. i \in Nat /\ i >= 1 /\ b + i <= o
    <2>1. Pad.ip.fn = Last(Pad.cs).callee /\ Shape[Last(Pad.cs).callee].nlocals \in Nat
        BY <1>2, <1>3, TopFacts, SiteFacts DEF Good
    <2>. QED  BY <1>5, <2>1
<1>. DEFINE d == Drop(Pad.slots, 1)
            s == [d EXCEPT ![b + i] = v]
            r == [Pad EXCEPT !.slots = s, !.ip.depth = @ - 1]
<1>7. SetPad(r)
    BY <1>4, <1>5 DEF WriteLocal
<1>8. d \in Seq(Value) /\ Len(d) = k /\ SameUpTo(Pad.slots, d, k)
    <2>1. 1 \in 0..Len(Pad.slots)
        BY <1>5
    <2>2. /\ d \in Seq(Value) /\ Len(d) = Len(Pad.slots) - 1
          /\ \A j \in 1..(Len(Pad.slots) - 1) : d[j] = Pad.slots[j]
        BY <1>3, <2>1, DropFacts
    <2>. QED  BY <1>5, <2>2 DEF SameUpTo
<1>. HIDE DEF d
<1>9. s \in Seq(Value) /\ Len(s) = k /\ \A j \in 1..k : s[j] = IF j = b + i THEN v ELSE d[j]
    <2>1. b + i \in 1..Len(d)
        BY <1>5, <1>6, <1>8
    <2>2. s \in Seq(Value) /\ Len(s) = Len(d)
          /\ \A j \in 1..Len(d) : s[j] = IF j = b + i THEN v ELSE d[j]
        BY <1>8, <2>1, ExceptSeq
    <2>. QED  BY <1>8, <2>2
<1>. HIDE DEF s
<1>10. r \in ScratchPad /\ r.cs = Pad.cs /\ r.wait = 0 /\ r.slots = s
    <2>1. [Pad.ip EXCEPT !.depth = @ - 1] \in Ip
        <3>1. Pad.ip \in Ip /\ Pad.ip.depth - 1 \in Nat
            BY <1>2, <1>3, PadFacts
        <3>. QED  BY <3>1 DEF Ip
    <2>. QED  BY <1>2, <1>3, <1>9, <2>1 DEF ScratchPad
<1>. HIDE DEF r
<1>11. SameUpTo(Pad.slots, r.slots, Last(Pad.cs).bottom - 1)
    <2>1. \A j \in 1..(b - 1) : j \in 1..k /\ j # b + i
        BY <1>5, <1>6
    <2>. QED  BY <1>5, <1>8, <1>9, <1>10, <2>1 DEF SameUpTo
<1>12. Frames!SetFrame(FrameAt(r.slots, Last(Pad.cs), Len(r.slots)))
    BY <1>7, <1>10, <1>11, SetFrameStep
<1>13. Seg(s, o, k) = Drop(Seg(Pad.slots, o, l), 1)
    <2>0. Pad.slots \in Seq(Value)
        BY <1>3
    <2>1. o + 1 <= l /\ l <= Len(Pad.slots)
        BY <1>5
    <2>2. Drop(Seg(Pad.slots, o, l), 1) = Seg(Pad.slots, o, l - 1)
        BY <1>3, <2>1, SegDrop
    <2>3. o <= k /\ k <= Len(Pad.slots)
        BY <1>5
    <2>. DEFINE u == Seg(Pad.slots, o, k)
                w == Seg(s, o, k)
    <2>4. u \in Seq(Value) /\ Len(u) = k - o /\ \A j \in 1..(k - o) : u[j] = Pad.slots[o + j]
        BY <2>0, <2>3, SegFacts, ZenonT(30)
    <2>5. w \in Seq(Value) /\ Len(w) = k - o /\ \A j \in 1..(k - o) : w[j] = s[o + j]
        <3>1. k <= Len(s) /\ s \in Seq(Value)
            BY <1>9
        <3>. QED  BY <2>3, <3>1, SegFacts
    <2>. HIDE DEF u, w
    <2>6. \A j \in 1..(k - o) : o + j \in 1..k /\ o + j # b + i
        BY <1>5, <1>6
    <2>7. \A j \in 1..(k - o) : s[o + j] = Pad.slots[o + j]
        BY <1>8, <1>9, <2>6 DEF SameUpTo
    <2>8. u = w
        BY <2>4, <2>5, <2>7, SeqEqual
    <2>. QED  BY <1>5, <2>2, <2>8 DEF u, w
<1>14. /\ Seg(s, b, o) = [Seg(Pad.slots, b, o) EXCEPT ![i] = v]
       /\ i \in DOMAIN Seg(Pad.slots, b, o)
    <2>. DEFINE u == Seg(Pad.slots, b, o)
                w == Seg(s, b, o)
                x == [u EXCEPT ![i] = v]
    <2>0. Pad.slots \in Seq(Value)
        BY <1>3
    <2>1. b <= o /\ o <= Len(Pad.slots)
        BY <1>5
    <2>2. u \in Seq(Value) /\ Len(u) = o - b /\ \A j \in 1..(o - b) : u[j] = Pad.slots[b + j]
        BY <2>0, <2>1, SegFacts, ZenonT(30)
    <2>3. w \in Seq(Value) /\ Len(w) = o - b /\ \A j \in 1..(o - b) : w[j] = s[b + j]
        <3>1. o <= Len(s) /\ s \in Seq(Value)
            BY <1>5, <1>9
        <3>. QED  BY <2>1, <3>1, SegFacts
    <2>. HIDE DEF u, w
    <2>4. i \in 1..Len(u)
        BY <1>5, <1>6, <2>2
    <2>5. x \in Seq(Value) /\ Len(x) = Len(u)
          /\ \A j \in 1..Len(u) : x[j] = IF j = i THEN v ELSE u[j]
        BY <2>2, <2>4, ExceptSeq
    <2>. HIDE DEF x
    <2>6. \A j \in 1..(o - b) : b + j \in 1..k /\ (b + j = b + i <=> j = i)
        BY <1>5, <1>6, SMTT(30)
    <2>7. \A j \in 1..(o - b) : w[j] = x[j]
        <3>. SUFFICES ASSUME NEW j \in 1..(o - b) PROVE w[j] = x[j]
            OBVIOUS
        <3>1. w[j] = s[b + j] /\ b + j \in 1..k /\ (b + j = b + i <=> j = i)
            BY <2>3, <2>6
        <3>2. s[b + j] = IF j = i THEN v ELSE Pad.slots[b + j]
            BY <1>8, <1>9, <3>1 DEF SameUpTo
        <3>3. u[j] = Pad.slots[b + j] /\ x[j] = IF j = i THEN v ELSE u[j]
            BY <2>2, <2>5
        <3>. QED  BY <3>1, <3>2, <3>3
    <2>8. w = x
        BY <2>2, <2>3, <2>5, <2>7, SeqEqual
    <2>9. DOMAIN u = 1..Len(u)
        BY <2>2, LenProperties
    <2>. QED  BY <2>4, <2>8, <2>9 DEF u, w, x
<1>15. Frames!Fr.opnds = Seg(Pad.slots, o, l) /\ Frames!Fr.locals = Seg(Pad.slots, b, o)
    BY <1>2, <1>5 DEF FrameAt
<1>16. FrameAt(s, Last(Pad.cs), Len(s)) =
          [Frames!Fr EXCEPT !.opnds = Frames!Drop(@, 1), !.locals[i] = v]
    <2>. DEFINE f == Last(Pad.cs).callee
                c == Shape[Last(Pad.cs).callee].chunk
                L == Seg(Pad.slots, b, o)
                O == Drop(Seg(Pad.slots, o, l), 1)
    <2>1. FrameAt(s, Last(Pad.cs), Len(s)) = FrameOfParts(f, c, [L EXCEPT ![i] = v], O)
        <3>1. FrameAt(s, Last(Pad.cs), Len(s)) = FrameOfParts(f, c, Seg(s, b, o), Seg(s, o, k))
            BY <1>5, <1>9 DEF FrameAt, FrameOfParts
        <3>. QED  BY <1>13, <1>14, <3>1
    <2>2. Frames!Fr = FrameOfParts(f, c, L, Frames!Fr.opnds)
        BY <1>2, <1>5, <1>15 DEF FrameAt, FrameOfParts
    <2>3. Frames!Drop(Frames!Fr.opnds, 1) = O
        BY <1>15, FramesOps
    <2>. HIDE DEF f, c, L, O
    <2>4. [Frames!Fr EXCEPT !.opnds = O, !.locals[i] = v] = FrameOfParts(f, c, [L EXCEPT ![i] = v], O)
        <3>1. [Frames!Fr EXCEPT !.opnds = O] = FrameOfParts(f, c, L, O)
            BY <2>2 DEF FrameOfParts
        <3>2. [FrameOfParts(f, c, L, O) EXCEPT !.locals[i] = v] =
                 FrameOfParts(f, c, [L EXCEPT ![i] = v], O)
            BY DEF FrameOfParts
        <3>. QED  BY <3>1, <3>2
    <2>5. [Frames!Fr EXCEPT !.opnds = Frames!Drop(@, 1), !.locals[i] = v] =
             [Frames!Fr EXCEPT !.opnds = O, !.locals[i] = v]
        BY <2>3
    <2>. QED  BY <2>1, <2>4, <2>5
<1>17. Frames!Fr.opnds # <<>>
    BY <1>2
<1>18. Frames!SetFrame([Frames!Fr EXCEPT !.opnds = Frames!Drop(@, 1), !.locals[i] = v])
    BY <1>10, <1>12, <1>16
<1>. QED  BY <1>2, <1>14, <1>15, <1>17, <1>18 DEF Frames!SetLocal

-----------------------------------------------------------------------------
(* Natives and returns.                                                     *)

(* s up to position b, and one value on top.                                *)
LEMMA SegPushed ==
    ASSUME NEW S, NEW s \in Seq(S), NEW t \in Seq(S), NEW a \in Nat, NEW b \in Nat,
           NEW v \in S, a <= b, b <= Len(s), Len(t) = b + 1,
           SameUpTo(s, t, b), t[b + 1] = v
    PROVE  Seg(t, a, b + 1) = Seg(s, a, b) \o << v >>
<1>. DEFINE u == Seg(s, a, b)
            w == Seg(t, a, b + 1)
            g == << v >>
            x == u \o g
<1>1. u \in Seq(S) /\ Len(u) = b - a /\ \A i \in 1..(b - a) : u[i] = s[a + i]
    BY SegFacts
<1>2. PICK e \in Nat : e = b + 1 /\ a <= e /\ e <= Len(t)
    OBVIOUS
<1>3. w \in Seq(S) /\ Len(w) = e - a /\ \A i \in 1..(e - a) : w[i] = t[a + i]
    <2>1. Seg(t, a, e) \in Seq(S) /\ Len(Seg(t, a, e)) = e - a
          /\ \A i \in 1..(e - a) : Seg(t, a, e)[i] = t[a + i]
        <3>1. a <= e /\ e <= Len(t)
            BY <1>2
        <3>. QED  BY <3>1, SegFacts
    <2>. QED  BY <1>2, <2>1
<1>. HIDE DEF u, w
<1>4. g \in Seq(S) /\ Len(g) = 1 /\ g[1] = v
    OBVIOUS
<1>. HIDE DEF g
<1>5. /\ x \in Seq(S) /\ Len(x) = Len(u) + Len(g)
      /\ \A i \in 1..(Len(u) + Len(g)) :
            x[i] = IF i <= Len(u) THEN u[i] ELSE g[i - Len(u)]
    <2>1. u \in Seq(S) /\ g \in Seq(S)
        BY <1>1, <1>4
    <2>. QED  BY <2>1, ConcatProperties
<1>. HIDE DEF x
<1>6. x \in Seq(S) /\ Len(x) = e - a
      /\ \A i \in 1..(e - a) : x[i] = IF i <= b - a THEN u[i] ELSE v
    <2>1. b - a + 1 = e - a /\ \A i \in 1..(e - a) : ~ (i <= b - a) => i - (b - a) = 1
        BY <1>2
    <2>. QED  BY <1>1, <1>4, <1>5, <2>1
<1>7. \A i \in 1..(e - a) : w[i] = x[i]
    <2>. SUFFICES ASSUME NEW i \in 1..(e - a) PROVE w[i] = x[i]
        OBVIOUS
    <2>1. w[i] = t[a + i] /\ x[i] = IF i <= b - a THEN u[i] ELSE v
        BY <1>3, <1>6
    <2>2. CASE i <= b - a
        <3>1. i \in 1..(b - a) /\ a + i \in 1..b
            BY <2>2
        <3>2. t[a + i] = s[a + i]
            BY <3>1 DEF SameUpTo
        <3>. QED  BY <1>1, <2>1, <2>2, <3>1, <3>2
    <2>3. CASE ~ (i <= b - a)
        <3>1. a + i = b + 1
            BY <1>2, <2>3
        <3>. QED  BY <2>1, <2>3, <3>1
    <2>. QED  BY <2>2, <2>3
<1>8. w = x
    BY <1>3, <1>6, <1>7, SeqEqual
<1>. QED  BY <1>8 DEF u, w, x, g

(* The running evaluation with another top frame.                           *)
EvaluationWith(F, N) == [frames |-> F, native |-> N]

LEMMA SetTopStep ==
    ASSUME LInv, LInv', pads # <<>>, NEW r \in ScratchPad, SetPad(r), r.cs = Pad.cs,
           SameUpTo(Pad.slots, r.slots, Last(Pad.cs).bottom - 1)
    PROVE  Frames!SetPad(EvaluationWith(
              [FramesOf(Pad) EXCEPT ![Len(Pad.cs)] =
                   FrameAt(r.slots, Last(Pad.cs), Len(r.slots) - r.wait)],
              Tops(r.slots, r.wait)))
<1>1. Good(Pad) /\ IInv /\ Good(r)
    BY LInvPad, GoodNext
<1>2. FrameOf(r, Len(r.cs)) = FrameAt(r.slots, Last(r.cs), Len(r.slots) - r.wait)
    BY <1>1, TopFrame
<1>3. FramesOf(r) = [FramesOf(Pad) EXCEPT ![Len(Pad.cs)] = FrameOf(r, Len(Pad.cs))]
    BY <1>1, TopFrameChanged
<1>4. EvaluationOf(r) = EvaluationWith(FramesOf(r), Tops(r.slots, r.wait))
    BY EvaluationIs DEF EvaluationWith
<1>5. Frames!SetPad(EvaluationOf(r))
    BY <1>1, SetPadStep
<1>. QED  BY <1>2, <1>3, <1>4, <1>5

(* The same, as CallFrames puts it.                                         *)
WithTop(P, n, y, N) == [P EXCEPT !.frames[n].opnds = y, !.native = N]

LEMMA TopOpnds ==
    ASSUME NEW F, NEW N, NEW n, NEW y, NEW N2
    PROVE  WithTop(EvaluationWith(F, N), n, y, N2) =
              EvaluationWith([F EXCEPT ![n] = [F[n] EXCEPT !.opnds = y]], N2)
<1>1. [EvaluationWith(F, N) EXCEPT !.frames[n].opnds = y] =
         EvaluationWith([F EXCEPT ![n] = [F[n] EXCEPT !.opnds = y]], N)
    BY DEF EvaluationWith
<1>. DEFINE G == [F EXCEPT ![n] = [F[n] EXCEPT !.opnds = y]]
<1>. HIDE DEF G
<1>2. [EvaluationWith(G, N) EXCEPT !.native = N2] = EvaluationWith(G, N2)
    BY DEF EvaluationWith
<1>. QED  BY <1>1, <1>2 DEF G, WithTop

(* The evaluation that is running or waiting, as frames.                    *)
LEMMA TopEvaluation ==
    ASSUME LInv, pads # <<>>
    PROVE  /\ Frames!Pad = EvaluationWith(FramesOf(Pad), Tops(Pad.slots, Pad.wait))
           /\ Len(Frames!Pad.frames) = Len(Pad.cs)
           /\ Evals # <<>>
           /\ Frames!Pad.frames[Len(Pad.cs)] =
                 FrameAt(Pad.slots, Last(Pad.cs), Len(Pad.slots) - Pad.wait)
<1>1. Good(Pad) /\ IInv
    BY LInvPad
<1>2. Frames!Pad = EvaluationOf(Pad) /\ Evals # <<>> /\ Pad \in ScratchPad
    BY <1>1, PadIs
<1>3. Frames!Pad = EvaluationWith(FramesOf(Pad), Tops(Pad.slots, Pad.wait))
    BY <1>2, EvaluationIs DEF EvaluationWith
<1>4. Frames!Pad.frames = FramesOf(Pad)
    BY <1>3 DEF EvaluationWith
<1>5. /\ Len(FramesOf(Pad)) = Len(Pad.cs)
      /\ \A i \in 1..Len(Pad.cs) : FramesOf(Pad)[i] = FrameOf(Pad, i)
    BY <1>2, FramesFacts
<1>6. /\ Len(Pad.cs) \in 1..Len(Pad.cs)
      /\ FrameOf(Pad, Len(Pad.cs)) = FrameAt(Pad.slots, Last(Pad.cs), Len(Pad.slots) - Pad.wait)
    BY <1>1, TopFrame
<1>. QED  BY <1>2, <1>3, <1>4, <1>5, <1>6

(* The value of a native function becomes an operand of its caller.         *)
LEMMA NativeDoneStep ==
    ASSUME LInv, LInv', pads # <<>>, Pad.wait > 0, NEW v \in Value, NativeDone(v)
    PROVE  Frames!SetPad([Frames!Pad EXCEPT
              !.frames[Len(Frames!Pad.frames)].opnds = Append(@, v), !.native = <<>>])
<1>. DEFINE r == DoneNative(Pad, v)
            s == Pad.slots
            t == Append(Drop(s, Pad.wait), v)
            site == Last(Pad.cs)
<1>1. SetPad(r)
    BY DEF NativeDone, DoneNative
<1>2. Good(Pad) /\ IInv /\ PadOK(r) /\ r \in ScratchPad
    BY LInvPad, DoneNativeOK DEF Good, PadOK
<1>3. /\ site \in CallSite /\ site.bottom \in Nat /\ site.bottom >= 1
      /\ OperandsStart(site) \in Nat /\ site.bottom <= OperandsStart(site)
      /\ Len(s) - Pad.wait \in Nat /\ OperandsStart(site) <= Len(s) - Pad.wait
      /\ Len(s) - Pad.wait <= Len(s) /\ Len(s) \in Nat
      /\ s \in Seq(Value) /\ Pad \in ScratchPad /\ Pad.wait \in Nat
    BY <1>2, TopFrame
<1>4. PICK b \in Nat, o \in Nat, l \in Nat, w \in Nat, k \in Nat :
         /\ b = site.bottom /\ o = OperandsStart(site) /\ l = Len(s) /\ w = Pad.wait
         /\ k = l - w /\ k <= l /\ o <= k /\ b <= o
    BY <1>3
<1>5. r.cs = Pad.cs /\ r.wait = 0 /\ r.slots = t
    BY <1>3 DEF DoneNative, ScratchPad
<1>. HIDE DEF r
<1>6. t \in Seq(Value) /\ Len(t) = k + 1 /\ SameUpTo(s, t, k) /\ t[k + 1] = v
    <2>. DEFINE d == Drop(s, Pad.wait)
    <2>1. Pad.wait \in 0..Len(s)
        BY <1>3, <1>4
    <2>2. d \in Seq(Value) /\ Len(d) = Len(s) - Pad.wait
          /\ \A i \in 1..(Len(s) - Pad.wait) : d[i] = s[i]
        BY <1>3, <2>1, DropFacts
    <2>3. d \in Seq(Value) /\ Len(d) = k /\ \A i \in 1..k : d[i] = s[i]
        BY <1>4, <2>2
    <2>. HIDE DEF d
    <2>4. /\ Append(d, v) \in Seq(Value) /\ Len(Append(d, v)) = Len(d) + 1
          /\ \A i \in 1..Len(d) : Append(d, v)[i] = d[i]
          /\ Append(d, v)[Len(d) + 1] = v
        BY <2>3, AppendFacts
    <2>5. t = Append(d, v)
        BY DEF d
    <2>. QED  BY <2>3, <2>4, <2>5 DEF SameUpTo
<1>. HIDE DEF t, s, site
<1>7. SameUpTo(s, r.slots, site.bottom - 1)
    <2>1. \A i \in 1..(b - 1) : i \in 1..k
        BY <1>4
    <2>. QED  BY <1>4, <1>5, <1>6, <2>1 DEF SameUpTo
<1>8. Frames!SetPad(EvaluationWith(
         [FramesOf(Pad) EXCEPT ![Len(Pad.cs)] = FrameAt(t, site, Len(t) - 0)], Tops(t, 0)))
    BY <1>1, <1>2, <1>5, <1>7, SetTopStep DEF s, site
<1>9. Tops(t, 0) = <<>>
    <2>1. Len(t) \in Int
        BY <1>6
    <2>2. SubSeq(t, Len(t) - 0 + 1, Len(t)) = <<>>
        BY <2>1, SubSeqEmpty
    <2>. QED  BY <2>2 DEF Tops
<1>10. Seg(t, o, k + 1) = Seg(s, o, k) \o << v >>
    <2>1. o <= k /\ k <= Len(s)
        BY <1>4
    <2>. QED  BY <1>3, <1>6, <2>1, SegPushed
<1>11. FrameAt(t, site, k + 1) = [FrameAt(s, site, k) EXCEPT !.opnds = Seg(s, o, k) \o << v >>]
    <2>1. OperandsStart(site) <= Len(s) /\ OperandsStart(site) <= Len(t)
          /\ SameUpTo(s, t, OperandsStart(site))
        <3>1. o <= Len(s) /\ o <= Len(t) /\ \A i \in 1..o : i \in 1..k
            BY <1>4, <1>6, SMTT(30)
        <3>. QED  BY <1>4, <1>6, <3>1 DEF SameUpTo
    <2>2. FrameAt(t, site, k + 1) =
             [FrameAt(s, site, k) EXCEPT !.opnds = Seg(t, OperandsStart(site), k + 1)]
        BY <1>3, <1>6, <2>1, OperandsReplaced, SMTT(30)
    <2>. QED  BY <1>4, <1>10, <2>2
<1>12. /\ Frames!Pad = EvaluationWith(FramesOf(Pad), Tops(Pad.slots, Pad.wait))
       /\ Len(Frames!Pad.frames) = Len(Pad.cs)
       /\ Frames!Pad.frames[Len(Pad.cs)] = FrameAt(s, site, k)
    BY <1>4, TopEvaluation DEF s, site
<1>. DEFINE F == FramesOf(Pad)
            n == Len(Pad.cs)
            y == Append(Frames!Pad.frames[n].opnds, v)
<1>13. F[n] = FrameAt(s, site, k)
    BY <1>12 DEF EvaluationWith
<1>14. y = Seg(s, o, k) \o << v >>
    <2>1. Frames!Pad.frames[n].opnds = Seg(s, o, k)
        BY <1>4, <1>12 DEF FrameAt
    <2>2. o <= k /\ k <= Len(s)
        BY <1>4
    <2>3. Seg(s, o, k) \in Seq(Value)
        BY <1>3, <2>2, SegFacts
    <2>. QED  BY <2>1, <2>3, AppendIsConcat
<1>15. Len(t) - 0 = k + 1
    BY <1>6
<1>. HIDE DEF F, n, y
<1>16. [Frames!Pad EXCEPT !.frames[n].opnds = y, !.native = <<>>] =
          EvaluationWith([F EXCEPT ![n] = [F[n] EXCEPT !.opnds = y]], <<>>)
    <2>. DEFINE N == Tops(Pad.slots, Pad.wait)
    <2>1. Frames!Pad = EvaluationWith(F, N)
        BY <1>12 DEF F
    <2>. HIDE DEF N
    <2>2. WithTop(EvaluationWith(F, N), n, y, <<>>) =
             EvaluationWith([F EXCEPT ![n] = [F[n] EXCEPT !.opnds = y]], <<>>)
        BY TopOpnds
    <2>3. WithTop(Frames!Pad, n, y, <<>>) =
             [Frames!Pad EXCEPT !.frames[n].opnds = y, !.native = <<>>]
        BY DEF WithTop
    <2>. QED  BY <2>1, <2>2, <2>3
<1>17. Frames!SetPad(EvaluationWith([F EXCEPT ![n] = [F[n] EXCEPT !.opnds = y]], <<>>))
    BY <1>8, <1>9, <1>11, <1>13, <1>14, <1>15 DEF F, n
<1>18. [Frames!Pad EXCEPT !.frames[Len(Frames!Pad.frames)].opnds = Append(@, v), !.native = <<>>] =
          [Frames!Pad EXCEPT !.frames[n].opnds = y, !.native = <<>>]
    <2>1. Len(Frames!Pad.frames) = n
        BY <1>12 DEF n
    <2>. QED  BY <2>1 DEF y
<1>. QED  BY <1>16, <1>17, <1>18

(* What OP_RETURN leaves on top is the value returned.                      *)
LEMMA PoppedLast ==
    ASSUME NEW p, PadOK(p), p.wait = 0, p.ip.depth = 1
    PROVE  /\ Popped(p) \in Seq(Value) /\ Len(Popped(p)) = Last(p.cs).bottom
           /\ SameUpTo(p.slots, Popped(p), Last(p.cs).bottom - 1)
           /\ Popped(p)[Last(p.cs).bottom] = p.slots[Len(p.slots)]
<1>1. /\ Popped(p) \in Seq(Value) /\ Len(Popped(p)) = Last(p.cs).bottom
      /\ \A i \in 1..(Last(p.cs).bottom - 1) : Popped(p)[i] = p.slots[i]
    BY PoppedFacts
<1>. DEFINE k == 1 + Shape[Last(p.cs).callee].nlocals + 1
            d == Drop(p.slots, k)
            v == p.slots[Len(p.slots)]
<1>2. /\ Last(p.cs) \in CallSite /\ Last(p.cs).bottom >= 1 /\ p.slots \in Seq(Value)
      /\ Len(p.slots) = OperandsStart(Last(p.cs)) + 1
    BY TopFacts, PadFacts DEF TopAt
<1>3. PICK b \in Nat, m \in Nat, l \in Nat :
         /\ b = Last(p.cs).bottom /\ m = Shape[Last(p.cs).callee].nlocals
         /\ l = Len(p.slots) /\ l = b + m + 1 /\ b >= 1
    BY <1>2, SiteFacts
<1>4. k \in 0..Len(p.slots) /\ Len(p.slots) - k = b - 1 /\ Len(p.slots) \in 1..Len(p.slots)
    BY <1>3
<1>5. v \in Value
    BY <1>2, <1>4, ElementOfSeq
<1>6. Popped(p) = Append(d, v)
    BY DEF Popped, Last
<1>. HIDE DEF k, v
<1>7. d \in Seq(Value) /\ Len(d) = b - 1
    <2>1. d \in Seq(Value) /\ Len(d) = Len(p.slots) - k
        BY <1>2, <1>4, DropFacts
    <2>. QED  BY <1>4, <2>1
<1>. HIDE DEF d
<1>8. Append(d, v)[Len(d) + 1] = v
    BY <1>5, <1>7, AppendFacts
<1>9. Len(d) + 1 = b
    BY <1>3, <1>7
<1>. QED  BY <1>1, <1>3, <1>6, <1>8, <1>9 DEF SameUpTo, v

(* The outermost function is the one without a caller's ip.                 *)
LEMMA Outermost ==
    ASSUME NEW p, PadOK(p)
    PROVE  Last(p.cs).callIp = NullIp <=> Len(p.cs) = 1
<1>1. Len(p.cs) \in Nat /\ Len(p.cs) >= 1 /\ SitesOK(p)
    BY TopFacts, PadFacts DEF PadOK
<1>2. CASE Len(p.cs) = 1
    BY <1>1, <1>2 DEF SitesOK, Last
<1>3. CASE Len(p.cs) # 1
    <2>0. PICK n \in Nat : n = Len(p.cs) /\ n >= 1
        BY <1>1
    <2>1. Len(p.cs) \in 2..Len(p.cs)
        <3>1. n # 1 /\ n >= 1
            BY <1>3, <2>0
        <3>2. n \in 2..n
            BY <3>1
        <3>. QED  BY <2>0, <3>2
    <2>2. Last(p.cs).callIp \in Ip
        BY <1>1, <2>1 DEF SitesOK, SiteOK, Last
    <2>. QED  BY <1>3, <2>2, IpNotNull
<1>. QED  BY <1>2, <1>3

(* OP_RETURN: the frame that ends has the value returned as its operand.    *)
LEMMA AtReturn ==
    ASSUME LInv, Running, Pad.ip.depth = 1
    PROVE  /\ Len(Frames!Fr.opnds) = 1 /\ Frames!Fr.opnds[1] = Pad.slots[Len(Pad.slots)]
           /\ Frames!Fr.opnds = << Pad.slots[Len(Pad.slots)] >>
           /\ Pad.slots[Len(Pad.slots)] \in Value
<1>1. /\ Frames!Fr.opnds \in Seq(Value) /\ Len(Frames!Fr.opnds) = Pad.ip.depth
      /\ \A j \in 1..Pad.ip.depth :
            Frames!Fr.opnds[j] = Pad.slots[OperandsStart(Last(Pad.cs)) + j]
      /\ Len(Pad.slots) = OperandsStart(Last(Pad.cs)) + Pad.ip.depth
    BY RunningFacts
<1>. DEFINE O == Frames!Fr.opnds
            v == Pad.slots[Len(Pad.slots)]
            g == << v >>
<1>2. O \in Seq(Value) /\ Len(O) = 1 /\ O[1] = v
    BY <1>1
<1>. HIDE DEF O, v
<1>3. v \in Value
    <2>1. 1 \in 1..Len(O)
        BY <1>2
    <2>2. O[1] \in Value
        BY <1>2, <2>1, ElementOfSeq
    <2>. QED  BY <1>2, <2>2
<1>4. g \in Seq(Value) /\ Len(g) = 1 /\ g[1] = v
    BY <1>3
<1>. HIDE DEF g
<1>5. O = g
    BY <1>2, <1>4, SeqEqual
<1>. QED  BY <1>2, <1>3, <1>5 DEF O, v, g

LEMMA FinishStep ==
    ASSUME LInv, Finish
    PROVE  Frames!Return
<1>1. /\ Running /\ Pad.ip.depth = 1 /\ Last(Pad.cs).callIp = NullIp
      /\ ret' = Last(Popped(Pad)) /\ pads' = Drop(pads, 1)
    BY DEF Finish
<1>2. /\ Good(Pad) /\ IInv /\ pads # <<>> /\ Pad.wait = 0 /\ Frames!Running
      /\ Frames!Pad = [frames |-> FramesOf(Pad), native |-> <<>>]
      /\ Len(FramesOf(Pad)) = Len(Pad.cs)
    BY <1>1, RunningFacts
<1>3. Len(Frames!Pad.frames) = 1
    BY <1>1, <1>2, Outermost DEF Good
<1>4. Evals' = Frames!Drop(Evals, 1)
    BY <1>1, <1>2, PopStep
<1>5. Len(Frames!Fr.opnds) = 1 /\ ret' = Frames!Fr.opnds[1]
    <2>1. Len(Popped(Pad)) = Last(Pad.cs).bottom
          /\ Popped(Pad)[Last(Pad.cs).bottom] = Pad.slots[Len(Pad.slots)]
        BY <1>1, <1>2, PoppedLast DEF Good
    <2>2. Len(Frames!Fr.opnds) = 1 /\ Frames!Fr.opnds[1] = Pad.slots[Len(Pad.slots)]
        BY <1>1, AtReturn
    <2>3. Last(Popped(Pad)) = Popped(Pad)[Len(Popped(Pad))]
        BY DEF Last
    <2>. QED  BY <1>1, <2>1, <2>2, <2>3
<1>. QED  BY <1>2, <1>3, <1>4, <1>5 DEF Frames!Return, Evals, EvalsOf

(* The caller's frame gets the value returned, the frame that ends is gone. *)
LEMMA ReturnStep ==
    ASSUME LInv, LInv', Return
    PROVE  Frames!Return
<1>. DEFINE r == Returned(Pad)
            s == Pad.slots
            t == Popped(Pad)
            site == Last(Pad.cs)
            v == s[Len(s)]
<1>1. /\ Running /\ Pad.ip.depth = 1 /\ site.callIp # NullIp /\ SetPad(r)
    BY DEF Return, Returned
<1>2. /\ Good(Pad) /\ IInv /\ pads # <<>> /\ Pad.wait = 0 /\ Frames!Running
      /\ Frames!Pad = [frames |-> FramesOf(Pad), native |-> <<>>]
      /\ Len(FramesOf(Pad)) = Len(Pad.cs)
    BY <1>1, RunningFacts
<1>3. PICK n \in Nat, l \in Nat : n = Len(Pad.cs) /\ n >= 2 /\ l = n - 1 /\ l >= 1
    <2>1. Len(Pad.cs) \in Nat /\ Len(Pad.cs) >= 1 /\ Len(Pad.cs) # 1
        BY <1>1, <1>2, TopFacts, PadFacts, Outermost DEF Good
    <2>2. PICK n \in Nat : n = Len(Pad.cs) /\ n >= 1 /\ n # 1
        BY <2>1
    <2>3. n >= 2 /\ n - 1 \in Nat /\ n - 1 >= 1
        <3>1. n >= 1 /\ n # 1
            BY <2>2
        <3>. QED  BY <3>1
    <2>. QED  BY <2>2, <2>3
<1>4. PadOK(r) /\ r \in ScratchPad
    BY <1>1, <1>2, ReturnOK DEF Good, PadOK
<1>5. Good(r)
    BY <1>1, <1>2, <1>4, GoodNext
<1>6. /\ r.cs = Drop(Pad.cs, 1) /\ r.wait = 0 /\ r.slots = t
    BY <1>2 DEF Returned, ScratchPad, Good, PadOK
<1>. DEFINE caller == Pad.cs[l]
<1>7. /\ site = Pad.cs[n] /\ Len(r.cs) = l /\ Last(r.cs) = caller /\ caller \in CallSite
    <2>1. Pad.cs \in Seq(CallSite) /\ 1 \in 0..Len(Pad.cs) /\ l \in 1..Len(Pad.cs)
        BY <1>2, <1>3, PadFacts DEF Good, PadOK
    <2>. DEFINE C == Pad.cs
    <2>2. Len(Drop(C, 1)) = Len(C) - 1 /\ \A i \in 1..(Len(C) - 1) : Drop(C, 1)[i] = C[i]
        <3>1. C \in Seq(CallSite) /\ 1 \in 0..Len(C)
            BY <2>1
        <3>. HIDE DEF C
        <3>. QED  BY <3>1, DropFacts
    <2>3. C[l] \in CallSite
        BY <2>1, ElementOfSeq
    <2>4. Len(r.cs) = l /\ r.cs[l] = C[l]
        <3>1. Len(C) - 1 = l /\ l \in 1..l
            BY <1>3
        <3>. QED  BY <1>6, <2>2, <3>1
    <2>. QED  BY <1>3, <2>3, <2>4 DEF Last
<1>8. /\ t \in Seq(Value) /\ Len(t) = site.bottom /\ SameUpTo(s, t, site.bottom - 1)
      /\ t[site.bottom] = v
    BY <1>1, <1>2, PoppedLast DEF Good
<1>9. /\ s \in Seq(Value) /\ v \in Value /\ Frames!Fr.opnds = << v >>
      /\ Len(Frames!Fr.opnds) = 1
    <2>1. s \in Seq(Value)
        BY <1>2, TopFrame
    <2>. QED  BY <1>1, <2>1, AtReturn
<1>10. FramesOf(r) = [Drop(FramesOf(Pad), 1) EXCEPT ![l] = FrameOf(r, l)]
    BY <1>2, <1>3, <1>5, <1>6, <1>8, FramePopped
<1>11. PICK b \in Nat, o \in Nat :
          /\ b = site.bottom - 1 /\ b = StopOf(Pad, l) /\ o = OperandsStart(caller)
          /\ o <= b /\ b <= Len(s) /\ Len(t) = b + 1
    <2>1. l \in 1..Len(Pad.cs) /\ l # Len(Pad.cs) /\ l + 1 = n
        BY <1>3
    <2>2. /\ StopOf(Pad, l) \in Nat /\ StopOf(Pad, l) <= Len(s)
          /\ OperandsStart(caller) \in Nat /\ OperandsStart(caller) <= StopOf(Pad, l)
        BY <1>2, <2>1, StopFacts
    <2>3. StopOf(Pad, l) = site.bottom - 1
        BY <1>7, <2>1 DEF StopOf
    <2>4. site.bottom \in Nat
        BY <1>2, TopFrame
    <2>5. Len(t) = StopOf(Pad, l) + 1
        BY <1>8, <2>3, <2>4
    <2>. QED  BY <2>2, <2>3, <2>5
<1>12. t[b + 1] = v /\ SameUpTo(s, t, b)
    <2>1. b + 1 = site.bottom
        <3>1. site.bottom \in Nat
            BY <1>2, TopFrame
        <3>. QED  BY <1>11, <3>1
    <2>. QED  BY <1>8, <1>11, <2>1
<1>13. FrameOf(r, l) = FrameAt(t, caller, b + 1)
    <2>1. FrameOf(r, Len(r.cs)) = FrameAt(r.slots, Last(r.cs), Len(r.slots) - r.wait)
        BY <1>5, TopFrame
    <2>2. Len(t) - 0 = b + 1
        BY <1>11
    <2>. QED  BY <1>6, <1>7, <2>1, <2>2
<1>14. FrameOf(Pad, l) = FrameAt(s, caller, b)
    BY <1>2, <1>3, <1>11, FrameIs, SMTT(30)
<1>. HIDE DEF r, s, t, site, v, caller
<1>15. Seg(t, o, b + 1) = Seg(s, o, b) \o << v >>
    <2>1. /\ s \in Seq(Value) /\ t \in Seq(Value) /\ v \in Value
          /\ o <= b /\ b <= Len(s) /\ Len(t) = b + 1
        BY <1>8, <1>9, <1>11
    <2>. QED  BY <1>12, <2>1, SegPushed
<1>16. FrameAt(t, caller, b + 1) = [FrameAt(s, caller, b) EXCEPT !.opnds = Seg(s, o, b) \o << v >>]
    <2>1. OperandsStart(caller) <= Len(s) /\ OperandsStart(caller) <= Len(t)
          /\ SameUpTo(s, t, OperandsStart(caller))
        <3>1. o <= Len(s) /\ o <= Len(t) /\ \A i \in 1..o : i \in 1..b
            BY <1>9, <1>11
        <3>. QED  BY <1>11, <1>12, <3>1 DEF SameUpTo
    <2>2. FrameAt(t, caller, b + 1) =
             [FrameAt(s, caller, b) EXCEPT !.opnds = Seg(t, OperandsStart(caller), b + 1)]
        BY <1>7, <1>8, <1>9, <2>1, OperandsReplaced
    <2>. QED  BY <1>11, <1>15, <2>2
<1>. DEFINE F == FramesOf(Pad)
            D == Drop(F, 1)
            O == Frames!Fr.opnds
            fr == FrameAt(s, caller, b)
<1>17. D[l] = fr
    <2>1. F \in Seq(AnyFrame) /\ Len(F) = n /\ \A i \in 1..n : F[i] = FrameOf(Pad, i)
        BY <1>2, <1>3, FramesFacts DEF Good, PadOK
    <2>2. 1 \in 0..Len(F) /\ l \in 1..n /\ l \in 1..(Len(F) - 1)
        BY <1>3, <2>1
    <2>. HIDE DEF F
    <2>3. D[l] = F[l]
        BY <2>1, <2>2, DropFacts
    <2>. QED  BY <1>14, <2>1, <2>2, <2>3
<1>18. fr.opnds = Seg(s, o, b)
    BY <1>11 DEF FrameAt
<1>. HIDE DEF F, D, O, fr
<1>19. FramesOf(r) = [D EXCEPT ![l].opnds = D[l].opnds \o O]
    <2>1. FramesOf(r) = [D EXCEPT ![l] = [fr EXCEPT !.opnds = fr.opnds \o O]]
        BY <1>9, <1>10, <1>13, <1>16, <1>18 DEF D, F, O, fr
    <2>. QED  BY <1>17, <2>1
<1>20. EvaluationOf(r) = [frames |-> [D EXCEPT ![l].opnds = D[l].opnds \o O], native |-> <<>>]
    <2>1. Tops(r.slots, r.wait) = <<>>
        <3>1. Len(t) \in Int
            BY <1>8
        <3>2. SubSeq(t, Len(t) - 0 + 1, Len(t)) = <<>>
            BY <3>1, SubSeqEmpty
        <3>. QED  BY <1>6, <3>2 DEF Tops
    <2>. QED  BY <1>19, <2>1, EvaluationIs
<1>21. Frames!SetPad(EvaluationOf(r))
    BY <1>1, <1>2, <1>4, SetPadStep
<1>22. Frames!Drop(Frames!Pad.frames, 1) = D /\ Len(Frames!Pad.frames) = n /\ n # 1
    <2>1. Frames!Pad.frames = F
        BY <1>2 DEF F
    <2>2. Frames!Drop(F, 1) = D
        BY FramesOps DEF D
    <2>3. Len(F) = n
        BY <1>2, <1>3 DEF F
    <2>4. n # 1
        <3>1. n >= 2
            BY <1>3
        <3>. QED  BY <3>1
    <2>. QED  BY <2>1, <2>2, <2>3, <2>4
<1>. DEFINE P == Frames!Pad
<1>23. EvaluationOf(r) =
          [P EXCEPT !.frames = [D EXCEPT ![l].opnds = @ \o O]]
    <2>. DEFINE X == [D EXCEPT ![l].opnds = D[l].opnds \o O]
    <2>1. P = [frames |-> F, native |-> <<>>]
        BY <1>2 DEF F
    <2>2. EvaluationOf(r) = [frames |-> X, native |-> <<>>]
        BY <1>20
    <2>. HIDE DEF P, X
    <2>3. [P EXCEPT !.frames = X] = [frames |-> X, native |-> <<>>]
        BY <2>1
    <2>. QED  BY <2>2, <2>3 DEF X
<1>24. Frames!SetPad([P EXCEPT !.frames = [Frames!Drop(P.frames, 1)
          EXCEPT ![Len(P.frames) - 1].opnds = @ \o O]])
    <2>1. Len(P.frames) - 1 = l /\ Frames!Drop(P.frames, 1) = D
        BY <1>3, <1>22
    <2>. HIDE DEF P
    <2>. QED  BY <1>21, <1>23, <2>1
<1>. QED  BY <1>2, <1>9, <1>22, <1>24 DEF Frames!Return, O

-----------------------------------------------------------------------------
(* Calls.                                                                   *)

(* The top of two sequences one after the other is the top of the second.   *)
LEMMA TopsConcat ==
    ASSUME NEW S, NEW s \in Seq(S), NEW t \in Seq(S), NEW n \in 0..Len(t)
    PROVE  /\ Tops(s \o t, n) = Tops(t, n)
           /\ Drop(s \o t, n) = s \o Drop(t, n)
<1>. DEFINE u == s \o t
<1>1. PICK a \in Nat, b \in Nat : a = Len(s) /\ b = Len(t)
    OBVIOUS
<1>2. /\ u \in Seq(S) /\ Len(u) = a + b
      /\ \A i \in 1..(a + b) : u[i] = IF i <= a THEN s[i] ELSE t[i - a]
    BY <1>1, ConcatProperties
<1>. HIDE DEF u
<1>3. n \in Nat /\ n <= b /\ n \in 0..Len(u)
    BY <1>1, <1>2
<1>. DEFINE x == Tops(u, n)
            y == Tops(t, n)
            c == Drop(u, n)
            d == Drop(t, n)
            e == s \o d
<1>4. x \in Seq(S) /\ Len(x) = n /\ \A i \in 1..n : x[i] = u[Len(u) - n + i]
    BY <1>2, <1>3, TopsFacts
<1>5. y \in Seq(S) /\ Len(y) = n /\ \A i \in 1..n : y[i] = t[Len(t) - n + i]
    BY TopsFacts
<1>6. c \in Seq(S) /\ Len(c) = Len(u) - n /\ \A i \in 1..(Len(u) - n) : c[i] = u[i]
    BY <1>2, <1>3, DropFacts
<1>7. d \in Seq(S) /\ Len(d) = Len(t) - n /\ \A i \in 1..(Len(t) - n) : d[i] = t[i]
    BY DropFacts
<1>. HIDE DEF x, y, c, d
<1>8. PICK m \in Nat : m = b - n
    BY <1>3
<1>9. Len(d) = m /\ Len(c) = a + m
    BY <1>1, <1>2, <1>3, <1>6, <1>7, <1>8
<1>10. /\ e \in Seq(S) /\ Len(e) = a + m
       /\ \A i \in 1..(a + m) : e[i] = IF i <= a THEN s[i] ELSE d[i - a]
    BY <1>1, <1>7, <1>9, ConcatProperties
<1>. HIDE DEF e
<1>11. x = y
    <2>1. \A i \in 1..n : x[i] = y[i]
        <3>. SUFFICES ASSUME NEW i \in 1..n PROVE x[i] = y[i]
            OBVIOUS
        <3>1. a + b - n + i \in 1..(a + b) /\ ~ (a + b - n + i <= a)
              /\ a + b - n + i - a = b - n + i
            BY <1>3
        <3>2. x[i] = u[a + b - n + i]
            BY <1>2, <1>4
        <3>3. y[i] = t[b - n + i]
            BY <1>1, <1>5
        <3>4. u[a + b - n + i] = t[a + b - n + i - a]
            BY <1>2, <3>1
        <3>. QED  BY <3>1, <3>2, <3>3, <3>4
    <2>. QED  BY <1>4, <1>5, <2>1, SeqEqual
<1>12. c = e
    <2>1. \A i \in 1..(a + m) : c[i] = e[i]
        <3>. SUFFICES ASSUME NEW i \in 1..(a + m) PROVE c[i] = e[i]
            OBVIOUS
        <3>1. i \in 1..(a + b) /\ i \in 1..(Len(u) - n) /\ (~ (i <= a) => i - a \in 1..(Len(t) - n))
            BY <1>1, <1>2, <1>3, <1>8
        <3>2. c[i] = IF i <= a THEN s[i] ELSE t[i - a]
            BY <1>2, <1>6, <3>1
        <3>. QED  BY <1>7, <1>10, <3>1, <3>2
    <2>. QED  BY <1>6, <1>9, <1>10, <2>1, SeqEqual
<1>. QED  BY <1>11, <1>12 DEF u, x, y, c, d, e

(* A sequence is what is under its n topmost elements, and those.           *)
LEMMA SplitAt ==
    ASSUME NEW S, NEW s \in Seq(S), NEW n \in 0..Len(s)
    PROVE  s = Drop(s, n) \o Tops(s, n)
<1>. DEFINE d == Drop(s, n)
            x == Tops(s, n)
            u == d \o x
<1>1. PICK l \in Nat, m \in Nat : l = Len(s) /\ m = l - n /\ n \in Nat
    OBVIOUS
<1>2. d \in Seq(S) /\ Len(d) = Len(s) - n /\ \A i \in 1..(Len(s) - n) : d[i] = s[i]
    BY DropFacts
<1>3. x \in Seq(S) /\ Len(x) = n /\ \A i \in 1..n : x[i] = s[Len(s) - n + i]
    BY TopsFacts
<1>. HIDE DEF d, x
<1>4. /\ u \in Seq(S) /\ Len(u) = Len(d) + Len(x)
      /\ \A i \in 1..(Len(d) + Len(x)) : u[i] = IF i <= Len(d) THEN d[i] ELSE x[i - Len(d)]
    BY <1>2, <1>3, ConcatProperties
<1>. HIDE DEF u
<1>5. Len(d) = m /\ Len(x) = n /\ m + n = l
    BY <1>1, <1>2, <1>3
<1>6. \A i \in 1..l : u[i] = s[i]
    <2>. SUFFICES ASSUME NEW i \in 1..l PROVE u[i] = s[i]
        OBVIOUS
    <2>1. u[i] = IF i <= m THEN d[i] ELSE x[i - m]
        BY <1>4, <1>5
    <2>2. CASE i <= m
        BY <1>1, <1>2, <2>1, <2>2
    <2>3. CASE ~ (i <= m)
        <3>1. i - m \in 1..n /\ Len(s) - n + (i - m) = i
            BY <1>1, <1>5, <2>3
        <3>. QED  BY <1>3, <2>1, <2>3, <3>1
    <2>. QED  BY <2>2, <2>3
<1>7. Len(u) = Len(s)
    BY <1>1, <1>4, <1>5
<1>8. u = s
    BY <1>1, <1>4, <1>6, <1>7, SeqEqual
<1>. QED  BY <1>8 DEF d, x, u

(* The top of a segment.                                                    *)
LEMMA SegTops ==
    ASSUME NEW S, NEW s \in Seq(S), NEW a \in Nat, NEW n \in Nat, a + n <= Len(s)
    PROVE  Tops(Seg(s, a, Len(s)), n) = Tops(s, n)
<1>. DEFINE u == Seg(s, a, Len(s))
            x == Tops(u, n)
            y == Tops(s, n)
<1>1. PICK l \in Nat, m \in Nat : l = Len(s) /\ m = l - a /\ a <= l /\ n <= m
    OBVIOUS
<1>2. u \in Seq(S) /\ Len(u) = l - a /\ \A i \in 1..(l - a) : u[i] = s[a + i]
    <2>1. a <= l /\ l <= Len(s)
        BY <1>1
    <2>2. Seg(s, a, l) \in Seq(S) /\ Len(Seg(s, a, l)) = l - a
          /\ \A i \in 1..(l - a) : Seg(s, a, l)[i] = s[a + i]
        BY <2>1, SegFacts
    <2>. QED  BY <1>1, <2>2
<1>. HIDE DEF u
<1>3. n \in 0..Len(u) /\ n \in 0..Len(s) /\ Len(u) = m
    BY <1>1, <1>2
<1>4. x \in Seq(S) /\ Len(x) = n /\ \A i \in 1..n : x[i] = u[Len(u) - n + i]
    BY <1>2, <1>3, TopsFacts
<1>5. y \in Seq(S) /\ Len(y) = n /\ \A i \in 1..n : y[i] = s[Len(s) - n + i]
    BY <1>3, TopsFacts
<1>. HIDE DEF x, y
<1>6. \A i \in 1..n : x[i] = y[i]
    <2>. SUFFICES ASSUME NEW i \in 1..n PROVE x[i] = y[i]
        OBVIOUS
    <2>1. m - n + i \in 1..(l - a) /\ a + (m - n + i) = l - n + i
        BY <1>1
    <2>. QED  BY <1>1, <1>2, <1>3, <1>4, <1>5, <2>1
<1>7. x = y
    BY <1>4, <1>5, <1>6, SeqEqual
<1>. QED  BY <1>7 DEF u, x, y

(* do_call_scatter leaves the items where the list was.                     *)
LEMMA ScatterSlots ==
    ASSUME NEW p \in ScratchPad, p.slots # <<>>, Last(p.slots) \in List,
           NEW q \in Scatter(p)
    PROVE  q.slots = Drop(p.slots, 1) \o Items[Last(p.slots)]
<1>. DEFINE items == Items[Last(p.slots)]
            d == TopDropped(p)
<1>1. items \in Seq(Value)
    BY ProgramAssumption
<1>2. p.slots \in Seq(Value) /\ 1 \in 0..Len(p.slots)
    BY PadFacts
<1>3. Drop(p.slots, 1) \in Seq(Value)
    BY <1>2, DropFacts
<1>4. d \in ScratchPad /\ d.slots = Drop(p.slots, 1)
    <2>1. d = [p EXCEPT !.slots = Drop(p.slots, 1)]
        BY DEF TopDropped
    <2>. QED  BY <1>3, <2>1, NewSlots
<1>5. q \in PushCopies(d, items)
    BY DEF Scatter
<1>. HIDE DEF d, items
<1>6. q.slots = d.slots \o items
    BY <1>1, <1>4, <1>5, PushCopiesFacts
<1>. QED  BY <1>4, <1>6 DEF items

(* Where the arguments of a call are, before and after scattering.          *)
LEMMA ArgumentSlots ==
    ASSUME NEW s \in Seq(Value), NEW nargs \in Nat, nargs <= Len(s),
           NEW scatter \in BOOLEAN,
           scatter => nargs >= 1 /\ Last(s) \in List
    PROVE  LET A == Tops(s, nargs)
               args == IF scatter THEN Drop(A, 1) \o Items[A[nargs]] ELSE A
           IN  /\ args \in Seq(Value)
               /\ Len(args) = IF scatter THEN nargs - 1 + Len(Items[Last(s)]) ELSE nargs
               /\ Drop(s, nargs) \in Seq(Value) /\ Len(Drop(s, nargs)) = Len(s) - nargs
               /\ Drop(s, nargs) \o args =
                     IF scatter THEN Drop(s, 1) \o Items[Last(s)] ELSE s
<1>. DEFINE A == Tops(s, nargs)
            B == Drop(s, nargs)
            I == Items[Last(s)]
            C == Drop(A, 1)
<1>1. nargs \in 0..Len(s)
    OBVIOUS
<1>2. A \in Seq(Value) /\ Len(A) = nargs /\ \A i \in 1..nargs : A[i] = s[Len(s) - nargs + i]
    BY <1>1, TopsFacts
<1>3. B \in Seq(Value) /\ Len(B) = Len(s) - nargs
    BY <1>1, DropFacts
<1>4. s = B \o A
    BY <1>1, SplitAt
<1>. HIDE DEF A, B
<1>5. CASE ~ scatter
    BY <1>2, <1>3, <1>4, <1>5 DEF A, B
<1>6. CASE scatter
    <2>1. nargs >= 1 /\ Last(s) \in List /\ 1 \in 0..Len(A)
        BY <1>2, <1>6
    <2>2. A[nargs] = Last(s)
        <3>1. Len(s) - nargs + nargs = Len(s) /\ nargs \in 1..nargs
            BY <2>1
        <3>. QED  BY <1>2, <3>1 DEF Last
    <2>3. I \in Seq(Value)
        BY <2>1, ProgramAssumption
    <2>4. C \in Seq(Value) /\ Len(C) = nargs - 1
        <3>1. C \in Seq(Value) /\ Len(C) = Len(A) - 1
            BY <1>2, <2>1, DropFacts
        <3>. QED  BY <1>2, <3>1
    <2>5. Drop(s, 1) = B \o C
        BY <1>2, <1>3, <1>4, <2>1, TopsConcat
    <2>. HIDE DEF I, C
    <2>6. C \o I \in Seq(Value) /\ Len(C \o I) = nargs - 1 + Len(I)
        BY <2>3, <2>4, ConcatProperties
    <2>7. (B \o C) \o I = B \o (C \o I)
        BY <1>3, <2>3, <2>4, ConcatAssociative, SMTT(30)
    <2>. QED  BY <1>3, <1>6, <2>2, <2>5, <2>6, <2>7 DEF A, B, C, I
<1>. QED  BY <1>5, <1>6

(* What a call instruction finds on the stack is what CallFrames passes.    *)
LEMMA ArgumentsPassed ==
    ASSUME LInv, NEW nargs \in Nat, NEW scatter \in BOOLEAN,
           CallPoint(nargs, scatter), Scatterable(scatter),
           NEW p \in Scattered(scatter)
    PROVE  LET args == Frames!Arguments(Frames!Fr.opnds, nargs, scatter)
           IN  /\ args \in Seq(Value) /\ Len(args) = Passed(nargs, scatter)
               /\ p.slots = Drop(Pad.slots, nargs) \o args
               /\ Drop(Pad.slots, nargs) \in Seq(Value)
               /\ Len(Drop(Pad.slots, nargs)) = Len(Pad.slots) - nargs
               /\ Frames!Callable(nargs, scatter)
               /\ Frames!Fr.opnds[Len(Frames!Fr.opnds) - nargs] = Called(nargs)
               /\ nargs \in 0..Len(Frames!Fr.opnds)
<1>. DEFINE s == Pad.slots
            O == Frames!Fr.opnds
            A == Tops(s, nargs)
            args == Frames!Arguments(O, nargs, scatter)
<1>1. Running /\ nargs < Pad.ip.depth /\ (scatter => nargs >= 1 /\ Last(s) \in List)
    BY DEF CallPoint, Scatterable
<1>2. /\ Good(Pad) /\ Frames!Running
      /\ Frames!Fr = FrameAt(s, Last(Pad.cs), Len(s))
      /\ O \in Seq(Value) /\ Len(O) = Pad.ip.depth
      /\ \A j \in 1..Pad.ip.depth : O[j] = s[OperandsStart(Last(Pad.cs)) + j]
      /\ Pad.ip.depth \in Nat
      /\ Len(s) = OperandsStart(Last(Pad.cs)) + Pad.ip.depth
    BY <1>1, RunningFacts
<1>3. s \in Seq(Value) /\ OperandsStart(Last(Pad.cs)) \in Nat /\ Pad \in ScratchPad
    BY <1>2, TopFrame
<1>4. PICK o \in Nat, d \in Nat, l \in Nat :
         /\ o = OperandsStart(Last(Pad.cs)) /\ d = Pad.ip.depth /\ l = Len(s)
         /\ l = o + d /\ nargs < d /\ nargs <= l /\ o + nargs <= l
    BY <1>1, <1>2, <1>3
<1>5. O = Seg(s, o, Len(s))
    BY <1>2, <1>4 DEF FrameAt
<1>6. Tops(O, nargs) = A
    <2>1. o + nargs <= Len(s)
        BY <1>4
    <2>. HIDE DEF s
    <2>. QED  BY <1>3, <1>5, <2>1, SegTops
<1>7. args = IF scatter THEN Drop(A, 1) \o Items[A[nargs]] ELSE A
    BY <1>6, FramesOps DEF Frames!Arguments
<1>. HIDE DEF O, args
<1>8. /\ args \in Seq(Value)
      /\ Len(args) = IF scatter THEN nargs - 1 + Len(Items[Last(s)]) ELSE nargs
      /\ Drop(s, nargs) \in Seq(Value) /\ Len(Drop(s, nargs)) = Len(s) - nargs
      /\ Drop(s, nargs) \o args = IF scatter THEN Drop(s, 1) \o Items[Last(s)] ELSE s
    <2>1. nargs <= Len(s)
        BY <1>4
    <2>. HIDE DEF s
    <2>. QED  BY <1>1, <1>3, <1>7, <2>1, ArgumentSlots
<1>9. p.slots = IF scatter THEN Drop(s, 1) \o Items[Last(s)] ELSE s
    <2>1. CASE scatter
        <3>1. s # <<>> /\ Last(s) \in List /\ p \in Scatter(Pad)
            BY <1>1, <1>2, <1>3, <1>4, <2>1 DEF Scattered
        <3>. QED  BY <1>3, <2>1, <3>1, ScatterSlots
    <2>2. CASE ~ scatter
        BY <2>2 DEF Scattered
    <2>. QED  BY <2>1, <2>2
<1>10. O[Len(O) - nargs] = s[Len(s) - nargs]
    <2>1. d - nargs \in 1..d /\ o + (d - nargs) = l - nargs
        BY <1>4
    <2>. QED  BY <1>2, <1>4, <2>1 DEF O
<1>11. Len(O) = d /\ nargs < d /\ nargs \in 0..d /\ (scatter => O[Len(O)] \in List)
    <2>1. d \in 1..d /\ Len(O) = d
        BY <1>2, <1>4 DEF O
    <2>2. O[d] = s[Len(s)]
        BY <1>2, <1>4, <2>1 DEF O
    <2>3. nargs < d /\ nargs \in 0..d
        BY <1>4
    <2>. QED  BY <1>1, <2>1, <2>2, <2>3 DEF Last
<1>12. Frames!Callable(nargs, scatter)
    BY <1>1, <1>2, <1>11 DEF Frames!Callable, O
<1>13. Len(args) = Passed(nargs, scatter)
    BY <1>8 DEF Passed
<1>. QED  BY <1>8, <1>9, <1>10, <1>11, <1>12, <1>13 DEF O, args, Called

(* What do_call_gather makes of p.                                          *)
LEMMA GatherIs ==
    ASSUME NEW p, NEW k, NEW q \in Gather(p, k)
    PROVE  \E e \in (IF k = 0 THEN Ensure(p, 1) ELSE {p}), x \in ListsOf(Tops(p.slots, k)) :
              q = Gathered(e, k, x)
BY DEF Gather

(* do_call_coerce turns the arguments on top into the parameters.           *)
LEMMA CoerceSlots ==
    ASSUME NEW p \in ScratchPad, NEW base \in Seq(Value), NEW args \in Seq(Value),
           p.slots = base \o args, NEW f \in Func, Accepts(f, Len(args)),
           NEW q \in Coerce(p, f, Len(args))
    PROVE  \E bound \in Frames!Bindings(f, args) :
              bound \in Seq(Value) /\ Len(bound) = Params(f) /\ q.slots = base \o bound
<1>1. PICK n \in Nat, R \in Nat : n = Len(args) /\ R = Required(f)
    BY ShapeFacts
<1>2. CASE ~ Gathers(f)
    <2>1. q = p /\ n = R /\ Params(f) = R
        BY <1>1, <1>2 DEF Coerce, Accepts, Params
    <2>2. args \in Frames!Bindings(f, args)
        BY <1>2 DEF Frames!Bindings, Frames!Gathers, Gathers
    <2>. QED  BY <1>1, <2>1, <2>2
<1>3. CASE Gathers(f)
    <2>1. n >= R /\ Params(f) = R + 1 /\ q \in Gather(p, n - R)
        BY <1>1, <1>3 DEF Coerce, Accepts, Params
    <2>2. PICK k \in Nat : k = n - R /\ k <= n /\ k \in 0..Len(args)
        BY <1>1, <2>1
    <2>3. PICK e \in (IF k = 0 THEN Ensure(p, 1) ELSE {p}),
               x \in ListsOf(Tops(p.slots, k)) : q = Gathered(e, k, x)
        <3>1. q \in Gather(p, k)
            BY <2>1, <2>2
        <3>. QED  BY <3>1, GatherIs
    <2>4. e \in ScratchPad /\ e.slots = p.slots
        <3>1. CASE k = 0
            <4>1. e \in Ensure(p, 1) /\ 1 \in Nat
                BY <2>3, <3>1
            <4>. QED  BY <4>1, EnsureFacts
        <3>2. CASE k # 0
            BY <2>3, <3>2
        <3>. QED  BY <3>1, <3>2
    <2>. DEFINE d == Drop(args, k)
                g == << x >>
    <2>5. Tops(p.slots, k) = Tops(args, k) /\ Drop(p.slots, k) = base \o d
        <3>1. k \in 0..Len(args)
            BY <2>2
        <3>2. Tops(base \o args, k) = Tops(args, k) /\ Drop(base \o args, k) = base \o d
            BY <3>1, TopsConcat
        <3>. QED  BY <3>2
    <2>6. q.slots = Append(Drop(p.slots, k), x)
        BY <2>4, <2>3 DEF Gathered, ScratchPad
    <2>7. x \in List /\ Items[x] = Tops(args, k) /\ x \in Value
        BY <2>3, <2>5, ProgramAssumption DEF ListsOf
    <2>8. d \in Seq(Value) /\ Len(d) = R
        <3>1. d \in Seq(Value) /\ Len(d) = Len(args) - k
            BY <2>2, DropFacts
        <3>2. Len(args) - k = R
            BY <1>1, <2>2
        <3>. QED  BY <3>1, <3>2
    <2>9. d = SubSeq(args, 1, R) /\ Tops(args, k) = SubSeq(args, R + 1, Len(args))
        <3>1. Len(args) - k = R /\ Len(args) - k + 1 = R + 1
            BY <1>1, <2>2
        <3>. QED  BY <3>1 DEF Drop, Tops
    <2>. HIDE DEF d
    <2>10. g \in Seq(Value) /\ Len(g) = 1
        BY <2>7
    <2>11. Append(base \o d, x) = (base \o d) \o g
        <3>1. base \o d \in Seq(Value)
            BY <2>8, ConcatProperties
        <3>. QED  BY <2>7, <3>1, AppendIsConcat
    <2>. HIDE DEF g
    <2>12. (base \o d) \o g = base \o (d \o g)
        BY <2>8, <2>10, ConcatAssociative, SMTT(30)
    <2>13. d \o g \in Seq(Value) /\ Len(d \o g) = R + 1
        <3>1. d \in Seq(Value) /\ g \in Seq(Value)
            BY <2>8, <2>10
        <3>2. d \o g \in Seq(Value) /\ Len(d \o g) = Len(d) + Len(g)
            BY <3>1, ConcatProperties
        <3>. QED  BY <2>8, <2>10, <3>2
    <2>14. d \o g \in Frames!Bindings(f, args)
        <3>1. x \in {y \in List : Items[y] = SubSeq(args, R + 1, Len(args))}
            BY <2>7, <2>9
        <3>2. Frames!Gathers(f) /\ Frames!Required(f) = R
            BY <1>1, <1>3 DEF Frames!Gathers, Gathers, Frames!Required, Required
        <3>3. d \o g = SubSeq(args, 1, R) \o << x >>
            BY <2>9 DEF g
        <3>. QED  BY <3>1, <3>2, <3>3 DEF Frames!Bindings
    <2>. QED  BY <2>1, <2>5, <2>6, <2>11, <2>12, <2>13, <2>14
<1>. QED  BY <1>2, <1>3

(* What do_call puts on the caller's slots is the frame of the callee.      *)
LEMMA EnterSlots ==
    ASSUME NEW q \in ScratchPad, NEW base \in Seq(Value), NEW bound \in Seq(Value),
           NEW f \in Func, NEW ip, Len(bound) = Params(f), q.slots = base \o bound,
           NEW r \in Enter(q, f, ip)
    PROVE  /\ r.slots \in Seq(Value) /\ Len(r.slots) = Len(base) + Shape[f].nlocals
           /\ Seg(r.slots, Len(base), Len(r.slots)) = Frames!NewFrame(f, bound).locals
<1>. DEFINE nils == Nils(NVars(f))
            need == Shape[f].maxstack + NVars(f)
<1>1. /\ NVars(f) \in Nat /\ NVars(f) = Shape[f].nlocals - Params(f) /\ need \in Nat
      /\ Params(f) + NVars(f) = Shape[f].nlocals
    <2>1. PICK a \in Nat, b \in Nat, c \in Nat :
             a = Params(f) /\ b = Shape[f].nlocals /\ c = Shape[f].maxstack /\ a <= b
        BY ShapeFacts
    <2>2. b - a \in Nat /\ a + (b - a) = b /\ c + (b - a) \in Nat
        BY <2>1
    <2>. QED  BY <2>1, <2>2 DEF NVars
<1>. HIDE DEF need
<1>2. PICK e \in Ensure(q, need) : r = Started(e, f, SiteFor(q, f, ip))
    BY DEF Enter, need
<1>3. e.slots = q.slots
    BY <1>1, <1>2, EnsureFacts
<1>4. r.slots = (base \o bound) \o nils
    BY <1>2, <1>3 DEF Started
<1>5. nils \in Seq(Value) /\ Len(nils) = NVars(f)
    BY <1>1, NilsFacts
<1>. HIDE DEF nils
<1>. DEFINE x == bound \o nils
<1>6. x \in Seq(Value) /\ Len(x) = Shape[f].nlocals
    <2>1. x \in Seq(Value) /\ Len(x) = Len(bound) + Len(nils)
        BY <1>5, ConcatProperties
    <2>. QED  BY <1>1, <1>5, <2>1
<1>7. r.slots = base \o x
    BY <1>4, <1>5, ConcatAssociative, SMTT(30)
<1>8. Frames!NewFrame(f, bound).locals = x
    <2>1. Frames!Nils(Shape[f].nlocals - Len(bound)) = nils
        BY <1>1, FramesOps DEF nils
    <2>. QED  BY <2>1 DEF Frames!NewFrame
<1>. HIDE DEF x
<1>9. r.slots \in Seq(Value) /\ Len(r.slots) = Len(base) + Shape[f].nlocals
    BY <1>6, <1>7, ConcatProperties
<1>10. Seg(base \o x, Len(base), Len(base \o x)) = x
    BY <1>6, SegTail
<1>. QED  BY <1>7, <1>8, <1>9, <1>10

(* The caller's frame during a call: without the function and arguments.    *)
LEMMA CallerFrame ==
    ASSUME LInv, Running, NEW nargs \in Nat, nargs < Pad.ip.depth,
           NEW m \in Nat, m = Len(Pad.slots) - nargs - 1,
           NEW t \in Seq(Value), m <= Len(t), SameUpTo(Pad.slots, t, m)
    PROVE  FrameAt(t, Last(Pad.cs), m) =
              [Frames!Fr EXCEPT !.opnds = Frames!Drop(Frames!Fr.opnds, nargs + 1)]
<1>. DEFINE s == Pad.slots
            top == Last(Pad.cs)
<1>1. /\ Good(Pad) /\ Frames!Fr = FrameAt(s, top, Len(s))
      /\ Pad.ip.depth \in Nat /\ Len(s) = OperandsStart(top) + Pad.ip.depth
    BY RunningFacts
<1>2. top \in CallSite /\ OperandsStart(top) \in Nat /\ s \in Seq(Value)
    BY <1>1, TopFrame
<1>3. PICK o \in Nat, l \in Nat, j \in Nat :
         /\ o = OperandsStart(top) /\ l = Len(s) /\ j = nargs + 1
         /\ o + j <= l /\ l - j = m /\ o <= m /\ m <= l
    <2>1. PICK o \in Nat, l \in Nat, d \in Nat :
             o = OperandsStart(top) /\ l = Len(s) /\ d = Pad.ip.depth /\ l = o + d /\ nargs < d
        BY <1>1, <1>2
    <2>2. m = l - nargs - 1
        BY <2>1
    <2>3. l = o + d /\ nargs < d
        BY <2>1
    <2>4. nargs + 1 \in Nat /\ o + (nargs + 1) <= l
        BY <2>3
    <2>5. l - (nargs + 1) = m /\ o <= m /\ m <= l
        BY <2>2, <2>3
    <2>. QED  BY <2>1, <2>4, <2>5
<1>. HIDE DEF s, top
<1>4. SameUpTo(s, t, m)
    BY DEF s
<1>5. FrameAt(t, top, m) = [FrameAt(s, top, l) EXCEPT !.opnds = Seg(t, o, m)]
    <2>1. OperandsStart(top) <= Len(s) /\ OperandsStart(top) <= Len(t)
        <3>1. o <= l /\ o <= Len(t)
            BY <1>3
        <3>. QED  BY <1>3, <3>1
    <2>2. SameUpTo(s, t, OperandsStart(top))
        <3>1. \A i \in 1..o : i \in 1..m
            BY <1>3
        <3>. QED  BY <1>3, <1>4, <3>1 DEF SameUpTo
    <2>3. FrameAt(t, top, m) = [FrameAt(s, top, l) EXCEPT !.opnds = Seg(t, OperandsStart(top), m)]
        BY <1>2, <2>1, <2>2, OperandsReplaced
    <2>. QED  BY <1>3, <2>3
<1>6. Seg(t, o, m) = Seg(s, o, m)
    <2>1. o <= m /\ m <= Len(s) /\ m <= Len(t)
        BY <1>3
    <2>2. SameUpTo(t, s, m)
        BY <1>4 DEF SameUpTo
    <2>. QED  BY <1>2, <2>1, <2>2, SegSame, SMTT(30)
<1>7. Seg(s, o, m) = Drop(Seg(s, o, l), nargs + 1)
    <2>1. o + j <= l /\ l <= Len(s)
        BY <1>3
    <2>2. Drop(Seg(s, o, l), j) = Seg(s, o, l - j)
        BY <1>2, <2>1, SegDrop
    <2>. QED  BY <1>3, <2>2
<1>8. Frames!Fr = FrameAt(s, top, l) /\ Frames!Fr.opnds = Seg(s, o, l)
    BY <1>1, <1>3 DEF FrameAt
<1>9. Frames!Drop(Frames!Fr.opnds, nargs + 1) = Drop(Seg(s, o, l), nargs + 1)
    BY <1>8, FramesOps
<1>. QED  BY <1>5, <1>6, <1>7, <1>8, <1>9 DEF top

LEMMA CallFuncStep ==
    ASSUME LInv, LInv', NEW nargs \in Nat, NEW scatter \in BOOLEAN, CallFunc(nargs, scatter)
    PROVE  Frames!CallFunc(nargs, scatter) /\ nargs \in 0..Len(Frames!Fr.opnds)
<1>. DEFINE f == Called(nargs)
            ip == [Pad.ip EXCEPT !.nargs = nargs]
            s == Pad.slots
            base == Drop(s, nargs)
            args == Frames!Arguments(Frames!Fr.opnds, nargs, scatter)
            top == Last(Pad.cs)
<1>1. /\ CallPoint(nargs, scatter) /\ Scatterable(scatter)
      /\ f \in Func /\ Accepts(f, Passed(nargs, scatter)) /\ Len(Pad.cs) < MaxFrames
    BY DEF CallFunc
<1>2. PICK p \in Scattered(scatter) : \E q \in Coerce(p, f, Passed(nargs, scatter)) :
         \E r \in Enter(q, f, ip) : SetPad(r)
    BY DEF CallFunc
<1>3. PICK q \in Coerce(p, f, Passed(nargs, scatter)) : \E r \in Enter(q, f, ip) : SetPad(r)
    BY <1>2
<1>4. PICK r \in Enter(q, f, ip) : SetPad(r)
    BY <1>3
<1>5. Running /\ nargs < Pad.ip.depth
    BY <1>1 DEF CallPoint
<1>6. /\ Good(Pad) /\ IInv /\ pads # <<>> /\ Pad.wait = 0 /\ Frames!Running
      /\ Frames!Pad = [frames |-> FramesOf(Pad), native |-> <<>>]
      /\ Len(FramesOf(Pad)) = Len(Pad.cs)
      /\ Frames!Fr = FrameAt(s, top, Len(s))
      /\ Pad.ip.depth \in Nat /\ Len(s) = OperandsStart(top) + Pad.ip.depth
    BY <1>5, RunningFacts
<1>7. /\ top \in CallSite /\ top = Pad.cs[Len(Pad.cs)] /\ Len(Pad.cs) \in 1..Len(Pad.cs)
      /\ top.bottom \in Nat /\ OperandsStart(top) \in Nat /\ top.bottom <= OperandsStart(top)
      /\ s \in Seq(Value) /\ Pad \in ScratchPad
    BY <1>6, TopFrame
<1>8. /\ args \in Seq(Value) /\ Len(args) = Passed(nargs, scatter)
      /\ p.slots = base \o args /\ base \in Seq(Value) /\ Len(base) = Len(s) - nargs
      /\ Frames!Callable(nargs, scatter)
      /\ Frames!Fr.opnds[Len(Frames!Fr.opnds) - nargs] = f
      /\ nargs \in 0..Len(Frames!Fr.opnds)
    BY <1>1, ArgumentsPassed
<1>9. PadOK(Pad) /\ p \in ScratchPad /\ Arranged(Pad, q, f, nargs)
    BY <1>1, <1>6, ScatteredFacts, ArrangedOK DEF Good
<1>10. q \in ScratchPad
    BY <1>9 DEF Arranged
<1>11. Entered(Pad, q, r, f, nargs)
    BY <1>1, <1>4, <1>5, <1>6, <1>9, EnterFacts
<1>. DEFINE site == SiteFor(q, f, ip)
<1>12. PICK n \in Nat, o \in Nat, l \in Nat, k \in Nat, m \in Nat :
          /\ n = Len(Pad.cs) /\ o = OperandsStart(top) /\ l = Len(s)
          /\ k = l - nargs /\ o + nargs + 1 <= l /\ m = k - 1 /\ o <= m /\ m <= l /\ k <= l
          /\ top.bottom <= o
    <2>1. PICK o \in Nat, l \in Nat, d \in Nat :
             o = OperandsStart(top) /\ l = Len(s) /\ d = Pad.ip.depth /\ l = o + d /\ nargs < d
        BY <1>5, <1>6, <1>7
    <2>2. /\ l - nargs \in Nat /\ l - nargs - 1 \in Nat /\ o + nargs + 1 <= l
          /\ o <= l - nargs - 1 /\ l - nargs - 1 <= l /\ l - nargs <= l
        BY <2>1
    <2>3. Len(Pad.cs) \in Nat
        BY <1>7, PadFacts
    <2>. QED  BY <1>7, <2>1, <2>2, <2>3
<1>13. /\ r \in ScratchPad /\ r.wait = 0 /\ site \in CallSite /\ site.callee = f
       /\ r.cs[n + 1] = site /\ Len(r.cs) = n + 1 /\ \A i \in 1..n : r.cs[i] = Pad.cs[i]
       /\ site.bottom = k /\ Len(r.slots) = OperandsStart(site)
       /\ \A i \in 1..k : r.slots[i] = s[i]
    BY <1>11, <1>12 DEF Entered
<1>14. Good(r)
    BY <1>4, <1>6, <1>13, GoodNext
<1>15. PICK bound \in Frames!Bindings(f, args) :
          bound \in Seq(Value) /\ Len(bound) = Params(f) /\ q.slots = base \o bound
    <2>1. Accepts(f, Len(args)) /\ q \in Coerce(p, f, Len(args)) /\ f \in Func
        BY <1>1, <1>8
    <2>. HIDE DEF f, args, base
    <2>. QED  BY <1>8, <1>9, <2>1, CoerceSlots
<1>. HIDE DEF f, ip, s, base, args, top, site
<1>16. /\ r.slots \in Seq(Value) /\ Len(r.slots) = k + Shape[f].nlocals
       /\ Seg(r.slots, k, Len(r.slots)) = Frames!NewFrame(f, bound).locals
    <2>1. Len(base) = k
        BY <1>8, <1>12
    <2>2. /\ r.slots \in Seq(Value) /\ Len(r.slots) = Len(base) + Shape[f].nlocals
          /\ Seg(r.slots, Len(base), Len(r.slots)) = Frames!NewFrame(f, bound).locals
        <3>1. base \in Seq(Value) /\ bound \in Seq(Value) /\ f \in Func
            BY <1>1, <1>8, <1>15
        <3>2. Len(bound) = Params(f) /\ q.slots = base \o bound /\ r \in Enter(q, f, ip)
            BY <1>4, <1>15
        <3>. QED  BY <1>10, <3>1, <3>2, EnterSlots
    <2>. QED  BY <2>1, <2>2
<1>17. FramesOf(r) = Append(Drop(FramesOf(Pad), 1) \o << FrameOf(r, n) >>, FrameOf(r, n + 1))
    <2>1. k >= top.bottom
        BY <1>7, <1>12, SMTT(30)
    <2>2. SameUpTo(Pad.slots, r.slots, k)
        BY <1>13 DEF SameUpTo, s
    <2>3. k \in Nat /\ k >= Last(Pad.cs).bottom
        BY <1>12, <2>1 DEF top
    <2>4. /\ Good(Pad) /\ Good(r) /\ n \in Nat /\ n = Len(Pad.cs) /\ Len(r.cs) = n + 1
          /\ \A i \in 1..n : r.cs[i] = Pad.cs[i]
        BY <1>6, <1>12, <1>13, <1>14
    <2>. QED  BY <2>2, <2>3, <2>4, FramePushed, ZenonT(30)
<1>18. FrameOf(r, n + 1) = Frames!NewFrame(f, bound)
    <2>1. FrameOf(r, Len(r.cs)) = FrameAt(r.slots, Last(r.cs), Len(r.slots) - r.wait)
          /\ Len(r.slots) \in Nat
        BY <1>14, TopFrame
    <2>2. FrameOf(r, n + 1) = FrameAt(r.slots, site, Len(r.slots))
        <3>1. Last(r.cs) = site
            BY <1>13 DEF Last
        <3>2. Len(r.slots) - 0 = Len(r.slots)
            BY <2>1
        <3>. QED  BY <1>13, <2>1, <3>1, <3>2
    <2>3. Seg(r.slots, Len(r.slots), Len(r.slots)) = <<>>
        <3>1. SubSeq(r.slots, Len(r.slots) + 1, Len(r.slots)) = <<>>
            <4>1. Len(r.slots) + 1 \in Int /\ Len(r.slots) \in Int /\ Len(r.slots) < Len(r.slots) + 1
                BY <2>1
            <4>. QED  BY <4>1, SubSeqEmpty
        <3>. QED  BY <3>1 DEF Seg
    <2>4. FrameAt(r.slots, site, Len(r.slots)) =
             [fn |-> f, consts |-> Shape[f].chunk,
              locals |-> Frames!NewFrame(f, bound).locals, opnds |-> <<>>]
        BY <1>13, <1>16, <2>3 DEF FrameAt
    <2>5. Frames!NewFrame(f, bound) =
             [fn |-> f, consts |-> Shape[f].chunk,
              locals |-> Frames!NewFrame(f, bound).locals, opnds |-> <<>>]
        BY DEF Frames!NewFrame
    <2>. QED  BY <2>2, <2>4, <2>5
<1>. DEFINE caller == [Frames!Fr EXCEPT !.opnds = Frames!Drop(Frames!Fr.opnds, nargs + 1)]
<1>19. FrameOf(r, n) = caller
    <2>1. FrameOf(r, n) = FrameAt(r.slots, top, m)
        <3>1. n \in 1..Len(r.cs) /\ n # Len(r.cs) /\ r.cs[n] = top
            <4>1. n \in 1..n /\ n \in 1..(n + 1) /\ n # n + 1
                BY <1>7, <1>12
            <4>. QED  BY <1>7, <1>12, <1>13, <4>1
        <3>2. StopOf(r, n) = m
            BY <1>12, <1>13, <3>1 DEF StopOf
        <3>. QED  BY <1>14, <3>1, <3>2, FrameIs
    <2>2. m <= Len(r.slots) /\ m = Len(Pad.slots) - nargs - 1
        <3>1. Shape[f].nlocals \in Nat
            BY <1>1, ShapeFacts
        <3>2. m <= k + Shape[f].nlocals /\ m = l - nargs - 1
            BY <1>12, <3>1
        <3>. QED  BY <1>12, <1>16, <3>2 DEF s
    <2>3. SameUpTo(Pad.slots, r.slots, m)
        <3>1. \A i \in 1..m : i \in 1..k
            BY <1>12
        <3>. QED  BY <1>13, <3>1 DEF SameUpTo, s
    <2>4. FrameAt(r.slots, Last(Pad.cs), m) = caller
        BY <1>5, <1>16, <2>2, <2>3, CallerFrame
    <2>. QED  BY <2>1, <2>4 DEF top
<1>. DEFINE F == FramesOf(Pad)
            P == Frames!Pad
            X == Append(Drop(F, 1) \o << caller >>, Frames!NewFrame(f, bound))
<1>20. EvaluationOf(r) = [frames |-> X, native |-> <<>>]
    <2>1. Tops(r.slots, r.wait) = <<>>
        <3>1. Len(r.slots) \in Int
            BY <1>14, TopFrame
        <3>2. SubSeq(r.slots, Len(r.slots) - 0 + 1, Len(r.slots)) = <<>>
            BY <3>1, SubSeqEmpty
        <3>. QED  BY <1>13, <3>2 DEF Tops
    <2>. QED  BY <1>17, <1>18, <1>19, <2>1, EvaluationIs
<1>21. P = [frames |-> F, native |-> <<>>] /\ Len(P.frames) = n /\ Frames!Drop(P.frames, 1) = Drop(F, 1)
    <2>1. P = [frames |-> F, native |-> <<>>]
        BY <1>6
    <2>2. Frames!Drop(F, 1) = Drop(F, 1) /\ Len(F) = n
        BY <1>6, <1>12, FramesOps
    <2>. HIDE DEF P, F
    <2>. QED  BY <2>1, <2>2
<1>22. EvaluationOf(r) =
          [P EXCEPT !.frames = Append(Frames!Drop(P.frames, 1) \o << caller >>,
                                      Frames!NewFrame(f, bound))]
    <2>. DEFINE Y == Append(Frames!Drop(P.frames, 1) \o << caller >>, Frames!NewFrame(f, bound))
    <2>1. Y = X
        BY <1>21
    <2>. HIDE DEF P, F, X, Y, caller
    <2>2. [P EXCEPT !.frames = Y] = [frames |-> X, native |-> <<>>]
        BY <1>21, <2>1
    <2>. QED  BY <1>20, <2>2 DEF Y
<1>23. Frames!SetPad(EvaluationOf(r))
    BY <1>4, <1>6, <1>13, SetPadStep
<1>24. Frames!SetPad([P EXCEPT !.frames =
          Append(Frames!Drop(P.frames, 1) \o << caller >>, Frames!NewFrame(f, bound))])
    BY <1>22, <1>23
<1>25. Frames!Accepts(f, Len(args))
    BY <1>1, <1>8 DEF Frames!Accepts, Accepts, Frames!Gathers, Gathers, Frames!Required, Required
<1>26. Len(P.frames) < MaxFrames
    BY <1>1, <1>12, <1>21
<1>. QED  BY <1>1, <1>8, <1>15, <1>24, <1>25, <1>26 DEF Frames!CallFunc, args

(* The function called and its arguments are on top of a native call.       *)
LEMMA TopsOver ==
    ASSUME NEW S, NEW base \in Seq(S), base # <<>>, NEW args \in Seq(S)
    PROVE  Tops(base \o args, Len(args) + 1) = << Last(base) >> \o args
<1>. DEFINE u == base \o args
            v == Last(base)
            g == << v >>
            y == g \o args
            x == Tops(u, Len(args) + 1)
<1>1. PICK k \in Nat, w \in Nat, e \in Nat :
         k = Len(base) /\ w = Len(args) /\ e = w + 1 /\ k >= 1
    OBVIOUS
<1>2. v \in S
    <2>1. k \in 1..Len(base)
        BY <1>1
    <2>. QED  BY <1>1, <2>1, ElementOfSeq DEF Last
<1>3. v = base[k]
    BY <1>1 DEF Last
<1>4. /\ u \in Seq(S) /\ Len(u) = k + w
      /\ \A i \in 1..(k + w) : u[i] = IF i <= k THEN base[i] ELSE args[i - k]
    BY <1>1, ConcatProperties
<1>. HIDE DEF u, v
<1>5. g \in Seq(S) /\ Len(g) = 1 /\ g[1] = v
    BY <1>2
<1>. HIDE DEF g
<1>6. /\ y \in Seq(S) /\ Len(y) = e
      /\ \A i \in 1..e : y[i] = IF i <= 1 THEN v ELSE args[i - 1]
    <2>1. /\ g \o args \in Seq(S) /\ Len(g \o args) = Len(g) + Len(args)
          /\ \A i \in 1..(Len(g) + Len(args)) :
                (g \o args)[i] = IF i <= Len(g) THEN g[i] ELSE args[i - Len(g)]
        BY <1>5, ConcatProperties
    <2>2. Len(g) + Len(args) = e /\ Len(g) = 1
        BY <1>1, <1>5
    <2>3. \A i \in 1..e : i <= 1 => i = 1
        OBVIOUS
    <2>. QED  BY <1>5, <2>1, <2>2, <2>3
<1>. HIDE DEF y
<1>7. x \in Seq(S) /\ Len(x) = e /\ \A i \in 1..e : x[i] = u[k - 1 + i]
    <2>1. e \in 0..Len(u) /\ Len(u) - e = k - 1
        BY <1>1, <1>4
    <2>2. /\ Tops(u, e) \in Seq(S) /\ Len(Tops(u, e)) = e
          /\ \A i \in 1..e : Tops(u, e)[i] = u[Len(u) - e + i]
        BY <1>4, <2>1, TopsFacts
    <2>. QED  BY <1>1, <2>1, <2>2
<1>. HIDE DEF x
<1>8. \A i \in 1..e : x[i] = y[i]
    <2>. SUFFICES ASSUME NEW i \in 1..e PROVE x[i] = y[i]
        OBVIOUS
    <2>1. k - 1 + i \in 1..(k + w)
        BY <1>1
    <2>2. x[i] = IF k - 1 + i <= k THEN base[k - 1 + i] ELSE args[k - 1 + i - k]
        BY <1>4, <1>7, <2>1
    <2>3. (k - 1 + i <= k <=> i <= 1) /\ (i <= 1 => k - 1 + i = k) /\ k - 1 + i - k = i - 1
        BY <1>1
    <2>. QED  BY <1>3, <1>6, <2>2, <2>3
<1>9. x = y
    BY <1>6, <1>7, <1>8, SeqEqual
<1>. QED  BY <1>9 DEF x, y, u, v, g

LEMMA CallNativeStep ==
    ASSUME LInv, LInv', NEW nargs \in Nat, NEW scatter \in BOOLEAN, CallNative(nargs, scatter)
    PROVE  Frames!CallNative(nargs, scatter) /\ nargs \in 0..Len(Frames!Fr.opnds)
<1>. DEFINE f == Called(nargs)
            s == Pad.slots
            base == Drop(s, nargs)
            args == Frames!Arguments(Frames!Fr.opnds, nargs, scatter)
            top == Last(Pad.cs)
            Waiting(p) == [p EXCEPT !.wait = Passed(nargs, scatter) + 1, !.ip.nargs = nargs]
<1>1. CallPoint(nargs, scatter) /\ Scatterable(scatter) /\ f \in Native
    BY DEF CallNative
<1>2. PICK p \in Scattered(scatter) : SetPad(Waiting(p))
    BY DEF CallNative
<1>3. Running /\ nargs < Pad.ip.depth
    BY <1>1 DEF CallPoint
<1>4. /\ Good(Pad) /\ IInv /\ pads # <<>> /\ Pad.wait = 0 /\ Frames!Running
      /\ Len(FramesOf(Pad)) = Len(Pad.cs)
      /\ Frames!Fr = FrameAt(s, top, Len(s))
      /\ Pad.ip.depth \in Nat /\ Len(s) = OperandsStart(top) + Pad.ip.depth
    BY <1>3, RunningFacts
<1>5. /\ top \in CallSite /\ top.bottom \in Nat /\ OperandsStart(top) \in Nat
      /\ top.bottom <= OperandsStart(top) /\ s \in Seq(Value) /\ Pad \in ScratchPad
    BY <1>4, TopFrame
<1>6. /\ args \in Seq(Value) /\ Len(args) = Passed(nargs, scatter)
      /\ p.slots = base \o args /\ base \in Seq(Value) /\ Len(base) = Len(s) - nargs
      /\ Frames!Callable(nargs, scatter)
      /\ Frames!Fr.opnds[Len(Frames!Fr.opnds) - nargs] = f
      /\ nargs \in 0..Len(Frames!Fr.opnds)
    BY <1>1, <1>2, ArgumentsPassed
<1>. DEFINE r == Waiting(p)
<1>7. PadOK(r) /\ p \in ScratchPad /\ SameControl(Pad, p)
    BY <1>1, <1>2, <1>4, CallNativeOK, ScatteredFacts DEF Good
<1>8. /\ r \in ScratchPad /\ r.slots = base \o args /\ r.cs = Pad.cs
      /\ r.wait = Len(args) + 1
    BY <1>6, <1>7 DEF PadOK, SameControl, ScratchPad
<1>9. SetPad(r)
    BY <1>2
<1>. HIDE DEF r, Waiting
<1>10. PICK o \in Nat, l \in Nat, k \in Nat, m \in Nat, w \in Nat :
          /\ o = OperandsStart(top) /\ l = Len(s) /\ w = Len(args) /\ k = Len(base)
          /\ k = l - nargs /\ o + nargs + 1 <= l /\ m = k - 1 /\ o <= m /\ m <= l /\ k <= l
          /\ top.bottom <= o
    <2>1. PICK o \in Nat, l \in Nat, d \in Nat :
             o = OperandsStart(top) /\ l = Len(s) /\ d = Pad.ip.depth /\ l = o + d /\ nargs < d
        BY <1>3, <1>4, <1>5
    <2>2. /\ l - nargs \in Nat /\ l - nargs - 1 \in Nat /\ o + nargs + 1 <= l
          /\ o <= l - nargs - 1 /\ l - nargs - 1 <= l /\ l - nargs <= l
        BY <2>1
    <2>3. Len(args) \in Nat /\ Len(base) = l - nargs
        BY <1>6, <2>1, LenProperties
    <2>. QED  BY <1>5, <2>1, <2>2, <2>3
<1>11. /\ base \o args \in Seq(Value) /\ Len(base \o args) = k + w
       /\ SameUpTo(s, base \o args, k)
    <2>1. nargs \in 0..Len(s)
        BY <1>10
    <2>2. \A i \in 1..k : base[i] = s[i]
        <3>1. \A i \in 1..(Len(s) - nargs) : Drop(s, nargs)[i] = s[i]
            BY <1>5, <2>1, DropFacts
        <3>. QED  BY <1>10, <3>1
    <2>. HIDE DEF base, args
    <2>3. /\ base \o args \in Seq(Value) /\ Len(base \o args) = Len(base) + Len(args)
          /\ \A i \in 1..(Len(base) + Len(args)) :
                (base \o args)[i] = IF i <= Len(base) THEN base[i] ELSE args[i - Len(base)]
        BY <1>6, ConcatProperties
    <2>4. \A i \in 1..k : i \in 1..(k + w) /\ i <= k
        BY <1>10
    <2>. QED  BY <1>10, <2>2, <2>3, <2>4 DEF SameUpTo
<1>12. Last(base) = f
    <2>1. nargs \in 0..Len(s) /\ k \in 1..(Len(s) - nargs) /\ k = Len(s) - nargs
        BY <1>10
    <2>2. \A i \in 1..(Len(s) - nargs) : Drop(s, nargs)[i] = s[i]
        BY <1>5, <2>1, DropFacts
    <2>3. base[k] = s[k]
        BY <2>1, <2>2
    <2>. QED  BY <1>10, <2>1, <2>3 DEF Last, Called
<1>. HIDE DEF f, s, base, args, top
<1>13. Tops(r.slots, r.wait) = << f >> \o args
    <2>1. base # <<>>
        BY <1>6, <1>10
    <2>2. Tops(base \o args, Len(args) + 1) = << Last(base) >> \o args
        BY <1>6, <2>1, TopsOver
    <2>. QED  BY <1>8, <1>12, <2>2
<1>14. Len(r.slots) - r.wait = m
    <2>1. k + w - (w + 1) = m
        BY <1>10
    <2>. QED  BY <1>8, <1>10, <1>11, <2>1
<1>. DEFINE y == Frames!Drop(Frames!Fr.opnds, nargs + 1)
            caller == [Frames!Fr EXCEPT !.opnds = y]
            F == FramesOf(Pad)
            n == Len(Pad.cs)
            N == << f >> \o args
<1>15. FrameAt(r.slots, top, m) = caller
    <2>1. m = Len(Pad.slots) - nargs - 1
        <3>1. m = l - nargs - 1
            BY <1>10
        <3>. QED  BY <1>10, <3>1 DEF s
    <2>2. m <= Len(r.slots) /\ r.slots \in Seq(Value)
        <3>1. m <= k + w
            BY <1>10
        <3>. QED  BY <1>8, <1>11, <3>1
    <2>3. SameUpTo(Pad.slots, r.slots, m)
        <3>1. \A i \in 1..m : i \in 1..k
            BY <1>10
        <3>. QED  BY <1>8, <1>11, <3>1 DEF SameUpTo, s
    <2>4. FrameAt(r.slots, Last(Pad.cs), m) = caller
        BY <1>3, <2>1, <2>2, <2>3, CallerFrame
    <2>. QED  BY <2>4 DEF top
<1>16. Frames!SetPad(EvaluationWith([F EXCEPT ![n] = caller], N))
    <2>1. SameUpTo(Pad.slots, r.slots, Last(Pad.cs).bottom - 1)
        <3>1. \A i \in 1..(top.bottom - 1) : i \in 1..k
            BY <1>5, <1>10, SMTT(30)
        <3>. QED  BY <1>8, <1>11, <3>1 DEF SameUpTo, s, top
    <2>2. Frames!SetPad(EvaluationWith(
             [F EXCEPT ![n] = FrameAt(r.slots, Last(Pad.cs), Len(r.slots) - r.wait)],
             Tops(r.slots, r.wait)))
        BY <1>4, <1>8, <1>9, <2>1, SetTopStep
    <2>. QED  BY <1>13, <1>14, <1>15, <2>2 DEF top
<1>17. /\ Frames!Pad = EvaluationWith(F, Tops(Pad.slots, Pad.wait))
       /\ Len(Frames!Pad.frames) = n /\ Frames!Pad.frames[n] = Frames!Fr
    <2>1. Frames!Fr = Frames!Pad.frames[Len(Frames!Pad.frames)]
        BY DEF Frames!Fr
    <2>. QED  BY <1>4, <2>1, TopEvaluation
<1>18. F[n] = Frames!Fr
    <2>1. Frames!Pad.frames = F
        BY <1>17 DEF EvaluationWith
    <2>. QED  BY <1>17, <2>1
<1>. HIDE DEF F, n, N, y
<1>19. [Frames!Pad EXCEPT !.frames[n].opnds = y, !.native = N] =
          EvaluationWith([F EXCEPT ![n] = caller], N)
    <2>. DEFINE M == Tops(Pad.slots, Pad.wait)
    <2>1. Frames!Pad = EvaluationWith(F, M)
        BY <1>17
    <2>. HIDE DEF M
    <2>2. WithTop(EvaluationWith(F, M), n, y, N) =
             EvaluationWith([F EXCEPT ![n] = [F[n] EXCEPT !.opnds = y]], N)
        BY TopOpnds
    <2>3. WithTop(Frames!Pad, n, y, N) = [Frames!Pad EXCEPT !.frames[n].opnds = y, !.native = N]
        BY DEF WithTop
    <2>. QED  BY <1>18, <2>1, <2>2, <2>3
<1>20. Frames!SetPad([Frames!Pad EXCEPT !.frames[Len(Frames!Pad.frames)].opnds = Frames!Drop(@, nargs + 1),
                                       !.native = N])
    <2>1. [Frames!Pad EXCEPT !.frames[Len(Frames!Pad.frames)].opnds = Frames!Drop(@, nargs + 1),
                             !.native = N] =
             [Frames!Pad EXCEPT !.frames[n].opnds = y, !.native = N]
        <3>1. Len(Frames!Pad.frames) = n /\ Frames!Pad.frames[n] = Frames!Fr
            BY <1>17
        <3>. QED  BY <3>1 DEF y
    <2>. QED  BY <1>16, <1>19, <2>1
<1>. QED  BY <1>1, <1>6, <1>20 DEF Frames!CallNative, N, args

-----------------------------------------------------------------------------
(* The theorem.                                                             *)

LEMMA FramesInit == Init => Frames!Init
BY DEF Init, Frames!Init

(* A native function in progress is the first of the slots it occupies.     *)
LEMMA NativeFirst ==
    ASSUME LInv, pads # <<>>, Pad.wait > 0
    PROVE  Frames!Pad.native[1] = Pad.slots[Len(Pad.slots) - Pad.wait + 1]
<1>1. Good(Pad)
    BY LInvPad
<1>2. PICK l \in Nat, w \in Nat : l = Len(Pad.slots) /\ w = Pad.wait /\ w >= 1 /\ l - w \in Nat
    BY <1>1, TopFrame
<1>3. Frames!Pad.native = Seg(Pad.slots, l - w, l)
    <2>1. Frames!Pad.native = Tops(Pad.slots, w)
        BY <1>2, TopEvaluation DEF EvaluationWith
    <2>2. l - w + 1 = (l - w) + 1
        BY <1>2
    <2>. QED  BY <1>2, <2>1, <2>2 DEF Tops, Seg
<1>4. PICK a \in Nat : a = l - w /\ a < l
    BY <1>2
<1>5. Pad.slots \in Seq(Value)
    BY <1>1, TopFrame
<1>6. Seg(Pad.slots, a, l)[1] = Pad.slots[a + 1]
    <2>1. a <= l /\ 1 \in 1..(l - a)
        BY <1>4
    <2>2. l <= Len(Pad.slots)
        BY <1>2
    <2>3. \A i \in 1..(l - a) : Seg(Pad.slots, a, l)[i] = Pad.slots[a + i]
        BY <1>5, <2>1, <2>2, SegFacts
    <2>. QED  BY <2>1, <2>3
<1>. QED  BY <1>2, <1>3, <1>4, <1>6

(* Instructions on operands, which are no step of any other kind.           *)
LEMMA OperandStep ==
    ASSUME LInv, LInv', NEW take \in Nat, NEW given,
           Operate(take, given), given = <<>> \/ \E v \in Value : given = <<v>>
    PROVE  Frames!Next
<1>1. given \in Seq(Value)
    <2>1. CASE given = <<>>
        BY <2>1, EmptySeq
    <2>2. ASSUME NEW v \in Value, given = <<v>>
          PROVE  given \in Seq(Value)
        BY <2>2
    <2>. QED  BY <2>1, <2>2
<1>2. Frames!Instruction(take, given) /\ take \in 0..Len(Frames!Fr.opnds)
    BY <1>1, OperateStep
<1>3. Frames!Running
    BY <1>2 DEF Frames!Instruction
<1>4. \E v \in Value : Frames!Instruction(take, <<v>>) \/ Frames!Instruction(take, <<>>)
    BY <1>2, ProgramAssumption
<1>. QED  BY <1>2, <1>3, <1>4 DEF Frames!Next

LEMMA LocalStep ==
    ASSUME LInv, LInv', Running, NEW i \in 1..Shape[Pad.ip.fn].nlocals, NEW v \in Value,
           WriteLocal(i, v)
    PROVE  Frames!Next
<1>1. Frames!SetLocal(i, v) /\ i \in DOMAIN Frames!Fr.locals
    BY WriteLocalStep
<1>2. Frames!Running
    BY <1>1 DEF Frames!SetLocal
<1>. QED  BY <1>1, <1>2 DEF Frames!Next

LEMMA CallStep ==
    ASSUME LInv, LInv', NEW nargs \in Nat, NEW scatter \in BOOLEAN,
           CallFunc(nargs, scatter) \/ CallNative(nargs, scatter)
    PROVE  Frames!Next
<1>1. /\ Frames!CallFunc(nargs, scatter) \/ Frames!CallNative(nargs, scatter)
      /\ nargs \in 0..Len(Frames!Fr.opnds)
    BY CallFuncStep, CallNativeStep
<1>2. Frames!Running
    BY <1>1 DEF Frames!CallFunc, Frames!CallNative, Frames!Callable
<1>. QED  BY <1>1, <1>2 DEF Frames!Next

LEMMA FailStep ==
    ASSUME IInv, Running \/ InNative, Unwind
    PROVE  Frames!Next
<1>1. pads # <<>>
    BY DEF Running, InNative
<1>2. Frames!Running \/ Frames!InNative
    BY <1>1, PadIs
<1>. QED  BY <1>1, <1>2, UnwindStep DEF Frames!Fail, Frames!Next

LEMMA EvalStep ==
    ASSUME LInv, NEW f \in Func, Main(f), Eval(f) \/ RequireEval(f)
    PROVE  Frames!Next
<1>1. IInv
    BY DEF LInv
<1>2. Frames!Main(f)
    BY DEF Main, Frames!Main
<1>3. Frames!Begin(f)
    BY <1>1, BeginStep DEF Eval, RequireEval
<1>4. CASE Eval(f)
    <2>1. pads = <<>> /\ ret = None
        BY <1>4 DEF Eval
    <2>2. Frames!Eval(f)
        BY <1>3, <2>1 DEF Frames!Eval
    <2>. QED  BY <1>2, <2>2 DEF Frames!Next
<1>5. CASE RequireEval(f)
    <2>1. /\ pads # <<>> /\ Pad.wait > 0 /\ InNative /\ Len(pads) < MaxPads
          /\ Pad.slots[Len(Pad.slots) - Pad.wait + 1] = Require
        BY <1>5 DEF RequireEval, InNative
    <2>2. Frames!InNative
        BY <1>1, <2>1, PadIs
    <2>3. Frames!Pad.native[1] = Require
        BY <2>1, NativeFirst
    <2>4. Len(Evals) < MaxPads
        <3>1. pads \in Seq(ScratchPad)
            BY <1>1, <2>1, PadIs
        <3>. QED  BY <2>1, <3>1, EvalsFacts DEF Evals
    <2>5. Frames!RequireEval(f)
        BY <1>3, <2>2, <2>3, <2>4 DEF Frames!RequireEval, Evals, EvalsOf
    <2>. QED  BY <1>2, <2>5 DEF Frames!Next
<1>. QED  BY <1>4, <1>5

(* A native function's end, by itself or by the module Require evaluated.   *)
LEMMA NativeEnd ==
    ASSUME LInv, LInv', NEW v \in Value,
           NativeReturn(v) \/ (RequireReturn /\ v = ret)
    PROVE  Frames!Next
<1>1. IInv
    BY DEF LInv
<1>2. CASE NativeReturn(v)
    <2>1. pads # <<>> /\ Pad.wait > 0 /\ InNative /\ NativeDone(v)
        BY <1>2 DEF NativeReturn, InNative
    <2>2. Frames!InNative
        BY <1>1, <2>1, PadIs
    <2>3. Frames!NativeReturn(v)
        BY <2>1, <2>2, NativeDoneStep DEF Frames!NativeReturn
    <2>. QED  BY <2>3 DEF Frames!Next
<1>3. CASE RequireReturn /\ v = ret
    <2>1. pads # <<>> /\ ret \in Value /\ NativeDone(ret)
        BY <1>3 DEF RequireReturn
    <2>2. ret # None
        BY <2>1, ProgramAssumption
    <2>3. Pad.wait > 0
        BY <1>1, <2>1, <2>2, PadInv DEF AwaitsRequire
    <2>4. Evals # <<>>
        BY <1>1, <2>1, PadIs
    <2>5. Frames!SetPad([Frames!Pad EXCEPT
              !.frames[Len(Frames!Pad.frames)].opnds = Append(@, ret), !.native = <<>>])
        BY <2>1, <2>3, NativeDoneStep
    <2>6. Frames!RequireReturn
        BY <2>1, <2>4, <2>5 DEF Frames!RequireReturn, Evals, EvalsOf
    <2>. QED  BY <2>6 DEF Frames!Next
<1>. QED  BY <1>2, <1>3

(* Every step of the evaluator is a step on frames, or changes none.        *)
LEMMA FramesStep ==
    ASSUME LInv, LInv', [Next]_vars
    PROVE  [Frames!Next]_(Frames!vars)
<1>. USE DEF LInv
<1>1. CASE UNCHANGED vars
    BY <1>1 DEF vars, Frames!vars
<1>2. CASE Next
    <2>. SUFFICES Frames!Next
        OBVIOUS
    <2>1. ASSUME NEW f \in Func, Main(f), Eval(f) \/ RequireEval(f)
          PROVE  Frames!Next
        BY <2>1, EvalStep
    <2>2. ASSUME NEW v \in Value, Load(v)
          PROVE  Frames!Next
        BY <2>2, OperandStep DEF Load
    <2>3. ASSUME NEW v \in Value, NativeReturn(v)
          PROVE  Frames!Next
        BY <2>3, NativeEnd
    <2>4. ASSUME NEW take \in Nat, NEW v \in Value, Compute(take, v)
          PROVE  Frames!Next
        BY <2>4, OperandStep DEF Compute
    <2>5. ASSUME NEW take \in {1, 3}, Consume(take)
          PROVE  Frames!Next
        <3>1. Operate(take, <<>>) /\ take \in Nat
            BY <2>5 DEF Consume
        <3>. QED  BY <3>1, OperandStep
    <2>6. ASSUME Running, NEW i \in 1..Shape[Pad.ip.fn].nlocals, LoadLocal(i)
          PROVE  Frames!Next
        <3>1. PICK v \in LocalReads(Pad, i) : Operate(0, <<v>>)
            BY <2>6 DEF LoadLocal
        <3>2. v \in Value
            BY <2>6, ReadFacts
        <3>. QED  BY <3>1, <3>2, OperandStep
    <2>7. ASSUME Running, NEW i \in 1..Shape[Pad.ip.fn].nlocals, StoreLocal(i)
          PROVE  Frames!Next
        <3>1. WriteLocal(i, Last(Pad.slots)) /\ Pad.ip.depth >= 1
            BY <2>7 DEF StoreLocal, WriteLocal
        <3>2. Last(Pad.slots) \in Value
            <4>1. Good(Pad) /\ Pad.wait = 0
                BY <2>7, RunningFacts
            <4>2. Pad.slots \in Seq(Value) /\ Len(Pad.slots) \in 1..Len(Pad.slots)
                <5>1. /\ Pad.slots \in Seq(Value) /\ Len(Pad.slots) \in Nat
                      /\ OperandsStart(Last(Pad.cs)) \in Nat
                      /\ Last(Pad.cs).bottom \in Nat /\ Last(Pad.cs).bottom >= 1
                      /\ Last(Pad.cs).bottom <= OperandsStart(Last(Pad.cs))
                      /\ OperandsStart(Last(Pad.cs)) <= Len(Pad.slots) - Pad.wait
                    BY <4>1, TopFrame
                <5>. QED  BY <4>1, <5>1
            <4>. QED  BY <4>2 DEF Last
        <3>. QED  BY <2>7, <3>1, <3>2, LocalStep
    <2>8. ASSUME Running, NEW i \in 1..Shape[Pad.ip.fn].nlocals, NEW v \in Value,
                 ModifyLocal(i, v)
          PROVE  Frames!Next
        BY <2>8, LocalStep DEF ModifyLocal
    <2>9. ASSUME NEW nargs \in Nat, NEW scatter \in BOOLEAN,
                 CallFunc(nargs, scatter) \/ CallNative(nargs, scatter)
          PROVE  Frames!Next
        BY <2>9, CallStep
    <2>10. ASSUME NEW nargs, NEW scatter, CallFails(nargs, scatter)
           PROVE  Frames!Next
        BY <2>10, FailStep DEF CallFails, CallPoint
    <2>11. CASE NativeThrow \/ Throw
        BY <2>11, FailStep DEF NativeThrow, Throw
    <2>12. CASE RequireReturn
        BY <2>12, NativeEnd DEF RequireReturn
    <2>13. CASE RequireThrow
        <3>1. pads # <<>> /\ ret = Failed /\ Unwind
            BY <2>13 DEF RequireThrow
        <3>2. Evals # <<>> /\ Frames!Unwind
            BY <3>1, PadIs, UnwindStep
        <3>3. Frames!RequireFail
            BY <3>1, <3>2 DEF Frames!RequireFail, Evals, EvalsOf
        <3>. QED  BY <3>3 DEF Frames!Next
    <2>14. CASE Return \/ Finish
        BY <2>14, ReturnStep, FinishStep DEF Frames!Next
    <2>15. CASE Deliver
        <3>1. pads = <<>> /\ ret # None /\ ret' = None /\ pads' = pads
            BY <2>15 DEF Deliver
        <3>2. Evals = <<>> /\ Evals' = Evals
            BY <3>1 DEF Evals, EvalsOf
        <3>3. Frames!Deliver
            BY <3>1, <3>2 DEF Frames!Deliver, Evals, EvalsOf
        <3>. QED  BY <3>3 DEF Frames!Next
    <2>16. Running => Pad.ip.depth \in Nat
        BY RunningFacts
    <2>17. \A take \in 1..Pad.ip.depth, v \in Value :
              Running /\ Compute(take, v) => Frames!Next
        BY <2>4, <2>16
    <2>18. \A nargs \in 0..Pad.ip.depth, scatter \in BOOLEAN :
              /\ Running /\ (CallFunc(nargs, scatter) \/ CallNative(nargs, scatter))
                    => Frames!Next
        BY <2>9, <2>16
    <2>. QED  BY <1>2, <2>1, <2>2, <2>3, <2>5, <2>6, <2>7, <2>8, <2>10, <2>11, <2>12,
                 <2>13, <2>14, <2>15, <2>17, <2>18 DEF Next
<1>. QED  BY <1>1, <1>2

(* When every OP_CALL leaves room for what do_call pushes before it saves   *)
(* the offset of the caller's locals (NoEarlyGrowth), the one value stack   *)
(* of vm.c behaves as separate frames: do_call hands each function its      *)
(* arguments, scattered or gathered, by value, OP_RETURN gives the caller   *)
(* its locals, operands and constants back with the one value returned, and *)
(* an error takes exactly the evaluations waiting on Require with it.       *)
THEOREM ImplementsFrames ==
    ASSUME NoEarlyGrowth
    PROVE  Spec => FramesSpec
<1>1. Init => LInv
    BY InitInv DEF Init, LInv
<1>2. LInv /\ [Next]_vars => LInv'
    BY LocalsNext
<1>3. Init => Frames!Init
    BY FramesInit
<1>4. LInv /\ LInv' /\ [Next]_vars => [Frames!Next]_(Frames!vars)
    BY FramesStep
<1>. QED  BY <1>1, <1>2, <1>3, <1>4, PTL DEF Spec, FramesSpec, Frames!Spec
=============================================================================
