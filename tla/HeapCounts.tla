----------------------------- MODULE HeapCounts -----------------------------
(***************************************************************************)
(* What the proofs about Heap rest on: the inductive invariant, how counts *)
(* of references behave in sequences, lists of tasks, containers and       *)
(* globals, and what each kind of change of the heap does to them and to   *)
(* the lists of weak references.                                           *)
(***************************************************************************)
EXTENDS Heap, FiniteSetTheorems, SequenceTheorems, WellFoundedInduction, TLAPS

If(b) == IF b THEN 1 ELSE 0
Hits(a, b) == IF a = b THEN 1 ELSE 0

-----------------------------------------------------------------------------
(* The invariant, of a heap h, a stack st, globals gl and tasks d.           *)

AliveIn(h) == {c \in Obj : h[c] # Free /\ h[c].nrefs > 0}
WrefsIn(h) == {w \in AliveIn(h) : h[w].kind = "wref"}
ContainersIn(h) == {c \in AliveIn(h) : h[c].kind \in Containers}

Nrefs(h, o) == IF h[o] = Free THEN 0 ELSE h[o].nrefs

(* Where there are references to o.                                         *)
InGlobals(gl, o) == Cardinality({g \in Global : gl[g] = o})
Slots(h, M) == {ci \in AliveIn(h) \X (1..M) : ci[2] \in DOMAIN h[ci[1]].items}
InItems(h, M, o) == Cardinality({ci \in Slots(h, M) : h[ci[1]].items[ci[2]] = o})
Owes(t) == IF t.do = "free" THEN None ELSE t.ref
Owed(d) == [i \in 1..Len(d) |-> Owes(d[i])]
Due(d, o) == Count(Owed(d), o)

(* The references about to be overwritten, which a task owes already.       *)
Places(d) == {d[i].place : i \in {i \in 1..Len(d) : d[i].do = "write"}}
At(h, gl, p) == IF p.in = None THEN gl[p.at] ELSE h[p.in].items[p.at]
Lost(h, gl, d, o) == Cardinality({p \in Places(d) : At(h, gl, p) = o})

Balanced(h, st, gl, d, M) ==
    \A o \in Obj :
        Count(st, o) + InGlobals(gl, o) + InItems(h, M, o) + Due(d, o)
            = Nrefs(h, o) + Lost(h, gl, d, o)

(* A write is the only one, and into a container that is released later; a
   block is freed once, when nothing counts.                                *)
WriteSound(h, d, i) ==
    LET p == d[i].place
    IN  p.in # None =>
          /\ p.in \in AliveIn(h) /\ p.at \in 1..Len(h[p.in].items)
          /\ \E j \in (i + 1)..Len(d) : d[j] = Unref(p.in)
FreeSound(h, d, i) ==
    /\ h[d[i].ref] # Free /\ h[d[i].ref].nrefs = 0
    /\ \A j \in 1..Len(d) : d[j] = d[i] => j = i
Tasks(h, d) ==
    \A i \in 1..Len(d) :
        /\ d[i].do = "write" => /\ WriteSound(h, d, i)
                                /\ \A j \in 1..Len(d) : d[j].do = "write" => j = i
        /\ d[i].do = "free" => FreeSound(h, d, i)

(* The lists of weak references are doubly linked and lead to ever smaller
   ranks, so they end.                                                      *)
WrefLinked(h, rk, w) ==
    /\ h[w].target # None =>
          /\ h[w].target \in ContainersIn(h)
          /\ h[w].prev = None => h[h[w].target].wref_first = w
    /\ h[w].next # None =>
          /\ h[w].next \in WrefsIn(h) /\ h[h[w].next].prev = w
          /\ h[h[w].next].target = h[w].target /\ rk[h[w].next] < rk[w]
    /\ h[w].prev # None => h[w].prev \in WrefsIn(h) /\ h[h[w].prev].next = w
FirstLinked(h, o) ==
    h[o].wref_first # None =>
        /\ h[o].wref_first \in WrefsIn(h)
        /\ h[h[o].wref_first].target = o /\ h[h[o].wref_first].prev = None
Linked(h, rk) ==
    /\ \A w \in WrefsIn(h) : WrefLinked(h, rk, w)
    /\ \A o \in ContainersIn(h) : FirstLinked(h, o)

WellLinked(h) == \E K \in Nat : \E rk \in [Obj -> 0..K] : Linked(h, rk)

Fits(h, M) == /\ h \in [Obj -> Cell \union {Free}]
              /\ \A o \in Obj : h[o] # Free => Len(h[o].items) <= M

HeapOK(h, M) == Fits(h, M) /\ WellLinked(h)

Sound(h, st, gl, d, M) ==
    /\ HeapOK(h, M)
    /\ st \in Seq(Ref) /\ gl \in [Global -> Ref \union {None}] /\ d \in Seq(Task)
    /\ Balanced(h, st, gl, d, M) /\ Tasks(h, d)

HInv ==
    /\ Sound(heap, stack, globals, due, MaxItems)
    /\ over \in BOOLEAN /\ bound \in Bounds

-----------------------------------------------------------------------------
(* Counting.                                                                *)

LEMMA SameSize ==
    ASSUME NEW A, NEW B, IsFiniteSet(A), NEW f \in [A -> B],
           \A x, y \in A : f[x] = f[y] => x = y, \A y \in B : \E x \in A : f[x] = y
    PROVE  IsFiniteSet(B) /\ Cardinality(B) = Cardinality(A)
<1>1. f \in Bijection(A, B)
    BY DEF Bijection, Injection, Surjection, IsInjective
<1>. QED  BY <1>1, FS_Bijection DEF ExistsBijection

LEMMA Without ==
    ASSUME NEW A, NEW x, IsFiniteSet(A)
    PROVE  /\ IsFiniteSet(A \ {x}) /\ Cardinality(A) \in Nat /\ Cardinality(A \ {x}) \in Nat
           /\ Cardinality(A) = Cardinality(A \ {x}) + If(x \in A)
<1>1. IsFiniteSet(A \ {x}) /\ Cardinality(A \ {x}) = IF x \in A THEN Cardinality(A) - 1 ELSE Cardinality(A)
    BY FS_RemoveElement
<1>2. Cardinality(A) \in Nat /\ Cardinality(A \ {x}) \in Nat
    BY <1>1, FS_CardinalityType
<1>. QED  BY <1>1, <1>2 DEF If, Hits

LEMMA CountFacts ==
    ASSUME NEW S, NEW s \in Seq(S), NEW o
    PROVE  /\ IsFiniteSet({i \in DOMAIN s : s[i] = o}) /\ Count(s, o) \in Nat
           /\ Count(s, o) = 0 <=> \A i \in 1..Len(s) : s[i] # o
<1>. DEFINE A == {i \in DOMAIN s : s[i] = o}
<1>1. Len(s) \in Nat /\ DOMAIN s = 1..Len(s)
    OBVIOUS
<1>2. IsFiniteSet(1..Len(s))
    BY <1>1, FS_Interval
<1>3. A \in SUBSET (1..Len(s))
    BY <1>1
<1>4. IsFiniteSet(A)
    BY <1>2, <1>3, FS_Subset
<1>5. Cardinality(A) \in Nat /\ (Cardinality(A) = 0 <=> A = {})
    BY <1>4, FS_CardinalityType, FS_EmptySet
<1>6. A = {} <=> \A i \in 1..Len(s) : s[i] # o
    BY <1>1
<1>. QED  BY <1>4, <1>5, <1>6 DEF Count

LEMMA CountEmpty == \A o : Count(<<>>, o) = 0
<1>. SUFFICES ASSUME NEW o PROVE Count(<<>>, o) = 0
    OBVIOUS
<1>1. {i \in DOMAIN <<>> : <<>>[i] = o} = {}
    OBVIOUS
<1>. QED  BY <1>1, FS_EmptySet DEF Count

LEMMA CountConcat ==
    ASSUME NEW S, NEW s \in Seq(S), NEW t \in Seq(S), NEW o
    PROVE  Count(s \o t, o) = Count(s, o) + Count(t, o)
<1>1. PICK m \in Nat, n \in Nat : m = Len(s) /\ n = Len(t)
    OBVIOUS
<1>. DEFINE A == {i \in DOMAIN s : s[i] = o}
            B == {i \in DOMAIN t : t[i] = o}
            C == {i \in DOMAIN (s \o t) : (s \o t)[i] = o}
            D == {i \in (m + 1)..(m + n) : t[i - m] = o}
            f == [i \in B |-> i + m]
<1>2. DOMAIN s = 1..m /\ DOMAIN t = 1..n /\ DOMAIN (s \o t) = 1..(m + n)
    BY <1>1, ConcatProperties
<1>3. \A i \in 1..(m + n) : (s \o t)[i] = IF i <= m THEN s[i] ELSE t[i - m]
    BY <1>1
<1>4. C = A \union D /\ A \intersect D = {}
    BY <1>1, <1>2, <1>3
<1>5. IsFiniteSet(A) /\ IsFiniteSet(B) /\ Cardinality(A) = Count(s, o) /\ Cardinality(B) = Count(t, o)
    BY CountFacts DEF Count
<1>6. IsFiniteSet(D) /\ Cardinality(D) = Cardinality(B)
    <2>1. \A i \in B : i \in 1..n /\ t[i] = o
        BY <1>2
    <2>2. \A i \in B : i + m \in (m + 1)..(m + n) /\ i + m - m = i
        BY <1>1, <2>1
    <2>3. f \in [B -> D] /\ \A i \in B : f[i] = i + m
        BY <2>1, <2>2
    <2>4. \A i \in D : i - m \in B /\ i - m + m = i
        BY <1>1, <1>2
    <2>5. \A i, j \in B : f[i] = f[j] => i = j
        BY <2>2, <2>3
    <2>6. \A j \in D : \E i \in B : f[i] = j
        BY <2>3, <2>4
    <2>. HIDE DEF B, D, f
    <2>. QED  BY <1>5, <2>3, <2>5, <2>6, SameSize
<1>7. Cardinality(C) = Cardinality(A) + Cardinality(D) - Cardinality({})
    <2>. HIDE DEF A, C, D
    <2>. QED  BY <1>4, <1>5, <1>6, FS_Union
<1>8. Cardinality(C) = Count(s \o t, o)
    BY DEF Count
<1>9. Count(s, o) \in Nat /\ Count(t, o) \in Nat /\ Cardinality({}) = 0
    BY CountFacts, FS_EmptySet
<1>. HIDE DEF A, B, C, D
<1>. QED  BY <1>5, <1>6, <1>7, <1>8, <1>9

LEMMA CountOne ==
    ASSUME NEW r, NEW o
    PROVE  Count(<< r >>, o) = Hits(r, o)
<1>1. DOMAIN << r >> = {1} /\ << r >>[1] = r
    OBVIOUS
<1>2. Cardinality({1}) = 1 /\ Cardinality({}) = 0
    BY FS_Singleton, FS_EmptySet
<1>3. CASE r = o
    <2>1. {i \in DOMAIN << r >> : << r >>[i] = o} = {1}
        BY <1>1, <1>3
    <2>. QED  BY <1>2, <1>3, <2>1 DEF Count, If, Hits
<1>4. CASE r # o
    <2>1. {i \in DOMAIN << r >> : << r >>[i] = o} = {}
        BY <1>1, <1>4
    <2>. QED  BY <1>2, <1>4, <2>1 DEF Count, If, Hits
<1>. QED  BY <1>3, <1>4

LEMMA CountAppend ==
    ASSUME NEW S, NEW s \in Seq(S), NEW r \in S, NEW o
    PROVE  Count(Append(s, r), o) = Count(s, o) + Hits(r, o)
<1>1. << r >> \in Seq(S) /\ Append(s, r) = s \o << r >>
    BY AppendIsConcat
<1>2. Count(s \o << r >>, o) = Count(s, o) + Count(<< r >>, o)
    BY <1>1, CountConcat
<1>. QED  BY <1>1, <1>2, CountOne

LEMMA DropTops ==
    ASSUME NEW S, NEW s \in Seq(S), NEW n \in 0..Len(s)
    PROVE  /\ Drop(s, n) \in Seq(S) /\ Tops(s, n) \in Seq(S)
           /\ Len(Drop(s, n)) = Len(s) - n /\ Len(Tops(s, n)) = n
           /\ s = Drop(s, n) \o Tops(s, n)
           /\ \A i \in 1..(Len(s) - n) : Drop(s, n)[i] = s[i]
<1>1. PICK l \in Nat : l = Len(s)
    OBVIOUS
<1>2. 0..l \subseteq Nat /\ n \in Nat /\ n <= l
    BY <1>1
<1>3. \A i \in 1..l : s[i] \in S
    BY <1>1
<1>4. /\ SubSeq(s, 1, l - n) \in Seq(S)
      /\ Len(SubSeq(s, 1, l - n)) = IF 1 <= l - n THEN l - n - 1 + 1 ELSE 0
      /\ \A i \in 1..(l - n - 1 + 1) : SubSeq(s, 1, l - n)[i] = s[1 + i - 1]
    <2>1. 1 \in Int /\ l - n \in Int /\ \A i \in 1..(l - n) : s[i] \in S
        BY <1>2, <1>3
    <2>. QED  BY <2>1, SubSeqProperties
<1>5. /\ SubSeq(s, l - n + 1, l) \in Seq(S)
      /\ Len(SubSeq(s, l - n + 1, l)) = IF l - n + 1 <= l THEN l - (l - n + 1) + 1 ELSE 0
      /\ \A i \in 1..(l - (l - n + 1) + 1) : SubSeq(s, l - n + 1, l)[i] = s[l - n + 1 + i - 1]
    <2>1. l - n + 1 \in Int /\ l \in Int /\ \A i \in (l - n + 1)..l : s[i] \in S
        BY <1>2, <1>3
    <2>. QED  BY <2>1, SubSeqProperties
<1>. DEFINE a == Drop(s, n)
            b == Tops(s, n)
<1>6. a \in Seq(S) /\ Len(a) = l - n /\ \A i \in 1..(l - n) : a[i] = s[i]
    <2>1. (IF 1 <= l - n THEN l - n - 1 + 1 ELSE 0) = l - n /\ l - n - 1 + 1 = l - n
          /\ \A i \in 1..(l - n) : 1 + i - 1 = i
        BY <1>2
    <2>. QED  BY <1>1, <1>4, <2>1 DEF Drop
<1>7. b \in Seq(S) /\ Len(b) = n /\ \A i \in 1..n : b[i] = s[l - n + i]
    <2>1. (IF l - n + 1 <= l THEN l - (l - n + 1) + 1 ELSE 0) = n /\ l - (l - n + 1) + 1 = n
          /\ \A i \in 1..n : l - n + 1 + i - 1 = l - n + i
        BY <1>2
    <2>. QED  BY <1>1, <1>5, <2>1 DEF Tops
<1>. HIDE DEF a, b
<1>8. a \o b \in Seq(S) /\ Len(a \o b) = l
    <2>1. l - n + n = l
        BY <1>2
    <2>. QED  BY <1>6, <1>7, <2>1, ConcatProperties
<1>9. \A i \in 1..l : (a \o b)[i] = s[i]
    <2>1. \A i \in 1..l : (a \o b)[i] = IF i <= l - n THEN a[i] ELSE b[i - (l - n)]
        <3>1. PICK k \in Nat : k = l - n
            BY <1>2
        <3>2. Len(a) = k /\ Len(a) + Len(b) = l
            BY <1>2, <1>6, <1>7, <3>1
        <3>3. \A i \in 1..(Len(a) + Len(b)) : (a \o b)[i] = IF i <= Len(a) THEN a[i] ELSE b[i - Len(a)]
            BY <1>6, <1>7, ConcatProperties
        <3>. QED  BY <3>1, <3>2, <3>3
    <2>. SUFFICES ASSUME NEW i \in 1..l PROVE (a \o b)[i] = s[i]
        OBVIOUS
    <2>2. CASE i <= l - n
        <3>1. i \in 1..(l - n)
            BY <1>2, <2>2
        <3>. QED  BY <1>6, <2>1, <2>2, <3>1
    <2>3. CASE ~ (i <= l - n)
        <3>1. i - (l - n) \in 1..n /\ l - n + (i - (l - n)) = i
            BY <1>2, <2>3
        <3>. QED  BY <1>7, <2>1, <2>3, <3>1
    <2>. QED  BY <2>2, <2>3
<1>10. s = a \o b
    BY <1>1, <1>8, <1>9, SeqEqual
<1>. QED  BY <1>1, <1>6, <1>7, <1>10 DEF a, b

LEMMA CountDrop ==
    ASSUME NEW S, NEW s \in Seq(S), NEW n \in 0..Len(s), NEW o
    PROVE  Count(s, o) = Count(Drop(s, n), o) + Count(Tops(s, n), o)
<1>. DEFINE a == Drop(s, n)
            b == Tops(s, n)
<1>1. a \in Seq(S) /\ b \in Seq(S) /\ s = a \o b
    BY DropTops
<1>. HIDE DEF a, b
<1>2. Count(a \o b, o) = Count(a, o) + Count(b, o)
    BY <1>1, CountConcat
<1>. QED  BY <1>1, <1>2 DEF a, b

LEMMA LastAlone ==
    ASSUME NEW S, NEW s \in Seq(S), Len(s) \in 1..Len(s)
    PROVE  SubSeq(s, Len(s), Len(s)) = << s[Len(s)] >>
<1>1. PICK l \in Nat : l = Len(s)
    OBVIOUS
<1>. DEFINE a == SubSeq(s, l, l)
            b == << s[l] >>
<1>2. s[l] \in S /\ l \in Int /\ \A i \in l..l : s[i] \in S
    BY <1>1
<1>3. a \in Seq(S) /\ Len(a) = 1 /\ a[1] = s[l]
    <2>1. /\ a \in Seq(S) /\ Len(a) = IF l <= l THEN l - l + 1 ELSE 0
          /\ \A i \in 1..(l - l + 1) : a[i] = s[l + i - 1]
        BY <1>2, SubSeqProperties
    <2>2. (IF l <= l THEN l - l + 1 ELSE 0) = 1 /\ 1 \in 1..(l - l + 1) /\ l + 1 - 1 = l
        BY <1>1
    <2>. HIDE DEF a
    <2>. QED  BY <2>1, <2>2
<1>4. b \in Seq(S) /\ Len(b) = 1 /\ b[1] = s[l]
    BY <1>2
<1>5. a = b
    <2>. HIDE DEF a, b
    <2>. QED  BY <1>3, <1>4, SeqEqual
<1>. QED  BY <1>1, <1>5

(* The last element, and the last but one.                                  *)
LEMMA CountLast ==
    ASSUME NEW S, NEW s \in Seq(S), Len(s) >= 1
    PROVE  /\ Drop(s, 1) \in Seq(S) /\ Len(Drop(s, 1)) = Len(s) - 1 /\ s[Len(s)] \in S
           /\ \A o : Count(s, o) = Count(Drop(s, 1), o) + Hits(s[Len(s)], o)
           /\ \A i \in 1..(Len(s) - 1) : Drop(s, 1)[i] = s[i]
<1>1. 1 \in 0..Len(s) /\ Len(s) \in 1..Len(s) /\ Len(s) \in Nat
    OBVIOUS
<1>2. /\ Drop(s, 1) \in Seq(S) /\ Len(Drop(s, 1)) = Len(s) - 1
      /\ Tops(s, 1) \in Seq(S) /\ Len(Tops(s, 1)) = 1
      /\ \A i \in 1..(Len(s) - 1) : Drop(s, 1)[i] = s[i]
    <2>1. 1 \in 0..Len(s)
        BY <1>1
    <2>. QED  BY <2>1, DropTops
<1>3. Tops(s, 1) = << s[Len(s)] >>
    <2>1. Tops(s, 1) = SubSeq(s, Len(s), Len(s))
        BY <1>1 DEF Tops
    <2>. QED  BY <1>1, <2>1, LastAlone
<1>4. ASSUME NEW o PROVE Count(s, o) = Count(Drop(s, 1), o) + Hits(s[Len(s)], o)
    BY <1>1, <1>3, CountDrop, CountOne
<1>. QED  BY <1>1, <1>2, <1>4

LEMMA CountLastTwo ==
    ASSUME NEW S, NEW s \in Seq(S), Len(s) >= 2
    PROVE  /\ Drop(s, 2) \in Seq(S) /\ Len(Drop(s, 2)) = Len(s) - 2
           /\ s[Len(s)] \in S /\ s[Len(s) - 1] \in S
           /\ \A o : Count(s, o) = Count(Drop(s, 2), o) + Hits(s[Len(s) - 1], o) + Hits(s[Len(s)], o)
<1>1. 2 \in 0..Len(s) /\ Len(s) \in 1..Len(s) /\ Len(s) \in Nat /\ Len(s) - 1 \in 1..Len(s)
    OBVIOUS
<1>2. /\ Drop(s, 2) \in Seq(S) /\ Len(Drop(s, 2)) = Len(s) - 2
      /\ Tops(s, 2) \in Seq(S) /\ Len(Tops(s, 2)) = 2
    <2>1. 2 \in 0..Len(s)
        BY <1>1
    <2>. QED  BY <2>1, DropTops
<1>3. Tops(s, 2) = << s[Len(s) - 1] >> \o << s[Len(s)] >>
    <2>1. Tops(s, 2) = SubSeq(s, Len(s) - 1, Len(s))
        BY <1>1 DEF Tops
    <2>2. Len(s) - 1 \in 1..Len(s) /\ Len(s) \in (Len(s) - 1)..Len(s)
        BY <1>1
    <2>3. SubSeq(s, Len(s) - 1, Len(s)) = << s[Len(s) - 1] >> \o SubSeq(s, Len(s) - 1 + 1, Len(s))
        BY <2>2, SubSeqRecursiveFirst
    <2>4. SubSeq(s, Len(s) - 1 + 1, Len(s)) = << s[Len(s)] >>
        <3>1. Len(s) - 1 + 1 = Len(s)
            BY <1>1
        <3>. QED  BY <1>1, <3>1, LastAlone
    <2>. QED  BY <2>1, <2>3, <2>4
<1>4. << s[Len(s) - 1] >> \in Seq(S) /\ << s[Len(s)] >> \in Seq(S)
    BY <1>1
<1>5. \A o : Count(Drop(s, 2), o) \in Nat
    BY <1>2, CountFacts
<1>6. ASSUME NEW o
      PROVE  Count(s, o) = Count(Drop(s, 2), o) + Hits(s[Len(s) - 1], o) + Hits(s[Len(s)], o)
    <2>1. Count(s, o) = Count(Drop(s, 2), o) + Count(Tops(s, 2), o)
        BY <1>1, CountDrop
    <2>2. Count(Tops(s, 2), o) = Count(<< s[Len(s) - 1] >>, o) + Count(<< s[Len(s)] >>, o)
        <3>. DEFINE a == << s[Len(s) - 1] >>
                    b == << s[Len(s)] >>
        <3>. HIDE DEF a, b
        <3>1. Count(a \o b, o) = Count(a, o) + Count(b, o)
            BY <1>4, CountConcat DEF a, b
        <3>. QED  BY <1>3, <3>1 DEF a, b
    <2>3. Hits(s[Len(s) - 1], o) \in Nat /\ Hits(s[Len(s)], o) \in Nat
        BY DEF If, Hits
    <2>. QED  BY <1>5, <2>1, <2>2, <2>3, CountOne
<1>. QED  BY <1>1, <1>2, <1>6

LEMMA CountHead ==
    ASSUME NEW S, NEW s \in Seq(S), s # <<>>
    PROVE  /\ Head(s) \in S /\ Tail(s) \in Seq(S) /\ s = << Head(s) >> \o Tail(s)
           /\ \A o : Count(s, o) = Hits(Head(s), o) + Count(Tail(s), o)
<1>1. Head(s) \in S /\ Tail(s) \in Seq(S) /\ << Head(s) >> \in Seq(S)
    BY HeadTailProperties
<1>2. s = << Head(s) >> \o Tail(s)
    <2>1. Len(s) \in 1..Len(s) /\ 1 \in 1..Len(s) /\ Len(s) \in Nat
        OBVIOUS
    <2>2. SubSeq(s, 1, Len(s)) = << s[1] >> \o SubSeq(s, 1 + 1, Len(s))
        BY <2>1, SubSeqRecursiveFirst
    <2>3. SubSeq(s, 1, Len(s)) = s /\ Tail(s) = SubSeq(s, 2, Len(s)) /\ Head(s) = s[1]
        BY SubSeqFull, TailIsSubSeq
    <2>. QED  BY <2>2, <2>3
<1>. DEFINE a == << Head(s) >>
            b == Tail(s)
<1>3. ASSUME NEW o PROVE Count(s, o) = Hits(Head(s), o) + Count(Tail(s), o)
    <2>1. Count(a, o) = Hits(Head(s), o)
        BY CountOne
    <2>2. a \in Seq(S) /\ b \in Seq(S) /\ s = a \o b
        BY <1>1, <1>2
    <2>. HIDE DEF a, b
    <2>3. Count(a \o b, o) = Count(a, o) + Count(b, o)
        BY <2>2, CountConcat
    <2>. QED  BY <2>1, <2>2, <2>3 DEF b
<1>. QED  BY <1>1, <1>2, <1>3

LEMMA CountPut ==
    ASSUME NEW S, NEW s \in Seq(S), NEW t \in Seq(S), Len(t) = Len(s), NEW i \in 1..Len(s), NEW e,
           \A j \in 1..Len(s) : t[j] = IF j = i THEN e ELSE s[j], NEW o
    PROVE  Count(t, o) + Hits(s[i], o) = Count(s, o) + Hits(e, o)
<1>. DEFINE A == {j \in DOMAIN s : s[j] = o}
            B == {j \in DOMAIN t : t[j] = o}
<1>3. IsFiniteSet(A) /\ Cardinality(A) = Count(s, o) /\ IsFiniteSet(B) /\ Cardinality(B) = Count(t, o)
    <2>1. Cardinality(A) = Count(s, o) /\ Cardinality(B) = Count(t, o)
        BY DEF Count
    <2>2. \A q \in Seq(S) : IsFiniteSet({j \in DOMAIN q : q[j] = o})
        <3>. TAKE q \in Seq(S)
        <3>1. DOMAIN q = 1..Len(q) /\ Len(q) \in Nat
            OBVIOUS
        <3>2. {j \in DOMAIN q : q[j] = o} \in SUBSET (1..Len(q))
            BY <3>1
        <3>3. IsFiniteSet(1..Len(q))
            BY <3>1, FS_Interval
        <3>. QED  BY ONLY <3>2, <3>3, FS_Subset
    <2>3. IsFiniteSet(A) /\ IsFiniteSet(B)
        BY <2>2, Zenon
    <2>. QED  BY <2>1, <2>3
<1>4. DOMAIN s = 1..Len(s) /\ DOMAIN t = 1..Len(s)
    OBVIOUS
<1>5. A \ {i} = B \ {i} /\ (i \in A <=> s[i] = o) /\ (i \in B <=> e = o)
    BY <1>4
<1>. HIDE DEF A, B
<1>6. /\ Cardinality(A) = Cardinality(A \ {i}) + If(i \in A) /\ Cardinality(A \ {i}) \in Nat
      /\ Cardinality(B) = Cardinality(B \ {i}) + If(i \in B)
    BY <1>3, Without
<1>7. If(i \in A) = Hits(s[i], o) /\ If(i \in B) = Hits(e, o) /\ Hits(s[i], o) \in Nat /\ Hits(e, o) \in Nat
    BY <1>5 DEF If, Hits
<1>8. PICK n \in Nat : n = Cardinality(A \ {i})
    BY <1>6
<1>9. PICK x \in Nat, y \in Nat : x = Hits(s[i], o) /\ y = Hits(e, o)
    BY <1>7
<1>10. Count(s, o) = n + x /\ Count(t, o) = n + y
    BY <1>3, <1>5, <1>6, <1>7, <1>8, <1>9
<1>11. n + y + x = n + x + y
    OBVIOUS
<1>. QED  BY <1>9, <1>10, <1>11

LEMMA CountDown ==
    ASSUME NEW S, NEW s \in Seq(S)
    PROVE  /\ Down(s) \in Seq(S) /\ \A o : Count(Down(s), o) = Count(s, o)
<1>1. PICK l \in Nat : l = Len(s)
    OBVIOUS
<1>2. \A i \in 1..l : l - i + 1 \in 1..l /\ l - (l - i + 1) + 1 = i
    OBVIOUS
<1>3. PICK t : t = Down(s)
    OBVIOUS
<1>4. t \in [1..l -> S] /\ \A i \in 1..l : t[i] = s[l - i + 1]
    BY <1>1, <1>2, <1>3 DEF Down
<1>5. t \in Seq(S) /\ Len(t) = l
    BY <1>4
<1>6. ASSUME NEW o PROVE Count(t, o) = Count(s, o)
    <2>. DEFINE A == {j \in DOMAIN s : s[j] = o}
                B == {j \in DOMAIN t : t[j] = o}
                f == [j \in A |-> l - j + 1]
    <2>1. IsFiniteSet(A) /\ Cardinality(A) = Count(s, o) /\ Cardinality(B) = Count(t, o)
        BY CountFacts DEF Count
    <2>2. DOMAIN s = 1..l /\ DOMAIN t = 1..l
        BY <1>1, <1>5
    <2>3. \A j \in A : j \in 1..l /\ l - j + 1 \in B
        <3>1. \A j \in A : j \in 1..l /\ s[j] = o
            BY <2>2
        <3>2. \A j \in 1..l : t[l - j + 1] = s[j]
            BY <1>2, <1>4
        <3>. QED  BY <1>2, <2>2, <3>1, <3>2
    <2>4. \A j \in B : l - j + 1 \in A /\ l - (l - j + 1) + 1 = j
        BY <1>2, <1>4, <2>2
    <2>5. f \in [A -> B] /\ \A j \in A : f[j] = l - j + 1
        BY <2>3
    <2>6. \A j, k \in A : f[j] = f[k] => j = k
        <3>1. \A j, k \in 1..l : l - j + 1 = l - k + 1 => j = k
            OBVIOUS
        <3>. QED  BY <2>3, <2>5, <3>1
    <2>7. \A k \in B : \E j \in A : f[j] = k
        BY <2>4, <2>5
    <2>. HIDE DEF A, B, f
    <2>. QED  BY <2>1, <2>5, <2>6, <2>7, SameSize
<1>. QED  BY <1>3, <1>5, <1>6

-----------------------------------------------------------------------------
(* What tasks owe.                                                          *)

LEMMA TaskTypes ==
    /\ \A r \in Ref : Unref(r) \in Task /\ Owes(Unref(r)) = r /\ Unref(r).do = "unref"
    /\ \A o \in Obj : Release(o) \in Task /\ Owes(Release(o)) = None /\ Release(o).do = "free"
    /\ \A p \in Place, r \in Ref : /\ Write(p, r) \in Task /\ Owes(Write(p, r)) = r
                                   /\ Write(p, r).do = "write" /\ Write(p, r).place = p
    /\ \A t \in Task : /\ Owes(t) \in Ref \union {None}
                       /\ t.do \in {"unref", "free", "write"}
                       /\ t.do = "unref" => t.ref \in Ref /\ Owes(t) = t.ref /\ t = Unref(t.ref)
                       /\ t.do = "free" => t.ref \in Obj /\ Owes(t) = None /\ t = Release(t.ref)
                       /\ t.do = "write" => t.ref \in Ref /\ t.place \in Place /\ Owes(t) = t.ref
BY DEF Unref, Release, Write, Task, Owes, Ref

LEMMA OwedType ==
    ASSUME NEW d \in Seq(Task)
    PROVE  /\ Owed(d) \in Seq(Ref \union {None}) /\ Len(Owed(d)) = Len(d)
           /\ \A i \in 1..Len(d) : Owed(d)[i] = Owes(d[i])
           /\ \A o : Due(d, o) \in Nat
<1>1. PICK n \in Nat : n = Len(d)
    OBVIOUS
<1>2. \A i \in 1..n : Owes(d[i]) \in Ref \union {None}
    BY <1>1, TaskTypes
<1>3. PICK q : q = Owed(d)
    OBVIOUS
<1>4. q \in [1..n -> Ref \union {None}] /\ \A i \in 1..n : q[i] = Owes(d[i])
    BY <1>1, <1>2, <1>3 DEF Owed
<1>5. q \in Seq(Ref \union {None}) /\ Len(q) = n
    BY <1>4
<1>. QED  BY <1>1, <1>3, <1>4, <1>5, CountFacts DEF Due

LEMMA OwedConcat ==
    ASSUME NEW d \in Seq(Task), NEW e \in Seq(Task)
    PROVE  d \o e \in Seq(Task) /\ \A o : Due(d \o e, o) = Due(d, o) + Due(e, o)
<1>1. PICK m \in Nat, n \in Nat : m = Len(d) /\ n = Len(e)
    OBVIOUS
<1>2. PICK a, b, c : a = Owed(d) /\ b = Owed(e) /\ c = Owed(d \o e)
    OBVIOUS
<1>3. /\ d \o e \in Seq(Task) /\ Len(d \o e) = m + n
      /\ \A i \in 1..(m + n) : (d \o e)[i] = IF i <= m THEN d[i] ELSE e[i - m]
    BY <1>1, ConcatProperties
<1>4. /\ a \in Seq(Ref \union {None}) /\ Len(a) = m /\ \A i \in 1..m : a[i] = Owes(d[i])
      /\ b \in Seq(Ref \union {None}) /\ Len(b) = n /\ \A i \in 1..n : b[i] = Owes(e[i])
      /\ c \in Seq(Ref \union {None}) /\ Len(c) = m + n /\ \A i \in 1..(m + n) : c[i] = Owes((d \o e)[i])
    BY <1>1, <1>2, <1>3, OwedType
<1>5. /\ a \o b \in Seq(Ref \union {None}) /\ Len(a \o b) = m + n
      /\ \A i \in 1..(m + n) : (a \o b)[i] = IF i <= m THEN a[i] ELSE b[i - m]
    BY <1>4, ConcatProperties
<1>6. ASSUME NEW i \in 1..(m + n) PROVE c[i] = (a \o b)[i]
    <2>1. CASE i <= m
        <3>1. i \in 1..m
            BY <2>1
        <3>. QED  BY <1>3, <1>4, <1>5, <2>1, <3>1
    <2>2. CASE ~ (i <= m)
        <3>1. i - m \in 1..n
            BY <2>2
        <3>2. (a \o b)[i] = b[i - m] /\ (d \o e)[i] = e[i - m]
            BY <1>3, <1>5, <2>2
        <3>3. b[i - m] = Owes(e[i - m]) /\ c[i] = Owes((d \o e)[i])
            BY <1>4, <3>1
        <3>. QED  BY <3>2, <3>3
    <2>. QED  BY <2>1, <2>2
<1>7. c = a \o b
    BY <1>4, <1>5, <1>6, SeqEqual
<1>8. \A o : Count(a \o b, o) = Count(a, o) + Count(b, o)
    BY <1>4, CountConcat
<1>. QED  BY <1>2, <1>3, <1>7, <1>8 DEF Due

LEMMA OwedOne ==
    ASSUME NEW t \in Task
    PROVE  << t >> \in Seq(Task) /\ \A o : Due(<< t >>, o) = Hits(Owes(t), o)
<1>1. PICK q : q = Owed(<< t >>)
    OBVIOUS
<1>2. q \in Seq(Ref \union {None}) /\ Len(q) = 1 /\ q[1] = Owes(t)
    <2>1. PICK d : d = << t >>
        OBVIOUS
    <2>2. d \in Seq(Task) /\ Len(d) = 1 /\ d[1] = t /\ 1 \in 1..1
        BY <2>1
    <2>3. q = Owed(d)
        BY <1>1, <2>1
    <2>. QED  BY <2>2, <2>3, OwedType
<1>3. q = << Owes(t) >>
    BY <1>2
<1>. QED  BY <1>1, <1>3, CountOne DEF Due

LEMMA OwedUnrefs ==
    ASSUME NEW rs \in Seq(Ref)
    PROVE  /\ Unrefs(rs) \in Seq(Task) /\ Len(Unrefs(rs)) = Len(rs)
           /\ \A i \in 1..Len(rs) : Unrefs(rs)[i] = Unref(rs[i])
           /\ \A o : Due(Unrefs(rs), o) = Count(rs, o)
<1>1. PICK n \in Nat : n = Len(rs)
    OBVIOUS
<1>2. PICK u : u = Unrefs(rs)
    OBVIOUS
<1>3. u \in [1..n -> Task] /\ \A i \in 1..n : u[i] = Unref(rs[i])
    BY <1>1, <1>2, TaskTypes DEF Unrefs
<1>4. u \in Seq(Task) /\ Len(u) = n
    BY <1>3
<1>5. PICK q : q = Owed(u)
    OBVIOUS
<1>6. q \in Seq(Ref \union {None}) /\ Len(q) = n /\ \A i \in 1..n : q[i] = Owes(u[i])
    BY <1>4, <1>5, OwedType
<1>7. \A i \in 1..n : q[i] = rs[i]
    BY <1>1, <1>3, <1>6, TaskTypes
<1>8. q = rs
    <2>1. rs \in Seq(Ref \union {None})
        OBVIOUS
    <2>. QED  BY <1>1, <1>6, <1>7, <2>1, SeqEqual
<1>. QED  BY <1>1, <1>2, <1>3, <1>4, <1>5, <1>8 DEF Due

LEMMA OwedEmpty == \A o : Due(<<>>, o) = 0
<1>1. <<>> \in Seq(Task) /\ Len(<<>>) = 0
    OBVIOUS
<1>2. Owed(<<>>) \in Seq(Ref \union {None}) /\ Len(Owed(<<>>)) = 0
    BY <1>1, OwedType
<1>3. Owed(<<>>) = <<>>
    BY <1>2
<1>. QED  BY <1>3, CountEmpty DEF Due

-----------------------------------------------------------------------------
(* References in containers, when one cell changes.                         *)

InCell(h, c, o) == IF c \in AliveIn(h) THEN Count(h[c].items, o) ELSE 0
SlotsOf(h, M, o) == {ci \in Slots(h, M) : h[ci[1]].items[ci[2]] = o}
Elsewhere(h, M, c, o) == {ci \in SlotsOf(h, M, o) : ci[1] # c}

SameItems(h1, h2, S) ==
    \A x \in S : /\ x \in AliveIn(h1) <=> x \in AliveIn(h2)
                 /\ x \in AliveIn(h1) => h1[x].items = h2[x].items

LEMMA CellFacts ==
    ASSUME NEW M \in Nat, NEW h, Fits(h, M), NEW x \in Obj, h[x] # Free
    PROVE  /\ h[x] \in Cell /\ h[x].items \in Seq(Ref) /\ Len(h[x].items) \in 0..M
           /\ DOMAIN h[x].items = 1..Len(h[x].items) /\ h[x].nrefs \in Nat
<1>1. h[x] \in Cell /\ Len(h[x].items) <= M
    BY DEF Fits
<1>2. h[x].items \in Seq(Ref) /\ h[x].nrefs \in Nat
    BY <1>1 DEF Cell
<1>. QED  BY <1>1, <1>2

LEMMA SlotsFinite ==
    ASSUME NEW M \in Nat, NEW h, NEW o
    PROVE  IsFiniteSet(SlotsOf(h, M, o)) /\ InItems(h, M, o) = Cardinality(SlotsOf(h, M, o))
           /\ InItems(h, M, o) \in Nat
<1>1. IsFiniteSet(Obj) /\ IsFiniteSet(1..M)
    BY HeapAssumption, FS_Interval
<1>2. IsFiniteSet(Obj \X (1..M))
    BY <1>1, FS_Product
<1>3. SlotsOf(h, M, o) \in SUBSET (Obj \X (1..M))
    BY DEF SlotsOf, Slots, AliveIn
<1>4. IsFiniteSet(SlotsOf(h, M, o))
    BY <1>2, <1>3, FS_Subset
<1>5. InItems(h, M, o) = Cardinality(SlotsOf(h, M, o))
    BY DEF InItems, SlotsOf
<1>. QED  BY <1>4, <1>5, FS_CardinalityType

LEMMA ItemsSplit ==
    ASSUME NEW M \in Nat, NEW h, Fits(h, M), NEW c \in Obj, NEW o
    PROVE  /\ IsFiniteSet(Elsewhere(h, M, c, o)) /\ Cardinality(Elsewhere(h, M, c, o)) \in Nat
           /\ InCell(h, c, o) \in Nat
           /\ InItems(h, M, o) = Cardinality(Elsewhere(h, M, c, o)) + InCell(h, c, o)
<1>. DEFINE A == SlotsOf(h, M, o)
            B == Elsewhere(h, M, c, o)
            D == {ci \in A : ci[1] = c}
<1>1. IsFiniteSet(A) /\ Cardinality(A) = InItems(h, M, o)
    BY SlotsFinite
<1>2. B \in SUBSET A /\ D \in SUBSET A /\ A = B \union D /\ B \intersect D = {}
    BY DEF Elsewhere
<1>3. IsFiniteSet(B) /\ IsFiniteSet(D)
    <2>. HIDE DEF A, B, D
    <2>. QED  BY <1>1, <1>2, FS_Subset
<1>4. Cardinality(A) = Cardinality(B) + Cardinality(D) - Cardinality({})
    <2>. HIDE DEF A, B, D
    <2>. QED  BY <1>2, <1>3, FS_Union
<1>5. Cardinality(B) \in Nat /\ Cardinality(D) \in Nat /\ Cardinality({}) = 0
    BY <1>3, FS_CardinalityType, FS_EmptySet
<1>6. Cardinality(D) = InCell(h, c, o)
    <2>1. CASE c \notin AliveIn(h)
        <3>1. D = {}
            BY <2>1 DEF SlotsOf, Slots
        <3>. QED  BY <2>1, <3>1, <1>5 DEF InCell
    <2>2. CASE c \in AliveIn(h)
        <3>. DEFINE I == {i \in DOMAIN h[c].items : h[c].items[i] = o}
                    f == [i \in I |-> <<c, i>>]
        <3>1. h[c].items \in Seq(Ref) /\ DOMAIN h[c].items \subseteq 1..M
            <4>1. h[c] # Free
                BY <2>2 DEF AliveIn
            <4>2. h[c].items \in Seq(Ref) /\ Len(h[c].items) \in 0..M /\ DOMAIN h[c].items = 1..Len(h[c].items)
                BY <4>1, CellFacts
            <4>3. PICK l \in 0..M : l = Len(h[c].items)
                BY <4>2
            <4>4. 1..l \subseteq 1..M
                OBVIOUS
            <4>. QED  BY <4>2, <4>3, <4>4
        <3>2. IsFiniteSet(I) /\ Cardinality(I) = InCell(h, c, o)
            <4>1. IsFiniteSet(I)
                BY <3>1, CountFacts
            <4>. QED  BY <2>2, <4>1 DEF InCell, Count
        <3>3. \A i \in I : <<c, i>> \in D
            BY <2>2, <3>1 DEF SlotsOf, Slots
        <3>4. f \in [I -> D] /\ \A i \in I : f[i] = <<c, i>>
            BY <3>3
        <3>5. \A i, j \in I : f[i] = f[j] => i = j
            BY <3>4
        <3>6. \A d \in D : \E i \in I : f[i] = d
            <4>1. \A d \in D : d[2] \in I /\ d = <<c, d[2]>>
                BY DEF SlotsOf, Slots
            <4>. QED  BY <3>4, <4>1
        <3>. HIDE DEF I, D, f
        <3>. QED  BY <3>2, <3>4, <3>5, <3>6, SameSize
    <2>. QED  BY <2>1, <2>2
<1>. HIDE DEF A, B, D
<1>7. InItems(h, M, o) = Cardinality(B) + InCell(h, c, o)
    BY <1>1, <1>4, <1>5, <1>6
<1>. QED  BY <1>3, <1>5, <1>6, <1>7 DEF B

LEMMA ItemsAt ==
    ASSUME NEW M \in Nat, NEW h1, Fits(h1, M), NEW h2, Fits(h2, M), NEW c \in Obj,
           SameItems(h1, h2, Obj \ {c})
    PROVE  \A o : /\ InItems(h2, M, o) + InCell(h1, c, o) = InItems(h1, M, o) + InCell(h2, c, o)
                  /\ InItems(h1, M, o) \in Nat /\ InItems(h2, M, o) \in Nat
                  /\ InCell(h1, c, o) \in Nat /\ InCell(h2, c, o) \in Nat
                  /\ InCell(h1, c, o) <= InItems(h1, M, o)
<1>. SUFFICES ASSUME NEW o
     PROVE  /\ InItems(h2, M, o) + InCell(h1, c, o) = InItems(h1, M, o) + InCell(h2, c, o)
            /\ InItems(h1, M, o) \in Nat /\ InItems(h2, M, o) \in Nat
            /\ InCell(h1, c, o) \in Nat /\ InCell(h2, c, o) \in Nat
            /\ InCell(h1, c, o) <= InItems(h1, M, o)
    OBVIOUS
<1>1. Elsewhere(h2, M, c, o) = Elsewhere(h1, M, c, o)
    BY DEF Elsewhere, SlotsOf, Slots, SameItems, AliveIn
<1>2. PICK n \in Nat : n = Cardinality(Elsewhere(h1, M, c, o))
    BY ItemsSplit
<1>3. PICK x \in Nat, y \in Nat : x = InCell(h1, c, o) /\ y = InCell(h2, c, o)
    BY ItemsSplit
<1>4. InItems(h1, M, o) = n + x
    BY <1>2, <1>3, ItemsSplit
<1>5. InItems(h2, M, o) = n + y
    BY <1>1, <1>2, <1>3, ItemsSplit
<1>. QED  BY <1>3, <1>4, <1>5

LEMMA ItemsSame ==
    ASSUME NEW M, NEW h1, NEW h2, SameItems(h1, h2, Obj)
    PROVE  \A o : InItems(h2, M, o) = InItems(h1, M, o)
<1>. SUFFICES ASSUME NEW o PROVE InItems(h2, M, o) = InItems(h1, M, o)
    OBVIOUS
<1>1. SlotsOf(h2, M, o) = SlotsOf(h1, M, o)
    BY DEF SlotsOf, Slots, SameItems, AliveIn
<1>. QED  BY <1>1 DEF InItems, SlotsOf

-----------------------------------------------------------------------------
(* References in globals, and those about to be overwritten.                *)

LEMMA GlobalsFinite ==
    ASSUME NEW gl, NEW o
    PROVE  /\ IsFiniteSet({g \in Global : gl[g] = o}) /\ InGlobals(gl, o) \in Nat
           /\ \A x \in Global : Hits(gl[x], o) \in Nat /\ Hits(gl[x], o) <= InGlobals(gl, o)
           /\ (\A x \in Global : gl[x] # o) => InGlobals(gl, o) = 0
<1>. DEFINE A == {g \in Global : gl[g] = o}
<1>1. IsFiniteSet(A)
    BY HeapAssumption, FS_Subset
<1>2. Cardinality(A) \in Nat /\ (Cardinality(A) = 0 <=> A = {})
    BY <1>1, FS_CardinalityType, FS_EmptySet
<1>3. \A x \in Global : gl[x] = o => A # {}
    OBVIOUS
<1>4. (\A x \in Global : gl[x] # o) => A = {}
    OBVIOUS
<1>5. Cardinality(A) = InGlobals(gl, o)
    BY DEF InGlobals
<1>. HIDE DEF A
<1>. QED  BY <1>1, <1>2, <1>3, <1>4, <1>5 DEF A, If, Hits

LEMMA GlobalHeld ==
    ASSUME NEW gl, NEW o, NEW x \in Global
    PROVE  Hits(gl[x], o) <= InGlobals(gl, o)
<1>. DEFINE A == {g \in Global : gl[g] = o}
<1>1. IsFiniteSet(A)
    BY GlobalsFinite
<1>2. Cardinality(A) \in Nat /\ (Cardinality(A) = 0 <=> A = {})
    BY <1>1, FS_CardinalityType, FS_EmptySet
<1>3. gl[x] = o => A # {}
    OBVIOUS
<1>4. Cardinality(A) = InGlobals(gl, o)
    BY DEF InGlobals
<1>. HIDE DEF A
<1>. QED  BY <1>2, <1>3, <1>4 DEF Hits

(* One global is given another value.                                       *)
SetAt(gl, gm, x, r) == gm[x] = r /\ \A y \in Global : y # x => gm[y] = gl[y]

LEMMA GlobalAt ==
    ASSUME NEW gl, NEW gm, NEW x \in Global, NEW r, SetAt(gl, gm, x, r), NEW o
    PROVE  InGlobals(gm, o) + Hits(gl[x], o) = InGlobals(gl, o) + Hits(r, o)
<1>2. gm[x] = r /\ \A y \in Global : y # x => gm[y] = gl[y]
    BY DEF SetAt
<1>. DEFINE A == {g \in Global : gl[g] = o}
            B == {g \in Global : gm[g] = o}
<1>3. IsFiniteSet(A) /\ IsFiniteSet(B)
    BY GlobalsFinite
<1>4. Cardinality(A) = InGlobals(gl, o) /\ Cardinality(B) = InGlobals(gm, o)
    BY DEF InGlobals
<1>5. A \ {x} = B \ {x} /\ (x \in A <=> gl[x] = o) /\ (x \in B <=> r = o)
    BY <1>2
<1>. HIDE DEF A, B
<1>6. /\ Cardinality(A) = Cardinality(A \ {x}) + If(x \in A) /\ Cardinality(A \ {x}) \in Nat
      /\ Cardinality(B) = Cardinality(B \ {x}) + If(x \in B)
    BY <1>3, Without
<1>7. PICK n \in Nat : n = Cardinality(A \ {x})
    BY <1>6
<1>8. PICK a \in Nat, b \in Nat : a = Hits(gl[x], o) /\ b = Hits(r, o)
    BY DEF If, Hits
<1>9. If(x \in A) = a /\ If(x \in B) = b
    BY <1>5, <1>8 DEF If, Hits
<1>10. InGlobals(gl, o) = n + a /\ InGlobals(gm, o) = n + b
    BY <1>4, <1>5, <1>6, <1>7, <1>9
<1>11. n + b + a = n + a + b
    OBVIOUS
<1>. QED  BY <1>8, <1>10, <1>11

LEMMA LostNone ==
    ASSUME NEW h, NEW gl, NEW d, \A i \in 1..Len(d) : d[i].do # "write"
    PROVE  \A o : Lost(h, gl, d, o) = 0
<1>. SUFFICES ASSUME NEW o PROVE Lost(h, gl, d, o) = 0
    OBVIOUS
<1>1. {p \in Places(d) : At(h, gl, p) = o} = {}
    BY DEF Places
<1>. QED  BY <1>1, FS_EmptySet DEF Lost

OnlyWrite(d, i) == d[i].do = "write" /\ \A j \in 1..Len(d) : d[j].do = "write" => j = i

LEMMA LostOne ==
    ASSUME NEW h, NEW gl, NEW d, NEW i \in 1..Len(d), OnlyWrite(d, i)
    PROVE  \A o : Lost(h, gl, d, o) = Hits(At(h, gl, d[i].place), o)
<1>1. PICK p : p = d[i].place
    OBVIOUS
<1>. SUFFICES ASSUME NEW o PROVE Lost(h, gl, d, o) = Hits(At(h, gl, p), o)
    BY <1>1
<1>2. Places(d) = {p}
    BY <1>1 DEF Places, OnlyWrite
<1>3. Cardinality({p}) = 1 /\ Cardinality({}) = 0
    BY FS_Singleton, FS_EmptySet
<1>4. CASE At(h, gl, p) = o
    <2>1. {q \in Places(d) : At(h, gl, q) = o} = {p}
        BY <1>2, <1>4
    <2>. QED  BY <1>3, <1>4, <2>1 DEF Lost, If, Hits
<1>5. CASE At(h, gl, p) # o
    <2>1. {q \in Places(d) : At(h, gl, q) = o} = {}
        BY <1>2, <1>5
    <2>. QED  BY <1>3, <1>5, <2>1 DEF Lost, If, Hits
<1>. QED  BY <1>4, <1>5

-----------------------------------------------------------------------------
(* The lists of tasks that instructions leave.                              *)

LEMMA UnrefsAre ==
    /\ Unrefs(<<>>) = <<>>
    /\ \A a : Unrefs(<< a >>) = << Unref(a) >>
    /\ \A a, b : Unrefs(<< a, b >>) = << Unref(a), Unref(b) >>
<1>1. Unrefs(<<>>) = <<>>
    BY DEF Unrefs
<1>2. ASSUME NEW a PROVE Unrefs(<< a >>) = << Unref(a) >>
    <2>1. PICK t : t = Unref(a)
        OBVIOUS
    <2>2. [i \in 1..1 |-> Unref(<< a >>[i])] = << t >>
        BY <2>1
    <2>. QED  BY <2>1, <2>2 DEF Unrefs
<1>3. ASSUME NEW a, NEW b PROVE Unrefs(<< a, b >>) = << Unref(a), Unref(b) >>
    <2>1. PICK t, u : t = Unref(a) /\ u = Unref(b)
        OBVIOUS
    <2>2. [i \in 1..2 |-> Unref(<< a, b >>[i])] = << t, u >>
        BY <2>1
    <2>. QED  BY <2>1, <2>2 DEF Unrefs
<1>. QED  BY <1>1, <1>2, <1>3

LEMMA CountTwo ==
    ASSUME NEW a \in Ref, NEW b \in Ref
    PROVE  /\ << a >> \in Seq(Ref) /\ << a, b >> \in Seq(Ref) /\ <<>> \in Seq(Ref)
           /\ \A o : Count(<< a, b >>, o) = Hits(a, o) + Hits(b, o)
<1>1. << a >> \in Seq(Ref) /\ << b >> \in Seq(Ref) /\ << a >> \o << b >> = << a, b >>
    <2>1. << a >> \in Seq(Ref) /\ << b >> \in Seq(Ref)
        OBVIOUS
    <2>2. << a >> \o << b >> = << a, b >>
        <3>1. Len(<< a >>) = 1 /\ << a >>[1] = a /\ Len(<< b >>) = 1 /\ << b >>[1] = b
            OBVIOUS
        <3>2. PICK u, v, w : u = << a >> /\ v = << b >> /\ w = << a, b >>
            OBVIOUS
        <3>3. u \in Seq(Ref) /\ v \in Seq(Ref) /\ Len(u) = 1 /\ Len(v) = 1 /\ u[1] = a /\ v[1] = b
            BY <2>1, <3>1, <3>2
        <3>4. w \in Seq(Ref) /\ Len(w) = 2 /\ w[1] = a /\ w[2] = b
            BY <3>2
        <3>5. u \o v \in Seq(Ref) /\ Len(u \o v) = 2 /\ (u \o v)[1] = a /\ (u \o v)[2] = b
            <4>1. /\ u \o v \in Seq(Ref) /\ Len(u \o v) = 1 + 1
                  /\ \A i \in 1..(1 + 1) : (u \o v)[i] = IF i <= 1 THEN u[i] ELSE v[i - 1]
                BY <3>3, ConcatProperties
            <4>. QED  BY <3>3, <4>1
        <3>6. \A i \in 1..2 : (u \o v)[i] = w[i]
            BY <3>4, <3>5
        <3>7. u \o v = w
            BY <3>4, <3>5, <3>6, SeqEqual
        <3>. QED  BY <3>2, <3>7
    <2>. QED  BY <2>1, <2>2
<1>2. ASSUME NEW o PROVE Count(<< a, b >>, o) = Hits(a, o) + Hits(b, o)
    <2>. DEFINE u == << a >>
                v == << b >>
    <2>1. Count(u, o) = Hits(a, o) /\ Count(v, o) = Hits(b, o)
        BY CountOne
    <2>2. u \in Seq(Ref) /\ v \in Seq(Ref)
        BY <1>1
    <2>5. u \o v = << a, b >>
        BY <1>1
    <2>. HIDE DEF u, v
    <2>3. Count(u \o v, o) = Count(u, o) + Count(v, o)
        BY <2>2, CountConcat
    <2>4. Count(<< a, b >>, o) = Count(u, o) + Count(v, o)
        BY <2>3, <2>5, Zenon
    <2>. QED  BY <2>1, <2>4, Zenon
<1>. QED  BY <1>1, <1>2

LEMMA PlainTasks ==
    ASSUME NEW rs \in Seq(Ref), NEW h, NEW gl
    PROVE  /\ Unrefs(rs) \in Seq(Task) /\ Tasks(h, Unrefs(rs))
           /\ \A o : Due(Unrefs(rs), o) = Count(rs, o) /\ Lost(h, gl, Unrefs(rs), o) = 0
<1>1. /\ Unrefs(rs) \in Seq(Task) /\ Len(Unrefs(rs)) = Len(rs)
      /\ \A i \in 1..Len(rs) : Unrefs(rs)[i] = Unref(rs[i])
      /\ \A o : Due(Unrefs(rs), o) = Count(rs, o)
    BY OwedUnrefs
<1>2. \A i \in 1..Len(Unrefs(rs)) : Unrefs(rs)[i].do = "unref"
    <2>1. \A i \in 1..Len(rs) : Unref(rs[i]).do = "unref"
        BY DEF Unref
    <2>. QED  BY <1>1, <2>1
<1>3. \A i \in 1..Len(Unrefs(rs)) : Unrefs(rs)[i].do # "write" /\ Unrefs(rs)[i].do # "free"
    BY <1>2
<1>4. \A o : Lost(h, gl, Unrefs(rs), o) = 0
    BY <1>3, LostNone
<1>. QED  BY <1>1, <1>3, <1>4 DEF Tasks

Around(a, w, b) == (a \o << w >>) \o b
LaidOut(d, a, w, b, m, n) ==
    /\ d \in Seq(Task) /\ Len(d) = m + 1 + n
    /\ \A i \in 1..m : d[i] = a[i]
    /\ d[m + 1] = w
    /\ \A i \in 1..n : d[i + (m + 1)] = b[i]
    /\ \A o : Due(d, o) = Due(a, o) + Hits(Owes(w), o) + Due(b, o)

LEMMA AroundIs ==
    ASSUME NEW m \in Nat, NEW n \in Nat, NEW a \in Seq(Task), Len(a) = m,
           NEW b \in Seq(Task), Len(b) = n, NEW w \in Task
    PROVE  LaidOut(Around(a, w, b), a, w, b, m, n)
<1>1. PICK v : v = << w >>
    OBVIOUS
<1>2. v \in Seq(Task) /\ Len(v) = 1 /\ v[1] = w /\ \A o : Due(v, o) = Hits(Owes(w), o)
    BY <1>1, OwedOne
<1>3. PICK c : c = a \o v
    OBVIOUS
<1>4. PICK d : d = c \o b
    OBVIOUS
<1>5. d = Around(a, w, b)
    BY <1>1, <1>3, <1>4 DEF Around
<1>6. /\ c \in Seq(Task) /\ Len(c) = m + 1
      /\ \A i \in 1..(m + 1) : c[i] = IF i <= m THEN a[i] ELSE v[i - m]
    <2>1. /\ c \in Seq(Task) /\ Len(c) = Len(a) + Len(v)
          /\ \A i \in 1..(Len(a) + Len(v)) : c[i] = IF i <= Len(a) THEN a[i] ELSE v[i - Len(a)]
        BY <1>2, <1>3, ConcatProperties
    <2>. QED  BY <1>2, <2>1
<1>7. /\ d \in Seq(Task) /\ Len(d) = m + 1 + n
      /\ \A i \in 1..(m + 1 + n) : d[i] = IF i <= m + 1 THEN c[i] ELSE b[i - (m + 1)]
    <2>1. /\ d \in Seq(Task) /\ Len(d) = Len(c) + Len(b)
          /\ \A i \in 1..(Len(c) + Len(b)) : d[i] = IF i <= Len(c) THEN c[i] ELSE b[i - Len(c)]
        BY <1>4, <1>6, ConcatProperties
    <2>2. Len(c) = m + 1 /\ Len(b) = n
        BY <1>6
    <2>. QED  BY <2>1, <2>2
<1>8. ASSUME NEW i \in 1..m PROVE d[i] = a[i]
    <2>1. i \in 1..(m + 1 + n) /\ i <= m + 1 /\ i \in 1..(m + 1) /\ i <= m
        OBVIOUS
    <2>. QED  BY <1>6, <1>7, <2>1
<1>9. d[m + 1] = w
    <2>1. m + 1 \in 1..(m + 1) /\ m + 1 \in 1..(m + 1 + n) /\ m + 1 <= m + 1 /\ ~ (m + 1 <= m) /\ m + 1 - m = 1
        OBVIOUS
    <2>2. d[m + 1] = c[m + 1]
        BY <1>7, <2>1
    <2>3. c[m + 1] = v[1]
        BY <1>6, <2>1
    <2>. QED  BY <1>2, <2>2, <2>3
<1>10. ASSUME NEW i \in 1..n PROVE d[i + (m + 1)] = b[i]
    <2>1. i + (m + 1) \in 1..(m + 1 + n) /\ ~ (i + (m + 1) <= m + 1) /\ i + (m + 1) - (m + 1) = i
        OBVIOUS
    <2>. QED  BY <1>7, <2>1
<1>11. ASSUME NEW o PROVE Due(d, o) = Due(a, o) + Hits(Owes(w), o) + Due(b, o)
    <2>1. Due(c, o) = Due(a, o) + Due(v, o)
        BY <1>2, <1>3, OwedConcat
    <2>2. Due(d, o) = Due(c, o) + Due(b, o)
        BY <1>4, <1>6, OwedConcat
    <2>. QED  BY <1>2, <2>1, <2>2
<1>12. LaidOut(d, a, w, b, m, n)
    BY <1>7, <1>8, <1>9, <1>10, <1>11 DEF LaidOut
<1>. QED  BY <1>5, <1>12

Within(h, p, bs) ==
    p.in # None => /\ p.in \in AliveIn(h) /\ p.at \in 1..Len(h[p.in].items)
                   /\ \E j \in 1..Len(bs) : bs[j] = p.in

LEMMA WriteTasks ==
    ASSUME NEW ra \in Seq(Ref), NEW rb \in Seq(Ref), NEW p \in Place, NEW v \in Ref, NEW h, NEW gl,
           NEW d, d = Around(Unrefs(ra), Write(p, v), Unrefs(rb)), Within(h, p, rb)
    PROVE  /\ d \in Seq(Task) /\ Tasks(h, d)
           /\ \A o : Due(d, o) = Count(ra, o) + Hits(v, o) + Count(rb, o)
           /\ \A o : Lost(h, gl, d, o) = Hits(At(h, gl, p), o)
<1>1. PICK m \in Nat, n \in Nat : m = Len(ra) /\ n = Len(rb)
    OBVIOUS
<1>2. PICK ta, tb, w : ta = Unrefs(ra) /\ tb = Unrefs(rb) /\ w = Write(p, v)
    OBVIOUS
<1>3. /\ ta \in Seq(Task) /\ Len(ta) = m /\ \A i \in 1..m : ta[i] = Unref(ra[i])
      /\ tb \in Seq(Task) /\ Len(tb) = n /\ \A i \in 1..n : tb[i] = Unref(rb[i])
      /\ \A o : Due(ta, o) = Count(ra, o) /\ Due(tb, o) = Count(rb, o)
    BY <1>1, <1>2, OwedUnrefs
<1>4. w \in Task /\ Owes(w) = v /\ w.do = "write" /\ w.place = p
    BY <1>2, TaskTypes
<1>5. d = Around(ta, w, tb)
    BY <1>2
<1>6. /\ d \in Seq(Task) /\ Len(d) = m + 1 + n
      /\ \A i \in 1..m : d[i] = Unref(ra[i])
      /\ d[m + 1] = w
      /\ \A i \in 1..n : d[i + (m + 1)] = Unref(rb[i])
      /\ \A o : Due(d, o) = Count(ra, o) + Hits(v, o) + Count(rb, o)
    <2>1. /\ d \in Seq(Task) /\ Len(d) = m + 1 + n
          /\ \A i \in 1..m : d[i] = ta[i]
          /\ d[m + 1] = w
          /\ \A i \in 1..n : d[i + (m + 1)] = tb[i]
          /\ \A o : Due(d, o) = Due(ta, o) + Hits(Owes(w), o) + Due(tb, o)
        <3>1. ta \in Seq(Task) /\ Len(ta) = m /\ tb \in Seq(Task) /\ Len(tb) = n /\ w \in Task
            BY <1>3, <1>4
        <3>2. LaidOut(Around(ta, w, tb), ta, w, tb, m, n)
            BY <3>1, AroundIs
        <3>3. LaidOut(d, ta, w, tb, m, n)
            BY <1>5, <3>2, Zenon
        <3>. QED  BY <3>3 DEF LaidOut
    <2>2. \A o : Due(d, o) = Count(ra, o) + Hits(v, o) + Count(rb, o)
        BY <1>3, <1>4, <2>1
    <2>. QED  BY <1>3, <2>1, <2>2
<1>7. \A i \in 1..Len(d) : i # m + 1 => d[i].do = "unref"
    <2>. SUFFICES ASSUME NEW i \in 1..(m + 1 + n), i # m + 1 PROVE d[i].do = "unref"
        BY <1>6
    <2>1. i \in 1..m \/ (i - (m + 1) \in 1..n /\ i - (m + 1) + (m + 1) = i)
        OBVIOUS
    <2>2. CASE i \in 1..m
        <3>1. d[i] = Unref(ra[i])
            BY <1>6, <2>2
        <3>. QED  BY <3>1 DEF Unref
    <2>3. CASE i - (m + 1) \in 1..n /\ i - (m + 1) + (m + 1) = i
        <3>1. d[i] = Unref(rb[i - (m + 1)])
            BY <1>6, <2>3
        <3>. QED  BY <3>1 DEF Unref
    <2>. QED  BY <2>1, <2>2, <2>3
<1>8. m + 1 \in 1..Len(d) /\ d[m + 1].do = "write" /\ d[m + 1].place = p
    <2>1. m + 1 \in 1..(m + 1 + n)
        OBVIOUS
    <2>. QED  BY <1>4, <1>6, <2>1
<1>9. OnlyWrite(d, m + 1)
    BY <1>7, <1>8 DEF OnlyWrite
<1>10. \A o : Lost(h, gl, d, o) = Hits(At(h, gl, p), o)
    <2>1. \A o : Lost(h, gl, d, o) = Hits(At(h, gl, d[m + 1].place), o)
        BY <1>8, <1>9, LostOne
    <2>. QED  BY <1>8, <2>1
<1>11. WriteSound(h, d, m + 1)
    <2>. SUFFICES ASSUME p.in # None
         PROVE  /\ p.in \in AliveIn(h) /\ p.at \in 1..Len(h[p.in].items)
                /\ \E j \in (m + 1 + 1)..Len(d) : d[j] = Unref(p.in)
        BY <1>8 DEF WriteSound
    <2>1. PICK j \in 1..n : rb[j] = p.in
        BY <1>1 DEF Within
    <2>2. j + (m + 1) \in (m + 1 + 1)..(m + 1 + n)
        OBVIOUS
    <2>3. d[j + (m + 1)] = Unref(p.in) /\ j + (m + 1) \in (m + 1 + 1)..Len(d)
        BY <1>6, <2>1, <2>2
    <2>. QED  BY <2>3 DEF Within
<1>12. \A i \in 1..Len(d) : /\ d[i].do # "free"
                            /\ d[i].do = "write" => i = m + 1
    BY <1>7, <1>8
<1>. QED  BY <1>6, <1>9, <1>10, <1>11, <1>12 DEF Tasks, OnlyWrite

-----------------------------------------------------------------------------
(* Changes of the heap: a count, a new cell, the items of a container.      *)

(* The same objects are alive, with the same items, links and so on.        *)
SameShape(c1, c2) ==
    /\ c1.kind = c2.kind /\ c1.items = c2.items /\ c1.wref_first = c2.wref_first
    /\ c1.target = c2.target /\ c1.next = c2.next /\ c1.prev = c2.prev
SameLinks(c1, c2) ==
    /\ c1.kind = c2.kind /\ c1.wref_first = c2.wref_first
    /\ c1.target = c2.target /\ c1.next = c2.next /\ c1.prev = c2.prev
Alike(h1, h2) ==
    AliveIn(h2) = AliveIn(h1) /\ \A x \in AliveIn(h1) : SameShape(h1[x], h2[x])

LEMMA LinkedSame ==
    ASSUME NEW h1, NEW h2, AliveIn(h2) = AliveIn(h1),
           \A x \in AliveIn(h1) : SameLinks(h1[x], h2[x]), WellLinked(h1)
    PROVE  WellLinked(h2)
<1>1. PICK K \in Nat : \E rk \in [Obj -> 0..K] : Linked(h1, rk)
    BY DEF WellLinked
<1>2. PICK rk \in [Obj -> 0..K] : Linked(h1, rk)
    BY <1>1
<1>3. WrefsIn(h2) = WrefsIn(h1) /\ ContainersIn(h2) = ContainersIn(h1)
    BY DEF WrefsIn, ContainersIn, SameLinks
<1>4. \A x \in AliveIn(h1) : /\ h2[x].wref_first = h1[x].wref_first /\ h2[x].target = h1[x].target
                             /\ h2[x].next = h1[x].next /\ h2[x].prev = h1[x].prev
    BY DEF SameLinks
<1>5. WrefsIn(h1) \subseteq AliveIn(h1) /\ ContainersIn(h1) \subseteq AliveIn(h1)
    BY DEF WrefsIn, ContainersIn
<1>6. ASSUME NEW w \in WrefsIn(h2) PROVE WrefLinked(h2, rk, w)
    <2>1. WrefLinked(h1, rk, w)
        BY <1>2, <1>3 DEF Linked
    <2>. QED  BY <1>3, <1>4, <1>5, <2>1 DEF WrefLinked
<1>7. ASSUME NEW o \in ContainersIn(h2) PROVE FirstLinked(h2, o)
    <2>1. FirstLinked(h1, o)
        BY <1>2, <1>3 DEF Linked
    <2>. QED  BY <1>3, <1>4, <1>5, <2>1 DEF FirstLinked
<1>8. Linked(h2, rk)
    BY <1>6, <1>7 DEF Linked
<1>. QED  BY <1>8 DEF WellLinked

LEMMA AlikeKeeps ==
    ASSUME NEW h1, NEW h2, Alike(h1, h2)
    PROVE  /\ WellLinked(h1) => WellLinked(h2)
           /\ \A M, o : InItems(h2, M, o) = InItems(h1, M, o)
           /\ \A gl, p : p.in \in AliveIn(h1) \union {None} => At(h2, gl, p) = At(h1, gl, p)
<1>1. \A x \in AliveIn(h1) : SameLinks(h1[x], h2[x]) /\ h1[x].items = h2[x].items
    BY DEF Alike, SameShape, SameLinks
<1>2. WellLinked(h1) => WellLinked(h2)
    BY <1>1, LinkedSame DEF Alike
<1>3. SameItems(h1, h2, Obj)
    BY <1>1 DEF SameItems, Alike
<1>4. \A M, o : InItems(h2, M, o) = InItems(h1, M, o)
    BY <1>3, ItemsSame
<1>5. \A gl, p : p.in \in AliveIn(h1) \union {None} => At(h2, gl, p) = At(h1, gl, p)
    BY <1>1 DEF At
<1>. QED  BY <1>2, <1>4, <1>5

LEMMA CountedIs ==
    ASSUME NEW M \in Nat, NEW h, HeapOK(h, M), NEW r \in Ref, NEW n \in Int,
           r \in Obj => r \in AliveIn(h) /\ h[r].nrefs + n > 0,
           NEW k, k = Counted(h, r, n)
    PROVE  /\ HeapOK(k, M) /\ Alike(h, k)
           /\ \A o \in Obj : Nrefs(k, o) = Nrefs(h, o) + n * Hits(r, o)
<1>1. CASE r = Nil
    <2>1. k = h
        BY <1>1 DEF Counted
    <2>2. \A o \in Obj : Hits(r, o) = 0
        BY <1>1, HeapAssumption DEF If, Hits
    <2>3. \A o \in Obj : Nrefs(h, o) \in Nat
        BY DEF Nrefs, HeapOK, Fits, Cell
    <2>4. Alike(h, h)
        BY DEF Alike, SameShape
    <2>. QED  BY <2>1, <2>2, <2>3, <2>4
<1>2. CASE r # Nil
    <2>1. r \in Obj /\ r \in AliveIn(h) /\ h[r].nrefs + n > 0
        BY <1>2 DEF Ref
    <2>2. h \in [Obj -> Cell \union {Free}] /\ h[r] \in Cell /\ h[r].nrefs \in Nat
        BY <2>1 DEF HeapOK, Fits, AliveIn, Cell
    <2>. DEFINE c == [h[r] EXCEPT !.nrefs = h[r].nrefs + n]
    <2>3. k = [h EXCEPT ![r] = c]
        BY <1>2 DEF Counted
    <2>4. c \in Cell /\ SameShape(h[r], c) /\ c.nrefs = h[r].nrefs + n
        <3>1. h[r].nrefs + n \in Nat
            BY <2>1, <2>2
        <3>. QED  BY <2>2, <3>1 DEF Cell, SameShape
    <2>. HIDE DEF c
    <2>5. k[r] = c /\ \A x \in Obj : x # r => k[x] = h[x]
        BY <2>1, <2>2, <2>3
    <2>6. c # Free
        BY <2>4, HeapAssumption
    <2>7. k \in [Obj -> Cell \union {Free}]
        BY <2>2, <2>3, <2>4
    <2>8. \A o \in Obj : k[o] # Free => Len(k[o].items) <= M
        BY <2>1, <2>4, <2>5 DEF HeapOK, Fits, AliveIn, SameShape
    <2>9. AliveIn(k) = AliveIn(h)
        BY <2>1, <2>4, <2>5, <2>6 DEF AliveIn
    <2>10. Alike(h, k)
        <3>1. \A x \in AliveIn(h) : SameShape(h[x], h[x]) /\ x \in Obj
            BY DEF SameShape, AliveIn
        <3>. QED  BY <2>4, <2>5, <2>9, <3>1 DEF Alike
    <2>11. HeapOK(k, M)
        BY <2>7, <2>8, <2>10, AlikeKeeps DEF HeapOK, Fits
    <2>12. ASSUME NEW o \in Obj PROVE Nrefs(k, o) = Nrefs(h, o) + n * Hits(r, o)
        <3>1. CASE o = r
            BY <2>1, <2>2, <2>4, <2>5, <2>6, <3>1 DEF Nrefs, If, Hits, AliveIn
        <3>2. CASE o # r
            <4>1. Nrefs(h, o) \in Nat /\ Hits(r, o) = 0
                BY <3>2 DEF Nrefs, HeapOK, Fits, Cell, If, Hits
            <4>2. Nrefs(k, o) = Nrefs(h, o)
                BY <2>5, <3>2 DEF Nrefs
            <4>. QED  BY <4>1, <4>2
        <3>. QED  BY <3>1, <3>2
    <2>. QED  BY <2>10, <2>11, <2>12
<1>. QED  BY <1>1, <1>2

(* A cell put at an address where nothing is.                               *)
PlainCell(c, M) ==
    /\ c \in Cell /\ c.nrefs = 1 /\ c.kind # "wref" /\ c.wref_first = None
    /\ Len(c.items) <= M

Added(h, x, c, k, M) ==
    /\ HeapOK(k, M)
    /\ AliveIn(k) = AliveIn(h) \union {x} /\ x \notin AliveIn(h)
    /\ k[x] = c /\ \A y \in Obj : y # x => k[y] = h[y]
    /\ \A o \in Obj : Nrefs(k, o) = Nrefs(h, o) + Hits(x, o)
    /\ \A o \in Obj : InItems(k, M, o) = InItems(h, M, o) + Count(c.items, o)

LEMMA NewCell ==
    ASSUME NEW M \in Nat, NEW h, HeapOK(h, M), NEW x \in Obj, h[x] = Free,
           NEW c, PlainCell(c, M), NEW k, k = [h EXCEPT ![x] = c]
    PROVE  Added(h, x, c, k, M)
<1>1. h \in [Obj -> Cell \union {Free}] /\ c # Free /\ c \in Cell
    BY HeapAssumption DEF HeapOK, Fits, PlainCell
<1>2. k[x] = c /\ \A y \in Obj : y # x => k[y] = h[y]
    BY <1>1
<1>3. AliveIn(k) = AliveIn(h) \union {x} /\ x \notin AliveIn(h)
    BY <1>1, <1>2 DEF AliveIn, PlainCell
<1>4. Fits(k, M)
    <2>1. k \in [Obj -> Cell \union {Free}]
        BY <1>1
    <2>2. \A o \in Obj : k[o] # Free => Len(k[o].items) <= M
        BY <1>2 DEF HeapOK, Fits, PlainCell
    <2>. QED  BY <2>1, <2>2 DEF Fits
<1>5. WellLinked(k)
    <2>1. PICK K \in Nat : \E rk \in [Obj -> 0..K] : Linked(h, rk)
        BY DEF HeapOK, WellLinked
    <2>2. PICK rk \in [Obj -> 0..K] : Linked(h, rk)
        BY <2>1
    <2>3. WrefsIn(k) = WrefsIn(h)
        BY <1>2, <1>3 DEF WrefsIn, AliveIn, PlainCell
    <2>4. /\ \A y \in ContainersIn(h) : y # x /\ y \in Obj /\ y \in ContainersIn(k)
          /\ \A y \in WrefsIn(h) : y # x /\ y \in Obj
          /\ \A y \in ContainersIn(k) : y # x => y \in ContainersIn(h)
        BY <1>2, <1>3 DEF WrefsIn, ContainersIn, AliveIn
    <2>5. ASSUME NEW w \in WrefsIn(k) PROVE WrefLinked(k, rk, w)
        <3>1. WrefLinked(h, rk, w) /\ k[w] = h[w]
            BY <1>2, <2>2, <2>3, <2>4 DEF Linked
        <3>2. h[w].target # None => k[h[w].target] = h[h[w].target] /\ h[w].target \in ContainersIn(k)
            BY <1>2, <2>4, <3>1 DEF WrefLinked
        <3>3. h[w].next # None => k[h[w].next] = h[h[w].next]
            BY <1>2, <2>4, <3>1 DEF WrefLinked
        <3>4. h[w].prev # None => k[h[w].prev] = h[h[w].prev]
            BY <1>2, <2>4, <3>1 DEF WrefLinked
        <3>. QED  BY <2>3, <3>1, <3>2, <3>3, <3>4 DEF WrefLinked
    <2>6. ASSUME NEW o \in ContainersIn(k) PROVE FirstLinked(k, o)
        <3>1. CASE o = x
            BY <1>2, <3>1 DEF FirstLinked, PlainCell
        <3>2. CASE o # x
            <4>1. o \in Obj
                BY DEF ContainersIn, AliveIn
            <4>2. FirstLinked(h, o) /\ k[o] = h[o]
                BY <1>2, <2>2, <2>4, <3>2, <4>1 DEF Linked
            <4>3. h[o].wref_first # None => k[h[o].wref_first] = h[h[o].wref_first]
                BY <1>2, <2>4, <4>2 DEF FirstLinked
            <4>. QED  BY <2>3, <4>2, <4>3 DEF FirstLinked
        <3>. QED  BY <3>1, <3>2
    <2>7. Linked(k, rk)
        BY <2>5, <2>6 DEF Linked
    <2>. QED  BY <2>7 DEF WellLinked
<1>6. ASSUME NEW o \in Obj
      PROVE  /\ Nrefs(k, o) = Nrefs(h, o) + Hits(x, o)
             /\ InItems(k, M, o) = InItems(h, M, o) + Count(c.items, o)
    <2>1. Nrefs(k, o) = Nrefs(h, o) + Hits(x, o)
        <3>1. CASE o = x
            BY <1>1, <1>2, <3>1 DEF Nrefs, If, Hits, PlainCell
        <3>2. CASE o # x
            <4>1. Nrefs(h, o) \in Nat /\ Hits(x, o) = 0 /\ Nrefs(k, o) = Nrefs(h, o)
                BY <1>1, <1>2, <3>2 DEF Nrefs, Cell, If, Hits
            <4>. QED  BY <4>1
        <3>. QED  BY <3>1, <3>2
    <2>2. Fits(h, M) /\ SameItems(h, k, Obj \ {x})
        BY <1>2, <1>3 DEF SameItems, HeapOK
    <2>3. InItems(k, M, o) + InCell(h, x, o) = InItems(h, M, o) + InCell(k, x, o)
          /\ InItems(k, M, o) \in Nat /\ InItems(h, M, o) \in Nat /\ InCell(k, x, o) \in Nat
        BY <1>4, <2>2, ItemsAt
    <2>4. InCell(h, x, o) = 0 /\ InCell(k, x, o) = Count(c.items, o)
        BY <1>2, <1>3 DEF InCell
    <2>. QED  BY <2>1, <2>3, <2>4
<1>. QED  BY <1>2, <1>3, <1>4, <1>5, <1>6 DEF HeapOK, Added

(* Other items in a container that is alive.                                *)
Refilled(h, c, q, k, M) ==
    /\ HeapOK(k, M) /\ AliveIn(k) = AliveIn(h)
    /\ k[c].items = q /\ \A y \in Obj : y # c => k[y] = h[y]
    /\ \A y \in Obj : /\ k[y] = Free <=> h[y] = Free
                      /\ k[y].kind = h[y].kind /\ k[y].nrefs = h[y].nrefs
                      /\ k[y].text = h[y].text /\ SameLinks(h[y], k[y])
    /\ \A o \in Obj : /\ Nrefs(k, o) = Nrefs(h, o)
                      /\ InItems(k, M, o) + Count(h[c].items, o) = InItems(h, M, o) + Count(q, o)
                      /\ Count(h[c].items, o) <= InItems(h, M, o)

LEMMA Refill ==
    ASSUME NEW M \in Nat, NEW h, HeapOK(h, M), NEW c \in AliveIn(h),
           NEW q \in Seq(Ref), Len(q) <= M, NEW k, k = [h EXCEPT ![c].items = q]
    PROVE  Refilled(h, c, q, k, M)
<1>1. h \in [Obj -> Cell \union {Free}] /\ c \in Obj /\ h[c] \in Cell /\ h[c].nrefs \in Nat /\ h[c] # Free
    BY DEF HeapOK, Fits, AliveIn, Cell
<1>. DEFINE d == [h[c] EXCEPT !.items = q]
<1>2. k = [h EXCEPT ![c] = d]
    OBVIOUS
<1>3. /\ d \in Cell /\ d.items = q /\ d.kind = h[c].kind /\ d.nrefs = h[c].nrefs /\ d.text = h[c].text
      /\ SameLinks(h[c], d)
    BY <1>1 DEF Cell, SameLinks
<1>. HIDE DEF d
<1>4. k[c] = d /\ d # Free /\ \A y \in Obj : y # c => k[y] = h[y]
    BY <1>1, <1>2, <1>3, HeapAssumption
<1>5. \A y \in Obj : /\ k[y] = Free <=> h[y] = Free
                     /\ k[y].kind = h[y].kind /\ k[y].nrefs = h[y].nrefs
                     /\ k[y].text = h[y].text /\ SameLinks(h[y], k[y])
    <2>1. \A y \in Obj : SameLinks(h[y], h[y])
        BY DEF SameLinks
    <2>. QED  BY <1>1, <1>3, <1>4, <2>1
<1>6. AliveIn(k) = AliveIn(h)
    BY <1>5 DEF AliveIn
<1>7. Fits(k, M)
    <2>1. k \in [Obj -> Cell \union {Free}]
        BY <1>1, <1>2, <1>3
    <2>2. \A o \in Obj : k[o] # Free => Len(k[o].items) <= M
        BY <1>3, <1>4 DEF HeapOK, Fits
    <2>. QED  BY <2>1, <2>2 DEF Fits
<1>8. WellLinked(k)
    <2>1. \A x \in AliveIn(h) : SameLinks(h[x], k[x])
        BY <1>5 DEF AliveIn
    <2>. QED  BY <1>6, <2>1, LinkedSame DEF HeapOK
<1>9. ASSUME NEW o \in Obj
      PROVE  /\ Nrefs(k, o) = Nrefs(h, o)
             /\ InItems(k, M, o) + Count(h[c].items, o) = InItems(h, M, o) + Count(q, o)
             /\ Count(h[c].items, o) <= InItems(h, M, o)
    <2>1. Nrefs(k, o) = Nrefs(h, o)
        BY <1>5 DEF Nrefs
    <2>2. Fits(h, M) /\ SameItems(h, k, Obj \ {c})
        BY <1>4, <1>6 DEF SameItems, HeapOK
    <2>3. InItems(k, M, o) + InCell(h, c, o) = InItems(h, M, o) + InCell(k, c, o)
          /\ InCell(h, c, o) <= InItems(h, M, o)
        BY <1>1, <1>7, <2>2, ItemsAt
    <2>4. InCell(h, c, o) = Count(h[c].items, o) /\ InCell(k, c, o) = Count(q, o)
        BY <1>3, <1>4, <1>6 DEF InCell
    <2>. QED  BY <2>1, <2>3, <2>4
<1>. QED  BY <1>3, <1>4, <1>5, <1>6, <1>7, <1>8, <1>9 DEF HeapOK, Refilled

-----------------------------------------------------------------------------
(* Between instructions: whatever is referred to is alive.                  *)

LEMMA HitsNat == \A a, b : /\ Hits(a, b) \in {0, 1} /\ Hits(a, b) \in Nat
                           /\ Hits(a, b) = 1 <=> a = b
BY DEF Hits

LEMMA BoundNat ==
    ASSUME bound \in Bounds
    PROVE  MaxItems \in Nat /\ MaxStack \in Nat /\ MaxText \in Nat
BY HeapAssumption DEF MaxItems, MaxStack, MaxText

Exact(h, st, gl, M) ==
    \A o \in Obj : Nrefs(h, o) = Count(st, o) + InGlobals(gl, o) + InItems(h, M, o)
Tracked(h, S) == \A r \in S : r \in Obj => r \in AliveIn(h)

Settled(h, st, gl, M) ==
    /\ HeapOK(h, M) /\ st \in Seq(Ref) /\ gl \in [Global -> Ref \union {None}]
    /\ Exact(h, st, gl, M)
    /\ \A i \in 1..Len(st) : st[i] \in Obj => st[i] \in AliveIn(h)
    /\ \A x \in Global : gl[x] \in Obj => gl[x] \in AliveIn(h)
    /\ \A c \in AliveIn(h) : \A i \in 1..Len(h[c].items) :
          h[c].items[i] \in Obj => h[c].items[i] \in AliveIn(h)

LEMMA AliveOf ==
    ASSUME NEW h, NEW o \in Obj, Nrefs(h, o) \in Nat, Nrefs(h, o) # 0
    PROVE  o \in AliveIn(h)
BY DEF Nrefs, AliveIn

LEMMA NrefsNat ==
    ASSUME NEW M, NEW h, HeapOK(h, M), NEW o \in Obj
    PROVE  Nrefs(h, o) \in Nat /\ (o \in AliveIn(h) => h[o] # Free /\ Nrefs(h, o) = h[o].nrefs)
BY DEF HeapOK, Fits, Nrefs, AliveIn, Cell

LEMMA CountSome ==
    ASSUME NEW S, NEW s \in Seq(S), NEW i \in 1..Len(s)
    PROVE  Count(s, s[i]) \in Nat /\ Count(s, s[i]) # 0
BY CountFacts

LEMMA SettledIs ==
    ASSUME NEW M \in Nat, NEW h, NEW st, NEW gl, Sound(h, st, gl, <<>>, M)
    PROVE  Settled(h, st, gl, M)
<1>1. HeapOK(h, M) /\ st \in Seq(Ref) /\ gl \in [Global -> Ref \union {None}]
    BY DEF Sound
<1>2. \A o : Due(<<>>, o) = 0 /\ Lost(h, gl, <<>>, o) = 0
    <2>1. \A i \in 1..Len(<<>>) : <<>>[i].do # "write"
        OBVIOUS
    <2>. QED  BY <2>1, OwedEmpty, LostNone
<1>3. \A o \in Obj : /\ Count(st, o) \in Nat /\ InGlobals(gl, o) \in Nat
                     /\ InItems(h, M, o) \in Nat /\ Nrefs(h, o) \in Nat
    BY <1>1, CountFacts, GlobalsFinite, SlotsFinite, NrefsNat
<1>4. Exact(h, st, gl, M)
    <2>. SUFFICES ASSUME NEW o \in Obj
         PROVE  Nrefs(h, o) = Count(st, o) + InGlobals(gl, o) + InItems(h, M, o)
        BY DEF Exact
    <2>1. Count(st, o) + InGlobals(gl, o) + InItems(h, M, o) + Due(<<>>, o)
              = Nrefs(h, o) + Lost(h, gl, <<>>, o)
        BY DEF Sound, Balanced
    <2>. QED  BY <1>2, <1>3, <2>1
<1>5. \A o \in Obj : Count(st, o) # 0 \/ InGlobals(gl, o) # 0 \/ InItems(h, M, o) # 0 => o \in AliveIn(h)
    <2>. SUFFICES ASSUME NEW o \in Obj, Count(st, o) # 0 \/ InGlobals(gl, o) # 0 \/ InItems(h, M, o) # 0
         PROVE  o \in AliveIn(h)
        OBVIOUS
    <2>1. Nrefs(h, o) = Count(st, o) + InGlobals(gl, o) + InItems(h, M, o)
        BY <1>4 DEF Exact
    <2>2. Nrefs(h, o) \in Nat /\ Nrefs(h, o) # 0
        BY <1>3, <2>1
    <2>. QED  BY <2>2, AliveOf
<1>6. ASSUME NEW i \in 1..Len(st), st[i] \in Obj PROVE st[i] \in AliveIn(h)
    BY <1>1, <1>5, <1>6, CountSome
<1>7. ASSUME NEW x \in Global, gl[x] \in Obj PROVE gl[x] \in AliveIn(h)
    <2>1. PICK o \in Obj : o = gl[x]
        BY <1>7
    <2>2. Hits(gl[x], o) <= InGlobals(gl, o)
        BY GlobalHeld
    <2>3. Hits(gl[x], o) = 1
        BY <2>1, HitsNat
    <2>4. InGlobals(gl, o) # 0
        BY <1>3, <2>2, <2>3
    <2>. QED  BY <1>5, <2>1, <2>4
<1>8. ASSUME NEW c \in AliveIn(h), NEW i \in 1..Len(h[c].items), h[c].items[i] \in Obj
      PROVE  h[c].items[i] \in AliveIn(h)
    <2>1. c \in Obj /\ h[c] # Free /\ Fits(h, M)
        BY <1>1 DEF AliveIn, HeapOK
    <2>2. PICK q \in Seq(Ref), o \in Obj : q = h[c].items /\ o = q[i] /\ i \in 1..Len(q)
        BY <1>8, <2>1, CellFacts
    <2>3. Count(q, o) \in Nat /\ Count(q, o) # 0
        BY <2>2, CountSome
    <2>4. InCell(h, c, o) = Count(q, o)
        BY <2>2 DEF InCell
    <2>5. SameItems(h, h, Obj \ {c})
        BY DEF SameItems
    <2>6. InCell(h, c, o) <= InItems(h, M, o)
        BY <2>1, <2>5, ItemsAt
    <2>7. InItems(h, M, o) # 0
        BY <1>3, <2>3, <2>4, <2>6
    <2>. QED  BY <1>5, <2>2, <2>7
<1>. QED  BY <1>1, <1>4, <1>6, <1>7, <1>8 DEF Settled

LEMMA IdleFacts ==
    ASSUME HInv, Idle
    PROVE  MaxItems \in Nat /\ Settled(heap, stack, globals, MaxItems)
BY SettledIs, BoundNat DEF HInv, Idle

(* What an instruction leaves is sound when its references balance.         *)
LEMMA Finish ==
    ASSUME NEW M \in Nat, NEW h, HeapOK(h, M), NEW st \in Seq(Ref),
           NEW gl \in [Global -> Ref \union {None}], NEW rs \in Seq(Ref),
           \A o \in Obj : Count(st, o) + InGlobals(gl, o) + InItems(h, M, o) + Count(rs, o) = Nrefs(h, o)
    PROVE  Sound(h, st, gl, Unrefs(rs), M)
<1>1. /\ Unrefs(rs) \in Seq(Task) /\ Tasks(h, Unrefs(rs))
      /\ \A o : Due(Unrefs(rs), o) = Count(rs, o) /\ Lost(h, gl, Unrefs(rs), o) = 0
    BY PlainTasks
<1>2. \A o \in Obj : Nrefs(h, o) \in Nat
    BY NrefsNat
<1>3. Balanced(h, st, gl, Unrefs(rs), M)
    BY <1>1, <1>2 DEF Balanced
<1>. QED  BY <1>1, <1>3 DEF Sound

LEMMA FinishWrite ==
    ASSUME NEW M \in Nat, NEW h, HeapOK(h, M), NEW st \in Seq(Ref),
           NEW gl \in [Global -> Ref \union {None}], NEW ra \in Seq(Ref), NEW rb \in Seq(Ref),
           NEW p \in Place, NEW v \in Ref, Within(h, p, rb),
           \A o \in Obj : Count(st, o) + InGlobals(gl, o) + InItems(h, M, o)
                              + (Count(ra, o) + Hits(v, o) + Count(rb, o))
                          = Nrefs(h, o) + Hits(At(h, gl, p), o),
           NEW d, d = Around(Unrefs(ra), Write(p, v), Unrefs(rb))
    PROVE  Sound(h, st, gl, d, M)
<1>1. /\ d \in Seq(Task) /\ Tasks(h, d)
      /\ \A o : Due(d, o) = Count(ra, o) + Hits(v, o) + Count(rb, o)
      /\ \A o : Lost(h, gl, d, o) = Hits(At(h, gl, p), o)
    BY WriteTasks
<1>2. Balanced(h, st, gl, d, M)
    BY <1>1 DEF Balanced
<1>. QED  BY <1>1, <1>2 DEF Sound

LEMMA TopIs ==
    ASSUME stack \in Seq(Ref), stack # <<>>
    PROVE  /\ Len(stack) \in 1..Len(stack) /\ Top \in Ref /\ Drop(stack, 1) \in Seq(Ref)
           /\ \A o : Count(stack, o) = Count(Drop(stack, 1), o) + Hits(Top, o)
           /\ \A r \in Ref : \A o : /\ Count(Append(Drop(stack, 1), r), o) = Count(Drop(stack, 1), o) + Hits(r, o)
                                    /\ Count(Drop(stack, 1), o) \in Nat
           /\ \A r \in Ref : Append(Drop(stack, 1), r) \in Seq(Ref)
<1>1. Len(stack) >= 1 /\ Len(stack) \in 1..Len(stack)
    OBVIOUS
<1>2. /\ Drop(stack, 1) \in Seq(Ref) /\ stack[Len(stack)] \in Ref
      /\ \A o : Count(stack, o) = Count(Drop(stack, 1), o) + Hits(stack[Len(stack)], o)
    BY <1>1, CountLast
<1>3. PICK q \in Seq(Ref) : q = Drop(stack, 1)
    BY <1>2
<1>4. \A r \in Ref : \A o : Count(Append(q, r), o) = Count(q, o) + Hits(r, o) /\ Count(q, o) \in Nat
    BY CountAppend, CountFacts
<1>5. \A r \in Ref : Append(q, r) \in Seq(Ref)
    OBVIOUS
<1>. QED  BY <1>1, <1>2, <1>3, <1>4, <1>5 DEF Top

LEMMA SecondIs ==
    ASSUME stack \in Seq(Ref), Len(stack) >= 2
    PROVE  /\ Len(stack) \in 1..Len(stack) /\ Len(stack) - 1 \in 1..Len(stack)
           /\ Top \in Ref /\ Second \in Ref /\ Drop(stack, 2) \in Seq(Ref)
           /\ \A o : Count(stack, o) = Count(Drop(stack, 2), o) + Hits(Second, o) + Hits(Top, o)
           /\ \A r \in Ref : \A o : /\ Count(Append(Drop(stack, 2), r), o) = Count(Drop(stack, 2), o) + Hits(r, o)
                                    /\ Count(Drop(stack, 2), o) \in Nat
           /\ \A r \in Ref : Append(Drop(stack, 2), r) \in Seq(Ref)
<1>1. Len(stack) \in 1..Len(stack) /\ Len(stack) - 1 \in 1..Len(stack)
    OBVIOUS
<1>2. /\ Drop(stack, 2) \in Seq(Ref) /\ stack[Len(stack)] \in Ref /\ stack[Len(stack) - 1] \in Ref
      /\ \A o : Count(stack, o) = Count(Drop(stack, 2), o) + Hits(stack[Len(stack) - 1], o)
                                      + Hits(stack[Len(stack)], o)
    BY CountLastTwo
<1>3. PICK q \in Seq(Ref) : q = Drop(stack, 2)
    BY <1>2
<1>4. \A r \in Ref : \A o : Count(Append(q, r), o) = Count(q, o) + Hits(r, o) /\ Count(q, o) \in Nat
    BY CountAppend, CountFacts
<1>5. \A r \in Ref : Append(q, r) \in Seq(Ref)
    OBVIOUS
<1>. QED  BY <1>1, <1>2, <1>3, <1>4, <1>5 DEF Top, Second


-----------------------------------------------------------------------------
(* Lists of weak references.                                                *)

LEMMA LeastNat ==
    ASSUME NEW S, S \subseteq Nat, S # {}
    PROVE  \E n \in S : \A m \in S : n <= m
<1>1. IsWellFoundedOn(OpToRel(<, Nat), Nat)
    BY NatLessThanWellFounded
<1>2. PICK n \in S : \A m \in S : ~ (<< m, n >> \in OpToRel(<, Nat))
    BY <1>1, WFMin
<1>3. \A m \in S : ~ (m < n)
    BY <1>2 DEF OpToRel
<1>. QED  BY <1>3

(* c[0] is first, and each c[n] is what follows c[n - 1].                   *)
Follows(c, N, first, g) ==
    c = [n \in 0..N |-> IF n = 0 THEN first
                        ELSE LET w == c[n - 1] IN IF w = None THEN None ELSE g[w].next]

LEMMA ChainExists ==
    ASSUME NEW N \in Nat, NEW first, NEW g
    PROVE  \E c : Follows(c, N, first, g)
<1>. DEFINE S == {n \in Nat : ~ \E c : Follows(c, n, first, g)}
<1>. SUFFICES ASSUME S # {} PROVE FALSE
    OBVIOUS
<1>1. PICK m \in S : \A n \in S : m <= n
    <2>1. S \subseteq Nat
        OBVIOUS
    <2>. HIDE DEF S
    <2>. QED  BY <2>1, LeastNat
<1>2. m \in Nat /\ ~ \E c : Follows(c, m, first, g)
    BY <1>1
<1>3. CASE m = 0
    <2>1. PICK c : c = [n \in 0..0 |-> first]
        OBVIOUS
    <2>2. c = [n \in 0..0 |-> IF n = 0 THEN first
                        ELSE LET w == c[n - 1] IN IF w = None THEN None ELSE g[w].next]
        BY <2>1
    <2>3. Follows(c, 0, first, g)
        BY <2>2 DEF Follows
    <2>. QED  BY <1>2, <1>3, <2>3
<1>4. CASE m # 0
    <2>1. m - 1 \in Nat /\ m - 1 \notin S
        BY <1>1, <1>2, <1>4
    <2>2. PICK b : Follows(b, m - 1, first, g)
        BY <2>1
    <2>3. PICK x : x = IF b[m - 1] = None THEN None ELSE g[b[m - 1]].next
        OBVIOUS
    <2>4. PICK c : c = [n \in 0..m |-> IF n = m THEN x ELSE b[n]]
        OBVIOUS
    <2>5. c[m] = x /\ \A n \in 0..(m - 1) : c[n] = b[n]
        BY <1>2, <1>4, <2>4
    <2>6. \A n \in 0..(m - 1) : b[n] = IF n = 0 THEN first ELSE IF b[n - 1] = None THEN None ELSE g[b[n - 1]].next
        BY <2>2 DEF Follows
    <2>7. \A n \in 0..m : c[n] = IF n = 0 THEN first ELSE IF c[n - 1] = None THEN None ELSE g[c[n - 1]].next
        <3>. TAKE n \in 0..m
        <3>1. CASE n = m
            <4>1. m - 1 \in 0..(m - 1) /\ m # 0
                BY <1>2, <1>4
            <4>. QED  BY <2>3, <2>5, <3>1, <4>1
        <3>2. CASE n # m
            <4>1. n \in 0..(m - 1) /\ (n # 0 => n - 1 \in 0..(m - 1))
                BY <1>2, <3>2
            <4>. QED  BY <2>5, <2>6, <4>1
        <3>. QED  BY <3>1, <3>2
    <2>8. Follows(c, m, first, g)
        <3>1. c = [n \in 0..m |-> c[n]]
            BY <2>4
        <3>2. c = [n \in 0..m |-> IF n = 0 THEN first
                        ELSE LET w == c[n - 1] IN IF w = None THEN None ELSE g[w].next]
            BY <2>7, <3>1
        <3>. QED  BY <3>2 DEF Follows
    <2>. QED  BY <1>2, <2>8
<1>. QED  BY <1>3, <1>4

LEMMA WeakChainIs ==
    ASSUME NEW g, NEW o
    PROVE  Follows(WeakChain(g, o), Cardinality(Obj), g[o].wref_first, g)
<1>1. Cardinality(Obj) \in Nat
    BY HeapAssumption, FS_CardinalityType
<1>2. \E c : Follows(c, Cardinality(Obj), g[o].wref_first, g)
    BY <1>1, ChainExists
<1>3. WeakChain(g, o) = CHOOSE c : Follows(c, Cardinality(Obj), g[o].wref_first, g)
    BY DEF WeakChain, Follows
<1>. QED  BY <1>2, <1>3


(* The list of o's weak references, walked in any heap with the same links,
   has those to o and no other: it only leads to smaller ranks, so it cannot
   be longer than there are objects.                                        *)
LEMMA WalkIs ==
    ASSUME NEW K \in Nat, NEW rk \in [Obj -> 0..K], NEW h, Linked(h, rk), NEW o \in ContainersIn(h),
           NEW g, g[o].wref_first = h[o].wref_first, \A w \in WrefsIn(h) : g[w].next = h[w].next
    PROVE  WeakRefsTo(g, o) = {w \in WrefsIn(h) : h[w].target = o}
<1>. DEFINE T == {w \in WrefsIn(h) : h[w].target = o}
<1>1. PICK N \in Nat : N = Cardinality(Obj)
    BY HeapAssumption, FS_CardinalityType
<1>2. PICK c : c = WeakChain(g, o)
    OBVIOUS
<1>3. \A n \in 0..N : c[n] = IF n = 0 THEN h[o].wref_first ELSE IF c[n - 1] = None THEN None ELSE g[c[n - 1]].next
    <2>1. Follows(c, N, h[o].wref_first, g)
        BY <1>1, <1>2, WeakChainIs
    <2>. QED  BY <2>1 DEF Follows
<1>4. T \subseteq Obj /\ None \notin T /\ \A w \in T : rk[w] \in 0..K
    BY HeapAssumption DEF WrefsIn, AliveIn
<1>5. h[o].wref_first = None \/ h[o].wref_first \in T
    BY DEF Linked, FirstLinked
<1>6. \A w \in T : g[w].next = None \/ (g[w].next \in T /\ rk[g[w].next] < rk[w])
    BY DEF Linked, WrefLinked
<1>7. \A w \in T : h[o].wref_first = w \/ \E p \in T : g[p].next = w /\ rk[w] < rk[p]
    <2>. SUFFICES ASSUME NEW w \in T, h[o].wref_first # w PROVE \E p \in T : g[p].next = w /\ rk[w] < rk[p]
        OBVIOUS
    <2>1. WrefLinked(h, rk, w) /\ h[w].target = o /\ o # None
        BY HeapAssumption DEF Linked, ContainersIn, AliveIn
    <2>2. PICK p : p = h[w].prev
        OBVIOUS
    <2>3. p \in WrefsIn(h) /\ h[p].next = w
        BY <2>1, <2>2 DEF WrefLinked
    <2>4. WrefLinked(h, rk, p) /\ h[p].next # None
        BY <1>4, <2>3 DEF Linked
    <2>5. h[p].target = o /\ rk[w] < rk[p] /\ g[p].next = w
        BY <2>1, <2>3, <2>4 DEF WrefLinked
    <2>. QED  BY <2>3, <2>5
<1>. HIDE DEF T
<1>8. \A n \in 0..N : c[n] = None \/ c[n] \in T
    <2>. DEFINE S == {n \in 0..N : ~ (c[n] = None \/ c[n] \in T)}
    <2>. SUFFICES ASSUME S # {} PROVE FALSE
        OBVIOUS
    <2>1. PICK n \in S : \A m \in S : n <= m
        <3>1. S \subseteq Nat
            OBVIOUS
        <3>. HIDE DEF S
        <3>. QED  BY <3>1, LeastNat
    <2>2. n # 0 /\ n - 1 \in 0..N /\ n - 1 \notin S
        <3>1. n # 0
            BY <1>3, <1>5, <2>1
        <3>. QED  BY <2>1, <3>1
    <2>. QED  BY <1>3, <1>6, <2>1, <2>2
<1>9. \A n \in 0..N : c[n] # None => \A m \in 0..(n - 1) : c[m] \in T /\ rk[c[n]] < rk[c[m]]
    <2>. DEFINE S == {n \in 0..N : ~ (c[n] # None => \A m \in 0..(n - 1) : c[m] \in T /\ rk[c[n]] < rk[c[m]])}
    <2>. SUFFICES ASSUME S # {} PROVE FALSE
        OBVIOUS
    <2>1. PICK n \in S : \A m \in S : n <= m
        <3>1. S \subseteq Nat
            OBVIOUS
        <3>. HIDE DEF S
        <3>. QED  BY <3>1, LeastNat
    <2>2. n \in 0..N /\ c[n] # None
        BY <2>1
    <2>3. PICK m \in 0..(n - 1) : ~ (c[m] \in T /\ rk[c[n]] < rk[c[m]])
        BY <2>1
    <2>4. n # 0 /\ n - 1 \in 0..N /\ n - 1 \notin S
        BY <2>1, <2>2, <2>3
    <2>5. c[n - 1] \in T /\ rk[c[n]] < rk[c[n - 1]] /\ c[n] \in T
        BY <1>3, <1>6, <1>8, <2>2, <2>4
    <2>6. c[n - 1] # None => \A i \in 0..(n - 1 - 1) : c[i] \in T /\ rk[c[n - 1]] < rk[c[i]]
        BY <2>4
    <2>7. m \in 0..(n - 1 - 1)
        BY <2>2, <2>3, <2>5
    <2>8. c[m] \in T /\ rk[c[n - 1]] < rk[c[m]]
        BY <1>4, <2>5, <2>6, <2>7
    <2>9. rk[c[n]] \in Nat /\ rk[c[n - 1]] \in Nat /\ rk[c[m]] \in Nat
        BY <1>4, <2>5, <2>8
    <2>. QED  BY <2>3, <2>5, <2>8, <2>9
<1>10. c[N] = None
    <2>. SUFFICES ASSUME c[N] # None PROVE FALSE
        OBVIOUS
    <2>1. \A n \in 0..N : c[n] \in T
        <3>1. c[N] \in T /\ \A m \in 0..(N - 1) : c[m] \in T
            BY <1>8, <1>9
        <3>. QED  BY <3>1
    <2>. DEFINE f == [n \in 0..N |-> c[n]]
    <2>2. f \in [0..N -> Obj] /\ \A n \in 0..N : f[n] = c[n]
        BY <1>4, <2>1
    <2>3. \A m, n \in 0..N : m < n => c[m] # c[n]
        <3>. TAKE m, n \in 0..N
        <3>. HAVE m < n
        <3>1. m \in 0..(n - 1) /\ c[n] # None
            BY <1>4, <2>1
        <3>2. rk[c[n]] < rk[c[m]] /\ rk[c[n]] \in Nat
            BY <1>4, <1>9, <2>1, <3>1
        <3>. QED  BY <3>2
    <2>4. \A m, n \in 0..N : f[m] = f[n] => m = n
        BY <2>2, <2>3
    <2>5. f \in Injection(0..N, Obj)
        BY <2>2, <2>4 DEF Injection, IsInjective
    <2>6. Cardinality(0..N) <= Cardinality(Obj)
        BY <2>5, HeapAssumption, FS_Injection
    <2>7. Cardinality(0..N) = N + 1
        <3>1. Cardinality(0..N) = IF 0 > N THEN 0 ELSE N - 0 + 1
            BY FS_Interval
        <3>. QED  BY <3>1
    <2>. QED  BY <1>1, <2>6, <2>7
<1>11. \A w \in T : \E n \in 0..N : c[n] = w
    <2>. DEFINE S == {j \in 0..K : \E w \in T : rk[w] = K - j /\ ~ \E n \in 0..N : c[n] = w}
    <2>. SUFFICES ASSUME NEW u \in T, ~ \E n \in 0..N : c[n] = u PROVE FALSE
        OBVIOUS
    <2>1. K - rk[u] \in S
        <3>1. PICK j \in 0..K : j = rk[u]
            BY <1>4
        <3>2. K - j \in 0..K /\ K - (K - j) = j
            OBVIOUS
        <3>. QED  BY <3>1, <3>2
    <2>2. PICK j \in S : \A m \in S : j <= m
        <3>1. S \subseteq Nat /\ S # {}
            BY <2>1
        <3>. HIDE DEF S
        <3>. QED  BY <3>1, LeastNat
    <2>3. PICK w \in T : rk[w] = K - j /\ ~ \E n \in 0..N : c[n] = w
        BY <2>2
    <2>4. h[o].wref_first # w
        BY <1>3, <2>3
    <2>5. PICK p \in T : g[p].next = w /\ rk[w] < rk[p]
        BY <1>7, <2>4
    <2>6. K - rk[p] \in 0..K /\ K - (K - rk[p]) = rk[p] /\ K - rk[p] < j
        BY <1>4, <2>2, <2>3, <2>5
    <2>7. K - rk[p] \notin S
        BY <2>2, <2>6
    <2>8. PICK n \in 0..N : c[n] = p
        BY <2>6, <2>7
    <2>9. n # N /\ p # None
        BY <1>4, <1>10, <2>8
    <2>10. n + 1 \in 0..N /\ n + 1 # 0 /\ n + 1 - 1 = n
        BY <2>9
    <2>11. c[n + 1] = w
        BY <1>3, <2>5, <2>8, <2>9, <2>10
    <2>. QED  BY <2>3, <2>10, <2>11
<1>12. WeakRefsTo(g, o) = T
    <2>1. WeakRefsTo(g, o) = {c[n] : n \in 0..N} \ {None}
        BY <1>1, <1>2 DEF WeakRefsTo
    <2>. QED  BY <1>4, <1>8, <1>11, <2>1
<1>. QED  BY <1>12 DEF T

-----------------------------------------------------------------------------
(* Changes of the links.                                                    *)

Relinked(h, k) ==
    /\ k \in [Obj -> Cell \union {Free}]
    /\ \A y \in Obj : /\ k[y] = Free <=> h[y] = Free
                      /\ k[y].kind = h[y].kind /\ k[y].nrefs = h[y].nrefs
                      /\ k[y].items = h[y].items /\ k[y].text = h[y].text

NextSet(h, k, c, v) ==
    /\ Relinked(h, k)
    /\ \A y \in Obj : /\ k[y].next = IF y = c THEN v ELSE h[y].next
                      /\ k[y].prev = h[y].prev /\ k[y].wref_first = h[y].wref_first
                      /\ k[y].target = h[y].target
PrevSet(h, k, c, v) ==
    /\ Relinked(h, k)
    /\ \A y \in Obj : /\ k[y].prev = IF y = c THEN v ELSE h[y].prev
                      /\ k[y].next = h[y].next /\ k[y].wref_first = h[y].wref_first
                      /\ k[y].target = h[y].target
FirstSet(h, k, c, v) ==
    /\ Relinked(h, k)
    /\ \A y \in Obj : /\ k[y].wref_first = IF y = c THEN v ELSE h[y].wref_first
                      /\ k[y].next = h[y].next /\ k[y].prev = h[y].prev
                      /\ k[y].target = h[y].target

LEMMA Links ==
    ASSUME NEW h \in [Obj -> Cell \union {Free}], NEW c \in Obj, h[c] # Free, NEW v \in Obj \union {None}
    PROVE  /\ NextSet(h, [h EXCEPT ![c].next = v], c, v)
           /\ PrevSet(h, [h EXCEPT ![c].prev = v], c, v)
           /\ FirstSet(h, [h EXCEPT ![c].wref_first = v], c, v)
<1>0. h[c] \in Cell
    OBVIOUS
<1>1. NextSet(h, [h EXCEPT ![c].next = v], c, v)
    <2>. DEFINE d == [h[c] EXCEPT !.next = v]
    <2>1. PICK k : k = [h EXCEPT ![c] = d]
        OBVIOUS
    <2>2. /\ d \in Cell /\ d.kind = h[c].kind /\ d.nrefs = h[c].nrefs /\ d.items = h[c].items /\ d.text = h[c].text
          /\ d.next = v /\ d.prev = h[c].prev /\ d.wref_first = h[c].wref_first /\ d.target = h[c].target
        BY <1>0 DEF Cell
    <2>. HIDE DEF d
    <2>3. k[c] = d /\ d # Free /\ k \in [Obj -> Cell \union {Free}] /\ \A y \in Obj : y # c => k[y] = h[y]
        BY <2>1, <2>2, HeapAssumption
    <2>4. NextSet(h, k, c, v)
        BY <2>2, <2>3 DEF NextSet, Relinked
    <2>. QED  BY <2>1, <2>4 DEF d
<1>2. PrevSet(h, [h EXCEPT ![c].prev = v], c, v)
    <2>. DEFINE d == [h[c] EXCEPT !.prev = v]
    <2>1. PICK k : k = [h EXCEPT ![c] = d]
        OBVIOUS
    <2>2. /\ d \in Cell /\ d.kind = h[c].kind /\ d.nrefs = h[c].nrefs /\ d.items = h[c].items /\ d.text = h[c].text
          /\ d.next = h[c].next /\ d.prev = v /\ d.wref_first = h[c].wref_first /\ d.target = h[c].target
        BY <1>0 DEF Cell
    <2>. HIDE DEF d
    <2>3. k[c] = d /\ d # Free /\ k \in [Obj -> Cell \union {Free}] /\ \A y \in Obj : y # c => k[y] = h[y]
        BY <2>1, <2>2, HeapAssumption
    <2>4. PrevSet(h, k, c, v)
        BY <2>2, <2>3 DEF PrevSet, Relinked
    <2>. QED  BY <2>1, <2>4 DEF d
<1>3. FirstSet(h, [h EXCEPT ![c].wref_first = v], c, v)
    <2>. DEFINE d == [h[c] EXCEPT !.wref_first = v]
    <2>1. PICK k : k = [h EXCEPT ![c] = d]
        OBVIOUS
    <2>2. /\ d \in Cell /\ d.kind = h[c].kind /\ d.nrefs = h[c].nrefs /\ d.items = h[c].items /\ d.text = h[c].text
          /\ d.next = h[c].next /\ d.prev = h[c].prev /\ d.wref_first = v /\ d.target = h[c].target
        BY <1>0 DEF Cell
    <2>. HIDE DEF d
    <2>3. k[c] = d /\ d # Free /\ k \in [Obj -> Cell \union {Free}] /\ \A y \in Obj : y # c => k[y] = h[y]
        BY <2>1, <2>2, HeapAssumption
    <2>4. FirstSet(h, k, c, v)
        BY <2>2, <2>3 DEF FirstSet, Relinked
    <2>. QED  BY <2>1, <2>4 DEF d
<1>. QED  BY <1>1, <1>2, <1>3

(* r's last reference is gone; what else there is stays.                    *)
Remains(h, r, k) ==
    /\ k \in [Obj -> Cell \union {Free}] /\ k[r].nrefs = 0
    /\ \A y \in Obj : /\ k[y] = Free <=> h[y] = Free
                      /\ k[y].kind = h[y].kind /\ k[y].items = h[y].items /\ k[y].text = h[y].text
                      /\ y # r => k[y].nrefs = h[y].nrefs

LEMMA RemainsAlive ==
    ASSUME NEW h, NEW r \in AliveIn(h), NEW k, Remains(h, r, k)
    PROVE  /\ AliveIn(k) = AliveIn(h) \ {r} /\ WrefsIn(k) = WrefsIn(h) \ {r}
           /\ ContainersIn(k) = ContainersIn(h) \ {r}
           /\ k[r] # Free /\ r \in Obj
<1>1. AliveIn(k) = AliveIn(h) \ {r}
    BY DEF AliveIn, Remains
<1>2. \A y \in AliveIn(h) : k[y].kind = h[y].kind
    BY DEF AliveIn, Remains
<1>3. k[r] # Free /\ r \in Obj
    BY DEF AliveIn, Remains
<1>. QED  BY <1>1, <1>2, <1>3 DEF WrefsIn, ContainersIn

(* Another kind of object dies.                                             *)
LEMMA OtherDies ==
    ASSUME NEW h, NEW rk, Linked(h, rk), NEW r \in AliveIn(h), NEW k, Remains(h, r, k),
           r \notin WrefsIn(h), r \notin ContainersIn(h), \A y \in Obj : SameLinks(h[y], k[y])
    PROVE  Linked(k, rk)
<1>1. WrefsIn(k) = WrefsIn(h) /\ ContainersIn(k) = ContainersIn(h)
    BY RemainsAlive
<1>2. \A y \in Obj : /\ k[y].wref_first = h[y].wref_first /\ k[y].target = h[y].target
                     /\ k[y].next = h[y].next /\ k[y].prev = h[y].prev
    BY DEF SameLinks
<1>3. WrefsIn(h) \subseteq Obj /\ ContainersIn(h) \subseteq Obj
    BY DEF WrefsIn, ContainersIn, AliveIn
<1>4. ASSUME NEW w \in WrefsIn(k) PROVE WrefLinked(k, rk, w)
    <2>1. WrefLinked(h, rk, w)
        BY <1>1 DEF Linked
    <2>. QED  BY <1>1, <1>2, <1>3, <2>1 DEF WrefLinked
<1>5. ASSUME NEW o \in ContainersIn(k) PROVE FirstLinked(k, o)
    <2>1. FirstLinked(h, o)
        BY <1>1 DEF Linked
    <2>. QED  BY <1>1, <1>2, <1>3, <2>1 DEF FirstLinked
<1>. QED  BY <1>4, <1>5 DEF Linked

(* A container dies: its weak references forget it.                         *)
LEMMA ContainerDies ==
    ASSUME NEW h, NEW rk, Linked(h, rk), NEW r \in ContainersIn(h), NEW k, Remains(h, r, k),
           \A y \in Obj : /\ k[y].wref_first = h[y].wref_first
                          /\ k[y].next = h[y].next /\ k[y].prev = h[y].prev,
           \A w \in WrefsIn(h) : k[w].target = IF h[w].target = r THEN None ELSE h[w].target
    PROVE  Linked(k, rk)
<1>1. WrefsIn(k) = WrefsIn(h) /\ ContainersIn(k) = ContainersIn(h) \ {r}
    <2>1. r \in AliveIn(h) /\ r \notin WrefsIn(h)
        BY DEF ContainersIn, WrefsIn, Containers
    <2>2. WrefsIn(k) = WrefsIn(h) \ {r} /\ ContainersIn(k) = ContainersIn(h) \ {r}
        BY <2>1, RemainsAlive
    <2>. QED  BY <2>1, <2>2
<1>2. WrefsIn(h) \subseteq Obj /\ ContainersIn(h) \subseteq Obj
    BY DEF WrefsIn, ContainersIn, AliveIn
<1>3. ASSUME NEW w \in WrefsIn(k) PROVE WrefLinked(k, rk, w)
    <2>1. WrefLinked(h, rk, w)
        BY <1>1 DEF Linked
    <2>. QED  BY <1>1, <1>2, <2>1 DEF WrefLinked
<1>4. ASSUME NEW o \in ContainersIn(k) PROVE FirstLinked(k, o)
    <2>1. FirstLinked(h, o) /\ o # r
        BY <1>1 DEF Linked
    <2>. QED  BY <1>1, <1>2, <2>1 DEF FirstLinked
<1>. QED  BY <1>3, <1>4 DEF Linked

(* A weak reference dies: its neighbours, or its target, skip it.           *)
LEMMA WrefDies ==
    ASSUME NEW K \in Nat, NEW rk \in [Obj -> 0..K], NEW h, Linked(h, rk), NEW r \in WrefsIn(h),
           NEW k, Remains(h, r, k), NEW p, NEW n, NEW t,
           p = h[r].prev, n = h[r].next, t = h[r].target,
           \A y \in Obj : /\ k[y].target = h[y].target
                          /\ k[y].next = IF y = p THEN n ELSE h[y].next
                          /\ k[y].prev = IF y = n THEN p ELSE h[y].prev
                          /\ k[y].wref_first = IF p = None /\ y = t THEN n ELSE h[y].wref_first
    PROVE  Linked(k, rk)
<1>1. WrefsIn(k) = WrefsIn(h) \ {r} /\ ContainersIn(k) = ContainersIn(h)
    <2>1. r \in AliveIn(h) /\ r \notin ContainersIn(h)
        BY DEF ContainersIn, WrefsIn, Containers
    <2>2. WrefsIn(k) = WrefsIn(h) \ {r} /\ ContainersIn(k) = ContainersIn(h) \ {r}
        BY <2>1, RemainsAlive
    <2>. QED  BY <2>1, <2>2
<1>2. /\ WrefsIn(h) \subseteq Obj /\ ContainersIn(h) \subseteq Obj /\ None \notin Obj
      /\ \A w \in WrefsIn(h) : rk[w] \in Nat
    BY HeapAssumption DEF WrefsIn, ContainersIn, AliveIn
<1>3. WrefLinked(h, rk, r)
    BY DEF Linked
<1>4. /\ t # None => t \in ContainersIn(h) /\ (p = None => h[t].wref_first = r)
      /\ n # None => n \in WrefsIn(h) /\ h[n].prev = r /\ h[n].target = t /\ rk[n] < rk[r] /\ n # r
      /\ p # None => p \in WrefsIn(h) /\ h[p].next = r
    BY <1>2, <1>3 DEF WrefLinked
<1>5. p # None => h[p].target = t /\ rk[r] < rk[p] /\ p # r
    <2>1. p # None => WrefLinked(h, rk, p)
        BY <1>4 DEF Linked
    <2>. QED  BY <1>2, <1>4, <2>1 DEF WrefLinked
<1>6. ASSUME NEW w \in WrefsIn(k) PROVE WrefLinked(k, rk, w)
    <2>1. WrefLinked(h, rk, w) /\ w \in WrefsIn(h) /\ w # r /\ w \in Obj
        BY <1>1, <1>2 DEF Linked
    <2>2. k[w].target # None =>
              /\ k[w].target \in ContainersIn(k)
              /\ k[w].prev = None => k[k[w].target].wref_first = w
        <3>. SUFFICES ASSUME h[w].target # None
             PROVE  /\ h[w].target \in ContainersIn(h)
                    /\ k[w].prev = None => k[h[w].target].wref_first = w
            BY <1>1, <2>1
        <3>1. h[w].target \in ContainersIn(h) /\ (h[w].prev = None => h[h[w].target].wref_first = w)
            BY <2>1 DEF WrefLinked
        <3>2. CASE w = n
            <4>1. h[w].target = t /\ k[w].prev = p
                BY <1>2, <1>4, <2>1, <3>2
            <4>2. p = None => k[t].wref_first = n
                BY <1>2, <1>4, <3>1, <4>1
            <4>. QED  BY <3>1, <3>2, <4>1, <4>2
        <3>3. CASE w # n
            <4>1. k[w].prev = h[w].prev
                BY <2>1, <3>3
            <4>2. h[w].prev = None => ~ (p = None /\ h[w].target = t)
                BY <1>4, <2>1, <3>1
            <4>3. h[w].prev = None => k[h[w].target].wref_first = w
                BY <1>2, <3>1, <4>2
            <4>. QED  BY <3>1, <4>1, <4>3
        <3>. QED  BY <3>2, <3>3
    <2>3. k[w].next # None =>
              /\ k[w].next \in WrefsIn(k) /\ k[k[w].next].prev = w
              /\ k[k[w].next].target = k[w].target /\ rk[k[w].next] < rk[w]
        <3>1. CASE w = p
            <4>1. k[w].next = n /\ k[w].target = t
                BY <1>2, <1>5, <2>1, <3>1
            <4>2. n # None => n \in WrefsIn(k) /\ k[n].prev = p /\ k[n].target = t
                BY <1>1, <1>2, <1>4
            <4>3. n # None => rk[n] < rk[p]
                BY <1>2, <1>4, <1>5, <2>1, <3>1
            <4>. QED  BY <3>1, <4>1, <4>2, <4>3
        <3>2. CASE w # p
            <4>1. PICK m : m = h[w].next
                OBVIOUS
            <4>2. k[w].next = m
                BY <2>1, <3>2, <4>1
            <4>. SUFFICES ASSUME m # None
                 PROVE  m \in WrefsIn(k) /\ k[m].prev = w /\ k[m].target = k[w].target /\ rk[m] < rk[w]
                BY <4>2
            <4>3. m \in WrefsIn(h) /\ h[m].prev = w /\ h[m].target = h[w].target /\ rk[m] < rk[w]
                BY <2>1, <4>1 DEF WrefLinked
            <4>4. m # r /\ m # n
                BY <1>4, <2>1, <3>2, <4>3
            <4>. QED  BY <1>1, <1>2, <2>1, <4>3, <4>4
        <3>. QED  BY <3>1, <3>2
    <2>4. k[w].prev # None => k[w].prev \in WrefsIn(k) /\ k[k[w].prev].next = w
        <3>1. CASE w = n
            <4>1. k[w].prev = p
                BY <2>1, <3>1
            <4>2. p # None => p \in WrefsIn(k) /\ k[p].next = n
                BY <1>1, <1>2, <1>4, <1>5
            <4>. QED  BY <3>1, <4>1, <4>2
        <3>2. CASE w # n
            <4>1. PICK q : q = h[w].prev
                OBVIOUS
            <4>2. k[w].prev = q
                BY <2>1, <3>2, <4>1
            <4>. SUFFICES ASSUME q # None PROVE q \in WrefsIn(k) /\ k[q].next = w
                BY <4>2
            <4>3. q \in WrefsIn(h) /\ h[q].next = w
                BY <2>1, <4>1 DEF WrefLinked
            <4>4. q # r /\ q # p
                BY <1>2, <1>4, <2>1, <3>2, <4>3
            <4>. QED  BY <1>1, <1>2, <4>3, <4>4
        <3>. QED  BY <3>1, <3>2
    <2>. QED  BY <2>2, <2>3, <2>4 DEF WrefLinked
<1>7. ASSUME NEW o \in ContainersIn(k) PROVE FirstLinked(k, o)
    <2>1. FirstLinked(h, o) /\ o \in Obj
        BY <1>1, <1>2 DEF Linked
    <2>2. CASE p = None /\ o = t
        <3>1. k[o].wref_first = n
            BY <2>1, <2>2
        <3>2. n # None => n \in WrefsIn(k) /\ k[n].target = o /\ k[n].prev = None
            BY <1>1, <1>2, <1>4, <2>2
        <3>. QED  BY <3>1, <3>2 DEF FirstLinked
    <2>3. CASE ~ (p = None /\ o = t)
        <3>1. PICK f : f = h[o].wref_first
            OBVIOUS
        <3>2. k[o].wref_first = f
            BY <2>1, <2>3, <3>1
        <3>. SUFFICES ASSUME f # None PROVE f \in WrefsIn(k) /\ k[f].target = o /\ k[f].prev = None
            BY <3>2 DEF FirstLinked
        <3>3. f \in WrefsIn(h) /\ h[f].target = o /\ h[f].prev = None
            BY <2>1, <3>1 DEF FirstLinked
        <3>4. f # r /\ f # n
            BY <1>2, <1>4, <2>3, <3>3
        <3>. QED  BY <1>1, <1>2, <3>3, <3>4
    <2>. QED  BY <2>2, <2>3
<1>. QED  BY <1>6, <1>7 DEF Linked

LEMMA LastDropped ==
    ASSUME NEW M \in Nat, NEW h, HeapOK(h, M), NEW r \in AliveIn(h), h[r].nrefs = 1,
           NEW j, j = Counted(h, r, -1)
    PROVE  Remains(h, r, j) /\ \A y \in Obj : SameLinks(h[y], j[y])
<1>1. h \in [Obj -> Cell \union {Free}] /\ r \in Obj /\ h[r] \in Cell /\ r # Nil
    BY HeapAssumption DEF HeapOK, Fits, AliveIn
<1>. DEFINE d == [h[r] EXCEPT !.nrefs = 0]
<1>2. j = [h EXCEPT ![r] = d]
    <2>1. h[r].nrefs + -1 = 0
        OBVIOUS
    <2>. QED  BY <1>1, <2>1 DEF Counted
<1>3. /\ d \in Cell /\ d.nrefs = 0 /\ d.kind = h[r].kind /\ d.items = h[r].items /\ d.text = h[r].text
      /\ SameLinks(h[r], d)
    BY <1>1 DEF Cell, SameLinks
<1>. HIDE DEF d
<1>4. j[r] = d /\ d # Free /\ h[r] # Free /\ j \in [Obj -> Cell \union {Free}] /\ \A y \in Obj : y # r => j[y] = h[y]
    BY <1>1, <1>2, <1>3, HeapAssumption
<1>5. \A y \in Obj : SameLinks(h[y], h[y])
    BY DEF SameLinks
<1>6. Remains(h, r, j)
    BY <1>1, <1>3, <1>4 DEF Remains
<1>. QED  BY <1>3, <1>4, <1>5, <1>6

Died(h, r, k) ==
    /\ Remains(h, r, k) /\ WellLinked(k)
    /\ \A w \in WrefsIn(h) : \/ k[w].target = h[w].target
                             \/ h[w].target = r /\ k[w].target = None

LEMMA RemainsThen ==
    ASSUME NEW h, NEW r, NEW j, Remains(h, r, j), NEW k, Relinked(j, k), r \in Obj
    PROVE  Remains(h, r, k)
BY DEF Remains, Relinked

LEMMA Invalidates ==
    ASSUME NEW M \in Nat, NEW h, HeapOK(h, M), NEW r \in ContainersIn(h),
           NEW j, Remains(h, r, j), \A y \in Obj : SameLinks(h[y], j[y]),
           NEW k, k = Invalidated(j, r)
    PROVE  Died(h, r, k)
<1>1. PICK K \in Nat : \E rk \in [Obj -> 0..K] : Linked(h, rk)
    BY DEF HeapOK, WellLinked
<1>2. PICK rk \in [Obj -> 0..K] : Linked(h, rk)
    BY <1>1
<1>3. /\ WrefsIn(h) \subseteq Obj /\ r \in Obj /\ r \in AliveIn(h) /\ r \notin WrefsIn(h)
    BY DEF WrefsIn, ContainersIn, AliveIn, Containers
<1>4. \A y \in Obj : /\ j[y].wref_first = h[y].wref_first /\ j[y].target = h[y].target
                     /\ j[y].next = h[y].next /\ j[y].prev = h[y].prev
    BY DEF SameLinks
<1>5. WeakRefsTo(j, r) = {w \in WrefsIn(h) : h[w].target = r}
    BY <1>2, <1>3, <1>4, WalkIs
<1>6. \A y \in Obj : k[y] = IF y \in WrefsIn(h) /\ h[y].target = r THEN [j[y] EXCEPT !.target = None] ELSE j[y]
    BY <1>5 DEF Invalidated
<1>7. j \in [Obj -> Cell \union {Free}] /\ \A w \in WrefsIn(h) : j[w] \in Cell
    <2>1. \A w \in WrefsIn(h) : h[w] # Free
        BY DEF WrefsIn, AliveIn
    <2>. QED  BY <1>3, <2>1 DEF Remains
<1>8. ASSUME NEW y \in Obj
      PROVE  /\ k[y] \in Cell \union {Free} /\ (k[y] = Free <=> j[y] = Free)
             /\ k[y].kind = j[y].kind /\ k[y].nrefs = j[y].nrefs
             /\ k[y].items = j[y].items /\ k[y].text = j[y].text
             /\ k[y].wref_first = j[y].wref_first /\ k[y].next = j[y].next /\ k[y].prev = j[y].prev
             /\ k[y].target = IF y \in WrefsIn(h) /\ h[y].target = r THEN None ELSE j[y].target
    <2>1. CASE y \in WrefsIn(h) /\ h[y].target = r
        <3>1. j[y] \in Cell /\ k[y] = [j[y] EXCEPT !.target = None]
            BY <1>6, <1>7, <2>1
        <3>2. k[y] \in Cell
            BY <3>1 DEF Cell
        <3>3. /\ k[y].kind = j[y].kind /\ k[y].nrefs = j[y].nrefs
              /\ k[y].items = j[y].items /\ k[y].text = j[y].text
              /\ k[y].wref_first = j[y].wref_first /\ k[y].next = j[y].next /\ k[y].prev = j[y].prev
              /\ k[y].target = None
            BY <3>1 DEF Cell
        <3>. QED  BY <2>1, <3>1, <3>2, <3>3, HeapAssumption
    <2>2. CASE ~ (y \in WrefsIn(h) /\ h[y].target = r)
        BY <1>6, <1>7, <2>2
    <2>. QED  BY <2>1, <2>2
<1>9. Relinked(j, k)
    <2>1. k \in [Obj -> Cell \union {Free}]
        BY <1>8 DEF Invalidated
    <2>. QED  BY <1>8, <2>1 DEF Relinked
<1>10. Remains(h, r, k)
    BY <1>3, <1>9, RemainsThen
<1>11. \A w \in WrefsIn(h) : k[w].target = IF h[w].target = r THEN None ELSE h[w].target
    BY <1>3, <1>4, <1>8
<1>12. \A y \in Obj : /\ k[y].wref_first = h[y].wref_first
                      /\ k[y].next = h[y].next /\ k[y].prev = h[y].prev
    BY <1>4, <1>8
<1>13. Linked(k, rk)
    BY <1>2, <1>10, <1>11, <1>12, ContainerDies
<1>14. WellLinked(k)
    BY <1>13 DEF WellLinked
<1>. QED  BY <1>10, <1>11, <1>14 DEF Died

LEMMA Unchains ==
    ASSUME NEW M \in Nat, NEW h, HeapOK(h, M), NEW r \in WrefsIn(h),
           NEW j, Remains(h, r, j), \A y \in Obj : SameLinks(h[y], j[y]),
           NEW k, k = Unchained(j, r)
    PROVE  Died(h, r, k)
<1>1. PICK K \in Nat : \E rk \in [Obj -> 0..K] : Linked(h, rk)
    BY DEF HeapOK, WellLinked
<1>2. PICK rk \in [Obj -> 0..K] : Linked(h, rk)
    BY <1>1
<1>3. \A y \in Obj : /\ j[y].wref_first = h[y].wref_first /\ j[y].target = h[y].target
                     /\ j[y].next = h[y].next /\ j[y].prev = h[y].prev
    BY DEF SameLinks
<1>4. PICK p, n, t : p = h[r].prev /\ n = h[r].next /\ t = h[r].target
    OBVIOUS
<1>5. WrefLinked(h, rk, r)
    BY <1>2 DEF Linked
<1>6. /\ r \in Obj /\ r \in AliveIn(h) /\ None \notin Obj
      /\ p \in WrefsIn(h) \union {None} /\ n \in WrefsIn(h) \union {None}
      /\ t \in ContainersIn(h) \union {None}
    BY <1>4, <1>5, HeapAssumption DEF WrefLinked, WrefsIn, AliveIn
<1>7. \A y \in AliveIn(h) : y \in Obj /\ h[y] # Free /\ j[y] # Free
    BY DEF AliveIn, Remains
<1>8. /\ p \in Obj \union {None} /\ n \in Obj \union {None} /\ t \in Obj \union {None}
      /\ p # None => j[p] # Free
      /\ n # None => n \in Obj /\ j[n] # Free
      /\ t # None => j[t] # Free
    BY <1>6, <1>7 DEF WrefsIn, ContainersIn
<1>9. j \in [Obj -> Cell \union {Free}]
    BY DEF Remains
<1>10. PICK f : f = IF p # None THEN [j EXCEPT ![p].next = n]
                    ELSE IF t # None THEN [j EXCEPT ![t].wref_first = n] ELSE j
    OBVIOUS
<1>11. k = IF n # None THEN [f EXCEPT ![n].prev = p] ELSE f
    <2>1. j[r].prev = p /\ j[r].next = n /\ j[r].target = t
        BY <1>3, <1>4, <1>6
    <2>. QED  BY <1>10, <2>1 DEF Unchained
<1>12. /\ Relinked(j, f)
       /\ \A y \in Obj : /\ f[y].target = j[y].target /\ f[y].prev = j[y].prev
                         /\ f[y].next = IF y = p THEN n ELSE j[y].next
                         /\ f[y].wref_first = IF p = None /\ y = t THEN n ELSE j[y].wref_first
    <2>1. CASE p # None
        <3>1. NextSet(j, f, p, n)
            BY <1>8, <1>9, <1>10, <2>1, Links
        <3>. QED  BY <2>1, <3>1 DEF NextSet
    <2>2. CASE p = None /\ t # None
        <3>1. FirstSet(j, f, t, n)
            BY <1>8, <1>9, <1>10, <2>2, Links
        <3>. QED  BY <1>6, <2>2, <3>1 DEF FirstSet
    <2>3. CASE p = None /\ t = None
        <3>1. f = j
            BY <1>10, <2>3
        <3>. QED  BY <1>6, <1>9, <2>3, <3>1 DEF Relinked
    <2>. QED  BY <2>1, <2>2, <2>3
<1>13. /\ Relinked(f, k)
       /\ \A y \in Obj : /\ k[y].target = f[y].target /\ k[y].next = f[y].next
                         /\ k[y].prev = IF y = n THEN p ELSE f[y].prev
                         /\ k[y].wref_first = f[y].wref_first
    <2>1. f \in [Obj -> Cell \union {Free}]
        BY <1>12 DEF Relinked
    <2>2. CASE n # None
        <3>1. f[n] # Free
            BY <1>8, <1>12, <2>2 DEF Relinked
        <3>2. n \in Obj /\ p \in Obj \union {None}
            BY <1>8, <2>2
        <3>3. PrevSet(f, [f EXCEPT ![n].prev = p], n, p)
            BY <2>1, <3>1, <3>2, Links
        <3>4. PrevSet(f, k, n, p)
            BY <1>11, <2>2, <3>3, Zenon
        <3>. QED  BY <3>4 DEF PrevSet
    <2>3. CASE n = None
        <3>1. k = f
            BY <1>11, <2>3
        <3>. QED  BY <1>6, <2>1, <2>3, <3>1 DEF Relinked
    <2>. QED  BY <2>2, <2>3
<1>14. Remains(h, r, k)
    <2>1. Remains(h, r, f)
        BY <1>6, <1>12, RemainsThen
    <2>. QED  BY <1>6, <1>13, <2>1, RemainsThen
<1>15. \A y \in Obj : /\ k[y].target = h[y].target
                      /\ k[y].next = IF y = p THEN n ELSE h[y].next
                      /\ k[y].prev = IF y = n THEN p ELSE h[y].prev
                      /\ k[y].wref_first = IF p = None /\ y = t THEN n ELSE h[y].wref_first
    BY <1>3, <1>12, <1>13
<1>16. Linked(k, rk)
    BY <1>2, <1>4, <1>14, <1>15, WrefDies
<1>17. WellLinked(k)
    BY <1>16 DEF WellLinked
<1>18. \A w \in WrefsIn(h) : k[w].target = h[w].target
    BY <1>15 DEF WrefsIn, AliveIn
<1>. QED  BY <1>14, <1>17, <1>18 DEF Died

LEMMA DyingIs ==
    ASSUME NEW M \in Nat, NEW h, HeapOK(h, M), NEW r \in AliveIn(h), h[r].nrefs = 1,
           NEW k, k = Dying(Counted(h, r, -1), r)
    PROVE  Died(h, r, k)
<1>1. PICK j : j = Counted(h, r, -1)
    OBVIOUS
<1>2. Remains(h, r, j) /\ \A y \in Obj : SameLinks(h[y], j[y])
    BY <1>1, LastDropped
<1>3. r \in Obj /\ h[r] \in Cell /\ h[r].kind \in {"list", "dict", "str", "wref"} /\ j[r].kind = h[r].kind
    BY <1>2 DEF HeapOK, Fits, AliveIn, Cell, Remains
<1>4. k = CASE h[r].kind \in {"list", "dict"} -> Invalidated(j, r)
            [] h[r].kind = "wref" -> Unchained(j, r)
            [] h[r].kind = "str" -> j
    BY <1>1, <1>3 DEF Dying, Containers
<1>5. CASE h[r].kind \in {"list", "dict"}
    <2>1. k = Invalidated(j, r)
        BY <1>4, <1>5
    <2>2. r \in ContainersIn(h)
        BY <1>5 DEF ContainersIn, Containers
    <2>. QED  BY <1>2, <2>1, <2>2, Invalidates
<1>6. CASE h[r].kind = "wref"
    <2>1. k = Unchained(j, r)
        BY <1>4, <1>6
    <2>2. r \in WrefsIn(h)
        BY <1>6 DEF WrefsIn
    <2>. QED  BY <1>2, <2>1, <2>2, Unchains
<1>7. CASE h[r].kind = "str"
    <2>1. k = j
        BY <1>4, <1>7
    <2>2. r \notin WrefsIn(h) /\ r \notin ContainersIn(h)
        BY <1>7 DEF WrefsIn, ContainersIn, Containers
    <2>3. PICK K \in Nat : \E rk \in [Obj -> 0..K] : Linked(h, rk)
        BY DEF HeapOK, WellLinked
    <2>4. PICK rk \in [Obj -> 0..K] : Linked(h, rk)
        BY <2>3
    <2>5. Linked(j, rk)
        BY <1>2, <2>2, <2>4, OtherDies
    <2>6. WellLinked(j)
        BY <2>5 DEF WellLinked
    <2>7. \A w \in WrefsIn(h) : j[w].target = h[w].target
        BY <1>2 DEF WrefsIn, AliveIn, SameLinks
    <2>. QED  BY <1>2, <2>1, <2>6, <2>7 DEF Died
<1>. QED  BY <1>3, <1>5, <1>6, <1>7

(* A dead object's items no longer count as references.                     *)
LEMMA DiedCounts ==
    ASSUME NEW M \in Nat, NEW h, HeapOK(h, M), NEW r \in AliveIn(h), h[r].nrefs = 1,
           NEW k, Died(h, r, k)
    PROVE  /\ HeapOK(k, M)
           /\ \A o \in Obj : /\ Nrefs(h, o) = Nrefs(k, o) + Hits(r, o)
                             /\ InItems(h, M, o) = InItems(k, M, o) + Count(h[r].items, o)
<1>1. Remains(h, r, k) /\ r \in Obj /\ h[r] # Free /\ k[r] # Free
    BY DEF Died, AliveIn, Remains
<1>2. Fits(h, M) /\ Fits(k, M)
    BY <1>1 DEF HeapOK, Fits, Remains
<1>3. AliveIn(k) = AliveIn(h) \ {r}
    BY <1>1, RemainsAlive
<1>4. SameItems(h, k, Obj \ {r})
    BY <1>1, <1>3 DEF SameItems, Remains
<1>5. ASSUME NEW o \in Obj
      PROVE  /\ Nrefs(h, o) = Nrefs(k, o) + Hits(r, o)
             /\ InItems(h, M, o) = InItems(k, M, o) + Count(h[r].items, o)
    <2>1. Nrefs(h, o) = Nrefs(k, o) + Hits(r, o)
        <3>1. CASE o = r
            BY <1>1, <3>1 DEF Nrefs, Hits, Remains
        <3>2. CASE o # r
            <4>1. Nrefs(k, o) = Nrefs(h, o) /\ Hits(r, o) = 0
                BY <1>1, <3>2 DEF Nrefs, Remains, Hits
            <4>2. Nrefs(h, o) \in Nat
                BY NrefsNat
            <4>. QED  BY <4>1, <4>2
        <3>. QED  BY <3>1, <3>2
    <2>2. /\ InItems(k, M, o) + InCell(h, r, o) = InItems(h, M, o) + InCell(k, r, o)
          /\ InItems(h, M, o) \in Nat /\ InItems(k, M, o) \in Nat /\ InCell(h, r, o) \in Nat
        BY <1>1, <1>2, <1>4, ItemsAt
    <2>3. InCell(h, r, o) = Count(h[r].items, o) /\ InCell(k, r, o) = 0
        BY <1>3 DEF InCell
    <2>. QED  BY <2>1, <2>2, <2>3
<1>. QED  BY <1>2, <1>5 DEF HeapOK, Died
=============================================================================
