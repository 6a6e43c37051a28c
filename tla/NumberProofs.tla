---------------------------- MODULE NumberProofs ----------------------------
(***************************************************************************)
(* Proofs about Number: whatever the base, the length of a word and the    *)
(* numbers, references are counted exactly and no operation writes into a  *)
(* number that a variable refers to.  What the words come to be is left    *)
(* open: the proofs hold for any operation that writes where mkuniq says.  *)
(***************************************************************************)
EXTENDS Number, FiniteSetTheorems, SequenceTheorems, TLAPS

If(b) == IF b THEN 1 ELSE 0

(* How many references the heap counts to what is at p.                     *)
Cnt(h, p) == IF p \in DOMAIN h THEN h[p].nrefs ELSE 0

Sound(h) ==
    /\ IsFiniteSet(DOMAIN h) /\ h = [p \in DOMAIN h |-> h[p]]
    /\ \A p \in DOMAIN h :
          /\ p \in Nat \ {0} /\ h[p].nrefs \in Nat \ {0}
          /\ h[p] = [nrefs |-> h[p].nrefs, num |-> h[p].num]

LEMMA Counts ==
    ASSUME NEW h, Sound(h)
    PROVE  /\ \A p : Cnt(h, p) \in Nat
           /\ \A p : p \in DOMAIN h <=> Cnt(h, p) > 0
           /\ \A p \in DOMAIN h : p \in Nat \ {0}
    BY DEF Sound, Cnt

-----------------------------------------------------------------------------
(* The four ways a heap changes.                                            *)
LEMMA RefCounts ==
    ASSUME NEW h, NEW a \in DOMAIN h, Sound(h)
    PROVE  /\ Sound(Ref(h, a)) /\ DOMAIN Ref(h, a) = DOMAIN h
           /\ \A p : Cnt(Ref(h, a), p) = Cnt(h, p) + If(p = a)
           /\ \A p \in DOMAIN h : Ref(h, a)[p].num = h[p].num
<1>. DEFINE r == Ref(h, a)
<1>1. h[a] = [nrefs |-> h[a].nrefs, num |-> h[a].num] /\ h[a].nrefs \in Nat \ {0}
    BY DEF Sound
<1>2. PICK c, n : h[a] = [nrefs |-> c, num |-> n] /\ c \in Nat \ {0}
    BY <1>1
<1>3. DOMAIN r = DOMAIN h /\ r = [p \in DOMAIN h |-> r[p]]
    BY DEF Ref
<1>4. r[a] = [nrefs |-> c + 1, num |-> n]
    BY <1>2 DEF Ref
<1>5. \A p \in DOMAIN h \ {a} : r[p] = h[p]
    BY DEF Ref
<1>. HIDE DEF r
<1>6. Sound(r)
    BY <1>2, <1>3, <1>4, <1>5 DEF Sound
<1>7. \A p : Cnt(r, p) = Cnt(h, p) + If(p = a)
    BY <1>2, <1>3, <1>4, <1>5 DEF Cnt, If, Sound
<1>8. \A p \in DOMAIN h : r[p].num = h[p].num
    BY <1>2, <1>4, <1>5
<1>. QED  BY <1>3, <1>6, <1>7, <1>8 DEF r

LEMMA UnrefCounts ==
    ASSUME NEW h, NEW a \in DOMAIN h, Sound(h)
    PROVE  /\ Sound(Unref(h, a))
           /\ \A p : Cnt(Unref(h, a), p) = Cnt(h, p) - If(p = a)
           /\ \A p \in DOMAIN Unref(h, a) :
                 p \in DOMAIN h /\ Unref(h, a)[p].num = h[p].num
<1>. DEFINE r == Unref(h, a)
<1>1. h[a] = [nrefs |-> h[a].nrefs, num |-> h[a].num] /\ h[a].nrefs \in Nat \ {0}
    BY DEF Sound
<1>2. PICK c, n : h[a] = [nrefs |-> c, num |-> n] /\ c \in Nat \ {0}
    BY <1>1
<1>3. CASE c > 1
    <2>1. r = [h EXCEPT ![a].nrefs = @ - 1]
        BY <1>2, <1>3 DEF Unref
    <2>2. DOMAIN r = DOMAIN h /\ r = [p \in DOMAIN h |-> r[p]]
        BY <2>1
    <2>3. r[a] = [nrefs |-> c - 1, num |-> n]
        BY <1>2, <2>1
    <2>4. \A p \in DOMAIN h \ {a} : r[p] = h[p]
        BY <2>1
    <2>. HIDE DEF r
    <2>5. Sound(r)
        BY <1>2, <1>3, <2>2, <2>3, <2>4 DEF Sound
    <2>6. \A p : Cnt(r, p) = Cnt(h, p) - If(p = a)
        BY <1>2, <2>2, <2>3, <2>4 DEF Cnt, If, Sound
    <2>7. \A p \in DOMAIN r : p \in DOMAIN h /\ r[p].num = h[p].num
        BY <1>2, <2>2, <2>3, <2>4
    <2>. QED  BY <2>5, <2>6, <2>7 DEF r
<1>4. CASE c = 1
    <2>1. r = [p \in DOMAIN h \ {a} |-> h[p]]
        BY <1>2, <1>4 DEF Unref
    <2>2. DOMAIN r = DOMAIN h \ {a} /\ \A p \in DOMAIN h \ {a} : r[p] = h[p]
        BY <2>1
    <2>3. r = [p \in DOMAIN r |-> r[p]]
        BY <2>1
    <2>4. IsFiniteSet(DOMAIN h \ {a})
        BY FS_RemoveElement DEF Sound
    <2>. HIDE DEF r
    <2>5. Sound(r)
        BY <2>2, <2>3, <2>4 DEF Sound
    <2>6. \A p : Cnt(r, p) = Cnt(h, p) - If(p = a)
        BY <1>2, <1>4, <2>2 DEF Cnt, If, Sound
    <2>7. \A p \in DOMAIN r : p \in DOMAIN h /\ r[p].num = h[p].num
        BY <2>2
    <2>. QED  BY <2>5, <2>6, <2>7 DEF r
<1>. QED  BY <1>2, <1>3, <1>4

(* There is an address that is not in use among as many as are, and one.    *)
LEMMA FreeAddress ==
    ASSUME NEW S, IsFiniteSet(S)
    PROVE  \E i \in 1..(Cardinality(S) + 1) : i \notin S
<1>. DEFINE n == Cardinality(S)   I == 1..(n + 1)
<1>1. n \in Nat
    BY FS_CardinalityType
<1>2. SUFFICES ASSUME I \subseteq S PROVE FALSE
    BY Zenon
<1>3. Cardinality(I) = n + 1
    <2>1. 1 \in Int /\ n + 1 \in Int
        BY <1>1
    <2>2. Cardinality(1..(n + 1)) = IF 1 > n + 1 THEN 0 ELSE (n + 1) - 1 + 1
        BY <2>1, FS_Interval
    <2>. QED  BY <1>1, <2>2
<1>4. Cardinality(I) <= n
    BY <1>2, FS_Subset
<1>. QED  BY <1>1, <1>3, <1>4

LEMMA AllocateCounts ==
    ASSUME NEW h, NEW n, Sound(h)
    PROVE  LET w == allocate(h, n) IN
           /\ Sound(w.heap) /\ w = At(w.heap, w.at)
           /\ w.at \in Nat \ {0} /\ w.at \notin DOMAIN h
           /\ \A p : Cnt(w.heap, p) = Cnt(h, p) + If(p = w.at)
           /\ \A p \in DOMAIN h : w.heap[p].num = h[p].num
<1>. DEFINE a == CHOOSE i \in 1..(Cardinality(DOMAIN h) + 1) : i \notin DOMAIN h
            r == [x \in DOMAIN h \union {a} |->
                     IF x = a THEN [nrefs |-> 1, num |-> n] ELSE h[x]]
<1>1. a \in 1..(Cardinality(DOMAIN h) + 1) /\ a \notin DOMAIN h
    BY FreeAddress DEF Sound
<1>2. a \in Nat \ {0}
    BY <1>1, FS_CardinalityType DEF Sound
<1>3. allocate(h, n) = At(r, a)
    BY DEF allocate
<1>4. IsFiniteSet(DOMAIN h \union {a})
    BY FS_AddElement DEF Sound
<1>. HIDE DEF a
<1>5. /\ DOMAIN r = DOMAIN h \union {a} /\ r = [p \in DOMAIN r |-> r[p]]
      /\ r[a] = [nrefs |-> 1, num |-> n] /\ \A p \in DOMAIN h : r[p] = h[p]
    BY <1>1
<1>. HIDE DEF r
<1>6. Sound(r)
    BY <1>2, <1>4, <1>5 DEF Sound
<1>7. \A p : Cnt(r, p) = Cnt(h, p) + If(p = a)
    BY <1>1, <1>5 DEF Cnt, If, Sound
<1>8. At(r, a).heap = r /\ At(r, a).at = a
    BY DEF At
<1>. QED  BY <1>1, <1>2, <1>3, <1>5, <1>6, <1>7, <1>8

LEMMA PutCounts ==
    ASSUME NEW h, NEW a \in DOMAIN h, NEW n, Sound(h)
    PROVE  LET w == Put(At(h, a), n) IN
           /\ Sound(w.heap) /\ w = At(w.heap, a) /\ w.at = a
           /\ \A p : Cnt(w.heap, p) = Cnt(h, p)
           /\ \A p \in DOMAIN h \ {a} : w.heap[p].num = h[p].num
<1>1. PICK c, m : h[a] = [nrefs |-> c, num |-> m] /\ c \in Nat \ {0}
    BY DEF Sound
<1>. DEFINE r == [h EXCEPT ![a] = [nrefs |-> c, num |-> n]]
<1>2. Put(At(h, a), n) = At(r, a)
    <2>1. [h[a] EXCEPT !.num = n] = [nrefs |-> c, num |-> n]
        BY <1>1
    <2>2. [h EXCEPT ![a].num = n] = [h EXCEPT ![a] = [h[a] EXCEPT !.num = n]]
        OBVIOUS
    <2>3. [h EXCEPT ![a].num = n] = r
        BY <2>1, <2>2
    <2>4. Put(At(h, a), n) = [At(h, a) EXCEPT !.heap = [h EXCEPT ![a].num = n]]
        BY DEF Put, At
    <2>. QED  BY <2>3, <2>4 DEF At
<1>3. /\ DOMAIN r = DOMAIN h /\ r = [p \in DOMAIN r |-> r[p]]
      /\ r[a] = [nrefs |-> c, num |-> n] /\ \A p \in DOMAIN h \ {a} : r[p] = h[p]
    OBVIOUS
<1>. HIDE DEF r
<1>4. Sound(r)
    BY <1>1, <1>3 DEF Sound
<1>5. \A p : Cnt(r, p) = Cnt(h, p)
    BY <1>1, <1>3 DEF Cnt
<1>6. At(r, a).heap = r /\ At(r, a).at = a
    BY DEF At
<1>. QED  BY <1>2, <1>3, <1>4, <1>5, <1>6

-----------------------------------------------------------------------------
(* A reference to something alive.                                          *)
Names(w) == w = At(w.heap, w.at) /\ Sound(w.heap) /\ w.at \in DOMAIN w.heap

(* The reference u has been given up for w: what else is counted is counted
   as before, and what anything else refers to is as it was.                *)
Moves(u, w) ==
    /\ Names(w)
    /\ w.at \in DOMAIN u.heap => w.at = u.at
    /\ \A p : Cnt(w.heap, p) = Cnt(u.heap, p) - If(p = u.at) + If(p = w.at)
    /\ \A p \in DOMAIN u.heap \intersect DOMAIN w.heap :
          Cnt(u.heap, p) > If(p = u.at) => w.heap[p].num = u.heap[p].num

Uniq(u, w) == Moves(u, w) /\ Cnt(w.heap, w.at) = 1

LEMMA StandingStill == ASSUME NEW u, Names(u) PROVE Moves(u, u)
    BY Counts DEF Names, Moves, If

LEMMA MovesOn ==
    ASSUME NEW u, NEW v, NEW w, Names(u), Moves(u, v), Moves(v, w)
    PROVE  Moves(u, w)
<1>1. /\ \A p : Cnt(u.heap, p) \in Nat
      /\ \A p : Cnt(v.heap, p) \in Nat
      /\ \A p : p \in DOMAIN u.heap <=> Cnt(u.heap, p) > 0
      /\ \A p : p \in DOMAIN v.heap <=> Cnt(v.heap, p) > 0
      /\ \A p : p \in DOMAIN w.heap <=> Cnt(w.heap, p) > 0
    BY Counts DEF Names, Moves
<1>2. \A p : Cnt(w.heap, p) = Cnt(u.heap, p) - If(p = u.at) + If(p = w.at)
    BY <1>1 DEF Moves, If
<1>3. w.at \in DOMAIN u.heap => w.at = u.at
    BY <1>1 DEF Moves, If
<1>4. ASSUME NEW p \in DOMAIN u.heap \intersect DOMAIN w.heap,
             Cnt(u.heap, p) > If(p = u.at)
      PROVE  w.heap[p].num = u.heap[p].num
    <2>1. Cnt(v.heap, p) = Cnt(u.heap, p) - If(p = u.at) + If(p = v.at)
        BY DEF Moves
    <2>2. p \in DOMAIN v.heap
        BY <1>1, <1>4, <2>1 DEF If
    <2>3. v.heap[p].num = u.heap[p].num
        BY <1>4, <2>2 DEF Moves
    <2>4. Cnt(v.heap, p) > If(p = v.at)
        BY <1>1, <1>4, <2>1 DEF Moves, If
    <2>5. w.heap[p].num = v.heap[p].num
        BY <1>4, <2>2, <2>4 DEF Moves
    <2>. QED  BY <2>3, <2>5
<1>. QED  BY <1>2, <1>3, <1>4 DEF Moves

LEMMA MkuniqMoves == ASSUME NEW u, Names(u) PROVE Uniq(u, mkuniq(u))
<1>1. CASE u.heap[u.at].nrefs = 1
    <2>1. mkuniq(u) = u
        BY <1>1 DEF mkuniq
    <2>2. Cnt(u.heap, u.at) = 1
        BY <1>1 DEF Names, Cnt
    <2>. QED  BY <2>1, <2>2, StandingStill DEF Uniq
<1>2. CASE u.heap[u.at].nrefs # 1
    <2>. DEFINE c == allocate(u.heap, Num(u))
                w == At(Unref(c.heap, u.at), c.at)
    <2>1. mkuniq(u) = w
        BY <1>2 DEF mkuniq
    <2>2. /\ Sound(c.heap) /\ c.at \notin DOMAIN u.heap
          /\ \A p : Cnt(c.heap, p) = Cnt(u.heap, p) + If(p = c.at)
          /\ \A p \in DOMAIN u.heap : c.heap[p].num = u.heap[p].num
        BY AllocateCounts DEF Names
    <2>. HIDE DEF c
    <2>3. Cnt(u.heap, u.at) > 1 /\ u.at # c.at
        <3>1. u.at \in DOMAIN u.heap /\ Cnt(u.heap, u.at) = u.heap[u.at].nrefs
            BY DEF Names, Cnt
        <3>2. u.heap[u.at].nrefs \in Nat \ {0}
            BY <3>1 DEF Names, Sound
        <3>3. Cnt(u.heap, u.at) > 1
            BY <1>2, <3>1, <3>2
        <3>. QED  BY <2>2, <3>1, <3>3
    <2>4. u.at \in DOMAIN c.heap
        BY <2>2, <2>3, Counts DEF Names, If
    <2>5. /\ Sound(Unref(c.heap, u.at))
          /\ \A p : Cnt(Unref(c.heap, u.at), p) = Cnt(c.heap, p) - If(p = u.at)
          /\ \A p \in DOMAIN Unref(c.heap, u.at) :
                p \in DOMAIN c.heap /\ Unref(c.heap, u.at)[p].num = c.heap[p].num
        BY <2>2, <2>4, UnrefCounts
    <2>6. w.heap = Unref(c.heap, u.at) /\ w.at = c.at /\ w = At(w.heap, w.at)
        BY DEF At
    <2>. HIDE DEF w
    <2>7. /\ \A p : Cnt(u.heap, p) \in Nat
          /\ \A p : p \in DOMAIN u.heap <=> Cnt(u.heap, p) > 0
          /\ \A p : p \in DOMAIN w.heap <=> Cnt(w.heap, p) > 0
        BY <2>5, <2>6, Counts DEF Names
    <2>8. \A p : Cnt(w.heap, p) = Cnt(u.heap, p) - If(p = u.at) + If(p = w.at)
        BY <2>2, <2>5, <2>6, <2>7 DEF If
    <2>9. Cnt(w.heap, w.at) = 1 /\ w.at \in DOMAIN w.heap
        BY <2>2, <2>3, <2>6, <2>7, <2>8 DEF If
    <2>10. \A p \in DOMAIN u.heap \intersect DOMAIN w.heap :
              w.heap[p].num = u.heap[p].num
        BY <2>2, <2>5, <2>6
    <2>. QED  BY <2>1, <2>2, <2>5, <2>6, <2>8, <2>9, <2>10 DEF Uniq, Moves, Names
<1>. QED  BY <1>1, <1>2

LEMMA PutMoves ==
    ASSUME NEW u, NEW w, NEW n, Names(u), Uniq(u, w)
    PROVE  Uniq(u, Put(w, n))
<1>. DEFINE v == Put(w, n)
<1>1. w = At(w.heap, w.at) /\ Sound(w.heap) /\ w.at \in DOMAIN w.heap
    BY DEF Uniq, Moves, Names
<1>2. LET z == Put(At(w.heap, w.at), n) IN
      /\ Sound(z.heap) /\ z = At(z.heap, w.at) /\ z.at = w.at
      /\ \A p : Cnt(z.heap, p) = Cnt(w.heap, p)
      /\ \A p \in DOMAIN w.heap \ {w.at} : z.heap[p].num = w.heap[p].num
    BY <1>1, PutCounts
<1>3. /\ Sound(v.heap) /\ v = At(v.heap, w.at) /\ v.at = w.at
      /\ \A p : Cnt(v.heap, p) = Cnt(w.heap, p)
      /\ \A p \in DOMAIN w.heap \ {w.at} : v.heap[p].num = w.heap[p].num
    BY <1>1, <1>2
<1>. HIDE DEF v
<1>4. /\ \A p : Cnt(u.heap, p) \in Nat
      /\ \A p : p \in DOMAIN u.heap <=> Cnt(u.heap, p) > 0
      /\ \A p : p \in DOMAIN v.heap <=> Cnt(v.heap, p) > 0
      /\ \A p : p \in DOMAIN w.heap <=> Cnt(w.heap, p) > 0
    BY <1>1, <1>3, Counts DEF Names
<1>5. v.at \in DOMAIN v.heap
    BY <1>1, <1>3, <1>4
<1>6. ASSUME NEW p \in DOMAIN u.heap \intersect DOMAIN v.heap,
             Cnt(u.heap, p) > If(p = u.at)
      PROVE  v.heap[p].num = u.heap[p].num
    <2>1. p \in DOMAIN w.heap
        BY <1>3, <1>4
    <2>2. p # w.at
        <3>1. SUFFICES ASSUME p = w.at PROVE FALSE
            OBVIOUS
        <3>2. p = u.at
            BY <3>1 DEF Uniq, Moves
        <3>. QED  BY <1>4, <1>6, <3>1, <3>2 DEF Uniq, Moves, If
    <2>3. w.heap[p].num = u.heap[p].num
        BY <1>6, <2>1 DEF Uniq, Moves
    <2>. QED  BY <1>3, <2>1, <2>2, <2>3
<1>7. Names(v) /\ (v.at \in DOMAIN u.heap => v.at = u.at)
      /\ \A p : Cnt(v.heap, p) = Cnt(u.heap, p) - If(p = u.at) + If(p = v.at)
    BY <1>3, <1>5 DEF Uniq, Moves, Names
<1>8. Cnt(v.heap, v.at) = 1
    BY <1>3 DEF Uniq
<1>9. Uniq(u, v)
    BY <1>6, <1>7, <1>8 DEF Uniq, Moves
<1>. QED  BY <1>9 DEF v

(* The reference dropped for a new number, which may be where it was.       *)
LEMMA NewMoves ==
    ASSUME NEW u, NEW n, Names(u)
    PROVE  Uniq(u, allocate(Unref(u.heap, u.at), n))
<1>. DEFINE h == Unref(u.heap, u.at)   w == allocate(h, n)
<1>1. /\ Sound(h)
      /\ \A p : Cnt(h, p) = Cnt(u.heap, p) - If(p = u.at)
      /\ \A p \in DOMAIN h : p \in DOMAIN u.heap /\ h[p].num = u.heap[p].num
    BY UnrefCounts DEF Names
<1>. HIDE DEF h
<1>2. /\ Sound(w.heap) /\ w = At(w.heap, w.at) /\ w.at \notin DOMAIN h
      /\ \A p : Cnt(w.heap, p) = Cnt(h, p) + If(p = w.at)
      /\ \A p \in DOMAIN h : w.heap[p].num = h[p].num
    BY <1>1, AllocateCounts
<1>. HIDE DEF w
<1>3. /\ \A p : Cnt(u.heap, p) \in Nat
      /\ \A p : Cnt(h, p) \in Nat
      /\ \A p : p \in DOMAIN u.heap <=> Cnt(u.heap, p) > 0
      /\ \A p : p \in DOMAIN h <=> Cnt(h, p) > 0
      /\ \A p : p \in DOMAIN w.heap <=> Cnt(w.heap, p) > 0
    BY <1>1, <1>2, Counts DEF Names
<1>4. Cnt(w.heap, w.at) = 1 /\ w.at \in DOMAIN w.heap
    BY <1>2, <1>3 DEF If
<1>5. w.at \in DOMAIN u.heap => w.at = u.at
    BY <1>1, <1>2, <1>3 DEF If
<1>6. \A p : Cnt(w.heap, p) = Cnt(u.heap, p) - If(p = u.at) + If(p = w.at)
    BY <1>1, <1>2, <1>3 DEF If
<1>7. ASSUME NEW p \in DOMAIN u.heap \intersect DOMAIN w.heap,
             Cnt(u.heap, p) > If(p = u.at)
      PROVE  w.heap[p].num = u.heap[p].num
    BY <1>1, <1>2, <1>3, <1>7 DEF If
<1>8. Uniq(u, w)
    BY <1>2, <1>4, <1>5, <1>6, <1>7 DEF Uniq, Moves, Names
<1>. QED  BY <1>8 DEF h, w

(* What every operation that writes is made of.                             *)
LEMMA WritesMove ==
    ASSUME NEW u, NEW n, Names(u)
    PROVE  Uniq(u, Put(mkuniq(u), n))
    BY MkuniqMoves, PutMoves

LEMMA WritesMoveOn ==
    ASSUME NEW u, NEW v, NEW n, Names(u), Moves(u, v)
    PROVE  Uniq(u, Put(mkuniq(v), n))
<1>1. Uniq(v, Put(mkuniq(v), n))
    BY WritesMove DEF Moves
<1>. QED  BY <1>1, MovesOn DEF Uniq

-----------------------------------------------------------------------------
(* The operations on one number.                                            *)
LEMMA ScalesMove ==
    ASSUME NEW u, NEW v, NEW k, Names(u), Moves(u, v)
    PROVE  /\ Uniq(u, mkuniq_scale_down(v, k))
           /\ Uniq(u, mkuniq_scale_up(v, k))
           /\ Uniq(u, mkuniq_extend(v, k))
<1>1. Uniq(u, Put(mkuniq(v), ScaledDown(Num(v), k)))
    BY WritesMoveOn
<1>2. Uniq(u, Put(mkuniq(v), ScaledUp(Num(v), k)))
    BY WritesMoveOn
<1>3. Uniq(u, Put(mkuniq(v), Extended(Num(v), k)))
    BY WritesMoveOn
<1>. QED  BY <1>1, <1>2, <1>3 DEF mkuniq_scale_down, mkuniq_scale_up, mkuniq_extend

LEMMA UwordsMove ==
    ASSUME NEW u, NEW v, NEW b, Names(u), Moves(u, v)
    PROVE  Moves(u, number_abs_add_uword(v, b)) /\ Uniq(u, number_mul_uword(v, b))
<1>1. Uniq(u, Put(mkuniq(v), PlusUword(Num(v), b)))
    BY WritesMoveOn
<1>2. Uniq(u, Put(mkuniq(v), TimesUword(Num(v), b)))
    BY WritesMoveOn
<1>3. Uniq(v, allocate(Unref(v.heap, v.at), number_new_from_zu(0)))
    BY NewMoves DEF Moves
<1>4. Uniq(u, allocate(Unref(v.heap, v.at), number_new_from_zu(0)))
    BY <1>3, MovesOn DEF Uniq
<1>5. Moves(u, number_abs_add_uword(v, b))
    BY <1>1 DEF number_abs_add_uword, Uniq
<1>6. Uniq(u, number_mul_uword(v, b))
    BY <1>2, <1>4 DEF number_mul_uword
<1>. QED  BY <1>5, <1>6

LEMMA PowMoves == ASSUME NEW u, NEW e, Names(u) PROVE Uniq(u, number_pow_zu(u, e))
<1>1. Uniq(u, Put(mkuniq(u), Power(Num(u), e)))
    BY WritesMove
<1>2. Uniq(u, allocate(Unref(u.heap, u.at), number_new_from_zu(1)))
    BY NewMoves
<1>. QED  BY <1>1, <1>2 DEF number_pow_zu

LEMMA RoundingMoves ==
    ASSUME NEW u, Names(u)
    PROVE  /\ Uniq(u, number_negate(u)) /\ Uniq(u, number_trunc(u))
           /\ Uniq(u, number_floor(u)) /\ Uniq(u, number_ceil(u))
           /\ Uniq(u, number_round(u)) /\ Uniq(u, number_frac(u))
<1>1. Moves(u, u) /\ Moves(u, number_abs_add_uword(u, 1))
    BY StandingStill, UwordsMove
<1>2. /\ Uniq(u, mkuniq_scale_down(u, 0))
      /\ Uniq(u, mkuniq_scale_down(number_abs_add_uword(u, 1), 0))
    BY <1>1, ScalesMove
<1>3. Uniq(u, number_negate(u))
    BY WritesMove DEF number_negate
<1>4. Uniq(u, number_frac(u))
    BY WritesMove DEF number_frac
<1>. QED  BY <1>2, <1>3, <1>4 DEF number_trunc, number_floor, number_ceil, number_round

LEMMA ScaleDownMoves ==
    ASSUME NEW u, NEW k, Names(u)
    PROVE  Uniq(u, number_scale_down(u, k))
<1>. DEFINE q    == k \div LOG
            n    == Num(u)
            own  == mkuniq_extend(u, Max({Len(n.words), n.scale + q}))
            ws   == Num(own).words
            f    == D ^ (k % LOG)
            m    == IntOf(ws) % f
            quot == Put(own, [n EXCEPT !.scale = @ + q,
                                       !.words = Words(IntOf(ws) \div f, Len(ws))])
            rest == mkuniq_scale_up(quot, n.scale + q + 1)
            full == Put(rest, [Num(rest) EXCEPT !.words[1] = m * D ^ (LOG - (k % LOG))])
            done == IF m = 0 THEN quot ELSE full
            w    == Put(done, unsafe_normalize_full(Num(done)))
<1>1. Uniq(u, own)
    BY StandingStill, ScalesMove
<1>. HIDE DEF own, n, ws, f, m
<1>2. Uniq(u, quot)
    BY <1>1, PutMoves
<1>. HIDE DEF quot
<1>3. Uniq(u, rest)
    BY <1>2, ScalesMove DEF Uniq
<1>. HIDE DEF rest
<1>4. Uniq(u, full)
    BY <1>3, PutMoves
<1>. HIDE DEF full
<1>5. Uniq(u, done)
    BY <1>2, <1>4
<1>. HIDE DEF done
<1>6. Uniq(u, w)
    BY <1>5, PutMoves
<1>. USE DEF own, n, ws, f, m, quot, rest, full, done
<1>7. number_scale_down(u, k) = w
    BY Zenon DEF number_scale_down
<1>. QED  BY <1>6, <1>7

LEMMA ScaleUpMoves ==
    ASSUME NEW u, NEW k, Names(u)
    PROVE  Uniq(u, number_scale_up(u, k))
<1>. DEFINE q    == k \div LOG
            own  == mkuniq_scale_up(u, Max({Num(u).scale, q}))
            down == [Num(own) EXCEPT !.scale = @ - q]
            done == Put(own, unsafe_normalize_full(down))
            more == number_mul_uword(done, D ^ (k % LOG))
<1>1. Uniq(u, own)
    BY StandingStill, ScalesMove
<1>. HIDE DEF own
<1>2. Uniq(u, done)
    BY <1>1, PutMoves
<1>. HIDE DEF done
<1>3. Uniq(u, more)
    BY <1>2, UwordsMove DEF Uniq
<1>. HIDE DEF more
<1>4. Uniq(u, IF k % LOG = 0 THEN done ELSE more)
    BY <1>2, <1>3
<1>. USE DEF own, done, more
<1>5. number_scale_up(u, k) = IF k % LOG = 0 THEN done ELSE more
    BY Zenon DEF number_scale_up
<1>. QED  BY <1>4, <1>5

-----------------------------------------------------------------------------
(* Two references, given up for the result.                                 *)
Both(h, a, b) ==
    Sound(h) /\ a \in DOMAIN h /\ b \in DOMAIN h /\ (a = b => Cnt(h, a) > 1)

Consumes(h, a, b, w) ==
    /\ Names(w)
    /\ \A p : Cnt(w.heap, p) = Cnt(h, p) - If(p = a) - If(p = b) + If(p = w.at)
    /\ \A p \in DOMAIN h \intersect DOMAIN w.heap :
          Cnt(h, p) > If(p = a) + If(p = b) => w.heap[p].num = h[p].num

LEMMA EitherWay ==
    ASSUME NEW h, NEW a, NEW b, NEW w, Both(h, a, b), Consumes(h, b, a, w)
    PROVE  Consumes(h, a, b, w)
    BY Counts DEF Both, Consumes, Names, If

LEMMA DropBoth ==
    ASSUME NEW h, NEW a, NEW b, Both(h, a, b)
    PROVE  /\ Sound(Unref(Unref(h, a), b))
           /\ \A p : Cnt(Unref(Unref(h, a), b), p) = Cnt(h, p) - If(p = a) - If(p = b)
           /\ \A p \in DOMAIN Unref(Unref(h, a), b) :
                 p \in DOMAIN h /\ Unref(Unref(h, a), b)[p].num = h[p].num
<1>. DEFINE g == Unref(h, a)
<1>1. /\ Sound(g) /\ \A p : Cnt(g, p) = Cnt(h, p) - If(p = a)
      /\ \A p \in DOMAIN g : p \in DOMAIN h /\ g[p].num = h[p].num
    BY UnrefCounts DEF Both
<1>. HIDE DEF g
<1>2. b \in DOMAIN g
    BY <1>1, Counts DEF Both, If
<1>3. /\ Sound(Unref(g, b)) /\ \A p : Cnt(Unref(g, b), p) = Cnt(g, p) - If(p = b)
      /\ \A p \in DOMAIN Unref(g, b) : p \in DOMAIN g /\ Unref(g, b)[p].num = g[p].num
    BY <1>1, <1>2, UnrefCounts
<1>4. \A p : Cnt(Unref(g, b), p) = Cnt(h, p) - If(p = a) - If(p = b)
    BY <1>1, <1>3
<1>5. \A p \in DOMAIN Unref(g, b) : p \in DOMAIN h /\ Unref(g, b)[p].num = h[p].num
    BY <1>1, <1>3
<1>. QED  BY <1>3, <1>4, <1>5 DEF g

(* The second operand is let go of when the result is where the first was,
   or where nothing was.                                                    *)
LEMMA LaterDropped ==
    ASSUME NEW h, NEW a, NEW b, NEW v, Both(h, a, b), Uniq(At(h, a), v)
    PROVE  Consumes(h, a, b, At(Unref(v.heap, b), v.at))
<1>. DEFINE r == Unref(v.heap, b)   w == At(r, v.at)
<1>1. /\ At(h, a).heap = h /\ At(h, a).at = a
      /\ w.heap = r /\ w.at = v.at /\ w = At(w.heap, w.at)
    BY DEF At
<1>2. /\ \A p : Cnt(v.heap, p) = Cnt(h, p) - If(p = a) + If(p = v.at)
      /\ Sound(v.heap) /\ v.at \in DOMAIN v.heap /\ Cnt(v.heap, v.at) = 1
      /\ \A p \in DOMAIN h \intersect DOMAIN v.heap :
            Cnt(h, p) > If(p = a) => v.heap[p].num = h[p].num
    BY <1>1 DEF Uniq, Moves, Names
<1>3. /\ \A p : Cnt(h, p) \in Nat /\ Cnt(v.heap, p) \in Nat
      /\ \A p : p \in DOMAIN h <=> Cnt(h, p) > 0
      /\ \A p : p \in DOMAIN v.heap <=> Cnt(v.heap, p) > 0
    BY <1>2, Counts DEF Both
<1>4. Cnt(h, a) > 0 /\ Cnt(h, b) > 0 /\ (a = b => Cnt(h, a) > 1)
    BY <1>3 DEF Both
<1>5. b # v.at /\ b \in DOMAIN v.heap
    BY <1>2, <1>3, <1>4 DEF If
<1>6. /\ Sound(r) /\ \A p : Cnt(r, p) = Cnt(v.heap, p) - If(p = b)
      /\ \A p \in DOMAIN r : p \in DOMAIN v.heap /\ r[p].num = v.heap[p].num
    BY <1>2, <1>5, UnrefCounts
<1>. HIDE DEF r, w
<1>7. v.at \in DOMAIN r
    BY <1>2, <1>5, <1>6, Counts DEF If
<1>8. \A p : Cnt(w.heap, p) = Cnt(h, p) - If(p = a) - If(p = b) + If(p = w.at)
    BY <1>1, <1>2, <1>3, <1>6 DEF If
<1>9. ASSUME NEW p \in DOMAIN h \intersect DOMAIN w.heap,
             Cnt(h, p) > If(p = a) + If(p = b)
      PROVE  w.heap[p].num = h[p].num
    BY <1>1, <1>2, <1>3, <1>6, <1>9 DEF If
<1>10. Consumes(h, a, b, w)
    BY <1>1, <1>6, <1>7, <1>8, <1>9 DEF Consumes, Names
<1>. QED  BY <1>10 DEF w, r

LEMMA WrittenConsumes ==
    ASSUME NEW h, NEW a, NEW b, NEW own, NEW n, Both(h, a, b), Uniq(At(h, a), own)
    PROVE  Consumes(h, a, b, Written(own, n, b))
<1>1. Names(At(h, a))
    BY DEF Names, At, Both
<1>2. Uniq(At(h, a), Put(own, n))
    BY <1>1, PutMoves
<1>3. Put(own, n).at = own.at
    <2>1. own = At(own.heap, own.at)
        BY DEF Uniq, Moves, Names
    <2>. QED  BY <2>1 DEF Put, At
<1>4. Consumes(h, a, b, At(Unref(Put(own, n).heap, b), Put(own, n).at))
    BY <1>2, LaterDropped
<1>. QED  BY <1>3, <1>4 DEF Written

LEMMA FreshConsumes ==
    ASSUME NEW h, NEW a, NEW b, NEW n, Both(h, a, b)
    PROVE  Consumes(h, a, b, allocate(Unref(Unref(h, a), b), n))
<1>. DEFINE g == Unref(Unref(h, a), b)   w == allocate(g, n)
<1>1. /\ Sound(g) /\ \A p : Cnt(g, p) = Cnt(h, p) - If(p = a) - If(p = b)
      /\ \A p \in DOMAIN g : p \in DOMAIN h /\ g[p].num = h[p].num
    BY DropBoth
<1>. HIDE DEF g
<1>2. /\ Sound(w.heap) /\ w = At(w.heap, w.at) /\ w.at \notin DOMAIN g
      /\ \A p : Cnt(w.heap, p) = Cnt(g, p) + If(p = w.at)
      /\ \A p \in DOMAIN g : w.heap[p].num = g[p].num
    BY <1>1, AllocateCounts
<1>. HIDE DEF w
<1>3. /\ \A p : Cnt(h, p) \in Nat /\ Cnt(g, p) \in Nat
      /\ \A p : p \in DOMAIN g <=> Cnt(g, p) > 0
      /\ \A p : p \in DOMAIN w.heap <=> Cnt(w.heap, p) > 0
    BY <1>1, <1>2, Counts DEF Both
<1>4. w.at \in DOMAIN w.heap
    BY <1>2, <1>3 DEF If
<1>5. \A p : Cnt(w.heap, p) = Cnt(h, p) - If(p = a) - If(p = b) + If(p = w.at)
    BY <1>1, <1>2
<1>6. ASSUME NEW p \in DOMAIN h \intersect DOMAIN w.heap,
             Cnt(h, p) > If(p = a) + If(p = b)
      PROVE  w.heap[p].num = h[p].num
    <2>1. p \in DOMAIN g
        BY <1>1, <1>3, <1>6 DEF If
    <2>. QED  BY <1>1, <1>2, <2>1
<1>7. Consumes(h, a, b, w)
    BY <1>2, <1>4, <1>5, <1>6 DEF Consumes, Names
<1>. QED  BY <1>7 DEF w, g

-----------------------------------------------------------------------------
(* The operations on two numbers.                                           *)
LEMMA AlignedUniq ==
    ASSUME NEW h, NEW a, NEW b, Names(At(h, a)) PROVE Uniq(At(h, a), Aligned(h, a, b))
<1>1. \A k : Uniq(At(h, a), mkuniq_extend(At(h, a), k))
    BY StandingStill, ScalesMove
<1>2. \A k : Uniq(At(h, a), mkuniq_scale_up(At(h, a), k))
    BY StandingStill, ScalesMove
<1>3. Uniq(At(h, a), mkuniq(At(h, a)))
    BY MkuniqMoves
<1>. QED  BY <1>1, <1>2, <1>3 DEF Aligned

LEMMA SumsConsume ==
    ASSUME NEW h, NEW left, NEW right, NEW add, Both(h, left, right)
    PROVE  Consumes(h, left, right, do_add_or_sub(h, left, right, add))
<1>. DEFINE swap == \/ Len(h[left].num.words) < Len(h[right].num.words)
                    \/ /\ Len(h[left].num.words) = Len(h[right].num.words)
                       /\ h[right].nrefs = 1
            a    == IF swap THEN right ELSE left
            b    == IF swap THEN left ELSE right
            own  == Aligned(h, a, b)
            x    == Num(own)
            y    == own.heap[b].num
            r    == IF (x.sign = y.sign) = add THEN Sum(x, x.scale - y.scale, y.words)
                    ELSE Difference(x, x.scale - y.scale, y.words)
            n    == [r EXCEPT !.sign = @ # (swap /\ ~add)]
<1>1. do_add_or_sub(h, left, right, add) = Written(own, n, b)
    BY Zenon DEF do_add_or_sub
<1>. HIDE DEF swap, n
<1>2. CASE swap
    <2>1. a = right /\ b = left
        BY <1>2
    <2>2. Both(h, a, b) /\ Names(At(h, a))
        BY <2>1 DEF Both, Names, At
    <2>. HIDE DEF a, b
    <2>3. Uniq(At(h, a), own)
        BY <2>2, AlignedUniq
    <2>. HIDE DEF own
    <2>4. Consumes(h, a, b, Written(own, n, b))
        BY <2>2, <2>3, WrittenConsumes
    <2>. HIDE DEF n
    <2>5. Consumes(h, right, left, Written(own, n, b))
        BY <2>1, <2>4
    <2>6. Consumes(h, left, right, Written(own, n, b))
        BY <2>5, EitherWay
    <2>. QED  BY <1>1, <2>6
<1>3. CASE ~swap
    <2>1. a = left /\ b = right
        BY <1>3
    <2>2. Both(h, a, b) /\ Names(At(h, a))
        BY <2>1 DEF Both, Names, At
    <2>. HIDE DEF a, b
    <2>3. Uniq(At(h, a), own)
        BY <2>2, AlignedUniq
    <2>. HIDE DEF own
    <2>4. Consumes(h, a, b, Written(own, n, b))
        BY <2>2, <2>3, WrittenConsumes
    <2>. HIDE DEF n
    <2>. QED  BY <1>1, <2>1, <2>4
<1>. QED  BY <1>2, <1>3

LEMMA MulConsumes ==
    ASSUME NEW h, NEW a, NEW b, Both(h, a, b)
    PROVE  Consumes(h, a, b, number_mul(h, a, b))
<1>. DEFINE r == allocate(h, Product(h[a].num, h[b].num))
            g == Unref(Unref(r.heap, a), b)
            w == At(g, r.at)
<1>1. /\ Sound(r.heap) /\ r.at \notin DOMAIN h
      /\ \A p : Cnt(r.heap, p) = Cnt(h, p) + If(p = r.at)
      /\ \A p \in DOMAIN h : r.heap[p].num = h[p].num
    BY AllocateCounts DEF Both
<1>. HIDE DEF r
<1>2. /\ \A p : Cnt(h, p) \in Nat /\ Cnt(r.heap, p) \in Nat
      /\ \A p : p \in DOMAIN h <=> Cnt(h, p) > 0
      /\ \A p : p \in DOMAIN r.heap <=> Cnt(r.heap, p) > 0
    BY <1>1, Counts DEF Both
<1>3. Both(r.heap, a, b)
    BY <1>1, <1>2 DEF Both, If
<1>4. /\ Sound(g) /\ \A p : Cnt(g, p) = Cnt(r.heap, p) - If(p = a) - If(p = b)
      /\ \A p \in DOMAIN g : p \in DOMAIN r.heap /\ g[p].num = r.heap[p].num
    BY <1>3, DropBoth
<1>5. w.heap = g /\ w.at = r.at /\ w = At(w.heap, w.at)
    BY DEF At
<1>. HIDE DEF g, w
<1>6. \A p : Cnt(w.heap, p) = Cnt(h, p) - If(p = a) - If(p = b) + If(p = w.at)
    BY <1>1, <1>2, <1>4, <1>5 DEF If
<1>7. r.at \in DOMAIN g
    <2>1. a # r.at /\ b # r.at
        BY <1>1 DEF Both
    <2>2. Cnt(g, r.at) = Cnt(h, r.at) + 1
        BY <1>1, <1>2, <1>4, <2>1 DEF If
    <2>. QED  BY <1>2, <1>4, <2>2, Counts
<1>8. ASSUME NEW p \in DOMAIN h \intersect DOMAIN w.heap
      PROVE  w.heap[p].num = h[p].num
    BY <1>1, <1>4, <1>5
<1>9. Consumes(h, a, b, w)
    BY <1>4, <1>5, <1>6, <1>7, <1>8 DEF Consumes, Names
<1>10. number_mul(h, a, b) = w
    BY DEF number_mul, w, g, r
<1>. QED  BY <1>9, <1>10

LEMMA DivisionsConsume ==
    ASSUME NEW h, NEW a, NEW b, NEW ntp, Both(h, a, b)
    PROVE  /\ Consumes(h, a, b, number_div(h, a, b, ntp))
           /\ Consumes(h, a, b, number_idiv(h, a, b))
           /\ Consumes(h, a, b, number_imod(h, a, b))
<1>1. Names(At(h, a))
    BY DEF Both, Names, At
<1>2. Uniq(At(h, a), mkuniq(At(h, a))) /\ Uniq(At(h, a), mkuniq_scale_down(At(h, a), 0))
    BY <1>1, MkuniqMoves, StandingStill, ScalesMove
<1>3. \A n : Consumes(h, a, b, Written(mkuniq(At(h, a)), n, b))
    BY <1>2, WrittenConsumes
<1>4. \A n : Consumes(h, a, b, Written(mkuniq_scale_down(At(h, a), 0), n, b))
    BY <1>2, WrittenConsumes
<1>5. Consumes(h, a, b, number_div(h, a, b, ntp))
    BY <1>3 DEF number_div
<1>6. Consumes(h, a, b, number_idiv(h, a, b))
    BY <1>4 DEF number_idiv
<1>7. Consumes(h, a, b, number_imod(h, a, b))
    BY <1>4 DEF number_imod
<1>. QED  BY <1>5, <1>6, <1>7

(* do_pow drops the exponent first.                                         *)
LEMMA SoonerDropped ==
    ASSUME NEW h, NEW a, NEW b, NEW w, Both(h, a, b), Moves(At(Unref(h, b), a), w)
    PROVE  Consumes(h, a, b, w)
<1>. DEFINE g == Unref(h, b)   u == At(g, a)
<1>1. /\ Sound(g) /\ \A p : Cnt(g, p) = Cnt(h, p) - If(p = b)
      /\ \A p \in DOMAIN g : p \in DOMAIN h /\ g[p].num = h[p].num
    BY UnrefCounts DEF Both
<1>2. u.heap = g /\ u.at = a
    BY DEF At
<1>. HIDE DEF g
<1>3. Moves(u, w)
    BY DEF g
<1>. HIDE DEF u
<1>4. /\ \A p : Cnt(w.heap, p) = Cnt(g, p) - If(p = a) + If(p = w.at)
      /\ \A p \in DOMAIN g \intersect DOMAIN w.heap :
            Cnt(g, p) > If(p = a) => w.heap[p].num = g[p].num
      /\ Names(w)
    BY <1>2, <1>3 DEF Moves
<1>5. /\ \A p : Cnt(h, p) \in Nat /\ Cnt(g, p) \in Nat
      /\ \A p : p \in DOMAIN g <=> Cnt(g, p) > 0
    BY <1>1, Counts DEF Both
<1>6. \A p : Cnt(w.heap, p) = Cnt(h, p) - If(p = a) - If(p = b) + If(p = w.at)
    BY <1>1, <1>4, <1>5 DEF If
<1>7. ASSUME NEW p \in DOMAIN h \intersect DOMAIN w.heap,
             Cnt(h, p) > If(p = a) + If(p = b)
      PROVE  w.heap[p].num = h[p].num
    <2>1. Cnt(g, p) > If(p = a) /\ p \in DOMAIN g
        BY <1>1, <1>5, <1>7 DEF If
    <2>. QED  BY <1>1, <1>4, <2>1
<1>. QED  BY <1>4, <1>6, <1>7 DEF Consumes

-----------------------------------------------------------------------------
(* What holds of every state: the references to each number are those of the
   variables and of the pad.                                                *)
OnVars(v, p)  == If(v[1] = p) + If(v[2] = p)
OnStack(s, p) == If(Len(s) >= 1 /\ s[1] = p) + If(Len(s) = 2 /\ s[2] = p)

Owned ==
    /\ Sound(heap) /\ vars \in [{1, 2} -> Nat]
    /\ stack \in Seq(Nat \ {0}) /\ Len(stack) <= 2
    /\ \A p : p # 0 => Cnt(heap, p) = OnVars(vars, p) + OnStack(stack, p)

Kept == \A v \in {1, 2} : vars'[v] # 0 => heap'[vars'[v]].num = heap[vars[v]].num

(* An operation uses up what is on the pad for a number.                    *)
Spends(w) ==
    /\ Names(w)
    /\ \A p : Cnt(w.heap, p) = Cnt(heap, p) - OnStack(stack, p) + If(p = w.at)
    /\ \A p \in DOMAIN heap \intersect DOMAIN w.heap :
          Cnt(heap, p) > OnStack(stack, p) => w.heap[p].num = heap[p].num

LEMMA Alive ==
    ASSUME Owned
    PROVE  /\ \A p : Cnt(heap, p) \in Nat
           /\ \A p : p \in DOMAIN heap <=> Cnt(heap, p) > 0
           /\ \A p \in DOMAIN heap : p \in Nat \ {0}
           /\ \A p : OnStack(stack, p) \in 0..2 /\ OnVars(vars, p) \in 0..2
           /\ stack # <<>> => Len(stack) \in {1, 2} /\ lhs \in DOMAIN heap
           /\ Two => Both(heap, lhs, rhs)
           /\ \A p : OnStack(stack, p) = IF stack = <<>> THEN 0
                                       ELSE If(p = lhs) + If(Two /\ p = rhs)
           /\ \A v \in {1, 2} : vars[v] # 0 => vars[v] \in DOMAIN heap
<1>1. /\ \A p : Cnt(heap, p) \in Nat
      /\ \A p : p \in DOMAIN heap <=> Cnt(heap, p) > 0
      /\ \A p \in DOMAIN heap : p \in Nat \ {0}
    BY Counts DEF Owned
<1>2. \A p : OnStack(stack, p) \in 0..2 /\ OnVars(vars, p) \in 0..2
    BY DEF OnStack, OnVars, If
<1>3. /\ Len(stack) \in 0..2 /\ (stack = <<>> <=> Len(stack) = 0)
      /\ Len(stack) >= 1 => lhs # 0
      /\ Two => rhs # 0
    <2>1. stack \in Seq(Nat \ {0}) /\ Len(stack) <= 2
        BY DEF Owned
    <2>2. Len(stack) \in 0..2 /\ (stack = <<>> <=> Len(stack) = 0)
        <3>1. stack = <<>> <=> Len(stack) = 0
            BY <2>1, EmptySeq, Zenon
        <3>2. Len(stack) \in Nat /\ Len(stack) <= 2
            BY <2>1
        <3>3. \A n \in Nat : n <= 2 => n \in 0..2
            OBVIOUS
        <3>4. Len(stack) \in 0..2
            BY <3>2, <3>3, Zenon
        <3>. QED  BY <3>1, <3>4, Zenon
    <2>3. \A i \in 1..Len(stack) : stack[i] \in Nat \ {0}
        BY <2>1
    <2>. QED  BY <2>2, <2>3 DEF lhs, rhs, Two
<1>4. \A p : OnStack(stack, p) = IF stack = <<>> THEN 0
                                ELSE If(p = lhs) + If(Two /\ p = rhs)
    BY <1>3 DEF OnStack, If, lhs, rhs, Two
<1>5. \A p : p # 0 => Cnt(heap, p) >= OnStack(stack, p)
    BY <1>2 DEF Owned
<1>6. stack # <<>> => lhs \in DOMAIN heap
    BY <1>1, <1>3, <1>4, <1>5 DEF If
<1>7. ASSUME Two PROVE Both(heap, lhs, rhs)
    <2>1. /\ Cnt(heap, lhs) >= If(lhs = lhs) + If(lhs = rhs)
          /\ Cnt(heap, rhs) >= If(rhs = lhs) + If(rhs = rhs)
        BY <1>3, <1>4, <1>5, <1>7 DEF If, Two
    <2>. QED  BY <1>1, <2>1 DEF Both, If, Owned
<1>8. ASSUME NEW v \in {1, 2}, vars[v] # 0
      PROVE  vars[v] \in DOMAIN heap
    <2>1. Cnt(heap, vars[v]) = OnVars(vars, vars[v]) + OnStack(stack, vars[v])
        BY <1>8 DEF Owned
    <2>2. OnVars(vars, vars[v]) # 0
        BY DEF OnVars, If
    <2>3. \A a, b \in 0..2 : a # 0 => a + b # 0
        OBVIOUS
    <2>4. Cnt(heap, vars[v]) # 0
        BY <1>2, <2>1, <2>2, <2>3
    <2>. QED  BY <1>1, <2>4
<1>. QED  BY <1>1, <1>2, <1>3, <1>4, <1>6, <1>7, <1>8 DEF Two

LEMMA ReturnsKeeps ==
    ASSUME Owned, NEW name, NEW w, Spends(w), Returns(name, w)
    PROVE  Owned' /\ Kept
<1>1. heap' = w.heap /\ stack' = <<w.at>> /\ vars' = vars
    BY DEF Returns
<1>2. /\ Names(w)
      /\ \A p : Cnt(w.heap, p) = Cnt(heap, p) - OnStack(stack, p) + If(p = w.at)
    BY DEF Spends
<1>3. w.at \in Nat \ {0}
    BY <1>2, Counts DEF Names
<1>4. \A p : OnStack(stack', p) = If(p = w.at)
    BY <1>1, <1>3 DEF OnStack, If
<1>5. \A p : p # 0 => Cnt(w.heap, p) = OnVars(vars, p) + If(p = w.at)
    <2>1. \A p : p # 0 => Cnt(heap, p) = OnVars(vars, p) + OnStack(stack, p)
        BY DEF Owned
    <2>2. \A p : OnStack(stack, p) \in Int /\ OnVars(vars, p) \in Int
                 /\ If(p = w.at) \in Int
        BY Alive DEF If
    <2>3. \A a, b, c \in Int : a + b - b + c = a + c
        OBVIOUS
    <2>. QED  BY <1>2, <2>1, <2>2, <2>3
<1>6. stack' \in Seq(Nat \ {0}) /\ Len(stack') <= 2
    BY <1>1, <1>3
<1>7. Sound(heap') /\ vars' \in [{1, 2} -> Nat]
    BY <1>1, <1>2 DEF Owned, Names
<1>8. \A p : p # 0 => Cnt(heap', p) = OnVars(vars', p) + OnStack(stack', p)
    BY <1>1, <1>4, <1>5
<1>9. Owned'
    BY <1>6, <1>7, <1>8 DEF Owned
<1>10. ASSUME NEW v \in {1, 2}, vars[v] # 0
       PROVE  w.heap[vars[v]].num = heap[vars[v]].num
    <2>1. OnVars(vars, vars[v]) > 0
        BY DEF OnVars, If
    <2>2. Cnt(heap, vars[v]) > OnStack(stack, vars[v])
        BY <1>10, <2>1, Alive DEF Owned
    <2>3. vars[v] \in DOMAIN w.heap
        BY <1>2, <2>2, Alive, Counts DEF Names, If
    <2>. QED  BY <1>10, <2>2, <2>3, Alive DEF Spends
<1>. QED  BY <1>1, <1>9, <1>10 DEF Kept

LEMMA YieldsKeeps ==
    ASSUME Owned, NEW name, NEW o, stack # <<>>, Yields(name, o)
    PROVE  Owned' /\ Kept
<1>. DEFINE r == Dropped(heap)
<1>1. heap' = r /\ stack' = <<>> /\ vars' = vars
    BY DEF Yields
<1>2. /\ Sound(r)
      /\ \A p : Cnt(r, p) = Cnt(heap, p) - OnStack(stack, p)
      /\ \A p \in DOMAIN r : p \in DOMAIN heap /\ r[p].num = heap[p].num
    <2>1. CASE Two
        BY <2>1, DropBoth, Alive DEF Dropped, If, Two
    <2>2. CASE ~Two
        <3>1. /\ Sound(Unref(heap, lhs))
              /\ \A p : Cnt(Unref(heap, lhs), p) = Cnt(heap, p) - If(p = lhs)
              /\ \A p \in DOMAIN Unref(heap, lhs) :
                    p \in DOMAIN heap /\ Unref(heap, lhs)[p].num = heap[p].num
            BY UnrefCounts, Alive DEF Owned
        <3>2. r = Unref(heap, lhs)
            BY <2>2 DEF Dropped
        <3>. HIDE DEF r
        <3>3. \A p : OnStack(stack, p) = If(p = lhs)
            BY <2>2, Alive DEF If
        <3>. QED  BY <3>1, <3>2, <3>3
    <2>. QED  BY <2>1, <2>2
<1>. HIDE DEF r
<1>3. \A p : OnStack(stack', p) = 0
    BY <1>1 DEF OnStack, If
<1>4. \A p : p # 0 => Cnt(heap', p) = OnVars(vars', p) + OnStack(stack', p)
    BY <1>1, <1>2, <1>3, Alive DEF Owned
<1>5. Owned'
    BY <1>1, <1>2, <1>4 DEF Owned
<1>6. ASSUME NEW v \in {1, 2}, vars[v] # 0
      PROVE  r[vars[v]].num = heap[vars[v]].num
    <2>1. OnVars(vars, vars[v]) > 0
        BY DEF OnVars, If
    <2>2. Cnt(r, vars[v]) > 0
        BY <1>2, <1>6, <2>1, Alive DEF Owned
    <2>3. vars[v] \in DOMAIN r
        BY <1>2, <2>2, Counts
    <2>. QED  BY <1>2, <2>3
<1>. QED  BY <1>1, <1>5, <1>6 DEF Kept

LEMMA OneSpends ==
    ASSUME Owned, One, NEW w, Moves(At(heap, lhs), w) PROVE Spends(w)
<1>1. At(heap, lhs).heap = heap /\ At(heap, lhs).at = lhs
    BY DEF At
<1>2. \A p : OnStack(stack, p) = If(p = lhs)
    <2>1. stack # <<>> /\ ~Two
        BY DEF One, Two
    <2>. QED  BY <2>1, Alive DEF If
<1>. QED  BY <1>1, <1>2 DEF Moves, Spends

LEMMA TwoSpends ==
    ASSUME Owned, Two, NEW w, Consumes(heap, lhs, rhs, w) PROVE Spends(w)
<1>1. \A p : OnStack(stack, p) = If(p = lhs) + If(p = rhs)
    <2>1. stack # <<>>
        BY DEF Two
    <2>. QED  BY <2>1, Alive
<1>2. \A p : Cnt(heap, p) \in Nat
    BY Alive
<1>3. \A p : Cnt(w.heap, p) = Cnt(heap, p) - OnStack(stack, p) + If(p = w.at)
    BY <1>1, <1>2 DEF Consumes, If
<1>. QED  BY <1>1, <1>3 DEF Consumes, Spends

LEMMA FreshSpends ==
    ASSUME Owned, stack # <<>>, NEW n PROVE Spends(allocate(Dropped(heap), n))
<1>1. CASE Two
    <2>1. Consumes(heap, lhs, rhs, allocate(Dropped(heap), n))
        BY <1>1, Alive, FreshConsumes DEF Dropped
    <2>. QED  BY <1>1, <2>1, TwoSpends
<1>2. CASE ~Two
    <2>. DEFINE u == At(heap, lhs)   w == allocate(Unref(heap, lhs), n)
    <2>1. Names(u) /\ u.heap = heap /\ u.at = lhs
        BY Alive DEF Names, At, Owned
    <2>2. Uniq(u, allocate(Unref(u.heap, u.at), n))
        BY <2>1, NewMoves
    <2>3. Moves(u, w)
        BY <2>1, <2>2 DEF Uniq
    <2>4. \A p : OnStack(stack, p) = If(p = lhs)
        BY <1>2, Alive DEF If
    <2>. HIDE DEF u, w
    <2>5. Spends(w)
        BY <2>1, <2>3, <2>4 DEF Moves, Spends
    <2>. QED  BY <1>2, <2>5 DEF w, Dropped
<1>. QED  BY <1>1, <1>2

(* A native's own reference is to what an argument refers to: the argument
   goes when the result is somewhere else.                                  *)
LEMMA ArgumentNamed == ASSUME Owned, stack # <<>> PROVE Names(Argument)
<1>1. Sound(Ref(heap, lhs)) /\ DOMAIN Ref(heap, lhs) = DOMAIN heap
    BY RefCounts, Alive DEF Owned
<1>2. lhs \in DOMAIN heap
    BY Alive
<1>. QED  BY <1>1, <1>2 DEF Argument, Names, At

LEMMA NativeSpends ==
    ASSUME Owned, stack # <<>>, NEW w, Uniq(Argument, w)
    PROVE  Spends(At(Dropped(w.heap), w.at))
<1>. DEFINE k == Ref(heap, lhs)   g == Dropped(w.heap)   r == At(g, w.at)
<1>1. /\ \A p : Cnt(heap, p) \in Nat
      /\ \A p : p \in DOMAIN heap <=> Cnt(heap, p) > 0
      /\ lhs \in DOMAIN heap /\ (Two => Both(heap, lhs, rhs))
      /\ \A p : OnStack(stack, p) = If(p = lhs) + If(Two /\ p = rhs)
    BY Alive
<1>2. /\ \A p : Cnt(k, p) = Cnt(heap, p) + If(p = lhs)
      /\ DOMAIN k = DOMAIN heap
      /\ \A p \in DOMAIN heap : k[p].num = heap[p].num
    BY <1>1, RefCounts DEF Owned
<1>3. Argument.heap = k /\ Argument.at = lhs
    BY DEF Argument, At
<1>. HIDE DEF k
<1>4. /\ \A p : Cnt(w.heap, p) = Cnt(heap, p) + If(p = w.at)
      /\ Sound(w.heap) /\ Cnt(w.heap, w.at) = 1
    BY <1>1, <1>2, <1>3 DEF Uniq, Moves, Names, If
<1>5. \A p \in DOMAIN heap \intersect DOMAIN w.heap : w.heap[p].num = heap[p].num
    <2>1. \A p \in DOMAIN heap \intersect DOMAIN w.heap :
             Cnt(k, p) > If(p = lhs) => w.heap[p].num = k[p].num
        BY <1>2, <1>3 DEF Uniq, Moves
    <2>2. \A p \in DOMAIN heap : Cnt(k, p) > If(p = lhs)
        BY <1>1, <1>2 DEF If
    <2>. QED  BY <1>2, <2>1, <2>2
<1>6. w.at \notin DOMAIN heap
    BY <1>1, <1>4 DEF If
<1>7. /\ \A p : Cnt(w.heap, p) \in Nat
      /\ \A p : p \in DOMAIN w.heap <=> Cnt(w.heap, p) > 0
    BY <1>4, Counts
<1>8. /\ Sound(g)
      /\ \A p : Cnt(g, p) = Cnt(w.heap, p) - OnStack(stack, p)
      /\ \A p \in DOMAIN g : p \in DOMAIN w.heap /\ g[p].num = w.heap[p].num
    <2>1. CASE Two
        <3>1. Both(w.heap, lhs, rhs)
            BY <1>1, <1>4, <1>6, <1>7, <2>1 DEF Both, If
        <3>2. g = Unref(Unref(w.heap, lhs), rhs)
            BY <2>1 DEF Dropped
        <3>. HIDE DEF g
        <3>3. /\ Sound(g)
              /\ \A p : Cnt(g, p) = Cnt(w.heap, p) - If(p = lhs) - If(p = rhs)
              /\ \A p \in DOMAIN g : p \in DOMAIN w.heap /\ g[p].num = w.heap[p].num
            BY <3>1, <3>2, DropBoth
        <3>4. \A p : OnStack(stack, p) = If(p = lhs) + If(p = rhs)
            BY <1>1, <2>1
        <3>. QED  BY <1>7, <3>3, <3>4 DEF If
    <2>2. CASE ~Two
        <3>1. g = Unref(w.heap, lhs)
            BY <2>2 DEF Dropped
        <3>2. lhs \in DOMAIN w.heap
            BY <1>1, <1>4, <1>6, <1>7 DEF If
        <3>. HIDE DEF g
        <3>3. /\ Sound(g) /\ \A p : Cnt(g, p) = Cnt(w.heap, p) - If(p = lhs)
              /\ \A p \in DOMAIN g : p \in DOMAIN w.heap /\ g[p].num = w.heap[p].num
            BY <1>4, <3>1, <3>2, UnrefCounts
        <3>4. \A p : OnStack(stack, p) = If(p = lhs)
            BY <1>1, <2>2 DEF If
        <3>. QED  BY <3>3, <3>4
    <2>. QED  BY <2>1, <2>2
<1>9. r.heap = g /\ r.at = w.at /\ r = At(r.heap, r.at)
    BY DEF At
<1>. HIDE DEF g, r
<1>10. \A p : OnStack(stack, p) \in 0..2
    BY Alive
<1>11. \A p : Cnt(r.heap, p) = Cnt(heap, p) - OnStack(stack, p) + If(p = r.at)
    BY <1>1, <1>4, <1>8, <1>9, <1>10 DEF If
<1>12. r.at \in DOMAIN g
    <2>1. OnStack(stack, w.at) = 0
        BY <1>1, <1>6 DEF Both, If
    <2>2. Cnt(g, w.at) = 1
        BY <1>4, <1>8, <2>1
    <2>. QED  BY <1>8, <1>9, <2>2, Counts
<1>13. \A p \in DOMAIN heap \intersect DOMAIN g : g[p].num = heap[p].num
    BY <1>5, <1>8
<1>14. Spends(r)
    BY <1>8, <1>9, <1>11, <1>12, <1>13 DEF Spends, Names
<1>. QED  BY <1>14 DEF r, g

-----------------------------------------------------------------------------
(* The steps.                                                               *)
LEMMA ForgetKeeps ==
    ASSUME Owned, NEW v \in {1, 2}, Forget(v) PROVE Owned' /\ Kept
<1>. DEFINE a == vars[v]   r == Unref(heap, a)
<1>1. /\ a # 0 /\ heap' = r /\ stack' = stack
      /\ vars' = [vars EXCEPT ![v] = 0]
    BY DEF Forget
<1>2. a \in DOMAIN heap /\ vars \in [{1, 2} -> Nat]
    BY <1>1, Alive DEF Owned
<1>3. /\ Sound(r) /\ \A p : Cnt(r, p) = Cnt(heap, p) - If(p = a)
      /\ \A p \in DOMAIN r : p \in DOMAIN heap /\ r[p].num = heap[p].num
    BY <1>2, UnrefCounts DEF Owned
<1>4. /\ vars' \in [{1, 2} -> Nat] /\ vars'[v] = 0
      /\ \A u \in {1, 2} \ {v} : vars'[u] = vars[u]
    BY <1>1, <1>2
<1>. HIDE DEF r
<1>5. \A p : p # 0 => OnVars(vars', p) = OnVars(vars, p) - If(p = a)
    BY <1>2, <1>4 DEF OnVars, If
<1>. HIDE DEF a
<1>6. \A p : p # 0 => Cnt(r, p) = OnVars(vars', p) + OnStack(stack, p)
    <2>1. /\ \A p : p # 0 => Cnt(heap, p) = OnVars(vars, p) + OnStack(stack, p)
          /\ \A p : OnStack(stack, p) \in 0..2 /\ OnVars(vars, p) \in 0..2
        BY Alive DEF Owned
    <2>. QED  BY <1>3, <1>5, <2>1 DEF If
<1>7. Owned'
    BY <1>1, <1>3, <1>4, <1>6 DEF Owned
<1>8. ASSUME NEW u \in {1, 2}, vars'[u] # 0
      PROVE  r[vars'[u]].num = heap[vars[u]].num
    <2>1. vars'[u] = vars[u]
        BY <1>4, <1>8
    <2>2. OnVars(vars', vars'[u]) > 0
        BY DEF OnVars, If
    <2>3. Cnt(r, vars'[u]) > 0
        <3>1. OnStack(stack, vars'[u]) \in 0..2 /\ OnVars(vars', vars'[u]) \in 0..2
            BY Alive DEF OnVars, If
        <3>. QED  BY <1>6, <1>8, <2>2, <3>1
    <2>4. vars'[u] \in DOMAIN r
        BY <1>3, <2>3, Counts
    <2>. QED  BY <1>3, <2>1, <2>4
<1>. QED  BY <1>1, <1>7, <1>8 DEF Kept

LEMMA LoadKeeps ==
    ASSUME Owned, NEW v \in {1, 2}, Load(v) PROVE Owned' /\ Kept
<1>. DEFINE a == vars[v]   r == Ref(heap, a)
<1>1. /\ Len(stack) = 1 /\ a # 0 /\ heap' = r /\ stack' = Append(stack, a)
      /\ vars' = vars
    BY DEF Load
<1>2. a \in DOMAIN heap /\ a \in Nat \ {0} /\ stack \in Seq(Nat \ {0})
    BY <1>1, Alive DEF Owned
<1>3. /\ Sound(r) /\ DOMAIN r = DOMAIN heap
      /\ \A p : Cnt(r, p) = Cnt(heap, p) + If(p = a)
      /\ \A p \in DOMAIN heap : r[p].num = heap[p].num
    BY <1>2, RefCounts DEF Owned
<1>. HIDE DEF a, r
<1>4. /\ stack' \in Seq(Nat \ {0}) /\ Len(stack') = 2
      /\ stack'[1] = stack[1] /\ stack'[2] = a
    <2>1. PICK s : s = stack /\ s \in Seq(Nat \ {0}) /\ Len(s) = 1
        BY <1>1, <1>2
    <2>2. /\ Append(s, a) \in Seq(Nat \ {0}) /\ Len(Append(s, a)) = 2
          /\ Append(s, a)[1] = s[1] /\ Append(s, a)[2] = a
        <3>1. a \in Nat \ {0} /\ s \in Seq(Nat \ {0})
            BY <1>2, <2>1
        <3>2. /\ Append(s, a) \in Seq(Nat \ {0}) /\ Len(Append(s, a)) = Len(s) + 1
              /\ \A i \in 1..Len(s) : Append(s, a)[i] = s[i]
              /\ Append(s, a)[Len(s) + 1] = a
            BY <3>1, AppendProperties
        <3>. QED  BY <2>1, <3>2
    <2>. QED  BY <1>1, <2>1, <2>2
<1>5. \A p : OnStack(stack', p) = OnStack(stack, p) + If(p = a)
    BY <1>1, <1>4 DEF OnStack, If
<1>6. \A p : p # 0 => Cnt(r, p) = OnVars(vars, p) + OnStack(stack', p)
    <2>1. /\ \A p : p # 0 => Cnt(heap, p) = OnVars(vars, p) + OnStack(stack, p)
          /\ \A p : OnStack(stack, p) \in 0..2 /\ OnVars(vars, p) \in 0..2
        BY Alive DEF Owned
    <2>. QED  BY <1>3, <1>5, <2>1 DEF If
<1>7. Owned'
    BY <1>1, <1>3, <1>4, <1>6 DEF Owned
<1>8. Kept
    BY <1>1, <1>3, Alive DEF Kept
<1>. QED  BY <1>7, <1>8

LEMMA ReadsKeeps ==
    ASSUME Owned, NEW name, NEW text, NEW n, stack = <<>>,
           Reads(name, text, allocate(heap, n))
    PROVE  Owned' /\ Kept
<1>1. CASE UNCHANGED <<heap, vars, stack>>
    BY <1>1 DEF Owned, Kept
<1>2. CASE HasDigit(text.text)
    <2>. DEFINE w == allocate(heap, n)
    <2>1. heap' = w.heap /\ stack' = <<w.at>> /\ vars' = vars
        BY <1>2 DEF Reads
    <2>2. /\ Sound(w.heap) /\ w = At(w.heap, w.at) /\ w.at \in Nat \ {0}
          /\ \A p : Cnt(w.heap, p) = Cnt(heap, p) + If(p = w.at)
          /\ \A p \in DOMAIN heap : w.heap[p].num = heap[p].num
        BY AllocateCounts DEF Owned
    <2>. HIDE DEF w
    <2>3. stack' \in Seq(Nat \ {0}) /\ Len(stack') = 1 /\ stack'[1] = w.at
        BY <2>1, <2>2
    <2>4. \A p : OnStack(stack, p) = 0 /\ OnStack(stack', p) = If(p = w.at)
        BY <2>3, Alive DEF OnStack, If
    <2>5. \A p : p # 0 => Cnt(heap', p) = OnVars(vars', p) + OnStack(stack', p)
        BY <2>1, <2>2, <2>4, Alive DEF Owned, If
    <2>6. Owned'
        BY <2>1, <2>2, <2>3, <2>5 DEF Owned
    <2>7. Kept
        BY <2>1, <2>2, Alive DEF Kept
    <2>. QED  BY <2>6, <2>7
<1>. QED  BY <1>1, <1>2 DEF Reads

LEMMA BinaryKeeps == ASSUME Owned, Binary PROVE Owned' /\ Kept
<1>0. Two
    BY DEF Binary, Add, Sub, Mul, IDiv, Mod, Pow, Compare, UpScale, DownScale, Div, BitOp
<1>1. stack # <<>> /\ Both(heap, lhs, rhs) /\ Names(Argument)
    BY <1>0, Alive, ArgumentNamed DEF Two
<1>2. ASSUME NEW name, NEW o, Yields(name, o) PROVE Owned' /\ Kept
    BY <1>1, <1>2, YieldsKeeps
<1>3. ASSUME NEW name, NEW w, Consumes(heap, lhs, rhs, w), Returns(name, w)
      PROVE  Owned' /\ Kept
    BY <1>0, <1>3, TwoSpends, ReturnsKeeps
<1>4. ASSUME NEW name, NEW w, Uniq(Argument, w), NativeReturns(name, w)
      PROVE  Owned' /\ Kept
    <2>1. Spends(At(Dropped(w.heap), w.at))
        BY <1>1, <1>4, NativeSpends
    <2>. QED  BY <1>4, <2>1, ReturnsKeeps DEF NativeReturns
<1>5. CASE Add
    <2>1. Consumes(heap, lhs, rhs, number_add(heap, lhs, rhs))
        BY <1>1, SumsConsume DEF number_add
    <2>. QED  BY <1>3, <1>5, <2>1 DEF Add
<1>6. CASE Sub
    <2>1. Consumes(heap, lhs, rhs, number_sub(heap, lhs, rhs))
        BY <1>1, SumsConsume DEF number_sub
    <2>. QED  BY <1>3, <1>6, <2>1 DEF Sub
<1>7. CASE Mul
    BY <1>1, <1>3, <1>7, MulConsumes DEF Mul
<1>8. ASSUME NEW prec \in Precs, Div(prec) PROVE Owned' /\ Kept
    <2>1. Consumes(heap, lhs, rhs, number_div(heap, lhs, rhs, ntp_from_prec(prec)))
        BY <1>1, DivisionsConsume
    <2>. QED  BY <1>2, <1>3, <1>8, <2>1 DEF Div
<1>9. CASE IDiv
    <2>1. Consumes(heap, lhs, rhs, number_idiv(heap, lhs, rhs))
        BY <1>1, DivisionsConsume
    <2>. QED  BY <1>2, <1>3, <1>9, <2>1 DEF IDiv
<1>10. CASE Mod
    <2>1. Consumes(heap, lhs, rhs, number_imod(heap, lhs, rhs))
        BY <1>1, DivisionsConsume
    <2>. QED  BY <1>2, <1>3, <1>10, <2>1 DEF Mod
<1>11. CASE Pow
    <2>. DEFINE alone == At(Unref(heap, rhs), lhs)
    <2>1. Names(alone)
        <3>1. Sound(Unref(heap, rhs))
              /\ \A p : Cnt(Unref(heap, rhs), p) = Cnt(heap, p) - If(p = rhs)
            BY <1>1, UnrefCounts DEF Both
        <3>2. lhs \in DOMAIN Unref(heap, rhs)
            <4>1. Cnt(heap, lhs) > If(lhs = rhs)
                BY <1>1, Counts DEF Both, If
            <4>2. Cnt(Unref(heap, rhs), lhs) > 0
                BY <3>1, <4>1, Alive DEF If
            <4>. QED  BY <3>1, <4>2, Counts
        <3>. QED  BY <3>1, <3>2 DEF Names, At
    <2>2. Consumes(heap, lhs, rhs, alone)
        BY <1>1, <2>1, StandingStill, SoonerDropped
    <2>3. \A e : Consumes(heap, lhs, rhs, number_pow_zu(alone, e))
        BY <1>1, <2>1, PowMoves, SoonerDropped DEF Uniq
    <2>4. Consumes(heap, lhs, rhs, allocate(Dropped(heap), number_new_from_zu(1)))
        BY <1>0, <1>1, FreshConsumes DEF Dropped
    <2>. QED  BY <1>2, <1>3, <1>11, <2>2, <2>3, <2>4 DEF Pow
<1>12. ASSUME NEW f, BitOp(f) PROVE Owned' /\ Kept
    <2>1. \A n : Consumes(heap, lhs, rhs, allocate(Dropped(heap), n))
        BY <1>0, <1>1, FreshConsumes DEF Dropped
    <2>. QED  BY <1>3, <1>12, <2>1 DEF BitOp
<1>13. CASE Compare
    BY <1>2, <1>13 DEF Compare
<1>14. CASE UpScale
    <2>1. \A k : Uniq(Argument, number_scale_up(Argument, k))
        BY <1>1, ScaleUpMoves
    <2>. QED  BY <1>2, <1>4, <1>14, <2>1 DEF UpScale
<1>15. CASE DownScale
    <2>1. \A k : Uniq(Argument, number_scale_down(Argument, k))
        BY <1>1, ScaleDownMoves
    <2>. QED  BY <1>2, <1>4, <1>15, <2>1 DEF DownScale
<1>. QED  BY <1>5, <1>6, <1>7, <1>8, <1>9, <1>10, <1>11, <1>12, <1>13, <1>14, <1>15
          DEF Binary

LEMMA UnaryKeeps == ASSUME Owned, Unary PROVE Owned' /\ Kept
<1>0. One
    BY DEF Unary, Negate, Trunc, Floor, Ceil, Round, Frac, Scale, ToText, Write,
           NumDigits, Encode
<1>1. stack # <<>> /\ Names(Argument) /\ Names(At(heap, lhs))
    <2>1. stack # <<>>
        BY <1>0 DEF One
    <2>. QED  BY <2>1, Alive, ArgumentNamed DEF Names, At, Owned
<1>2. ASSUME NEW name, NEW o, Yields(name, o) PROVE Owned' /\ Kept
    BY <1>1, <1>2, YieldsKeeps
<1>3. ASSUME NEW name, NEW n, Returns(name, allocate(Dropped(heap), n))
      PROVE  Owned' /\ Kept
    BY <1>1, <1>3, FreshSpends, ReturnsKeeps
<1>4. ASSUME NEW name, NEW w, Uniq(Argument, w), NativeReturns(name, w)
      PROVE  Owned' /\ Kept
    <2>1. Spends(At(Dropped(w.heap), w.at))
        BY <1>1, <1>4, NativeSpends
    <2>. QED  BY <1>4, <2>1, ReturnsKeeps DEF NativeReturns
<1>5. CASE Negate
    <2>1. Moves(At(heap, lhs), number_negate(At(heap, lhs)))
        BY <1>1, RoundingMoves DEF Uniq
    <2>2. Spends(number_negate(At(heap, lhs)))
        BY <1>0, <2>1, OneSpends
    <2>. QED  BY <1>5, <2>2, ReturnsKeeps DEF Negate
<1>6. CASE Trunc
    BY <1>1, <1>4, <1>6, RoundingMoves DEF Trunc
<1>7. CASE Floor
    BY <1>1, <1>4, <1>7, RoundingMoves DEF Floor
<1>8. CASE Ceil
    BY <1>1, <1>4, <1>8, RoundingMoves DEF Ceil
<1>9. CASE Round
    BY <1>1, <1>4, <1>9, RoundingMoves DEF Round
<1>10. CASE Frac
    BY <1>1, <1>4, <1>10, RoundingMoves DEF Frac
<1>11. CASE Scale
    BY <1>2, <1>3, <1>11 DEF Scale
<1>12. CASE ToText \/ Write \/ \E base \in Bases, nfrac \in Precs : Encode(base, nfrac)
    BY <1>2, <1>12 DEF ToText, Write, Encode
<1>13. ASSUME NEW what, NumDigits(what) PROVE Owned' /\ Kept
    BY <1>3, <1>13 DEF NumDigits
<1>. QED  BY <1>5, <1>6, <1>7, <1>8, <1>9, <1>10, <1>11, <1>12, <1>13 DEF Unary

LEMMA StepKeeps == ASSUME Owned, [Next]_state PROVE Owned' /\ Kept
<1>1. CASE UNCHANGED state
    BY <1>1 DEF state, Owned, Kept
<1>2. CASE GoOn
    BY <1>2 DEF GoOn, Owned, Kept
<1>3. CASE Read
    <2>1. stack = <<>>
        BY <1>3 DEF Read, Reading
    <2>2. ASSUME NEW t, ToNumber(t) PROVE Owned' /\ Kept
        BY <2>1, <2>2, ReadsKeeps DEF ToNumber
    <2>3. ASSUME NEW t, NEW base, NEW prec, Decode(t, base, prec) PROVE Owned' /\ Kept
        BY <2>1, <2>3, ReadsKeeps DEF Decode
    <2>. QED  BY <1>3, <2>2, <2>3 DEF Read
<1>. QED  BY <1>1, <1>2, <1>3, ForgetKeeps, LoadKeeps, BinaryKeeps, UnaryKeeps DEF Next

LEMMA OneOrTwo ==
    /\ Cardinality({}) = 0 /\ Cardinality({1}) = 1
    /\ Cardinality({2}) = 1 /\ Cardinality({1, 2}) = 2
    /\ IsFiniteSet({1, 2})
<1>1. Cardinality({}) = 0
    BY FS_EmptySet
<1>2. IsFiniteSet({1}) /\ Cardinality({1}) = 1 /\ Cardinality({2}) = 1
    BY FS_Singleton
<1>3. IsFiniteSet({1} \union {2}) /\ Cardinality({1} \union {2}) = 2
    <2>1. 2 \notin {1}
        OBVIOUS
    <2>. QED  BY <1>2, <2>1, FS_AddElement
<1>4. {1} \union {2} = {1, 2}
    OBVIOUS
<1>. QED  BY <1>1, <1>2, <1>3, <1>4

LEMMA InitOwned == ASSUME Init PROVE Owned
<1>1. ASSUME NEW x, NEW y,
             heap = <<[nrefs |-> 2, num |-> x], [nrefs |-> 2, num |-> y]>>,
             vars = <<1, 2>>, stack = <<1, 2>>
      PROVE  Owned
    <2>1. /\ DOMAIN heap = {1, 2} /\ heap = [p \in DOMAIN heap |-> heap[p]]
          /\ heap[1] = [nrefs |-> 2, num |-> x] /\ heap[2] = [nrefs |-> 2, num |-> y]
        BY <1>1
    <2>2. IsFiniteSet({1, 2})
        BY OneOrTwo
    <2>3. Sound(heap)
        BY <2>1, <2>2 DEF Sound
    <2>4. \A p : Cnt(heap, p) = If(p = 1) + If(p = 1) + If(p = 2) + If(p = 2)
        BY <2>1 DEF Cnt, If
    <2>5. \A p : OnVars(vars, p) = If(p = 1) + If(p = 2)
        BY <1>1 DEF OnVars, If
    <2>6. \A p : OnStack(stack, p) = If(p = 1) + If(p = 2)
        BY <1>1 DEF OnStack, If
    <2>7. /\ vars \in [{1, 2} -> Nat]
          /\ stack \in Seq(Nat \ {0}) /\ Len(stack) <= 2
        BY <1>1
    <2>8. \A p : Cnt(heap, p) = OnVars(vars, p) + OnStack(stack, p)
        BY <2>4, <2>5, <2>6 DEF If
    <2>. QED  BY <2>3, <2>7, <2>8 DEF Owned
<1>2. ASSUME NEW x, heap = <<[nrefs |-> 2, num |-> x]>>, vars = <<1, 0>>, stack = << 1 >>
      PROVE  Owned
    <2>1. /\ DOMAIN heap = {1} /\ heap = [p \in DOMAIN heap |-> heap[p]]
          /\ heap[1] = [nrefs |-> 2, num |-> x]
        BY <1>2
    <2>2. IsFiniteSet({1})
        BY FS_Singleton
    <2>3. Sound(heap)
        BY <2>1, <2>2 DEF Sound
    <2>4. \A p : Cnt(heap, p) = If(p = 1) + If(p = 1)
        BY <2>1 DEF Cnt, If
    <2>5. \A p : OnVars(vars, p) = If(p = 1) + If(p = 0)
        BY <1>2 DEF OnVars, If
    <2>6. \A p : OnStack(stack, p) = If(p = 1)
        BY <1>2 DEF OnStack, If
    <2>7. /\ vars \in [{1, 2} -> Nat]
          /\ stack \in Seq(Nat \ {0}) /\ Len(stack) <= 2
        BY <1>2
    <2>8. \A p : p # 0 => Cnt(heap, p) = OnVars(vars, p) + OnStack(stack, p)
        BY <2>4, <2>5, <2>6 DEF If
    <2>. QED  BY <2>3, <2>7, <2>8 DEF Owned
<1>3. ASSUME heap = <<>>, vars = <<0, 0>>, stack = <<>> PROVE Owned
    <2>1. DOMAIN heap = {} /\ heap = [p \in DOMAIN heap |-> heap[p]]
        BY <1>3
    <2>2. Sound(heap)
        BY <2>1, FS_EmptySet DEF Sound
    <2>3. \A p : Cnt(heap, p) = 0
        BY <2>1 DEF Cnt
    <2>4. \A p : OnVars(vars, p) = If(p = 0) + If(p = 0) /\ OnStack(stack, p) = 0
        BY <1>3 DEF OnVars, OnStack, If
    <2>5. vars \in [{1, 2} -> Nat] /\ stack \in Seq(Nat \ {0}) /\ Len(stack) <= 2
        BY <1>3
    <2>. QED  BY <2>2, <2>3, <2>4, <2>5 DEF Owned, If
<1>. QED  BY <1>1, <1>2, <1>3 DEF Init

-----------------------------------------------------------------------------
(* The invariant in terms of the run's, which counts with sets.             *)
LEMMA OnVarsCounts ==
    ASSUME Owned, NEW p
    PROVE  Cardinality({v \in {1, 2} : vars[v] = p}) = OnVars(vars, p)
<1>. DEFINE S == {v \in {1, 2} : vars[v] = p}
<1>1. CASE vars[1] = p /\ vars[2] = p
    <2>1. S = {1, 2}
        BY <1>1
    <2>. QED  BY <1>1, <2>1, OneOrTwo DEF OnVars, If
<1>2. CASE vars[1] = p /\ vars[2] # p
    <2>1. S = {1}
        BY <1>2
    <2>. QED  BY <1>2, <2>1, OneOrTwo DEF OnVars, If
<1>3. CASE vars[1] # p /\ vars[2] = p
    <2>1. S = {2}
        BY <1>3
    <2>. QED  BY <1>3, <2>1, OneOrTwo DEF OnVars, If
<1>4. CASE vars[1] # p /\ vars[2] # p
    <2>1. S = {}
        BY <1>4
    <2>. QED  BY <1>4, <2>1, OneOrTwo DEF OnVars, If
<1>. QED  BY <1>1, <1>2, <1>3, <1>4

LEMMA OnStackCounts ==
    ASSUME Owned, NEW p
    PROVE  Cardinality({i \in DOMAIN stack : stack[i] = p}) = OnStack(stack, p)
<1>. DEFINE S == {i \in DOMAIN stack : stack[i] = p}
            one == Len(stack) >= 1 /\ stack[1] = p
            two == Len(stack) = 2 /\ stack[2] = p
<1>1. DOMAIN stack = 1..Len(stack) /\ Len(stack) \in {0, 1, 2}
    <2>1. stack \in Seq(Nat \ {0})
        BY DEF Owned
    <2>2. Len(stack) = 0 <=> stack = <<>>
        BY <2>1, EmptySeq, Zenon
    <2>3. Len(stack) \in {0, 1, 2}
        BY <2>2, Alive, Zenon
    <2>4. DOMAIN stack = 1..Len(stack)
        BY <2>1
    <2>. QED  BY <2>3, <2>4
<1>2. \A i : i \in S <=> (i = 1 /\ one) \/ (i = 2 /\ two)
    BY <1>1
<1>3. OnStack(stack, p) = If(one) + If(two)
    BY DEF OnStack
<1>. HIDE DEF S, one, two
<1>4. CASE one /\ two
    <2>1. S = {1, 2}
        BY <1>2, <1>4
    <2>. QED  BY <1>3, <1>4, <2>1, OneOrTwo DEF If, S
<1>5. CASE one /\ ~two
    <2>1. S = {1}
        BY <1>2, <1>5
    <2>. QED  BY <1>3, <1>5, <2>1, OneOrTwo DEF If, S
<1>6. CASE ~one /\ two
    <2>1. S = {2}
        BY <1>2, <1>6
    <2>. QED  BY <1>3, <1>6, <2>1, OneOrTwo DEF If, S
<1>7. CASE ~one /\ ~two
    <2>1. S = {}
        BY <1>2, <1>7
    <2>. QED  BY <1>3, <1>7, <2>1, OneOrTwo DEF If, S
<1>. QED  BY <1>4, <1>5, <1>6, <1>7

LEMMA OwnedCounts == ASSUME Owned PROVE CountsExact
<1>1. ASSUME NEW p \in DOMAIN heap
      PROVE  heap[p].nrefs = OnVars(vars, p) + OnStack(stack, p)
    BY <1>1, Alive DEF Owned, Cnt
<1>. QED  BY <1>1, OnVarsCounts, OnStackCounts DEF CountsExact

(* Whatever sequence of operators, natives and assignments a program runs,
   and whichever of its operands an operation writes into, a number counts
   the references that variables and the pad have to it, and is freed with
   the last (vm.h:135-144 and every value_unref in number.c).               *)
THEOREM ReferencesExact == Spec => []CountsExact
<1>1. Init => Owned
    BY InitOwned
<1>2. Owned /\ [Next]_state => Owned'
    BY StepKeeps
<1>3. Owned => CountsExact
    BY OwnedCounts
<1>. QED  BY <1>1, <1>2, <1>3, PTL DEF Spec

(* mkuniq (number.c) is enough: no operation writes into what a variable
   refers to, not even one that has the same number as both operands or that
   drops an operand before it has read the other.                           *)
THEOREM VariablesNeverWritten == Spec => VariablesKept
<1>1. Init => Owned
    BY InitOwned
<1>2. Owned /\ [Next]_state => Owned' /\ Kept
    BY StepKeeps
<1>3. Owned /\ [Next]_state => [\A v \in {1, 2} :
          vars'[v] # 0 => heap'[vars'[v]].num = heap[vars[v]].num]_state
    BY <1>2 DEF Kept
<1>. QED  BY <1>1, <1>2, <1>3, PTL DEF Spec, VariablesKept
=============================================================================
