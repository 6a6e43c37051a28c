------------------------------ MODULE XhtProofs ------------------------------
(***************************************************************************)
(* Proofs about Xht: the limits of the hash table hold for every set of    *)
(* keys, every hash function and every width of an index.  After them, the *)
(* chains of a table apart from the table: what putting an index in front  *)
(* of a chain, taking one out and renaming one do to the others.  Then     *)
(* that Xht is a map: its chains stay sound and it implements KeyMap.      *)
(***************************************************************************)
EXTENDS Xht, FiniteSetTheorems, SequenceTheorems, FunctionTheorems, WellFoundedInduction,
        TLAPS

(* A table with n buckets: what RoomLeft needs to stay true, whatever the
   chains look like.                                                        *)
Table(t, n) ==
    /\ n \in Nat \ {0} /\ DOMAIN t.buckets = 0..(n - 1) /\ n < U32
    /\ \E S : t.items \in Seq(S)
    /\ t.capacity \in Nat /\ t.capacity < U32
    /\ Len(t.items) <= t.capacity /\ 4 * Len(t.items) <= 3 * n
    /\ t = [items |-> t.items, buckets |-> t.buckets, capacity |-> t.capacity]

Inv == U32 \in Nat \ {0, 1} /\ \E n : Table(ht, n)

-----------------------------------------------------------------------------
(* The number of buckets is what the interval of their indices says.        *)
LEMMA BucketsCounted ==
    ASSUME NEW t, NEW n \in Nat \ {0}, DOMAIN t.buckets = 0..(n - 1)
    PROVE  NBuckets(t) = n
<1>1. 0 \in Int /\ n - 1 \in Int
    OBVIOUS
<1>2. Cardinality(0..(n - 1)) = IF 0 > n - 1 THEN 0 ELSE (n - 1) - 0 + 1
    BY <1>1, FS_Interval
<1>. QED  BY <1>2 DEF NBuckets

(* Writing into an array changes neither its length nor that it is one.     *)
LEMMA Overwriting ==
    ASSUME NEW S, NEW s \in Seq(S), NEW i, NEW x
    PROVE  /\ [s EXCEPT ![i] = x] \in Seq(S \union {x})
           /\ Len([s EXCEPT ![i] = x]) = Len(s)
<1>1. s \in Seq(S \union {x})
    <2>1. \A j \in 1..Len(s) : s[j] \in S \union {x}
        OBVIOUS
    <2>. QED  BY <2>1
<1>2. CASE i \in 1..Len(s)
    BY <1>1, <1>2, ExceptSeq
<1>3. CASE i \notin 1..Len(s)
    <2>1. DOMAIN s = 1..Len(s)
        OBVIOUS
    <2>2. [s EXCEPT ![i] = x] = s
        BY <1>3, <2>1
    <2>. QED  BY <1>1, <2>2
<1>. QED  BY <1>2, <1>3

-----------------------------------------------------------------------------
(* The parts of an insertion and of a removal.                              *)
LEMMA TableSound ==
    ASSUME NEW n, U32 \in Nat \ {0, 1}, Table(ht, n)
    PROVE  RoomLeft
<1>1. NBuckets(ht) = n
    BY BucketsCounted DEF Table
<1>2. Len(ht.items) \in Nat
    BY DEF Table
<1>. QED  BY <1>1, <1>2 DEF Table, RoomLeft, Overloaded, Size

(* xht_insert_new_unchecked, where overflow_handler is not called.          *)
LEMMA InsertedTable ==
    ASSUME NEW t, NEW n, NEW k, NEW v, U32 \in Nat \ {0, 1},
           Table(t, n), ~Panics(t, k, v)
    PROVE  \E m : Table(Inserted(t, k, v), m)
<1>. DEFINE a == Appended(t, k, v)
<1>. DEFINE item == [key |-> k, value |-> v,
                     next |-> t.buckets[BucketOf(t, Hash[k])], hash |-> Hash[k]]
<1>1. PICK S : t.items \in Seq(S)
    BY DEF Table
<1>2. /\ a.items = Append(t.items, item)
      /\ DOMAIN a.buckets = DOMAIN t.buckets
      /\ a.capacity = IF Size(t) = t.capacity THEN NewCapacity(t.capacity) ELSE t.capacity
      /\ a = [items |-> a.items, buckets |-> a.buckets, capacity |-> a.capacity]
    BY DEF Appended
<1>3. Append(t.items, item) \in Seq(S \union {item}) /\ Len(a.items) = Len(t.items) + 1
    <2>1. t.items \in Seq(S \union {item})
        BY <1>1, \A j \in 1..Len(t.items) : t.items[j] \in S \union {item}
    <2>. QED  BY <1>2, <2>1
<1>4. a.capacity \in Nat /\ a.capacity < U32 /\ Len(a.items) <= a.capacity
    <2>. Len(t.items) \in Nat /\ t.capacity \in Nat
        BY <1>1 DEF Table
    <2>1. CASE Size(t) # t.capacity
        BY <1>2, <1>3, <2>1 DEF Table, Size
    <2>2. CASE Size(t) = t.capacity
        <3>1. t.capacity # U32 - 1
            BY <2>2 DEF Panics
        <3>2. a.capacity = NewCapacity(t.capacity)
            BY <1>2, <2>2
        <3>3. Len(a.items) = t.capacity + 1
            BY <1>3, <2>2 DEF Size
        <3>4. t.capacity < U32
            BY DEF Table
        <3>. HIDE DEF a
        <3>5. CASE t.capacity = 0
            BY <3>2, <3>3, <3>5 DEF NewCapacity
        <3>6. CASE t.capacity # 0 /\ 2 * t.capacity >= U32
            BY <3>1, <3>2, <3>3, <3>4, <3>6 DEF NewCapacity
        <3>7. CASE t.capacity # 0 /\ 2 * t.capacity < U32
            BY <3>2, <3>3, <3>4, <3>7 DEF NewCapacity
        <3>. QED  BY <3>5, <3>6, <3>7
    <2>. QED  BY <2>1, <2>2
<1>5. n \in Nat \ {0} /\ DOMAIN a.buckets = 0..(n - 1) /\ n < U32
    BY <1>2 DEF Table
<1>6. NBuckets(t) = n /\ NBuckets(a) = n
    BY <1>5, <1>2, BucketsCounted
<1>. HIDE DEF a, item
<1>7. CASE ~Overloaded(a)
    <2>1. 4 * Len(a.items) <= 3 * n
        BY <1>1, <1>3, <1>5, <1>6, <1>7 DEF Overloaded, Size
    <2>2. Inserted(t, k, v) = a
        BY <1>7 DEF Inserted, a
    <2>3. Table(a, n)
        BY <1>2, <1>3, <1>4, <1>5, <2>1 DEF Table
    <2>. QED  BY <2>2, <2>3
<1>8. CASE Overloaded(a)
    <2>. DEFINE r == Regrown(a)
    <2>1. Inserted(t, k, v) = r
        BY <1>8 DEF Inserted, a
    <2>2. 2 * n < U32
        BY <1>5, <1>6, <1>8 DEF Panics, a
    <2>3. Len(a.items) \in Nat
        BY <1>1, <1>3
    <2>4. /\ DOMAIN r.buckets = 0..(2 * n - 1)
          /\ r.items = [i \in 1..Len(a.items) |-> r.items[i]]
          /\ r.capacity = a.capacity
          /\ r = [items |-> r.items, buckets |-> r.buckets, capacity |-> r.capacity]
        <3>1. PICK nb, items, buckets :
                 /\ nb = 2 * NBuckets(a)
                 /\ buckets = [b \in 0..(nb - 1) |-> LastIn(a.items, nb, b, Size(a))]
                 /\ items = [i \in 1..Size(a) |->
                               [a.items[i] EXCEPT
                                 !.next = LastIn(a.items, nb, a.items[i].hash % nb, i - 1)]]
                 /\ r = [a EXCEPT !.buckets = buckets, !.items = items]
            BY DEF Regrown
        <3>2. r = [items |-> items, buckets |-> buckets, capacity |-> a.capacity]
            <4>1. a = [items |-> a.items, buckets |-> a.buckets, capacity |-> a.capacity]
                BY <1>2
            <4>. QED  BY <3>1, <4>1
        <3>3. DOMAIN buckets = 0..(2 * n - 1)
            BY <3>1, <1>6
        <3>4. items = [i \in 1..Len(a.items) |-> items[i]]
            BY <3>1 DEF Size
        <3>. QED  BY <3>2, <3>3, <3>4
    <2>5. /\ r.items \in Seq({r.items[i] : i \in 1..Len(a.items)})
          /\ Len(r.items) = Len(a.items)
        <3>. DEFINE V == {r.items[i] : i \in 1..Len(a.items)}
        <3>1. r.items \in [1..Len(a.items) -> V]
            BY <2>4
        <3>. HIDE DEF V, r
        <3>2. r.items \in Seq(V) /\ Len(r.items) = Len(a.items)
            BY <2>3, <3>1
        <3>. QED  BY <3>2 DEF V
    <2>6. 4 * Len(a.items) <= 3 * (2 * n)
        <3>1. Len(t.items) \in Nat /\ 4 * Len(t.items) <= 3 * n /\ n >= 1
            BY <1>1, <1>5 DEF Table
        <3>2. t.capacity \in Nat /\ Len(a.items) = Len(t.items) + 1
            BY <1>3 DEF Table
        <3>. QED  BY <3>1, <3>2, <1>5
    <2>. HIDE DEF r
    <2>7. Table(r, 2 * n)
        <3>1. 2 * n \in Nat \ {0}
            BY <1>5
        <3>2. \E V : r.items \in Seq(V)
            BY <2>5
        <3>3. r.capacity \in Nat /\ r.capacity < U32 /\ Len(r.items) <= r.capacity
            BY <1>4, <2>4, <2>5
        <3>4. 4 * Len(r.items) <= 3 * (2 * n)
            BY <2>5, <2>6
        <3>. QED  BY <2>2, <2>4, <3>1, <3>2, <3>3, <3>4 DEF Table
    <2>. QED  BY <2>1, <2>7
<1>. QED  BY <1>7, <1>8

(* pop_item_at_index, after the item has been taken out of its chain.       *)
LEMMA LinkSetTable ==
    ASSUME NEW t, NEW n, NEW b, NEW i, NEW to, Table(t, n)
    PROVE  Table(SetLink(t, b, i, to), n) /\ Size(SetLink(t, b, i, to)) = Size(t)
<1>. DEFINE r == SetLink(t, b, i, to)
<1>1. t = [items |-> t.items, buckets |-> t.buckets, capacity |-> t.capacity]
    BY DEF Table
<1>2. CASE i = 0
    <2>1. r = [items |-> t.items, buckets |-> [t.buckets EXCEPT ![b] = to],
               capacity |-> t.capacity]
        BY <1>1, <1>2 DEF SetLink
    <2>2. DOMAIN r.buckets = DOMAIN t.buckets
        BY <2>1
    <2>. QED  BY <2>1, <2>2 DEF Table, Size
<1>3. CASE i # 0
    <2>1. PICK x : r = [items |-> [t.items EXCEPT ![Path(t, b)[i - 1]] = x],
                        buckets |-> t.buckets, capacity |-> t.capacity]
        BY <1>1, <1>3 DEF SetLink
    <2>2. PICK S : t.items \in Seq(S)
        BY DEF Table
    <2>. DEFINE items == [t.items EXCEPT ![Path(t, b)[i - 1]] = x]
    <2>3. items \in Seq(S \union {x}) /\ Len(items) = Len(t.items)
        BY <2>2, Overwriting
    <2>. HIDE DEF items
    <2>4. r = [items |-> items, buckets |-> t.buckets, capacity |-> t.capacity]
        BY <2>1 DEF items
    <2>. QED  BY <2>3, <2>4 DEF Table, Size
<1>. QED  BY <1>2, <1>3

LEMMA PoppedTable ==
    ASSUME NEW t, NEW n, NEW idx, Table(t, n)
    PROVE  Table(Popped(t, idx), n)
<1>. DEFINE b  == BucketOf(t, t.items[Size(t)].hash)
            m  == Min({j \in 0..Size(t) : Path(t, b)[j] = Size(t)})
            rd == SetLink(t, b, m, idx)
            mv == IF idx = Size(t) THEN t
                  ELSE [rd EXCEPT !.items[idx] = rd.items[Size(t)]]
<1>1. Popped(t, idx) = [mv EXCEPT !.items = SubSeq(@, 1, Size(t) - 1)]
    BY DEF Popped
<1>2. Table(rd, n) /\ Size(rd) = Size(t)
    BY LinkSetTable
<1>. HIDE DEF rd
<1>3. Table(mv, n) /\ Size(mv) = Size(t)
    <2>1. PICK S : rd.items \in Seq(S)
        BY <1>2 DEF Table
    <2>. DEFINE x == rd.items[Size(t)]
    <2>2. /\ [rd.items EXCEPT ![idx] = x] \in Seq(S \union {x})
          /\ Len([rd.items EXCEPT ![idx] = x]) = Len(rd.items)
        BY <2>1, Overwriting
    <2>3. rd = [items |-> rd.items, buckets |-> rd.buckets, capacity |-> rd.capacity]
        BY <1>2 DEF Table
    <2>4. [rd EXCEPT !.items[idx] = x]
            = [items |-> [rd.items EXCEPT ![idx] = x],
               buckets |-> rd.buckets, capacity |-> rd.capacity]
        BY <2>3
    <2>5. Table([rd EXCEPT !.items[idx] = x], n)
          /\ Size([rd EXCEPT !.items[idx] = x]) = Size(t)
        BY <1>2, <2>2, <2>4 DEF Table, Size
    <2>. QED  BY <2>5
<1>. HIDE DEF mv
<1>4. PICK S : mv.items \in Seq(S)
    BY <1>3 DEF Table
<1>5. /\ SubSeq(mv.items, 1, Size(t) - 1) \in Seq(S)
      /\ Len(SubSeq(mv.items, 1, Size(t) - 1)) <= Size(t)
    <2>1. Len(mv.items) = Size(t) /\ Size(t) \in Nat
        BY <1>3, <1>4 DEF Size
    <2>. QED  BY <1>4, <2>1
<1>6. [mv EXCEPT !.items = SubSeq(@, 1, Size(t) - 1)]
        = [items |-> SubSeq(mv.items, 1, Size(t) - 1),
           buckets |-> mv.buckets, capacity |-> mv.capacity]
    <2>1. PICK i, bs, c : mv = [items |-> i, buckets |-> bs, capacity |-> c]
        BY <1>3 DEF Table
    <2>2. mv.items = i /\ mv.buckets = bs /\ mv.capacity = c
        BY <2>1
    <2>3. \A z : [mv EXCEPT !.items = z] = [items |-> z, buckets |-> bs, capacity |-> c]
        BY <2>1
    <2>. QED  BY <2>2, <2>3, Zenon
<1>7. Size(t) \in Nat /\ Len(mv.items) = Size(t)
    BY <1>3, <1>4 DEF Size
<1>. QED
    <2>. DEFINE r == Popped(t, idx)
    <2>1. /\ r.items \in Seq(S) /\ Len(r.items) <= Size(t) /\ Len(r.items) \in Nat
          /\ r.buckets = mv.buckets /\ r.capacity = mv.capacity
          /\ r = [items |-> r.items, buckets |-> r.buckets, capacity |-> r.capacity]
        BY <1>1, <1>5, <1>6
    <2>. HIDE DEF r
    <2>2. Table(r, n)
        BY <1>3, <1>7, <2>1 DEF Table
    <2>. QED  BY <2>2 DEF r

-----------------------------------------------------------------------------
(* Inv is inductive.                                                        *)
LEMMA InvInit == ASSUME XhtAssumption, Init PROVE Inv
<1>1. ht = [items |-> <<>>, buckets |-> [b \in {0} |-> End], capacity |-> 0]
    BY DEF Init, NewTable
<1>2. U32 \in Nat \ {0, 1}
    BY DEF Init, XhtAssumption
<1>3. DOMAIN ht.buckets = 0..(1 - 1) /\ ht.items = <<>> /\ ht.capacity = 0
    BY <1>1
<1>4. ht.items \in Seq({}) /\ Len(ht.items) = 0
    BY <1>3
<1>5. Table(ht, 1)
    BY <1>1, <1>2, <1>3, <1>4 DEF Table
<1>. QED  BY <1>2, <1>5 DEF Inv

LEMMA InvNext == ASSUME Inv, [Next]_vars PROVE Inv'
<1>. PICK n : Table(ht, n)
    BY DEF Inv
<1>1. U32' = U32
    BY DEF Next, Put, Get, Remove, First, NextKey, vars
<1>2. (\E m : Table(ht', m)) => Inv'
    BY <1>1 DEF Inv, Table
<1>3. CASE ht' = ht
    BY <1>2, <1>3
<1>4. ASSUME NEW k \in Key, NEW v \in Val, Put(k, v)
      PROVE  \E m : Table(ht', m)
    <2>1. CASE Has(ht, k)
        <3>1. PICK x : ht' = [items |-> [ht.items EXCEPT ![IndexOf(ht, k)] = x],
                              buckets |-> ht.buckets, capacity |-> ht.capacity]
            BY <1>4, <2>1 DEF Put, Table
        <3>2. PICK S : ht.items \in Seq(S)
            BY DEF Table
        <3>. DEFINE items == [ht.items EXCEPT ![IndexOf(ht, k)] = x]
        <3>3. items \in Seq(S \union {x}) /\ Len(items) = Len(ht.items)
            BY <3>2, Overwriting
        <3>. HIDE DEF items
        <3>4. ht' = [items |-> items, buckets |-> ht.buckets, capacity |-> ht.capacity]
            BY <3>1 DEF items
        <3>5. Table(ht', n)
            BY <3>3, <3>4 DEF Table
        <3>. QED  BY <3>5
    <2>2. CASE ~Has(ht, k) /\ Panics(ht, k, v)
        BY <1>4, <2>2 DEF Put
    <2>3. CASE ~Has(ht, k) /\ ~Panics(ht, k, v)
        <3>1. ht' = Inserted(ht, k, v)
            BY <1>4, <2>3 DEF Put
        <3>2. U32 \in Nat \ {0, 1}
            BY DEF Inv
        <3>. QED  BY <2>3, <3>1, <3>2, InsertedTable
    <2>. QED  BY <2>1, <2>2, <2>3
<1>5. ASSUME NEW k \in Key, Remove(k)
      PROVE  \E m : Table(ht', m)
    <2>1. CASE ~Has(ht, k)
        BY <1>5, <2>1 DEF Remove
    <2>2. CASE Has(ht, k)
        <3>. DEFINE u == Unlinked(ht, k)
        <3>1. ht' = Popped(u, IndexOf(ht, k))
            BY <1>5, <2>2 DEF Remove, Removed
        <3>2. Table(u, n) /\ Size(u) = Size(ht)
            BY LinkSetTable DEF Unlinked
        <3>. QED  BY <3>1, <3>2, PoppedTable
    <2>. QED  BY <2>1, <2>2
<1>. QED  BY <1>2, <1>3, <1>4, <1>5 DEF Next, Get, First, NextKey, vars

(* A table never has more items than room for them, nor so many items or
   buckets that an index could be taken for the end of a chain, whatever is
   inserted and removed: xht_put panics before.                             *)
THEOREM LimitsKept == Spec => []RoomLeft
<1>1. Init => Inv
    BY InvInit, XhtAssumption
<1>2. Inv /\ [Next]_vars => Inv'
    BY InvNext
<1>3. Inv => RoomLeft
    BY TableSound DEF Inv
<1>. QED  BY <1>1, <1>2, <1>3, PTL DEF Spec

-----------------------------------------------------------------------------
(* The chain from head along nxt visits c[0], ..., c[m - 1], which are the
   members of S, each once, and then ends.                                  *)
Links(c, m, head, nxt, S) ==
    /\ m \in Nat /\ c \in [Nat -> Nat] /\ c[0] = head
    /\ \A n \in Nat : n < m => c[n] \in S /\ nxt[c[n]] = c[n + 1]
    /\ \A n \in Nat : n >= m => c[n] = End
    /\ \A i \in S : i # End /\ \E n \in Nat : n < m /\ c[n] = i
    /\ \A j, n \in Nat : j < m /\ n < m /\ c[j] = c[n] => j = n

(* The same with x in front, without the link at p, and with x for it.      *)
Front(c, x)     == [n \in Nat |-> IF n = 0 THEN x ELSE c[n - 1]]
Skip(c, p)      == [n \in Nat |-> IF n < p THEN c[n] ELSE c[n + 1]]
Rename(c, p, x) == [n \in Nat |-> IF n = p THEN x ELSE c[n]]

(* The link to the p-th link of c, from the head or from the link before it,
   now leads to `to`; the others are as they were.                          *)
NewHead(p, head, to) == IF p = 0 THEN to ELSE head
Relinked(c, m, p, nxt, nxt2, to) ==
    \A n \in Nat : n < m /\ n # p => nxt2[c[n]] = IF n + 1 = p THEN to ELSE nxt[c[n]]

-----------------------------------------------------------------------------
(* Every set of naturals that is not empty has a least member: induction, for
   one formula at a time.                                                   *)
LEMMA LeastNat ==
    ASSUME NEW S, S \subseteq Nat, S # {}
    PROVE  \E n \in S : \A m \in S : n <= m
<1>1. IsWellFoundedOn(OpToRel(<, Nat), Nat)
    BY NatLessThanWellFounded
<1>2. PICK n \in S : \A m \in S : ~ (<<m, n>> \in OpToRel(<, Nat))
    BY <1>1, WFMin
<1>3. \A m \in S : ~ (m < n)
    BY <1>2 DEF OpToRel
<1>. QED  BY <1>3

(* Two functions on an interval from 0 that agree at 0, and at every n where
   they agree at n - 1, are equal.                                          *)
Agree(f, g, N) == \A n \in 0..N : f[n] = g[n]
KeepAgreeing(f, g, N) ==
    f[0] = g[0] /\ \A n \in 1..N : f[n - 1] = g[n - 1] => f[n] = g[n]

LEMMA SameByInduction ==
    ASSUME NEW N \in Nat, NEW f, NEW g, KeepAgreeing(f, g, N)
    PROVE  Agree(f, g, N)
<1>. DEFINE S == {n \in 0..N : f[n] # g[n]}
<1>. SUFFICES ASSUME S # {} PROVE FALSE
    BY DEF Agree
<1>0. S \subseteq Nat
    OBVIOUS
<1>1. PICK n \in S : \A m \in S : n <= m
    <2>. HIDE DEF S
    <2>. QED  BY <1>0, LeastNat
<1>2. n \in 0..N /\ f[n] # g[n] /\ n # 0
    BY <1>1 DEF KeepAgreeing
<1>3. n \in 1..N /\ n - 1 \in 0..N /\ n - 1 \notin S
    BY <1>1, <1>2
<1>4. f[n - 1] = g[n - 1]
    BY <1>3
<1>. QED  BY <1>2, <1>3, <1>4 DEF KeepAgreeing

-----------------------------------------------------------------------------
(* No link.                                                                 *)
LEMMA LinksNone ==
    ASSUME NEW nxt
    PROVE  Links([n \in Nat |-> End], 0, End, nxt, {})
BY DEF Links, End

(* The same links, wherever else the other items lead.                      *)
LEMMA LinksSame ==
    ASSUME NEW c, NEW m, NEW head, NEW nxt, NEW S, Links(c, m, head, nxt, S),
           NEW nxt2, \A i \in S : nxt2[i] = nxt[i]
    PROVE  Links(c, m, head, nxt2, S)
BY DEF Links

(* x in front of the chain.                                                 *)
LEMMA LinksFront ==
    ASSUME NEW c, NEW m, NEW head, NEW nxt, NEW S, Links(c, m, head, nxt, S),
           NEW x \in Nat, x # End, x \notin S,
           NEW nxt2, \A i \in S : nxt2[i] = nxt[i], nxt2[x] = head
    PROVE  Links(Front(c, x), m + 1, x, nxt2, S \union {x})
<1>. DEFINE c2 == Front(c, x)
<1>1. m \in Nat /\ c \in [Nat -> Nat] /\ c2 \in [Nat -> Nat]
    BY DEF Links, Front
<1>2. c2[0] = x /\ \A n \in Nat : c2[n + 1] = c[n]
    BY <1>1 DEF Front
<1>3. \A n \in Nat : n = 0 \/ (n - 1 \in Nat /\ c2[n] = c[n - 1])
    BY <1>1 DEF Front
<1>. HIDE DEF c2
<1>4. ASSUME NEW n \in Nat, n < m + 1
      PROVE  c2[n] \in S \union {x} /\ nxt2[c2[n]] = c2[n + 1]
    <2>1. CASE n = 0
        BY <1>1, <1>2, <2>1 DEF Links
    <2>2. CASE n # 0
        <3>1. n - 1 \in Nat /\ n - 1 < m /\ n - 1 + 1 = n
            BY <1>1, <1>4, <2>2
        <3>2. c2[n] = c[n - 1] /\ c2[n + 1] = c[n]
            BY <1>2, <3>1
        <3>3. c[n - 1] \in S /\ nxt[c[n - 1]] = c[n]
            BY <3>1 DEF Links
        <3>. QED  BY <3>2, <3>3
    <2>. QED  BY <2>1, <2>2
<1>5. \A n \in Nat : n >= m + 1 => c2[n] = End
    BY <1>1, <1>3 DEF Links
<1>6. \A i \in S \union {x} : i # End /\ \E n \in Nat : n < m + 1 /\ c2[n] = i
    <2>1. ASSUME NEW i \in S PROVE i # End /\ \E n \in Nat : n < m + 1 /\ c2[n] = i
        <3>1. PICK n \in Nat : n < m /\ c[n] = i
            BY DEF Links
        <3>2. n + 1 \in Nat /\ n + 1 < m + 1 /\ c2[n + 1] = i
            BY <1>1, <1>2, <3>1
        <3>. QED  BY <3>2 DEF Links
    <2>2. 0 < m + 1 /\ 0 \in Nat
        BY <1>1
    <2>. QED  BY <1>2, <2>1, <2>2
<1>7. \A j, n \in Nat : j < m + 1 /\ n < m + 1 /\ c2[j] = c2[n] => j = n
    <2>. SUFFICES ASSUME NEW j \in Nat, NEW n \in Nat, j < m + 1, n < m + 1, c2[j] = c2[n]
                  PROVE  j = n
        OBVIOUS
    <2>1. \A i \in Nat : i # 0 /\ i < m + 1 => c2[i] \in S /\ c2[i] = c[i - 1] /\ i - 1 \in Nat /\ i - 1 < m
        BY <1>1, <1>3 DEF Links
    <2>2. CASE j = 0 \/ n = 0
        BY <1>2, <2>1, <2>2
    <2>3. CASE j # 0 /\ n # 0
        <3>1. j - 1 = n - 1
            BY <2>1, <2>3 DEF Links
        <3>. QED  BY <3>1
    <2>. QED  BY <2>2, <2>3
<1>8. m + 1 \in Nat
    BY <1>1
<1>. QED  BY <1>1, <1>2, <1>4, <1>5, <1>6, <1>7, <1>8 DEF Links, c2

(* The link at p left out.                                                  *)
LEMMA LinksSkip ==
    ASSUME NEW c, NEW m, NEW head, NEW nxt, NEW S, Links(c, m, head, nxt, S),
           NEW p \in Nat, p < m,
           NEW head2, head2 = NewHead(p, head, c[p + 1]),
           NEW nxt2, Relinked(c, m, p, nxt, nxt2, c[p + 1])
    PROVE  Links(Skip(c, p), m - 1, head2, nxt2, S \ {c[p]})
<1>. DEFINE c2 == Skip(c, p)
<1>0. /\ head2 = (IF p = 0 THEN c[p + 1] ELSE head)
      /\ \A n \in Nat : n < m /\ n # p =>
            nxt2[c[n]] = IF n + 1 = p THEN c[p + 1] ELSE nxt[c[n]]
    BY DEF NewHead, Relinked
<1>1. m \in Nat /\ c \in [Nat -> Nat] /\ m - 1 \in Nat /\ c2 \in [Nat -> Nat]
    BY DEF Links, Skip
<1>2. \A n \in Nat : n < p => c2[n] = c[n]
    BY DEF Skip
<1>3. \A n \in Nat : n >= p => c2[n] = c[n + 1]
    BY DEF Skip
<1>. HIDE DEF c2
<1>4. c2[0] = head2
    BY <1>0, <1>1, <1>2, <1>3 DEF Links
<1>5. ASSUME NEW n \in Nat, n < m - 1
      PROVE  c2[n] \in S \ {c[p]} /\ nxt2[c2[n]] = c2[n + 1]
    <2>1. CASE n + 1 < p
        <3>1. n < m /\ n < p /\ n # p /\ n + 1 \in Nat
            BY <1>1, <2>1
        <3>2. c2[n] = c[n] /\ c2[n + 1] = c[n + 1]
            BY <1>2, <2>1, <3>1
        <3>3. nxt2[c[n]] = nxt[c[n]] /\ nxt[c[n]] = c[n + 1] /\ c[n] \in S /\ c[n] # c[p]
            BY <1>0, <2>1, <3>1 DEF Links
        <3>. QED  BY <3>2, <3>3
    <2>2. CASE n + 1 = p
        <3>1. n < m /\ n < p /\ n # p /\ n + 1 \in Nat
            BY <1>1, <2>2
        <3>2. c2[n] = c[n] /\ c2[n + 1] = c[p + 1]
            BY <1>2, <1>3, <2>2, <3>1
        <3>3. nxt2[c[n]] = c[p + 1] /\ c[n] \in S /\ c[n] # c[p]
            BY <1>0, <2>2, <3>1 DEF Links
        <3>. QED  BY <3>2, <3>3
    <2>3. CASE n >= p
        <3>1. n + 1 < m /\ n + 1 # p /\ n + 1 \in Nat /\ n + 1 >= p /\ n + 1 + 1 # p
            BY <1>1, <1>5, <2>3
        <3>2. c2[n] = c[n + 1] /\ c2[n + 1] = c[n + 1 + 1]
            BY <1>3, <2>3, <3>1
        <3>3. nxt2[c[n + 1]] = nxt[c[n + 1]] /\ nxt[c[n + 1]] = c[n + 1 + 1]
              /\ c[n + 1] \in S /\ c[n + 1] # c[p]
            BY <1>0, <3>1 DEF Links
        <3>. QED  BY <3>2, <3>3
    <2>. QED  BY <2>1, <2>2, <2>3
<1>6. \A n \in Nat : n >= m - 1 => c2[n] = End
    <2>. SUFFICES ASSUME NEW n \in Nat, n >= m - 1 PROVE c2[n] = End
        OBVIOUS
    <2>1. n >= p /\ n + 1 >= m /\ n + 1 \in Nat
        BY <1>1
    <2>. QED  BY <1>3, <2>1 DEF Links
<1>7. ASSUME NEW i \in S \ {c[p]}
      PROVE  i # End /\ \E n \in Nat : n < m - 1 /\ c2[n] = i
    <2>1. PICK n \in Nat : n < m /\ c[n] = i
        BY DEF Links
    <2>2. n # p
        BY <1>7, <2>1
    <2>3. CASE n < p
        <3>1. n < m - 1 /\ c2[n] = i
            BY <1>1, <1>2, <2>1, <2>3
        <3>. QED  BY <3>1 DEF Links
    <2>4. CASE n > p
        <3>1. n - 1 \in Nat /\ n - 1 >= p /\ n - 1 < m - 1 /\ n - 1 + 1 = n
            BY <1>1, <2>1, <2>4
        <3>2. c2[n - 1] = i
            BY <1>3, <2>1, <3>1
        <3>. QED  BY <3>1, <3>2 DEF Links
    <2>. QED  BY <2>2, <2>3, <2>4
<1>8. \A j, n \in Nat : j < m - 1 /\ n < m - 1 /\ c2[j] = c2[n] => j = n
    <2>. SUFFICES ASSUME NEW j \in Nat, NEW n \in Nat, j < m - 1, n < m - 1, c2[j] = c2[n]
                  PROVE  j = n
        OBVIOUS
    <2>1. j < m /\ n < m /\ j + 1 < m /\ n + 1 < m /\ j + 1 \in Nat /\ n + 1 \in Nat
        BY <1>1
    <2>2. CASE j < p /\ n < p
        BY <1>2, <2>1, <2>2 DEF Links
    <2>3. CASE j < p /\ n >= p
        <3>1. c[j] = c[n + 1]
            BY <1>2, <1>3, <2>3
        <3>2. j = n + 1
            BY <2>1, <3>1 DEF Links
        <3>. QED  BY <2>3, <3>2
    <2>4. CASE j >= p /\ n < p
        <3>1. c[j + 1] = c[n]
            BY <1>2, <1>3, <2>4
        <3>2. j + 1 = n
            BY <2>1, <3>1 DEF Links
        <3>. QED  BY <2>4, <3>2
    <2>5. CASE j >= p /\ n >= p
        <3>1. c[j + 1] = c[n + 1]
            BY <1>3, <2>5
        <3>2. j + 1 = n + 1
            BY <2>1, <3>1 DEF Links
        <3>. QED  BY <3>2
    <2>. QED  BY <2>2, <2>3, <2>4, <2>5
<1>9. \A i \in S \ {c[p]} : i # End /\ \E n \in Nat : n < m - 1 /\ c2[n] = i
    BY <1>7
<1>. QED  BY <1>1, <1>4, <1>5, <1>6, <1>8, <1>9 DEF Links, c2

(* The link at p renamed to x.                                              *)
LEMMA LinksRename ==
    ASSUME NEW c, NEW m, NEW head, NEW nxt, NEW S, Links(c, m, head, nxt, S),
           NEW p \in Nat, p < m, NEW x \in Nat, x # End, x \notin S \ {c[p]},
           NEW head2, head2 = NewHead(p, head, x),
           NEW nxt2, nxt2[x] = nxt[c[p]], Relinked(c, m, p, nxt, nxt2, x)
    PROVE  Links(Rename(c, p, x), m, head2, nxt2, (S \ {c[p]}) \union {x})
<1>. DEFINE c2 == Rename(c, p, x)
<1>0. /\ head2 = (IF p = 0 THEN x ELSE head)
      /\ \A n \in Nat : n < m /\ n # p =>
            nxt2[c[n]] = IF n + 1 = p THEN x ELSE nxt[c[n]]
    BY DEF NewHead, Relinked
<1>1. m \in Nat /\ c \in [Nat -> Nat] /\ c2 \in [Nat -> Nat]
    BY DEF Links, Rename
<1>2. c2[p] = x /\ \A n \in Nat : n # p => c2[n] = c[n]
    BY DEF Rename
<1>. HIDE DEF c2
<1>3. c2[0] = head2
    BY <1>0, <1>1, <1>2 DEF Links
<1>4. ASSUME NEW n \in Nat, n < m
      PROVE  c2[n] \in (S \ {c[p]}) \union {x} /\ nxt2[c2[n]] = c2[n + 1]
    <2>1. n + 1 \in Nat /\ nxt[c[n]] = c[n + 1] /\ c[n] \in S
        BY <1>4 DEF Links
    <2>2. CASE n = p
        BY <1>2, <2>1, <2>2
    <2>3. CASE n # p
        <3>1. c[n] # c[p]
            BY <1>4, <2>3 DEF Links
        <3>. QED  BY <1>0, <1>2, <1>4, <2>1, <2>3, <3>1
    <2>. QED  BY <2>2, <2>3
<1>5. \A n \in Nat : n >= m => c2[n] = End
    BY <1>1, <1>2 DEF Links
<1>6. ASSUME NEW i \in (S \ {c[p]}) \union {x}
      PROVE  i # End /\ \E n \in Nat : n < m /\ c2[n] = i
    <2>1. CASE i = x
        BY <1>2, <2>1
    <2>2. CASE i # x
        <3>1. PICK n \in Nat : n < m /\ c[n] = i
            BY <2>2 DEF Links
        <3>2. n # p
            BY <1>6, <2>2, <3>1
        <3>. QED  BY <1>2, <2>2, <3>1, <3>2 DEF Links
    <2>. QED  BY <2>1, <2>2
<1>7. ASSUME NEW j \in Nat, NEW n \in Nat, j < m, n < m, c2[j] = c2[n]
      PROVE  j = n
    <2>1. \A k \in Nat : k < m /\ k # p => c2[k] = c[k] /\ c[k] # x
        <3>1. \A k \in Nat : k < m /\ k # p => c[k] \in S /\ c[k] # c[p]
            BY DEF Links
        <3>. QED  BY <1>2, <3>1
    <2>2. CASE j = p \/ n = p
        BY <1>2, <1>7, <2>1, <2>2
    <2>3. CASE j # p /\ n # p
        BY <1>7, <2>1, <2>3 DEF Links
    <2>. QED  BY <2>2, <2>3
<1>. QED  BY <1>1, <1>3, <1>4, <1>5, <1>6, <1>7 DEF Links, c2

(* A chain is no longer than there are indices, and has one link for each of
   its items.                                                               *)
LEMMA LinksCounted ==
    ASSUME NEW c, NEW m, NEW head, NEW nxt, NEW S, Links(c, m, head, nxt, S),
           NEW N \in Nat, S \subseteq 1..N
    PROVE  m <= N /\ Cardinality(S) = m
<1>1. m \in Nat /\ 1 \in Int /\ m \in Int /\ N \in Int
    BY DEF Links
<1>2. IsFiniteSet(1..m) /\ Cardinality(1..m) = m /\ IsFiniteSet(1..N) /\ Cardinality(1..N) = N
    BY <1>1, FS_Interval
<1>. DEFINE f == [n \in 1..m |-> c[n - 1]]
<1>3. f \in [1..m -> S]
    BY <1>1 DEF Links
<1>4. \A j, n \in 1..m : f[j] = f[n] => j = n
    <2>. SUFFICES ASSUME NEW j \in 1..m, NEW n \in 1..m, f[j] = f[n] PROVE j = n
        OBVIOUS
    <2>1. j - 1 \in Nat /\ n - 1 \in Nat /\ j - 1 < m /\ n - 1 < m /\ c[j - 1] = c[n - 1]
        BY <1>1
    <2>2. j - 1 = n - 1
        BY <2>1 DEF Links
    <2>. QED  BY <2>2
<1>5. \A i \in S : \E n \in 1..m : f[n] = i
    <2>. SUFFICES ASSUME NEW i \in S PROVE \E n \in 1..m : f[n] = i
        OBVIOUS
    <2>1. PICK n \in Nat : n < m /\ c[n] = i
        BY DEF Links
    <2>2. n + 1 \in 1..m /\ f[n + 1] = i
        BY <1>1, <2>1
    <2>. QED  BY <2>2
<1>. HIDE DEF f
<1>6. f \in Injection(1..m, S) /\ f \in Surjection(1..m, S)
    BY <1>3, <1>4, <1>5 DEF Injection, IsInjective, Surjection
<1>7. ExistsBijection(1..m, S)
    BY <1>6 DEF ExistsBijection, Bijection
<1>8. Cardinality(S) = m
    BY <1>1, <1>7, FS_CountingElements
<1>9. Cardinality(S) <= Cardinality(1..N)
    BY <1>2, FS_Subset
<1>. QED  BY <1>2, <1>8, <1>9

-----------------------------------------------------------------------------
(* The chains of a table.                                                   *)
Nexts(t) == [i \in 1..Size(t) |-> t.items[i].next]
In(t, live, nb, b) == {i \in live : t.items[i].hash % nb = b}

(* Bucket b of t, which has nb of them, chains those of the items in live
   that belong there.                                                       *)
Chained(t, live, nb, b, c, m) ==
    Links(c, m, t.buckets[b], Nexts(t), In(t, live, nb, b))

Traces(path, c, N) == DOMAIN path = 0..N /\ \A n \in 0..N : path[n] = c[n]

(* Path is what the loops of the code follow.                               *)
LEMMA PathOf ==
    ASSUME NEW t, NEW b, NEW c, NEW m, NEW S, Size(t) \in Nat,
           S \subseteq 1..Size(t), Links(c, m, t.buckets[b], Nexts(t), S)
    PROVE  Traces(Path(t, b), c, Size(t))
<1>. DEFINE N == Size(t)
            f == [n \in 0..N |-> c[n]]
<1>1. f = [n \in 0..N |->
             IF n = 0 THEN t.buckets[b]
             ELSE LET i == f[n - 1] IN IF i = End THEN End ELSE t.items[i].next]
    <2>. SUFFICES ASSUME NEW n \in 0..N
                  PROVE  c[n] = IF n = 0 THEN t.buckets[b]
                                ELSE LET i == f[n - 1]
                                     IN  IF i = End THEN End ELSE t.items[i].next
        OBVIOUS
    <2>1. CASE n = 0
        BY <2>1 DEF Links
    <2>2. CASE n # 0
        <3>1. n - 1 \in 0..N /\ n - 1 \in Nat /\ f[n - 1] = c[n - 1] /\ n - 1 + 1 = n
            BY <2>2
        <3>2. m \in Nat
            BY DEF Links
        <3>3. CASE n - 1 < m
            <4>1. c[n - 1] \in S /\ Nexts(t)[c[n - 1]] = c[n] /\ c[n - 1] # End
                BY <3>1, <3>3 DEF Links
            <4>2. t.items[c[n - 1]].next = c[n]
                BY <4>1 DEF Nexts
            <4>. QED  BY <2>2, <3>1, <4>1, <4>2
        <3>4. CASE n - 1 >= m
            <4>1. n >= m /\ n \in Nat
                BY <3>1, <3>2, <3>4
            <4>2. c[n - 1] = End /\ c[n] = End
                BY <3>1, <3>4, <4>1 DEF Links
            <4>. QED  BY <2>2, <3>1, <4>2
        <3>. QED  BY <3>1, <3>2, <3>3, <3>4
    <2>. QED  BY <2>1, <2>2
<1>2. Path(t, b) = [n \in 0..N |->
             IF n = 0 THEN t.buckets[b]
             ELSE LET i == Path(t, b)[n - 1]
                  IN  IF i = End THEN End ELSE t.items[i].next]
    <2>. HIDE DEF f
    <2>. QED  BY <1>1, Zenon DEF Path
<1>. DEFINE g == Path(t, b)
<1>3. g = [n \in 0..N |-> g[n]]
    BY <1>2
<1>4. f[0] = g[0] /\ \A n \in 1..N : f[n - 1] = g[n - 1] => f[n] = g[n]
    <2>. HIDE DEF f, g
    <2>1. 0 \in 0..N
        OBVIOUS
    <2>2. f[0] = g[0]
        BY <1>1, <1>2, <2>1 DEF g
    <2>3. \A n \in 1..N : n \in 0..N /\ n # 0
        OBVIOUS
    <2>. DEFINE After(i) == IF i = End THEN End ELSE t.items[i].next
    <2>4. \A n \in 0..N : n # 0 => f[n] = After(f[n - 1])
        BY <1>1
    <2>5. \A n \in 0..N : n # 0 => g[n] = After(g[n - 1])
        BY <1>2 DEF g
    <2>. HIDE DEF After
    <2>6. ASSUME NEW n \in 1..N, f[n - 1] = g[n - 1] PROVE f[n] = g[n]
        BY <2>3, <2>4, <2>5, <2>6
    <2>. QED  BY <2>2, <2>6
<1>5. \A n \in 0..N : f[n] = g[n]
    <2>1. N \in Nat
        OBVIOUS
    <2>. HIDE DEF f, g, N
    <2>2. KeepAgreeing(f, g, N)
        BY <1>4 DEF KeepAgreeing
    <2>3. Agree(f, g, N)
        BY <2>1, <2>2, SameByInduction
    <2>. QED  BY <2>3 DEF Agree
<1>. QED  BY <1>3, <1>5 DEF Traces

-----------------------------------------------------------------------------
(* Xht is a map.                                                            *)

(* The items of a table with nb buckets, and its chains.                    *)
Content(t, nb) ==
    /\ t.items \in Seq(Item) /\ t.buckets \in [0..(nb - 1) -> Nat]
    /\ \A i \in 1..Size(t) : t.items[i].hash = Hash[t.items[i].key]
    /\ \A i, j \in 1..Size(t) : t.items[i].key = t.items[j].key => i = j
    /\ \A b \in 0..(nb - 1) : \E c, m : Chained(t, 1..Size(t), nb, b, c, m)

Sound(t, nb) == Table(t, nb) /\ Content(t, nb)

Keys(t) == {t.items[i].key : i \in 1..Size(t)}

LEMMA SoundFacts ==
    ASSUME XhtAssumption, NEW t, NEW nb, Sound(t, nb)
    PROVE  /\ nb \in Nat \ {0} /\ NBuckets(t) = nb /\ Size(t) \in Nat
           /\ \A i \in 1..Size(t) :
                 /\ t.items[i] \in Item /\ t.items[i].key \in Key
                 /\ t.items[i].value \in Val
                 /\ t.items[i].hash \in Nat /\ t.items[i].next \in Nat
                 /\ t.items[i].hash = Hash[t.items[i].key]
                 /\ t.items[i].hash % nb \in 0..(nb - 1)
           /\ \A h : BucketOf(t, h) = h % nb
           /\ \A k \in Key : Hash[k] \in Nat /\ Hash[k] % nb \in 0..(nb - 1)
           /\ Keys(t) \subseteq Key
           /\ t = [items |-> t.items, buckets |-> t.buckets, capacity |-> t.capacity]
<1>1. nb \in Nat \ {0} /\ DOMAIN t.buckets = 0..(nb - 1)
      /\ t = [items |-> t.items, buckets |-> t.buckets, capacity |-> t.capacity]
    BY DEF Sound, Table
<1>2. NBuckets(t) = nb
    BY <1>1, BucketsCounted
<1>3. t.items \in Seq(Item)
    BY DEF Sound, Content
<1>4. Size(t) \in Nat /\ \A i \in 1..Size(t) : t.items[i] \in Item
    BY <1>3 DEF Size
<1>5. \A h \in Nat : h % nb \in 0..(nb - 1)
    BY <1>1
<1>6. \A x \in Item : x.key \in Key /\ x.value \in Val /\ x.hash \in Nat /\ x.next \in Nat
    BY DEF Item
<1>7. \A k \in Key : Hash[k] \in Nat /\ Hash[k] % nb \in 0..(nb - 1)
    BY <1>5 DEF XhtAssumption
<1>8. \A i \in 1..Size(t) : t.items[i].hash = Hash[t.items[i].key]
    BY DEF Sound, Content
<1>9. Keys(t) \subseteq Key
    BY <1>4, <1>6 DEF Keys
<1>10. \A h : BucketOf(t, h) = h % nb
    BY <1>2 DEF BucketOf
<1>. QED  BY <1>1, <1>2, <1>4, <1>5, <1>6, <1>7, <1>8, <1>9, <1>10

(* What the search for k finds.                                             *)
LEMMA Search ==
    ASSUME XhtAssumption, NEW t, NEW nb, Sound(t, nb), NEW k \in Key,
           NEW c, NEW m, Chained(t, 1..Size(t), nb, Hash[k] % nb, c, m)
    PROVE  /\ m \in 0..Size(t)
           /\ Traces(Path(t, BucketOf(t, Hash[k])), c, Size(t))
           /\ LinksTo(t, k) = {n \in 0..(m - 1) : t.items[c[n]].key = k}
           /\ \A i \in 1..Size(t) : t.items[i].key = k =>
                 \E p \in 0..(m - 1) : c[p] = i /\ LinksTo(t, k) = {p}
<1>. DEFINE b == Hash[k] % nb
            S == In(t, 1..Size(t), nb, b)
            N == Size(t)
<1>1. /\ N \in Nat /\ b \in 0..(nb - 1) /\ BucketOf(t, Hash[k]) = b
      /\ \A i \in 1..N : t.items[i].hash = Hash[t.items[i].key]
    BY SoundFacts
<1>2. S \subseteq 1..N /\ Links(c, m, t.buckets[b], Nexts(t), S)
    BY DEF In, Chained
<1>3. \A i \in 1..N : t.items[i].key = k => i \in S
    BY <1>1 DEF In
<1>. HIDE DEF b, S
<1>4. m \in Nat /\ m <= N
    <2>1. m \in Nat
        BY <1>2 DEF Links
    <2>2. m <= N
        BY <1>1, <1>2, LinksCounted, Zenon
    <2>. QED  BY <2>1, <2>2
<1>5. Traces(Path(t, b), c, N)
    <2>1. /\ Size(t) \in Nat /\ S \subseteq 1..Size(t)
          /\ Links(c, m, t.buckets[b], Nexts(t), S)
        BY <1>1, <1>2
    <2>. QED  BY <2>1, PathOf
<1>6. ASSUME NEW n \in 0..(m - 1)
      PROVE  n \in 0..N /\ n \in Nat /\ n < m /\ c[n] # End
    <2>1. n \in 0..N /\ n \in Nat /\ n < m
        BY <1>1, <1>4
    <2>2. c[n] \in S
        BY <1>2, <2>1 DEF Links
    <2>. QED  BY <1>2, <2>1, <2>2 DEF Links
<1>7. \A n \in 0..N : c[n] # End => n \in 0..(m - 1)
    BY <1>4, <1>2 DEF Links
<1>8. LinksTo(t, k) = {n \in 0..(m - 1) : t.items[c[n]].key = k}
    BY <1>1, <1>5, <1>6, <1>7 DEF LinksTo, Traces
<1>9. ASSUME NEW i \in 1..N, t.items[i].key = k
      PROVE  \E p \in 0..(m - 1) : c[p] = i /\ LinksTo(t, k) = {p}
    <2>1. PICK p \in Nat : p < m /\ c[p] = i
        BY <1>2, <1>3, <1>9 DEF Links
    <2>2. p \in 0..(m - 1)
        BY <1>4, <2>1
    <2>3. ASSUME NEW n \in 0..(m - 1), t.items[c[n]].key = k
          PROVE  n = p
        <3>1. n \in Nat /\ n < m /\ c[n] \in 1..N
            BY <1>2, <1>6 DEF Links
        <3>2. c[n] = i
            BY <1>9, <2>3, <3>1 DEF Sound, Content
        <3>. QED  BY <1>2, <2>1, <3>1, <3>2 DEF Links
    <2>. QED  BY <1>8, <1>9, <2>1, <2>2, <2>3
<1>. QED  BY <1>1, <1>4, <1>5, <1>8, <1>9 DEF b

LEMMA Found ==
    ASSUME XhtAssumption, NEW t, NEW nb, Sound(t, nb), NEW k \in Key
    PROVE  /\ Has(t, k) <=> k \in Keys(t)
           /\ Has(t, k) =>
                 /\ IndexOf(t, k) \in 1..Size(t) /\ t.items[IndexOf(t, k)].key = k
                 /\ \A i \in 1..Size(t) : t.items[i].key = k => i = IndexOf(t, k)
                 /\ \A c, m : Chained(t, 1..Size(t), nb, Hash[k] % nb, c, m) =>
                      /\ Min(LinksTo(t, k)) \in 0..(m - 1)
                      /\ IndexOf(t, k) = c[Min(LinksTo(t, k))]
<1>. DEFINE b == Hash[k] % nb
<1>1. b \in 0..(nb - 1) /\ Size(t) \in Nat
    BY SoundFacts
<1>2. PICK c, m : Chained(t, 1..Size(t), nb, b, c, m)
    BY <1>1 DEF Sound, Content
<1>3. \A p \in Nat : Min({p}) = p
    BY DEF Min
<1>4. ASSUME Has(t, k)
      PROVE  \E i \in 1..Size(t) : t.items[i].key = k
    <2>1. PICK n \in 0..(m - 1) : t.items[c[n]].key = k
        BY <1>2, <1>4, Search DEF Has
    <2>2. m \in Nat
        BY <1>2 DEF Chained, Links
    <2>3. n \in Nat /\ n < m
        BY <2>2
    <2>4. c[n] \in 1..Size(t)
        BY <1>2, <2>3 DEF Chained, Links, In
    <2>. QED  BY <2>1, <2>4
<1>5. ASSUME NEW i \in 1..Size(t), t.items[i].key = k,
             NEW d, NEW l, Chained(t, 1..Size(t), nb, b, d, l)
      PROVE  /\ Has(t, k) /\ Min(LinksTo(t, k)) \in 0..(l - 1)
             /\ d[Min(LinksTo(t, k))] = i /\ IndexOf(t, k) = i
    <2>1. PICK p \in 0..(l - 1) : d[p] = i /\ LinksTo(t, k) = {p}
        BY <1>5, Search
    <2>2. Min(LinksTo(t, k)) = p
        BY <1>3, <2>1
    <2>3. l \in 0..Size(t) /\ Traces(Path(t, BucketOf(t, Hash[k])), d, Size(t))
        BY <1>5, Search
    <2>4. p \in 0..Size(t)
        BY <1>1, <2>3
    <2>5. IndexOf(t, k) = i
        BY <2>1, <2>2, <2>3, <2>4 DEF IndexOf, Traces
    <2>. QED  BY <2>1, <2>2, <2>5 DEF Has
<1>6. Has(t, k) <=> k \in Keys(t)
    BY <1>2, <1>4, <1>5 DEF Keys
<1>7. ASSUME Has(t, k)
      PROVE  /\ IndexOf(t, k) \in 1..Size(t) /\ t.items[IndexOf(t, k)].key = k
             /\ \A i \in 1..Size(t) : t.items[i].key = k => i = IndexOf(t, k)
             /\ \A d, l : Chained(t, 1..Size(t), nb, b, d, l) =>
                  /\ Min(LinksTo(t, k)) \in 0..(l - 1)
                  /\ IndexOf(t, k) = d[Min(LinksTo(t, k))]
    <2>1. PICK i \in 1..Size(t) : t.items[i].key = k
        BY <1>4, <1>7
    <2>2. IndexOf(t, k) = i
        BY <1>2, <1>5, <2>1
    <2>3. \A j \in 1..Size(t) : t.items[j].key = k => j = i
        BY <2>1 DEF Sound, Content
    <2>. HIDE DEF b
    <2>4. \A d, l : Chained(t, 1..Size(t), nb, b, d, l) =>
              /\ Min(LinksTo(t, k)) \in 0..(l - 1)
              /\ IndexOf(t, k) = d[Min(LinksTo(t, k))]
        BY <1>5, <2>1, <2>2
    <2>. QED  BY <2>1, <2>2, <2>3, <2>4
<1>. QED  BY <1>6, <1>7

-----------------------------------------------------------------------------
(* Insertion.                                                               *)

Linked(head, nxt, S) == \E c, m : Links(c, m, head, nxt, S)
Members(items, nb, b, n) == {i \in 1..n : items[i].hash % nb = b}

(* LastIn as the loop of grow_buckets computes it, item after item.         *)
LEMMA LastInStep ==
    ASSUME NEW items, NEW nb, NEW b, NEW n \in Nat
    PROVE  /\ LastIn(items, nb, b, 0) = End
           /\ LastIn(items, nb, b, n + 1) =
                IF items[n + 1].hash % nb = b THEN n + 1 ELSE LastIn(items, nb, b, n)
<1>. DEFINE S(l) == {End} \union {j \in 1..l : items[j].hash % nb = b}
<1>1. \A l : LastIn(items, nb, b, l) = Max(S(l))
    BY DEF LastIn
<1>2. S(0) = {0} /\ Max({0}) = 0
    BY DEF Max, End
<1>3. CASE items[n + 1].hash % nb = b
    <2>1. n + 1 \in S(n + 1) /\ \A y \in S(n + 1) : y \in Nat /\ y <= n + 1
        BY <1>3 DEF End
    <2>. HIDE DEF S
    <2>2. Max(S(n + 1)) = n + 1
        <3>1. \E x \in S(n + 1) : \A y \in S(n + 1) : x >= y
            BY <2>1
        <3>2. /\ Max(S(n + 1)) \in S(n + 1)
              /\ \A y \in S(n + 1) : Max(S(n + 1)) >= y
            BY <3>1 DEF Max
        <3>. QED  BY <2>1, <3>2
    <2>. QED  BY <1>1, <1>2, <1>3, <2>2 DEF End
<1>4. CASE items[n + 1].hash % nb # b
    <2>1. S(n + 1) = S(n)
        BY <1>4
    <2>. QED  BY <1>1, <1>2, <1>4, <2>1 DEF End
<1>. QED  BY <1>3, <1>4

(* grow_buckets chains the items of each bucket.                            *)
LEMMA Rechained ==
    ASSUME NEW items, NEW nb, NEW b, NEW nxt, NEW N \in Nat,
           \A i \in 1..N : items[i].hash % nb = b => nxt[i] = LastIn(items, nb, b, i - 1)
    PROVE  Linked(LastIn(items, nb, b, N), nxt, Members(items, nb, b, N))
<1>. DEFINE T(n) == {i \in 1..n : items[i].hash % nb = b}
            P(n) == \E c, m : Links(c, m, LastIn(items, nb, b, n), nxt, T(n))
            bad == {n \in 0..N : ~ P(n)}
<1>1. P(0)
    <2>1. LastIn(items, nb, b, 0) = End /\ T(0) = {}
        BY LastInStep
    <2>. QED  BY <2>1, LinksNone
<1>2. ASSUME NEW n \in 0..N, n # 0, P(n - 1) PROVE P(n)
    <2>. DEFINE k == n - 1
    <2>1. k \in Nat /\ n = k + 1 /\ n \in 1..N
        BY <1>2
    <2>2. PICK c, m : Links(c, m, LastIn(items, nb, b, k), nxt, T(k))
        BY <1>2
    <2>. HIDE DEF k
    <2>3. LastIn(items, nb, b, n) =
              IF items[n].hash % nb = b THEN n ELSE LastIn(items, nb, b, k)
        BY <2>1, LastInStep
    <2>4. CASE items[n].hash % nb = b
        <3>1. T(n) = T(k) \union {n} /\ n \notin T(k) /\ n \in Nat /\ n # End
            BY <2>1, <2>4 DEF End
        <3>2. nxt[n] = LastIn(items, nb, b, k)
            BY <2>1, <2>4 DEF k
        <3>. HIDE DEF T
        <3>3. \A i \in T(k) : nxt[i] = nxt[i]
            OBVIOUS
        <3>4. Links(Front(c, n), m + 1, n, nxt, T(k) \union {n})
            BY <2>2, <3>1, <3>2, <3>3, LinksFront
        <3>. QED  BY <2>3, <2>4, <3>1, <3>4
    <2>5. CASE items[n].hash % nb # b
        <3>1. T(n) = T(k)
            BY <2>1, <2>5
        <3>. QED  BY <2>2, <2>3, <2>5, <3>1
    <2>. QED  BY <2>4, <2>5
<1>3. bad = {}
    <2>. SUFFICES ASSUME bad # {} PROVE FALSE
        OBVIOUS
    <2>1. bad \subseteq Nat
        OBVIOUS
    <2>2. \A n : n \in bad <=> n \in 0..N /\ ~ P(n)
        OBVIOUS
    <2>. HIDE DEF bad, P
    <2>3. PICK n \in bad : \A l \in bad : n <= l
        BY <2>1, LeastNat
    <2>4. n \in 0..N /\ n # 0
        BY <1>1, <2>2, <2>3
    <2>5. n - 1 \in 0..N /\ n - 1 \notin bad
        BY <2>3, <2>4
    <2>6. P(n - 1)
        BY <2>2, <2>5
    <2>. QED  BY <1>2, <2>2, <2>3, <2>4, <2>6
<1>4. P(N)
    <2>1. N \in 0..N
        OBVIOUS
    <2>. HIDE DEF P
    <2>. QED  BY <1>3, <2>1
<1>. QED  BY <1>4 DEF Linked, Members

LEMMA LastInNat ==
    ASSUME NEW items, NEW nb, NEW b, NEW n \in Nat
    PROVE  LastIn(items, nb, b, n) \in Nat
<1>. DEFINE nxt == [i \in 1..n |-> LastIn(items, nb, b, i - 1)]
<1>1. \A i \in 1..n : items[i].hash % nb = b => nxt[i] = LastIn(items, nb, b, i - 1)
    OBVIOUS
<1>. HIDE DEF nxt
<1>2. PICK c, m : Links(c, m, LastIn(items, nb, b, n), nxt, Members(items, nb, b, n))
    BY <1>1, Rechained DEF Linked
<1>. QED  BY <1>2 DEF Links

(* t has an entry for key k with value v.                                   *)
Holds(t, k, v) ==
    \E i \in 1..Size(t) : t.items[i].key = k /\ t.items[i].value = v

Shaped(t) == t = [items |-> t.items, buckets |-> t.buckets, capacity |-> t.capacity]

(* An item more, in front of its chain.                                     *)
LEMMA AppendedContent ==
    ASSUME XhtAssumption, NEW t, NEW nb, Sound(t, nb),
           NEW k \in Key, k \notin Keys(t), NEW v \in Val
    PROVE  /\ Content(Appended(t, k, v), nb) /\ Shaped(Appended(t, k, v))
           /\ DOMAIN Appended(t, k, v).buckets = 0..(nb - 1)
           /\ \A x, y : Holds(Appended(t, k, v), x, y) <=>
                            Holds(t, x, y) \/ (x = k /\ y = v)
<1>. DEFINE b == Hash[k] % nb
            N == Size(t)
            item == [key |-> k, value |-> v, next |-> t.buckets[b], hash |-> Hash[k]]
            items == Append(t.items, item)
            buckets == [t.buckets EXCEPT ![b] = N + 1]
            a == Appended(t, k, v)
<1>1. /\ nb \in Nat \ {0} /\ N \in Nat /\ b \in 0..(nb - 1) /\ Hash[k] \in Nat
      /\ BucketOf(t, Hash[k]) = b
      /\ \A i \in 1..N : t.items[i] \in Item /\ t.items[i].key # k
    BY SoundFacts DEF Keys
<1>2. Content(t, nb)
    BY DEF Sound
<1>3. PICK cap : a = [items |-> items, buckets |-> buckets, capacity |-> cap]
    BY <1>1 DEF Appended
<1>4. a.items = items /\ a.buckets = buckets /\ Shaped(a)
    BY <1>3 DEF Shaped
<1>5. t.items \in Seq(Item) /\ Len(t.items) = N /\ t.buckets \in [0..(nb - 1) -> Nat]
    BY <1>2 DEF Content, Size
<1>6. /\ buckets \in [0..(nb - 1) -> Nat] /\ buckets[b] = N + 1
      /\ \A d \in 0..(nb - 1) : d # b => buckets[d] = t.buckets[d]
    BY <1>1, <1>5
<1>7. item \in Item /\ item.key = k /\ item.value = v /\ item.hash = Hash[k]
      /\ item.next = t.buckets[b]
    BY <1>1, <1>5 DEF Item
<1>. HIDE DEF a, item
<1>8. /\ items \in Seq(Item) /\ Len(items) = N + 1 /\ items[N + 1] = item
      /\ \A i \in 1..N : items[i] = t.items[i]
    BY <1>5, <1>7
<1>. HIDE DEF items, buckets
<1>9. Size(a) = N + 1
    BY <1>4, <1>8 DEF Size
<1>10. \A i \in 1..(N + 1) : i \in 1..N \/ i = N + 1
    BY <1>1
<1>. HIDE DEF N
<1>11. \A i \in 1..Size(a) : a.items[i].hash = Hash[a.items[i].key]
    BY <1>2, <1>4, <1>7, <1>8, <1>9, <1>10 DEF Content, N
<1>12. \A i, j \in 1..Size(a) : a.items[i].key = a.items[j].key => i = j
    <2>1. \A i \in 1..N : items[i].key # k
        BY <1>1, <1>8
    <2>2. \A i, j \in 1..N : items[i].key = items[j].key => i = j
        BY <1>2, <1>8 DEF Content, N
    <2>. QED  BY <1>4, <1>7, <1>8, <1>9, <1>10, <2>1, <2>2
<1>13. ASSUME NEW d \in 0..(nb - 1)
       PROVE  \E c, m : Chained(a, 1..Size(a), nb, d, c, m)
    <2>. DEFINE S == In(t, 1..N, nb, d)
                T == In(a, 1..(N + 1), nb, d)
                nxt == Nexts(t)
                nxt2 == Nexts(a)
    <2>1. PICK c, m : Links(c, m, t.buckets[d], nxt, S)
        BY <1>2 DEF Content, Chained, N
    <2>2. /\ \A i \in S : i \in 1..N
          /\ \A i \in 1..N : nxt2[i] = nxt[i]
          /\ nxt2[N + 1] = t.buckets[b]
        <3>1. \A i \in 1..N : i \in 1..(N + 1)
            BY <1>1
        <3>2. N + 1 \in 1..(N + 1)
            BY <1>1
        <3>3. nxt2 = [i \in 1..(N + 1) |-> items[i].next] /\ nxt = [i \in 1..N |-> t.items[i].next]
            BY <1>4, <1>9 DEF Nexts, N
        <3>4. \A i \in 1..N : nxt2[i] = nxt[i]
            BY <1>8, <3>1, <3>3
        <3>5. nxt2[N + 1] = t.buckets[b]
            BY <1>7, <1>8, <3>2, <3>3
        <3>6. \A i \in S : i \in 1..N
            BY DEF In
        <3>. QED  BY <3>4, <3>5, <3>6
    <2>3. T = IF d = b THEN S \union {N + 1} ELSE S
        <3>1. \A i : i \in T <=> i \in 1..(N + 1) /\ items[i].hash % nb = d
            BY <1>4 DEF In
        <3>2. \A i : i \in S <=> i \in 1..N /\ t.items[i].hash % nb = d
            BY DEF In
        <3>3. items[N + 1].hash % nb = b
            BY <1>7, <1>8
        <3>4. \A i \in 1..N : i \in 1..(N + 1)
            BY <1>1
        <3>5. N + 1 \in 1..(N + 1)
            BY <1>1
        <3>6. \A i : i \in T <=> i \in S \/ (d = b /\ i = N + 1)
            BY <1>8, <1>10, <3>1, <3>2, <3>3, <3>4, <3>5
        <3>. HIDE DEF S, T
        <3>. QED  BY <3>6
    <2>. HIDE DEF S, T, nxt, nxt2
    <2>4. CASE d = b
        <3>1. N + 1 \in Nat /\ N + 1 # End /\ N + 1 \notin S
            BY <1>1, <2>2 DEF End
        <3>2. \A i \in S : nxt2[i] = nxt[i]
            BY <2>2
        <3>3. Links(c, m, t.buckets[b], nxt, S)
            BY <2>1, <2>4
        <3>4. Links(Front(c, N + 1), m + 1, N + 1, nxt2, S \union {N + 1})
            BY <2>2, <3>1, <3>2, <3>3, LinksFront
        <3>5. T = S \union {N + 1} /\ a.buckets[d] = N + 1
            BY <1>4, <1>6, <2>3, <2>4
        <3>6. Links(Front(c, N + 1), m + 1, a.buckets[d], nxt2, T)
            BY <3>4, <3>5
        <3>7. Chained(a, 1..Size(a), nb, d, Front(c, N + 1), m + 1)
            BY <1>9, <3>6 DEF Chained, T, nxt2
        <3>. QED  BY <3>7
    <2>5. CASE d # b
        <3>1. Links(c, m, t.buckets[d], nxt2, S)
            BY <2>1, <2>2, LinksSame
        <3>. QED  BY <1>4, <1>6, <1>9, <2>3, <2>5, <3>1 DEF Chained, T, nxt2
    <2>. QED  BY <2>4, <2>5
<1>14. Content(a, nb)
    BY <1>4, <1>6, <1>8, <1>11, <1>12, <1>13 DEF Content
<1>15. \A x, y : Holds(a, x, y) <=> Holds(t, x, y) \/ (x = k /\ y = v)
    <2>. TAKE x, y
    <2>1. \A i \in 1..N : i \in 1..(N + 1)
        BY <1>1
    <2>2. N + 1 \in 1..(N + 1)
        BY <1>1
    <2>3. Holds(a, x, y) <=> \E i \in 1..(N + 1) : items[i].key = x /\ items[i].value = y
        BY <1>4, <1>9 DEF Holds
    <2>4. Holds(t, x, y) <=> \E i \in 1..N : items[i].key = x /\ items[i].value = y
        BY <1>8 DEF Holds, N
    <2>. QED  BY <1>7, <1>8, <1>10, <2>1, <2>2, <2>3, <2>4
<1>16. DOMAIN a.buckets = 0..(nb - 1)
    BY <1>4, <1>6
<1>. QED  BY <1>4, <1>14, <1>15, <1>16 DEF a

(* Twice the buckets.                                                       *)
LEMMA RegrownContent ==
    ASSUME XhtAssumption, NEW t, NEW nb \in Nat \ {0}, Content(t, nb),
           DOMAIN t.buckets = 0..(nb - 1), Shaped(t)
    PROVE  /\ Content(Regrown(t), 2 * nb) /\ DOMAIN Regrown(t).buckets = 0..(2 * nb - 1)
           /\ \A x, y : Holds(Regrown(t), x, y) <=> Holds(t, x, y)
<1>. DEFINE N == Size(t)
            n2 == 2 * nb
            last(b, n) == LastIn(t.items, n2, b, n)
            buckets == [b \in 0..(n2 - 1) |-> last(b, N)]
            items == [i \in 1..N |->
                        [t.items[i] EXCEPT !.next = last(t.items[i].hash % n2, i - 1)]]
            r == Regrown(t)
<1>1. NBuckets(t) = nb
    BY BucketsCounted
<1>2. r = [items |-> items, buckets |-> buckets, capacity |-> t.capacity]
    <2>1. r = [t EXCEPT !.buckets = buckets, !.items = items]
        BY <1>1 DEF Regrown
    <2>. HIDE DEF buckets, items, r
    <2>2. t = [items |-> t.items, buckets |-> t.buckets, capacity |-> t.capacity]
        BY DEF Shaped
    <2>. QED  BY <2>1, <2>2
<1>3. r.items = items /\ r.buckets = buckets
    BY <1>2
<1>4. t.items \in Seq(Item) /\ N \in Nat /\ n2 \in Nat \ {0}
    BY DEF Content, Size
<1>. HIDE DEF n2, r
<1>5. \A b, n : n \in Nat => last(b, n) \in Nat
    BY LastInNat
<1>6. buckets \in [0..(n2 - 1) -> Nat] /\ \A b \in 0..(n2 - 1) : buckets[b] = last(b, N)
    BY <1>4, <1>5
<1>7. ASSUME NEW i \in 1..N
      PROVE  /\ items[i] \in Item /\ items[i].key = t.items[i].key
             /\ items[i].value = t.items[i].value /\ items[i].hash = t.items[i].hash
             /\ items[i].next = last(t.items[i].hash % n2, i - 1)
    <2>. DEFINE nx == last(t.items[i].hash % n2, i - 1)
    <2>1. t.items[i] \in Item
        BY <1>4 DEF Size
    <2>2. nx \in Nat
        <3>1. i - 1 \in Nat
            OBVIOUS
        <3>. QED  BY <1>5, <3>1
    <2>. HIDE DEF nx
    <2>3. items[i] = [t.items[i] EXCEPT !.next = nx]
        BY DEF nx
    <2>4. \A z \in Item : LET y == [z EXCEPT !.next = nx]
                          IN  /\ y \in Item /\ y.key = z.key /\ y.value = z.value
                              /\ y.hash = z.hash /\ y.next = nx
        BY <2>2 DEF Item
    <2>. HIDE DEF items
    <2>. QED  BY <2>1, <2>3, <2>4 DEF nx
<1>8. items \in Seq(Item) /\ Len(items) = N
    <2>1. items \in [1..N -> Item]
        BY <1>7
    <2>. HIDE DEF items
    <2>. QED  BY <1>4, <2>1
<1>9. Size(r) = N
    BY <1>3, <1>8 DEF Size
<1>. DEFINE nxt == Nexts(r)
<1>10. \A i \in 1..N : nxt[i] = last(t.items[i].hash % n2, i - 1)
    BY <1>3, <1>7, <1>9 DEF Nexts
<1>. HIDE DEF nxt, items, buckets
<1>11. ASSUME NEW b \in 0..(n2 - 1)
       PROVE  \E c, m : Chained(r, 1..Size(r), n2, b, c, m)
    <2>1. \A i \in 1..N : t.items[i].hash % n2 = b => nxt[i] = last(b, i - 1)
        BY <1>10
    <2>2. PICK c, m : Links(c, m, last(b, N), nxt, Members(t.items, n2, b, N))
        BY <1>4, <2>1, Rechained DEF Linked
    <2>3. Members(t.items, n2, b, N) = In(r, 1..Size(r), n2, b)
        BY <1>3, <1>7, <1>9 DEF In, Members
    <2>4. Links(c, m, r.buckets[b], nxt, In(r, 1..Size(r), n2, b))
        BY <1>3, <1>6, <2>2, <2>3
    <2>. QED  BY <2>4 DEF Chained, nxt
<1>12. /\ \A i \in 1..Size(r) : r.items[i].hash = Hash[r.items[i].key]
       /\ \A i, j \in 1..Size(r) : r.items[i].key = r.items[j].key => i = j
    BY <1>3, <1>7, <1>9 DEF Content
<1>13. Content(r, n2)
    BY <1>3, <1>6, <1>8, <1>11, <1>12 DEF Content
<1>14. \A x, y : Holds(r, x, y) <=> Holds(t, x, y)
    BY <1>3, <1>7, <1>9 DEF Holds
<1>15. DOMAIN r.buckets = 0..(n2 - 1)
    BY <1>3, <1>6
<1>. QED  BY <1>13, <1>14, <1>15 DEF r, n2

(* xht_insert_new_unchecked of a key that is not there.                     *)
LEMMA InsertedSound ==
    ASSUME XhtAssumption, U32 \in Nat \ {0, 1}, NEW t, NEW nb, Sound(t, nb),
           NEW k \in Key, k \notin Keys(t), NEW v \in Val, ~Panics(t, k, v)
    PROVE  /\ \E n : Sound(Inserted(t, k, v), n)
           /\ \A x, y : Holds(Inserted(t, k, v), x, y) <=>
                            Holds(t, x, y) \/ (x = k /\ y = v)
<1>. DEFINE a == Appended(t, k, v)
            r == Inserted(t, k, v)
<1>1. /\ Content(a, nb) /\ Shaped(a) /\ DOMAIN a.buckets = 0..(nb - 1)
      /\ \A x, y : Holds(a, x, y) <=> Holds(t, x, y) \/ (x = k /\ y = v)
    BY AppendedContent
<1>2. nb \in Nat \ {0} /\ Table(t, nb)
    BY SoundFacts DEF Sound
<1>3. PICK m : Table(r, m)
    BY <1>2, InsertedTable
<1>4. m \in Nat \ {0} /\ DOMAIN r.buckets = 0..(m - 1)
    BY <1>3 DEF Table
<1>5. PICK n \in Nat \ {0} :
         /\ Content(r, n) /\ DOMAIN r.buckets = 0..(n - 1)
         /\ \A x, y : Holds(r, x, y) <=> Holds(a, x, y)
    <2>1. CASE Overloaded(a)
        <3>1. r = Regrown(a)
            BY <2>1 DEF Inserted
        <3>. HIDE DEF a, r
        <3>2. 2 * nb \in Nat \ {0}
            BY <1>2
        <3>. QED  BY <1>1, <1>2, <3>1, <3>2, RegrownContent
    <2>2. CASE ~Overloaded(a)
        <3>1. r = a
            BY <2>2 DEF Inserted
        <3>. QED  BY <1>1, <1>2, <3>1
    <2>. QED  BY <2>1, <2>2
<1>. HIDE DEF a, r
<1>6. m = n
    <2>1. m - 1 \in 0..(n - 1) /\ n - 1 \in 0..(m - 1)
        <3>1. m - 1 \in 0..(m - 1) /\ n - 1 \in 0..(n - 1)
            BY <1>4
        <3>. QED  BY <1>4, <1>5, <3>1
    <2>. QED  BY <1>4, <2>1
<1>. QED  BY <1>1, <1>3, <1>5, <1>6 DEF Sound, r

-----------------------------------------------------------------------------
(* Removal.                                                                 *)
Arrays(t, nb) ==
    /\ nb \in Nat \ {0} /\ Shaped(t)
    /\ t.items \in Seq(Item) /\ t.buckets \in [0..(nb - 1) -> Nat]

SameData(x, y) == x.key = y.key /\ x.value = y.value /\ x.hash = y.hash

LinkSet(t, r, nb, b, n, to) ==
    /\ Arrays(r, nb) /\ Size(r) = Size(t) /\ r.capacity = t.capacity
    /\ \A j \in 1..Size(t) : SameData(r.items[j], t.items[j])
    /\ \A d \in 0..(nb - 1) :
          r.buckets[d] = IF n = 0 /\ d = b THEN to ELSE t.buckets[d]
    /\ \A j \in 1..Size(t) :
          r.items[j].next = IF n # 0 /\ j = Path(t, b)[n - 1] THEN to
                            ELSE t.items[j].next

LEMMA SetLinkFacts ==
    ASSUME NEW t, NEW nb, Arrays(t, nb), NEW b \in 0..(nb - 1), NEW n \in Nat,
           n # 0 => Path(t, b)[n - 1] \in 1..Size(t), NEW to \in Nat
    PROVE  LinkSet(t, SetLink(t, b, n, to), nb, b, n, to)
<1>. DEFINE r == SetLink(t, b, n, to)
            i == Path(t, b)[n - 1]
<1>1. /\ t = [items |-> t.items, buckets |-> t.buckets, capacity |-> t.capacity]
      /\ t.items \in Seq(Item) /\ t.buckets \in [0..(nb - 1) -> Nat] /\ nb \in Nat \ {0}
      /\ Size(t) = Len(t.items) /\ Size(t) \in Nat
    BY DEF Arrays, Shaped, Size
<1>2. CASE n = 0
    <2>1. r = [items |-> t.items, buckets |-> [t.buckets EXCEPT ![b] = to],
               capacity |-> t.capacity]
        BY <1>1, <1>2 DEF SetLink
    <2>. HIDE DEF r
    <2>2. r.items = t.items /\ r.buckets = [t.buckets EXCEPT ![b] = to] /\ Shaped(r)
          /\ r.capacity = t.capacity
        BY <2>1 DEF Shaped
    <2>3. Arrays(r, nb) /\ Size(r) = Size(t)
        BY <1>1, <2>2 DEF Arrays, Size
    <2>. QED  BY <1>1, <1>2, <2>2, <2>3 DEF SameData, r, LinkSet
<1>3. CASE n # 0
    <2>. DEFINE x == [t.items[i] EXCEPT !.next = to]
                items == [t.items EXCEPT ![i] = x]
    <2>1. r = [items |-> items, buckets |-> t.buckets, capacity |-> t.capacity]
        <3>1. r = [t EXCEPT !.items[i].next = to]
            BY <1>3 DEF SetLink
        <3>2. r = [t EXCEPT !.items = items]
            BY <3>1
        <3>. HIDE DEF r, items
        <3>. QED  BY <1>1, <3>2
    <2>. HIDE DEF r
    <2>2. r.items = items /\ r.buckets = t.buckets /\ Shaped(r)
          /\ r.capacity = t.capacity
        BY <2>1 DEF Shaped
    <2>3. i \in 1..Len(t.items) /\ t.items[i] \in Item
        BY <1>1, <1>3
    <2>4. x \in Item /\ x.next = to /\ SameData(x, t.items[i])
        <3>1. \A z \in Item : LET y == [z EXCEPT !.next = to]
                              IN  y \in Item /\ y.next = to /\ SameData(y, z)
            BY DEF Item, SameData
        <3>. QED  BY <2>3, <3>1
    <2>. HIDE DEF x, i
    <2>5. /\ items \in Seq(Item) /\ Len(items) = Len(t.items) /\ items[i] = x
          /\ \A j \in 1..Len(t.items) : j # i => items[j] = t.items[j]
        BY <1>1, <2>3, <2>4, ExceptSeq
    <2>. HIDE DEF items
    <2>6. Arrays(r, nb) /\ Size(r) = Size(t)
        BY <1>1, <2>2, <2>5 DEF Arrays, Size
    <2>7. \A j \in 1..Size(t) : SameData(r.items[j], t.items[j])
        BY <1>1, <2>2, <2>4, <2>5 DEF SameData
    <2>8. \A j \in 1..Size(t) : r.items[j].next = IF j = i THEN to ELSE t.items[j].next
        BY <1>1, <2>2, <2>4, <2>5
    <2>. QED  BY <1>1, <1>3, <2>2, <2>6, <2>7, <2>8 DEF r, i, LinkSet
<1>. QED  BY <1>2, <1>3

(* The item of k taken out of its chain.                                    *)
LEMMA UnlinkedChains ==
    ASSUME XhtAssumption, NEW t, NEW nb, Sound(t, nb), NEW k \in Keys(t)
    PROVE  LET u    == Unlinked(t, k)
               x    == IndexOf(t, k)
               p    == Min(LinksTo(t, k))
               live == (1..Size(t)) \ {x}
           IN  /\ Arrays(u, nb) /\ Size(u) = Size(t)
               /\ \A j \in 1..Size(t) : SameData(u.items[j], t.items[j])
               /\ \A d \in 0..(nb - 1) : \A c, m : Chained(t, 1..Size(t), nb, d, c, m) =>
                     IF d = Hash[k] % nb
                     THEN p \in Nat /\ p < m /\ c[p] = x /\ Chained(u, live, nb, d, Skip(c, p), m - 1)
                     ELSE Chained(u, live, nb, d, c, m)
<1>. DEFINE u    == Unlinked(t, k)
            x    == IndexOf(t, k)
            p    == Min(LinksTo(t, k))
            N    == Size(t)
            live == (1..N) \ {x}
            b    == Hash[k] % nb
            to   == t.items[x].next
<1>1. /\ k \in Key /\ nb \in Nat \ {0} /\ N \in Nat /\ b \in 0..(nb - 1)
      /\ BucketOf(t, Hash[k]) = b
      /\ \A i \in 1..N : /\ t.items[i].next \in Nat
                         /\ t.items[i].hash = Hash[t.items[i].key]
    BY SoundFacts
<1>2. /\ x \in 1..N /\ t.items[x].key = k
      /\ \A c, m : Chained(t, 1..N, nb, b, c, m) => p \in 0..(m - 1) /\ x = c[p]
    BY <1>1, Found
<1>3. Arrays(t, nb)
    BY SoundFacts DEF Sound, Content, Arrays, Shaped
<1>4. to \in Nat /\ u = SetLink(t, b, p, to)
    BY <1>1, <1>2 DEF Unlinked
<1>5. PICK c0, m0 : Chained(t, 1..N, nb, b, c0, m0)
    BY <1>1 DEF Sound, Content
<1>6. m0 \in 0..N /\ Traces(Path(t, b), c0, N) /\ m0 \in Nat
    BY <1>1, <1>5, Search
<1>. HIDE DEF p, x, N, b, to, u
<1>7. p \in Nat /\ p < m0 /\ c0[p] = x
    BY <1>2, <1>5, <1>6
<1>8. ASSUME NEW n \in Nat, n < m0
      PROVE  Path(t, b)[n] = c0[n] /\ c0[n] \in 1..N
    <2>1. n \in 0..N
        BY <1>1, <1>6, <1>8
    <2>. QED  BY <1>5, <1>6, <1>8, <2>1 DEF Traces, Chained, Links, In
<1>9. p # 0 => Path(t, b)[p - 1] = c0[p - 1] /\ c0[p - 1] \in 1..N
    BY <1>6, <1>7, <1>8
<1>10. /\ Arrays(u, nb) /\ Size(u) = N
       /\ \A j \in 1..N : SameData(u.items[j], t.items[j])
       /\ \A d \in 0..(nb - 1) :
             u.buckets[d] = IF p = 0 /\ d = b THEN to ELSE t.buckets[d]
       /\ \A j \in 1..N :
             u.items[j].next = IF p # 0 /\ j = c0[p - 1] THEN to ELSE t.items[j].next
    <2>1. p # 0 => Path(t, b)[p - 1] \in 1..Size(t)
        BY <1>9 DEF N
    <2>2. /\ Arrays(u, nb) /\ Size(u) = Size(t)
          /\ \A j \in 1..Size(t) : SameData(u.items[j], t.items[j])
          /\ \A d \in 0..(nb - 1) :
                u.buckets[d] = IF p = 0 /\ d = b THEN to ELSE t.buckets[d]
          /\ \A j \in 1..Size(t) :
                u.items[j].next = IF p # 0 /\ j = Path(t, b)[p - 1] THEN to
                                  ELSE t.items[j].next
        <3>1. b \in 0..(nb - 1) /\ p \in Nat /\ to \in Nat
            BY <1>1, <1>4, <1>7
        <3>2. LinkSet(t, u, nb, b, p, to)
            BY <1>3, <1>4, <2>1, <3>1, SetLinkFacts
        <3>. QED  BY <3>2 DEF LinkSet
    <2>. QED  BY <1>9, <2>2 DEF N
<1>. DEFINE nxt == Nexts(t)
            nxt2 == Nexts(u)
<1>11. /\ \A j \in 1..N : nxt[j] = t.items[j].next
       /\ \A j \in 1..N : nxt2[j] = IF p # 0 /\ j = c0[p - 1] THEN to ELSE nxt[j]
    BY <1>10 DEF Nexts, N
<1>12. ASSUME NEW d \in 0..(nb - 1), NEW c, NEW m, Chained(t, 1..N, nb, d, c, m)
       PROVE  IF d = b
              THEN p \in Nat /\ p < m /\ c[p] = x /\ Chained(u, live, nb, d, Skip(c, p), m - 1)
              ELSE Chained(u, live, nb, d, c, m)
    <2>. DEFINE S == In(t, 1..N, nb, d)
                T == In(u, live, nb, d)
    <2>1. Links(c, m, t.buckets[d], nxt, S)
        BY <1>12 DEF Chained
    <2>2. \A i : i \in S <=> i \in 1..N /\ t.items[i].hash % nb = d
        BY DEF In
    <2>3. x \in S <=> d = b
        BY <1>1, <1>2, <2>2 DEF b
    <2>4. T = S \ {x}
        <3>1. \A i \in 1..N : u.items[i].hash = t.items[i].hash
            BY <1>10 DEF SameData
        <3>2. \A i : i \in T <=> i \in 1..N /\ i # x /\ u.items[i].hash % nb = d
            BY DEF In
        <3>. HIDE DEF S, T
        <3>. QED  BY <2>2, <3>1, <3>2
    <2>. HIDE DEF S, T, nxt, nxt2
    <2>5. CASE d = b
        <3>1. p \in 0..(m - 1) /\ x = c[p]
            BY <1>2, <1>12, <2>5
        <3>2. m \in Nat /\ p < m
            BY <2>1, <3>1, <1>7 DEF Links
        <3>3. nxt[c[p]] = c[p + 1] /\ to = c[p + 1]
            <4>1. nxt[c[p]] = c[p + 1]
                BY <1>7, <2>1, <3>2 DEF Links
            <4>2. nxt[x] = t.items[x].next
                BY <1>2, <1>11
            <4>. QED  BY <3>1, <4>1, <4>2 DEF to
        <3>4. \A n \in Nat : n < m => c[n] \in 1..N
            BY <2>1, <2>2 DEF Links
        <3>5. p # 0 => c0[p - 1] = c[p - 1]
            <4>1. m \in 0..N /\ Traces(Path(t, b), c, N)
                BY <1>1, <1>12, <2>5, Search DEF b, N
            <4>2. p # 0 => p - 1 \in 0..N
                BY <1>1, <1>6, <1>7
            <4>. QED  BY <1>6, <4>1, <4>2 DEF Traces
        <3>6. u.buckets[d] = IF p = 0 THEN c[p + 1] ELSE t.buckets[d]
            BY <1>10, <2>5, <3>3
        <3>7. ASSUME NEW n \in Nat, n < m, n # p
              PROVE  nxt2[c[n]] = IF n + 1 = p THEN c[p + 1] ELSE nxt[c[n]]
            <4>1. c[n] \in 1..N
                BY <3>4, <3>7
            <4>2. p # 0 => (c[n] = c0[p - 1] <=> n + 1 = p)
                <5>1. p # 0 => p - 1 \in Nat /\ p - 1 < m /\ (n = p - 1 <=> n + 1 = p)
                    BY <1>7, <3>2
                <5>2. p # 0 => (c[n] = c[p - 1] <=> n = p - 1)
                    BY <2>1, <3>7, <5>1 DEF Links
                <5>. QED  BY <3>5, <5>1, <5>2
            <4>3. p = 0 => n + 1 # p
                OBVIOUS
            <4>. QED  BY <1>11, <3>3, <4>1, <4>2, <4>3
        <3>8. Links(Skip(c, p), m - 1, u.buckets[d], nxt2, S \ {c[p]})
            <4>1. u.buckets[d] = NewHead(p, t.buckets[d], c[p + 1])
                BY <3>6 DEF NewHead
            <4>2. Relinked(c, m, p, nxt, nxt2, c[p + 1])
                BY <3>7 DEF Relinked
            <4>. QED  BY <1>7, <2>1, <3>2, <4>1, <4>2, LinksSkip
        <3>9. Links(Skip(c, p), m - 1, u.buckets[d], nxt2, T)
            BY <2>4, <3>1, <3>8
        <3>10. Chained(u, live, nb, d, Skip(c, p), m - 1)
            BY <3>9 DEF Chained, nxt2, T
        <3>. QED  BY <1>7, <2>5, <3>1, <3>2, <3>10
    <2>6. CASE d # b
        <3>1. T = S
            BY <2>3, <2>4, <2>6
        <3>2. \A i \in S : nxt2[i] = nxt[i]
            <4>1. p # 0 => c0[p - 1] \in In(t, 1..N, nb, b)
                <5>1. p # 0 => p - 1 \in Nat /\ p - 1 < m0
                    BY <1>6, <1>7
                <5>. QED  BY <1>5, <5>1 DEF Chained, Links
            <4>2. p # 0 => c0[p - 1] \notin S
                BY <2>2, <2>6, <4>1 DEF In
            <4>. QED  BY <1>11, <2>2, <4>2
        <3>3. Links(c, m, t.buckets[d], nxt2, S)
            BY <2>1, <3>2, LinksSame
        <3>4. u.buckets[d] = t.buckets[d]
            BY <1>10, <2>6
        <3>5. Chained(u, live, nb, d, c, m)
            BY <3>1, <3>3, <3>4 DEF Chained, nxt2, T
        <3>. QED  BY <2>6, <3>5
    <2>. QED  BY <2>5, <2>6
<1>. QED  BY <1>10, <1>12 DEF u, x, p, N, b

(* The array without its last item.                                         *)
Short(t) == [t EXCEPT !.items = SubSeq(@, 1, Size(t) - 1)]

LEMMA Prefix ==
    ASSUME NEW S, NEW s \in Seq(S), NEW n \in Nat, n <= Len(s)
    PROVE  /\ SubSeq(s, 1, n) \in Seq(S) /\ Len(SubSeq(s, 1, n)) = n
           /\ \A j \in 1..n : SubSeq(s, 1, n)[j] = s[j]
<1>1. \A i \in 1..n : s[i] \in S
    OBVIOUS
<1>2. 1 \in Int /\ n \in Int /\ n - 1 + 1 = n /\ \A i \in 1..n : 1 + i - 1 = i
    OBVIOUS
<1>3. /\ SubSeq(s, 1, n) \in Seq(S)
      /\ Len(SubSeq(s, 1, n)) = IF 1 <= n THEN n - 1 + 1 ELSE 0
      /\ \A i \in 1..(n - 1 + 1) : SubSeq(s, 1, n)[i] = s[1 + i - 1]
    BY <1>1, <1>2, SubSeqProperties
<1>4. SubSeq(s, 1, n) \in Seq(S) /\ Len(SubSeq(s, 1, n)) = n
    BY <1>3
<1>5. ASSUME NEW j \in 1..n PROVE SubSeq(s, 1, n)[j] = s[j]
    BY <1>2, <1>3, Zenon
<1>. QED  BY <1>4, <1>5

LEMMA Shortened ==
    ASSUME NEW t, NEW nb, Arrays(t, nb), Size(t) # 0
    PROVE  /\ Arrays(Short(t), nb) /\ Size(Short(t)) = Size(t) - 1
           /\ Short(t).buckets = t.buckets
           /\ \A j \in 1..(Size(t) - 1) : Short(t).items[j] = t.items[j]
<1>. DEFINE N == Size(t)
            items == SubSeq(t.items, 1, N - 1)
            r == Short(t)
<1>1. /\ t = [items |-> t.items, buckets |-> t.buckets, capacity |-> t.capacity]
      /\ t.items \in Seq(Item) /\ N = Len(t.items) /\ N \in Nat
    BY DEF Arrays, Shaped, Size
<1>2. /\ items \in Seq(Item) /\ Len(items) = N - 1
      /\ \A j \in 1..(N - 1) : items[j] = t.items[j]
    <2>1. PICK l \in Nat : l = N - 1 /\ l <= Len(t.items)
        BY <1>1
    <2>. QED  BY <1>1, <2>1, Prefix
<1>3. r = [items |-> items, buckets |-> t.buckets, capacity |-> t.capacity]
    <2>1. PICK i, bs, c : t = [items |-> i, buckets |-> bs, capacity |-> c]
        BY <1>1
    <2>2. t.items = i /\ t.buckets = bs /\ t.capacity = c
        BY <2>1
    <2>3. \A z : [t EXCEPT !.items = z] = [items |-> z, buckets |-> bs, capacity |-> c]
        BY <2>1
    <2>4. r = [t EXCEPT !.items = items]
        BY DEF items, N, Short
    <2>. HIDE DEF items, r
    <2>. QED  BY <2>2, <2>3, <2>4
<1>. HIDE DEF items, r
<1>4. r.items = items /\ r.buckets = t.buckets /\ Shaped(r)
    BY <1>3 DEF Shaped
<1>5. Arrays(r, nb) /\ Size(r) = N - 1
    BY <1>2, <1>4 DEF Arrays, Size
<1>. QED  BY <1>2, <1>4, <1>5 DEF r

(* The last item moved to index x.                                          *)
Over(t, x) == [t EXCEPT !.items[x] = t.items[Size(t)]]

LEMMA Overwritten ==
    ASSUME NEW t, NEW nb, Arrays(t, nb), NEW x \in 1..Size(t)
    PROVE  /\ Arrays(Over(t, x), nb) /\ Size(Over(t, x)) = Size(t)
           /\ Over(t, x).buckets = t.buckets
           /\ Over(t, x).items[x] = t.items[Size(t)]
           /\ \A j \in 1..Size(t) : j # x => Over(t, x).items[j] = t.items[j]
<1>. DEFINE N == Size(t)
            items == [t.items EXCEPT ![x] = t.items[N]]
            r == Over(t, x)
<1>1. /\ t = [items |-> t.items, buckets |-> t.buckets, capacity |-> t.capacity]
      /\ t.items \in Seq(Item) /\ N = Len(t.items) /\ N \in Nat /\ N \in 1..N
    BY DEF Arrays, Shaped, Size
<1>2. t.items[N] \in Item /\ x \in 1..Len(t.items)
    BY <1>1
<1>3. /\ items \in Seq(Item) /\ Len(items) = N /\ items[x] = t.items[N]
      /\ \A j \in 1..N : j # x => items[j] = t.items[j]
    BY <1>1, <1>2, ExceptSeq
<1>4. r = [items |-> items, buckets |-> t.buckets, capacity |-> t.capacity]
    <2>1. r = [t EXCEPT !.items = items]
        BY DEF items, N, Over
    <2>. HIDE DEF items, r
    <2>. QED  BY <1>1, <2>1
<1>. HIDE DEF items, r
<1>5. r.items = items /\ r.buckets = t.buckets /\ Shaped(r)
    BY <1>4 DEF Shaped
<1>6. Arrays(r, nb) /\ Size(r) = N
    BY <1>1, <1>3, <1>5 DEF Arrays, Size
<1>. QED  BY <1>3, <1>5, <1>6 DEF r

(* Bucket d of r chains what c chained in u, in the same order, though one
   item may have moved.                                                     *)
Moved(u, r, nb, d, c, m) ==
    \E c2 : /\ Chained(r, 1..Size(r), nb, d, c2, m)
            /\ \A n \in Nat : n < m => SameData(r.items[c2[n]], u.items[c[n]])

AllChained(u, live, nb) ==
    \A d \in 0..(nb - 1) : \E c, m : Chained(u, live, nb, d, c, m)

(* r is u with the last item in the hole at x.                              *)
Closed(u, r, nb, x, live) ==
    /\ Arrays(r, nb) /\ Size(r) = Size(u) - 1
    /\ \A j \in 1..Size(r) :
          SameData(r.items[j], u.items[IF j = x THEN Size(u) ELSE j])
    /\ \A d \in 0..(nb - 1) : \A c, m :
          Chained(u, live, nb, d, c, m) => Moved(u, r, nb, d, c, m)

(* pop_item_at_index of an index that no chain leads to.                    *)
LEMMA PoppedChains ==
    ASSUME NEW u, NEW nb, Arrays(u, nb), NEW x \in 1..Size(u),
           NEW live, live = (1..Size(u)) \ {x},
           AllChained(u, live, nb), NEW r, r = Popped(u, x)
    PROVE  Closed(u, r, nb, x, live)
<1>. DEFINE N == Size(u)
            b == BucketOf(u, u.items[N].hash)
            q == Min({n \in 0..N : Path(u, b)[n] = N})
            rd == SetLink(u, b, q, x)
<1>1. /\ nb \in Nat \ {0} /\ N \in Nat /\ N \in 1..N /\ N # 0
      /\ DOMAIN u.buckets = 0..(nb - 1)
      /\ \A j \in 1..N : u.items[j] \in Item
    BY DEF Arrays, Size
<1>2. b = u.items[N].hash % nb /\ b \in 0..(nb - 1)
    <2>1. NBuckets(u) = nb
        BY <1>1, BucketsCounted
    <2>2. u.items[N].hash \in Nat
        BY <1>1 DEF Item
    <2>. QED  BY <1>1, <2>1, <2>2 DEF BucketOf
<1>3. CASE x = N
    <2>1. r = Short(u)
        BY <1>3 DEF Popped, Short
    <2>2. /\ Arrays(r, nb) /\ Size(r) = N - 1 /\ r.buckets = u.buckets
          /\ \A j \in 1..(N - 1) : r.items[j] = u.items[j]
        BY <1>1, <2>1, Shortened
    <2>3. live = 1..(N - 1)
        BY <1>1, <1>3
    <2>. HIDE DEF N
    <2>4. \A j \in 1..(N - 1) : j # x /\ j \in 1..N
        BY <1>1, <1>3
    <2>5. ASSUME NEW d \in 0..(nb - 1), NEW c, NEW m, Chained(u, live, nb, d, c, m)
          PROVE  Moved(u, r, nb, d, c, m)
        <3>. DEFINE S == In(u, live, nb, d)
        <3>1. Links(c, m, u.buckets[d], Nexts(u), S)
            BY <2>5 DEF Chained
        <3>2. S = In(r, 1..Size(r), nb, d)
            BY <2>2, <2>3 DEF In
        <3>3. \A i \in S : Nexts(r)[i] = Nexts(u)[i]
            BY <2>2, <2>3, <2>4 DEF In, Nexts, N
        <3>4. \A n \in Nat : n < m => c[n] \in 1..(N - 1)
            BY <2>3, <3>1 DEF Links, In
        <3>. HIDE DEF S
        <3>5. Links(c, m, r.buckets[d], Nexts(r), S)
            BY <2>2, <3>1, <3>3, LinksSame
        <3>6. Chained(r, 1..Size(r), nb, d, c, m)
            BY <3>2, <3>5 DEF Chained
        <3>. QED  BY <2>2, <3>4, <3>6 DEF Moved, SameData
    <2>. QED  BY <2>2, <2>4, <2>5 DEF SameData, N, Closed
<1>4. CASE x # N
    <2>. DEFINE mv == Over(rd, x)
    <2>2. PICK c0, m0 : Chained(u, live, nb, b, c0, m0)
        BY <1>2 DEF AllChained
    <2>3. /\ Links(c0, m0, u.buckets[b], Nexts(u), In(u, live, nb, b))
          /\ In(u, live, nb, b) \subseteq 1..N
        BY <2>2 DEF Chained, In
    <2>4. m0 \in Nat /\ m0 <= N
        <3>1. m0 \in Nat
            BY <2>3 DEF Links
        <3>. HIDE DEF N, b
        <3>. QED  BY <1>1, <2>3, <3>1, LinksCounted
    <2>5. Traces(Path(u, b), c0, N)
        <3>. HIDE DEF b
        <3>. QED  BY <1>1, <2>3, PathOf
    <2>6. N \in In(u, live, nb, b)
        BY <1>1, <1>2, <1>4 DEF In
    <2>7. q \in Nat /\ q < m0 /\ c0[q] = N
        <3>1. PICK p \in Nat : p < m0 /\ c0[p] = N
            BY <2>3, <2>6 DEF Links
        <3>2. \A n \in 0..N : c0[n] = N => n = p
            BY <1>1, <2>3, <2>4, <3>1 DEF Links, End
        <3>3. p \in 0..N
            BY <1>1, <2>4, <3>1
        <3>4. {n \in 0..N : Path(u, b)[n] = N} = {p}
            <4>. HIDE DEF N, b
            <4>. QED  BY <2>5, <3>1, <3>2, <3>3 DEF Traces
        <3>5. Min({p}) = p
            BY <3>1 DEF Min
        <3>. QED  BY <3>1, <3>4, <3>5
    <2>8. \A n \in Nat : n < m0 => Path(u, b)[n] = c0[n] /\ c0[n] \in 1..N /\ c0[n] # x
                                   /\ u.items[c0[n]].hash % nb = b
        <3>1. \A n \in Nat : n < m0 => n \in 0..N
            BY <1>1, <2>4
        <3>2. \A n \in Nat : n < m0 => c0[n] \in In(u, live, nb, b)
            BY <2>3 DEF Links
        <3>. HIDE DEF N, b
        <3>. QED  BY <2>5, <3>1, <3>2 DEF Traces, In, N
    <2>9. q # 0 => /\ q - 1 \in Nat /\ q - 1 < m0 /\ Path(u, b)[q - 1] = c0[q - 1]
                   /\ c0[q - 1] \in 1..N /\ c0[q - 1] # x /\ c0[q - 1] # N
                   /\ u.items[c0[q - 1]].hash % nb = b
        <3>. HIDE DEF N, b, q
        <3>1. q # 0 => q - 1 \in Nat /\ q - 1 < m0 /\ q - 1 # q
            BY <2>4, <2>7
        <3>2. q # 0 => c0[q - 1] # N
            BY <2>3, <2>7, <3>1 DEF Links
        <3>. QED  BY <2>8, <3>1, <3>2
    <2>. HIDE DEF b, q
    <2>10. /\ Arrays(rd, nb) /\ Size(rd) = N
           /\ \A j \in 1..N : SameData(rd.items[j], u.items[j])
           /\ \A d \in 0..(nb - 1) :
                 rd.buckets[d] = IF q = 0 /\ d = b THEN x ELSE u.buckets[d]
           /\ \A j \in 1..N :
                 rd.items[j].next = IF q # 0 /\ j = c0[q - 1] THEN x ELSE u.items[j].next
        <3>1. q # 0 => Path(u, b)[q - 1] \in 1..Size(u)
            BY <2>9
        <3>2. x \in Nat
            OBVIOUS
        <3>3. LinkSet(u, rd, nb, b, q, x)
            BY <1>2, <2>7, <3>1, <3>2, SetLinkFacts
        <3>. HIDE DEF rd
        <3>. QED  BY <2>9, <3>3 DEF LinkSet
    <2>1. r = Short(mv)
        <3>1. r = [[rd EXCEPT !.items[x] = rd.items[N]] EXCEPT !.items = SubSeq(@, 1, N - 1)]
            BY <1>4 DEF Popped, rd, q, b
        <3>2. Size(rd) = N
            BY <2>10
        <3>3. mv = [rd EXCEPT !.items[x] = rd.items[N]]
            BY <3>2 DEF Over
        <3>. HIDE DEF rd
        <3>4. Size(mv) = N
            BY <2>10, Overwritten
        <3>. HIDE DEF mv
        <3>. QED  BY <3>1, <3>3, <3>4 DEF Short
    <2>. HIDE DEF rd
    <2>11. /\ Arrays(mv, nb) /\ Size(mv) = N /\ mv.buckets = rd.buckets
           /\ mv.items[x] = rd.items[N]
           /\ \A j \in 1..N : j # x => mv.items[j] = rd.items[j]
        <3>1. x \in 1..Size(rd) /\ Arrays(rd, nb)
            BY <2>10
        <3>2. /\ Arrays(mv, nb) /\ Size(mv) = Size(rd) /\ mv.buckets = rd.buckets
              /\ mv.items[x] = rd.items[Size(rd)]
              /\ \A j \in 1..Size(rd) : j # x => mv.items[j] = rd.items[j]
            BY <3>1, Overwritten
        <3>3. Size(rd) = N
            BY <2>10
        <3>. HIDE DEF mv, N
        <3>. QED  BY <3>2, <3>3
    <2>. HIDE DEF mv
    <2>12. /\ Arrays(r, nb) /\ Size(r) = N - 1 /\ r.buckets = rd.buckets
           /\ \A j \in 1..(N - 1) : r.items[j] = mv.items[j]
        BY <1>1, <2>1, <2>11, Shortened
    <2>. HIDE DEF N
    <2>13. /\ x \in 1..(N - 1) /\ x \in Nat /\ x # End
           /\ \A j \in 1..(N - 1) : j \in 1..N /\ j # N
           /\ \A j \in 1..N : j # N => j \in 1..(N - 1)
        BY <1>1, <1>4 DEF N, End
    <2>14. /\ SameData(r.items[x], u.items[N])
           /\ \A j \in 1..(N - 1) : j # x => SameData(r.items[j], u.items[j])
        BY <1>1, <2>10, <2>11, <2>12, <2>13
    <2>. DEFINE nxt == Nexts(u)
                nxt2 == Nexts(r)
    <2>15. /\ nxt2[x] = nxt[N]
           /\ \A j \in 1..(N - 1) : j # x =>
                 nxt2[j] = IF q # 0 /\ j = c0[q - 1] THEN x ELSE nxt[j]
        <3>1. \A j \in 1..N : nxt[j] = u.items[j].next
            BY DEF Nexts, N
        <3>2. \A j \in 1..(N - 1) : nxt2[j] = r.items[j].next
            BY <2>12 DEF Nexts
        <3>3. rd.items[N].next = u.items[N].next
            BY <1>1, <2>9, <2>10
        <3>. HIDE DEF nxt, nxt2
        <3>4. nxt2[x] = nxt[N]
            BY <1>1, <2>11, <2>12, <2>13, <3>1, <3>2, <3>3
        <3>5. ASSUME NEW j \in 1..(N - 1), j # x
              PROVE  nxt2[j] = IF q # 0 /\ j = c0[q - 1] THEN x ELSE nxt[j]
            <4>1. r.items[j] = rd.items[j] /\ j \in 1..N
                BY <2>11, <2>12, <2>13, <3>5
            <4>. QED  BY <2>10, <3>1, <3>2, <4>1
        <3>. QED  BY <3>4, <3>5
    <2>16. ASSUME NEW d \in 0..(nb - 1), NEW c, NEW m, Chained(u, live, nb, d, c, m)
           PROVE  Moved(u, r, nb, d, c, m)
        <3>. DEFINE S == In(u, live, nb, d)
                    T == In(r, 1..Size(r), nb, d)
        <3>1. Links(c, m, u.buckets[d], nxt, S)
            BY <2>16 DEF Chained
        <3>2. \A i : i \in S <=> i \in 1..N /\ i # x /\ u.items[i].hash % nb = d
            BY DEF In, N
        <3>3. \A i : i \in T <=> i \in 1..(N - 1) /\ r.items[i].hash % nb = d
            BY <2>12 DEF In
        <3>4. \A i \in 1..(N - 1) : r.items[i].hash = IF i = x THEN u.items[N].hash
                                                      ELSE u.items[i].hash
            BY <2>14 DEF SameData
        <3>. HIDE DEF S, T, nxt, nxt2
        <3>5. m \in Nat /\ \A n \in Nat : n < m => c[n] \in S
            BY <3>1 DEF Links
        <3>6. CASE d = b
            <4>1. N \in S
                BY <1>1, <1>2, <1>4, <3>2, <3>6
            <4>2. m <= N /\ Traces(Path(u, b), c, N)
                <5>1. S \subseteq 1..N
                    BY <3>2
                <5>2. Links(c, m, u.buckets[b], Nexts(u), S)
                    BY <3>1, <3>6 DEF nxt
                <5>3. m <= N
                    BY <1>1, <5>1, <5>2, LinksCounted
                <5>4. Traces(Path(u, b), c, N)
                    BY <1>1, <5>1, <5>2, PathOf DEF N
                <5>. QED  BY <5>3, <5>4
            <4>3. q < m /\ c[q] = N /\ (q # 0 => c0[q - 1] = c[q - 1])
                <5>1. q \in 0..N /\ (q # 0 => q - 1 \in 0..N)
                    BY <1>1, <2>4, <2>7
                <5>2. c[q] = N /\ (q # 0 => c0[q - 1] = c[q - 1])
                    BY <2>5, <2>7, <4>2, <5>1 DEF Traces
                <5>3. c[q] # End
                    BY <1>1, <5>2 DEF End
                <5>4. q < m
                    BY <2>7, <3>1, <5>3 DEF Links
                <5>. QED  BY <5>2, <5>4
            <4>4. T = (S \ {c[q]}) \union {x}
                <5>1. \A i : i \in T <=> i = x \/ (i \in S /\ i # N)
                    BY <1>1, <1>2, <2>13, <3>2, <3>3, <3>4, <3>6
                <5>. QED  BY <4>3, <5>1
            <4>5. Relinked(c, m, q, nxt, nxt2, x)
                <5>1. ASSUME NEW n \in Nat, n < m, n # q
                      PROVE  nxt2[c[n]] = IF n + 1 = q THEN x ELSE nxt[c[n]]
                    <6>1. c[n] # N
                        BY <2>7, <3>1, <4>3, <5>1 DEF Links
                    <6>2. c[n] \in 1..(N - 1) /\ c[n] # x
                        BY <2>13, <3>2, <3>5, <5>1, <6>1
                    <6>3. q # 0 => (c[n] = c0[q - 1] <=> n + 1 = q)
                        <7>1. q # 0 => q - 1 \in Nat /\ q - 1 < m /\ (n = q - 1 <=> n + 1 = q)
                            BY <2>7, <3>5, <4>3
                        <7>2. q # 0 => (c[n] = c[q - 1] <=> n = q - 1)
                            BY <3>1, <5>1, <7>1 DEF Links
                        <7>. QED  BY <4>3, <7>1, <7>2
                    <6>4. q = 0 => n + 1 # q
                        OBVIOUS
                    <6>. QED  BY <2>15, <6>2, <6>3, <6>4
                <5>. QED  BY <5>1 DEF Relinked
            <4>6. r.buckets[d] = NewHead(q, u.buckets[d], x)
                BY <2>10, <2>12, <3>6 DEF NewHead
            <4>7. x \notin S \ {c[q]}
                BY <3>2
            <4>8. nxt2[x] = nxt[c[q]]
                BY <2>15, <4>3
            <4>9. Links(Rename(c, q, x), m, r.buckets[d], nxt2, (S \ {c[q]}) \union {x})
                BY <2>7, <2>13, <3>1, <4>3, <4>5, <4>6, <4>7, <4>8, LinksRename
            <4>10. Chained(r, 1..Size(r), nb, d, Rename(c, q, x), m)
                BY <4>4, <4>9 DEF Chained, nxt2, T
            <4>11. ASSUME NEW n \in Nat, n < m
                   PROVE  SameData(r.items[Rename(c, q, x)[n]], u.items[c[n]])
                <5>1. CASE n = q
                    BY <2>14, <4>3, <5>1 DEF Rename
                <5>2. CASE n # q
                    <6>1. c[n] # N
                        BY <2>7, <3>1, <4>3, <4>11, <5>2 DEF Links
                    <6>2. c[n] \in 1..(N - 1) /\ c[n] # x
                        BY <2>13, <3>2, <3>5, <4>11, <6>1
                    <6>3. Rename(c, q, x)[n] = c[n]
                        BY <5>2 DEF Rename
                    <6>. QED  BY <2>14, <6>2, <6>3
                <5>. QED  BY <5>1, <5>2
            <4>. QED  BY <4>10, <4>11 DEF Moved
        <3>7. CASE d # b
            <4>1. T = S
                <5>1. \A i : i \in T <=> i \in S
                    BY <1>1, <1>2, <2>13, <3>2, <3>3, <3>4, <3>7
                <5>. QED  BY <5>1
            <4>2. \A i \in S : i \in 1..(N - 1) /\ i # x
                BY <1>2, <2>13, <3>2, <3>7
            <4>3. \A i \in S : nxt2[i] = nxt[i]
                BY <2>9, <2>15, <3>2, <3>7, <4>2
            <4>4. r.buckets[d] = u.buckets[d]
                BY <2>10, <2>12, <3>7
            <4>5. Links(c, m, r.buckets[d], nxt2, T)
                BY <3>1, <4>1, <4>3, <4>4, LinksSame
            <4>6. Chained(r, 1..Size(r), nb, d, c, m)
                BY <4>5 DEF Chained, nxt2, T
            <4>7. \A n \in Nat : n < m => SameData(r.items[c[n]], u.items[c[n]])
                BY <2>14, <3>5, <4>2
            <4>. QED  BY <4>6, <4>7 DEF Moved
        <3>. QED  BY <3>6, <3>7
    <2>. QED  BY <2>12, <2>13, <2>14, <2>16 DEF N, Closed
<1>. QED  BY <1>3, <1>4

(* Bucket d of r chains what c chained in t but for the item of k.          *)
Kept(t, r, nb, k, d, c, m) ==
    IF d = Hash[k] % nb
    THEN \E p \in Nat : /\ p < m /\ c[p] = IndexOf(t, k)
                        /\ Moved(t, r, nb, d, Skip(c, p), m - 1)
    ELSE Moved(t, r, nb, d, c, m)

LEMMA RemovedChains ==
    ASSUME XhtAssumption, NEW t, NEW nb, Sound(t, nb), NEW k \in Keys(t),
           NEW r, r = Removed(t, k)
    PROVE  /\ Arrays(r, nb) /\ Size(r) = Size(t) - 1
           /\ \A j \in 1..Size(r) :
                 SameData(r.items[j], t.items[IF j = IndexOf(t, k) THEN Size(t) ELSE j])
           /\ \A d \in 0..(nb - 1) : \A c, m :
                 Chained(t, 1..Size(t), nb, d, c, m) => Kept(t, r, nb, k, d, c, m)
<1>. DEFINE u    == Unlinked(t, k)
            x    == IndexOf(t, k)
            p    == Min(LinksTo(t, k))
            N    == Size(t)
            live == (1..N) \ {x}
<1>1. k \in Key /\ N \in Nat /\ \A d \in 0..(nb - 1) : \E c, m : Chained(t, 1..N, nb, d, c, m)
    BY SoundFacts DEF Sound, Content
<1>2. x \in 1..N
    BY <1>1, Found
<1>3. /\ Arrays(u, nb) /\ Size(u) = N
      /\ \A j \in 1..N : SameData(u.items[j], t.items[j])
      /\ \A d \in 0..(nb - 1) : \A c, m : Chained(t, 1..N, nb, d, c, m) =>
            IF d = Hash[k] % nb
            THEN p \in Nat /\ p < m /\ c[p] = x /\ Chained(u, live, nb, d, Skip(c, p), m - 1)
            ELSE Chained(u, live, nb, d, c, m)
    BY UnlinkedChains
<1>4. r = Popped(u, x)
    BY DEF Removed
<1>. HIDE DEF u, x, p, N, live
<1>5. AllChained(u, live, nb)
    BY <1>1, <1>3 DEF AllChained
<1>6. live = (1..Size(u)) \ {x} /\ x \in 1..Size(u)
    BY <1>2, <1>3 DEF live
<1>7. /\ Arrays(r, nb) /\ Size(r) = Size(u) - 1
      /\ \A j \in 1..Size(r) :
            SameData(r.items[j], u.items[IF j = x THEN Size(u) ELSE j])
      /\ \A d \in 0..(nb - 1) : \A c, m :
            Chained(u, live, nb, d, c, m) => Moved(u, r, nb, d, c, m)
    <2>1. Arrays(u, nb)
        BY <1>3
    <2>2. Closed(u, r, nb, x, live)
        BY <2>1, <1>4, <1>5, <1>6, PoppedChains
    <2>. QED  BY <2>2 DEF Closed
<1>8. ASSUME NEW d, NEW c, NEW m, Chained(u, live, nb, d, c, m), Moved(u, r, nb, d, c, m)
      PROVE  Moved(t, r, nb, d, c, m)
    <2>1. \A n \in Nat : n < m => c[n] \in 1..N
        BY <1>8 DEF Chained, Links, In, live
    <2>. QED  BY <1>3, <1>8, <2>1 DEF Moved, SameData
<1>9. ASSUME NEW d \in 0..(nb - 1), NEW c, NEW m, Chained(t, 1..N, nb, d, c, m)
      PROVE  Kept(t, r, nb, k, d, c, m)
    BY <1>3, <1>7, <1>8, <1>9 DEF Kept, x
<1>10. \A j \in 1..Size(r) : SameData(r.items[j], t.items[IF j = x THEN N ELSE j])
    <2>1. \A j \in 1..Size(r) : (IF j = x THEN N ELSE j) \in 1..N
        BY <1>1, <1>2, <1>3, <1>7
    <2>. QED  BY <1>3, <1>7, <2>1 DEF SameData
<1>. QED  BY <1>3, <1>7, <1>9, <1>10 DEF N, x

(* Key x comes after key a on the chain of a.                               *)
After(t, nb, a, x) ==
    \E c, m : /\ Chained(t, 1..Size(t), nb, Hash[a] % nb, c, m)
              /\ \E i, n \in Nat : /\ i < n /\ n < m
                                   /\ t.items[c[i]].key = a /\ t.items[c[n]].key = x

(* A bucket has one chain.                                                  *)
LEMMA OneChain ==
    ASSUME XhtAssumption, NEW t, NEW nb, Sound(t, nb), NEW k \in Key,
           NEW c, NEW m, Chained(t, 1..Size(t), nb, Hash[k] % nb, c, m),
           NEW d, NEW l, Chained(t, 1..Size(t), nb, Hash[k] % nb, d, l)
    PROVE  m = l /\ \A n \in Nat : n < m => c[n] = d[n]
<1>1. /\ m \in 0..Size(t) /\ Traces(Path(t, BucketOf(t, Hash[k])), c, Size(t))
      /\ l \in 0..Size(t) /\ Traces(Path(t, BucketOf(t, Hash[k])), d, Size(t))
    BY Search
<1>2. \A n \in 0..Size(t) : c[n] = d[n]
    BY <1>1 DEF Traces
<1>3. /\ Size(t) \in Nat /\ m \in Nat /\ l \in Nat
      /\ \A n \in 0..Size(t) : (c[n] = End <=> n >= m) /\ (d[n] = End <=> n >= l)
    <2>1. Size(t) \in Nat
        BY SoundFacts
    <2>2. /\ m \in Nat /\ \A n \in Nat : n < m => c[n] # End
          /\ \A n \in Nat : n >= m => c[n] = End
        BY DEF Chained, Links
    <2>3. /\ l \in Nat /\ \A n \in Nat : n < l => d[n] # End
          /\ \A n \in Nat : n >= l => d[n] = End
        BY DEF Chained, Links
    <2>. QED  BY <2>1, <2>2, <2>3
<1>4. m = l
    BY <1>1, <1>2, <1>3
<1>. QED  BY <1>1, <1>2, <1>3, <1>4

(* xht_remove of a key that is there.                                       *)
LEMMA RemovedSound ==
    ASSUME XhtAssumption, NEW t, NEW nb, Sound(t, nb), NEW k \in Keys(t),
           NEW r, r = Removed(t, k)
    PROVE  /\ Sound(r, nb)
           /\ \A y, v : Holds(r, y, v) <=> Holds(t, y, v) /\ y # k
<1>. DEFINE x == IndexOf(t, k)
            N == Size(t)
            from(j) == IF j = x THEN N ELSE j
<1>1. /\ Arrays(r, nb) /\ Size(r) = N - 1
      /\ \A j \in 1..Size(r) : SameData(r.items[j], t.items[from(j)])
      /\ \A d \in 0..(nb - 1) : \A c, m :
            Chained(t, 1..N, nb, d, c, m) => Kept(t, r, nb, k, d, c, m)
    BY RemovedChains
<1>2. k \in Key /\ N \in Nat /\ nb \in Nat
    BY SoundFacts
<1>3. x \in 1..N /\ t.items[x].key = k
      /\ \A i \in 1..N : t.items[i].key = k => i = x
    BY <1>2, Found
<1>4. /\ \A i \in 1..N : t.items[i].hash = Hash[t.items[i].key]
      /\ \A i, j \in 1..N : t.items[i].key = t.items[j].key => i = j
      /\ \A d \in 0..(nb - 1) : \E c, m : Chained(t, 1..N, nb, d, c, m)
    BY DEF Sound, Content
<1>. HIDE DEF x, N
<1>5. /\ \A j \in 1..Size(r) : from(j) \in 1..N /\ from(j) # x
      /\ \A i, j \in 1..Size(r) : from(i) = from(j) => i = j
      /\ \A i \in 1..N : i # x => \E j \in 1..Size(r) : from(j) = i
    <2>1. \A j \in 1..Size(r) : from(j) \in 1..N /\ from(j) # x
        BY <1>1, <1>2, <1>3
    <2>2. \A i, j \in 1..Size(r) : from(i) = from(j) => i = j
        BY <1>1, <1>2, <1>3
    <2>3. ASSUME NEW i \in 1..N, i # x PROVE \E j \in 1..Size(r) : from(j) = i
        <3>1. CASE i = N
            <4>1. x \in 1..Size(r) /\ from(x) = i
                BY <1>1, <1>2, <1>3, <2>3, <3>1
            <4>. QED  BY <4>1
        <3>2. CASE i # N
            <4>1. i \in 1..Size(r) /\ from(i) = i
                BY <1>1, <1>2, <2>3, <3>2
            <4>. QED  BY <4>1
        <3>. QED  BY <3>1, <3>2
    <2>. QED  BY <2>1, <2>2, <2>3
<1>. HIDE DEF from
<1>6. \A j \in 1..Size(r) : r.items[j].hash = Hash[r.items[j].key]
    BY <1>1, <1>4, <1>5 DEF SameData
<1>7. \A i, j \in 1..Size(r) : r.items[i].key = r.items[j].key => i = j
    BY <1>1, <1>4, <1>5 DEF SameData
<1>8. \A d \in 0..(nb - 1) : \E c, m : Chained(r, 1..Size(r), nb, d, c, m)
    BY <1>1, <1>4 DEF Kept, Moved
<1>9. Content(r, nb)
    BY <1>1, <1>6, <1>7, <1>8 DEF Content, Arrays
<1>10. Table(r, nb)
    <2>1. Table(t, nb)
        BY DEF Sound
    <2>2. Table(Unlinked(t, k), nb)
        BY <2>1, LinkSetTable DEF Unlinked
    <2>. QED  BY <2>2, PoppedTable DEF Removed
<1>11. ASSUME NEW y, NEW v
       PROVE  Holds(r, y, v) <=> Holds(t, y, v) /\ y # k
    <2>1. ASSUME Holds(r, y, v) PROVE Holds(t, y, v) /\ y # k
        <3>1. PICK j \in 1..Size(r) : r.items[j].key = y /\ r.items[j].value = v
            BY <2>1 DEF Holds
        <3>2. from(j) \in 1..N /\ t.items[from(j)].key = y /\ t.items[from(j)].value = v
            BY <1>1, <1>5, <3>1 DEF SameData
        <3>3. from(j) # x
            BY <1>5
        <3>. QED  BY <1>3, <3>2, <3>3 DEF Holds, N
    <2>2. ASSUME Holds(t, y, v), y # k PROVE Holds(r, y, v)
        <3>1. PICK i \in 1..N : t.items[i].key = y /\ t.items[i].value = v
            BY <2>2 DEF Holds, N
        <3>2. i # x
            BY <1>3, <2>2, <3>1
        <3>3. PICK j \in 1..Size(r) : from(j) = i
            BY <1>5, <3>2
        <3>. QED  BY <1>1, <3>1, <3>3 DEF Holds, SameData
    <2>. QED  BY <2>1, <2>2
<1>. QED  BY <1>9, <1>10, <1>11 DEF Sound

(* The keys that stay keep their order.                                     *)
LEMMA RemovedOrder ==
    ASSUME XhtAssumption, NEW t, NEW nb, Sound(t, nb), NEW k \in Keys(t),
           NEW r, r = Removed(t, k), NEW a \in Key, a # k
    PROVE  \A y : After(r, nb, a, y) <=> After(t, nb, a, y) /\ y # k
<1>. DEFINE b == Hash[a] % nb
            N == Size(t)
<1>1. /\ \A d \in 0..(nb - 1) : \A e, l :
            Chained(t, 1..N, nb, d, e, l) => Kept(t, r, nb, k, d, e, l)
    BY RemovedChains
<1>2. k \in Key /\ b \in 0..(nb - 1)
    BY SoundFacts
<1>3. Sound(r, nb)
    BY RemovedSound
<1>4. PICK c, m : Chained(t, 1..N, nb, b, c, m)
    BY <1>2 DEF Sound, Content
<1>5. /\ m \in Nat /\ \A n \in Nat : n < m => c[n] \in 1..N
      /\ \A j, n \in Nat : j < m /\ n < m /\ c[j] = c[n] => j = n
    BY <1>4 DEF Chained, Links, In
<1>6. \A i \in 1..N : t.items[i].key = k <=> i = IndexOf(t, k)
    <2>1. Has(t, k)
        BY <1>2, Found
    <2>. QED  BY <1>2, <2>1, Found
<1>. HIDE DEF b, N
<1>7. \A y : After(t, nb, a, y) <=>
               \E i, n \in Nat : /\ i < n /\ n < m
                                 /\ t.items[c[i]].key = a /\ t.items[c[n]].key = y
    <2>. TAKE y
    <2>1. ASSUME After(t, nb, a, y)
          PROVE  \E i, n \in Nat : /\ i < n /\ n < m
                                   /\ t.items[c[i]].key = a /\ t.items[c[n]].key = y
        <3>1. PICK e, l : /\ Chained(t, 1..N, nb, b, e, l)
                          /\ \E i, n \in Nat : /\ i < n /\ n < l
                                /\ t.items[e[i]].key = a /\ t.items[e[n]].key = y
            BY <2>1 DEF After, N, b
        <3>2. l = m /\ \A n \in Nat : n < m => c[n] = e[n]
            BY <1>4, <3>1, OneChain DEF N, b
        <3>3. PICK i, n \in Nat : /\ i < n /\ n < l
                                  /\ t.items[e[i]].key = a /\ t.items[e[n]].key = y
            BY <3>1
        <3>4. i < m
            BY <1>5, <3>2, <3>3
        <3>. QED  BY <3>2, <3>3, <3>4
    <2>. QED  BY <1>4, <2>1 DEF After, N, b
<1>8. ASSUME NEW e, NEW l, Moved(t, r, nb, b, e, l), l \in Nat
      PROVE  \A y : After(r, nb, a, y) <=>
               \E i, n \in Nat : /\ i < n /\ n < l
                                 /\ t.items[e[i]].key = a /\ t.items[e[n]].key = y
    <2>. TAKE y
    <2>1. PICK e2 : /\ Chained(r, 1..Size(r), nb, b, e2, l)
                    /\ \A n \in Nat : n < l => r.items[e2[n]].key = t.items[e[n]].key
        BY <1>8 DEF Moved, SameData
    <2>2. ASSUME After(r, nb, a, y)
          PROVE  \E i, n \in Nat : /\ i < n /\ n < l
                                   /\ t.items[e[i]].key = a /\ t.items[e[n]].key = y
        <3>1. PICK f, q : /\ Chained(r, 1..Size(r), nb, b, f, q)
                          /\ \E i, n \in Nat : /\ i < n /\ n < q
                                /\ r.items[f[i]].key = a /\ r.items[f[n]].key = y
            BY <2>2 DEF After, b
        <3>2. q = l /\ \A n \in Nat : n < l => e2[n] = f[n]
            BY <1>3, <2>1, <3>1, OneChain DEF b
        <3>3. PICK i, n \in Nat : /\ i < n /\ n < q
                                  /\ r.items[f[i]].key = a /\ r.items[f[n]].key = y
            BY <3>1
        <3>4. i < l
            BY <1>8, <3>2, <3>3
        <3>. QED  BY <2>1, <3>2, <3>3, <3>4
    <2>3. ASSUME NEW i \in Nat, NEW n \in Nat, i < n, n < l,
                 t.items[e[i]].key = a, t.items[e[n]].key = y
          PROVE  After(r, nb, a, y)
        <3>1. i < l
            BY <1>8, <2>3
        <3>. QED  BY <2>1, <2>3, <3>1 DEF After, b
    <2>. QED  BY <2>2, <2>3
<1>9. CASE b # Hash[k] % nb
    <2>1. Moved(t, r, nb, b, c, m)
        BY <1>1, <1>2, <1>4, <1>9 DEF Kept
    <2>2. \A n \in Nat : n < m => t.items[c[n]].key # k
        <3>1. \A i \in In(t, 1..N, nb, b) : Hash[t.items[i].key] % nb = b
            BY SoundFacts DEF In, N
        <3>2. \A n \in Nat : n < m => c[n] \in In(t, 1..N, nb, b)
            BY <1>4 DEF Chained, Links
        <3>. QED  BY <1>9, <3>1, <3>2
    <2>. QED  BY <1>5, <1>7, <1>8, <2>1, <2>2
<1>10. CASE b = Hash[k] % nb
    <2>1. PICK p \in Nat : /\ p < m /\ c[p] = IndexOf(t, k)
                           /\ Moved(t, r, nb, b, Skip(c, p), m - 1)
        BY <1>1, <1>2, <1>4, <1>10 DEF Kept
    <2>. DEFINE e == Skip(c, p)
    <2>2. m - 1 \in Nat
        BY <1>5, <2>1
    <2>3. \A n \in Nat : e[n] = IF n < p THEN c[n] ELSE c[n + 1]
        BY DEF Skip
    <2>. HIDE DEF e
    <2>4. \A n \in Nat : n < m => (t.items[c[n]].key = k <=> n = p)
        BY <1>5, <1>6, <2>1
    <2>5. ASSUME NEW y, NEW i \in Nat, NEW n \in Nat, i < n, n < m - 1,
                 t.items[e[i]].key = a, t.items[e[n]].key = y
          PROVE  After(t, nb, a, y) /\ y # k
        <3>. DEFINE s(j) == IF j < p THEN j ELSE j + 1
        <3>1. s(i) \in Nat /\ s(n) \in Nat /\ s(i) < s(n) /\ s(n) < m /\ s(n) # p
            BY <1>5, <2>1, <2>5
        <3>2. e[i] = c[s(i)] /\ e[n] = c[s(n)]
            BY <2>3
        <3>. HIDE DEF s
        <3>. QED  BY <1>7, <2>4, <2>5, <3>1, <3>2
    <2>6. ASSUME NEW y, y # k, After(t, nb, a, y)
          PROVE  \E i, n \in Nat : /\ i < n /\ n < m - 1
                                   /\ t.items[e[i]].key = a /\ t.items[e[n]].key = y
        <3>. DEFINE s(j) == IF j < p THEN j ELSE j - 1
        <3>1. PICK i, n \in Nat : /\ i < n /\ n < m
                                  /\ t.items[c[i]].key = a /\ t.items[c[n]].key = y
            BY <1>7, <2>6
        <3>2. i < m /\ i # p /\ n # p
            BY <1>5, <2>4, <2>6, <3>1
        <3>3. s(i) \in Nat /\ s(n) \in Nat /\ s(i) < s(n) /\ s(n) < m - 1
            BY <1>5, <2>1, <3>1, <3>2
        <3>4. e[s(i)] = c[i] /\ e[s(n)] = c[n]
            BY <2>1, <2>3, <3>1, <3>2
        <3>. HIDE DEF s
        <3>. QED  BY <3>1, <3>3, <3>4
    <2>. QED  BY <1>8, <2>1, <2>2, <2>5, <2>6 DEF e
<1>. QED  BY <1>9, <1>10

-----------------------------------------------------------------------------
(* Writing a value.                                                         *)
Stored(t, k, v) == [t EXCEPT !.items[IndexOf(t, k)].value = v]

SameOrder(r, t, nb) == \A a, y : After(r, nb, a, y) <=> After(t, nb, a, y)

LEMMA StoredSound ==
    ASSUME XhtAssumption, NEW t, NEW nb, Sound(t, nb), NEW k \in Keys(t),
           NEW v \in Val, NEW r, r = Stored(t, k, v)
    PROVE  /\ Sound(r, nb) /\ SameOrder(r, t, nb)
           /\ \A y, w : Holds(r, y, w) <=> IF y = k THEN w = v ELSE Holds(t, y, w)
<1>. DEFINE i == IndexOf(t, k)
            x == [t.items[i] EXCEPT !.value = v]
            items == [t.items EXCEPT ![i] = x]
            N == Size(t)
<1>1. k \in Key /\ N \in Nat /\ \A j \in 1..N : t.items[j] \in Item
    BY SoundFacts
<1>2. i \in 1..N /\ t.items[i].key = k
      /\ \A j \in 1..N : t.items[j].key = k => j = i
    BY <1>1, Found
<1>3. t = [items |-> t.items, buckets |-> t.buckets, capacity |-> t.capacity]
      /\ t.items \in Seq(Item) /\ Len(t.items) = N
    BY SoundFacts DEF Sound, Content, Size
<1>4. r = [items |-> items, buckets |-> t.buckets, capacity |-> t.capacity]
    <2>1. r = [t EXCEPT !.items = items]
        BY DEF Stored
    <2>. HIDE DEF items
    <2>. QED  BY <1>3, <2>1
<1>5. /\ x \in Item /\ x.value = v /\ x.key = t.items[i].key
      /\ x.hash = t.items[i].hash /\ x.next = t.items[i].next
    <2>1. \A z \in Item : LET y == [z EXCEPT !.value = v]
                          IN  /\ y \in Item /\ y.value = v /\ y.key = z.key
                              /\ y.hash = z.hash /\ y.next = z.next
        BY DEF Item
    <2>. QED  BY <1>1, <1>2, <2>1
<1>. HIDE DEF x, i
<1>6. /\ items \in Seq(Item) /\ Len(items) = N /\ items[i] = x
      /\ \A j \in 1..N : j # i => items[j] = t.items[j]
    BY <1>2, <1>3, <1>5, ExceptSeq
<1>. HIDE DEF items
<1>7. /\ r.items = items /\ r.buckets = t.buckets /\ r.capacity = t.capacity
      /\ r = [items |-> r.items, buckets |-> r.buckets, capacity |-> r.capacity]
    BY <1>4
<1>8. Size(r) = N
    BY <1>6, <1>7 DEF Size
<1>9. \A j \in 1..N : /\ r.items[j].key = t.items[j].key
                      /\ r.items[j].hash = t.items[j].hash
                      /\ r.items[j].next = t.items[j].next
                      /\ r.items[j].value = IF j = i THEN v ELSE t.items[j].value
    BY <1>5, <1>6, <1>7
<1>10. Table(r, nb)
    BY <1>3, <1>6, <1>7 DEF Sound, Table
<1>. HIDE DEF N
<1>11. ASSUME NEW d, NEW c, NEW m
       PROVE  Chained(r, 1..Size(r), nb, d, c, m) <=> Chained(t, 1..N, nb, d, c, m)
    <2>1. In(r, 1..Size(r), nb, d) = In(t, 1..N, nb, d)
        BY <1>8, <1>9 DEF In
    <2>2. Nexts(r) = Nexts(t)
        BY <1>8, <1>9 DEF Nexts, N
    <2>. QED  BY <1>7, <2>1, <2>2 DEF Chained
<1>12. Content(r, nb)
    <2>1. \A j \in 1..Size(r) : r.items[j].hash = Hash[r.items[j].key]
        BY <1>8, <1>9 DEF Sound, Content, N
    <2>2. \A j, l \in 1..Size(r) : r.items[j].key = r.items[l].key => j = l
        BY <1>8, <1>9 DEF Sound, Content, N
    <2>3. \A d \in 0..(nb - 1) : \E c, m : Chained(r, 1..Size(r), nb, d, c, m)
        BY <1>11 DEF Sound, Content, N
    <2>4. r.items \in Seq(Item) /\ r.buckets \in [0..(nb - 1) -> Nat]
        BY <1>6, <1>7 DEF Sound, Content
    <2>. QED  BY <2>1, <2>2, <2>3, <2>4 DEF Content
<1>13. \A y, w : Holds(r, y, w) <=> IF y = k THEN w = v ELSE Holds(t, y, w)
    BY <1>2, <1>8, <1>9 DEF Holds, N
<1>14. ASSUME NEW a, NEW y
       PROVE  After(r, nb, a, y) <=> After(t, nb, a, y)
    <2>1. ASSUME NEW c, NEW m, Chained(t, 1..N, nb, Hash[a] % nb, c, m),
                 NEW n \in Nat, n < m
          PROVE  r.items[c[n]].key = t.items[c[n]].key
        <3>1. c[n] \in 1..N
            BY <2>1 DEF Chained, Links, In
        <3>. QED  BY <1>9, <3>1
    <2>2. ASSUME NEW c, NEW m, Chained(t, 1..N, nb, Hash[a] % nb, c, m)
          PROVE  (\E j, n \in Nat : /\ j < n /\ n < m
                     /\ r.items[c[j]].key = a /\ r.items[c[n]].key = y)
                 <=> (\E j, n \in Nat : /\ j < n /\ n < m
                     /\ t.items[c[j]].key = a /\ t.items[c[n]].key = y)
        <3>1. m \in Nat
            BY <2>2 DEF Chained, Links
        <3>2. \A j, n \in Nat : j < n /\ n < m => j < m
            BY <3>1
        <3>. QED  BY <2>1, <2>2, <3>2
    <2>. QED  BY <1>11, <2>2 DEF After, N
<1>. QED  BY <1>10, <1>12, <1>13, <1>14 DEF Sound, SameOrder

-----------------------------------------------------------------------------
(* The order in which a NextKey loop comes to the keys.                     *)

(* Where a is at p, After is being at a later place.                        *)
LEMMA AfterAt ==
    ASSUME XhtAssumption, NEW t, NEW nb, Sound(t, nb), NEW a \in Key,
           NEW c, NEW m, Chained(t, 1..Size(t), nb, Hash[a] % nb, c, m),
           NEW p \in Nat, p < m, t.items[c[p]].key = a
    PROVE  \A y : After(t, nb, a, y) <=>
                      \E n \in Nat : p < n /\ n < m /\ t.items[c[n]].key = y
<1>1. /\ m \in Nat /\ \A n \in Nat : n < m => c[n] \in 1..Size(t)
      /\ \A j, n \in Nat : j < m /\ n < m /\ c[j] = c[n] => j = n
    BY DEF Chained, Links, In
<1>2. \A n \in Nat : n < m /\ t.items[c[n]].key = a => n = p
    BY <1>1 DEF Sound, Content
<1>3. ASSUME NEW y, After(t, nb, a, y)
      PROVE  \E n \in Nat : p < n /\ n < m /\ t.items[c[n]].key = y
    <2>1. PICK d, l : /\ Chained(t, 1..Size(t), nb, Hash[a] % nb, d, l)
                      /\ \E i, n \in Nat : /\ i < n /\ n < l
                            /\ t.items[d[i]].key = a /\ t.items[d[n]].key = y
        BY <1>3 DEF After
    <2>2. l = m /\ \A n \in Nat : n < m => c[n] = d[n]
        BY <2>1, OneChain
    <2>3. PICK i, n \in Nat : /\ i < n /\ n < l
                              /\ t.items[d[i]].key = a /\ t.items[d[n]].key = y
        BY <2>1
    <2>4. i < m
        BY <1>1, <2>2, <2>3
    <2>5. i = p
        BY <1>2, <2>2, <2>3, <2>4
    <2>. QED  BY <2>2, <2>3, <2>5
<1>. QED  BY <1>3 DEF After

(* y is still left when the loop is at a, in bucket b.                      *)
Follows(t, nb, a, b, y) ==
    After(t, nb, a, y) \/ (y \in Keys(t) /\ Hash[y] % nb > b)

(* Later and Left, of any table.                                            *)
LeftIn(t, k) ==
    LET b == BucketOf(t, Hash[k])
        rest == {Path(t, b)[n] : n \in (Min(LinksTo(t, k)) + 1)..Size(t)}
    IN  {t.items[i].key : i \in
            (rest \ {End}) \union
            {i \in 1..Size(t) : BucketOf(t, t.items[i].hash) > b}}

LEMMA LeftAre ==
    ASSUME XhtAssumption, NEW t, NEW nb, Sound(t, nb), NEW a \in Keys(t)
    PROVE  \A y : y \in LeftIn(t, a) <=> Follows(t, nb, a, Hash[a] % nb, y)
<1>. DEFINE b == Hash[a] % nb
            N == Size(t)
            p == Min(LinksTo(t, a))
            later == {i \in 1..N : t.items[i].hash % nb > b}
            rest == {Path(t, b)[n] : n \in (p + 1)..N} \ {End}
<1>1. /\ a \in Key /\ N \in Nat /\ b \in 0..(nb - 1) /\ BucketOf(t, Hash[a]) = b
      /\ \A h : BucketOf(t, h) = h % nb
      /\ \A i \in 1..N : t.items[i].hash = Hash[t.items[i].key]
    BY SoundFacts
<1>2. PICK c, m : Chained(t, 1..N, nb, b, c, m)
    BY <1>1 DEF Sound, Content
<1>3. p \in 0..(m - 1) /\ t.items[c[p]].key = a
    <2>1. Has(t, a)
        BY <1>1, Found
    <2>2. IndexOf(t, a) = c[p] /\ t.items[IndexOf(t, a)].key = a /\ p \in 0..(m - 1)
        BY <1>1, <1>2, <2>1, Found
    <2>. QED  BY <2>2
<1>4. m \in 0..N /\ Traces(Path(t, b), c, N)
    BY <1>1, <1>2, Search
<1>5. /\ \A n \in Nat : n < m => c[n] # End
      /\ \A n \in Nat : n >= m => c[n] = End
    BY <1>2 DEF Chained, Links
<1>6. p \in Nat /\ p < m /\ m \in Nat
    BY <1>3, <1>4
<1>7. LeftIn(t, a) = {t.items[i].key : i \in rest \union later}
    BY <1>1 DEF LeftIn
<1>. HIDE DEF b, p, N
<1>8. \A i : i \in rest <=> \E n \in Nat : p < n /\ n < m /\ c[n] = i
    <2>1. \A n \in (p + 1)..N : n \in Nat /\ n \in 0..N /\ p < n
        BY <1>1, <1>6
    <2>2. \A n \in Nat : p < n /\ n < m => n \in (p + 1)..N /\ n \in 0..N
        BY <1>1, <1>4, <1>6
    <2>3. \A n \in Nat : n < m \/ n >= m
        BY <1>6
    <2>. QED  BY <1>4, <1>5, <2>1, <2>2, <2>3 DEF Traces
<1>9. \A y : After(t, nb, a, y) <=>
                 \E n \in Nat : p < n /\ n < m /\ t.items[c[n]].key = y
    BY <1>1, <1>2, <1>3, <1>6, AfterAt DEF b, N
<1>10. \A y : (\E i \in later : t.items[i].key = y) <=>
                 y \in Keys(t) /\ Hash[y] % nb > b
    BY <1>1 DEF Keys, N
<1>. HIDE DEF later, rest
<1>11. \A y : y \in LeftIn(t, a) <=> Follows(t, nb, a, b, y)
    BY <1>7, <1>8, <1>9, <1>10 DEF Follows
<1>. QED  BY <1>11 DEF b

(* The keys in buckets from s on.                                           *)
From(t, nb, s) == {y \in Keys(t) : Hash[y] % nb >= s}

(* i leads to the first of the keys in S: the others are left after it.     *)
Starts(t, i, S) ==
    IF i = End THEN S = {}
    ELSE /\ i \in 1..Size(t) /\ t.items[i].key \in S
         /\ LeftIn(t, t.items[i].key) = S \ {t.items[i].key}

(* xht_indexed_first.                                                       *)
LEMMA FirstOf ==
    ASSUME XhtAssumption, NEW t, NEW nb, Sound(t, nb), NEW s \in Nat
    PROVE  Starts(t, FirstFrom(t, s), From(t, nb, s))
<1>. DEFINE full == {b \in s..(nb - 1) : t.buckets[b] # End}
<1>1. /\ nb \in Nat \ {0} /\ NBuckets(t) = nb
      /\ \A i \in 1..Size(t) : /\ t.items[i].hash = Hash[t.items[i].key]
                               /\ t.items[i].hash % nb \in 0..(nb - 1)
                               /\ t.items[i].key \in Key
      /\ \A b \in 0..(nb - 1) : \E c, m : Chained(t, 1..Size(t), nb, b, c, m)
    BY SoundFacts DEF Sound, Content
<1>2. FirstFrom(t, s) = IF full = {} THEN End ELSE t.buckets[Min(full)]
    BY <1>1 DEF FirstFrom
<1>3. ASSUME NEW b \in 0..(nb - 1), NEW i \in 1..Size(t), t.items[i].hash % nb = b
      PROVE  t.buckets[b] # End
    <2>1. PICK c, m : Chained(t, 1..Size(t), nb, b, c, m)
        BY <1>1
    <2>2. i \in In(t, 1..Size(t), nb, b)
        BY <1>3 DEF In
    <2>3. PICK n \in Nat : n < m
        BY <2>1, <2>2 DEF Chained, Links
    <2>4. 0 < m /\ m \in Nat
        BY <2>1, <2>3 DEF Chained, Links
    <2>. QED  BY <2>1, <2>4 DEF Chained, Links
<1>4. \A y \in From(t, nb, s) : Hash[y] % nb \in full
    <2>. SUFFICES ASSUME NEW y \in From(t, nb, s) PROVE Hash[y] % nb \in full
        OBVIOUS
    <2>1. PICK i \in 1..Size(t) : t.items[i].key = y
        BY DEF From, Keys
    <2>2. Hash[y] % nb \in 0..(nb - 1) /\ Hash[y] % nb >= s
          /\ t.items[i].hash % nb = Hash[y] % nb
        BY <1>1, <2>1 DEF From
    <2>3. t.buckets[Hash[y] % nb] # End
        BY <1>3, <2>2
    <2>4. \A z \in 0..(nb - 1) : z >= s => z \in s..(nb - 1)
        BY <1>1
    <2>. QED  BY <2>2, <2>3, <2>4
<1>5. CASE full = {}
    BY <1>2, <1>4, <1>5 DEF Starts
<1>6. CASE full # {}
    <2>. DEFINE b == Min(full)
                i == t.buckets[b]
    <2>1. b \in full /\ \A d \in full : b <= d
        <3>1. full \subseteq Nat
            OBVIOUS
        <3>. HIDE DEF full
        <3>2. \E n \in full : \A d \in full : n <= d
            BY <1>6, <3>1, LeastNat
        <3>. QED  BY <3>2 DEF Min
    <2>2. /\ b \in 0..(nb - 1) /\ b \in Nat /\ b >= s /\ i # End
          /\ FirstFrom(t, s) = i
        BY <1>1, <1>2, <1>6, <2>1
    <2>3. PICK c, m : Chained(t, 1..Size(t), nb, b, c, m)
        BY <1>1, <2>2
    <2>. HIDE DEF b, full
    <2>4. /\ m \in Nat /\ c[0] = i /\ \A n \in Nat : n >= m => c[n] = End
          /\ \A n \in Nat : n < m => c[n] \in In(t, 1..Size(t), nb, b)
          /\ \A j \in In(t, 1..Size(t), nb, b) : \E n \in Nat : n < m /\ c[n] = j
          /\ \A j, n \in Nat : j < m /\ n < m /\ c[j] = c[n] => j = n
        BY <2>3 DEF Chained, Links
    <2>5. 0 < m
        BY <2>2, <2>4
    <2>. HIDE DEF i
    <2>6. i \in 1..Size(t) /\ t.items[i].hash % nb = b
        BY <2>4, <2>5 DEF In
    <2>. DEFINE k == t.items[i].key
    <2>7. k \in Key /\ k \in Keys(t) /\ Hash[k] % nb = b
        BY <1>1, <2>6 DEF Keys
    <2>. HIDE DEF k
    <2>8. k = t.items[c[0]].key
        BY <2>4 DEF k
    <2>9. \A y : After(t, nb, k, y) <=>
                     \E n \in Nat : 0 < n /\ n < m /\ t.items[c[n]].key = y
        BY <2>3, <2>5, <2>7, <2>8, AfterAt
    <2>10. \A y : After(t, nb, k, y) <=> y \in Keys(t) /\ Hash[y] % nb = b /\ y # k
        <3>1. \A n \in Nat : n < m => /\ c[n] \in 1..Size(t)
                                      /\ Hash[t.items[c[n]].key] % nb = b
            BY <1>1, <2>4 DEF In
        <3>2. \A n \in Nat : n < m /\ t.items[c[n]].key = k => n = 0
            BY <2>4, <2>5, <2>8, <3>1 DEF Sound, Content
        <3>3. ASSUME NEW y, y \in Keys(t), Hash[y] % nb = b, y # k
              PROVE  \E n \in Nat : 0 < n /\ n < m /\ t.items[c[n]].key = y
            <4>1. PICK j \in 1..Size(t) : t.items[j].key = y
                BY <3>3 DEF Keys
            <4>2. j \in In(t, 1..Size(t), nb, b)
                BY <1>1, <3>3, <4>1 DEF In
            <4>3. PICK n \in Nat : n < m /\ c[n] = j
                BY <2>4, <4>2
            <4>4. n # 0
                BY <2>8, <3>3, <4>1, <4>3
            <4>. QED  BY <4>1, <4>3, <4>4
        <3>. QED  BY <2>9, <3>1, <3>2, <3>3 DEF Keys
    <2>11. \A y : y \in LeftIn(t, k) <=>
                      After(t, nb, k, y) \/ (y \in Keys(t) /\ Hash[y] % nb > b)
        <3>1. \A y : y \in LeftIn(t, k) <=> Follows(t, nb, k, b, y)
            BY <2>7, LeftAre
        <3>. QED  BY <3>1 DEF Follows
    <2>12. \A y \in Keys(t) : Hash[y] % nb >= s <=> Hash[y] % nb >= b
        <3>1. \A y \in Keys(t) : Hash[y] % nb \in Nat
            BY SoundFacts
        <3>2. \A y \in Keys(t) : Hash[y] % nb >= s => b <= Hash[y] % nb
            BY <1>4, <2>1 DEF From
        <3>. QED  BY <2>2, <3>1, <3>2
    <2>13. \A y \in Keys(t) : Hash[y] % nb >= b <=> Hash[y] % nb = b \/ Hash[y] % nb > b
        <3>1. \A y \in Keys(t) : Hash[y] % nb \in Nat
            BY SoundFacts
        <3>. QED  BY <2>2, <3>1
    <2>14. \A y : y \in From(t, nb, s) <=>
                      y \in Keys(t) /\ (Hash[y] % nb = b \/ Hash[y] % nb > b)
        BY <2>12, <2>13 DEF From
    <2>15. k \in From(t, nb, s)
        BY <2>7, <2>14
    <2>16. LeftIn(t, k) = From(t, nb, s) \ {k}
        <3>1. ~ (Hash[k] % nb > b)
            BY <2>2, <2>7
        <3>. QED  BY <2>10, <2>11, <2>14, <3>1
    <2>. QED  BY <2>2, <2>6, <2>15, <2>16 DEF Starts, k
<1>. QED  BY <1>5, <1>6

(* xht_indexed_next.                                                        *)
LEMMA NextOf ==
    ASSUME XhtAssumption, NEW t, NEW nb, Sound(t, nb), NEW a \in Keys(t)
    PROVE  Starts(t, NextIndex(t, a), LeftIn(t, a))
<1>. DEFINE b == Hash[a] % nb
            i == t.items[IndexOf(t, a)].next
            p == Min(LinksTo(t, a))
<1>1. /\ a \in Key /\ b \in 0..(nb - 1) /\ BucketOf(t, Hash[a]) = b
      /\ \A j \in 1..Size(t) : /\ t.items[j].hash = Hash[t.items[j].key]
                               /\ t.items[j].key \in Key
      /\ \A y \in Keys(t) : Hash[y] % nb \in Nat
    BY SoundFacts
<1>2. Has(t, a)
    BY <1>1, Found
<1>3. PICK c, m : Chained(t, 1..Size(t), nb, b, c, m)
    BY <1>1 DEF Sound, Content
<1>4. IndexOf(t, a) = c[p] /\ t.items[c[p]].key = a /\ p \in 0..(m - 1)
    BY <1>1, <1>2, <1>3, Found
<1>5. /\ m \in Nat
      /\ \A n \in Nat : n < m => c[n] \in In(t, 1..Size(t), nb, b)
      /\ \A n \in Nat : n < m => Nexts(t)[c[n]] = c[n + 1]
      /\ \A n \in Nat : n >= m => c[n] = End
      /\ \A n \in Nat : n < m => c[n] # End
      /\ \A j, n \in Nat : j < m /\ n < m /\ c[j] = c[n] => j = n
    BY <1>3 DEF Chained, Links
<1>6. p \in Nat /\ p < m /\ p + 1 \in Nat
    BY <1>4, <1>5
<1>. HIDE DEF p
<1>7. i = c[p + 1]
    <2>1. c[p] \in 1..Size(t) /\ Nexts(t)[c[p]] = c[p + 1]
        BY <1>5, <1>6 DEF In
    <2>. QED  BY <1>4, <2>1 DEF Nexts
<1>8. NextIndex(t, a) = IF i # End THEN i ELSE FirstFrom(t, b + 1)
    BY <1>1, <1>2 DEF NextIndex
<1>. HIDE DEF i, b
<1>9. \A y : After(t, nb, a, y) <=>
                 \E n \in Nat : p < n /\ n < m /\ t.items[c[n]].key = y
    BY <1>1, <1>3, <1>4, <1>6, AfterAt DEF b
<1>10. \A y : y \in LeftIn(t, a) <=>
                 After(t, nb, a, y) \/ (y \in Keys(t) /\ Hash[y] % nb > b)
    <2>1. \A y : y \in LeftIn(t, a) <=> Follows(t, nb, a, b, y)
        BY LeftAre DEF b
    <2>. QED  BY <2>1 DEF Follows
<1>11. CASE i = End
    <2>1. \A n \in Nat : ~ (p < n /\ n < m)
        <3>1. p + 1 >= m
            <4>1. p + 1 < m => c[p + 1] # End
                BY <1>5, <1>6
            <4>2. ~ (p + 1 < m)
                BY <1>7, <1>11, <4>1
            <4>. QED  BY <1>5, <1>6, <4>2
        <3>. QED  BY <1>5, <1>6, <3>1
    <2>2. \A y : y \in LeftIn(t, a) <=> y \in Keys(t) /\ Hash[y] % nb > b
        BY <1>9, <1>10, <2>1
    <2>3. \A y \in Keys(t) : Hash[y] % nb > b <=> Hash[y] % nb >= b + 1
        BY <1>1
    <2>4. LeftIn(t, a) = From(t, nb, b + 1)
        BY <2>2, <2>3 DEF From
    <2>5. b + 1 \in Nat
        BY <1>1
    <2>. QED  BY <1>8, <1>11, <2>4, <2>5, FirstOf
<1>12. CASE i # End
    <2>. DEFINE k == t.items[i].key
    <2>1. p + 1 < m
        BY <1>5, <1>6, <1>7, <1>12
    <2>2. i \in 1..Size(t) /\ t.items[i].hash % nb = b
        BY <1>5, <1>6, <1>7, <2>1 DEF In
    <2>3. k \in Key /\ k \in Keys(t) /\ Hash[k] % nb = b /\ k = t.items[c[p + 1]].key
        BY <1>1, <1>7, <2>2 DEF Keys
    <2>. HIDE DEF k
    <2>4. \A y : After(t, nb, k, y) <=>
                     \E n \in Nat : p + 1 < n /\ n < m /\ t.items[c[n]].key = y
        BY <1>3, <1>6, <2>1, <2>3, AfterAt
    <2>5. \A y : After(t, nb, k, y) <=> After(t, nb, a, y) /\ y # k
        <3>1. \A n \in Nat : n < m /\ t.items[c[n]].key = k => n = p + 1
            <4>1. \A n \in Nat : n < m => c[n] \in 1..Size(t)
                BY <1>5 DEF In
            <4>2. \A l, j \in 1..Size(t) : t.items[l].key = t.items[j].key => l = j
                BY DEF Sound, Content
            <4>3. \A n \in Nat : n < m /\ t.items[c[n]].key = k => c[n] = c[p + 1]
                BY <1>6, <2>1, <2>3, <4>1, <4>2
            <4>. QED  BY <1>5, <1>6, <2>1, <4>3
        <3>2. \A n \in Nat : p < n <=> n = p + 1 \/ p + 1 < n
            BY <1>6
        <3>3. \A n \in Nat : p + 1 < n => n # p + 1
            BY <1>6
        <3>. QED  BY <1>9, <2>3, <2>4, <3>1, <3>2, <3>3
    <2>6. \A y : y \in LeftIn(t, k) <=>
                     After(t, nb, k, y) \/ (y \in Keys(t) /\ Hash[y] % nb > b)
        <3>1. \A y : y \in LeftIn(t, k) <=> Follows(t, nb, k, b, y)
            BY <2>3, LeftAre
        <3>. QED  BY <3>1 DEF Follows
    <2>7. After(t, nb, a, k)
        BY <1>6, <1>9, <2>1, <2>3
    <2>8. ~ (Hash[k] % nb > b)
        BY <1>1, <2>3
    <2>9. LeftIn(t, k) = LeftIn(t, a) \ {k} /\ k \in LeftIn(t, a)
        BY <1>10, <2>5, <2>6, <2>7, <2>8
    <2>. QED  BY <1>8, <1>12, <2>2, <2>9 DEF Starts, k
<1>. QED  BY <1>11, <1>12

-----------------------------------------------------------------------------
(* What a table stands for.                                                 *)
MapOf(t) ==
    [k \in {t.items[i].key : i \in 1..Size(t)} |->
        t.items[CHOOSE i \in 1..Size(t) : t.items[i].key = k].value]

LeftOf(t, a) == IF a # Nil /\ Has(t, a) THEN LeftIn(t, a) ELSE {}

LEMMA MapFacts ==
    ASSUME XhtAssumption, NEW t, NEW nb, Sound(t, nb)
    PROVE  /\ DOMAIN MapOf(t) = Keys(t)
           /\ MapOf(t) = [y \in Keys(t) |-> MapOf(t)[y]]
           /\ \A y, w : Holds(t, y, w) <=> y \in Keys(t) /\ MapOf(t)[y] = w
           /\ \A k \in Keys(t) : /\ MapOf(t)[k] = t.items[IndexOf(t, k)].value
                                 /\ MapOf(t)[k] \in Val
<1>. DEFINE ix(k) == CHOOSE i \in 1..Size(t) : t.items[i].key = k
<1>1. MapOf(t) = [k \in Keys(t) |-> t.items[ix(k)].value]
    BY DEF MapOf, Keys
<1>2. ASSUME NEW k \in Keys(t)
      PROVE  ix(k) \in 1..Size(t) /\ t.items[ix(k)].key = k
    BY DEF Keys
<1>3. \A i, j \in 1..Size(t) : t.items[i].key = t.items[j].key => i = j
    BY DEF Sound, Content
<1>4. \A k \in Keys(t) : ix(k) = IndexOf(t, k)
    <2>1. \A k \in Keys(t) : k \in Key /\ Has(t, k)
        BY SoundFacts, Found
    <2>. HIDE DEF ix
    <2>. QED  BY <1>2, <2>1, Found
<1>. HIDE DEF ix
<1>5. \A k \in Keys(t) : MapOf(t)[k] = t.items[ix(k)].value /\ t.items[ix(k)].value \in Val
    BY <1>1, <1>2, SoundFacts
<1>6. ASSUME NEW y, NEW w, Holds(t, y, w)
      PROVE  y \in Keys(t) /\ MapOf(t)[y] = w
    <2>1. PICK i \in 1..Size(t) : t.items[i].key = y /\ t.items[i].value = w
        BY <1>6 DEF Holds
    <2>2. y \in Keys(t)
        BY <2>1 DEF Keys
    <2>3. ix(y) = i
        BY <1>2, <1>3, <2>1, <2>2
    <2>. QED  BY <1>5, <2>1, <2>2, <2>3
<1>7. ASSUME NEW y \in Keys(t)
      PROVE  Holds(t, y, MapOf(t)[y])
    BY <1>2, <1>5 DEF Holds
<1>8. DOMAIN MapOf(t) = Keys(t) /\ MapOf(t) = [y \in Keys(t) |-> MapOf(t)[y]]
    BY <1>1
<1>. QED  BY <1>4, <1>5, <1>6, <1>7, <1>8

(* A table that holds what f says, for the keys in D, stands for f.         *)
LEMMA MapIs ==
    ASSUME XhtAssumption, NEW t, NEW nb, Sound(t, nb), NEW D, NEW f,
           \A y, w : Holds(t, y, w) <=> y \in D /\ f[y] = w
    PROVE  MapOf(t) = [y \in D |-> f[y]] /\ Keys(t) = D
<1>1. /\ MapOf(t) = [y \in Keys(t) |-> MapOf(t)[y]]
      /\ \A y, w : Holds(t, y, w) <=> y \in Keys(t) /\ MapOf(t)[y] = w
    BY MapFacts
<1>2. \A y : y \in Keys(t) <=> y \in D
    BY <1>1
<1>3. Keys(t) = D
    BY <1>2
<1>4. \A y \in D : MapOf(t)[y] = f[y]
    BY <1>1, <1>3
<1>. HIDE DEF MapOf
<1>. QED  BY <1>1, <1>3, <1>4

(* What is left is in the table, and only a key in it has something left.   *)
LEMMA LeftWithin ==
    ASSUME XhtAssumption, NEW t, NEW nb, Sound(t, nb), NEW a \in Key \union {Nil}
    PROVE  /\ LeftOf(t, a) \subseteq Keys(t)
           /\ a \in Keys(t) => LeftOf(t, a) = LeftIn(t, a)
           /\ a \notin Keys(t) => LeftOf(t, a) = {}
<1>1. Keys(t) \subseteq Key /\ Nil \notin Key
    BY SoundFacts DEF XhtAssumption
<1>2. a # Nil => (Has(t, a) <=> a \in Keys(t))
    BY Found
<1>3. ASSUME a \in Keys(t) PROVE LeftIn(t, a) \subseteq Keys(t)
    <2>1. \A y : y \in LeftIn(t, a) <=> Follows(t, nb, a, Hash[a] % nb, y)
        BY <1>3, LeftAre
    <2>2. ASSUME NEW y, After(t, nb, a, y) PROVE y \in Keys(t)
        <3>1. PICK c, m : /\ Chained(t, 1..Size(t), nb, Hash[a] % nb, c, m)
                          /\ \E n \in Nat : n < m /\ t.items[c[n]].key = y
            BY <2>2 DEF After
        <3>2. PICK n \in Nat : n < m /\ t.items[c[n]].key = y
            BY <3>1
        <3>3. c[n] \in 1..Size(t)
            BY <3>1, <3>2 DEF Chained, Links, In
        <3>. QED  BY <3>2, <3>3 DEF Keys
    <2>. QED  BY <2>1, <2>2 DEF Follows
<1>. QED  BY <1>1, <1>2, <1>3 DEF LeftOf

-----------------------------------------------------------------------------
(* The invariant, and what each operation does to the map.                  *)
MapInv ==
    /\ U32 \in Nat \ {0, 1} /\ U32 \in Widths /\ panicked \in BOOLEAN
    /\ result \in Val \union {Absent} /\ at \in Key \union {Nil}
    /\ \E nb : Sound(ht, nb)

LEMMA Abstracted ==
    /\ Left = LeftOf(ht, at)
    /\ Left' = LeftOf(ht', at')
<1>1. Left = LeftOf(ht, at)
    BY DEF Left, LeftOf, Later, LeftIn
<1>2. Left' = LeftOf(ht', at')
    BY DEF Left, LeftOf, Later, LeftIn
<1>. QED  BY <1>1, <1>2

LEMMA NewSound ==
    ASSUME XhtAssumption, Init
    PROVE  MapInv /\ Keys(ht) = {}
<1>1. ht = [items |-> <<>>, buckets |-> [b \in {0} |-> End], capacity |-> 0]
    BY DEF Init, NewTable
<1>2. U32 \in Nat \ {0, 1}
    BY DEF Init, XhtAssumption
<1>3. /\ DOMAIN ht.buckets = 0..(1 - 1) /\ ht.items = <<>> /\ ht.capacity = 0
      /\ ht.buckets \in [0..(1 - 1) -> Nat] /\ \A b \in 0..(1 - 1) : ht.buckets[b] = End
    BY <1>1 DEF End
<1>4. ht.items \in Seq({}) /\ ht.items \in Seq(Item) /\ Len(ht.items) = 0 /\ Size(ht) = 0
    BY <1>3 DEF Size
<1>5. Table(ht, 1)
    BY <1>1, <1>2, <1>3, <1>4 DEF Table
<1>6. ASSUME NEW b \in 0..(1 - 1)
      PROVE  \E c, m : Chained(ht, 1..Size(ht), 1, b, c, m)
    <2>1. In(ht, 1..Size(ht), 1, b) = {}
        BY <1>4 DEF In
    <2>2. Links([n \in Nat |-> End], 0, End, Nexts(ht), {})
        BY LinksNone
    <2>3. Links([n \in Nat |-> End], 0, ht.buckets[b], Nexts(ht), {})
        BY <1>3, <2>2
    <2>. QED  BY <2>1, <2>3 DEF Chained
<1>7. Content(ht, 1)
    BY <1>3, <1>4, <1>6 DEF Content
<1>8. Sound(ht, 1) /\ Keys(ht) = {}
    BY <1>4, <1>5, <1>7 DEF Sound, Keys
<1>. QED  BY <1>2, <1>8 DEF MapInv, Init

(* dict_get_ptr and the store through it.                                   *)
LEMMA PutStep ==
    ASSUME XhtAssumption, MapInv, NEW k \in Key, NEW v \in Val, Put(k, v)
    PROVE  MapInv' /\ (Map!Put(k, v) \/ UNCHANGED Map!vars)
<1>1. PICK nb : Sound(ht, nb)
    BY DEF MapInv
<1>2. U32' = U32 /\ result' = result /\ at' = at /\ ~panicked
    BY DEF Put
<1>3. \A n : Sound(ht', n) <=> Sound(ht, n)'
    BY <1>2 DEF Sound, Table, Content
<1>4. /\ DOMAIN MapOf(ht) = Keys(ht) /\ MapOf(ht) = [y \in Keys(ht) |-> MapOf(ht)[y]]
      /\ \A y, w : Holds(ht, y, w) <=> y \in Keys(ht) /\ MapOf(ht)[y] = w
    BY <1>1, MapFacts
<1>5. Has(ht, k) <=> k \in Keys(ht)
    BY <1>1, Found
<1>6. Left = LeftOf(ht, at) /\ Left' = LeftOf(ht', at)
    BY <1>2, Abstracted
<1>. DEFINE D == Keys(ht) \union {k}
            f == [y \in D |-> IF y = k THEN v ELSE MapOf(ht)[y]]
<1>7. CASE Has(ht, k)
    <2>1. ht' = Stored(ht, k, v) /\ panicked' = panicked /\ k \in Keys(ht)
        BY <1>5, <1>7 DEF Put, Stored
    <2>2. /\ Sound(ht', nb) /\ SameOrder(ht', ht, nb)
          /\ \A y, w : Holds(ht', y, w) <=> IF y = k THEN w = v ELSE Holds(ht, y, w)
        BY <1>1, <2>1, StoredSound
    <2>3. \A y, w : Holds(ht', y, w) <=> y \in D /\ f[y] = w
        BY <1>4, <2>1, <2>2
    <2>. HIDE DEF f
    <2>4. MapOf(ht') = [y \in D |-> f[y]] /\ Keys(ht') = D
        BY <2>2, <2>3, MapIs
    <2>5. Keys(ht') = Keys(ht)
        BY <2>1, <2>4
    <2>6. LeftOf(ht', at) = LeftOf(ht, at)
        <3>1. at \in Key \union {Nil}
            BY DEF MapInv
        <3>2. CASE at \in Keys(ht)
            <4>1. \A y : y \in LeftIn(ht, at) <=> Follows(ht, nb, at, Hash[at] % nb, y)
                BY <1>1, <3>2, LeftAre
            <4>2. \A y : y \in LeftIn(ht', at) <=> Follows(ht', nb, at, Hash[at] % nb, y)
                BY <2>2, <2>5, <3>2, LeftAre
            <4>3. \A y : Follows(ht', nb, at, Hash[at] % nb, y) <=>
                         Follows(ht, nb, at, Hash[at] % nb, y)
                BY <2>2, <2>5 DEF SameOrder, Follows
            <4>4. \A y : y \in LeftIn(ht', at) <=> y \in LeftIn(ht, at)
                BY <4>1, <4>2, <4>3
            <4>5. LeftOf(ht, at) = LeftIn(ht, at)
                BY <1>1, <3>1, <3>2, LeftWithin
            <4>6. LeftOf(ht', at) = LeftIn(ht', at)
                BY <2>2, <2>5, <3>1, <3>2, LeftWithin
            <4>7. \A y : y \in LeftOf(ht', at) <=> y \in LeftOf(ht, at)
                BY <4>4, <4>5, <4>6
            <4>8. LeftOf(ht', at) \subseteq Keys(ht) /\ LeftOf(ht, at) \subseteq Keys(ht)
                BY <1>1, <2>2, <2>5, <3>1, LeftWithin
            <4>. QED  BY <4>7, <4>8
        <3>3. CASE at \notin Keys(ht)
            <4>1. LeftOf(ht, at) = {}
                BY <1>1, <3>1, <3>3, LeftWithin
            <4>2. LeftOf(ht', at) = {}
                BY <2>2, <2>5, <3>1, <3>3, LeftWithin
            <4>. QED  BY <4>1, <4>2
        <3>. QED  BY <3>2, <3>3
    <2>7. MapInv'
        BY <1>2, <1>3, <2>1, <2>2 DEF MapInv
    <2>8. Map!Put(k, v)
        <3>1. MapOf(ht') = [y \in Keys(ht) \union {k} |-> IF y = k THEN v ELSE MapOf(ht)[y]]
            BY <2>4 DEF f
        <3>. QED  BY <1>2, <1>4, <1>6, <2>1, <2>6, <3>1
                  DEF Map!Put, Map!With, Map!Keys, MapOf
    <2>. QED  BY <2>7, <2>8
<1>8. CASE ~Has(ht, k) /\ Panics(ht, k, v)
    <2>1. ht' = ht /\ panicked' = TRUE
        BY <1>8 DEF Put
    <2>2. MapInv'
        BY <1>1, <1>2, <1>3, <2>1 DEF MapInv
    <2>3. UNCHANGED Map!vars
        BY <1>2, <1>6, <2>1 DEF Map!vars
    <2>. QED  BY <2>2, <2>3
<1>9. CASE ~Has(ht, k) /\ ~Panics(ht, k, v)
    <2>1. ht' = Inserted(ht, k, v) /\ panicked' = panicked /\ k \notin Keys(ht)
        BY <1>5, <1>9 DEF Put
    <2>2. /\ \E n : Sound(ht', n)
          /\ \A y, w : Holds(ht', y, w) <=> Holds(ht, y, w) \/ (y = k /\ w = v)
        <3>1. U32 \in Nat \ {0, 1} /\ ~Panics(ht, k, v)
            BY <1>9 DEF MapInv
        <3>. QED  BY <1>1, <2>1, <3>1, InsertedSound
    <2>3. PICK n : Sound(ht', n)
        BY <2>2
    <2>4. \A y, w : Holds(ht', y, w) <=> y \in D /\ f[y] = w
        BY <1>4, <2>1, <2>2
    <2>. HIDE DEF f
    <2>5. MapOf(ht') = [y \in D |-> f[y]] /\ Keys(ht') = D
        BY <2>3, <2>4, MapIs
    <2>6. LeftOf(ht', at) \subseteq D /\ (at = Nil => LeftOf(ht', at) = {})
        <3>1. at \in Key \union {Nil}
            BY DEF MapInv
        <3>. QED  BY <2>3, <2>5, <3>1, LeftWithin DEF LeftOf
    <2>7. MapInv'
        BY <1>2, <1>3, <2>1, <2>3 DEF MapInv
    <2>8. Map!Put(k, v)
        <3>1. MapOf(ht') = [y \in Keys(ht) \union {k} |-> IF y = k THEN v ELSE MapOf(ht)[y]]
            BY <2>5 DEF f
        <3>. QED  BY <1>2, <1>4, <1>6, <2>1, <2>6, <3>1
                  DEF Map!Put, Map!With, Map!Keys, MapOf
    <2>. QED  BY <2>7, <2>8
<1>. QED  BY <1>7, <1>8, <1>9

(* dict_get.                                                                *)
LEMMA GetStep ==
    ASSUME XhtAssumption, MapInv, NEW k \in Key, Get(k)
    PROVE  MapInv' /\ Map!Get(k)
<1>1. PICK nb : Sound(ht, nb)
    BY DEF MapInv
<1>2. U32' = U32 /\ ht' = ht /\ at' = at /\ panicked' = panicked
      /\ result' = IF Has(ht, k) THEN ht.items[IndexOf(ht, k)].value ELSE Absent
    BY DEF Get
<1>3. Sound(ht, nb)'
    BY <1>1, <1>2 DEF Sound, Table, Content
<1>4. /\ DOMAIN MapOf(ht) = Keys(ht)
      /\ \A y \in Keys(ht) : /\ MapOf(ht)[y] = ht.items[IndexOf(ht, y)].value
                             /\ MapOf(ht)[y] \in Val
    BY <1>1, MapFacts
<1>5. Has(ht, k) <=> k \in Keys(ht)
    BY <1>1, Found
<1>6. result' = IF k \in Keys(ht) THEN MapOf(ht)[k] ELSE Absent
    BY <1>2, <1>4, <1>5
<1>7. Left' = Left
    BY <1>2, Abstracted
<1>8. MapInv'
    BY <1>2, <1>3, <1>4, <1>6 DEF MapInv
<1>9. Map!Get(k)
    BY <1>2, <1>4, <1>6, <1>7 DEF Map!Get, Map!Lookup, Map!Keys, MapOf
<1>. QED  BY <1>8, <1>9

(* RemoveKey.                                                               *)
LEMMA RemoveStep ==
    ASSUME XhtAssumption, MapInv, NEW k \in Key, Remove(k)
    PROVE  MapInv' /\ Map!Remove(k)
<1>1. PICK nb : Sound(ht, nb)
    BY DEF MapInv
<1>2. U32' = U32 /\ at' = at /\ panicked' = panicked
    BY DEF Remove
<1>3. \A n : Sound(ht', n) <=> Sound(ht, n)'
    BY <1>2 DEF Sound, Table, Content
<1>4. /\ DOMAIN MapOf(ht) = Keys(ht) /\ MapOf(ht) = [y \in Keys(ht) |-> MapOf(ht)[y]]
      /\ \A y, w : Holds(ht, y, w) <=> y \in Keys(ht) /\ MapOf(ht)[y] = w
      /\ \A y \in Keys(ht) : /\ MapOf(ht)[y] = ht.items[IndexOf(ht, y)].value
                             /\ MapOf(ht)[y] \in Val
    BY <1>1, MapFacts
<1>5. Has(ht, k) <=> k \in Keys(ht)
    BY <1>1, Found
<1>6. Left = LeftOf(ht, at) /\ Left' = LeftOf(ht', at)
    BY <1>2, Abstracted
<1>7. at \in Key \union {Nil}
    BY DEF MapInv
<1>. DEFINE D == Keys(ht) \ {k}
            f == [y \in D |-> MapOf(ht)[y]]
<1>8. CASE Has(ht, k)
    <2>1. /\ ht' = Removed(ht, k) /\ k \in Keys(ht)
          /\ result' = MapOf(ht)[k] /\ result' \in Val
        BY <1>4, <1>5, <1>8 DEF Remove
    <2>2. /\ Sound(ht', nb)
          /\ \A y, w : Holds(ht', y, w) <=> Holds(ht, y, w) /\ y # k
        BY <1>1, <2>1, RemovedSound
    <2>3. \A y, w : Holds(ht', y, w) <=> y \in D /\ f[y] = w
        BY <1>4, <2>2
    <2>. HIDE DEF f
    <2>4. MapOf(ht') = [y \in D |-> f[y]] /\ Keys(ht') = D
        BY <2>2, <2>3, MapIs
    <2>5. LeftOf(ht', at) = IF k = at THEN {} ELSE LeftOf(ht, at) \ {k}
        <3>1. CASE k = at
            BY <1>7, <2>2, <2>4, <3>1, LeftWithin
        <3>2. CASE k # at /\ at \notin Keys(ht)
            <4>1. LeftOf(ht', at) = {}
                BY <1>7, <2>2, <2>4, <3>2, LeftWithin
            <4>2. LeftOf(ht, at) = {}
                BY <1>1, <1>7, <3>2, LeftWithin
            <4>. QED  BY <3>2, <4>1, <4>2
        <3>3. CASE k # at /\ at \in Keys(ht)
            <4>1. at \in Keys(ht') /\ at \in Key
                BY <1>1, <2>4, <3>3, SoundFacts
            <4>2. LeftOf(ht', at) = LeftIn(ht', at) /\ LeftOf(ht, at) = LeftIn(ht, at)
                BY <1>1, <1>7, <2>2, <3>3, <4>1, LeftWithin
            <4>3. \A y : y \in LeftIn(ht, at) <=> Follows(ht, nb, at, Hash[at] % nb, y)
                BY <1>1, <3>3, LeftAre
            <4>4. \A y : y \in LeftIn(ht', at) <=> Follows(ht', nb, at, Hash[at] % nb, y)
                BY <2>2, <4>1, LeftAre
            <4>5. \A y : After(ht', nb, at, y) <=> After(ht, nb, at, y) /\ y # k
                BY <1>1, <2>1, <3>3, <4>1, RemovedOrder
            <4>6. \A y : Follows(ht', nb, at, Hash[at] % nb, y) <=>
                         Follows(ht, nb, at, Hash[at] % nb, y) /\ y # k
                BY <2>4, <4>5 DEF Follows
            <4>7. \A y : y \in LeftIn(ht', at) <=> y \in LeftIn(ht, at) /\ y # k
                BY <4>3, <4>4, <4>6
            <4>8. \A y : y \in LeftOf(ht', at) <=> y \in LeftOf(ht, at) \ {k}
                BY <4>2, <4>7
            <4>9. LeftOf(ht', at) \subseteq Keys(ht') /\ LeftOf(ht, at) \subseteq Keys(ht)
                BY <1>1, <1>7, <2>2, LeftWithin
            <4>10. LeftOf(ht', at) = LeftOf(ht, at) \ {k}
                BY <4>8, <4>9
            <4>. QED  BY <3>3, <4>10
        <3>. QED  BY <3>1, <3>2, <3>3
    <2>6. MapInv'
        BY <1>2, <1>3, <2>1, <2>2 DEF MapInv
    <2>7. Map!Remove(k)
        <3>1. MapOf(ht') = [y \in Keys(ht) \ {k} |-> MapOf(ht)[y]]
            BY <2>4 DEF f
        <3>2. result' = IF k \in DOMAIN MapOf(ht) THEN MapOf(ht)[k] ELSE Absent
            BY <1>4, <2>1
        <3>3. Left' = IF k = at THEN {} ELSE Left \ {k}
            BY <1>6, <2>5
        <3>4. MapOf(ht') = [y \in DOMAIN MapOf(ht) \ {k} |-> MapOf(ht)[y]]
            BY <1>4, <3>1
        <3>. QED  BY <1>2, <3>2, <3>3, <3>4
                  DEF Map!Remove, Map!Without, Map!Lookup, Map!Keys, MapOf
    <2>. QED  BY <2>6, <2>7
<1>9. CASE ~Has(ht, k)
    <2>1. ht' = ht /\ result' = Absent /\ k \notin Keys(ht)
        BY <1>5, <1>9 DEF Remove
    <2>2. Left' = Left
        BY <1>6, <2>1
    <2>3. Left = IF k = at THEN {} ELSE Left \ {k}
        BY <1>1, <1>6, <1>7, <2>1, LeftWithin
    <2>4. MapOf(ht') = [y \in Keys(ht) \ {k} |-> MapOf(ht)[y]]
        <3>1. Keys(ht) \ {k} = Keys(ht)
            BY <2>1
        <3>. QED  BY <1>4, <2>1, <3>1
    <2>5. MapInv'
        BY <1>1, <1>2, <1>3, <2>1 DEF MapInv
    <2>6. Map!Remove(k)
        <3>1. result' = IF k \in DOMAIN MapOf(ht) THEN MapOf(ht)[k] ELSE Absent
            BY <1>4, <2>1
        <3>2. MapOf(ht') = [y \in DOMAIN MapOf(ht) \ {k} |-> MapOf(ht)[y]]
            BY <1>4, <2>4
        <3>3. Left' = IF k = at THEN {} ELSE Left \ {k}
            BY <2>2, <2>3
        <3>. QED  BY <1>2, <3>1, <3>2, <3>3
                  DEF Map!Remove, Map!Without, Map!Lookup, Map!Keys, MapOf
    <2>. QED  BY <2>5, <2>6
<1>. QED  BY <1>8, <1>9

(* The first turn of a NextKey loop.                                        *)
LEMMA FirstStep ==
    ASSUME XhtAssumption, MapInv, First
    PROVE  MapInv' /\ Map!First
<1>1. PICK nb : Sound(ht, nb)
    BY DEF MapInv
<1>. DEFINE i == FirstFrom(ht, 0)
<1>2. /\ U32' = U32 /\ ht' = ht /\ panicked' = panicked /\ result' = result
      /\ at = Nil /\ at' = KeyAt(ht, i)
    BY DEF First
<1>3. Sound(ht, nb)'
    BY <1>1, <1>2 DEF Sound, Table, Content
<1>4. From(ht, nb, 0) = Keys(ht)
    <2>1. \A y \in Keys(ht) : Hash[y] % nb >= 0
        BY <1>1, SoundFacts
    <2>. QED  BY <2>1 DEF From
<1>5. Starts(ht, i, Keys(ht))
    BY <1>1, <1>4, FirstOf
<1>6. DOMAIN MapOf(ht) = Keys(ht) /\ MapOf(ht') = MapOf(ht)
    BY <1>1, <1>2, MapFacts
<1>7. Left = LeftOf(ht, at) /\ Left' = LeftOf(ht, at')
    BY <1>2, Abstracted
<1>. HIDE DEF i
<1>8. CASE i = End
    <2>1. Keys(ht) = {} /\ at' = Nil
        BY <1>2, <1>5, <1>8 DEF Starts, KeyAt
    <2>2. MapInv'
        BY <1>2, <1>3, <2>1 DEF MapInv
    <2>3. Map!First
        BY <1>2, <1>6, <1>7, <2>1 DEF Map!First, Map!Keys, Map!vars, MapOf
    <2>. QED  BY <2>2, <2>3
<1>9. CASE i # End
    <2>. DEFINE k == ht.items[i].key
    <2>1. k \in Keys(ht) /\ LeftIn(ht, k) = Keys(ht) \ {k} /\ at' = k
        BY <1>2, <1>5, <1>9 DEF Starts, KeyAt
    <2>. HIDE DEF k
    <2>2. k \in Key
        BY <1>1, <2>1, SoundFacts
    <2>3. LeftOf(ht, k) = Keys(ht) \ {k}
        BY <1>1, <2>1, <2>2, LeftWithin
    <2>4. MapInv'
        BY <1>2, <1>3, <2>1, <2>2 DEF MapInv
    <2>5. Map!First
        BY <1>2, <1>6, <1>7, <2>1, <2>3 DEF Map!First, Map!Keys, MapOf
    <2>. QED  BY <2>4, <2>5
<1>. QED  BY <1>8, <1>9

(* The next turn.                                                           *)
LEMMA NextKeyStep ==
    ASSUME XhtAssumption, MapInv, NextKey
    PROVE  MapInv' /\ Map!NextKey
<1>1. PICK nb : Sound(ht, nb)
    BY DEF MapInv
<1>. DEFINE i == NextIndex(ht, at)
<1>2. /\ U32' = U32 /\ ht' = ht /\ panicked' = panicked /\ result' = result
      /\ at # Nil /\ at' = KeyAt(ht, i) /\ at \in Key
    BY DEF NextKey, MapInv
<1>3. Sound(ht, nb)'
    BY <1>1, <1>2 DEF Sound, Table, Content
<1>4. Left = LeftOf(ht, at) /\ Left' = LeftOf(ht, at')
    BY <1>2, Abstracted
<1>5. MapOf(ht') = MapOf(ht)
    BY <1>2
<1>6. Starts(ht, i, LeftOf(ht, at))
    <2>1. CASE at \in Keys(ht)
        <3>1. LeftOf(ht, at) = LeftIn(ht, at)
            BY <1>1, <1>2, <2>1, LeftWithin
        <3>. QED  BY <1>1, <2>1, <3>1, NextOf
    <2>2. CASE at \notin Keys(ht)
        <3>1. LeftOf(ht, at) = {}
            BY <1>1, <1>2, <2>2, LeftWithin
        <3>2. ~ Has(ht, at)
            BY <1>1, <1>2, <2>2, Found
        <3>. QED  BY <3>1, <3>2 DEF NextIndex, Starts
    <2>. QED  BY <2>1, <2>2
<1>. HIDE DEF i
<1>7. CASE i = End
    <2>1. LeftOf(ht, at) = {} /\ at' = Nil
        BY <1>2, <1>6, <1>7 DEF Starts, KeyAt
    <2>2. LeftOf(ht, Nil) = {}
        BY DEF LeftOf
    <2>3. MapInv'
        BY <1>2, <1>3, <2>1 DEF MapInv
    <2>4. Map!NextKey
        BY <1>2, <1>4, <1>5, <2>1, <2>2 DEF Map!NextKey, MapOf
    <2>. QED  BY <2>3, <2>4
<1>8. CASE i # End
    <2>. DEFINE k == ht.items[i].key
                L == LeftOf(ht, at)
    <2>1. i \in 1..Size(ht) /\ k \in L /\ LeftIn(ht, k) = L \ {k} /\ at' = k
        BY <1>2, <1>6, <1>8 DEF Starts, KeyAt
    <2>2. k \in Key /\ k \in Keys(ht)
        BY <1>1, <2>1, SoundFacts DEF Keys
    <2>. HIDE DEF k, L
    <2>3. LeftOf(ht, k) = L \ {k} /\ L # {}
        BY <1>1, <2>1, <2>2, LeftWithin
    <2>4. MapInv'
        BY <1>2, <1>3, <2>1, <2>2 DEF MapInv
    <2>5. Map!NextKey
        BY <1>2, <1>4, <1>5, <2>1, <2>3 DEF Map!NextKey, MapOf, L
    <2>. QED  BY <2>4, <2>5
<1>. QED  BY <1>7, <1>8

LEMMA MapStep ==
    ASSUME XhtAssumption, MapInv, [Next]_vars
    PROVE  MapInv' /\ [Map!Next]_(Map!vars)
<1>1. CASE UNCHANGED vars
    <2>1. ht' = ht /\ at' = at /\ result' = result /\ panicked' = panicked /\ U32' = U32
        BY <1>1 DEF vars
    <2>2. Left' = Left
        BY <2>1, Abstracted
    <2>3. UNCHANGED Map!vars
        BY <2>1, <2>2 DEF Map!vars
    <2>4. MapInv'
        BY <2>1 DEF MapInv, Sound, Table, Content
    <2>. QED  BY <2>3, <2>4
<1>2. ASSUME NEW k \in Key, NEW v \in Val, Put(k, v)
      PROVE  MapInv' /\ [Map!Next]_(Map!vars)
    BY <1>2, PutStep DEF Map!Next
<1>3. ASSUME NEW k \in Key, Get(k)
      PROVE  MapInv' /\ [Map!Next]_(Map!vars)
    BY <1>3, GetStep DEF Map!Next
<1>4. ASSUME NEW k \in Key, Remove(k)
      PROVE  MapInv' /\ [Map!Next]_(Map!vars)
    BY <1>4, RemoveStep DEF Map!Next
<1>5. CASE First
    BY <1>5, FirstStep DEF Map!Next
<1>6. CASE NextKey
    BY <1>6, NextKeyStep DEF Map!Next
<1>. QED  BY <1>1, <1>2, <1>3, <1>4, <1>5, <1>6 DEF Next

LEMMA MapInvType == ASSUME XhtAssumption, MapInv PROVE TypeOK
<1>1. PICK nb : Sound(ht, nb)
    BY DEF MapInv
<1>2. ht.items \in Seq(Item) /\ ht.buckets \in [0..(nb - 1) -> Nat] /\ ht.capacity \in Nat
    BY <1>1 DEF Sound, Content, Table
<1>3. ht.buckets \in [DOMAIN ht.buckets -> Nat]
    BY <1>2
<1>. QED  BY <1>2, <1>3 DEF MapInv, TypeOK

LEMMA MapInvChains == ASSUME XhtAssumption, MapInv PROVE WellChained
<1>1. PICK nb : Sound(ht, nb)
    BY DEF MapInv
<1>2. /\ Size(ht) \in Nat /\ DOMAIN ht.buckets = 0..(nb - 1)
      /\ \A h : BucketOf(ht, h) = h % nb
    BY <1>1, SoundFacts DEF Sound, Table
<1>3. ASSUME NEW b \in 0..(nb - 1)
      PROVE  /\ Chain(b) = {i \in 1..Size(ht) : BucketOf(ht, ht.items[i].hash) = b}
             /\ Path(ht, b)[Cardinality(Chain(b))] = End
    <2>. DEFINE N == Size(ht)
                S == In(ht, 1..N, nb, b)
    <2>1. PICK c, m : Chained(ht, 1..N, nb, b, c, m)
        BY <1>1 DEF Sound, Content
    <2>2. Links(c, m, ht.buckets[b], Nexts(ht), S) /\ S \subseteq 1..N
        BY <2>1 DEF Chained, In
    <2>3. S = {i \in 1..Size(ht) : BucketOf(ht, ht.items[i].hash) = b}
        BY <1>2 DEF In
    <2>. HIDE DEF S
    <2>4. m <= N /\ Cardinality(S) = m
        BY <1>2, <2>2, LinksCounted
    <2>5. Traces(Path(ht, b), c, N)
        BY <1>2, <2>2, PathOf
    <2>6. /\ m \in Nat /\ \A n \in Nat : n < m => c[n] \in S
          /\ \A n \in Nat : n >= m => c[n] = End
          /\ \A i \in S : i # End /\ \E n \in Nat : n < m /\ c[n] = i
        BY <2>2 DEF Links
    <2>. HIDE DEF N
    <2>7. /\ \A n \in Nat : n < m => n \in 0..N
          /\ \A n \in 0..N : n \in Nat /\ (n < m \/ n >= m)
          /\ m \in 0..N
        BY <1>2, <2>4, <2>6 DEF N
    <2>8. Chain(b) = S
        <3>1. \A i : i \in Chain(b) <=> i # End /\ \E n \in 0..N : c[n] = i
            BY <2>5 DEF Chain, Traces
        <3>2. \A i : i \in S <=> i # End /\ \E n \in 0..N : c[n] = i
            BY <2>6, <2>7
        <3>3. \A i : i \in Chain(b) <=> i \in S
            BY <3>1, <3>2
        <3>4. Chain(b) \subseteq S
            BY <3>3
        <3>5. S \subseteq Chain(b)
            BY <3>3
        <3>. QED  BY <3>4, <3>5
    <2>9. c[m] = End
        BY <2>6
    <2>10. Path(ht, b)[m] = End
        BY <2>5, <2>7, <2>9 DEF Traces
    <2>. QED  BY <2>3, <2>4, <2>8, <2>10
<1>4. /\ \A i \in 1..Size(ht) : ht.items[i].hash = Hash[ht.items[i].key]
      /\ \A i, j \in 1..Size(ht) : ht.items[i].key = ht.items[j].key => i = j
    BY <1>1 DEF Sound, Content
<1>. QED  BY <1>2, <1>3, <1>4 DEF WellChained

(* The table's items, links and capacity are what the code takes them to be:
   indices, hashes, keys and values.                                        *)
THEOREM TypesKept == Spec => []TypeOK
<1>1. Init => MapInv
    BY XhtAssumption, NewSound
<1>2. MapInv /\ [Next]_vars => MapInv'
    BY XhtAssumption, MapStep
<1>3. MapInv => TypeOK
    BY XhtAssumption, MapInvType
<1>. QED  BY <1>1, <1>2, <1>3, PTL DEF Spec

(* Whatever xht_put and xht_remove do, and whichever items they move, each
   item is on the chain of its hash, once, and on no other; chains end.     *)
THEOREM ChainsKept == Spec => []WellChained
<1>1. Init => MapInv
    BY XhtAssumption, NewSound
<1>2. MapInv /\ [Next]_vars => MapInv'
    BY XhtAssumption, MapStep
<1>3. MapInv => WellChained
    BY XhtAssumption, MapInvChains
<1>. QED  BY <1>1, <1>2, <1>3, PTL DEF Spec

(* The hash table implements the map of KeyMap: xht_get, xht_put, xht_remove
   and the NextKey loop of xht_indexed_first and xht_indexed_next do to it
   what a map promises, removal of other keys during a loop included.       *)
THEOREM IsMap == Spec => MapSpec
<1>1. Init => MapInv /\ Map!Init
    <2>1. ASSUME Init PROVE MapInv /\ Map!Init
        <3>1. MapInv /\ Keys(ht) = {}
            BY <2>1, XhtAssumption, NewSound
        <3>2. PICK nb : Sound(ht, nb)
            BY <3>1 DEF MapInv
        <3>3. MapOf(ht) = [y \in {} |-> Nil]
            <4>1. MapOf(ht) = [y \in Keys(ht) |-> MapOf(ht)[y]]
                BY <3>2, XhtAssumption, MapFacts
            <4>. QED  BY <3>1, <4>1
        <3>4. at = Nil /\ result = Absent
            BY <2>1 DEF Init
        <3>5. Left = {}
            BY <3>4 DEF Left
        <3>. QED  BY <3>1, <3>3, <3>4, <3>5 DEF Map!Init, MapOf
    <2>. QED  BY <2>1
<1>2. MapInv /\ [Next]_vars => MapInv' /\ [Map!Next]_(Map!vars)
    BY XhtAssumption, MapStep
<1>. QED  BY <1>1, <1>2, PTL DEF Spec, MapSpec, Map!Spec
=============================================================================
