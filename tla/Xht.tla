-------------------------------- MODULE Xht --------------------------------
(***************************************************************************)
(* The hash table (xht.h, xht.c) as a Calx program sees it through a dict: *)
(* entries in an array without holes, chained by index from a power of two *)
(* of buckets; removal moves the last entry into the hole.                 *)
(*                                                                         *)
(* Indices count from 1 here, and End stands for (uint32_t) -1.            *)
(***************************************************************************)
EXTENDS Integers, Sequences, FiniteSetsExt

CONSTANTS
    Key, Val, Nil, Absent,
    Hash,       \* Hash[k]: the 32-bit hash of k
    Widths      \* how many values a uint32_t may have

VARIABLES
    ht,         \* the table
    panicked,   \* overflow_handler has aborted the process
    result,     \* what the last xht_get or xht_remove returned
    at,         \* the key a NextKey loop of the program is at, or Nil
    U32         \* how many values a uint32_t has

vars == <<ht, panicked, result, at, U32>>

ASSUME XhtAssumption ==
    /\ Hash \in [Key -> Nat] /\ Widths \subseteq Nat \ {0, 1}
    /\ Nil \in Val /\ Nil \notin Key /\ Absent \notin Val

End == 0

Item == [key : Key, value : Val, next : Nat, hash : Nat]

TypeOK ==
    /\ ht.items \in Seq(Item)
    /\ ht.buckets \in [DOMAIN ht.buckets -> Nat]
    /\ ht.capacity \in Nat
    /\ panicked \in BOOLEAN /\ result \in Val \union {Absent}
    /\ at \in Key \union {Nil} /\ U32 \in Widths

(* xht_new(0).                                                              *)
NewTable == [items |-> <<>>, buckets |-> [b \in {0} |-> End], capacity |-> 0]

Size(t)     == Len(t.items)
NBuckets(t) == Cardinality(DOMAIN t.buckets)
BucketOf(t, hash) == hash % NBuckets(t)

(* Path(t, b)[n]: the n-th link of bucket b's chain, counted from 0.        *)
Path(t, b) ==
    LET link[n \in 0..Size(t)] ==
            IF n = 0 THEN t.buckets[b]
            ELSE LET i == link[n - 1]
                 IN  IF i = End THEN End ELSE t.items[i].next
    IN  link

(* The first link of the chain of k's hash that leads to k's item, as the
   loops of xht_get, xht_put, xht_indexed_next and xht_remove find it.      *)
LinksTo(t, k) ==
    LET path == Path(t, BucketOf(t, Hash[k]))
    IN  {n \in DOMAIN path : path[n] # End /\ t.items[path[n]].key = k}

Has(t, k)   == LinksTo(t, k) # {}
IndexOf(t, k) == Path(t, BucketOf(t, Hash[k]))[Min(LinksTo(t, k))]

-----------------------------------------------------------------------------
(* grow_items: twice the room, as far as a uint32_t counts.                 *)
NewCapacity(c) == IF c = 0 THEN 1 ELSE IF 2 * c >= U32 THEN U32 - 1 ELSE 2 * c

(* grow_buckets chains the items anew in the order of their indices, each in
   front of the ones before it.                                             *)
LastIn(items, nb, b, n) == Max({End} \union {j \in 1..n : items[j].hash % nb = b})

RegrownKeepsLinks(t) ==    \* mutant: the links stay those of the old chains
    LET nb == 2 * NBuckets(t)
    IN  [t EXCEPT
          !.buckets = [b \in 0..(nb - 1) |-> LastIn(t.items, nb, b, Size(t))]]

Regrown(t) ==
    LET nb == 2 * NBuckets(t)
    IN  [t EXCEPT
          !.buckets = [b \in 0..(nb - 1) |-> LastIn(t.items, nb, b, Size(t))],
          !.items = [i \in 1..Size(t) |->
              [t.items[i] EXCEPT
                  !.next = LastIn(t.items, nb, t.items[i].hash % nb, i - 1)]]]

Appended(t, k, v) ==
    LET b == BucketOf(t, Hash[k])
        item == [key |-> k, value |-> v, next |-> t.buckets[b], hash |-> Hash[k]]
    IN  [items    |-> Append(t.items, item),
         buckets  |-> [t.buckets EXCEPT ![b] = Size(t) + 1],
         capacity |-> IF Size(t) = t.capacity THEN NewCapacity(t.capacity)
                      ELSE t.capacity]

Overloaded(t) == Size(t) * 4 > NBuckets(t) * 3

PanicsOnItems(t, k, v) ==  \* mutant: the number of buckets is not checked
    Size(t) = t.capacity /\ t.capacity = U32 - 1

(* overflow_handler is called from grow_items or from grow_buckets.         *)
Panics(t, k, v) ==
    \/ Size(t) = t.capacity /\ t.capacity = U32 - 1
    \/ Overloaded(Appended(t, k, v)) /\ 2 * NBuckets(t) >= U32

(* xht_insert_new_unchecked.                                                *)
Inserted(t, k, v) ==
    LET a == Appended(t, k, v) IN IF Overloaded(a) THEN Regrown(a) ELSE a

-----------------------------------------------------------------------------
(* *pi = to, where pi is the address of link n of bucket b.                 *)
SetLink(t, b, n, to) ==
    IF n = 0 THEN [t EXCEPT !.buckets[b] = to]
    ELSE [t EXCEPT !.items[Path(t, b)[n - 1]].next = to]

(* pop_item_at_index: the last item moves to idx, where its link follows.   *)
Popped(t, idx) ==
    LET last  == Size(t)
        b     == BucketOf(t, t.items[last].hash)
        n     == Min({m \in 0..last : Path(t, b)[m] = last})
        redirected == SetLink(t, b, n, idx)
        moved == IF idx = last THEN t
                 ELSE [redirected EXCEPT !.items[idx] = redirected.items[last]]
    IN  [moved EXCEPT !.items = SubSeq(@, 1, last - 1)]

Unlinked(t, k) ==
    LET b == BucketOf(t, Hash[k])
    IN  SetLink(t, b, Min(LinksTo(t, k)), t.items[IndexOf(t, k)].next)

(* xht_remove of a key that is there.                                       *)
Removed(t, k) == Popped(Unlinked(t, k), IndexOf(t, k))

-----------------------------------------------------------------------------
(* xht_indexed_first.                                                       *)
FirstFrom(t, start) ==
    LET full == {b \in start..(NBuckets(t) - 1) : t.buckets[b] # End}
    IN  IF full = {} THEN End ELSE t.buckets[Min(full)]

NextIndexSameBucket(t, k) ==   \* mutant: starts over in the same bucket
    IF ~Has(t, k) THEN End
    ELSE LET next == t.items[IndexOf(t, k)].next
         IN  IF next # End THEN next ELSE FirstFrom(t, BucketOf(t, Hash[k]))

(* xht_indexed_next: no next key after one that is not there.               *)
NextIndex(t, k) ==
    IF ~Has(t, k) THEN End
    ELSE LET next == t.items[IndexOf(t, k)].next
         IN  IF next # End THEN next ELSE FirstFrom(t, BucketOf(t, Hash[k]) + 1)

KeyAtNull(t, i) == IF i = End THEN Absent ELSE t.items[i].key   \* mutant
KeyAt(t, i) == IF i = End THEN Nil ELSE t.items[i].key

-----------------------------------------------------------------------------
Init ==
    /\ ht = NewTable /\ panicked = FALSE
    /\ result = Absent /\ at = Nil
    /\ U32 \in Widths

(* OP_STORE_AT on a dict: dict_get_ptr, then the value is written through
   the pointer.  With v = Nil, also OP_MODIFY_AT with no such key: the entry
   is inserted before perform_aop fails.                                    *)
Put(k, v) ==
    /\ ~panicked
    /\ IF Has(ht, k)
       THEN ht' = [ht EXCEPT !.items[IndexOf(ht, k)].value = v] /\ UNCHANGED panicked
       ELSE IF Panics(ht, k, v) THEN panicked' = TRUE /\ UNCHANGED ht
       ELSE ht' = Inserted(ht, k, v) /\ UNCHANGED panicked
    /\ UNCHANGED <<result, at, U32>>

(* dict_get.                                                                *)
Get(k) ==
    /\ ~panicked
    /\ result' = IF Has(ht, k) THEN ht.items[IndexOf(ht, k)].value ELSE Absent
    /\ UNCHANGED <<ht, panicked, at, U32>>

(* RemoveKey.                                                               *)
Remove(k) ==
    /\ ~panicked
    /\ IF Has(ht, k)
       THEN ht' = Removed(ht, k) /\ result' = ht.items[IndexOf(ht, k)].value
       ELSE result' = Absent /\ UNCHANGED ht
    /\ UNCHANGED <<panicked, at, U32>>

(* for (k := NextKey(d, nil); k; k = NextKey(d, k)).                        *)
First   == ~panicked /\ at = Nil /\ at' = KeyAt(ht, FirstFrom(ht, 0))
           /\ UNCHANGED <<ht, panicked, result, U32>>
NextKey == ~panicked /\ at # Nil /\ at' = KeyAt(ht, NextIndex(ht, at))
           /\ UNCHANGED <<ht, panicked, result, U32>>

Next ==
    \/ \E k \in Key, v \in Val : Put(k, v)
    \/ \E k \in Key : Get(k) \/ Remove(k)
    \/ First
    \/ NextKey

Spec == Init /\ [][Next]_vars

-----------------------------------------------------------------------------
(* Properties.                                                              *)

Chain(b) == {Path(ht, b)[n] : n \in DOMAIN Path(ht, b)} \ {End}

(* Every item is on the chain of its hash and on no other, once, and no two
   items have the same key: also after an item has been moved.              *)
WellChained ==
    /\ \A i, j \in 1..Size(ht) : ht.items[i].key = ht.items[j].key => i = j
    /\ \A i \in 1..Size(ht) : ht.items[i].hash = Hash[ht.items[i].key]
    /\ \A b \in DOMAIN ht.buckets :
          /\ Chain(b) = {i \in 1..Size(ht) : BucketOf(ht, ht.items[i].hash) = b}
          /\ Path(ht, b)[Cardinality(Chain(b))] = End

(* What keeps xht_get short, the array within its capacity, and every index
   different from (uint32_t) -1.                                            *)
RoomLeft ==
    /\ ~Overloaded(ht) /\ NBuckets(ht) < U32
    /\ Size(ht) <= ht.capacity /\ ht.capacity < U32 /\ Size(ht) < U32 - 1

(* The keys a NextKey loop still has to come to: the rest of the chain of the
   key it is at, and the buckets after.                                     *)
Later(k) ==
    LET b == BucketOf(ht, Hash[k])
        rest == {Path(ht, b)[n] : n \in (Min(LinksTo(ht, k)) + 1)..Size(ht)}
    IN  (rest \ {End}) \union
        {i \in 1..Size(ht) : BucketOf(ht, ht.items[i].hash) > b}

Left == IF at # Nil /\ Has(ht, at) THEN {ht.items[i].key : i \in Later(at)} ELSE {}

Map == INSTANCE KeyMap
         WITH map <- [k \in {ht.items[i].key : i \in 1..Size(ht)} |->
                        ht.items[CHOOSE i \in 1..Size(ht) : ht.items[i].key = k].value],
              left <- Left

(* The table is a map, and a NextKey loop visits every key once while keys
   other than the one it is at are removed and values are overwritten.      *)
MapSpec == Map!Spec
=============================================================================
