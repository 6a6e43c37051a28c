-------------------------------- MODULE Heap --------------------------------
(***************************************************************************)
(* Reference counting and weak references (vm.h value_ref/value_unref,     *)
(* value_free, list.h, dict.h, wref.h, str.h) as the instructions and the   *)
(* native functions drive them.                                            *)
(*                                                                         *)
(* value_unref can set off a cascade: freeing a list drops its items, each  *)
(* of which may free another one.  The C code recurses; `due` is that      *)
(* recursion laid out, what is still to be done before the program goes    *)
(* on, in order.  Addresses are reused: a freed object may be allocated    *)
(* again.  A string's contents are abstracted to its length, a dict to its  *)
(* array of values (Xht models the keys); a number is as a string here: it  *)
(* too is changed in place when nothing else refers to it.                 *)
(***************************************************************************)
EXTENDS Integers, SequencesExt

CONSTANTS
    Obj,        \* addresses of objects
    Global,     \* the global variables
    Nil,        \* the nil value: its count starts at 1 and it is never freed
    None,       \* a NULL pointer
    Free,       \* what there is at an address that is not allocated
    Bounds      \* the bounds to choose from: [kinds, objects, stack, items, text]

VARIABLES
    heap,       \* what is at each address
    stack,      \* the value stack
    globals,    \* state->globals
    due,        \* what remains to be done of the instruction, in order
    over,       \* state_destroy has been called
    bound       \* the bounds chosen

vars == <<heap, stack, globals, due, over, bound>>

(* Bounds: the kinds of object there are, how many are alive at a time, how
   many values are pushed, how many items a container has, how long a string
   becomes.                                                                 *)
Kinds    == bound.kinds
MaxStack == bound.stack
MaxItems == bound.items
MaxText  == bound.text

Ref == Obj \union {Nil}

(* A GcHeader and what follows it; the fields a kind has not are empty.     *)
Cell == [kind : {"list", "dict", "str", "wref"}, nrefs : Nat,
         items : Seq(Ref), text : Nat, wref_first : Obj \union {None},
         target : Obj \union {None},
         next : Obj \union {None}, prev : Obj \union {None}]

ASSUME HeapAssumption ==
    /\ IsFiniteSet(Obj) /\ IsFiniteSet(Global)
    /\ Nil \notin Obj /\ None \notin Obj \union {Nil} /\ Free \notin Cell
    /\ Bounds \subseteq [kinds : SUBSET {"list", "dict", "str", "wref"}, objects : Nat,
                         stack : Nat, items : Nat, text : Nat]

(* Where a value is stored: a global, or item `at` of the container `in`.   *)
Place == [in : {None}, at : Global] \union [in : Obj, at : Nat]

Unref(r)    == [do |-> "unref", ref |-> r]
Release(o)  == [do |-> "free", ref |-> o]
Write(p, r) == [do |-> "write", ref |-> r, place |-> p]

Task == [do : {"unref"}, ref : Ref] \union [do : {"free"}, ref : Obj]
        \union [do : {"write"}, ref : Ref, place : Place]

TypeOK ==
    /\ heap \in [Obj -> Cell \union {Free}]
    /\ stack \in Seq(Ref)
    /\ globals \in [Global -> Ref \union {None}]
    /\ due \in Seq(Task)
    /\ over \in BOOLEAN /\ bound \in Bounds

-----------------------------------------------------------------------------
Drop(s, n) == SubSeq(s, 1, Len(s) - n)
Tops(s, n) == SubSeq(s, Len(s) - n + 1, Len(s))
Down(s)    == [i \in 1..Len(s) |-> s[Len(s) - i + 1]]

Live    == {o \in Obj : heap[o] # Free}
Room(o) == heap[o] = Free /\ Cardinality(Live) < bound.objects
Is(r, kinds) == r \in Live /\ heap[r].kind \in kinds
Containers == {"list", "dict"}

Object(kind) == [kind |-> kind, nrefs |-> 1, items |-> <<>>, text |-> 0,
                 wref_first |-> None, target |-> None, next |-> None, prev |-> None]

Counted(h, r, n) == IF r = Nil THEN h ELSE [h EXCEPT ![r].nrefs = @ + n]
Reffed(h, r)     == Counted(h, r, 1)

Unrefs(rs) == [i \in 1..Len(rs) |-> Unref(rs[i])]

Idle == due = <<>> /\ ~over
Top  == stack[Len(stack)]
Second == stack[Len(stack) - 1]
Third  == stack[Len(stack) - 2]

-----------------------------------------------------------------------------
(* The cascade.                                                             *)

(* value_free: a list or dict first tells its weak references; its own block
   is freed after all its items have been dropped.                          *)
WeakChain(h, o) ==
    LET chain[n \in 0..Cardinality(Obj)] ==
            IF n = 0 THEN h[o].wref_first
            ELSE LET w == chain[n - 1] IN IF w = None THEN None ELSE h[w].next
    IN  chain
WeakRefsTo(h, o) == {WeakChain(h, o)[n] : n \in 0..Cardinality(Obj)} \ {None}

Invalidated(h, o) ==        \* wrefable_invalidate
    [x \in Obj |-> IF x \in WeakRefsTo(h, o) THEN [h[x] EXCEPT !.target = None]
                   ELSE h[x]]

(* Mutants: the object's first weak reference is not updated; the others are
   told the object is gone.                                                 *)
UnchainedKeepsFirst(h, w) ==
    LET prev == h[w].prev
        next == h[w].next
        front == IF prev # None THEN [h EXCEPT ![prev].next = next] ELSE h
    IN  IF next # None THEN [front EXCEPT ![next].prev = prev] ELSE front
UnchainedForAll(h, w) ==
    LET front == UnchainedKeepsFirst(h, w)
    IN  IF h[w].target = None THEN front
        ELSE Invalidated([front EXCEPT ![h[w].target].wref_first = h[w].next],
                         h[w].target)

(* wref_destroy takes the weak reference out of its list.                   *)
Unchained(h, w) ==
    LET prev == h[w].prev
        next == h[w].next
        target == h[w].target
        front == IF prev # None THEN [h EXCEPT ![prev].next = next]
                 ELSE IF target # None THEN [h EXCEPT ![target].wref_first = next]
                 ELSE h
    IN  IF next # None THEN [front EXCEPT ![next].prev = prev] ELSE front

Dying(h, o) ==
    CASE h[o].kind \in Containers -> Invalidated(h, o)
      [] h[o].kind = "wref"       -> Unchained(h, o)
      [] h[o].kind = "str"        -> h

DropRef ==
    /\ due # <<>> /\ Head(due).do = "unref"
    /\ LET r == Head(due).ref
           h == Counted(heap, r, -1)
       IN  IF r = Nil \/ h[r].nrefs > 0
           THEN heap' = h /\ due' = Tail(due)
           ELSE /\ heap' = Dying(h, r)
                /\ due' = Unrefs(h[r].items) \o <<Release(r)>> \o Tail(due)
    /\ UNCHANGED <<stack, globals, over, bound>>

FreeBlock ==
    /\ due # <<>> /\ Head(due).do = "free"
    /\ heap' = [heap EXCEPT ![Head(due).ref] = Free]
    /\ due' = Tail(due)
    /\ UNCHANGED <<stack, globals, over, bound>>

(* The second half of store and checked_store: *where = value.              *)
Overwrite ==
    /\ due # <<>> /\ Head(due).do = "write"
    /\ LET p == Head(due).place
           r == Head(due).ref
       IN  IF p.in = None
           THEN globals' = [globals EXCEPT ![p.at] = r] /\ UNCHANGED heap
           ELSE heap' = [heap EXCEPT ![p.in].items[p.at] = r] /\ UNCHANGED globals
    /\ due' = Tail(due)
    /\ UNCHANGED <<stack, over, bound>>

Continue == DropRef \/ FreeBlock \/ Overwrite

-----------------------------------------------------------------------------
(* The instructions and native functions that move references.              *)

Instruct(h, st, tasks) ==
    heap' = h /\ stack' = st /\ due' = tasks /\ UNCHANGED <<globals, over, bound>>

LoadNil == Idle /\ Len(stack) < MaxStack
           /\ Instruct(heap, Append(stack, Nil), <<>>)

(* OP_LOAD_GLOBAL, OP_LOAD_LOCAL, OP_LOAD_CONST.                            *)
LoadGlobal(x) ==
    /\ Idle /\ Len(stack) < MaxStack /\ globals[x] # None
    /\ Instruct(Reffed(heap, globals[x]), Append(stack, globals[x]), <<>>)

(* string_new.                                                              *)
NewString(o) ==
    /\ Idle /\ Len(stack) < MaxStack /\ Room(o) /\ "str" \in Kinds
    /\ Instruct([heap EXCEPT ![o] = [Object("str") EXCEPT !.text = 1]],
                Append(stack, o), <<>>)

(* OP_LIST, OP_DICT (with n different keys): the n values on top are moved.  *)
NewContainer(o, kind, n) ==
    /\ Idle /\ n <= MaxItems /\ Len(stack) - n < MaxStack
    /\ Room(o) /\ kind \in Kinds
    /\ Instruct([heap EXCEPT ![o] = [Object(kind) EXCEPT !.items = Tops(stack, n)]],
                Append(Drop(stack, n), o), <<>>)

LoadAtUncounted(i) ==                       \* mutant: no value_ref
    /\ Idle /\ stack # <<>> /\ Is(Top, Containers)
    /\ i \in DOMAIN heap[Top].items
    /\ Instruct(heap, Append(Drop(stack, 1), heap[Top].items[i]), <<Unref(Top)>>)

(* OP_LOAD_AT of an item of the container on top.                           *)
LoadAt(i) ==
    /\ Idle /\ stack # <<>> /\ Is(Top, Containers)
    /\ i \in DOMAIN heap[Top].items
    /\ LET r == heap[Top].items[i]
       IN  Instruct(Reffed(heap, r), Append(Drop(stack, 1), r), <<Unref(Top)>>)

(* get_elem_ptr_at: the item's place; one past the end, a nil is added.     *)
Grown(h, c, i) == IF i \in DOMAIN h[c].items THEN h
                  ELSE [h EXCEPT ![c].items = Append(@, Nil)]
Indexable(c, i) == Is(c, Containers) /\ i \in 1..(Len(heap[c].items) + 1)
                   /\ i <= MaxItems

StoreAtUnrefFirst(i) ==     \* mutant: the container dropped before the write
    /\ Idle /\ Len(stack) >= 2 /\ Indexable(Second, i)
    /\ LET h == Grown(heap, Second, i)
       IN  Instruct(h, Drop(stack, 2),
                    <<Unref(h[Second].items[i]), Unref(Second),
                      Write([in |-> Second, at |-> i], Top)>>)

(* OP_STORE_AT: the container under the value.                              *)
StoreAt(i) ==
    /\ Idle /\ Len(stack) >= 2 /\ Indexable(Second, i)
    /\ LET h == Grown(heap, Second, i)
       IN  Instruct(h, Drop(stack, 2),
                    <<Unref(h[Second].items[i]),
                      Write([in |-> Second, at |-> i], Top), Unref(Second)>>)

(* OP_STORE_GLOBAL; OP_STORE_LOCAL, where there always is an old value.     *)
StoreGlobal(x) ==
    /\ Idle /\ stack # <<>>
    /\ Instruct(heap, Drop(stack, 1),
                (IF globals[x] = None THEN <<>> ELSE <<Unref(globals[x])>>)
                   \o <<Write([in |-> None, at |-> x], Top)>>)

(* X_Pop; do_call then drops the argument.                                  *)
Pop ==
    /\ Idle /\ stack # <<>> /\ Is(Top, {"list"}) /\ heap[Top].items # <<>>
    /\ Instruct([heap EXCEPT ![Top].items = Drop(@, 1)],
                Append(Drop(stack, 1), Last(heap[Top].items)), <<Unref(Top)>>)

(* X_RemoveKey: the last item takes the place of the one removed.           *)
RemoveKey(i) ==
    /\ Idle /\ stack # <<>> /\ Is(Top, {"dict"}) /\ i \in DOMAIN heap[Top].items
    /\ LET items == heap[Top].items
       IN  Instruct([heap EXCEPT
                       ![Top].items = Drop([items EXCEPT ![i] = Last(items)], 1)],
                    Append(Drop(stack, 1), Nil), <<Unref(items[i]), Unref(Top)>>)

(* X_Wref: wref_new puts the new weak reference in front of the others.     *)
Chained(h, w, o) ==
    LET old == h[o].wref_first
        new == [h EXCEPT ![w] = [Object("wref") EXCEPT !.target = o, !.next = old],
                         ![o].wref_first = w]
    IN  IF old = None THEN new ELSE [new EXCEPT ![old].prev = w]

Wref(w) ==
    /\ Idle /\ stack # <<>> /\ Is(Top, Containers)
    /\ Room(w) /\ "wref" \in Kinds
    /\ Instruct(Chained(heap, w, Top), Append(Drop(stack, 1), w), <<Unref(Top)>>)

WvalueUnchecked ==          \* mutant: the target returned without a look
    /\ Idle /\ stack # <<>> /\ Is(Top, {"wref"})
    /\ LET r == heap[Top].target
       IN  /\ stack' = Append(Drop(stack, 1), r) /\ due' = <<Unref(Top)>>
           /\ UNCHANGED <<heap, globals, over, bound>>

(* X_Wvalue.                                                                *)
Wvalue ==
    /\ Idle /\ stack # <<>> /\ Is(Top, {"wref"})
    /\ LET r == IF heap[Top].target = None THEN Nil ELSE heap[Top].target
       IN  Instruct(Reffed(heap, r), Append(Drop(stack, 1), r), <<Unref(Top)>>)

(* perform_aop with AOP_CONCAT: a string that nothing else refers to is
   appended to in place, any other value is copied into a string at o.      *)
TextOf(r)    == IF Is(r, {"str"}) THEN heap[r].text ELSE 1
InPlaceAlways(l) == Is(l, {"str"})      \* mutant: nrefs is not looked at
InPlace(l)   == Is(l, {"str"}) /\ heap[l].nrefs = 1
Result(l, o) == IF InPlace(l) THEN l ELSE o

Joined(h, l, r, o) ==
    LET text == TextOf(l) + TextOf(r)
        copy == [h EXCEPT ![o] = [Object("str") EXCEPT !.text = text]]
    IN  IF InPlace(l) THEN [h EXCEPT ![l].text = text]
        ELSE IF Is(l, {"str"}) THEN Counted(copy, l, -1)
        ELSE copy
LeftoversRight(l, r) == <<Unref(r)>>    \* mutant: the left operand leaks
Leftovers(l, r) == IF Is(l, {"str"}) THEN <<Unref(r)>> ELSE <<Unref(l), Unref(r)>>

Joinable(l, r, o) == /\ Room(o) /\ "str" \in Kinds
                     /\ TextOf(l) + TextOf(r) <= MaxText

Concat(o) ==
    /\ Idle /\ Len(stack) >= 2 /\ Joinable(Second, Top, o)
    /\ Instruct(Joined(heap, Second, Top, o),
                Append(Drop(stack, 2), Result(Second, o)), Leftovers(Second, Top))

(* OP_MODIFY_GLOBAL and OP_MODIFY_LOCAL: where's old value is the operand.   *)
ModifyGlobal(x, o) ==
    /\ Idle /\ stack # <<>> /\ globals[x] # None /\ Joinable(globals[x], Top, o)
    /\ Instruct(Joined(heap, globals[x], Top, o), Drop(stack, 1),
                Append(Leftovers(globals[x], Top),
                       Write([in |-> None, at |-> x], Result(globals[x], o))))

(* OP_MODIFY_AT: one past the end, the operand is the nil just added.       *)
ModifyAt(i, o) ==
    /\ Idle /\ Len(stack) >= 2 /\ Indexable(Second, i)
    /\ LET h == Grown(heap, Second, i)
           l == h[Second].items[i]
       IN  /\ Joinable(l, Top, o)
           /\ Instruct(Joined(h, l, Top, o), Drop(stack, 2),
                       Leftovers(l, Top) \o
                       <<Write([in |-> Second, at |-> i], Result(l, o)),
                         Unref(Second)>>)

(* popn: OP_PRINT, OP_RETURN, OP_JUMP_UNLESS.                               *)
PopN(n) == Idle /\ n <= Len(stack)
           /\ Instruct(heap, Drop(stack, n), Unrefs(Down(Tops(stack, n))))

(* state_throw and scratch_pad_free: the value stack is dropped.            *)
Throw == Idle /\ Instruct(heap, <<>>, Unrefs(Down(stack)))

(* OP_MODIFY_AT one past the end whose perform_aop fails.                   *)
ModifyAtThrows(i) ==
    /\ Idle /\ Len(stack) >= 2 /\ Indexable(Second, i)
    /\ Instruct(Grown(heap, Second, i), <<>>, Unrefs(Down(stack)))

(* state_destroy.                                                           *)
Destroy ==
    LET names == SetToSeq({x \in Global : globals[x] # None})
    IN  /\ Idle /\ stack = <<>>
        /\ due' = Unrefs([i \in 1..Len(names) |-> globals[names[i]]])
        /\ globals' = [x \in Global |-> None]
        /\ over' = TRUE
        /\ UNCHANGED <<heap, stack, bound>>

-----------------------------------------------------------------------------
Init ==
    /\ heap = [o \in Obj |-> Free] /\ stack = <<>>
    /\ globals = [x \in Global |-> None] /\ due = <<>> /\ over = FALSE
    /\ bound \in Bounds

Next ==
    \/ Continue
    \/ LoadNil \/ Pop \/ Wvalue \/ Throw \/ Destroy
    \/ \E x \in Global : LoadGlobal(x) \/ StoreGlobal(x)
                         \/ \E o \in Obj : ModifyGlobal(x, o)
    \/ \E o \in Obj : \/ NewString(o) \/ Wref(o) \/ Concat(o)
                      \/ \E kind \in Containers, n \in 0..Len(stack) :
                            NewContainer(o, kind, n)
    \/ \E i \in 1..MaxItems : \/ LoadAt(i) \/ StoreAt(i) \/ RemoveKey(i)
                              \/ ModifyAtThrows(i)
                              \/ \E o \in Obj : ModifyAt(i, o)
    \/ \E n \in 1..Len(stack) : PopN(n)

Spec == Init /\ [][Next]_vars

-----------------------------------------------------------------------------
(* Properties.                                                              *)

Count(s, o) == Cardinality({i \in DOMAIN s : s[i] = o})
Overwritten == {due[i].place : i \in {i \in DOMAIN due : due[i].do = "write"}}
Held(c)     == {i \in DOMAIN heap[c].items : [in |-> c, at |-> i] \notin Overwritten}

(* How many owning references to o there are: what is about to be
   overwritten and what a dying object holds is already accounted for in
   `due`.                                                                   *)
RefsTo(o) ==
    LET Alive == {c \in Live : heap[c].nrefs > 0}
    IN  Count(stack, o)
        + Cardinality({x \in Global : globals[x] = o
                                      /\ [in |-> None, at |-> x] \notin Overwritten})
        + Cardinality({ci \in Alive \X (1..(MaxItems + 1)) :
                          ci[2] \in Held(ci[1]) /\ heap[ci[1]].items[ci[2]] = o})
        + Cardinality({i \in DOMAIN due : due[i].do # "free" /\ due[i].ref = o})

(* nrefs is the number of owning references, in the middle of a cascade too,
   and nothing refers to an address that is not allocated.                  *)
CountsExact ==
    \A o \in Obj : RefsTo(o) = IF heap[o] = Free THEN 0 ELSE heap[o].nrefs

(* What is left of an instruction never touches freed memory: a block is
   freed once and when nothing refers to it, store writes where there still
   is an item.                                                              *)
TasksSound ==
    \A i \in DOMAIN due : LET t == due[i] IN
        /\ t.do = "free" =>
              /\ t.ref \in Live /\ heap[t.ref].nrefs = 0
              /\ \A j \in DOMAIN due : due[j] = t => j = i
        /\ t.do = "write" /\ t.place.in # None =>
              /\ t.place.in \in Live /\ heap[t.place.in].nrefs > 0
              /\ t.place.at \in DOMAIN heap[t.place.in].items

Wrefs == {w \in Live : heap[w].kind = "wref" /\ heap[w].nrefs > 0}

(* The list of weak references of an object holds those to it and no other,
   and stays doubly linked also when they are destroyed after the object.   *)
WeakListsSound ==
    /\ \A o \in Live : heap[o].kind \in Containers /\ heap[o].nrefs > 0 =>
          WeakRefsTo(heap, o) = {w \in Wrefs : heap[w].target = o}
    /\ \A w \in Wrefs :
          /\ heap[w].target # None =>
                /\ Is(heap[w].target, Containers) /\ heap[heap[w].target].nrefs > 0
                /\ heap[w].prev = None => heap[heap[w].target].wref_first = w
          /\ heap[w].next # None => heap[w].next \in Wrefs
                                    /\ heap[heap[w].next].prev = w
          /\ heap[w].prev # None => heap[w].prev \in Wrefs
                                    /\ heap[heap[w].prev].next = w

(* Wvalue returns "the value behind the reference, or, if the value has been
   garbage collected, nil": a weak reference forgets its target when the
   target dies and no sooner.                                               *)
ForgetsTheDead ==
    [][\A w \in Wrefs :
          LET o == heap[w].target
          IN  o # None /\ heap'[w] # Free /\ heap'[w].target # o
                => heap'[w].target = None /\ heap[o].nrefs = 1 /\ heap'[o].nrefs = 0]_vars

Items(o) == {heap[o].items[i] : i \in DOMAIN heap[o].items} \ {Nil}
ReachedFrom(S) ==
    LET reach[n \in 0..Cardinality(Obj)] ==
            IF n = 0 THEN S
            ELSE LET R == reach[n - 1] IN R \union UNION {Items(o) : o \in R}
    IN  reach[Cardinality(Obj)]
Roots  == {o \in Live : o \in ToSet(stack) \/ \E x \in Global : globals[x] = o}
Cyclic == {o \in Live : o \in ReachedFrom(Items(o))}

(* Between instructions, and at the end, whatever has become unreachable has
   been freed, except what a cycle of lists and dicts keeps.                *)
OnlyCyclesLeak == due = <<>> => Live = ReachedFrom(Roots \union Cyclic)

(* "strings are immutable": an append in place is seen through the
   reference it was done through and no other.                              *)
StringsImmutable ==
    [][\A o \in Live :
          heap'[o] # Free /\ heap[o].kind = "str" /\ heap'[o].kind = "str"
          /\ heap'[o].text # heap[o].text
              => RefsTo(o) = 1]_vars
=============================================================================
