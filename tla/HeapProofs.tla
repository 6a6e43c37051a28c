----------------------------- MODULE HeapProofs -----------------------------
(***************************************************************************)
(* Heap's invariants and action properties, for any objects, globals and   *)
(* bounds, from the lemmas of HeapCounts on how each kind of change        *)
(* affects the counts: first each instruction, then each step of the       *)
(* cascade, then the theorems.                                             *)
(***************************************************************************)
EXTENDS HeapCounts

-----------------------------------------------------------------------------
(* The instructions, one by one.                                            *)

After == Sound(heap', stack', globals', due', MaxItems)

LEMMA NilCounts == Nil \in Ref /\ \A o \in Obj : Hits(Nil, o) = 0 /\ Hits(None, o) = 0
BY HeapAssumption DEF Ref, Hits

LEMMA CountsNat ==
    ASSUME NEW M \in Nat, NEW h, NEW st, NEW gl, Settled(h, st, gl, M), NEW o \in Obj
    PROVE  /\ Count(st, o) \in Nat /\ InGlobals(gl, o) \in Nat /\ InItems(h, M, o) \in Nat
           /\ Nrefs(h, o) \in Nat
           /\ Nrefs(h, o) = Count(st, o) + InGlobals(gl, o) + InItems(h, M, o)
<1>1. HeapOK(h, M) /\ st \in Seq(Ref) /\ Exact(h, st, gl, M)
    BY DEF Settled
<1>. QED  BY <1>1, CountFacts, GlobalsFinite, SlotsFinite, NrefsNat DEF Exact

LEMMA LoadNilKeeps ==
    ASSUME HInv, LoadNil
    PROVE  After
<1>1. MaxItems \in Nat /\ Settled(heap, stack, globals, MaxItems)
    BY IdleFacts DEF LoadNil
<1>2. heap' = heap /\ stack' = Append(stack, Nil) /\ due' = <<>> /\ globals' = globals
    BY DEF LoadNil, Instruct
<1>3. /\ HeapOK(heap, MaxItems) /\ stack \in Seq(Ref) /\ globals \in [Global -> Ref \union {None}]
    BY <1>1 DEF Settled
<1>4. stack' \in Seq(Ref) /\ \A o : Count(stack', o) = Count(stack, o) + Hits(Nil, o)
    BY <1>2, <1>3, NilCounts, CountAppend
<1>5. due' = Unrefs(<<>>) /\ <<>> \in Seq(Ref) /\ \A o : Count(<<>>, o) = 0
    BY <1>2, UnrefsAre, CountEmpty
<1>6. ASSUME NEW o \in Obj
      PROVE  Count(stack', o) + InGlobals(globals, o) + InItems(heap, MaxItems, o) + Count(<<>>, o)
                 = Nrefs(heap, o)
    BY <1>1, <1>4, <1>5, NilCounts, CountsNat
<1>7. Sound(heap, stack', globals, Unrefs(<<>>), MaxItems)
    BY <1>1, <1>3, <1>4, <1>5, <1>6, Finish
<1>. QED  BY <1>2, <1>5, <1>7 DEF After

LEMMA LoadGlobalKeeps ==
    ASSUME HInv, NEW x \in Global, LoadGlobal(x)
    PROVE  After
<1>1. MaxItems \in Nat /\ Settled(heap, stack, globals, MaxItems)
    BY IdleFacts DEF LoadGlobal
<1>2. PICK r \in Ref : r = globals[x] /\ (r \in Obj => r \in AliveIn(heap))
    BY <1>1 DEF Settled, LoadGlobal, Ref
<1>3. PICK k : k = Counted(heap, r, 1)
    OBVIOUS
<1>4. heap' = k /\ stack' = Append(stack, r) /\ due' = <<>> /\ globals' = globals
    BY <1>2, <1>3 DEF LoadGlobal, Instruct, Reffed
<1>5. HeapOK(heap, MaxItems) /\ stack \in Seq(Ref) /\ globals \in [Global -> Ref \union {None}]
    BY <1>1 DEF Settled
<1>6. /\ HeapOK(k, MaxItems) /\ Alike(heap, k)
      /\ \A o \in Obj : Nrefs(k, o) = Nrefs(heap, o) + 1 * Hits(r, o)
    <2>1. r \in Obj => heap[r].nrefs + 1 > 0
        BY <1>2, <1>5, NrefsNat
    <2>. QED  BY <1>1, <1>2, <1>3, <1>5, <2>1, CountedIs
<1>7. \A o : InItems(k, MaxItems, o) = InItems(heap, MaxItems, o)
    BY <1>6, AlikeKeeps
<1>8. stack' \in Seq(Ref) /\ \A o : Count(stack', o) = Count(stack, o) + Hits(r, o)
    BY <1>2, <1>4, <1>5, CountAppend
<1>9. due' = Unrefs(<<>>) /\ <<>> \in Seq(Ref) /\ \A o : Count(<<>>, o) = 0
    BY <1>4, UnrefsAre, CountEmpty
<1>10. ASSUME NEW o \in Obj
       PROVE  Count(stack', o) + InGlobals(globals, o) + InItems(k, MaxItems, o) + Count(<<>>, o)
                  = Nrefs(k, o)
    BY <1>1, <1>6, <1>7, <1>8, <1>9, HitsNat, CountsNat
<1>11. Sound(k, stack', globals, Unrefs(<<>>), MaxItems)
    BY <1>1, <1>5, <1>6, <1>8, <1>9, <1>10, Finish
<1>. QED  BY <1>4, <1>9, <1>11 DEF After

LEMMA ObjectIs ==
    ASSUME NEW M \in Nat
    PROVE  /\ \A q \in Seq(Ref), kind \in Containers : Len(q) <= M =>
                  /\ PlainCell([Object(kind) EXCEPT !.items = q], M)
                  /\ [Object(kind) EXCEPT !.items = q].items = q
           /\ \A t \in Nat :
                  /\ PlainCell([Object("str") EXCEPT !.text = t], M)
                  /\ [Object("str") EXCEPT !.text = t].items = <<>>
                  /\ [Object("str") EXCEPT !.text = t].kind = "str"
<1>1. ASSUME NEW q \in Seq(Ref), NEW kind \in Containers, Len(q) <= M
      PROVE  /\ PlainCell([Object(kind) EXCEPT !.items = q], M)
             /\ [Object(kind) EXCEPT !.items = q].items = q
    <2>1. PICK c : c = [kind |-> kind, nrefs |-> 1, items |-> q, text |-> 0, wref_first |-> None,
                        target |-> None, next |-> None, prev |-> None]
        OBVIOUS
    <2>2. [Object(kind) EXCEPT !.items = q] = c
        BY <2>1 DEF Object
    <2>3. c \in Cell /\ c.nrefs = 1 /\ c.kind # "wref" /\ c.wref_first = None /\ c.items = q
        BY <2>1 DEF Cell, Containers
    <2>. QED  BY <1>1, <2>2, <2>3 DEF PlainCell
<1>2. ASSUME NEW t \in Nat
      PROVE  /\ PlainCell([Object("str") EXCEPT !.text = t], M)
             /\ [Object("str") EXCEPT !.text = t].items = <<>>
             /\ [Object("str") EXCEPT !.text = t].kind = "str"
    <2>1. PICK c : c = [kind |-> "str", nrefs |-> 1, items |-> <<>>, text |-> t, wref_first |-> None,
                        target |-> None, next |-> None, prev |-> None]
        OBVIOUS
    <2>2. [Object("str") EXCEPT !.text = t] = c
        BY <2>1 DEF Object
    <2>3. c \in Cell /\ c.nrefs = 1 /\ c.kind = "str" /\ c.wref_first = None /\ c.items = <<>>
        BY <2>1 DEF Cell
    <2>4. Len(c.items) <= M
        <3>1. Len(<<>>) = 0
            OBVIOUS
        <3>. QED  BY <2>3, <3>1
    <2>5. PlainCell(c, M)
        BY <2>3, <2>4 DEF PlainCell
    <2>. QED  BY <2>2, <2>3, <2>5
<1>. QED  BY <1>1, <1>2

LEMMA NewStringKeeps ==
    ASSUME HInv, NEW x \in Obj, NewString(x)
    PROVE  After
<1>1. MaxItems \in Nat /\ Settled(heap, stack, globals, MaxItems)
    BY IdleFacts DEF NewString
<1>2. PICK c : c = [Object("str") EXCEPT !.text = 1]
    OBVIOUS
<1>3. PICK k : k = [heap EXCEPT ![x] = c]
    OBVIOUS
<1>4. heap' = k /\ stack' = Append(stack, x) /\ due' = <<>> /\ globals' = globals /\ heap[x] = Free
    BY <1>2, <1>3 DEF NewString, Instruct, Room
<1>5. HeapOK(heap, MaxItems) /\ stack \in Seq(Ref) /\ globals \in [Global -> Ref \union {None}] /\ x \in Ref
    BY <1>1 DEF Settled, Ref
<1>6. PlainCell(c, MaxItems) /\ c.items = <<>>
    BY <1>1, <1>2, ObjectIs
<1>7. /\ HeapOK(k, MaxItems)
      /\ \A o \in Obj : /\ Nrefs(k, o) = Nrefs(heap, o) + Hits(x, o)
                        /\ InItems(k, MaxItems, o) = InItems(heap, MaxItems, o) + Count(c.items, o)
    <2>1. Added(heap, x, c, k, MaxItems)
        BY <1>1, <1>3, <1>4, <1>5, <1>6, NewCell
    <2>. QED  BY <2>1 DEF Added
<1>8. stack' \in Seq(Ref) /\ \A o : Count(stack', o) = Count(stack, o) + Hits(x, o)
    BY <1>4, <1>5, CountAppend
<1>9. due' = Unrefs(<<>>) /\ <<>> \in Seq(Ref) /\ \A o : Count(<<>>, o) = 0
    BY <1>4, UnrefsAre, CountEmpty
<1>10. ASSUME NEW o \in Obj
       PROVE  Count(stack', o) + InGlobals(globals, o) + InItems(k, MaxItems, o) + Count(<<>>, o)
                  = Nrefs(k, o)
    <2>1. Nrefs(k, o) = Nrefs(heap, o) + Hits(x, o) /\ InItems(k, MaxItems, o) = InItems(heap, MaxItems, o) + 0
        BY <1>6, <1>7, <1>9
    <2>2. /\ Count(stack, o) \in Nat /\ InGlobals(globals, o) \in Nat /\ InItems(heap, MaxItems, o) \in Nat
          /\ Nrefs(heap, o) = Count(stack, o) + InGlobals(globals, o) + InItems(heap, MaxItems, o)
        BY <1>1, CountsNat
    <2>3. Hits(x, o) \in Nat /\ Count(stack', o) = Count(stack, o) + Hits(x, o) /\ Count(<<>>, o) = 0
        BY <1>8, <1>9, HitsNat
    <2>. QED  BY <2>1, <2>2, <2>3
<1>11. Sound(k, stack', globals, Unrefs(<<>>), MaxItems)
    BY <1>1, <1>5, <1>7, <1>8, <1>9, <1>10, Finish
<1>. QED  BY <1>4, <1>9, <1>11 DEF After

LEMMA NewContainerKeeps ==
    ASSUME HInv, NEW x \in Obj, NEW kind \in Containers, NEW n \in 0..Len(stack), NewContainer(x, kind, n)
    PROVE  After
<1>1. MaxItems \in Nat /\ Settled(heap, stack, globals, MaxItems)
    BY IdleFacts DEF NewContainer
<1>2. HeapOK(heap, MaxItems) /\ stack \in Seq(Ref) /\ globals \in [Global -> Ref \union {None}] /\ x \in Ref
    BY <1>1 DEF Settled, Ref
<1>3. PICK a \in Seq(Ref), b \in Seq(Ref) : a = Drop(stack, n) /\ b = Tops(stack, n) /\ Len(b) = n
    BY <1>2, DropTops
<1>4. PICK c : c = [Object(kind) EXCEPT !.items = b]
    OBVIOUS
<1>5. PICK k : k = [heap EXCEPT ![x] = c]
    OBVIOUS
<1>6. heap' = k /\ stack' = Append(a, x) /\ due' = <<>> /\ globals' = globals /\ heap[x] = Free /\ n <= MaxItems
    BY <1>3, <1>4, <1>5 DEF NewContainer, Instruct, Room
<1>7. PlainCell(c, MaxItems) /\ c.items = b
    BY <1>1, <1>3, <1>4, <1>6, ObjectIs
<1>8. /\ HeapOK(k, MaxItems)
      /\ \A o \in Obj : /\ Nrefs(k, o) = Nrefs(heap, o) + Hits(x, o)
                        /\ InItems(k, MaxItems, o) = InItems(heap, MaxItems, o) + Count(c.items, o)
    <2>1. Added(heap, x, c, k, MaxItems)
        BY <1>1, <1>2, <1>5, <1>6, <1>7, NewCell
    <2>. QED  BY <2>1 DEF Added
<1>9. stack' \in Seq(Ref) /\ \A o : Count(stack', o) = Count(a, o) + Hits(x, o)
    BY <1>2, <1>6, CountAppend
<1>10. \A o : Count(stack, o) = Count(a, o) + Count(b, o) /\ Count(a, o) \in Nat /\ Count(b, o) \in Nat
    <2>1. \A o : Count(a, o) \in Nat /\ Count(b, o) \in Nat
        BY CountFacts
    <2>2. \A o : Count(stack, o) = Count(a, o) + Count(b, o)
        BY <1>2, <1>3, CountDrop
    <2>. QED  BY <2>1, <2>2
<1>11. due' = Unrefs(<<>>) /\ <<>> \in Seq(Ref) /\ \A o : Count(<<>>, o) = 0
    BY <1>6, UnrefsAre, CountEmpty
<1>12. ASSUME NEW o \in Obj
       PROVE  Count(stack', o) + InGlobals(globals, o) + InItems(k, MaxItems, o) + Count(<<>>, o)
                  = Nrefs(k, o)
    <2>1. Nrefs(k, o) = Nrefs(heap, o) + Hits(x, o) /\ InItems(k, MaxItems, o) = InItems(heap, MaxItems, o) + Count(b, o)
        BY <1>7, <1>8
    <2>2. /\ Count(stack', o) = Count(a, o) + Hits(x, o) /\ Count(stack, o) = Count(a, o) + Count(b, o)
          /\ Count(<<>>, o) = 0 /\ Count(a, o) \in Nat /\ Count(b, o) \in Nat
        BY <1>9, <1>10, <1>11
    <2>3. /\ InGlobals(globals, o) \in Nat /\ InItems(heap, MaxItems, o) \in Nat
          /\ Nrefs(heap, o) = Count(stack, o) + InGlobals(globals, o) + InItems(heap, MaxItems, o)
        BY <1>1, CountsNat
    <2>4. Hits(x, o) \in Nat
        BY HitsNat
    <2>. QED  BY <2>1, <2>2, <2>3, <2>4
<1>13. Sound(k, stack', globals, Unrefs(<<>>), MaxItems)
    BY <1>1, <1>2, <1>8, <1>9, <1>11, <1>12, Finish
<1>. QED  BY <1>6, <1>11, <1>13 DEF After

(* The container on top of the stack.                                       *)
LEMMA TopContainer ==
    ASSUME NEW M \in Nat, Settled(heap, stack, globals, M), stack # <<>>, NEW ks, Is(Top, ks)
    PROVE  /\ Top \in AliveIn(heap) /\ Top \in Obj /\ heap[Top].items \in Seq(Ref)
           /\ Len(heap[Top].items) \in 0..M /\ DOMAIN heap[Top].items = 1..Len(heap[Top].items)
           /\ \A i \in 1..Len(heap[Top].items) :
                 /\ heap[Top].items[i] \in Ref
                 /\ heap[Top].items[i] \in Obj => heap[Top].items[i] \in AliveIn(heap)
<1>1. HeapOK(heap, M) /\ stack \in Seq(Ref)
    BY DEF Settled
<1>2. Len(stack) \in 1..Len(stack)
    BY <1>1
<1>3. Top \in Obj /\ heap[Top] # Free
    BY DEF Is, Live
<1>4. Top \in AliveIn(heap)
    BY <1>2, <1>3 DEF Settled, Top
<1>5. /\ heap[Top].items \in Seq(Ref) /\ Len(heap[Top].items) \in 0..M
      /\ DOMAIN heap[Top].items = 1..Len(heap[Top].items)
    BY <1>1, <1>3, CellFacts DEF HeapOK
<1>6. \A i \in 1..Len(heap[Top].items) : heap[Top].items[i] \in Ref
    BY <1>5, ElementOfSeq
<1>7. \A i \in 1..Len(heap[Top].items) : heap[Top].items[i] \in Obj => heap[Top].items[i] \in AliveIn(heap)
    BY <1>4 DEF Settled
<1>. QED  BY <1>3, <1>4, <1>5, <1>6, <1>7

(* What was on top gives way to another value, which gains a reference.     *)
LEMMA TopReplaced ==
    ASSUME NEW M \in Nat, Settled(heap, stack, globals, M), stack # <<>>, NEW r \in Ref,
           r \in Obj => r \in AliveIn(heap)
    PROVE  Sound(Counted(heap, r, 1), Append(Drop(stack, 1), r), globals, << Unref(Top) >>, M)
<1>1. HeapOK(heap, M) /\ stack \in Seq(Ref) /\ globals \in [Global -> Ref \union {None}]
    BY DEF Settled
<1>2. PICK c \in Ref : c = Top
    BY <1>1, TopIs
<1>3. PICK k, q : k = Counted(heap, r, 1) /\ q = Append(Drop(stack, 1), r)
    OBVIOUS
<1>4. /\ HeapOK(k, M) /\ Alike(heap, k)
      /\ \A o \in Obj : Nrefs(k, o) = Nrefs(heap, o) + 1 * Hits(r, o)
    <2>1. r \in Obj => heap[r].nrefs + 1 > 0
        BY <1>1, NrefsNat
    <2>. QED  BY <1>1, <1>3, <2>1, CountedIs
<1>5. \A o : InItems(k, M, o) = InItems(heap, M, o)
    BY <1>4, AlikeKeeps
<1>6. /\ q \in Seq(Ref)
      /\ \A o : /\ Count(q, o) = Count(Drop(stack, 1), o) + Hits(r, o)
                /\ Count(stack, o) = Count(Drop(stack, 1), o) + Hits(c, o)
                /\ Count(Drop(stack, 1), o) \in Nat
    BY <1>1, <1>2, <1>3, TopIs
<1>7. << Unref(Top) >> = Unrefs(<< c >>) /\ << c >> \in Seq(Ref) /\ \A o : Count(<< c >>, o) = Hits(c, o)
    BY <1>2, UnrefsAre, CountOne, CountTwo
<1>8. ASSUME NEW o \in Obj
      PROVE  Count(q, o) + InGlobals(globals, o) + InItems(k, M, o) + Count(<< c >>, o) = Nrefs(k, o)
    <2>1. Nrefs(k, o) = Nrefs(heap, o) + 1 * Hits(r, o) /\ InItems(k, M, o) = InItems(heap, M, o)
        BY <1>4, <1>5
    <2>2. /\ Count(q, o) = Count(Drop(stack, 1), o) + Hits(r, o)
          /\ Count(stack, o) = Count(Drop(stack, 1), o) + Hits(c, o)
          /\ Count(<< c >>, o) = Hits(c, o) /\ Count(Drop(stack, 1), o) \in Nat
        BY <1>6, <1>7
    <2>3. /\ InGlobals(globals, o) \in Nat /\ InItems(heap, M, o) \in Nat
          /\ Nrefs(heap, o) = Count(stack, o) + InGlobals(globals, o) + InItems(heap, M, o)
          /\ Hits(r, o) \in Nat /\ Hits(c, o) \in Nat
        BY CountsNat, HitsNat
    <2>. QED  BY <2>1, <2>2, <2>3
<1>9. Sound(k, q, globals, Unrefs(<< c >>), M)
    BY <1>1, <1>4, <1>6, <1>7, <1>8, Finish
<1>. QED  BY <1>3, <1>7, <1>9

LEMMA LoadAtKeeps ==
    ASSUME HInv, NEW i, LoadAt(i)
    PROVE  After
<1>1. MaxItems \in Nat /\ Settled(heap, stack, globals, MaxItems) /\ stack # <<>>
    BY IdleFacts DEF LoadAt
<1>2. PICK r \in Ref : r = heap[Top].items[i] /\ (r \in Obj => r \in AliveIn(heap))
    BY <1>1, TopContainer DEF LoadAt
<1>3. Sound(Counted(heap, r, 1), Append(Drop(stack, 1), r), globals, << Unref(Top) >>, MaxItems)
    BY <1>1, <1>2, TopReplaced
<1>. QED  BY <1>2, <1>3 DEF After, LoadAt, Instruct, Reffed

LEMMA WvalueKeeps ==
    ASSUME HInv, Wvalue
    PROVE  After /\ (heap[Top].target # None => heap[Top].target \in AliveIn(heap))
<1>1. MaxItems \in Nat /\ Settled(heap, stack, globals, MaxItems) /\ stack # <<>>
    BY IdleFacts DEF Wvalue
<1>2. Top \in AliveIn(heap) /\ heap[Top].kind = "wref"
    BY <1>1, TopContainer DEF Wvalue, Is
<1>3. PICK rk : WrefLinked(heap, rk, Top)
    <2>1. \E K \in Nat : \E rk \in [Obj -> 0..K] : Linked(heap, rk)
        BY <1>1 DEF Settled, HeapOK, WellLinked
    <2>. QED  BY <1>2, <2>1 DEF Linked, WrefsIn
<1>4. PICK t : t = heap[Top].target
    OBVIOUS
<1>5. t # None => t \in AliveIn(heap)
    BY <1>3, <1>4 DEF WrefLinked, ContainersIn
<1>6. PICK r \in Ref : r = (IF t = None THEN Nil ELSE t) /\ (r \in Obj => r \in AliveIn(heap))
    <2>1. CASE t = None
        BY <2>1, HeapAssumption DEF Ref
    <2>2. CASE t # None
        BY <1>5, <2>2 DEF Ref, AliveIn
    <2>. QED  BY <2>1, <2>2
<1>7. Sound(Counted(heap, r, 1), Append(Drop(stack, 1), r), globals, << Unref(Top) >>, MaxItems)
    BY <1>1, <1>6, TopReplaced
<1>. QED  BY <1>4, <1>5, <1>6, <1>7 DEF After, Wvalue, Instruct, Reffed

LEMMA PopNKeeps ==
    ASSUME HInv, NEW n \in 1..Len(stack), PopN(n)
    PROVE  After
<1>1. MaxItems \in Nat /\ Settled(heap, stack, globals, MaxItems)
    BY IdleFacts DEF PopN
<1>2. HeapOK(heap, MaxItems) /\ stack \in Seq(Ref) /\ globals \in [Global -> Ref \union {None}]
    BY <1>1 DEF Settled
<1>3. n \in 0..Len(stack)
    OBVIOUS
<1>4. PICK a \in Seq(Ref), b \in Seq(Ref) : a = Drop(stack, n) /\ b = Tops(stack, n)
    BY <1>2, <1>3, DropTops
<1>5. PICK e \in Seq(Ref) : e = Down(b) /\ \A o : Count(e, o) = Count(b, o)
    BY CountDown
<1>6. heap' = heap /\ stack' = a /\ due' = Unrefs(e) /\ globals' = globals
    BY <1>4, <1>5 DEF PopN, Instruct
<1>7. ASSUME NEW o \in Obj
      PROVE  Count(a, o) + InGlobals(globals, o) + InItems(heap, MaxItems, o) + Count(e, o) = Nrefs(heap, o)
    <2>1. Count(a, o) \in Nat /\ Count(b, o) \in Nat /\ Count(e, o) = Count(b, o)
        BY <1>5, CountFacts
    <2>2. Count(stack, o) = Count(a, o) + Count(b, o)
        BY <1>2, <1>3, <1>4, CountDrop
    <2>3. /\ InGlobals(globals, o) \in Nat /\ InItems(heap, MaxItems, o) \in Nat
          /\ Nrefs(heap, o) = Count(stack, o) + InGlobals(globals, o) + InItems(heap, MaxItems, o)
        BY <1>1, CountsNat
    <2>. QED  BY <2>1, <2>2, <2>3
<1>8. Sound(heap, a, globals, Unrefs(e), MaxItems)
    BY <1>1, <1>2, <1>7, Finish
<1>. QED  BY <1>6, <1>8 DEF After

(* The value stack dropped, in a heap that owes as much.                    *)
LEMMA StackDropped ==
    ASSUME NEW M \in Nat, Settled(heap, stack, globals, M), NEW k, HeapOK(k, M),
           \A o \in Obj : Nrefs(k, o) = Nrefs(heap, o) /\ InItems(k, M, o) = InItems(heap, M, o)
    PROVE  Sound(k, <<>>, globals, Unrefs(Down(stack)), M)
<1>1. stack \in Seq(Ref) /\ globals \in [Global -> Ref \union {None}] /\ <<>> \in Seq(Ref)
    BY DEF Settled
<1>2. PICK e \in Seq(Ref) : e = Down(stack) /\ \A o : Count(e, o) = Count(stack, o)
    BY <1>1, CountDown
<1>3. ASSUME NEW o \in Obj
      PROVE  Count(<<>>, o) + InGlobals(globals, o) + InItems(k, M, o) + Count(e, o) = Nrefs(k, o)
    <2>1. Nrefs(k, o) = Nrefs(heap, o) /\ InItems(k, M, o) = InItems(heap, M, o)
        OBVIOUS
    <2>2. Count(<<>>, o) = 0 /\ Count(e, o) = Count(stack, o)
        BY <1>2, CountEmpty
    <2>3. /\ InGlobals(globals, o) \in Nat /\ InItems(heap, M, o) \in Nat /\ Count(stack, o) \in Nat
          /\ Nrefs(heap, o) = Count(stack, o) + InGlobals(globals, o) + InItems(heap, M, o)
        BY CountsNat
    <2>. QED  BY <2>1, <2>2, <2>3
<1>4. Sound(k, <<>>, globals, Unrefs(e), M)
    BY <1>1, <1>3, Finish
<1>. QED  BY <1>2, <1>4

LEMMA ThrowKeeps ==
    ASSUME HInv, Throw
    PROVE  After
<1>1. MaxItems \in Nat /\ Settled(heap, stack, globals, MaxItems)
    BY IdleFacts DEF Throw
<1>2. HeapOK(heap, MaxItems)
    BY <1>1 DEF Settled
<1>3. Sound(heap, <<>>, globals, Unrefs(Down(stack)), MaxItems)
    BY <1>1, <1>2, StackDropped
<1>. QED  BY <1>3 DEF After, Throw, Instruct

(* get_elem_ptr_at leaves the counts as they were: what it adds is nil.     *)
GrownOK(h, k, c, i, M) ==
    /\ HeapOK(k, M) /\ AliveIn(k) = AliveIn(h)
    /\ \A y \in Obj : /\ k[y] = Free <=> h[y] = Free
                      /\ k[y].kind = h[y].kind /\ k[y].nrefs = h[y].nrefs /\ k[y].text = h[y].text
    /\ \A o \in Obj : Nrefs(k, o) = Nrefs(h, o) /\ InItems(k, M, o) = InItems(h, M, o)
    /\ i \in 1..Len(k[c].items) /\ k[c].items \in Seq(Ref) /\ k[c].items[i] \in Ref
    /\ k[c].items[i] # Nil => i \in 1..Len(h[c].items) /\ k[c].items[i] = h[c].items[i]

LEMMA GrownIs ==
    ASSUME NEW M \in Nat, NEW h, HeapOK(h, M), NEW c \in AliveIn(h),
           NEW i \in 1..(Len(h[c].items) + 1), i <= M
    PROVE  GrownOK(h, Grown(h, c, i), c, i, M)
<1>1. c \in Obj /\ h[c] # Free /\ Fits(h, M)
    BY DEF AliveIn, HeapOK
<1>2. PICK q \in Seq(Ref) : q = h[c].items
    BY <1>1, CellFacts
<1>3. PICK l \in Nat : l = Len(q) /\ DOMAIN q = 1..l
    BY LenProperties
<1>4. CASE i \in 1..l
    <2>1. Grown(h, c, i) = h
        BY <1>2, <1>3, <1>4 DEF Grown
    <2>. QED  BY <1>2, <1>3, <1>4, <2>1 DEF GrownOK
<1>5. CASE i \notin 1..l
    <2>1. i = l + 1
        BY <1>2, <1>3, <1>5
    <2>2. PICK e : e = Append(q, Nil)
        OBVIOUS
    <2>3. PICK k : k = [h EXCEPT ![c].items = e]
        OBVIOUS
    <2>4. Grown(h, c, i) = k
        BY <1>2, <1>3, <1>5, <2>2, <2>3 DEF Grown
    <2>5. e \in Seq(Ref) /\ Len(e) = l + 1 /\ e[l + 1] = Nil
        BY <1>3, <2>2, NilCounts, AppendProperties
    <2>6. /\ HeapOK(k, M) /\ AliveIn(k) = AliveIn(h) /\ k[c].items = e
          /\ \A y \in Obj : /\ k[y] = Free <=> h[y] = Free
                            /\ k[y].kind = h[y].kind /\ k[y].nrefs = h[y].nrefs
                            /\ k[y].text = h[y].text
          /\ \A o \in Obj : /\ Nrefs(k, o) = Nrefs(h, o)
                            /\ InItems(k, M, o) + Count(q, o) = InItems(h, M, o) + Count(e, o)
        <3>1. Len(e) <= M
            BY <2>1, <2>5
        <3>2. Refilled(h, c, e, k, M)
            BY <2>3, <2>5, <3>1, Refill
        <3>. QED  BY <1>2, <3>2 DEF Refilled
    <2>7. ASSUME NEW o \in Obj PROVE InItems(k, M, o) = InItems(h, M, o)
        <3>1. Count(e, o) = Count(q, o) + Hits(Nil, o) /\ Hits(Nil, o) = 0
            BY <2>2, NilCounts, CountAppend
        <3>2. Count(q, o) \in Nat /\ InItems(k, M, o) \in Nat /\ InItems(h, M, o) \in Nat
            BY CountFacts, SlotsFinite
        <3>3. InItems(k, M, o) + Count(q, o) = InItems(h, M, o) + Count(e, o)
            BY <2>6
        <3>. QED  BY <3>1, <3>2, <3>3
    <2>8. i \in 1..Len(e) /\ e[i] = Nil
        BY <1>3, <2>1, <2>5
    <2>9. GrownOK(h, k, c, i, M)
        BY <2>5, <2>6, <2>7, <2>8, NilCounts DEF GrownOK
    <2>. QED  BY <2>4, <2>9
<1>. QED  BY <1>4, <1>5

(* The container under the top.                                             *)
LEMMA SecondContainer ==
    ASSUME NEW M \in Nat, Settled(heap, stack, globals, M), Len(stack) >= 2, NEW ks, Is(Second, ks)
    PROVE  /\ Second \in AliveIn(heap) /\ Second \in Obj /\ Second \in Ref
           /\ Len(heap[Second].items) \in Nat /\ stack # <<>>
<1>1. HeapOK(heap, M) /\ stack \in Seq(Ref)
    BY DEF Settled
<1>2. Len(stack) - 1 \in 1..Len(stack)
    BY <1>1
<1>3. Second \in Obj /\ heap[Second] # Free
    BY DEF Is, Live
<1>4. Second \in AliveIn(heap)
    BY <1>2, <1>3 DEF Settled, Second
<1>5. Len(heap[Second].items) \in 0..M
    BY <1>1, <1>3, CellFacts DEF HeapOK
<1>. QED  BY <1>1, <1>3, <1>4, <1>5 DEF Ref

LEMMA SecondGrown ==
    ASSUME HInv, Idle, Len(stack) >= 2, NEW i, Indexable(Second, i)
    PROVE  /\ GrownOK(heap, Grown(heap, Second, i), Second, i, MaxItems)
           /\ i \in Nat /\ Second \in AliveIn(heap) /\ Second \in Obj /\ Second \in Ref
<1>1. MaxItems \in Nat /\ Settled(heap, stack, globals, MaxItems)
    BY IdleFacts
<1>2. /\ Second \in AliveIn(heap) /\ Second \in Obj /\ Second \in Ref /\ Len(heap[Second].items) \in Nat
    BY <1>1, SecondContainer DEF Indexable
<1>3. i \in 1..(Len(heap[Second].items) + 1) /\ i <= MaxItems
    BY DEF Indexable
<1>4. GrownOK(heap, Grown(heap, Second, i), Second, i, MaxItems)
    BY <1>1, <1>2, <1>3, GrownIs DEF Settled
<1>. QED  BY <1>2, <1>3, <1>4

LEMMA ModifyAtThrowsKeeps ==
    ASSUME HInv, NEW i, ModifyAtThrows(i)
    PROVE  After
<1>1. MaxItems \in Nat /\ Settled(heap, stack, globals, MaxItems)
    BY IdleFacts DEF ModifyAtThrows
<1>2. PICK k : k = Grown(heap, Second, i)
    OBVIOUS
<1>3. GrownOK(heap, k, Second, i, MaxItems)
    BY <1>2, SecondGrown DEF ModifyAtThrows
<1>4. HeapOK(k, MaxItems)
      /\ \A o \in Obj : Nrefs(k, o) = Nrefs(heap, o) /\ InItems(k, MaxItems, o) = InItems(heap, MaxItems, o)
    BY <1>3 DEF GrownOK
<1>5. Sound(k, <<>>, globals, Unrefs(Down(stack)), MaxItems)
    BY <1>1, <1>4, StackDropped
<1>. QED  BY <1>2, <1>5 DEF After, ModifyAtThrows, Instruct

LEMMA AroundForms ==
    ASSUME NEW q \in Seq(Task), NEW w \in Task, NEW u \in Task
    PROVE  /\ Around(q, w, <<>>) = q \o << w >> /\ Around(q, w, <<>>) = Append(q, w)
           /\ Around(q, w, << u >>) = q \o << w, u >>
<1>1. PICK a, b : a = << w >> /\ b = << u >>
    OBVIOUS
<1>2. a \in Seq(Task) /\ b \in Seq(Task) /\ Len(a) = 1 /\ Len(b) = 1 /\ a[1] = w /\ b[1] = u
    BY <1>1
<1>3. q \o a \in Seq(Task)
    BY <1>2, ConcatProperties
<1>4. (q \o a) \o <<>> = q \o a
    BY <1>3, ConcatEmptySeq
<1>5. Append(q, w) = q \o << w >>
    BY AppendIsConcat
<1>6. (q \o a) \o b = q \o (a \o b)
    BY <1>2, ConcatAssociative
<1>7. a \o b = << w, u >>
    <2>1. PICK z : z = << w, u >>
        OBVIOUS
    <2>2. z \in Seq(Task) /\ Len(z) = 2 /\ z[1] = w /\ z[2] = u
        BY <2>1
    <2>3. /\ a \o b \in Seq(Task) /\ Len(a \o b) = 1 + 1
          /\ \A i \in 1..(1 + 1) : (a \o b)[i] = IF i <= 1 THEN a[i] ELSE b[i - 1]
        BY <1>2, ConcatProperties
    <2>4. Len(a \o b) = 2 /\ (a \o b)[1] = w /\ (a \o b)[2] = u
        BY <1>2, <2>3
    <2>5. \A i \in 1..2 : (a \o b)[i] = z[i]
        BY <2>2, <2>4
    <2>6. a \o b = z
        BY <2>2, <2>3, <2>4, <2>5, SeqEqual
    <2>. QED  BY <2>1, <2>6
<1>. QED  BY <1>1, <1>4, <1>5, <1>6, <1>7 DEF Around

LEMMA AroundThree ==
    ASSUME NEW w \in Task, NEW u \in Task, NEW t \in Task
    PROVE  Around(<< t >>, w, << u >>) = << t, w, u >>
<1>1. PICK b, c : b = << u >> /\ c = << t >>
    OBVIOUS
<1>2. b \in Seq(Task) /\ c \in Seq(Task) /\ Len(b) = 1 /\ Len(c) = 1 /\ b[1] = u /\ c[1] = t
    BY <1>1
<1>3. PICK d : d = Around(c, w, b)
    OBVIOUS
<1>4. LaidOut(Around(c, w, b), c, w, b, 1, 1)
    BY <1>2, AroundIs
<1>5. d \in Seq(Task) /\ Len(d) = 3 /\ d[1] = t /\ d[2] = w /\ d[3] = u
    <2>1. LaidOut(d, c, w, b, 1, 1)
        BY <1>3, <1>4
    <2>2. /\ d \in Seq(Task) /\ Len(d) = 1 + 1 + 1
          /\ \A i \in 1..1 : d[i] = c[i]
          /\ d[1 + 1] = w
          /\ \A i \in 1..1 : d[i + (1 + 1)] = b[i]
        BY <2>1 DEF LaidOut
    <2>. QED  BY <1>2, <2>2
<1>6. PICK z : z = << t, w, u >>
    OBVIOUS
<1>7. z \in Seq(Task) /\ Len(z) = 3 /\ z[1] = t /\ z[2] = w /\ z[3] = u
    BY <1>6
<1>8. \A i \in 1..3 : d[i] = z[i]
    BY <1>5, <1>7
<1>9. d = z
    BY <1>5, <1>7, <1>8, SeqEqual
<1>. QED  BY <1>1, <1>3, <1>6, <1>9

LEMMA PlaceIs ==
    /\ \A c \in Obj, i \in Nat :
          [in |-> c, at |-> i] \in Place /\ [in |-> c, at |-> i].in = c /\ [in |-> c, at |-> i].at = i
    /\ \A x \in Global :
          [in |-> None, at |-> x] \in Place /\ [in |-> None, at |-> x].in = None
          /\ [in |-> None, at |-> x].at = x
BY DEF Place

LEMMA StoreAtKeeps ==
    ASSUME HInv, NEW i, StoreAt(i)
    PROVE  After
<1>1. MaxItems \in Nat /\ Settled(heap, stack, globals, MaxItems)
    BY IdleFacts DEF StoreAt
<1>2. HeapOK(heap, MaxItems) /\ stack \in Seq(Ref) /\ globals \in [Global -> Ref \union {None}] /\ Len(stack) >= 2
    BY <1>1 DEF Settled, StoreAt
<1>3. PICK k : k = Grown(heap, Second, i)
    OBVIOUS
<1>4. PICK c \in Obj : c = Second /\ c \in AliveIn(heap) /\ c \in Ref /\ i \in Nat /\ GrownOK(heap, k, c, i, MaxItems)
    BY <1>3, SecondGrown DEF StoreAt
<1>5. PICK v \in Ref : v = Top
    BY <1>2, SecondIs
<1>6. PICK r \in Ref : r = k[c].items[i]
    BY <1>4 DEF GrownOK
<1>7. PICK p \in Place : p = [in |-> c, at |-> i] /\ p.in = c /\ p.at = i
    <2>1. c \in Obj /\ i \in Nat
        BY <1>4
    <2>2. [in |-> c, at |-> i] \in Place /\ [in |-> c, at |-> i].in = c /\ [in |-> c, at |-> i].at = i
        BY <2>1, PlaceIs, Zenon
    <2>. QED  BY <2>2, Zenon
<1>8. heap' = k /\ stack' = Drop(stack, 2) /\ due' = << Unref(r), Write(p, v), Unref(c) >> /\ globals' = globals
    BY <1>3, <1>4, <1>5, <1>6, <1>7 DEF StoreAt, Instruct
<1>9. due' = Around(Unrefs(<< r >>), Write(p, v), Unrefs(<< c >>))
    <2>1. Unref(r) \in Task /\ Write(p, v) \in Task /\ Unref(c) \in Task
        BY <1>4, TaskTypes
    <2>2. Around(<< Unref(r) >>, Write(p, v), << Unref(c) >>) = << Unref(r), Write(p, v), Unref(c) >>
        BY <2>1, AroundThree
    <2>3. Unrefs(<< r >>) = << Unref(r) >> /\ Unrefs(<< c >>) = << Unref(c) >>
        BY UnrefsAre
    <2>. QED  BY <1>8, <2>2, <2>3
<1>10. << r >> \in Seq(Ref) /\ << c >> \in Seq(Ref)
       /\ \A o : Count(<< r >>, o) = Hits(r, o) /\ Count(<< c >>, o) = Hits(c, o)
    BY <1>4, CountOne, CountTwo
<1>11. Within(k, p, << c >>)
    <2>1. 1 \in 1..Len(<< c >>) /\ << c >>[1] = c
        OBVIOUS
    <2>2. c \in AliveIn(k) /\ i \in 1..Len(k[c].items)
        BY <1>4 DEF GrownOK
    <2>. QED  BY <1>7, <2>1, <2>2 DEF Within
<1>12. \A gl : At(k, gl, p) = r
    BY <1>6, <1>7, HeapAssumption DEF At
<1>13. ASSUME NEW o \in Obj
       PROVE  Count(stack', o) + InGlobals(globals, o) + InItems(k, MaxItems, o)
                  + (Count(<< r >>, o) + Hits(v, o) + Count(<< c >>, o))
              = Nrefs(k, o) + Hits(At(k, globals, p), o)
    <2>1. Nrefs(k, o) = Nrefs(heap, o) /\ InItems(k, MaxItems, o) = InItems(heap, MaxItems, o)
        BY <1>4 DEF GrownOK
    <2>2. Count(stack, o) = Count(stack', o) + Hits(c, o) + Hits(v, o) /\ Count(stack', o) \in Nat
        BY <1>2, <1>4, <1>5, <1>8, SecondIs
    <2>3. /\ InGlobals(globals, o) \in Nat /\ InItems(heap, MaxItems, o) \in Nat
          /\ Nrefs(heap, o) = Count(stack, o) + InGlobals(globals, o) + InItems(heap, MaxItems, o)
          /\ Hits(r, o) \in Nat /\ Hits(c, o) \in Nat /\ Hits(v, o) \in Nat
        BY <1>1, CountsNat, HitsNat
    <2>4. Count(<< r >>, o) = Hits(r, o) /\ Count(<< c >>, o) = Hits(c, o) /\ Hits(At(k, globals, p), o) = Hits(r, o)
        BY <1>10, <1>12
    <2>. QED  BY <2>1, <2>2, <2>3, <2>4
<1>14. Sound(k, stack', globals, due', MaxItems)
    <2>1. HeapOK(k, MaxItems)
        BY <1>4 DEF GrownOK
    <2>2. stack' \in Seq(Ref)
        BY <1>2, <1>8, SecondIs
    <2>. QED  BY <1>1, <1>2, <1>9, <1>10, <1>11, <1>13, <2>1, <2>2, FinishWrite
<1>. QED  BY <1>8, <1>14 DEF After

LEMMA StoreGlobalKeeps ==
    ASSUME HInv, NEW x \in Global, StoreGlobal(x)
    PROVE  After
<1>1. MaxItems \in Nat /\ Settled(heap, stack, globals, MaxItems)
    BY IdleFacts DEF StoreGlobal
<1>2. HeapOK(heap, MaxItems) /\ stack \in Seq(Ref) /\ globals \in [Global -> Ref \union {None}] /\ stack # <<>>
    BY <1>1 DEF Settled, StoreGlobal
<1>3. PICK v \in Ref : v = Top
    BY <1>2, TopIs
<1>4. PICK g \in Ref \union {None} : g = globals[x]
    BY <1>2
<1>5. PICK p \in Place : p = [in |-> None, at |-> x] /\ p.in = None /\ p.at = x
    BY PlaceIs
<1>6. PICK ra : ra = IF g = None THEN <<>> ELSE << g >>
    OBVIOUS
<1>7. ra \in Seq(Ref) /\ \A o \in Obj : Count(ra, o) = Hits(g, o)
    <2>1. CASE g = None
        <3>1. ra = <<>> /\ <<>> \in Seq(Ref)
            BY <1>6, <2>1
        <3>. QED  BY <2>1, <3>1, CountEmpty, NilCounts
    <2>2. CASE g # None
        <3>1. ra = << g >> /\ << g >> \in Seq(Ref)
            BY <1>6, <2>2
        <3>. QED  BY <3>1, CountOne
    <2>. QED  BY <2>1, <2>2
<1>8. heap' = heap /\ stack' = Drop(stack, 1) /\ globals' = globals
      /\ due' = (IF g = None THEN <<>> ELSE << Unref(g) >>) \o << Write(p, v) >>
    BY <1>3, <1>4, <1>5 DEF StoreGlobal, Instruct
<1>9. due' = Around(Unrefs(ra), Write(p, v), Unrefs(<<>>))
    <2>1. Unrefs(ra) = IF g = None THEN <<>> ELSE << Unref(g) >>
        BY <1>6, UnrefsAre
    <2>2. Unrefs(ra) \in Seq(Task) /\ Write(p, v) \in Task
        BY <1>7, OwedUnrefs, TaskTypes
    <2>3. Around(Unrefs(ra), Write(p, v), <<>>) = Unrefs(ra) \o << Write(p, v) >>
        BY <2>2, AroundForms
    <2>. QED  BY <1>8, <2>1, <2>3, UnrefsAre
<1>10. <<>> \in Seq(Ref) /\ Within(heap, p, <<>>) /\ At(heap, globals, p) = g
    BY <1>4, <1>5 DEF Within, At
<1>11. ASSUME NEW o \in Obj
       PROVE  Count(stack', o) + InGlobals(globals, o) + InItems(heap, MaxItems, o)
                  + (Count(ra, o) + Hits(v, o) + Count(<<>>, o))
              = Nrefs(heap, o) + Hits(At(heap, globals, p), o)
    <2>1. Count(stack, o) = Count(stack', o) + Hits(v, o) /\ Count(stack', o) \in Nat
        BY <1>2, <1>3, <1>8, TopIs
    <2>2. /\ InGlobals(globals, o) \in Nat /\ InItems(heap, MaxItems, o) \in Nat
          /\ Nrefs(heap, o) = Count(stack, o) + InGlobals(globals, o) + InItems(heap, MaxItems, o)
          /\ Hits(g, o) \in Nat /\ Hits(v, o) \in Nat
        BY <1>1, CountsNat, HitsNat
    <2>3. Count(ra, o) = Hits(g, o) /\ Count(<<>>, o) = 0 /\ Hits(At(heap, globals, p), o) = Hits(g, o)
        BY <1>7, <1>10, CountEmpty
    <2>. QED  BY <2>1, <2>2, <2>3
<1>12. Sound(heap, stack', globals, due', MaxItems)
    <2>1. stack' \in Seq(Ref)
        BY <1>2, <1>8, TopIs
    <2>. QED  BY <1>1, <1>2, <1>7, <1>9, <1>10, <1>11, <2>1, FinishWrite
<1>. QED  BY <1>8, <1>12 DEF After

LEMMA PopKeeps ==
    ASSUME HInv, Pop
    PROVE  After
<1>1. MaxItems \in Nat /\ Settled(heap, stack, globals, MaxItems)
    BY IdleFacts DEF Pop
<1>2. HeapOK(heap, MaxItems) /\ stack \in Seq(Ref) /\ globals \in [Global -> Ref \union {None}] /\ stack # <<>>
    BY <1>1 DEF Settled, Pop
<1>3. PICK c \in Obj : c = Top /\ c \in AliveIn(heap) /\ c \in Ref
    BY <1>1, TopContainer DEF Pop, Ref
<1>4. PICK q \in Seq(Ref) : q = heap[c].items /\ q # <<>> /\ Len(q) \in 0..MaxItems
    BY <1>1, <1>3, TopContainer DEF Pop
<1>5. PICK e : e = Drop(q, 1)
    OBVIOUS
<1>6. /\ e \in Seq(Ref) /\ Len(e) = Len(q) - 1 /\ q[Len(q)] \in Ref
      /\ \A o : Count(q, o) = Count(e, o) + Hits(q[Len(q)], o)
    <2>1. Len(q) >= 1
        BY <1>4
    <2>. QED  BY <1>5, <2>1, CountLast
<1>7. PICK r \in Ref : r = q[Len(q)]
    BY <1>6
<1>8. PICK k : k = [heap EXCEPT ![c].items = e]
    OBVIOUS
<1>9. heap' = k /\ stack' = Append(Drop(stack, 1), r) /\ due' = << Unref(c) >> /\ globals' = globals
    BY <1>3, <1>4, <1>5, <1>7, <1>8 DEF Pop, Instruct, Last
<1>10. Refilled(heap, c, e, k, MaxItems)
    <2>1. Len(e) <= MaxItems
        BY <1>1, <1>4, <1>6
    <2>. QED  BY <1>1, <1>2, <1>3, <1>6, <1>8, <2>1, Refill
<1>11. due' = Unrefs(<< c >>) /\ << c >> \in Seq(Ref) /\ \A o : Count(<< c >>, o) = Hits(c, o)
    BY <1>3, <1>9, UnrefsAre, CountOne, CountTwo
<1>12. ASSUME NEW o \in Obj
       PROVE  Count(stack', o) + InGlobals(globals, o) + InItems(k, MaxItems, o) + Count(<< c >>, o)
                  = Nrefs(k, o)
    <2>1. Nrefs(k, o) = Nrefs(heap, o) /\ InItems(k, MaxItems, o) + Count(q, o) = InItems(heap, MaxItems, o) + Count(e, o)
        BY <1>4, <1>10 DEF Refilled
    <2>2. /\ Count(stack', o) = Count(Drop(stack, 1), o) + Hits(r, o)
          /\ Count(stack, o) = Count(Drop(stack, 1), o) + Hits(c, o)
          /\ Count(Drop(stack, 1), o) \in Nat
        BY <1>2, <1>3, <1>9, TopIs
    <2>3. Count(<< c >>, o) = Hits(c, o) /\ Count(q, o) = Count(e, o) + Hits(r, o)
        BY <1>6, <1>7, <1>11
    <2>4. /\ InGlobals(globals, o) \in Nat /\ InItems(heap, MaxItems, o) \in Nat
          /\ Nrefs(heap, o) = Count(stack, o) + InGlobals(globals, o) + InItems(heap, MaxItems, o)
          /\ Hits(r, o) \in Nat /\ Hits(c, o) \in Nat
        BY <1>1, CountsNat, HitsNat
    <2>5. Count(e, o) \in Nat /\ InItems(k, MaxItems, o) \in Nat
        BY <1>1, <1>6, CountFacts, SlotsFinite
    <2>6. InItems(k, MaxItems, o) + Hits(r, o) = InItems(heap, MaxItems, o)
        BY <2>1, <2>3, <2>4, <2>5
    <2>. QED  BY <2>1, <2>2, <2>3, <2>4, <2>5, <2>6
<1>13. Sound(k, stack', globals, Unrefs(<< c >>), MaxItems)
    <2>1. stack' \in Seq(Ref) /\ HeapOK(k, MaxItems)
        BY <1>2, <1>9, <1>10, TopIs DEF Refilled
    <2>. QED  BY <1>1, <1>2, <1>11, <1>12, <2>1, Finish
<1>. QED  BY <1>9, <1>11, <1>13 DEF After

LEMMA RemoveKeyKeeps ==
    ASSUME HInv, NEW i, RemoveKey(i)
    PROVE  After
<1>1. MaxItems \in Nat /\ Settled(heap, stack, globals, MaxItems)
    BY IdleFacts DEF RemoveKey
<1>2. HeapOK(heap, MaxItems) /\ stack \in Seq(Ref) /\ globals \in [Global -> Ref \union {None}] /\ stack # <<>>
    BY <1>1 DEF Settled, RemoveKey
<1>3. PICK c \in Obj : c = Top /\ c \in AliveIn(heap) /\ c \in Ref
    BY <1>1, TopContainer DEF RemoveKey, Ref
<1>4. PICK q \in Seq(Ref) : q = heap[c].items /\ Len(q) \in 0..MaxItems /\ i \in 1..Len(q)
    BY <1>1, <1>3, TopContainer DEF RemoveKey
<1>5. PICK l \in Nat : l = Len(q) /\ l \in 1..l /\ i \in 1..l
    BY <1>4
<1>6. PICK r \in Ref, z \in Ref : r = q[i] /\ z = q[l]
    BY <1>4, <1>5
<1>7. PICK e : e = [q EXCEPT ![i] = z]
    OBVIOUS
<1>8. /\ e \in Seq(Ref) /\ Len(e) = l /\ e[l] = z
      /\ \A o : Count(e, o) + Hits(r, o) = Count(q, o) + Hits(z, o)
    <2>1. i \in 1..Len(q) /\ z \in Ref
        BY <1>4
    <2>2. /\ e \in Seq(Ref) /\ Len(e) = Len(q)
          /\ \A j \in 1..Len(q) : e[j] = IF j = i THEN z ELSE q[j]
          /\ \A o : Count(e, o) + Hits(q[i], o) = Count(q, o) + Hits(z, o)
        <3>1. /\ e \in Seq(Ref) /\ Len(e) = Len(q)
              /\ \A j \in 1..Len(q) : e[j] = IF j = i THEN z ELSE q[j]
            BY <1>7, <2>1, ExceptSeq
        <3>2. ASSUME NEW o PROVE Count(e, o) + Hits(q[i], o) = Count(q, o) + Hits(z, o)
            <4>1. q \in Seq(Ref) /\ e \in Seq(Ref) /\ Len(e) = Len(q) /\ i \in 1..Len(q)
                BY <1>4, <2>1, <3>1
            <4>2. \A j \in 1..Len(q) : e[j] = IF j = i THEN z ELSE q[j]
                BY <3>1
            <4>. QED  BY <4>1, <4>2, CountPut
        <3>. QED  BY <3>1, <3>2
    <2>. QED  BY <1>5, <1>6, <2>2
<1>9. PICK f : f = Drop(e, 1)
    OBVIOUS
<1>10. f \in Seq(Ref) /\ Len(f) = l - 1 /\ \A o : Count(e, o) = Count(f, o) + Hits(z, o)
    <2>1. Len(e) >= 1
        BY <1>5, <1>8
    <2>. QED  BY <1>8, <1>9, <2>1, CountLast
<1>11. PICK k : k = [heap EXCEPT ![c].items = f]
    OBVIOUS
<1>12. /\ heap' = k /\ stack' = Append(Drop(stack, 1), Nil) /\ due' = << Unref(r), Unref(c) >>
       /\ globals' = globals
    BY <1>3, <1>4, <1>5, <1>6, <1>7, <1>9, <1>11 DEF RemoveKey, Instruct, Last
<1>13. Refilled(heap, c, f, k, MaxItems)
    <2>1. Len(f) <= MaxItems
        BY <1>1, <1>4, <1>5, <1>10
    <2>. QED  BY <1>1, <1>2, <1>3, <1>10, <1>11, <2>1, Refill
<1>14. /\ due' = Unrefs(<< r, c >>) /\ << r, c >> \in Seq(Ref)
       /\ \A o : Count(<< r, c >>, o) = Hits(r, o) + Hits(c, o)
    BY <1>3, <1>12, UnrefsAre, CountTwo
<1>15. ASSUME NEW o \in Obj
       PROVE  Count(stack', o) + InGlobals(globals, o) + InItems(k, MaxItems, o) + Count(<< r, c >>, o)
                  = Nrefs(k, o)
    <2>1. Nrefs(k, o) = Nrefs(heap, o) /\ InItems(k, MaxItems, o) + Count(q, o) = InItems(heap, MaxItems, o) + Count(f, o)
        BY <1>4, <1>13 DEF Refilled
    <2>2. /\ Count(stack', o) = Count(Drop(stack, 1), o) + Hits(Nil, o) /\ Hits(Nil, o) = 0
          /\ Count(stack, o) = Count(Drop(stack, 1), o) + Hits(c, o)
          /\ Count(Drop(stack, 1), o) \in Nat
        BY <1>2, <1>3, <1>12, TopIs, NilCounts
    <2>3. /\ Count(<< r, c >>, o) = Hits(r, o) + Hits(c, o)
          /\ Count(e, o) + Hits(r, o) = Count(q, o) + Hits(z, o) /\ Count(e, o) = Count(f, o) + Hits(z, o)
        BY <1>8, <1>10, <1>14
    <2>4. /\ InGlobals(globals, o) \in Nat /\ InItems(heap, MaxItems, o) \in Nat
          /\ Nrefs(heap, o) = Count(stack, o) + InGlobals(globals, o) + InItems(heap, MaxItems, o)
          /\ Hits(r, o) \in Nat /\ Hits(c, o) \in Nat /\ Hits(z, o) \in Nat
        BY <1>1, CountsNat, HitsNat
    <2>5. Count(f, o) \in Nat /\ Count(q, o) \in Nat /\ InItems(k, MaxItems, o) \in Nat
        BY <1>1, <1>10, CountFacts, SlotsFinite
    <2>6. InItems(k, MaxItems, o) + Hits(r, o) = InItems(heap, MaxItems, o)
        <3>1. PICK a \in Nat, b \in Nat, u \in Nat, v \in Nat, m \in Nat, n \in Nat :
                  /\ a = Count(q, o) /\ b = Count(f, o) /\ u = Hits(r, o) /\ v = Hits(z, o)
                  /\ m = InItems(k, MaxItems, o) /\ n = InItems(heap, MaxItems, o)
            BY <2>4, <2>5
        <3>2. (b + v) + u = a + v /\ m + a = n + b
            BY <2>1, <2>3, <3>1, Zenon
        <3>3. m + u = n
            BY <3>2
        <3>. QED  BY <3>1, <3>3
    <2>7. PICK d \in Nat, g \in Nat, n \in Nat, x \in Nat, y \in Nat :
              /\ d = Count(Drop(stack, 1), o) /\ g = InGlobals(globals, o)
              /\ n = InItems(k, MaxItems, o) /\ x = Hits(r, o) /\ y = Hits(c, o)
        BY <2>2, <2>4, <2>5
    <2>8. Nrefs(k, o) = (d + y) + g + (n + x) /\ Count(stack', o) = d + 0 /\ Count(<< r, c >>, o) = x + y
        BY <2>1, <2>2, <2>3, <2>4, <2>6, <2>7
    <2>9. (d + 0) + g + n + (x + y) = (d + y) + g + (n + x)
        OBVIOUS
    <2>. QED  BY <2>7, <2>8, <2>9
<1>16. Sound(k, stack', globals, Unrefs(<< r, c >>), MaxItems)
    <2>1. stack' \in Seq(Ref) /\ HeapOK(k, MaxItems)
        BY <1>2, <1>12, <1>13, TopIs, NilCounts DEF Refilled
    <2>. QED  BY <1>1, <1>2, <1>14, <1>15, <2>1, Finish
<1>. QED  BY <1>12, <1>14, <1>16 DEF After
LEMMA Listed ==
    ASSUME NEW S, IsFiniteSet(S), NEW f, f = SetToSeq(S)
    PROVE  \E n \in Nat : /\ f \in [1..n -> S]
                          /\ \A i, j \in 1..n : f[i] = f[j] => i = j
                          /\ \A x \in S : \E i \in 1..n : f[i] = x
<1>1. PICK n \in Nat : n = Cardinality(S)
    BY FS_CardinalityType
<1>2. PICK g : g \in Bijection(1..n, S)
    BY <1>1, FS_CardinalityType DEF ExistsBijection
<1>3. g \in [1..n -> S] /\ IsInjective(g)
    BY <1>2 DEF Bijection, Injection
<1>4. f \in [1..n -> S] /\ IsInjective(f)
    <2>1. f = CHOOSE q \in [1..n -> S] : IsInjective(q)
        BY <1>1 DEF SetToSeq
    <2>2. \E q \in [1..n -> S] : IsInjective(q)
        BY <1>3
    <2>. QED  BY <2>1, <2>2, Zenon
<1>5. f \in Surjection(1..n, S)
    <2>1. f \in Injection(1..n, S)
        BY <1>4 DEF Injection
    <2>2. Cardinality(1..n) = n
        <3>1. Cardinality(1..n) = IF 1 > n THEN 0 ELSE n - 1 + 1
            BY FS_Interval
        <3>. QED  BY <3>1
    <2>. QED  BY <1>1, <2>1, <2>2, FS_Injection
<1>6. \A x \in S : \E i \in 1..n : f[i] = x
    BY <1>5 DEF Surjection
<1>7. \A i, j \in 1..n : f[i] = f[j] => i = j
    BY <1>4 DEF IsInjective
<1>. QED  BY <1>4, <1>6, <1>7

LEMMA DestroyKeeps ==
    ASSUME HInv, Destroy
    PROVE  After
<1>1. MaxItems \in Nat /\ Settled(heap, stack, globals, MaxItems)
    BY IdleFacts DEF Destroy
<1>2. HeapOK(heap, MaxItems) /\ stack = <<>> /\ globals \in [Global -> Ref \union {None}]
    BY <1>1 DEF Settled, Destroy
<1>. DEFINE S == {x \in Global : globals[x] # None}
<1>0. PICK f : f = SetToSeq(S)
    OBVIOUS
<1>3. PICK n \in Nat : /\ f \in [1..n -> S]
                       /\ \A i, j \in 1..n : f[i] = f[j] => i = j
                       /\ \A x \in S : \E i \in 1..n : f[i] = x
    <2>1. IsFiniteSet(S)
        BY HeapAssumption, FS_Subset
    <2>. HIDE DEF S
    <2>2. PICK n \in Nat : /\ SetToSeq(S) \in [1..n -> S]
                           /\ \A i, j \in 1..n : SetToSeq(S)[i] = SetToSeq(S)[j] => i = j
                           /\ \A x \in S : \E i \in 1..n : SetToSeq(S)[i] = x
        BY <2>1, Listed
    <2>. QED  BY <1>0, <2>2, Zenon
<1>4. PICK rs : rs = [i \in 1..n |-> globals[f[i]]]
    OBVIOUS
<1>5. rs \in Seq(Ref) /\ Len(rs) = n /\ \A i \in 1..n : rs[i] = globals[f[i]]
    <2>1. \A i \in 1..n : f[i] \in Global /\ globals[f[i]] \in Ref
        BY <1>2, <1>3
    <2>2. rs \in [1..n -> Ref]
        BY <1>4, <2>1
    <2>. QED  BY <1>4, <2>2
<1>6. PICK gl : gl = [x \in Global |-> None]
    OBVIOUS
<1>7. heap' = heap /\ stack' = <<>> /\ due' = Unrefs(rs) /\ globals' = gl
    <2>1. Len(f) = n
        BY <1>3
    <2>. QED  BY <1>0, <1>2, <1>4, <1>6, <2>1 DEF Destroy
<1>8. gl \in [Global -> Ref \union {None}] /\ \A o \in Obj : InGlobals(gl, o) = 0
    <2>1. gl \in [Global -> Ref \union {None}] /\ \A x \in Global : gl[x] = None
        BY <1>6
    <2>2. \A o \in Obj, x \in Global : gl[x] # o
        BY <2>1, HeapAssumption
    <2>3. ASSUME NEW o \in Obj PROVE InGlobals(gl, o) = 0
        <3>1. {x \in Global : gl[x] = o} = {}
            BY <2>2
        <3>. QED  BY <3>1, FS_EmptySet DEF InGlobals
    <2>. QED  BY <2>1, <2>3
<1>9. ASSUME NEW o \in Obj PROVE Count(rs, o) = InGlobals(globals, o)
    <2>. DEFINE A == {i \in DOMAIN rs : rs[i] = o}
                B == {g \in Global : globals[g] = o}
                h == [i \in A |-> f[i]]
    <2>1. IsFiniteSet(A) /\ Cardinality(A) = Count(rs, o)
        <3>1. rs \in Seq(Ref)
            BY <1>5
        <3>2. IsFiniteSet(A)
            BY <3>1, CountFacts
        <3>. QED  BY <3>2 DEF Count
    <2>2. Cardinality(B) = InGlobals(globals, o)
        BY DEF InGlobals
    <2>3. \A i \in A : i \in 1..n /\ f[i] \in B
        BY <1>3, <1>5
    <2>4. h \in [A -> B] /\ \A i \in A : h[i] = f[i]
        BY <2>3
    <2>5. \A i, j \in A : h[i] = h[j] => i = j
        BY <1>3, <2>3, <2>4
    <2>6. \A g \in B : \E i \in A : h[i] = g
        <3>1. \A g \in B : g \in S
            BY HeapAssumption
        <3>2. \A g \in B : \E i \in 1..n : f[i] = g
            BY <1>3, <3>1
        <3>3. \A g \in B, i \in 1..n : f[i] = g => i \in A
            BY <1>5
        <3>. QED  BY <2>4, <3>2, <3>3
    <2>. HIDE DEF A, B, h
    <2>. QED  BY <2>1, <2>2, <2>4, <2>5, <2>6, SameSize
<1>10. ASSUME NEW o \in Obj
       PROVE  Count(<<>>, o) + InGlobals(gl, o) + InItems(heap, MaxItems, o) + Count(rs, o) = Nrefs(heap, o)
    <2>1. /\ InGlobals(globals, o) \in Nat /\ InItems(heap, MaxItems, o) \in Nat
          /\ Nrefs(heap, o) = Count(<<>>, o) + InGlobals(globals, o) + InItems(heap, MaxItems, o)
        BY <1>1, <1>2, CountsNat
    <2>2. Count(<<>>, o) = 0 /\ InGlobals(gl, o) = 0 /\ Count(rs, o) = InGlobals(globals, o)
        BY <1>8, <1>9, CountEmpty
    <2>. QED  BY <2>1, <2>2
<1>11. Sound(heap, <<>>, gl, Unrefs(rs), MaxItems)
    <2>1. <<>> \in Seq(Ref)
        OBVIOUS
    <2>. QED  BY <1>1, <1>2, <1>5, <1>8, <1>10, <2>1, Finish
<1>. QED  BY <1>7, <1>11 DEF After

(* A string changed in place: nothing that counts references changes.       *)
Rewritten(h, k, M) == /\ HeapOK(k, M) /\ Alike(h, k)
                      /\ \A o \in Obj : Nrefs(k, o) = Nrefs(h, o)

LEMMA Retexted ==
    ASSUME NEW M \in Nat, NEW h, HeapOK(h, M), NEW l \in AliveIn(h), NEW t \in Nat,
           NEW k, k = [h EXCEPT ![l].text = t]
    PROVE  Rewritten(h, k, M)
<1>1. h \in [Obj -> Cell \union {Free}] /\ l \in Obj /\ h[l] \in Cell
    BY DEF HeapOK, Fits, AliveIn
<1>. DEFINE c == [h[l] EXCEPT !.text = t]
<1>2. k = [h EXCEPT ![l] = c]
    OBVIOUS
<1>3. c \in Cell /\ SameShape(h[l], c) /\ c.nrefs = h[l].nrefs
    BY <1>1 DEF Cell, SameShape
<1>. HIDE DEF c
<1>4. k[l] = c /\ c # Free /\ \A y \in Obj : y # l => k[y] = h[y]
    BY <1>1, <1>2, <1>3, HeapAssumption
<1>5. AliveIn(k) = AliveIn(h)
    BY <1>3, <1>4 DEF AliveIn
<1>6. Alike(h, k)
    <2>1. \A y \in AliveIn(h) : SameShape(h[y], h[y]) /\ y \in Obj
        BY DEF SameShape, AliveIn
    <2>. QED  BY <1>3, <1>4, <1>5, <2>1 DEF Alike
<1>7. Fits(k, M)
    <2>1. k \in [Obj -> Cell \union {Free}]
        BY <1>1, <1>2, <1>3
    <2>2. \A o \in Obj : k[o] # Free => Len(k[o].items) <= M
        BY <1>3, <1>4 DEF HeapOK, Fits, AliveIn, SameShape
    <2>. QED  BY <2>1, <2>2 DEF Fits
<1>8. WellLinked(k)
    BY <1>6, AlikeKeeps DEF HeapOK
<1>9. \A o \in Obj : Nrefs(k, o) = Nrefs(h, o)
    BY <1>3, <1>4 DEF Nrefs, AliveIn
<1>. QED  BY <1>6, <1>7, <1>8, <1>9 DEF HeapOK, Rewritten

(* The three ways of perform_aop, with what each leaves to be dropped: the  *)
(* operands' references become the result's and those left over.            *)
Rest(l, r) == IF Is(l, {"str"}) THEN << r >> ELSE << l, r >>

JoinedOK(h, l, r, x, k, M) ==
    /\ HeapOK(k, M)
    /\ \A c \in AliveIn(h) : c \in AliveIn(k) /\ k[c].items = h[c].items
    /\ \A o \in Obj : InItems(k, M, o) = InItems(h, M, o)
    /\ \A o \in Obj : Nrefs(k, o) + Hits(l, o) + Hits(r, o)
                          = Nrefs(h, o) + Hits(Result(l, x), o) + Count(Rest(l, r), o)

(* The heap of the program and the one where an item has been added.        *)
SameObjects(h, k) ==
    /\ AliveIn(k) = AliveIn(h)
    /\ \A y \in Obj : /\ k[y] = Free <=> h[y] = Free
                      /\ k[y].kind = h[y].kind /\ k[y].nrefs = h[y].nrefs /\ k[y].text = h[y].text

LEMMA RestIs ==
    ASSUME NEW l \in Ref, NEW r \in Ref
    PROVE  /\ Rest(l, r) \in Seq(Ref) /\ Leftovers(l, r) = Unrefs(Rest(l, r))
           /\ \A o : Count(Rest(l, r), o) = Hits(r, o) + (IF Is(l, {"str"}) THEN 0 ELSE Hits(l, o))
<1>1. CASE Is(l, {"str"})
    <2>1. Rest(l, r) = << r >> /\ Leftovers(l, r) = << Unref(r) >>
        BY <1>1 DEF Rest, Leftovers
    <2>2. \A o : Count(<< r >>, o) = Hits(r, o) /\ Hits(r, o) \in Nat
        BY CountOne, HitsNat
    <2>3. << r >> \in Seq(Ref) /\ Unrefs(<< r >>) = << Unref(r) >>
        BY UnrefsAre
    <2>. QED  BY <1>1, <2>1, <2>2, <2>3
<1>2. CASE ~Is(l, {"str"})
    <2>1. Rest(l, r) = << l, r >> /\ Leftovers(l, r) = << Unref(l), Unref(r) >>
        BY <1>2 DEF Rest, Leftovers
    <2>2. \A o : Count(<< l, r >>, o) = Hits(l, o) + Hits(r, o) /\ Hits(r, o) \in Nat /\ Hits(l, o) \in Nat
        BY CountTwo, HitsNat
    <2>3. << l, r >> \in Seq(Ref) /\ Unrefs(<< l, r >>) = << Unref(l), Unref(r) >>
        BY UnrefsAre
    <2>. QED  BY <1>2, <2>1, <2>2, <2>3
<1>. QED  BY <1>1, <1>2

LEMMA JoinedIs ==
    ASSUME NEW M \in Nat, HeapOK(heap, M), NEW h, HeapOK(h, M), SameObjects(heap, h),
           NEW l \in Ref, NEW r \in Ref, l \in Obj => l \in AliveIn(heap), r \in Obj => r \in AliveIn(heap),
           NEW x \in Obj, heap[x] = Free,
           NEW k, k = Joined(h, l, r, x)
    PROVE  JoinedOK(h, l, r, x, k, M)
<1>1. PICK t \in Nat : t = TextOf(l) + TextOf(r)
    <2>1. \A y \in Ref : (y \in Obj => y \in AliveIn(heap)) => TextOf(y) \in Nat
        BY DEF TextOf, Is, Live, AliveIn, HeapOK, Fits, Cell
    <2>2. TextOf(l) \in Nat /\ TextOf(r) \in Nat
        BY <2>1
    <2>. QED  BY <2>2
<1>2. h[x] = Free /\ x \in Ref /\ x \notin AliveIn(h)
    BY DEF SameObjects, AliveIn, Ref
<1>3. PICK c : c = [Object("str") EXCEPT !.text = t]
    OBVIOUS
<1>4. PICK j : j = [h EXCEPT ![x] = c]
    OBVIOUS
<1>5. PlainCell(c, M) /\ c.items = <<>>
    BY <1>1, <1>3, ObjectIs
<1>6. Added(h, x, c, j, M)
    BY <1>2, <1>4, <1>5, NewCell
<1>7. /\ HeapOK(j, M)
      /\ \A y \in AliveIn(h) : y \in AliveIn(j) /\ j[y] = h[y] /\ y # x
      /\ \A o \in Obj : Nrefs(j, o) = Nrefs(h, o) + Hits(x, o) /\ InItems(j, M, o) = InItems(h, M, o)
    <2>1. \A y \in AliveIn(h) : y \in AliveIn(j) /\ j[y] = h[y] /\ y # x
        BY <1>2, <1>6 DEF Added, AliveIn
    <2>2. \A o \in Obj : Nrefs(j, o) = Nrefs(h, o) + Hits(x, o)
                         /\ InItems(j, M, o) = InItems(h, M, o) + Count(c.items, o)
        BY <1>6 DEF Added
    <2>3. \A o \in Obj : Count(c.items, o) = 0 /\ InItems(h, M, o) \in Nat
        BY <1>5, CountEmpty, SlotsFinite
    <2>4. \A o \in Obj : Nrefs(j, o) = Nrefs(h, o) + Hits(x, o) /\ InItems(j, M, o) = InItems(h, M, o)
        BY <2>2, <2>3
    <2>. QED  BY <1>6, <2>1, <2>4 DEF Added
<1>8. \A o \in Obj : /\ Nrefs(h, o) \in Nat /\ Hits(l, o) \in Nat /\ Hits(r, o) \in Nat /\ Hits(x, o) \in Nat
                     /\ Count(Rest(l, r), o) = Hits(r, o) + (IF Is(l, {"str"}) THEN 0 ELSE Hits(l, o))
    BY NrefsNat, HitsNat, RestIs
<1>9. CASE InPlace(l)
    <2>1. Is(l, {"str"}) /\ Result(l, x) = l /\ l \in AliveIn(h)
        BY <1>9 DEF InPlace, Result, Is, Live, SameObjects
    <2>2. k = [h EXCEPT ![l].text = t]
        BY <1>1, <1>9 DEF Joined
    <2>3. /\ HeapOK(k, M) /\ Alike(h, k) /\ \A o \in Obj : Nrefs(k, o) = Nrefs(h, o)
        <3>1. Rewritten(h, k, M)
            BY <1>1, <2>1, <2>2, Retexted
        <3>. QED  BY <3>1 DEF Rewritten
    <2>4. \A o : InItems(k, M, o) = InItems(h, M, o)
        BY <2>3, AlikeKeeps
    <2>5. \A y \in AliveIn(h) : y \in AliveIn(k) /\ k[y].items = h[y].items
        BY <2>3 DEF Alike, SameShape
    <2>6. ASSUME NEW o \in Obj
          PROVE  Nrefs(k, o) + Hits(l, o) + Hits(r, o)
                     = Nrefs(h, o) + Hits(Result(l, x), o) + Count(Rest(l, r), o)
        BY <1>8, <2>1, <2>3
    <2>. QED  BY <2>3, <2>4, <2>5, <2>6 DEF JoinedOK
<1>10. CASE ~InPlace(l) /\ Is(l, {"str"})
    <2>1. l \in Obj /\ l \in AliveIn(heap) /\ l \in AliveIn(h) /\ l \in AliveIn(j) /\ heap[l].nrefs # 1
        <3>1. l \in Obj /\ heap[l].nrefs # 1
            BY <1>10 DEF InPlace, Is, Live
        <3>2. l \in AliveIn(heap) /\ l \in AliveIn(h)
            BY <3>1 DEF SameObjects
        <3>. QED  BY <1>7, <3>1, <3>2
    <2>2. Result(l, x) = x /\ k = Counted(j, l, -1)
        BY <1>1, <1>3, <1>4, <1>10 DEF Result, Joined
    <2>3. j[l].nrefs + -1 > 0
        <3>1. j[l].nrefs = heap[l].nrefs
            BY <1>7, <2>1 DEF SameObjects
        <3>2. heap[l].nrefs \in Nat /\ heap[l].nrefs > 0
            BY <2>1, NrefsNat DEF AliveIn
        <3>. QED  BY <2>1, <3>1, <3>2
    <2>4. /\ HeapOK(k, M) /\ Alike(j, k)
          /\ \A o \in Obj : Nrefs(k, o) = Nrefs(j, o) + (-1) * Hits(l, o)
        BY <1>7, <2>1, <2>2, <2>3, CountedIs
    <2>5. \A o \in Obj : InItems(k, M, o) = InItems(h, M, o)
        BY <1>7, <2>4, AlikeKeeps
    <2>6. \A y \in AliveIn(h) : y \in AliveIn(k) /\ k[y].items = h[y].items
        BY <1>7, <2>4 DEF Alike, SameShape
    <2>7. ASSUME NEW o \in Obj
          PROVE  Nrefs(k, o) + Hits(l, o) + Hits(r, o)
                     = Nrefs(h, o) + Hits(Result(l, x), o) + Count(Rest(l, r), o)
        <3>1. Nrefs(k, o) = Nrefs(h, o) + Hits(x, o) + (-1) * Hits(l, o)
            BY <1>7, <2>4
        <3>2. Count(Rest(l, r), o) = Hits(r, o)
            BY <1>8, <1>10
        <3>. QED  BY <1>8, <2>2, <3>1, <3>2
    <2>. QED  BY <2>4, <2>5, <2>6, <2>7 DEF JoinedOK
<1>11. CASE ~Is(l, {"str"})
    <2>1. Result(l, x) = x /\ k = j
        BY <1>1, <1>3, <1>4, <1>11 DEF Result, Joined, InPlace
    <2>2. ASSUME NEW o \in Obj
          PROVE  Nrefs(k, o) + Hits(l, o) + Hits(r, o)
                     = Nrefs(h, o) + Hits(Result(l, x), o) + Count(Rest(l, r), o)
        <3>1. Nrefs(k, o) = Nrefs(h, o) + Hits(x, o)
            BY <1>7, <2>1
        <3>2. Count(Rest(l, r), o) = Hits(r, o) + Hits(l, o)
            BY <1>8, <1>11
        <3>. QED  BY <1>8, <2>1, <3>1, <3>2
    <2>. QED  BY <1>7, <2>1, <2>2 DEF JoinedOK
<1>. QED  BY <1>9, <1>10, <1>11

(* What perform_aop needs: both operands are alive, the address is free.    *)
LEMMA JoinableIs ==
    ASSUME NEW l, NEW r, NEW x, Joinable(l, r, x)
    PROVE  heap[x] = Free
BY DEF Joinable, Room

LEMMA ConcatKeeps ==
    ASSUME HInv, NEW x \in Obj, Concat(x)
    PROVE  After
<1>1. MaxItems \in Nat /\ Settled(heap, stack, globals, MaxItems)
    BY IdleFacts DEF Concat
<1>2. HeapOK(heap, MaxItems) /\ stack \in Seq(Ref) /\ globals \in [Global -> Ref \union {None}] /\ Len(stack) >= 2
    BY <1>1 DEF Settled, Concat
<1>3. PICK l \in Ref, r \in Ref : /\ l = Second /\ r = Top
                                  /\ l \in Obj => l \in AliveIn(heap)
                                  /\ r \in Obj => r \in AliveIn(heap)
    BY <1>1, <1>2, SecondIs DEF Settled, Top, Second
<1>4. PICK k, e, z : k = Joined(heap, l, r, x) /\ e = Rest(l, r) /\ z = Result(l, x)
    OBVIOUS
<1>5. /\ e \in Seq(Ref) /\ Leftovers(l, r) = Unrefs(e) /\ z \in Ref
    BY <1>3, <1>4, RestIs DEF Result, Ref
<1>6. heap' = k /\ stack' = Append(Drop(stack, 2), z) /\ due' = Unrefs(e) /\ globals' = globals
      /\ heap[x] = Free
    BY <1>3, <1>4, <1>5, JoinableIs DEF Concat, Instruct
<1>7. JoinedOK(heap, l, r, x, k, MaxItems)
    <2>1. SameObjects(heap, heap)
        BY DEF SameObjects
    <2>. QED  BY <1>1, <1>2, <1>3, <1>4, <1>6, <2>1, JoinedIs
<1>8. ASSUME NEW o \in Obj
      PROVE  Count(stack', o) + InGlobals(globals, o) + InItems(k, MaxItems, o) + Count(e, o) = Nrefs(k, o)
    <2>1. /\ InItems(k, MaxItems, o) = InItems(heap, MaxItems, o)
          /\ Nrefs(k, o) + Hits(l, o) + Hits(r, o) = Nrefs(heap, o) + Hits(z, o) + Count(e, o)
        BY <1>4, <1>7 DEF JoinedOK
    <2>2. /\ Count(stack', o) = Count(Drop(stack, 2), o) + Hits(z, o)
          /\ Count(stack, o) = Count(Drop(stack, 2), o) + Hits(l, o) + Hits(r, o)
          /\ Count(Drop(stack, 2), o) \in Nat
        BY <1>2, <1>3, <1>5, <1>6, SecondIs
    <2>3. /\ InGlobals(globals, o) \in Nat /\ InItems(heap, MaxItems, o) \in Nat
          /\ Nrefs(heap, o) = Count(stack, o) + InGlobals(globals, o) + InItems(heap, MaxItems, o)
          /\ Hits(l, o) \in Nat /\ Hits(r, o) \in Nat /\ Hits(z, o) \in Nat
        BY <1>1, CountsNat, HitsNat
    <2>4. Count(e, o) \in Nat /\ Nrefs(k, o) \in Nat
        BY <1>5, <1>7, CountFacts, NrefsNat DEF JoinedOK
    <2>. QED  BY <2>1, <2>2, <2>3, <2>4
<1>9. Sound(k, stack', globals, Unrefs(e), MaxItems)
    <2>1. stack' \in Seq(Ref) /\ HeapOK(k, MaxItems)
        BY <1>2, <1>5, <1>6, <1>7, SecondIs DEF JoinedOK
    <2>. QED  BY <1>1, <1>2, <1>5, <1>8, <2>1, Finish
<1>. QED  BY <1>6, <1>9 DEF After

LEMMA ModifyGlobalKeeps ==
    ASSUME HInv, NEW g \in Global, NEW x \in Obj, ModifyGlobal(g, x)
    PROVE  After
<1>1. MaxItems \in Nat /\ Settled(heap, stack, globals, MaxItems)
    BY IdleFacts DEF ModifyGlobal
<1>2. HeapOK(heap, MaxItems) /\ stack \in Seq(Ref) /\ globals \in [Global -> Ref \union {None}] /\ stack # <<>>
    BY <1>1 DEF Settled, ModifyGlobal
<1>3. PICK l \in Ref, r \in Ref : /\ l = globals[g] /\ r = Top
                                  /\ l \in Obj => l \in AliveIn(heap)
                                  /\ r \in Obj => r \in AliveIn(heap)
    <2>1. globals[g] \in Ref
        BY <1>2 DEF ModifyGlobal
    <2>. QED  BY <1>1, <1>2, <2>1, TopIs DEF Settled, Top
<1>4. PICK k, e, z : k = Joined(heap, l, r, x) /\ e = Rest(l, r) /\ z = Result(l, x)
    OBVIOUS
<1>5. /\ e \in Seq(Ref) /\ Leftovers(l, r) = Unrefs(e) /\ z \in Ref
    BY <1>3, <1>4, RestIs DEF Result, Ref
<1>6. PICK p \in Place : p = [in |-> None, at |-> g] /\ p.in = None /\ p.at = g
    BY PlaceIs
<1>7. heap' = k /\ stack' = Drop(stack, 1) /\ due' = Append(Unrefs(e), Write(p, z)) /\ globals' = globals
      /\ heap[x] = Free
    BY <1>3, <1>4, <1>5, <1>6, JoinableIs DEF ModifyGlobal, Instruct
<1>8. JoinedOK(heap, l, r, x, k, MaxItems)
    <2>1. SameObjects(heap, heap)
        BY DEF SameObjects
    <2>. QED  BY <1>1, <1>2, <1>3, <1>4, <1>7, <2>1, JoinedIs
<1>9. due' = Around(Unrefs(e), Write(p, z), Unrefs(<<>>))
    <2>1. Unrefs(e) \in Seq(Task) /\ Write(p, z) \in Task
        BY <1>5, OwedUnrefs, TaskTypes
    <2>2. Around(Unrefs(e), Write(p, z), <<>>) = Append(Unrefs(e), Write(p, z))
        BY <2>1, AroundForms
    <2>. QED  BY <1>7, <2>2, UnrefsAre
<1>10. <<>> \in Seq(Ref) /\ Within(k, p, <<>>) /\ At(k, globals, p) = l
    BY <1>3, <1>6 DEF Within, At
<1>11. ASSUME NEW o \in Obj
       PROVE  Count(stack', o) + InGlobals(globals, o) + InItems(k, MaxItems, o)
                  + (Count(e, o) + Hits(z, o) + Count(<<>>, o))
              = Nrefs(k, o) + Hits(At(k, globals, p), o)
    <2>1. /\ InItems(k, MaxItems, o) = InItems(heap, MaxItems, o)
          /\ Nrefs(k, o) + Hits(l, o) + Hits(r, o) = Nrefs(heap, o) + Hits(z, o) + Count(e, o)
        BY <1>4, <1>8 DEF JoinedOK
    <2>2. Count(stack, o) = Count(stack', o) + Hits(r, o) /\ Count(stack', o) \in Nat
        BY <1>2, <1>3, <1>7, TopIs
    <2>3. /\ InGlobals(globals, o) \in Nat /\ InItems(heap, MaxItems, o) \in Nat
          /\ Nrefs(heap, o) = Count(stack, o) + InGlobals(globals, o) + InItems(heap, MaxItems, o)
          /\ Hits(l, o) \in Nat /\ Hits(r, o) \in Nat /\ Hits(z, o) \in Nat
        BY <1>1, CountsNat, HitsNat
    <2>4. Count(e, o) \in Nat /\ Nrefs(k, o) \in Nat
        BY <1>5, <1>8, CountFacts, NrefsNat DEF JoinedOK
    <2>5. Count(<<>>, o) = 0 /\ Hits(At(k, globals, p), o) = Hits(l, o)
        BY <1>10, CountEmpty
    <2>6. PICK d \in Nat, b \in Nat, m \in Nat, u \in Nat, v \in Nat, w \in Nat, q \in Nat :
              /\ d = Count(stack', o) /\ b = InGlobals(globals, o) /\ m = InItems(heap, MaxItems, o)
              /\ u = Hits(l, o) /\ v = Hits(r, o) /\ w = Hits(z, o) /\ q = Count(e, o)
        BY <2>2, <2>3, <2>4
    <2>7. PICK n \in Nat : n = Nrefs(k, o) /\ n + u + v = d + v + b + m + w + q
        BY <2>1, <2>2, <2>3, <2>4, <2>6
    <2>8. d + b + m + (q + w + 0) = n + u
        BY <2>7
    <2>9. InItems(k, MaxItems, o) = m /\ Hits(At(k, globals, p), o) = u /\ Count(<<>>, o) = 0
        BY <2>1, <2>5, <2>6
    <2>. QED  BY <2>6, <2>7, <2>8, <2>9, Zenon
<1>12. Sound(k, stack', globals, due', MaxItems)
    <2>1. stack' \in Seq(Ref) /\ HeapOK(k, MaxItems)
        BY <1>2, <1>7, <1>8, TopIs DEF JoinedOK
    <2>. QED  BY <1>1, <1>2, <1>5, <1>9, <1>10, <1>11, <2>1, FinishWrite
<1>. QED  BY <1>7, <1>12 DEF After

LEMMA ModifyAtKeeps ==
    ASSUME HInv, NEW i, NEW x \in Obj, ModifyAt(i, x)
    PROVE  After
<1>1. MaxItems \in Nat /\ Settled(heap, stack, globals, MaxItems)
    BY IdleFacts DEF ModifyAt
<1>2. HeapOK(heap, MaxItems) /\ stack \in Seq(Ref) /\ globals \in [Global -> Ref \union {None}] /\ Len(stack) >= 2
    BY <1>1 DEF Settled, ModifyAt
<1>3. PICK h : h = Grown(heap, Second, i)
    OBVIOUS
<1>4. PICK c \in Obj : c = Second /\ c \in AliveIn(heap) /\ c \in Ref /\ i \in Nat /\ GrownOK(heap, h, c, i, MaxItems)
    BY <1>3, SecondGrown DEF ModifyAt
<1>5. /\ HeapOK(h, MaxItems) /\ SameObjects(heap, h) /\ c \in AliveIn(h) /\ i \in 1..Len(h[c].items)
      /\ \A o \in Obj : Nrefs(h, o) = Nrefs(heap, o) /\ InItems(h, MaxItems, o) = InItems(heap, MaxItems, o)
    BY <1>4 DEF GrownOK, SameObjects
<1>6. PICK l \in Ref : l = h[c].items[i] /\ (l \in Obj => l \in AliveIn(heap))
    <2>1. /\ h[c].items[i] \in Ref
          /\ h[c].items[i] # Nil => i \in 1..Len(heap[c].items) /\ h[c].items[i] = heap[c].items[i]
        BY <1>4 DEF GrownOK
    <2>2. h[c].items[i] \in Obj => h[c].items[i] # Nil
        BY HeapAssumption
    <2>. QED  BY <1>1, <1>4, <2>1, <2>2 DEF Settled
<1>7. PICK r \in Ref : r = Top /\ (r \in Obj => r \in AliveIn(heap))
    BY <1>1, <1>2, SecondIs DEF Settled, Top
<1>8. PICK k, e, z : k = Joined(h, l, r, x) /\ e = Rest(l, r) /\ z = Result(l, x)
    OBVIOUS
<1>9. /\ e \in Seq(Ref) /\ Leftovers(l, r) = Unrefs(e) /\ z \in Ref
    BY <1>8, RestIs DEF Result, Ref
<1>10. PICK p \in Place : p = [in |-> c, at |-> i] /\ p.in = c /\ p.at = i
    <2>1. c \in Obj /\ i \in Nat
        BY <1>4
    <2>2. [in |-> c, at |-> i] \in Place /\ [in |-> c, at |-> i].in = c /\ [in |-> c, at |-> i].at = i
        BY <2>1, PlaceIs, Zenon
    <2>. QED  BY <2>2, Zenon
<1>11. heap' = k /\ stack' = Drop(stack, 2) /\ due' = Unrefs(e) \o << Write(p, z), Unref(c) >>
       /\ globals' = globals /\ heap[x] = Free
    BY <1>3, <1>4, <1>6, <1>7, <1>8, <1>9, <1>10, JoinableIs DEF ModifyAt, Instruct
<1>12. JoinedOK(h, l, r, x, k, MaxItems)
    BY <1>1, <1>2, <1>5, <1>6, <1>7, <1>8, <1>11, JoinedIs
<1>13. due' = Around(Unrefs(e), Write(p, z), Unrefs(<< c >>))
    <2>1. Unrefs(e) \in Seq(Task) /\ Write(p, z) \in Task /\ Unref(c) \in Task
        BY <1>4, <1>9, OwedUnrefs, TaskTypes
    <2>2. Around(Unrefs(e), Write(p, z), << Unref(c) >>) = Unrefs(e) \o << Write(p, z), Unref(c) >>
        BY <2>1, AroundForms
    <2>. QED  BY <1>11, <2>2, UnrefsAre
<1>14. << c >> \in Seq(Ref) /\ \A o : Count(<< c >>, o) = Hits(c, o)
    BY <1>4, CountOne, CountTwo
<1>15. k[c].items = h[c].items /\ c \in AliveIn(k)
    BY <1>5, <1>12 DEF JoinedOK
<1>16. Within(k, p, << c >>)
    <2>1. 1 \in 1..Len(<< c >>) /\ << c >>[1] = c
        OBVIOUS
    <2>. QED  BY <1>5, <1>10, <1>15, <2>1 DEF Within
<1>17. At(k, globals, p) = l
    BY <1>6, <1>10, <1>15, HeapAssumption DEF At
<1>18. ASSUME NEW o \in Obj
       PROVE  Count(stack', o) + InGlobals(globals, o) + InItems(k, MaxItems, o)
                  + (Count(e, o) + Hits(z, o) + Count(<< c >>, o))
              = Nrefs(k, o) + Hits(At(k, globals, p), o)
    <2>1. /\ InItems(k, MaxItems, o) = InItems(heap, MaxItems, o)
          /\ Nrefs(k, o) + Hits(l, o) + Hits(r, o) = Nrefs(heap, o) + Hits(z, o) + Count(e, o)
        BY <1>5, <1>8, <1>12 DEF JoinedOK
    <2>2. Count(stack, o) = Count(stack', o) + Hits(c, o) + Hits(r, o) /\ Count(stack', o) \in Nat
        BY <1>2, <1>4, <1>7, <1>11, SecondIs
    <2>3. /\ InGlobals(globals, o) \in Nat /\ InItems(heap, MaxItems, o) \in Nat
          /\ Nrefs(heap, o) = Count(stack, o) + InGlobals(globals, o) + InItems(heap, MaxItems, o)
          /\ Hits(l, o) \in Nat /\ Hits(r, o) \in Nat /\ Hits(z, o) \in Nat /\ Hits(c, o) \in Nat
        BY <1>1, CountsNat, HitsNat
    <2>4. Count(e, o) \in Nat /\ Nrefs(k, o) \in Nat
        BY <1>9, <1>12, CountFacts, NrefsNat DEF JoinedOK
    <2>5. Count(<< c >>, o) = Hits(c, o) /\ Hits(At(k, globals, p), o) = Hits(l, o)
        BY <1>14, <1>17
    <2>6. PICK d \in Nat, g \in Nat, m \in Nat, u \in Nat, v \in Nat, w \in Nat, y \in Nat, q \in Nat :
              /\ d = Count(stack', o) /\ g = InGlobals(globals, o) /\ m = InItems(heap, MaxItems, o)
              /\ u = Hits(l, o) /\ v = Hits(r, o) /\ w = Hits(z, o) /\ y = Hits(c, o) /\ q = Count(e, o)
        BY <2>2, <2>3, <2>4
    <2>7. PICK n \in Nat : n = Nrefs(k, o) /\ n + u + v = d + y + v + g + m + w + q
        BY <2>1, <2>2, <2>3, <2>4, <2>6
    <2>8. d + g + m + (q + w + y) = n + u
        BY <2>7
    <2>9. InItems(k, MaxItems, o) = m /\ Hits(At(k, globals, p), o) = u /\ Count(<< c >>, o) = y
        BY <2>1, <2>5, <2>6
    <2>. QED  BY <2>6, <2>7, <2>8, <2>9, Zenon
<1>19. Sound(k, stack', globals, due', MaxItems)
    <2>1. stack' \in Seq(Ref) /\ HeapOK(k, MaxItems)
        BY <1>2, <1>11, <1>12, SecondIs DEF JoinedOK
    <2>. QED  BY <1>1, <1>2, <1>9, <1>13, <1>14, <1>16, <1>18, <2>1, FinishWrite
<1>. QED  BY <1>11, <1>19 DEF After

(* wref_new puts w in front of o's list.                                    *)
Put(h, k, w, o) ==
    LET old == h[o].wref_first
    IN  /\ \A y \in Obj \ {w} :
              /\ k[y] = Free <=> h[y] = Free
              /\ k[y].kind = h[y].kind /\ k[y].nrefs = h[y].nrefs
              /\ k[y].items = h[y].items /\ k[y].text = h[y].text
              /\ k[y].target = h[y].target /\ k[y].next = h[y].next
              /\ k[y].wref_first = IF y = o THEN w ELSE h[y].wref_first
              /\ k[y].prev = IF y = old THEN w ELSE h[y].prev
        /\ k[w] # Free /\ k[w].kind = "wref" /\ k[w].nrefs = 1 /\ k[w].items = <<>>
        /\ k[w].target = o /\ k[w].next = old /\ k[w].prev = None /\ k[w].wref_first = None

LEMMA PutLinks ==
    ASSUME NEW h, NEW K \in Nat, NEW rk \in [Obj -> 0..K], Linked(h, rk),
           NEW w \in Obj, h[w] = Free, NEW o \in ContainersIn(h),
           NEW k, Put(h, k, w, o)
    PROVE  WellLinked(k)
<1>. DEFINE old == h[o].wref_first
            rj == [y \in Obj |-> IF y = w THEN K + 1 ELSE rk[y]]
<1>1. /\ AliveIn(h) \subseteq Obj \ {w} /\ WrefsIn(h) \subseteq Obj \ {w} /\ ContainersIn(h) \subseteq Obj \ {w}
      /\ o \in Obj \ {w} /\ None \notin Obj
    BY HeapAssumption DEF AliveIn, WrefsIn, ContainersIn
<1>2. AliveIn(k) = AliveIn(h) \union {w}
    BY <1>1 DEF AliveIn, Put
<1>3. WrefsIn(k) = WrefsIn(h) \union {w} /\ ContainersIn(k) = ContainersIn(h)
    BY <1>1, <1>2 DEF WrefsIn, ContainersIn, Containers, Put
<1>4. rj \in [Obj -> 0..(K + 1)] /\ rj[w] = K + 1
      /\ \A y \in Obj \ {w} : rj[y] = rk[y] /\ rk[y] < K + 1
    OBVIOUS
<1>5. FirstLinked(h, o) /\ old # w /\ (old # None => old \in WrefsIn(h) /\ h[old].target = o /\ h[old].prev = None)
    BY <1>1 DEF Linked, FirstLinked
<1>6. \A y \in Obj \ {w} :
          /\ k[y].target = h[y].target /\ k[y].next = h[y].next
          /\ k[y].wref_first = IF y = o THEN w ELSE h[y].wref_first
          /\ k[y].prev = IF y = old THEN w ELSE h[y].prev
    BY DEF Put
<1>7. k[w].target = o /\ k[w].next = old /\ k[w].prev = None
    BY DEF Put
<1>. HIDE DEF rj, old
<1>8. ASSUME NEW x \in WrefsIn(k) PROVE WrefLinked(k, rj, x)
    <2>1. CASE x = w
        <3>1. k[o].wref_first = w /\ o \in ContainersIn(k)
            BY <1>1, <1>3, <1>6
        <3>2. old # None => old \in WrefsIn(k) /\ k[old].prev = w /\ k[old].target = o /\ rj[old] < rj[w]
            BY <1>1, <1>3, <1>4, <1>5, <1>6
        <3>. QED  BY <1>7, <2>1, <3>1, <3>2 DEF WrefLinked
    <2>2. CASE x # w
        <3>1. x \in WrefsIn(h) /\ WrefLinked(h, rk, x) /\ x \in Obj \ {w}
            BY <1>1, <1>3, <2>2 DEF Linked
        <3>2. k[x].target # None =>
                  k[x].target \in ContainersIn(k) /\ (k[x].prev = None => k[k[x].target].wref_first = x)
            <4>1. PICK t : t = h[x].target
                OBVIOUS
            <4>. SUFFICES ASSUME t # None PROVE t \in ContainersIn(k) /\ (k[x].prev = None => k[t].wref_first = x)
                BY <1>6, <3>1, <4>1
            <4>2. t \in ContainersIn(h) /\ (h[x].prev = None => h[t].wref_first = x)
                BY <3>1, <4>1 DEF WrefLinked
            <4>3. CASE k[x].prev = None
                <5>1. x # old /\ h[x].prev = None
                    BY <1>1, <1>6, <3>1, <4>3
                <5>2. t # o
                    BY <4>2, <5>1 DEF old
                <5>. QED  BY <1>1, <1>3, <1>6, <4>2, <5>1, <5>2
            <4>. QED  BY <1>3, <4>2, <4>3
        <3>3. k[x].next # None =>
                  /\ k[x].next \in WrefsIn(k) /\ k[k[x].next].prev = x
                  /\ k[k[x].next].target = k[x].target /\ rj[k[x].next] < rj[x]
            <4>1. PICK m : m = h[x].next
                OBVIOUS
            <4>. SUFFICES ASSUME m # None
                 PROVE  m \in WrefsIn(k) /\ k[m].prev = x /\ k[m].target = k[x].target /\ rj[m] < rj[x]
                BY <1>6, <3>1, <4>1
            <4>2. m \in WrefsIn(h) /\ h[m].prev = x /\ h[m].target = h[x].target /\ rk[m] < rk[x]
                BY <3>1, <4>1 DEF WrefLinked
            <4>3. m # old
                BY <1>1, <1>5, <3>1, <4>2
            <4>4. m \in Obj \ {w} /\ rj[m] < rj[x]
                BY <1>1, <1>4, <3>1, <4>2
            <4>. QED  BY <1>3, <1>6, <3>1, <4>2, <4>3, <4>4
        <3>4. k[x].prev # None => k[x].prev \in WrefsIn(k) /\ k[k[x].prev].next = x
            <4>1. CASE x = old
                BY <1>3, <1>6, <1>7, <3>1, <4>1
            <4>2. CASE x # old
                <5>1. PICK q : q = h[x].prev
                    OBVIOUS
                <5>. SUFFICES ASSUME q # None PROVE q \in WrefsIn(k) /\ k[q].next = x
                    BY <1>6, <3>1, <4>2, <5>1
                <5>2. q \in WrefsIn(h) /\ h[q].next = x
                    BY <3>1, <5>1 DEF WrefLinked
                <5>. QED  BY <1>1, <1>3, <1>6, <5>2
            <4>. QED  BY <4>1, <4>2
        <3>. QED  BY <3>2, <3>3, <3>4 DEF WrefLinked
    <2>. QED  BY <2>1, <2>2
<1>9. ASSUME NEW c \in ContainersIn(k) PROVE FirstLinked(k, c)
    <2>1. CASE c = o
        BY <1>1, <1>3, <1>6, <1>7, <2>1 DEF FirstLinked
    <2>2. CASE c # o
        <3>1. PICK f : f = h[c].wref_first
            OBVIOUS
        <3>2. c \in ContainersIn(h) /\ FirstLinked(h, c) /\ k[c].wref_first = f
            BY <1>1, <1>3, <1>6, <2>2, <3>1 DEF Linked
        <3>. SUFFICES ASSUME f # None PROVE f \in WrefsIn(k) /\ k[f].target = c /\ k[f].prev = None
            BY <3>2 DEF FirstLinked
        <3>3. f \in WrefsIn(h) /\ h[f].target = c /\ h[f].prev = None
            BY <3>1, <3>2 DEF FirstLinked
        <3>4. f # old
            BY <1>1, <1>5, <2>2, <3>3
        <3>. QED  BY <1>1, <1>3, <1>6, <3>3, <3>4
    <2>. QED  BY <2>1, <2>2
<1>10. Linked(k, rj) /\ K + 1 \in Nat
    BY <1>8, <1>9 DEF Linked
<1>. QED  BY <1>4, <1>10 DEF WellLinked

LEMMA PutIs ==
    ASSUME NEW h \in [Obj -> Cell \union {Free}], NEW w \in Obj, h[w] = Free,
           NEW o \in Obj, h[o] # Free, h[o].wref_first # None => h[h[o].wref_first] # Free,
           NEW k, k = Chained(h, w, o)
    PROVE  Put(h, k, w, o) /\ k \in [Obj -> Cell \union {Free}]
<1>1. PICK old \in Obj \union {None} : old = h[o].wref_first /\ (old # None => h[old] # Free)
    BY DEF Cell
<1>2. PICK c : c = [kind |-> "wref", nrefs |-> 1, items |-> <<>>, text |-> 0, wref_first |-> None,
                    target |-> o, next |-> old, prev |-> None]
    OBVIOUS
<1>3. c \in Cell /\ c # Free
    <2>1. c \in Cell
        BY <1>2 DEF Cell
    <2>. QED  BY <2>1, HeapAssumption
<1>4. PICK g : g = [h EXCEPT ![w] = c]
    OBVIOUS
<1>5. g \in [Obj -> Cell \union {Free}] /\ g[w] = c /\ \A y \in Obj \ {w} : g[y] = h[y]
    BY <1>3, <1>4
<1>6. PICK f : f = [g EXCEPT ![o].wref_first = w]
    OBVIOUS
<1>7. w # o /\ None \notin Obj /\ old # w
    BY <1>1, HeapAssumption
<1>8. FirstSet(g, f, o, w)
    <2>1. g[o] # Free /\ w \in Obj \union {None}
        BY <1>5, <1>7
    <2>. QED  BY <1>5, <1>6, <2>1, Links
<1>9. k = IF old = None THEN f ELSE [f EXCEPT ![old].prev = w]
    <2>1. [Object("wref") EXCEPT !.target = o, !.next = old] = c
        <3>1. PICK b : b = [Object("wref") EXCEPT !.target = o]
            OBVIOUS
        <3>2. b = [kind |-> "wref", nrefs |-> 1, items |-> <<>>, text |-> 0, wref_first |-> None,
                   target |-> o, next |-> None, prev |-> None]
            BY <3>1 DEF Object
        <3>3. [b EXCEPT !.next = old] = c
            BY <1>2, <3>2
        <3>. QED  BY <3>1, <3>3
    <2>2. f = [h EXCEPT ![w] = c, ![o].wref_first = w]
        BY <1>4, <1>6
    <2>. QED  BY <1>1, <2>1, <2>2 DEF Chained
<1>10. /\ Relinked(f, k)
       /\ \A y \in Obj : /\ k[y].target = f[y].target /\ k[y].next = f[y].next
                         /\ k[y].wref_first = f[y].wref_first
                         /\ k[y].prev = IF y = old THEN w ELSE f[y].prev
    <2>1. f \in [Obj -> Cell \union {Free}] /\ \A y \in Obj : f[y] = Free <=> g[y] = Free
        BY <1>8 DEF FirstSet, Relinked
    <2>2. CASE old = None
        BY <1>7, <1>9, <2>1, <2>2 DEF Relinked
    <2>3. CASE old # None
        <3>1. old \in Obj /\ f[old] # Free /\ w \in Obj \union {None}
            BY <1>1, <1>5, <1>7, <2>1, <2>3
        <3>2. PrevSet(f, k, old, w)
            BY <1>9, <2>1, <2>3, <3>1, Links
        <3>. QED  BY <3>2 DEF PrevSet
    <2>. QED  BY <2>2, <2>3
<1>11. /\ \A y \in Obj : /\ k[y] = Free <=> g[y] = Free
                         /\ k[y].kind = g[y].kind /\ k[y].nrefs = g[y].nrefs
                         /\ k[y].items = g[y].items /\ k[y].text = g[y].text
                         /\ k[y].target = g[y].target /\ k[y].next = g[y].next
                         /\ k[y].wref_first = IF y = o THEN w ELSE g[y].wref_first
                         /\ k[y].prev = IF y = old THEN w ELSE g[y].prev
       /\ k \in [Obj -> Cell \union {Free}]
    BY <1>8, <1>10 DEF FirstSet, Relinked
<1>12. \A y \in Obj \ {w} :
              /\ k[y] = Free <=> h[y] = Free
              /\ k[y].kind = h[y].kind /\ k[y].nrefs = h[y].nrefs
              /\ k[y].items = h[y].items /\ k[y].text = h[y].text
              /\ k[y].target = h[y].target /\ k[y].next = h[y].next
              /\ k[y].wref_first = IF y = o THEN w ELSE h[y].wref_first
              /\ k[y].prev = IF y = old THEN w ELSE h[y].prev
    BY <1>5, <1>11
<1>13. /\ k[w] # Free /\ k[w].kind = "wref" /\ k[w].nrefs = 1 /\ k[w].items = <<>>
       /\ k[w].target = o /\ k[w].next = old /\ k[w].prev = None /\ k[w].wref_first = None
    BY <1>2, <1>3, <1>5, <1>7, <1>11
<1>. QED  BY <1>1, <1>11, <1>12, <1>13 DEF Put

LEMMA ChainedIs ==
    ASSUME NEW M \in Nat, NEW h, HeapOK(h, M), NEW w \in Obj, h[w] = Free,
           NEW o \in ContainersIn(h), NEW k, k = Chained(h, w, o)
    PROVE  /\ HeapOK(k, M) /\ Put(h, k, w, o)
           /\ \A y \in Obj : /\ Nrefs(k, y) = Nrefs(h, y) + Hits(w, y)
                             /\ InItems(k, M, y) = InItems(h, M, y)
<1>1. PICK K \in Nat : \E rk \in [Obj -> 0..K] : Linked(h, rk)
    BY DEF HeapOK, WellLinked
<1>2. PICK rk \in [Obj -> 0..K] : Linked(h, rk)
    BY <1>1
<1>3. h \in [Obj -> Cell \union {Free}] /\ o \in Obj /\ h[o] # Free
    BY DEF HeapOK, Fits, ContainersIn, AliveIn
<1>4. h[o].wref_first # None => h[h[o].wref_first] # Free
    BY <1>2 DEF Linked, FirstLinked, WrefsIn, AliveIn
<1>5. Put(h, k, w, o) /\ k \in [Obj -> Cell \union {Free}]
    BY <1>3, <1>4, PutIs
<1>6. WellLinked(k)
    BY <1>2, <1>5, PutLinks
<1>7. /\ k[w] # Free /\ k[w].nrefs = 1 /\ k[w].items = <<>>
      /\ \A y \in Obj \ {w} : /\ k[y] = Free <=> h[y] = Free
                              /\ k[y].nrefs = h[y].nrefs /\ k[y].items = h[y].items
    BY <1>5 DEF Put
<1>8. Fits(h, M) /\ Fits(k, M)
    <2>1. \A y \in Obj : k[y] # Free => Len(k[y].items) <= M
        <3>1. Len(<<>>) <= M
            OBVIOUS
        <3>2. \A y \in Obj : h[y] # Free => Len(h[y].items) <= M
            BY DEF HeapOK, Fits
        <3>. QED  BY <1>7, <3>1, <3>2
    <2>. QED  BY <1>5, <2>1 DEF HeapOK, Fits
<1>9. AliveIn(k) = AliveIn(h) \union {w} /\ w \notin AliveIn(h)
    BY <1>7 DEF AliveIn
<1>10. ASSUME NEW y \in Obj
       PROVE  Nrefs(k, y) = Nrefs(h, y) + Hits(w, y) /\ InItems(k, M, y) = InItems(h, M, y)
    <2>1. Nrefs(k, y) = Nrefs(h, y) + Hits(w, y)
        <3>1. CASE y = w
            BY <1>7, <3>1 DEF Nrefs, Hits
        <3>2. CASE y # w
            <4>1. Nrefs(k, y) = Nrefs(h, y) /\ Hits(w, y) = 0
                BY <1>7, <3>2 DEF Nrefs, Hits
            <4>2. Nrefs(h, y) \in Nat
                BY NrefsNat
            <4>. QED  BY <4>1, <4>2
        <3>. QED  BY <3>1, <3>2
    <2>2. SameItems(h, k, Obj \ {w})
        BY <1>7, <1>9 DEF SameItems
    <2>3. InItems(k, M, y) + InCell(h, w, y) = InItems(h, M, y) + InCell(k, w, y)
          /\ InItems(k, M, y) \in Nat /\ InItems(h, M, y) \in Nat
        BY <1>8, <2>2, ItemsAt
    <2>4. InCell(h, w, y) = 0 /\ InCell(k, w, y) = 0
        BY <1>7, <1>9, CountEmpty DEF InCell
    <2>. QED  BY <2>1, <2>3, <2>4
<1>. QED  BY <1>5, <1>6, <1>8, <1>10 DEF HeapOK

LEMMA WrefKeeps ==
    ASSUME HInv, NEW w \in Obj, Wref(w)
    PROVE  After
<1>1. MaxItems \in Nat /\ Settled(heap, stack, globals, MaxItems) /\ stack # <<>>
    BY IdleFacts DEF Wref
<1>2. HeapOK(heap, MaxItems) /\ stack \in Seq(Ref) /\ globals \in [Global -> Ref \union {None}] /\ w \in Ref
    BY <1>1 DEF Settled, Ref
<1>3. PICK c \in ContainersIn(heap) : c = Top /\ c \in Ref
    <2>1. Top \in AliveIn(heap) /\ Top \in Obj
        BY <1>1, TopContainer DEF Wref
    <2>. QED  BY <2>1 DEF Wref, Is, ContainersIn, Ref
<1>4. PICK k, q : k = Chained(heap, w, c) /\ q = Append(Drop(stack, 1), w)
    OBVIOUS
<1>5. heap' = k /\ stack' = q /\ due' = << Unref(c) >> /\ globals' = globals /\ heap[w] = Free
    BY <1>3, <1>4 DEF Wref, Instruct, Room
<1>6. /\ HeapOK(k, MaxItems)
      /\ \A y \in Obj : /\ Nrefs(k, y) = Nrefs(heap, y) + Hits(w, y)
                        /\ InItems(k, MaxItems, y) = InItems(heap, MaxItems, y)
    BY <1>1, <1>2, <1>4, <1>5, ChainedIs
<1>7. /\ q \in Seq(Ref)
      /\ \A o : /\ Count(q, o) = Count(Drop(stack, 1), o) + Hits(w, o)
                /\ Count(stack, o) = Count(Drop(stack, 1), o) + Hits(c, o)
                /\ Count(Drop(stack, 1), o) \in Nat
    BY <1>1, <1>2, <1>3, <1>4, TopIs
<1>8. << Unref(c) >> = Unrefs(<< c >>) /\ << c >> \in Seq(Ref) /\ \A o : Count(<< c >>, o) = Hits(c, o)
    BY <1>3, UnrefsAre, CountOne, CountTwo
<1>9. ASSUME NEW o \in Obj
      PROVE  Count(q, o) + InGlobals(globals, o) + InItems(k, MaxItems, o) + Count(<< c >>, o) = Nrefs(k, o)
    <2>1. Nrefs(k, o) = Nrefs(heap, o) + Hits(w, o) /\ InItems(k, MaxItems, o) = InItems(heap, MaxItems, o)
        BY <1>6
    <2>2. /\ Count(q, o) = Count(Drop(stack, 1), o) + Hits(w, o)
          /\ Count(stack, o) = Count(Drop(stack, 1), o) + Hits(c, o)
          /\ Count(<< c >>, o) = Hits(c, o) /\ Count(Drop(stack, 1), o) \in Nat
        BY <1>7, <1>8
    <2>3. /\ InGlobals(globals, o) \in Nat /\ InItems(heap, MaxItems, o) \in Nat
          /\ Nrefs(heap, o) = Count(stack, o) + InGlobals(globals, o) + InItems(heap, MaxItems, o)
          /\ Hits(w, o) \in Nat /\ Hits(c, o) \in Nat
        BY <1>1, CountsNat, HitsNat
    <2>. QED  BY <2>1, <2>2, <2>3
<1>10. Sound(k, q, globals, Unrefs(<< c >>), MaxItems)
    BY <1>1, <1>2, <1>6, <1>7, <1>8, <1>9, Finish
<1>. QED  BY <1>5, <1>8, <1>10 DEF After

-----------------------------------------------------------------------------
(* The steps of the cascade.                                                *)

(* The first task and the others.                                           *)
Cut(d, t, e) ==
    /\ t \in Task /\ e \in Seq(Task) /\ Len(d) = Len(e) + 1 /\ d[1] = t /\ 1 \in 1..Len(d)
    /\ \A i \in 1..Len(e) : i + 1 \in 1..Len(d) /\ d[i + 1] = e[i]
    /\ \A i \in 1..Len(d) : i = 1 \/ i - 1 \in 1..Len(e)
    /\ \A o : Due(d, o) = Hits(Owes(t), o) + Due(e, o)

LEMMA CutIs ==
    ASSUME NEW d \in Seq(Task), d # <<>>
    PROVE  Cut(d, Head(d), Tail(d))
<1>1. PICK t \in Task, e \in Seq(Task) : t = Head(d) /\ e = Tail(d) /\ d = << t >> \o e
    BY CountHead
<1>2. PICK n \in Nat : n = Len(e)
    OBVIOUS
<1>3. << t >> \in Seq(Task) /\ Len(<< t >>) = 1 /\ << t >>[1] = t
    BY <1>1
<1>4. /\ Len(d) = 1 + n
      /\ \A i \in 1..(1 + n) : d[i] = IF i <= 1 THEN << t >>[i] ELSE e[i - 1]
    BY <1>1, <1>2, <1>3, ConcatProperties
<1>5. \A i \in 1..n : i + 1 \in 1..(1 + n) /\ ~ (i + 1 <= 1) /\ i + 1 - 1 = i
    OBVIOUS
<1>6. \A i \in 1..(1 + n) : i = 1 \/ i - 1 \in 1..n
    OBVIOUS
<1>7. \A o : Due(d, o) = Hits(Owes(t), o) + Due(e, o)
    <2>1. \A o : Due(<< t >> \o e, o) = Due(<< t >>, o) + Due(e, o)
        BY <1>3, OwedConcat
    <2>2. \A o : Due(<< t >>, o) = Hits(Owes(t), o)
        BY OwedOne
    <2>. QED  BY <1>1, <2>1, <2>2
<1>8. 1 + n = n + 1 /\ 1 \in 1..(1 + n) /\ 1 <= 1
    OBVIOUS
<1>9. d[1] = t /\ \A i \in 1..n : d[i + 1] = e[i]
    BY <1>3, <1>4, <1>5, <1>8
<1>. QED  BY <1>1, <1>2, <1>4, <1>5, <1>6, <1>7, <1>8, <1>9 DEF Cut

LEMMA PlaceTypes ==
    ASSUME NEW p \in Place
    PROVE  \/ p.in = None /\ p.at \in Global
           \/ p.in \in Obj /\ p.in # None /\ p.at \in Nat
<1>1. p \in [in : {None}, at : Global] \/ p \in [in : Obj, at : Nat]
    BY DEF Place
<1>2. CASE p \in [in : {None}, at : Global]
    BY <1>2
<1>3. CASE p \in [in : Obj, at : Nat]
    BY <1>3, HeapAssumption
<1>. QED  BY <1>1, <1>2, <1>3

LEMMA InCellHeld ==
    ASSUME NEW M \in Nat, NEW h, Fits(h, M), NEW c \in AliveIn(h), NEW i \in 1..Len(h[c].items), NEW o
    PROVE  Hits(h[c].items[i], o) <= InItems(h, M, o)
<1>1. c \in Obj /\ h[c] # Free /\ h[c].items \in Seq(Ref)
    BY CellFacts DEF AliveIn
<1>2. PICK a \in Nat : a = Cardinality(Elsewhere(h, M, c, o))
    BY <1>1, ItemsSplit
<1>3. InCell(h, c, o) = Count(h[c].items, o) /\ InCell(h, c, o) \in Nat
      /\ InItems(h, M, o) = a + InCell(h, c, o)
    BY <1>1, <1>2, ItemsSplit DEF InCell
<1>4. CASE h[c].items[i] = o
    <2>1. InCell(h, c, o) # 0 /\ Hits(h[c].items[i], o) = 1
        BY <1>1, <1>3, <1>4, CountSome DEF Hits
    <2>. QED  BY <1>3, <2>1
<1>5. CASE h[c].items[i] # o
    <2>1. Hits(h[c].items[i], o) = 0
        BY <1>5 DEF Hits
    <2>. QED  BY <1>3, <2>1
<1>. QED  BY <1>4, <1>5

LEMMA LostBound ==
    ASSUME NEW M \in Nat, NEW h, HeapOK(h, M), NEW gl \in [Global -> Ref \union {None}],
           NEW d \in Seq(Task), Tasks(h, d), NEW o
    PROVE  Lost(h, gl, d, o) \in Nat /\ Lost(h, gl, d, o) <= InGlobals(gl, o) + InItems(h, M, o)
<1>1. InGlobals(gl, o) \in Nat /\ InItems(h, M, o) \in Nat
    BY GlobalsFinite, SlotsFinite
<1>2. CASE \A i \in 1..Len(d) : d[i].do # "write"
    <2>1. Lost(h, gl, d, o) = 0
        BY <1>2, LostNone
    <2>. QED  BY <1>1, <2>1
<1>3. CASE \E i \in 1..Len(d) : d[i].do = "write"
    <2>1. PICK i \in 1..Len(d) : d[i].do = "write"
        BY <1>3
    <2>2. OnlyWrite(d, i) /\ WriteSound(h, d, i)
        BY <2>1 DEF OnlyWrite, Tasks
    <2>3. PICK p \in Place : p = d[i].place
        <3>1. d[i] \in Task
            OBVIOUS
        <3>. QED  BY <2>1, <3>1, TaskTypes
    <2>4. PICK z \in Nat : z = Hits(At(h, gl, p), o)
        BY HitsNat
    <2>5. Lost(h, gl, d, o) = z
        BY <2>2, <2>3, <2>4, LostOne
    <2>6. z <= InGlobals(gl, o) \/ z <= InItems(h, M, o)
        <3>1. CASE p.in = None
            <4>1. p.at \in Global /\ z = Hits(gl[p.at], o)
                BY <2>4, <3>1, PlaceTypes, HeapAssumption DEF At
            <4>. QED  BY <4>1, GlobalHeld
        <3>2. CASE p.in # None
            <4>1. p.in \in AliveIn(h) /\ p.at \in 1..Len(h[p.in].items) /\ z = Hits(h[p.in].items[p.at], o)
                BY <2>2, <2>3, <2>4, <3>2 DEF WriteSound, At
            <4>. QED  BY <4>1, InCellHeld DEF HeapOK
        <3>. QED  BY <3>1, <3>2
    <2>. QED  BY <1>1, <2>5, <2>6
<1>. QED  BY <1>2, <1>3

(* Whatever is on the stack or owed has that many references at least.       *)
LEMMA Referred ==
    ASSUME NEW M \in Nat, NEW h, NEW st, NEW gl, NEW d, Sound(h, st, gl, d, M), NEW o \in Obj
    PROVE  /\ Count(st, o) \in Nat /\ InGlobals(gl, o) \in Nat /\ InItems(h, M, o) \in Nat
           /\ Due(d, o) \in Nat /\ Nrefs(h, o) \in Nat /\ Lost(h, gl, d, o) \in Nat
           /\ Count(st, o) + InGlobals(gl, o) + InItems(h, M, o) + Due(d, o)
                  = Nrefs(h, o) + Lost(h, gl, d, o)
           /\ Count(st, o) + Due(d, o) <= Nrefs(h, o)
<1>1. HeapOK(h, M) /\ st \in Seq(Ref) /\ gl \in [Global -> Ref \union {None}] /\ d \in Seq(Task)
      /\ Balanced(h, st, gl, d, M) /\ Tasks(h, d)
    BY DEF Sound
<1>2. PICK a \in Nat, b \in Nat, c \in Nat :
          a = Count(st, o) /\ b = InGlobals(gl, o) /\ c = InItems(h, M, o)
    BY <1>1, CountFacts, GlobalsFinite, SlotsFinite
<1>3. PICK e \in Nat, n \in Nat, l \in Nat :
          e = Due(d, o) /\ n = Nrefs(h, o) /\ l = Lost(h, gl, d, o) /\ l <= b + c
    BY <1>1, <1>2, OwedType, NrefsNat, LostBound
<1>4. a + b + c + e = n + l
    BY <1>1, <1>2, <1>3 DEF Balanced
<1>5. a + e <= n
    BY <1>3, <1>4
<1>. QED  BY <1>2, <1>3, <1>4, <1>5

(* The heap after the first task t, as far as the others, e, look at it.     *)
Serves(h, k, t, e) ==
    \A i \in 1..Len(e) :
        /\ e[i].do = "write" /\ e[i].place.in \in AliveIn(h)
           /\ (\E j \in (i + 1)..Len(e) : e[j] = Unref(e[i].place.in))
               => e[i].place.in \in AliveIn(k) /\ k[e[i].place.in].items = h[e[i].place.in].items
        /\ e[i].do = "free" /\ e[i] # t /\ h[e[i].ref] # Free /\ h[e[i].ref].nrefs = 0
               => k[e[i].ref] # Free /\ k[e[i].ref].nrefs = 0

LEMMA OthersSound ==
    ASSUME NEW h, NEW k, NEW d, NEW t, NEW e, Cut(d, t, e), Tasks(h, d), Serves(h, k, t, e)
    PROVE  Tasks(k, e)
<1>1. PICK n \in Nat : n = Len(e)
    BY DEF Cut
<1>2. /\ Len(d) = n + 1 /\ d[1] = t /\ 1 \in 1..Len(d)
      /\ \A i \in 1..n : i + 1 \in 1..Len(d) /\ d[i + 1] = e[i]
    BY <1>1 DEF Cut
<1>3. \A i, j \in 1..n : i + 1 = j + 1 => i = j
    OBVIOUS
<1>4. ASSUME NEW i \in 1..n, e[i].do = "write"
      PROVE  WriteSound(k, e, i) /\ \A j \in 1..n : e[j].do = "write" => j = i
    <2>1. WriteSound(h, d, i + 1) /\ \A j \in 1..Len(d) : d[j].do = "write" => j = i + 1
        BY <1>2, <1>4 DEF Tasks
    <2>2. \A j \in 1..n : e[j].do = "write" => j = i
        BY <1>2, <1>3, <2>1
    <2>3. WriteSound(k, e, i)
        <3>1. PICK c, a : c = e[i].place.in /\ a = e[i].place.at
            OBVIOUS
        <3>2. CASE c = None
            BY <3>1, <3>2 DEF WriteSound
        <3>3. CASE c # None
            <4>1. /\ c \in AliveIn(h) /\ a \in 1..Len(h[c].items)
                  /\ \E j \in (i + 1 + 1)..Len(d) : d[j] = Unref(c)
                BY <1>2, <2>1, <3>1, <3>3 DEF WriteSound
            <4>2. PICK j \in (i + 1 + 1)..(n + 1) : d[j] = Unref(c)
                BY <1>2, <4>1
            <4>3. j - 1 \in (i + 1)..n /\ j - 1 \in 1..n /\ j - 1 + 1 = j
                BY <4>2
            <4>4. e[j - 1] = Unref(c)
                BY <1>2, <4>2, <4>3
            <4>5. \E m \in (i + 1)..n : e[m] = Unref(c)
                BY <4>3, <4>4
            <4>6. c \in AliveIn(k) /\ k[c].items = h[c].items
                BY <1>1, <1>4, <3>1, <4>1, <4>5 DEF Serves
            <4>. QED  BY <1>1, <3>1, <4>1, <4>5, <4>6 DEF WriteSound
        <3>. QED  BY <3>2, <3>3
    <2>. QED  BY <2>2, <2>3
<1>5. ASSUME NEW i \in 1..n, e[i].do = "free"
      PROVE  FreeSound(k, e, i)
    <2>1. FreeSound(h, d, i + 1)
        BY <1>2, <1>5 DEF Tasks
    <2>2. h[e[i].ref] # Free /\ h[e[i].ref].nrefs = 0 /\ \A j \in 1..Len(d) : d[j] = e[i] => j = i + 1
        BY <1>2, <2>1 DEF FreeSound
    <2>3. e[i] # t
        <3>1. 1 # i + 1
            OBVIOUS
        <3>. QED  BY <1>2, <2>2, <3>1
    <2>4. k[e[i].ref] # Free /\ k[e[i].ref].nrefs = 0
        BY <1>1, <1>5, <2>2, <2>3 DEF Serves
    <2>5. \A j \in 1..n : e[j] = e[i] => j = i
        BY <1>2, <1>3, <2>2
    <2>. QED  BY <1>1, <2>4, <2>5 DEF FreeSound
<1>. QED  BY <1>1, <1>4, <1>5 DEF Tasks

(* What the others are about to overwrite is what was about to be.           *)
LEMMA OthersLose ==
    ASSUME NEW h, NEW k, NEW gl, NEW d, NEW t, NEW e, Cut(d, t, e), t.do # "write",
           Tasks(h, d), Serves(h, k, t, e)
    PROVE  \A o : Lost(k, gl, e, o) = Lost(h, gl, d, o)
<1>1. PICK n \in Nat : n = Len(e)
    BY DEF Cut
<1>2. /\ Len(d) = n + 1 /\ d[1] = t /\ 1 \in 1..Len(d)
      /\ \A i \in 1..n : i + 1 \in 1..Len(d) /\ d[i + 1] = e[i]
      /\ \A i \in 1..Len(d) : i = 1 \/ i - 1 \in 1..n
    BY <1>1 DEF Cut
<1>3. CASE \A i \in 1..n : e[i].do # "write"
    <2>1. \A i \in 1..Len(d) : i - 1 \in 1..n => d[i] = e[i - 1]
        <3>1. \A i \in 1..Len(d) : i - 1 + 1 = i
            BY <1>2
        <3>. QED  BY <1>2, <3>1
    <2>2. \A i \in 1..Len(d) : d[i].do # "write"
        BY <1>2, <1>3, <2>1
    <2>. QED  BY <1>1, <1>3, <2>2, LostNone
<1>4. CASE \E i \in 1..n : e[i].do = "write"
    <2>1. PICK i \in 1..n : e[i].do = "write"
        BY <1>4
    <2>2. OnlyWrite(d, i + 1) /\ WriteSound(h, d, i + 1) /\ i + 1 \in 1..Len(d) /\ d[i + 1] = e[i]
        BY <1>2, <2>1 DEF OnlyWrite, Tasks
    <2>3. Tasks(k, e)
        BY OthersSound
    <2>4. OnlyWrite(e, i) /\ i \in 1..Len(e)
        BY <1>1, <2>1, <2>3 DEF OnlyWrite, Tasks
    <2>5. PICK p : p = e[i].place
        OBVIOUS
    <2>6. /\ \A o : Lost(h, gl, d, o) = Hits(At(h, gl, p), o)
          /\ \A o : Lost(k, gl, e, o) = Hits(At(k, gl, p), o)
        BY <2>2, <2>4, <2>5, LostOne
    <2>7. At(k, gl, p) = At(h, gl, p)
        <3>1. CASE p.in = None
            BY <3>1 DEF At
        <3>2. CASE p.in # None
            <4>1. p.in \in AliveIn(h) /\ \E j \in (i + 1 + 1)..(n + 1) : d[j] = Unref(p.in)
                BY <1>2, <2>2, <2>5, <3>2 DEF WriteSound
            <4>2. PICK j \in (i + 1 + 1)..(n + 1) : d[j] = Unref(p.in)
                BY <4>1
            <4>3. j - 1 \in (i + 1)..n /\ j - 1 \in 1..n /\ j - 1 + 1 = j
                BY <4>2
            <4>4. e[j - 1] = Unref(p.in)
                BY <1>2, <4>2, <4>3
            <4>5. k[p.in].items = h[p.in].items
                BY <1>1, <2>1, <2>5, <4>1, <4>3, <4>4 DEF Serves
            <4>. QED  BY <3>2, <4>5 DEF At
        <3>. QED  BY <3>1, <3>2
    <2>. QED  BY <2>6, <2>7
<1>. QED  BY <1>3, <1>4

Prefixed(k, gl, q, e, d) ==
    /\ d \in Seq(Task) /\ Tasks(k, d)
    /\ \A o \in Obj : Due(d, o) = Count(q, o) + Due(e, o)
    /\ \A o : Lost(k, gl, d, o) = Lost(k, gl, e, o)

(* A dying object's items are dropped, then its block is freed, first.       *)
LEMMA Prepended ==
    ASSUME NEW k, NEW gl, NEW e \in Seq(Task), Tasks(k, e), NEW q \in Seq(Ref), NEW r \in Obj,
           k[r] # Free, k[r].nrefs = 0, \A i \in 1..Len(e) : e[i] # Release(r),
           NEW d, LaidOut(d, Unrefs(q), Release(r), e, Len(q), Len(e))
    PROVE  Prefixed(k, gl, q, e, d)
<1>1. PICK m \in Nat, n \in Nat : m = Len(q) /\ n = Len(e)
    OBVIOUS
<1>2. PICK a \in Seq(Task) : /\ a = Unrefs(q) /\ Len(a) = m /\ \A i \in 1..m : a[i] = Unref(q[i])
                             /\ \A o : Due(a, o) = Count(q, o)
    BY <1>1, OwedUnrefs
<1>3. PICK w \in Task : w = Release(r) /\ Owes(w) = None /\ w.do = "free" /\ w.ref = r
    BY TaskTypes DEF Release
<1>5. LaidOut(d, a, w, e, m, n)
    BY <1>1, <1>2, <1>3
<1>6. /\ d \in Seq(Task) /\ Len(d) = m + 1 + n /\ d[m + 1] = w
      /\ \A i \in 1..m : d[i].do = "unref"
      /\ \A i \in 1..n : d[i + (m + 1)] = e[i]
      /\ \A o : Due(d, o) = Count(q, o) + Hits(None, o) + Due(e, o)
    <2>1. /\ d \in Seq(Task) /\ Len(d) = m + 1 + n /\ d[m + 1] = w
          /\ \A i \in 1..m : d[i] = a[i]
          /\ \A i \in 1..n : d[i + (m + 1)] = e[i]
          /\ \A o : Due(d, o) = Due(a, o) + Hits(Owes(w), o) + Due(e, o)
        BY <1>5 DEF LaidOut
    <2>2. \A i \in 1..m : d[i].do = "unref"
        BY <1>2, <2>1 DEF Unref
    <2>. QED  BY <1>2, <1>3, <2>1, <2>2
<1>7. /\ m + 1 \in 1..Len(d) /\ w.do # "unref" /\ \A i \in 1..n : i + (m + 1) \in 1..Len(d)
      /\ \A i, j \in 1..n : i + (m + 1) = j + (m + 1) => i = j
    <2>1. /\ m + 1 \in 1..(m + 1 + n) /\ \A i \in 1..n : i + (m + 1) \in 1..(m + 1 + n)
          /\ \A i, j \in 1..n : i + (m + 1) = j + (m + 1) => i = j
        OBVIOUS
    <2>. QED  BY <1>3, <1>6, <2>1
<1>8. \A j \in 1..Len(d) : \/ d[j].do = "unref" /\ j # m + 1
                           \/ j = m + 1
                           \/ j - (m + 1) \in 1..n /\ j = j - (m + 1) + (m + 1)
    <2>. TAKE j \in 1..Len(d)
    <2>1. j \in 1..(m + 1 + n)
        BY <1>6
    <2>2. j \in 1..m \/ j = m + 1 \/ (j - (m + 1) \in 1..n /\ j = j - (m + 1) + (m + 1))
        BY <2>1
    <2>. QED  BY <1>6, <2>2
<1>9. ASSUME NEW i \in 1..n, e[i].do = "write"
      PROVE  WriteSound(k, d, i + (m + 1)) /\ OnlyWrite(e, i) /\ OnlyWrite(d, i + (m + 1))
    <2>1. WriteSound(k, e, i) /\ OnlyWrite(e, i)
        BY <1>1, <1>9 DEF Tasks, OnlyWrite
    <2>2. OnlyWrite(d, i + (m + 1))
        <3>1. d[i + (m + 1)].do = "write"
            BY <1>6, <1>9
        <3>2. ASSUME NEW j \in 1..Len(d), d[j].do = "write" PROVE j = i + (m + 1)
            <4>1. d[j].do # "unref" /\ j # m + 1
                BY <1>3, <1>6, <3>2
            <4>2. PICK l \in 1..n : l = j - (m + 1) /\ j = l + (m + 1)
                BY <1>8, <4>1
            <4>3. e[l].do = "write"
                BY <1>6, <3>2, <4>2
            <4>. QED  BY <1>1, <2>1, <4>2, <4>3 DEF OnlyWrite
        <3>. QED  BY <3>1, <3>2 DEF OnlyWrite
    <2>3. WriteSound(k, d, i + (m + 1))
        <3>1. PICK c, x : c = e[i].place.in /\ x = e[i].place.at
            OBVIOUS
        <3>2. CASE c = None
            BY <1>6, <3>1, <3>2 DEF WriteSound
        <3>3. CASE c # None
            <4>1. /\ c \in AliveIn(k) /\ x \in 1..Len(k[c].items)
                  /\ \E j \in (i + 1)..n : e[j] = Unref(c)
                BY <1>1, <2>1, <3>1, <3>3 DEF WriteSound
            <4>2. PICK j \in (i + 1)..n : e[j] = Unref(c)
                BY <4>1
            <4>3. j \in 1..n /\ j + (m + 1) \in (i + (m + 1) + 1)..(m + 1 + n)
                BY <4>2
            <4>4. d[j + (m + 1)] = Unref(c)
                BY <1>6, <4>2, <4>3
            <4>5. \E l \in (i + (m + 1) + 1)..Len(d) : d[l] = Unref(c)
                BY <1>6, <4>3, <4>4
            <4>. QED  BY <1>6, <3>1, <4>1, <4>5 DEF WriteSound
        <3>. QED  BY <3>2, <3>3
    <2>. QED  BY <2>1, <2>2, <2>3
<1>10. ASSUME NEW i \in 1..n, e[i].do = "free"
       PROVE  FreeSound(k, d, i + (m + 1))
    <2>1. k[e[i].ref] # Free /\ k[e[i].ref].nrefs = 0 /\ \A j \in 1..n : e[j] = e[i] => j = i
        BY <1>1, <1>10 DEF Tasks, FreeSound
    <2>2. ASSUME NEW j \in 1..Len(d), d[j] = e[i] PROVE j = i + (m + 1)
        <3>1. d[j].do # "unref" /\ j # m + 1
            BY <1>1, <1>3, <1>6, <1>10, <2>2
        <3>2. PICK l \in 1..n : l = j - (m + 1) /\ j = l + (m + 1)
            BY <1>8, <3>1
        <3>. QED  BY <1>6, <2>1, <2>2, <3>2
    <2>. QED  BY <1>6, <2>1, <2>2 DEF FreeSound
<1>11. FreeSound(k, d, m + 1)
    <2>1. ASSUME NEW j \in 1..Len(d), d[j] = w PROVE j = m + 1
        <3>1. CASE j # m + 1
            <4>1. d[j].do # "unref"
                BY <1>7, <2>1
            <4>2. PICK l \in 1..n : l = j - (m + 1) /\ j = l + (m + 1)
                BY <1>8, <3>1, <4>1
            <4>3. d[j] = e[l]
                BY <1>6, <4>2
            <4>. QED  BY <1>1, <1>3, <2>1, <4>2, <4>3
        <3>. QED  BY <3>1
    <2>. QED  BY <1>3, <1>6, <2>1 DEF FreeSound
<1>12. Tasks(k, d)
    <2>. SUFFICES ASSUME NEW i \in 1..Len(d)
         PROVE  /\ d[i].do = "write" => /\ WriteSound(k, d, i)
                                        /\ \A j \in 1..Len(d) : d[j].do = "write" => j = i
                /\ d[i].do = "free" => FreeSound(k, d, i)
        BY DEF Tasks
    <2>1. CASE d[i].do = "unref"
        BY <2>1
    <2>2. CASE i = m + 1
        BY <1>3, <1>6, <1>11, <2>2
    <2>3. CASE i - (m + 1) \in 1..n /\ i = i - (m + 1) + (m + 1)
        <3>1. PICK l \in 1..n : i = l + (m + 1)
            BY <2>3
        <3>2. d[i] = e[l]
            BY <1>6, <3>1
        <3>3. d[i].do = "write" => WriteSound(k, d, i) /\ OnlyWrite(d, i)
            BY <1>9, <3>1, <3>2
        <3>4. d[i].do = "free" => FreeSound(k, d, i)
            BY <1>10, <3>1, <3>2
        <3>. QED  BY <3>3, <3>4 DEF OnlyWrite
    <2>. QED  BY <1>8, <2>1, <2>2, <2>3
<1>13. \A o : Lost(k, gl, d, o) = Lost(k, gl, e, o)
    <2>1. CASE \A i \in 1..n : e[i].do # "write"
        <3>1. \A j \in 1..Len(d) : d[j].do # "write"
            <4>. SUFFICES ASSUME NEW j \in 1..Len(d) PROVE d[j].do # "write"
                OBVIOUS
            <4>1. CASE j - (m + 1) \in 1..n /\ j = j - (m + 1) + (m + 1)
                <5>1. PICK l \in 1..n : j = l + (m + 1)
                    BY <4>1
                <5>. QED  BY <1>6, <2>1, <5>1
            <4>. QED  BY <1>3, <1>6, <1>8, <4>1
        <3>2. \A o : Lost(k, gl, d, o) = 0
            BY <3>1, LostNone
        <3>3. \A o : Lost(k, gl, e, o) = 0
            BY <1>1, <2>1, LostNone
        <3>. QED  BY <3>2, <3>3
    <2>2. CASE \E i \in 1..n : e[i].do = "write"
        <3>1. PICK i \in 1..n : e[i].do = "write"
            BY <2>2
        <3>2. OnlyWrite(e, i) /\ OnlyWrite(d, i + (m + 1)) /\ i \in 1..Len(e) /\ i + (m + 1) \in 1..Len(d)
              /\ d[i + (m + 1)] = e[i]
            BY <1>1, <1>6, <1>7, <1>9, <3>1
        <3>3. \A o : Lost(k, gl, e, o) = Hits(At(k, gl, e[i].place), o)
            BY <3>2, LostOne
        <3>4. PICK l \in 1..Len(d) : l = i + (m + 1)
            BY <3>2
        <3>5. OnlyWrite(d, l) /\ d[l].place = e[i].place
            BY <3>2, <3>4
        <3>6. \A o : Lost(k, gl, d, o) = Hits(At(k, gl, d[l].place), o)
            BY <3>5, LostOne
        <3>. QED  BY <3>3, <3>5, <3>6
    <2>. QED  BY <2>1, <2>2
<1>14. \A o \in Obj : Due(d, o) = Count(q, o) + Due(e, o)
    <2>. SUFFICES ASSUME NEW o \in Obj PROVE Due(d, o) = Count(q, o) + Due(e, o)
        OBVIOUS
    <2>1. Count(q, o) \in Nat /\ Due(e, o) \in Nat /\ Hits(None, o) = 0
        BY CountFacts, OwedType, NilCounts
    <2>2. Due(d, o) = Count(q, o) + Hits(None, o) + Due(e, o)
        BY <1>6
    <2>. QED  BY <2>1, <2>2
<1>. QED  BY <1>6, <1>12, <1>13, <1>14 DEF Prefixed

Uncounted(h, r, k, M) ==
    /\ HeapOK(k, M) /\ Alike(h, k)
    /\ \A o \in Obj : Nrefs(h, o) = Nrefs(k, o) + Hits(r, o)

LEMMA UncountedIs ==
    ASSUME NEW M \in Nat, NEW h, HeapOK(h, M), NEW r \in Ref,
           r \in Obj => r \in AliveIn(h) /\ h[r].nrefs + -1 > 0
    PROVE  Uncounted(h, r, Counted(h, r, -1), M)
<1>1. PICK n \in Int : n = -1
    OBVIOUS
<1>2. PICK k : k = Counted(h, r, n)
    OBVIOUS
<1>3. r \in Obj => r \in AliveIn(h) /\ h[r].nrefs + n > 0
    BY <1>1, Zenon
<1>4. /\ HeapOK(k, M) /\ Alike(h, k)
      /\ \A o \in Obj : Nrefs(k, o) = Nrefs(h, o) + n * Hits(r, o)
    BY <1>2, <1>3, CountedIs
<1>5. ASSUME NEW o \in Obj PROVE Nrefs(h, o) = Nrefs(k, o) + Hits(r, o)
    <2>1. Nrefs(h, o) \in Nat /\ Hits(r, o) \in Nat
        BY NrefsNat, HitsNat
    <2>2. PICK x \in Nat, y \in Nat : x = Nrefs(h, o) /\ y = Hits(r, o)
        BY <2>1
    <2>3. Nrefs(k, o) = x + n * y
        BY <1>4, <2>2
    <2>. QED  BY <1>1, <2>2, <2>3
<1>6. Uncounted(h, r, k, M)
    BY <1>4, <1>5 DEF Uncounted
<1>. QED  BY <1>1, <1>2, <1>6, Zenon

(* value_unref of an object that is still referred to.                      *)
LEMMA DropKeeps ==
    ASSUME NEW M \in Nat, NEW h, NEW st, NEW gl, NEW d, NEW r \in Ref, NEW e, Sound(h, st, gl, d, M),
           Cut(d, Unref(r), e), r \in Obj => r \in AliveIn(h) /\ h[r].nrefs + -1 > 0
    PROVE  Sound(Counted(h, r, -1), st, gl, e, M)
<1>1. HeapOK(h, M) /\ st \in Seq(Ref) /\ gl \in [Global -> Ref \union {None}] /\ Tasks(h, d)
    BY DEF Sound
<1>2. PICK k : k = Counted(h, r, -1)
    OBVIOUS
<1>3. /\ HeapOK(k, M) /\ Alike(h, k)
      /\ \A o \in Obj : Nrefs(h, o) = Nrefs(k, o) + Hits(r, o)
    <2>1. Uncounted(h, r, Counted(h, r, -1), M)
        BY <1>1, UncountedIs
    <2>2. Uncounted(h, r, k, M)
        BY <1>2, <2>1, Zenon
    <2>. QED  BY <2>2 DEF Uncounted
<1>4. AliveIn(k) = AliveIn(h) /\ \A c \in AliveIn(h) : k[c].items = h[c].items
    BY <1>3 DEF Alike, SameShape
<1>5. \A y \in Obj : y # r => k[y] = h[y]
    BY <1>1, <1>2, HeapAssumption DEF Counted, HeapOK, Fits
<1>6. \A o : InItems(k, M, o) = InItems(h, M, o)
    BY <1>3, AlikeKeeps
<1>7. Unref(r).do = "unref" /\ Owes(Unref(r)) = r
    BY TaskTypes
<1>8. Serves(h, k, Unref(r), e)
    <2>. SUFFICES ASSUME NEW i \in 1..Len(e)
         PROVE  /\ e[i].place.in \in AliveIn(h)
                    => e[i].place.in \in AliveIn(k) /\ k[e[i].place.in].items = h[e[i].place.in].items
                /\ e[i].do = "free" /\ h[e[i].ref] # Free /\ h[e[i].ref].nrefs = 0
                    => k[e[i].ref] # Free /\ k[e[i].ref].nrefs = 0
        BY DEF Serves
    <2>1. ASSUME e[i].do = "free", h[e[i].ref] # Free, h[e[i].ref].nrefs = 0
          PROVE  k[e[i].ref] # Free /\ k[e[i].ref].nrefs = 0
        <3>1. e[i].ref \in Obj
            <4>1. e[i] \in Task
                BY DEF Cut
            <4>. QED  BY <2>1, <4>1, TaskTypes
        <3>2. e[i].ref # r
            BY <2>1, <3>1 DEF AliveIn
        <3>. QED  BY <1>5, <2>1, <3>1, <3>2
    <2>. QED  BY <1>4, <2>1
<1>9. Tasks(k, e)
    BY <1>1, <1>8, OthersSound
<1>10. \A o : Lost(k, gl, e, o) = Lost(h, gl, d, o)
    <2>1. Unref(r).do # "write"
        BY <1>7
    <2>. QED  BY <1>1, <1>8, <2>1, OthersLose
<1>11. e \in Seq(Task) /\ \A o : Due(d, o) = Hits(r, o) + Due(e, o)
    BY <1>7 DEF Cut
<1>12. ASSUME NEW o \in Obj
       PROVE  Count(st, o) + InGlobals(gl, o) + InItems(k, M, o) + Due(e, o) = Nrefs(k, o) + Lost(k, gl, e, o)
    <2>1. /\ Count(st, o) \in Nat /\ InGlobals(gl, o) \in Nat /\ InItems(h, M, o) \in Nat
          /\ Nrefs(h, o) \in Nat /\ Lost(h, gl, d, o) \in Nat
          /\ Count(st, o) + InGlobals(gl, o) + InItems(h, M, o) + Due(d, o)
                  = Nrefs(h, o) + Lost(h, gl, d, o)
        BY Referred
    <2>2. Due(d, o) = Hits(r, o) + Due(e, o) /\ Due(e, o) \in Nat /\ Hits(r, o) \in Nat
        BY <1>11, OwedType, HitsNat
    <2>3. /\ Nrefs(h, o) = Nrefs(k, o) + Hits(r, o) /\ Nrefs(k, o) \in Nat /\ InItems(k, M, o) = InItems(h, M, o)
          /\ Lost(k, gl, e, o) = Lost(h, gl, d, o)
        BY <1>3, <1>6, <1>10, NrefsNat
    <2>. QED  BY <2>1, <2>2, <2>3
<1>13. Balanced(k, st, gl, e, M)
    BY <1>12 DEF Balanced
<1>. QED  BY <1>1, <1>2, <1>3, <1>9, <1>11, <1>13 DEF Sound

(* value_unref of an object's last reference.                               *)
LEMMA DieKeeps ==
    ASSUME NEW M \in Nat, NEW h, NEW st, NEW gl, NEW d, NEW r \in AliveIn(h), NEW e, Sound(h, st, gl, d, M),
           Cut(d, Unref(r), e), h[r].nrefs = 1, NEW k, Died(h, r, k),
           NEW g, LaidOut(g, Unrefs(h[r].items), Release(r), e, Len(h[r].items), Len(e))
    PROVE  Sound(k, st, gl, g, M)
<1>1. HeapOK(h, M) /\ st \in Seq(Ref) /\ gl \in [Global -> Ref \union {None}] /\ Tasks(h, d)
    BY DEF Sound
<1>2. PICK q \in Seq(Ref) : q = h[r].items
    BY <1>1, CellFacts DEF HeapOK, AliveIn
<1>3. r \in Obj /\ Nrefs(h, r) = 1
    BY <1>1, NrefsNat DEF AliveIn
<1>4. e \in Seq(Task) /\ \A o : Due(d, o) = Hits(r, o) + Due(e, o)
    BY TaskTypes, <1>3 DEF Cut, Ref
<1>5. Due(e, r) = 0
    <2>1. PICK n \in Nat : n = Due(e, r)
        BY <1>4, OwedType
    <2>5. Count(st, r) \in Nat /\ Count(st, r) + Due(d, r) <= Nrefs(h, r)
        BY <1>3, Referred
    <2>2. PICK c \in Nat : c = Count(st, r) /\ c + Due(d, r) <= 1
        BY <1>3, <2>5
    <2>3. Due(d, r) = 1 + n
        BY <1>4, <2>1 DEF Hits
    <2>4. n = 0
        BY <2>2, <2>3
    <2>. QED  BY <2>1, <2>4
<1>6. \A i \in 1..Len(e) : e[i] # Unref(r)
    <2>1. Owed(e) \in Seq(Ref \union {None}) /\ Len(Owed(e)) = Len(e) /\ \A i \in 1..Len(e) : Owed(e)[i] = Owes(e[i])
        BY <1>4, OwedType
    <2>2. Count(Owed(e), r) = 0
        BY <1>5 DEF Due
    <2>3. \A i \in 1..Len(e) : Owes(e[i]) # r
        <3>1. PICK w \in Seq(Ref \union {None}) : w = Owed(e)
            BY <2>1
        <3>2. \A i \in 1..Len(w) : w[i] # r
            BY <2>2, <3>1, CountFacts
        <3>. QED  BY <2>1, <3>1, <3>2
    <2>4. Owes(Unref(r)) = r
        BY <1>3, TaskTypes DEF Ref
    <2>. QED  BY <2>3, <2>4
<1>7. Remains(h, r, k)
    BY DEF Died
<1>8. AliveIn(k) = AliveIn(h) \ {r} /\ k[r] # Free /\ k[r].nrefs = 0
    BY <1>7, RemainsAlive DEF Remains
<1>9. \A y \in Obj : /\ k[y] = Free <=> h[y] = Free
                     /\ k[y].items = h[y].items
                     /\ y # r => k[y].nrefs = h[y].nrefs
    BY <1>7 DEF Remains
<1>10. \A i \in 1..Len(e) : e[i].do = "free" => e[i].ref \in Obj
    <2>1. \A i \in 1..Len(e) : e[i] \in Task
        BY <1>4
    <2>. QED  BY <2>1, TaskTypes
<1>11. Serves(h, k, Unref(r), e)
    <2>. SUFFICES ASSUME NEW i \in 1..Len(e)
         PROVE  /\ e[i].place.in \in AliveIn(h) /\ (\E j \in (i + 1)..Len(e) : e[j] = Unref(e[i].place.in))
                    => e[i].place.in \in AliveIn(k) /\ k[e[i].place.in].items = h[e[i].place.in].items
                /\ e[i].do = "free" /\ h[e[i].ref] # Free /\ h[e[i].ref].nrefs = 0
                    => k[e[i].ref] # Free /\ k[e[i].ref].nrefs = 0
        BY DEF Serves
    <2>1. ASSUME e[i].place.in \in AliveIn(h), NEW j \in (i + 1)..Len(e), e[j] = Unref(e[i].place.in)
          PROVE  e[i].place.in \in AliveIn(k) /\ k[e[i].place.in].items = h[e[i].place.in].items
        <3>1. j \in 1..Len(e)
            BY <1>4
        <3>2. e[i].place.in # r
            BY <1>6, <2>1, <3>1
        <3>. QED  BY <1>8, <1>9, <2>1, <3>2 DEF AliveIn
    <2>2. ASSUME e[i].do = "free", h[e[i].ref] # Free, h[e[i].ref].nrefs = 0
          PROVE  k[e[i].ref] # Free /\ k[e[i].ref].nrefs = 0
        <3>1. e[i].ref \in Obj
            BY <1>10, <2>2
        <3>2. e[i].ref # r
            BY <1>3, <2>2 DEF AliveIn
        <3>. QED  BY <1>9, <2>2, <3>1, <3>2
    <2>. QED  BY <2>1, <2>2
<1>12. Tasks(k, e)
    BY <1>1, <1>11, OthersSound
<1>13. \A o : Lost(k, gl, e, o) = Lost(h, gl, d, o)
    <2>1. Unref(r).do # "write"
        BY DEF Unref
    <2>. QED  BY <1>1, <1>11, <2>1, OthersLose
<1>14. \A i \in 1..Len(e) : e[i] # Release(r)
    <2>. SUFFICES ASSUME NEW i \in 1..Len(e), e[i] = Release(r) PROVE FALSE
        OBVIOUS
    <2>1. e[i].do = "free" /\ e[i].ref = r
        BY DEF Release
    <2>2. i + 1 \in 1..Len(d) /\ d[i + 1] = e[i]
        BY DEF Cut
    <2>3. FreeSound(h, d, i + 1)
        BY <1>1, <2>1, <2>2 DEF Tasks
    <2>4. h[r].nrefs = 0
        BY <2>1, <2>2, <2>3 DEF FreeSound
    <2>. QED  BY <2>4
<1>15. LaidOut(g, Unrefs(q), Release(r), e, Len(q), Len(e))
    BY <1>2, Zenon
<1>17. /\ g \in Seq(Task) /\ Tasks(k, g)
       /\ \A o \in Obj : Due(g, o) = Count(q, o) + Due(e, o)
       /\ \A o : Lost(k, gl, g, o) = Lost(k, gl, e, o)
    <2>1. Prefixed(k, gl, q, e, g)
        BY <1>3, <1>4, <1>8, <1>12, <1>14, <1>15, Prepended
    <2>. QED  BY <2>1 DEF Prefixed
<1>18. /\ HeapOK(k, M)
       /\ \A o \in Obj : /\ Nrefs(h, o) = Nrefs(k, o) + Hits(r, o)
                         /\ InItems(h, M, o) = InItems(k, M, o) + Count(q, o)
    <2>1. /\ HeapOK(k, M)
          /\ \A o \in Obj : /\ Nrefs(h, o) = Nrefs(k, o) + Hits(r, o)
                             /\ InItems(h, M, o) = InItems(k, M, o) + Count(h[r].items, o)
        BY <1>1, DiedCounts
    <2>. QED  BY <1>2, <2>1, Zenon
<1>19. ASSUME NEW o \in Obj
       PROVE  Count(st, o) + InGlobals(gl, o) + InItems(k, M, o) + Due(g, o) = Nrefs(k, o) + Lost(k, gl, g, o)
    <2>1. PICK a \in Nat, b \in Nat, c \in Nat, x \in Nat, y \in Nat, l \in Nat :
              /\ a = Count(st, o) /\ b = InGlobals(gl, o) /\ c = InItems(h, M, o) /\ x = Due(d, o)
              /\ y = Nrefs(h, o) /\ l = Lost(h, gl, d, o) /\ a + b + c + x = y + l
        <3>1. /\ Count(st, o) \in Nat /\ InGlobals(gl, o) \in Nat /\ InItems(h, M, o) \in Nat
              /\ Due(d, o) \in Nat /\ Nrefs(h, o) \in Nat /\ Lost(h, gl, d, o) \in Nat
              /\ Count(st, o) + InGlobals(gl, o) + InItems(h, M, o) + Due(d, o)
                     = Nrefs(h, o) + Lost(h, gl, d, o)
            BY Referred
        <3>. QED  BY <3>1
    <2>2. PICK z \in Nat, u \in Nat, v \in Nat, p \in Nat, s \in Nat :
              /\ z = Hits(r, o) /\ u = Due(e, o) /\ v = Count(q, o)
              /\ p = InItems(k, M, o) /\ s = Nrefs(k, o)
        BY <1>4, <1>18, HitsNat, OwedType, CountFacts, SlotsFinite, NrefsNat
    <2>3. x = z + u /\ y = s + z /\ c = p + v
        BY <1>4, <1>18, <2>1, <2>2
    <2>4. a + b + p + (v + u) = s + l
        <3>1. a + b + (p + v) + (z + u) = s + z + l
            BY <2>1, <2>3, Zenon
        <3>. QED  BY <3>1
    <2>5. Due(g, o) = v + u /\ Lost(k, gl, g, o) = l
        BY <1>13, <1>17, <2>1, <2>2
    <2>. QED  BY <2>1, <2>2, <2>4, <2>5, Zenon
<1>20. Balanced(k, st, gl, g, M)
    BY <1>19 DEF Balanced
<1>. QED  BY <1>1, <1>17, <1>18, <1>20 DEF Sound

(* The first task of a cascade, when it is a value_unref.                   *)
LEMMA FirstDrop ==
    ASSUME HInv, DropRef
    PROVE  /\ MaxItems \in Nat /\ due \in Seq(Task) /\ Tail(due) \in Seq(Task)
           /\ Head(due).ref \in Ref /\ Cut(due, Unref(Head(due).ref), Tail(due))
           /\ Sound(heap, stack, globals, due, MaxItems)
           /\ Head(due).ref \in Obj => Head(due).ref \in AliveIn(heap) /\ heap[Head(due).ref].nrefs \in Nat
<1>1. MaxItems \in Nat /\ Sound(heap, stack, globals, due, MaxItems)
    BY BoundNat DEF HInv
<1>2. due \in Seq(Task) /\ due # <<>> /\ HeapOK(heap, MaxItems)
    BY <1>1 DEF Sound, DropRef
<1>3. Cut(due, Head(due), Tail(due))
    BY <1>2, CutIs
<1>4. PICK t \in Task : t = Head(due) /\ t.do = "unref" /\ Tail(due) \in Seq(Task)
    BY <1>3 DEF Cut, DropRef
<1>5. PICK r \in Ref : r = t.ref /\ t = Unref(r) /\ Owes(t) = r
    BY <1>4, TaskTypes
<1>6. r \in Obj => r \in AliveIn(heap) /\ heap[r].nrefs \in Nat
    <2>. SUFFICES ASSUME r \in Obj PROVE r \in AliveIn(heap) /\ heap[r].nrefs \in Nat
        OBVIOUS
    <2>1. Due(due, r) = Hits(r, r) + Due(Tail(due), r) /\ Due(Tail(due), r) \in Nat
        BY <1>3, <1>4, <1>5, OwedType DEF Cut
    <2>2. Hits(r, r) = 1
        BY DEF Hits
    <2>3. /\ Count(stack, r) \in Nat /\ Nrefs(heap, r) \in Nat
          /\ Count(stack, r) + Due(due, r) <= Nrefs(heap, r)
        BY <1>1, Referred
    <2>4. Nrefs(heap, r) # 0
        BY <2>1, <2>2, <2>3
    <2>5. r \in AliveIn(heap)
        BY <2>3, <2>4, AliveOf
    <2>. QED  BY <1>2, <2>3, <2>5, NrefsNat
<1>7. Head(due).ref = r /\ Cut(due, Unref(r), Tail(due))
    BY <1>3, <1>4, <1>5
<1>. QED  BY <1>1, <1>2, <1>4, <1>6, <1>7

LEMMA CountedDown ==
    ASSUME NEW M \in Nat, NEW h, HeapOK(h, M), NEW r \in AliveIn(h)
    PROVE  Counted(h, r, -1)[r].nrefs = h[r].nrefs - 1 /\ Counted(h, r, -1)[r].items = h[r].items
<1>1. h \in [Obj -> Cell \union {Free}] /\ r \in Obj /\ r # Nil /\ h[r] \in Cell
    BY HeapAssumption DEF HeapOK, Fits, AliveIn
<1>2. PICK c : c = [h[r] EXCEPT !.nrefs = h[r].nrefs + -1]
    OBVIOUS
<1>3. Counted(h, r, -1) = [h EXCEPT ![r] = c]
    BY <1>1, <1>2 DEF Counted
<1>4. c.nrefs = h[r].nrefs + -1 /\ c.items = h[r].items /\ h[r].nrefs \in Nat
    BY <1>1, <1>2 DEF Cell
<1>. QED  BY <1>1, <1>3, <1>4

Frees(d, o) == \E i \in 1..Len(d) : d[i] = Release(o)

LEMMA FreesRest ==
    ASSUME NEW d, NEW t, NEW e, Cut(d, t, e), NEW o, t # Release(o), Frees(d, o)
    PROVE  Frees(e, o)
<1>1. PICK i \in 1..Len(d) : d[i] = Release(o)
    BY DEF Frees
<1>2. i # 1 /\ i - 1 \in 1..Len(e)
    BY <1>1 DEF Cut
<1>3. d[(i - 1) + 1] = e[i - 1] /\ (i - 1) + 1 = i
    BY <1>2 DEF Cut
<1>. QED  BY <1>1, <1>2, <1>3 DEF Frees

LEMMA FreesLaidOut ==
    ASSUME NEW q \in Seq(Ref), NEW r, NEW e \in Seq(Task), NEW d, NEW a,
           LaidOut(d, a, Release(r), e, Len(q), Len(e))
    PROVE  Frees(d, r) /\ \A o : Frees(e, o) => Frees(d, o)
<1>1. Len(q) \in Nat /\ Len(e) \in Nat /\ Len(d) = Len(q) + 1 + Len(e)
    BY DEF LaidOut
<1>2. Frees(d, r)
    <2>1. Len(q) + 1 \in 1..Len(d) /\ d[Len(q) + 1] = Release(r)
        BY <1>1 DEF LaidOut
    <2>. QED  BY <2>1 DEF Frees
<1>3. ASSUME NEW o, NEW i \in 1..Len(e), e[i] = Release(o)
      PROVE  Frees(d, o)
    <2>1. i + (Len(q) + 1) \in 1..Len(d) /\ d[i + (Len(q) + 1)] = e[i]
        BY <1>1 DEF LaidOut
    <2>. QED  BY <1>3, <2>1 DEF Frees
<1>. QED  BY <1>2, <1>3 DEF Frees

LEMMA DropRefKeeps ==
    ASSUME HInv, DropRef
    PROVE  /\ After
           /\ \/ /\ heap' = Counted(heap, Head(due).ref, -1)
                 /\ Head(due).ref \in Obj => heap[Head(due).ref] # Free /\ heap[Head(due).ref].nrefs + -1 # 0
              \/ /\ Head(due).ref \in AliveIn(heap) /\ heap[Head(due).ref].nrefs = 1
                 /\ Died(heap, Head(due).ref, heap') /\ Frees(due', Head(due).ref)
           /\ \A o \in Obj : Frees(due, o) => Frees(due', o)
<1>1. PICK r \in Ref : r = Head(due).ref
    BY FirstDrop
<1>2. PICK e \in Seq(Task) : e = Tail(due)
    BY FirstDrop
<1>3. /\ MaxItems \in Nat /\ Cut(due, Unref(r), e) /\ Sound(heap, stack, globals, due, MaxItems)
      /\ r \in Obj => r \in AliveIn(heap) /\ heap[r].nrefs \in Nat
    BY <1>1, <1>2, FirstDrop
<1>4. HeapOK(heap, MaxItems)
    BY <1>3 DEF Sound
<1>5. PICK h : h = Counted(heap, r, -1)
    OBVIOUS
<1>6. /\ stack' = stack /\ globals' = globals
      /\ IF r = Nil \/ h[r].nrefs > 0
         THEN heap' = h /\ due' = e
         ELSE /\ heap' = Dying(h, r)
              /\ due' = Unrefs(h[r].items) \o << Release(r) >> \o e
    BY <1>1, <1>2, <1>5 DEF DropRef
<1>7. r \in Obj => h[r].nrefs = heap[r].nrefs - 1 /\ h[r].items = heap[r].items
    BY <1>3, <1>4, <1>5, CountedDown
<1>8. \A o \in Obj : Frees(due, o) => Frees(e, o)
    <2>. SUFFICES ASSUME NEW o \in Obj, Frees(due, o) PROVE Frees(e, o)
        OBVIOUS
    <2>1. Unref(r) # Release(o)
        BY Zenon DEF Unref, Release
    <2>. QED  BY <1>3, <2>1, FreesRest
<1>9. CASE r = Nil \/ h[r].nrefs > 0
    <2>1. r \in Obj => r \in AliveIn(heap) /\ heap[r].nrefs + -1 > 0
        <3>1. r \in Obj => r # Nil
            BY HeapAssumption
        <3>2. ASSUME r \in Obj PROVE r \in AliveIn(heap) /\ heap[r].nrefs + -1 > 0
            <4>1. PICK n \in Nat : n = heap[r].nrefs /\ n - 1 > 0
                BY <1>3, <1>7, <1>9, <3>1, <3>2
            <4>. QED  BY <1>3, <3>2, <4>1
        <3>. QED  BY <3>2
    <2>2. Sound(Counted(heap, r, -1), stack, globals, e, MaxItems)
        BY <1>3, <2>1, DropKeeps
    <2>3. heap' = h /\ due' = e
        BY <1>6, <1>9
    <2>4. r \in Obj => heap[r] # Free /\ heap[r].nrefs + -1 # 0
        BY <1>3, <2>1 DEF AliveIn
    <2>. QED  BY <1>1, <1>5, <1>6, <1>8, <2>2, <2>3, <2>4 DEF After
<1>10. CASE ~ (r = Nil \/ h[r].nrefs > 0)
    <2>1. r \in Obj /\ r \in AliveIn(heap) /\ heap[r].nrefs \in Nat
        BY <1>3, <1>10 DEF Ref
    <2>2. heap[r].nrefs = 1
        <3>1. PICK n \in Nat : n = heap[r].nrefs /\ n > 0 /\ ~ (n - 1 > 0)
            BY <1>7, <1>10, <2>1 DEF AliveIn
        <3>. QED  BY <3>1
    <2>3. PICK k : k = Dying(h, r)
        OBVIOUS
    <2>4. Died(heap, r, k)
        BY <1>3, <1>4, <1>5, <2>1, <2>2, <2>3, DyingIs
    <2>5. PICK q \in Seq(Ref) : q = heap[r].items
        BY <1>3, <1>4, <2>1, CellFacts DEF HeapOK, AliveIn
    <2>6. PICK g : g = Unrefs(q) \o << Release(r) >> \o e
        OBVIOUS
    <2>7. heap' = k /\ due' = g
        BY <1>6, <1>7, <1>10, <2>1, <2>3, <2>5, <2>6
    <2>8. LaidOut(g, Unrefs(q), Release(r), e, Len(q), Len(e))
        <3>1. PICK a \in Seq(Task), w \in Task, m \in Nat, n \in Nat :
                  a = Unrefs(q) /\ w = Release(r) /\ m = Len(q) /\ n = Len(e) /\ Len(a) = m
            BY <2>1, OwedUnrefs, TaskTypes
        <3>2. g = Around(a, w, e)
            BY <2>6, <3>1 DEF Around
        <3>3. LaidOut(Around(a, w, e), a, w, e, m, n)
            BY <3>1, AroundIs
        <3>. QED  BY <3>1, <3>2, <3>3, Zenon
    <2>9. Sound(k, stack, globals, g, MaxItems)
        <3>1. LaidOut(g, Unrefs(heap[r].items), Release(r), e, Len(heap[r].items), Len(e))
            BY <2>5, <2>8, Zenon
        <3>. QED  BY <1>3, <2>1, <2>2, <2>4, <3>1, DieKeeps
    <2>10. After
        BY <1>6, <2>7, <2>9, Zenon DEF After
    <2>11. Frees(g, r) /\ \A o \in Obj : Frees(e, o) => Frees(g, o)
        BY <1>2, <2>5, <2>8, FreesLaidOut
    <2>. QED  BY <1>1, <1>8, <2>1, <2>2, <2>4, <2>7, <2>10, <2>11, Zenon
<1>. QED  BY <1>9, <1>10

(* The block of a dead object is freed.                                     *)
LEMMA FreeBlockKeeps ==
    ASSUME HInv, FreeBlock
    PROVE  After /\ Head(due).ref \notin AliveIn(heap)
<1>1. MaxItems \in Nat /\ Sound(heap, stack, globals, due, MaxItems)
    BY BoundNat DEF HInv
<1>2. /\ due \in Seq(Task) /\ due # <<>> /\ HeapOK(heap, MaxItems) /\ Tasks(heap, due)
      /\ stack \in Seq(Ref) /\ globals \in [Global -> Ref \union {None}]
    BY <1>1 DEF Sound, FreeBlock
<1>3. PICK t \in Task, e \in Seq(Task) : t = Head(due) /\ e = Tail(due) /\ Cut(due, t, e)
    <2>1. Cut(due, Head(due), Tail(due))
        BY <1>2, CutIs
    <2>. QED  BY <2>1 DEF Cut
<1>4. PICK r \in Obj : r = t.ref /\ t = Release(r) /\ Owes(t) = None /\ t.do = "free"
    <2>1. t.do = "free"
        BY <1>3 DEF FreeBlock
    <2>. QED  BY <2>1, TaskTypes
<1>5. heap[r] # Free /\ heap[r].nrefs = 0
    <2>1. 1 \in 1..Len(due) /\ due[1] = t
        BY <1>3 DEF Cut
    <2>2. FreeSound(heap, due, 1)
        BY <1>2, <1>4, <2>1 DEF Tasks
    <2>. QED  BY <1>4, <2>1, <2>2 DEF FreeSound
<1>6. PICK k : k = [heap EXCEPT ![r] = Free]
    OBVIOUS
<1>7. heap' = k /\ due' = e /\ stack' = stack /\ globals' = globals
    BY <1>3, <1>4, <1>6 DEF FreeBlock
<1>8. /\ heap \in [Obj -> Cell \union {Free}] /\ k \in [Obj -> Cell \union {Free}]
      /\ k[r] = Free /\ \A y \in Obj : y # r => k[y] = heap[y]
    BY <1>2, <1>6 DEF HeapOK, Fits
<1>9. r \notin AliveIn(heap) /\ AliveIn(k) = AliveIn(heap) /\ \A y \in AliveIn(heap) : k[y] = heap[y]
    BY <1>5, <1>8 DEF AliveIn
<1>10. Alike(heap, k)
    <2>1. \A y \in AliveIn(heap) : SameShape(heap[y], heap[y])
        BY DEF SameShape
    <2>. QED  BY <1>9, <2>1 DEF Alike
<1>11. HeapOK(k, MaxItems)
    BY <1>2, <1>8, <1>10, AlikeKeeps DEF HeapOK, Fits
<1>12. Serves(heap, k, t, e)
    <2>. SUFFICES ASSUME NEW i \in 1..Len(e)
         PROVE  /\ e[i].place.in \in AliveIn(heap)
                    => e[i].place.in \in AliveIn(k) /\ k[e[i].place.in].items = heap[e[i].place.in].items
                /\ e[i].do = "free" /\ e[i] # t /\ heap[e[i].ref] # Free /\ heap[e[i].ref].nrefs = 0
                    => k[e[i].ref] # Free /\ k[e[i].ref].nrefs = 0
        BY DEF Serves
    <2>1. ASSUME e[i].do = "free", e[i] # t, heap[e[i].ref] # Free, heap[e[i].ref].nrefs = 0
          PROVE  k[e[i].ref] # Free /\ k[e[i].ref].nrefs = 0
        <3>1. e[i] \in Task
            OBVIOUS
        <3>2. e[i].ref \in Obj /\ e[i] = Release(e[i].ref)
            BY <2>1, <3>1, TaskTypes
        <3>3. e[i].ref # r
            BY <1>4, <2>1, <3>2
        <3>. QED  BY <1>8, <2>1, <3>2, <3>3
    <2>. QED  BY <1>9, <2>1
<1>13. Tasks(k, e)
    BY <1>2, <1>3, <1>12, OthersSound
<1>14. \A o : Lost(k, globals, e, o) = Lost(heap, globals, due, o)
    <2>1. t.do # "write"
        BY <1>4
    <2>. QED  BY <1>2, <1>3, <1>12, <2>1, OthersLose
<1>15. \A o : InItems(k, MaxItems, o) = InItems(heap, MaxItems, o)
    BY <1>10, AlikeKeeps
<1>16. \A o \in Obj : Nrefs(k, o) = Nrefs(heap, o)
    BY <1>5, <1>8 DEF Nrefs
<1>17. ASSUME NEW o \in Obj
       PROVE  Count(stack, o) + InGlobals(globals, o) + InItems(k, MaxItems, o) + Due(e, o)
                  = Nrefs(k, o) + Lost(k, globals, e, o)
    <2>1. /\ Count(stack, o) + InGlobals(globals, o) + InItems(heap, MaxItems, o) + Due(due, o)
                  = Nrefs(heap, o) + Lost(heap, globals, due, o)
        BY <1>1, Referred
    <2>2. Due(due, o) = Due(e, o)
        <3>1. Due(due, o) = Hits(None, o) + Due(e, o)
            BY <1>3, <1>4 DEF Cut
        <3>2. Hits(None, o) = 0 /\ Due(e, o) \in Nat
            BY NilCounts, OwedType
        <3>. QED  BY <3>1, <3>2
    <2>. QED  BY <1>14, <1>15, <1>16, <2>1, <2>2
<1>18. Balanced(k, stack, globals, e, MaxItems)
    BY <1>17 DEF Balanced
<1>19. Sound(k, stack, globals, e, MaxItems)
    BY <1>2, <1>11, <1>13, <1>18 DEF Sound
<1>. QED  BY <1>3, <1>4, <1>7, <1>9, <1>19 DEF After

SameBlocks(h, k) == \A y \in Obj : (k[y] = Free <=> h[y] = Free) /\ k[y].nrefs = h[y].nrefs
NoWrite(k, e) == Tasks(k, e) /\ \A i \in 1..Len(e) : e[i].do # "write"

(* Once the write is done nothing is about to be overwritten.               *)
LEMMA WrittenSound ==
    ASSUME NEW h, NEW k, NEW d, NEW t, NEW e, Cut(d, t, e), Tasks(h, d), t.do = "write",
           SameBlocks(h, k)
    PROVE  NoWrite(k, e)
<1>1. \A i \in 1..Len(e) : e[i].do # "write"
    <2>. SUFFICES ASSUME NEW i \in 1..Len(e), e[i].do = "write" PROVE FALSE
        OBVIOUS
    <2>1. 1 \in 1..Len(d) /\ d[1].do = "write" /\ i + 1 \in 1..Len(d) /\ d[i + 1].do = "write"
        BY DEF Cut
    <2>2. i + 1 = 1
        BY <2>1 DEF Tasks
    <2>3. i \in Nat /\ i # 0
        BY DEF Cut
    <2>. QED  BY <2>2, <2>3
<1>2. Serves(h, k, t, e)
    <2>. SUFFICES ASSUME NEW i \in 1..Len(e), e[i].do = "free", h[e[i].ref] # Free, h[e[i].ref].nrefs = 0
         PROVE  k[e[i].ref] # Free /\ k[e[i].ref].nrefs = 0
        BY <1>1 DEF Serves
    <2>1. e[i] \in Task
        BY DEF Cut
    <2>2. e[i].ref \in Obj
        BY <2>1, TaskTypes
    <2>. QED  BY <2>2 DEF SameBlocks
<1>3. Tasks(k, e)
    BY <1>2, OthersSound
<1>. QED  BY <1>1, <1>3 DEF NoWrite

LEMMA OverwriteKeeps ==
    ASSUME HInv, Overwrite
    PROVE  /\ After
           /\ \A y \in Obj : /\ heap'[y] = Free <=> heap[y] = Free
                             /\ heap'[y].text = heap[y].text /\ heap'[y].target = heap[y].target
                             /\ heap'[y].nrefs = heap[y].nrefs
<1>1. MaxItems \in Nat /\ Sound(heap, stack, globals, due, MaxItems)
    BY BoundNat DEF HInv
<1>2. /\ due \in Seq(Task) /\ due # <<>> /\ HeapOK(heap, MaxItems) /\ Tasks(heap, due)
      /\ stack \in Seq(Ref) /\ globals \in [Global -> Ref \union {None}]
    BY <1>1 DEF Sound, Overwrite
<1>3. PICK t \in Task, e \in Seq(Task) : t = Head(due) /\ e = Tail(due) /\ Cut(due, t, e)
    <2>1. Cut(due, Head(due), Tail(due))
        BY <1>2, CutIs
    <2>. QED  BY <2>1 DEF Cut
<1>4. PICK r \in Ref, p \in Place : r = t.ref /\ p = t.place /\ Owes(t) = r /\ t.do = "write"
    <2>1. t.do = "write"
        BY <1>3 DEF Overwrite
    <2>. QED  BY <2>1, TaskTypes
<1>5. /\ 1 \in 1..Len(due) /\ due[1] = t
      /\ \A o : Due(due, o) = Hits(r, o) + Due(e, o)
    BY <1>3, <1>4 DEF Cut
<1>6. WriteSound(heap, due, 1) /\ OnlyWrite(due, 1)
    BY <1>2, <1>4, <1>5 DEF Tasks, OnlyWrite
<1>7. \A o : Lost(heap, globals, due, o) = Hits(At(heap, globals, p), o)
    <2>1. \A o : Lost(heap, globals, due, o) = Hits(At(heap, globals, due[1].place), o)
        BY <1>5, <1>6, LostOne
    <2>. QED  BY <1>4, <1>5, <2>1
<1>8. stack' = stack /\ due' = e
    BY <1>3 DEF Overwrite
<1>9. CASE p.in = None
    <2>1. PICK x \in Global : x = p.at
        BY <1>9, PlaceTypes, HeapAssumption
    <2>2. PICK gm : gm = [globals EXCEPT ![x] = r]
        OBVIOUS
    <2>3. globals' = gm /\ heap' = heap
        BY <1>3, <1>4, <1>9, <2>1, <2>2 DEF Overwrite
    <2>4. gm \in [Global -> Ref \union {None}]
        BY <1>2, <2>2
    <2>5. Tasks(heap, e) /\ \A i \in 1..Len(e) : e[i].do # "write"
        <3>1. SameBlocks(heap, heap)
            BY DEF SameBlocks
        <3>2. NoWrite(heap, e)
            BY <1>2, <1>3, <1>4, <3>1, WrittenSound
        <3>. QED  BY <3>2 DEF NoWrite
    <2>6. \A o : Lost(heap, gm, e, o) = 0
        BY <2>5, LostNone, Zenon
    <2>7. \A o : InGlobals(gm, o) + Hits(globals[x], o) = InGlobals(globals, o) + Hits(r, o)
        <3>1. SetAt(globals, gm, x, r)
            BY <1>2, <2>2 DEF SetAt
        <3>. QED  BY <3>1, GlobalAt
    <2>8. \A o : Lost(heap, globals, due, o) = Hits(globals[x], o)
        <3>1. At(heap, globals, p) = globals[x]
            BY <1>9, <2>1 DEF At
        <3>. QED  BY <1>7, <3>1, Zenon
    <2>9. ASSUME NEW o \in Obj
          PROVE  Count(stack, o) + InGlobals(gm, o) + InItems(heap, MaxItems, o) + Due(e, o)
                     = Nrefs(heap, o) + Lost(heap, gm, e, o)
        <3>1. /\ Count(stack, o) \in Nat /\ InGlobals(globals, o) \in Nat /\ InItems(heap, MaxItems, o) \in Nat
              /\ Due(due, o) \in Nat /\ Nrefs(heap, o) \in Nat
              /\ Count(stack, o) + InGlobals(globals, o) + InItems(heap, MaxItems, o) + Due(due, o)
                     = Nrefs(heap, o) + Lost(heap, globals, due, o)
            BY <1>1, Referred
        <3>2. /\ InGlobals(gm, o) \in Nat /\ Hits(globals[x], o) \in Nat /\ Hits(r, o) \in Nat /\ Due(e, o) \in Nat
            BY GlobalsFinite, HitsNat, OwedType
        <3>3. /\ Due(due, o) = Hits(r, o) + Due(e, o)
              /\ Lost(heap, globals, due, o) = Hits(globals[x], o) /\ Lost(heap, gm, e, o) = 0
              /\ InGlobals(gm, o) + Hits(globals[x], o) = InGlobals(globals, o) + Hits(r, o)
            BY <1>5, <2>6, <2>7, <2>8
        <3>4. PICK a \in Nat, b \in Nat, f \in Nat, n \in Nat, g \in Nat, u \in Nat, v \in Nat, w \in Nat :
                  /\ a = Count(stack, o) /\ b = InGlobals(globals, o) /\ f = InItems(heap, MaxItems, o)
                  /\ n = Nrefs(heap, o) /\ g = InGlobals(gm, o) /\ u = Hits(globals[x], o)
                  /\ v = Hits(r, o) /\ w = Due(e, o)
            BY <3>1, <3>2, Zenon
        <3>5. a + b + f + (v + w) = n + u /\ g + u = b + v
            BY <3>1, <3>3, <3>4, Zenon
        <3>6. a + g + f + w = n + 0
            BY <3>5
        <3>. QED  BY <3>3, <3>4, <3>6, Zenon
    <2>10. Balanced(heap, stack, gm, e, MaxItems)
        BY <2>9 DEF Balanced
    <2>11. Sound(heap, stack, gm, e, MaxItems)
        BY <1>2, <2>4, <2>5, <2>10 DEF Sound
    <2>. QED  BY <1>8, <2>3, <2>11 DEF After
<1>10. CASE p.in # None
    <2>1. PICK c, i : c = p.in /\ i = p.at
        OBVIOUS
    <2>2. c \in AliveIn(heap) /\ i \in 1..Len(heap[c].items)
        BY <1>4, <1>5, <1>6, <1>10, <2>1 DEF WriteSound
    <2>3. PICK s \in Seq(Ref) : s = heap[c].items /\ Len(s) \in 0..MaxItems /\ s[i] \in Ref
        BY <1>1, <1>2, <2>2, CellFacts, ElementOfSeq DEF HeapOK, AliveIn
    <2>4. PICK q : q = [s EXCEPT ![i] = r]
        OBVIOUS
    <2>5. /\ q \in Seq(Ref) /\ Len(q) = Len(s) /\ Len(q) <= MaxItems
          /\ \A j \in 1..Len(s) : q[j] = IF j = i THEN r ELSE s[j]
        <3>1. DOMAIN s = 1..Len(s) /\ i \in 1..Len(s)
            BY <2>2, <2>3
        <3>2. q \in Seq(Ref) /\ Len(q) = Len(s)
            BY <2>4, <3>1, ExceptSeq
        <3>3. \A j \in 1..Len(s) : q[j] = IF j = i THEN r ELSE s[j]
            BY <2>4, <3>1
        <3>. QED  BY <1>1, <2>3, <3>2, <3>3
    <2>6. PICK k : k = [heap EXCEPT ![c].items = q]
        OBVIOUS
    <2>7. heap' = k /\ globals' = globals
        <3>1. heap' = [heap EXCEPT ![c].items[i] = r] /\ globals' = globals
            BY <1>3, <1>4, <1>10, <2>1 DEF Overwrite
        <3>2. [heap EXCEPT ![c].items[i] = r] = [heap EXCEPT ![c].items = [heap[c].items EXCEPT ![i] = r]]
            OBVIOUS
        <3>. QED  BY <2>3, <2>4, <2>6, <3>1, <3>2, Zenon
    <2>8. Refilled(heap, c, q, k, MaxItems)
        BY <1>1, <1>2, <2>2, <2>5, <2>6, Refill
    <2>9. /\ HeapOK(k, MaxItems)
          /\ \A y \in Obj : /\ k[y] = Free <=> heap[y] = Free
                            /\ k[y].nrefs = heap[y].nrefs /\ k[y].text = heap[y].text
                            /\ k[y].target = heap[y].target
          /\ \A o \in Obj : /\ Nrefs(k, o) = Nrefs(heap, o)
                            /\ InItems(k, MaxItems, o) + Count(s, o) = InItems(heap, MaxItems, o) + Count(q, o)
        BY <2>3, <2>8 DEF Refilled, SameLinks
    <2>10. Tasks(k, e) /\ \A j \in 1..Len(e) : e[j].do # "write"
        <3>1. SameBlocks(heap, k)
            BY <2>9 DEF SameBlocks
        <3>2. NoWrite(k, e)
            BY <1>2, <1>3, <1>4, <3>1, WrittenSound
        <3>. QED  BY <3>2 DEF NoWrite
    <2>11. \A o : Lost(k, globals, e, o) = 0
        BY <2>10, LostNone, Zenon
    <2>12. \A o : Count(q, o) + Hits(s[i], o) = Count(s, o) + Hits(r, o)
        BY <2>2, <2>3, <2>5, CountPut
    <2>13. \A o : Lost(heap, globals, due, o) = Hits(s[i], o)
        <3>1. At(heap, globals, p) = s[i]
            BY <1>10, <2>1, <2>3 DEF At
        <3>. QED  BY <1>7, <3>1, Zenon
    <2>14. ASSUME NEW o \in Obj
           PROVE  Count(stack, o) + InGlobals(globals, o) + InItems(k, MaxItems, o) + Due(e, o)
                      = Nrefs(k, o) + Lost(k, globals, e, o)
        <3>1. /\ Count(stack, o) \in Nat /\ InGlobals(globals, o) \in Nat /\ InItems(heap, MaxItems, o) \in Nat
              /\ Due(due, o) \in Nat /\ Nrefs(heap, o) \in Nat
              /\ Count(stack, o) + InGlobals(globals, o) + InItems(heap, MaxItems, o) + Due(due, o)
                     = Nrefs(heap, o) + Lost(heap, globals, due, o)
            BY <1>1, Referred
        <3>2. /\ InItems(k, MaxItems, o) \in Nat /\ Hits(s[i], o) \in Nat /\ Hits(r, o) \in Nat /\ Due(e, o) \in Nat
              /\ Count(q, o) \in Nat /\ Count(s, o) \in Nat
            BY <1>1, <2>5, SlotsFinite, HitsNat, OwedType, CountFacts
        <3>3. /\ Due(due, o) = Hits(r, o) + Due(e, o)
              /\ Lost(heap, globals, due, o) = Hits(s[i], o) /\ Lost(k, globals, e, o) = 0
              /\ Nrefs(k, o) = Nrefs(heap, o)
              /\ InItems(k, MaxItems, o) + Count(s, o) = InItems(heap, MaxItems, o) + Count(q, o)
              /\ Count(q, o) + Hits(s[i], o) = Count(s, o) + Hits(r, o)
            BY <1>5, <2>9, <2>11, <2>12, <2>13
        <3>4. PICK a \in Nat, b \in Nat, f \in Nat, n \in Nat, g \in Nat, u \in Nat, v \in Nat, w \in Nat,
                   x \in Nat, y \in Nat :
                  /\ a = Count(stack, o) /\ b = InGlobals(globals, o) /\ f = InItems(heap, MaxItems, o)
                  /\ n = Nrefs(heap, o) /\ g = InItems(k, MaxItems, o) /\ u = Hits(s[i], o)
                  /\ v = Hits(r, o) /\ w = Due(e, o) /\ x = Count(q, o) /\ y = Count(s, o)
            BY <3>1, <3>2, Zenon
        <3>5. a + b + f + (v + w) = n + u /\ g + y = f + x /\ x + u = y + v
            BY <3>1, <3>3, <3>4, Zenon
        <3>6. a + b + g + w = n + 0
            BY <3>5
        <3>. QED  BY <3>3, <3>4, <3>6, Zenon
    <2>15. Balanced(k, stack, globals, e, MaxItems)
        BY <2>14 DEF Balanced
    <2>16. Sound(k, stack, globals, e, MaxItems)
        BY <1>2, <2>9, <2>10, <2>15 DEF Sound
    <2>. QED  BY <1>8, <2>7, <2>9, <2>16 DEF After
<1>. QED  BY <1>9, <1>10

-----------------------------------------------------------------------------
(* The invariant of the program.                                            *)

(* A program that has not started holds nothing.                            *)
LEMMA InitSound ==
    ASSUME Init
    PROVE  HInv
<1>1. MaxItems \in Nat /\ bound \in Bounds
    BY BoundNat DEF Init
<1>2. \A o \in Obj : heap[o] = Free
    BY DEF Init
<1>3. AliveIn(heap) = {}
    BY <1>2 DEF AliveIn
<1>4. HeapOK(heap, MaxItems)
    <2>1. heap \in [Obj -> Cell \union {Free}]
        BY DEF Init
    <2>2. Fits(heap, MaxItems)
        BY <1>2, <2>1 DEF Fits
    <2>3. PICK rk : rk = [o \in Obj |-> 0]
        OBVIOUS
    <2>4. rk \in [Obj -> 0..0]
        BY <2>3
    <2>5. Linked(heap, rk)
        BY <1>3 DEF Linked, WrefsIn, ContainersIn
    <2>6. 0 \in Nat
        OBVIOUS
    <2>. QED  BY <2>2, <2>4, <2>5, <2>6 DEF HeapOK, WellLinked
<1>5. \A o \in Obj : InItems(heap, MaxItems, o) = 0
    <2>1. TAKE o \in Obj
    <2>2. SlotsOf(heap, MaxItems, o) = {}
        BY <1>3 DEF SlotsOf, Slots
    <2>. QED  BY <1>1, <2>2, SlotsFinite, FS_EmptySet
<1>6. \A o \in Obj : InGlobals(globals, o) = 0
    <2>1. TAKE o \in Obj
    <2>2. \A x \in Global : globals[x] # o
        BY HeapAssumption DEF Init
    <2>3. {x \in Global : globals[x] = o} = {}
        BY <2>2
    <2>. QED  BY <2>3, FS_EmptySet DEF InGlobals
<1>7. stack = <<>> /\ due = Unrefs(<<>>) /\ <<>> \in Seq(Ref)
    BY UnrefsAre DEF Init
<1>8. globals \in [Global -> Ref \union {None}]
    BY DEF Init
<1>9. \A o \in Obj : Nrefs(heap, o) = 0
    BY <1>2 DEF Nrefs
<1>10. \A o \in Obj : Count(<<>>, o) + InGlobals(globals, o) + InItems(heap, MaxItems, o) + Count(<<>>, o)
                          = Nrefs(heap, o)
    BY <1>5, <1>6, <1>9, CountEmpty
<1>11. Sound(heap, <<>>, globals, Unrefs(<<>>), MaxItems)
    BY <1>1, <1>4, <1>7, <1>8, <1>10, Finish
<1>12. Sound(heap, stack, globals, due, MaxItems)
    BY <1>7, <1>11, Zenon
<1>13. over \in BOOLEAN
    BY DEF Init
<1>. QED  BY <1>1, <1>12, <1>13 DEF HInv

LEMMA InstructKeeps ==
    ASSUME NEW h, NEW st, NEW d, Instruct(h, st, d)
    PROVE  bound' = bound /\ over' = over
BY DEF Instruct

(* No step changes the bounds, and only state_destroy ends the program.     *)
LEMMA NextFrame ==
    ASSUME Next
    PROVE  bound' = bound /\ over' \in {over, TRUE}
BY DEF Next, Continue, DropRef, FreeBlock, Overwrite, LoadNil, Pop, Wvalue, Throw, Destroy,
       LoadGlobal, StoreGlobal, ModifyGlobal, NewString, Wref, Concat, NewContainer, LoadAt,
       StoreAt, RemoveKey, ModifyAtThrows, ModifyAt, PopN, Instruct

LEMMA NextKeeps ==
    ASSUME HInv, Next
    PROVE  After
<1>1. CASE DropRef
    BY <1>1, DropRefKeeps
<1>2. CASE FreeBlock
    BY <1>2, FreeBlockKeeps
<1>3. CASE Overwrite
    BY <1>3, OverwriteKeeps
<1>4. CASE LoadNil \/ Pop \/ Wvalue \/ Throw \/ Destroy
    BY <1>4, LoadNilKeeps, PopKeeps, WvalueKeeps, ThrowKeeps, DestroyKeeps
<1>5. ASSUME NEW x \in Global, LoadGlobal(x) \/ StoreGlobal(x) \/ \E o \in Obj : ModifyGlobal(x, o)
      PROVE  After
    BY <1>5, LoadGlobalKeeps, StoreGlobalKeeps, ModifyGlobalKeeps
<1>6. ASSUME NEW o \in Obj, NewString(o) \/ Wref(o) \/ Concat(o)
      PROVE  After
    BY <1>6, NewStringKeeps, WrefKeeps, ConcatKeeps
<1>7. ASSUME NEW o \in Obj, NEW kind \in Containers, NEW n \in 0..Len(stack), NewContainer(o, kind, n)
      PROVE  After
    BY <1>7, NewContainerKeeps
<1>8. ASSUME NEW i, LoadAt(i) \/ StoreAt(i) \/ RemoveKey(i) \/ ModifyAtThrows(i)
      PROVE  After
    BY <1>8, LoadAtKeeps, StoreAtKeeps, RemoveKeyKeeps, ModifyAtThrowsKeeps
<1>9. ASSUME NEW i, NEW o \in Obj, ModifyAt(i, o)
      PROVE  After
    BY <1>9, ModifyAtKeeps
<1>10. ASSUME NEW n \in 1..Len(stack), PopN(n)
       PROVE  After
    BY <1>10, PopNKeeps
<1>. QED  BY <1>1, <1>2, <1>3, <1>4, <1>5, <1>6, <1>7, <1>8, <1>9, <1>10 DEF Next, Continue

LEMMA StepKeeps ==
    ASSUME HInv, [Next]_vars
    PROVE  HInv'
<1>1. CASE Next
    <2>1. After /\ bound' = bound /\ over' \in {over, TRUE}
        BY <1>1, NextKeeps, NextFrame
    <2>2. MaxItems' = MaxItems
        BY <2>1 DEF MaxItems
    <2>. QED  BY <2>1, <2>2 DEF After, HInv
<1>2. CASE UNCHANGED vars
    BY <1>2 DEF vars, HInv, MaxItems
<1>. QED  BY <1>1, <1>2

(* The counts, the tasks and the lists are sound in every state.            *)
THEOREM HeapInvariant == Spec => []HInv
<1>1. Init => HInv
    BY InitSound
<1>2. HInv /\ [Next]_vars => HInv'
    BY StepKeeps
<1>. QED  BY <1>1, <1>2, PTL DEF Spec

LEMMA HeapTypes == HInv => TypeOK
BY DEF HInv, Sound, HeapOK, Fits, TypeOK

(* TypeOK: every field of every object holds what its declaration in vm.h,
   list.h, dict.h and wref.h says.                                          *)
THEOREM TypesHold == Spec => []TypeOK
<1>1. HInv => TypeOK
    BY HeapTypes
<1>. QED  BY <1>1, HeapInvariant, PTL

LEMMA TasksAre == HInv => TasksSound
<1>1. SUFFICES ASSUME HInv, NEW i \in DOMAIN due
               PROVE  LET t == due[i] IN
                      /\ t.do = "free" =>
                            /\ t.ref \in Live /\ heap[t.ref].nrefs = 0
                            /\ \A j \in DOMAIN due : due[j] = t => j = i
                      /\ t.do = "write" /\ t.place.in # None =>
                            /\ t.place.in \in Live /\ heap[t.place.in].nrefs > 0
                            /\ t.place.at \in DOMAIN heap[t.place.in].items
    BY DEF TasksSound
<1>2. due \in Seq(Task) /\ DOMAIN due = 1..Len(due)
    BY <1>1 DEF HInv, Sound
<1>3. due[i] \in Task /\ i \in 1..Len(due)
    BY <1>2
<1>4. Tasks(heap, due) /\ HeapOK(heap, MaxItems)
    BY <1>1 DEF HInv, Sound
<1>5. CASE due[i].do = "free"
    <2>1. FreeSound(heap, due, i)
        BY <1>3, <1>4, <1>5 DEF Tasks
    <2>2. due[i].ref \in Obj
        BY <1>3, <1>5, TaskTypes
    <2>. QED  BY <1>2, <1>5, <2>1, <2>2 DEF FreeSound, Live
<1>6. CASE due[i].do = "write"
    <2>1. WriteSound(heap, due, i)
        BY <1>3, <1>4, <1>6 DEF Tasks
    <2>2. CASE due[i].place.in # None
        <3>1. PICK c \in AliveIn(heap) : c = due[i].place.in /\ due[i].place.at \in 1..Len(heap[c].items)
            BY <2>1, <2>2 DEF WriteSound
        <3>2. c \in Live /\ heap[c].nrefs > 0
            BY <3>1 DEF AliveIn, Live
        <3>3. DOMAIN heap[c].items = 1..Len(heap[c].items)
            BY <1>1, <1>4, <3>2, CellFacts, BoundNat DEF HeapOK, HInv, Live
        <3>. QED  BY <1>6, <3>1, <3>2, <3>3
    <2>. QED  BY <1>6, <2>2
<1>. QED  BY <1>5, <1>6

(* TasksSound: value_unref frees a block once and when nothing refers to it,
   and store writes where there still is an item.                           *)
THEOREM NothingFreedTwice == Spec => []TasksSound
<1>1. HInv => TasksSound
    BY TasksAre
<1>. QED  BY <1>1, HeapInvariant, PTL

LEMMA ListsAre == HInv => WeakListsSound
<1>1. SUFFICES ASSUME HInv
               PROVE  WeakListsSound
    OBVIOUS
<1>2. PICK K \in Nat : \E rk \in [Obj -> 0..K] : Linked(heap, rk)
    BY <1>1 DEF HInv, Sound, HeapOK, WellLinked
<1>3. PICK rk \in [Obj -> 0..K] : Linked(heap, rk)
    BY <1>2
<1>4. Wrefs = WrefsIn(heap) /\ Live = {o \in Obj : heap[o] # Free}
    BY DEF Wrefs, WrefsIn, AliveIn, Live
<1>5. \A o \in Live : heap[o].kind \in Containers /\ heap[o].nrefs > 0 =>
          WeakRefsTo(heap, o) = {w \in Wrefs : heap[w].target = o}
    <2>1. SUFFICES ASSUME NEW o \in Live, heap[o].kind \in Containers, heap[o].nrefs > 0
                   PROVE  WeakRefsTo(heap, o) = {w \in Wrefs : heap[w].target = o}
        OBVIOUS
    <2>2. o \in ContainersIn(heap)
        BY <2>1, <1>4 DEF ContainersIn, AliveIn
    <2>3. WeakRefsTo(heap, o) = {w \in WrefsIn(heap) : heap[w].target = o}
        BY <1>3, <2>2, WalkIs
    <2>. QED  BY <1>4, <2>3
<1>6. ASSUME NEW w \in Wrefs
      PROVE  /\ heap[w].target # None =>
                   /\ Is(heap[w].target, Containers) /\ heap[heap[w].target].nrefs > 0
                   /\ heap[w].prev = None => heap[heap[w].target].wref_first = w
             /\ heap[w].next # None => heap[w].next \in Wrefs
                                       /\ heap[heap[w].next].prev = w
             /\ heap[w].prev # None => heap[w].prev \in Wrefs
                                       /\ heap[heap[w].prev].next = w
    <2>1. WrefLinked(heap, rk, w)
        BY <1>3, <1>4 DEF Linked
    <2>. QED  BY <2>1, <1>4 DEF WrefLinked, Is, ContainersIn, AliveIn
<1>. QED  BY <1>5, <1>6 DEF WeakListsSound

(* WeakListsSound: wref_new, wref_destroy and wrefable_invalidate keep the
   list of an object exactly the weak references to it.                     *)
THEOREM WeakListsKept == Spec => []WeakListsSound
<1>1. HInv => WeakListsSound
    BY ListsAre
<1>. QED  BY <1>1, HeapInvariant, PTL

(* The references to o that are not about to be overwritten.                *)
GlobalsKept(o) == {x \in Global : globals[x] = o /\ [in |-> None, at |-> x] \notin Overwritten}
SlotsKept(o) ==
    {ci \in {c \in Live : heap[c].nrefs > 0} \X (1..(MaxItems + 1)) :
        ci[2] \in Held(ci[1]) /\ heap[ci[1]].items[ci[2]] = o}
DueRefs(o) == {i \in DOMAIN due : due[i].do # "free" /\ due[i].ref = o}

LEMMA SlotsKeptAre ==
    ASSUME HInv, NEW o \in Obj
    PROVE  SlotsKept(o) = {ci \in SlotsOf(heap, MaxItems, o) :
                              [in |-> ci[1], at |-> ci[2]] \notin Overwritten}
<1>1. PICK M \in Nat : M = MaxItems
    BY BoundNat DEF HInv
<1>2. Fits(heap, M)
    BY <1>1 DEF HInv, Sound, HeapOK
<1>3. {c \in Live : heap[c].nrefs > 0} = AliveIn(heap)
    BY DEF Live, AliveIn
<1>4. \A c \in AliveIn(heap) : DOMAIN heap[c].items = 1..Len(heap[c].items) /\ Len(heap[c].items) \in 0..M
    BY <1>2, CellFacts DEF AliveIn
<1>5. ASSUME NEW ci \in AliveIn(heap) \X (1..(M + 1))
      PROVE  ci[2] \in DOMAIN heap[ci[1]].items => ci[2] \in 1..M
    BY <1>4
<1>6. ASSUME NEW ci \in AliveIn(heap) \X (1..M)
      PROVE  ci[2] \in 1..(M + 1)
    OBVIOUS
<1>7. ASSUME NEW ci
      PROVE  ci \in SlotsKept(o) <=> /\ ci \in SlotsOf(heap, M, o)
                                     /\ [in |-> ci[1], at |-> ci[2]] \notin Overwritten
    <2>1. ci \in SlotsKept(o) <=> /\ ci \in AliveIn(heap) \X (1..(M + 1))
                                  /\ ci[2] \in DOMAIN heap[ci[1]].items
                                  /\ [in |-> ci[1], at |-> ci[2]] \notin Overwritten
                                  /\ heap[ci[1]].items[ci[2]] = o
        BY <1>1, <1>3, Zenon DEF SlotsKept, Held
    <2>2. ci \in SlotsOf(heap, M, o) <=> /\ ci \in AliveIn(heap) \X (1..M)
                                         /\ ci[2] \in DOMAIN heap[ci[1]].items
                                         /\ heap[ci[1]].items[ci[2]] = o
        BY DEF SlotsOf, Slots
    <2>3. ci[2] \in DOMAIN heap[ci[1]].items =>
              (ci \in AliveIn(heap) \X (1..(M + 1)) <=> ci \in AliveIn(heap) \X (1..M))
        BY <1>5, <1>6
    <2>. QED  BY <2>1, <2>2, <2>3, Zenon
<1>. QED  BY <1>1, <1>7, Zenon

LEMMA PlaceParts ==
    ASSUME NEW p \in Place, NEW c, NEW i
    PROVE  [in |-> c, at |-> i] = p <=> c = p.in /\ i = p.at
BY DEF Place

LEMMA KeptCounts ==
    ASSUME HInv, NEW o \in Obj
    PROVE  /\ Cardinality(GlobalsKept(o)) \in Nat /\ Cardinality(SlotsKept(o)) \in Nat
           /\ Cardinality(GlobalsKept(o)) + Cardinality(SlotsKept(o)) + Lost(heap, globals, due, o)
                  = InGlobals(globals, o) + InItems(heap, MaxItems, o)
<1>1. PICK M \in Nat : M = MaxItems
    BY BoundNat DEF HInv
<1>2. PICK A : A = {x \in Global : globals[x] = o}
    OBVIOUS
<1>3. PICK B : B = SlotsOf(heap, M, o)
    OBVIOUS
<1>4. IsFiniteSet(A) /\ Cardinality(A) \in Nat /\ InGlobals(globals, o) = Cardinality(A)
    BY <1>2, GlobalsFinite DEF InGlobals
<1>5. IsFiniteSet(B) /\ Cardinality(B) \in Nat /\ InItems(heap, M, o) = Cardinality(B)
    BY <1>3, SlotsFinite
<1>6. SlotsKept(o) = {ci \in B : [in |-> ci[1], at |-> ci[2]] \notin Overwritten}
    BY <1>1, <1>3, SlotsKeptAre
<1>7. GlobalsKept(o) = {x \in A : [in |-> None, at |-> x] \notin Overwritten}
    BY <1>2 DEF GlobalsKept
<1>8. due \in Seq(Task) /\ DOMAIN due = 1..Len(due) /\ Tasks(heap, due)
    BY DEF HInv, Sound
<1>9. Overwritten = Places(due)
    BY <1>8 DEF Overwritten, Places
<1>10. CASE \A i \in 1..Len(due) : due[i].do # "write"
    <2>1. Overwritten = {}
        BY <1>9, <1>10 DEF Places
    <2>2. SlotsKept(o) = B /\ GlobalsKept(o) = A
        BY <1>6, <1>7, <2>1
    <2>3. Lost(heap, globals, due, o) = 0
        BY <1>10, LostNone
    <2>. QED  BY <1>1, <1>4, <1>5, <2>2, <2>3
<1>11. ASSUME NEW i \in 1..Len(due), due[i].do = "write"
       PROVE  /\ Cardinality(GlobalsKept(o)) \in Nat /\ Cardinality(SlotsKept(o)) \in Nat
              /\ Cardinality(GlobalsKept(o)) + Cardinality(SlotsKept(o)) + Lost(heap, globals, due, o)
                     = InGlobals(globals, o) + InItems(heap, MaxItems, o)
    <2>1. OnlyWrite(due, i) /\ WriteSound(heap, due, i)
        BY <1>8, <1>11 DEF OnlyWrite, Tasks
    <2>2. due[i] \in Task
        BY <1>8
    <2>3. PICK p \in Place : p = due[i].place
        BY <1>11, <2>2, TaskTypes
    <2>4. Overwritten = {p}
        BY <1>9, <2>1, <2>3 DEF Places, OnlyWrite
    <2>5. Lost(heap, globals, due, o) = Hits(At(heap, globals, p), o)
        BY <2>1, <2>3, LostOne
    <2>6. CASE p.in = None
        <3>1. p.at \in Global
            BY <2>6, PlaceTypes, HeapAssumption
        <3>2. Lost(heap, globals, due, o) = Hits(globals[p.at], o)
            BY <2>5, <2>6 DEF At
        <3>3. \A ci \in B : ci[1] \in Obj
            BY <1>3 DEF SlotsOf, Slots, AliveIn
        <3>4. \A ci \in B : [in |-> ci[1], at |-> ci[2]] # p
            BY <2>6, <3>3, PlaceParts, HeapAssumption
        <3>5. SlotsKept(o) = B
            BY <1>6, <2>4, <3>4
        <3>6. \A x : [in |-> None, at |-> x] = p <=> x = p.at
            BY <2>6, PlaceParts
        <3>7. GlobalsKept(o) = A \ {p.at}
            BY <1>7, <2>4, <3>6
        <3>8. p.at \in A <=> globals[p.at] = o
            BY <1>2, <3>1
        <3>9. Hits(globals[p.at], o) = If(p.at \in A)
            BY <3>8 DEF If, Hits
        <3>10. /\ Cardinality(A \ {p.at}) \in Nat
               /\ Cardinality(A) = Cardinality(A \ {p.at}) + If(p.at \in A)
            BY <1>4, Without
        <3>11. If(p.at \in A) \in Nat
            BY DEF If
        <3>. QED  BY <1>1, <1>4, <1>5, <3>2, <3>5, <3>7, <3>9, <3>10, <3>11
    <2>7. CASE p.in # None
        <3>1. p.in \in AliveIn(heap) /\ p.at \in 1..Len(heap[p.in].items)
            BY <2>1, <2>3, <2>7 DEF WriteSound
        <3>2. Lost(heap, globals, due, o) = Hits(heap[p.in].items[p.at], o)
            BY <2>5, <2>7 DEF At
        <3>3. GlobalsKept(o) = A
            <4>1. \A x : [in |-> None, at |-> x] # p
                BY <2>7, PlaceParts
            <4>. QED  BY <1>7, <2>4, <4>1
        <3>4. PICK s : s = << p.in, p.at >>
            OBVIOUS
        <3>5. \A ci \in B : ci = s <=> ci[1] = p.in /\ ci[2] = p.at
            <4>1. \A ci \in B : ci \in AliveIn(heap) \X (1..M)
                BY <1>3 DEF SlotsOf, Slots
            <4>. QED  BY <3>4, <4>1
        <3>6. \A ci \in B : [in |-> ci[1], at |-> ci[2]] = p <=> ci = s
            BY <3>5, PlaceParts
        <3>7. SlotsKept(o) = B \ {s}
            BY <1>6, <2>4, <3>6
        <3>8. s \in B <=> heap[p.in].items[p.at] = o
            <4>1. Fits(heap, M) /\ p.in \in Obj /\ heap[p.in] # Free
                BY <1>1, <3>1 DEF HInv, Sound, HeapOK, AliveIn
            <4>2. DOMAIN heap[p.in].items = 1..Len(heap[p.in].items) /\ Len(heap[p.in].items) \in 0..M
                BY <4>1, CellFacts
            <4>3. s \in AliveIn(heap) \X (1..M) /\ s[1] = p.in /\ s[2] = p.at
                BY <3>1, <3>4, <4>2
            <4>. QED  BY <1>3, <3>1, <4>2, <4>3 DEF SlotsOf, Slots
        <3>9. Hits(heap[p.in].items[p.at], o) = If(s \in B)
            BY <3>8 DEF If, Hits
        <3>10. /\ Cardinality(B \ {s}) \in Nat
               /\ Cardinality(B) = Cardinality(B \ {s}) + If(s \in B)
            BY <1>5, Without
        <3>11. If(s \in B) \in Nat
            BY DEF If
        <3>. QED  BY <1>1, <1>4, <1>5, <3>2, <3>3, <3>7, <3>9, <3>10, <3>11
    <2>. QED  BY <2>6, <2>7
<1>. QED  BY <1>10, <1>11

LEMMA DueCounts ==
    ASSUME HInv, NEW o \in Obj
    PROVE  Cardinality(DueRefs(o)) = Due(due, o)
<1>1. due \in Seq(Task) /\ DOMAIN due = 1..Len(due)
    BY DEF HInv, Sound
<1>2. DOMAIN Owed(due) = 1..Len(due) /\ \A i \in 1..Len(due) : Owed(due)[i] = Owes(due[i])
    BY DEF Owed
<1>3. \A i \in 1..Len(due) : Owes(due[i]) = o <=> due[i].do # "free" /\ due[i].ref = o
    BY HeapAssumption DEF Owes
<1>4. DueRefs(o) = {i \in DOMAIN Owed(due) : Owed(due)[i] = o}
    BY <1>1, <1>2, <1>3 DEF DueRefs
<1>. QED  BY <1>4 DEF Due, Count

(* The references there are, one by one, are the ones nrefs counts.         *)
LEMMA RefsCounted ==
    ASSUME HInv, NEW o \in Obj
    PROVE  RefsTo(o) = Nrefs(heap, o)
<1>1. RefsTo(o) = Count(stack, o) + Cardinality(GlobalsKept(o)) + Cardinality(SlotsKept(o))
                      + Cardinality(DueRefs(o))
    BY Zenon DEF RefsTo, GlobalsKept, SlotsKept, DueRefs
<1>2. PICK M \in Nat : M = MaxItems
    BY BoundNat DEF HInv
<1>3. Sound(heap, stack, globals, due, M)
    BY <1>2 DEF HInv
<1>4. PICK a \in Nat : a = Count(stack, o)
    BY <1>2, <1>3, Referred
<1>5. PICK b \in Nat : b = InGlobals(globals, o)
    BY <1>2, <1>3, Referred
<1>6. PICK c \in Nat : c = InItems(heap, M, o)
    BY <1>2, <1>3, Referred
<1>7. PICK d \in Nat : d = Due(due, o)
    BY <1>2, <1>3, Referred
<1>8. PICK n \in Nat : n = Nrefs(heap, o)
    BY <1>2, <1>3, Referred
<1>9. PICK l \in Nat : l = Lost(heap, globals, due, o)
    BY <1>2, <1>3, Referred
<1>10. PICK e \in Nat : e = Cardinality(GlobalsKept(o))
    BY KeptCounts
<1>11. PICK f \in Nat : f = Cardinality(SlotsKept(o))
    BY KeptCounts
<1>12. a + b + c + d = n + l
    <2>1. Count(stack, o) + InGlobals(globals, o) + InItems(heap, M, o) + Due(due, o)
              = Nrefs(heap, o) + Lost(heap, globals, due, o)
        BY <1>2, <1>3, Referred
    <2>. QED  BY <1>4, <1>5, <1>6, <1>7, <1>8, <1>9, <2>1, Zenon
<1>13. e + f + l = b + c
    <2>1. Cardinality(GlobalsKept(o)) + Cardinality(SlotsKept(o)) + Lost(heap, globals, due, o)
              = InGlobals(globals, o) + InItems(heap, MaxItems, o)
        BY KeptCounts
    <2>. QED  BY <1>2, <1>5, <1>6, <1>9, <1>10, <1>11, <2>1, Zenon
<1>14. a + e + f + d = n
    BY <1>12, <1>13
<1>15. Cardinality(DueRefs(o)) = d
    BY <1>7, DueCounts
<1>. QED  BY <1>1, <1>4, <1>8, <1>10, <1>11, <1>14, <1>15, Zenon

(* CountsExact: value_ref and value_unref keep nrefs the number of owning
   references, in the middle of a cascade too, and nothing refers to an
   address that is not allocated.                                           *)
THEOREM CountsAlwaysExact == Spec => []CountsExact
<1>1. HInv => CountsExact
    BY RefsCounted DEF CountsExact, Nrefs
<1>. QED  BY <1>1, HeapInvariant, PTL

-----------------------------------------------------------------------------
(* What a step may do to an object that is there before and after it.       *)

(* Every step but the one that drops an object's last reference leaves the
   targets alone, and the text of what has more than one reference, and no
   count becomes zero.                                                      *)
Mild(h, k) ==
    \A y \in Obj : k[y] # Free =>
        /\ h[y] # Free => /\ k[y].target = h[y].target
                          /\ k[y].text # h[y].text => h[y].nrefs = 1
        /\ k[y].nrefs = 0 => h[y] # Free /\ h[y].nrefs = 0

(* The same objects with the same text, counts and targets.                 *)
Unseen(h, k) ==
    \A y \in Obj : /\ k[y] = Free <=> h[y] = Free
                   /\ k[y].target = h[y].target /\ k[y].text = h[y].text /\ k[y].nrefs = h[y].nrefs

LEMMA UnseenMild ==
    ASSUME NEW h, NEW j, NEW k, Unseen(h, j), Mild(j, k)
    PROVE  Mild(h, k)
BY DEF Unseen, Mild

LEMMA SameMild == \A h : Mild(h, h)
BY DEF Mild

LEMMA AddedMild ==
    ASSUME NEW h \in [Obj -> Cell \union {Free}], NEW x \in Obj, h[x] = Free, NEW c, c.nrefs = 1
    PROVE  Mild(h, [h EXCEPT ![x] = c])
BY DEF Mild

LEMMA CountedMild ==
    ASSUME NEW h \in [Obj -> Cell \union {Free}], NEW r \in Ref, NEW n \in Int,
           r \in Obj => h[r] # Free /\ (n = 1 \/ h[r].nrefs + n # 0)
    PROVE  Mild(h, Counted(h, r, n))
<1>1. CASE r = Nil
    BY <1>1, SameMild DEF Counted
<1>2. CASE r # Nil
    <2>1. r \in Obj
        BY <1>2 DEF Ref
    <2>2. PICK k : k = [h EXCEPT ![r].nrefs = @ + n]
        OBVIOUS
    <2>3. \A y \in Obj : y # r => k[y] = h[y]
        BY <2>2
    <2>4. h[r] # Free => k[r].target = h[r].target /\ k[r].text = h[r].text /\ k[r].nrefs # 0
        <3>1. h[r] # Free => h[r] \in Cell
            BY <2>1
        <3>2. k[r] = [h[r] EXCEPT !.nrefs = @ + n]
            BY <2>1, <2>2
        <3>. QED  BY <2>1, <3>1, <3>2 DEF Cell
    <2>5. Mild(h, k)
        BY <2>3, <2>4 DEF Mild
    <2>. QED  BY <1>2, <2>2, <2>5 DEF Counted
<1>. QED  BY <1>1, <1>2

LEMMA RefilledUnseen ==
    ASSUME NEW h \in [Obj -> Cell \union {Free}], NEW c \in Obj, h[c] # Free, NEW q \in Seq(Ref)
    PROVE  Unseen(h, [h EXCEPT ![c].items = q])
<1>1. PICK k : k = [h EXCEPT ![c].items = q]
    OBVIOUS
<1>2. \A y \in Obj : y # c => k[y] = h[y]
    BY <1>1
<1>3. h[c] \in Cell /\ k[c] = [h[c] EXCEPT !.items = q]
    BY <1>1
<1>4. k[c].target = h[c].target /\ k[c].text = h[c].text /\ k[c].nrefs = h[c].nrefs /\ k[c] # Free
    <2>1. k[c] \in Cell /\ k[c].target = h[c].target /\ k[c].text = h[c].text /\ k[c].nrefs = h[c].nrefs
        BY <1>3 DEF Cell
    <2>. QED  BY <2>1, HeapAssumption
<1>5. Unseen(h, k)
    BY <1>2, <1>4 DEF Unseen
<1>. QED  BY <1>1, <1>5

LEMMA UnseenIsMild ==
    ASSUME NEW h, NEW k, Unseen(h, k)
    PROVE  Mild(h, k)
BY DEF Unseen, Mild

(* What an instruction finds.                                               *)
LEMMA HeapTyped ==
    ASSUME HInv
    PROVE  /\ heap \in [Obj -> Cell \union {Free}] /\ stack \in Seq(Ref)
           /\ globals \in [Global -> Ref \union {None}]
           /\ \A c \in Live : c \in Obj /\ heap[c] # Free /\ heap[c] \in Cell /\ heap[c].items \in Seq(Ref)
BY DEF HInv, Sound, HeapOK, Fits, Live, Cell

LEMMA GrownUnseen ==
    ASSUME HInv, NEW c, NEW i, Indexable(c, i)
    PROVE  Unseen(heap, Grown(heap, c, i)) /\ Grown(heap, c, i) \in [Obj -> Cell \union {Free}]
<1>1. c \in Obj /\ heap[c] # Free /\ heap[c] \in Cell /\ heap[c].items \in Seq(Ref)
    BY HeapTyped DEF Indexable, Is
<1>2. heap \in [Obj -> Cell \union {Free}]
    BY HeapTyped
<1>3. CASE i \in DOMAIN heap[c].items
    BY <1>2, <1>3 DEF Grown, Unseen
<1>4. CASE i \notin DOMAIN heap[c].items
    <2>1. PICK q : q = Append(heap[c].items, Nil)
        OBVIOUS
    <2>2. q \in Seq(Ref)
        BY <1>1, <2>1 DEF Ref
    <2>3. PICK k : k = [heap EXCEPT ![c].items = q]
        OBVIOUS
    <2>4. Grown(heap, c, i) = k
        BY <1>4, <2>1, <2>3 DEF Grown
    <2>5. Unseen(heap, k)
        BY <1>1, <1>2, <2>2, <2>3, RefilledUnseen
    <2>6. k \in [Obj -> Cell \union {Free}]
        <3>1. [heap[c] EXCEPT !.items = q] \in Cell
            BY <1>1, <2>2 DEF Cell
        <3>. QED  BY <1>1, <1>2, <2>3, <3>1
    <2>. QED  BY <2>4, <2>5, <2>6, Zenon
<1>. QED  BY <1>3, <1>4

LEMMA JoinedMild ==
    ASSUME HInv, NEW h \in [Obj -> Cell \union {Free}], Unseen(heap, h), NEW l \in Ref, NEW r,
           NEW x \in Obj, heap[x] = Free
    PROVE  Mild(heap, Joined(h, l, r, x))
<1>1. h[x] = Free
    BY DEF Unseen
<1>2. PICK t : t = TextOf(l) + TextOf(r)
    OBVIOUS
<1>3. PICK c : c = [Object("str") EXCEPT !.text = t]
    OBVIOUS
<1>4. PICK copy : copy = [h EXCEPT ![x] = c]
    OBVIOUS
<1>5. Joined(h, l, r, x) = IF InPlace(l) THEN [h EXCEPT ![l].text = t]
                           ELSE IF Is(l, {"str"}) THEN Counted(copy, l, -1)
                           ELSE copy
    BY <1>2, <1>3, <1>4 DEF Joined
<1>6. Is(l, {"str"}) => /\ l \in Obj /\ l # Nil /\ l # x
                        /\ h[l] \in Cell /\ h[l].nrefs = heap[l].nrefs
    BY HeapAssumption DEF Is, Live, Unseen
<1>7. CASE InPlace(l)
    <2>1. Is(l, {"str"}) /\ heap[l].nrefs = 1
        BY <1>7 DEF InPlace
    <2>2. PICK k : k = [h EXCEPT ![l].text = t]
        OBVIOUS
    <2>3. \A y \in Obj : y # l => k[y] = h[y]
        BY <2>2
    <2>4. k[l].target = h[l].target /\ k[l].nrefs = h[l].nrefs
        <3>1. k[l] = [h[l] EXCEPT !.text = t]
            BY <1>6, <2>1, <2>2
        <3>. QED  BY <1>6, <2>1, <3>1 DEF Cell
    <2>5. Mild(h, k)
        BY <1>6, <2>1, <2>3, <2>4 DEF Mild
    <2>. QED  BY <1>5, <1>7, <2>2, <2>5, UnseenMild
<1>8. CASE ~InPlace(l) /\ Is(l, {"str"})
    <2>1. PICK k : k = [copy EXCEPT ![l].nrefs = @ + -1]
        OBVIOUS
    <2>2. Joined(h, l, r, x) = k
        BY <1>5, <1>6, <1>8, <2>1 DEF Counted
    <2>3. \A y \in Obj : y # x => copy[y] = h[y]
        BY <1>4
    <2>4. \A y \in Obj : y # l => k[y] = copy[y]
        BY <1>4, <2>1
    <2>5. k[l].target = h[l].target /\ k[l].text = h[l].text /\ k[l].nrefs # 0
        <3>1. copy[l] \in Cell /\ copy[l] = h[l] /\ l \in Obj
            BY <1>6, <1>8, <2>3
        <3>2. k[l] = [copy[l] EXCEPT !.nrefs = @ + -1]
            BY <1>4, <2>1, <3>1
        <3>3. /\ k[l].target = copy[l].target /\ k[l].text = copy[l].text
              /\ k[l].nrefs = copy[l].nrefs - 1 /\ copy[l].nrefs \in Nat
            BY <3>1, <3>2 DEF Cell
        <3>4. h[l].nrefs # 1
            BY <1>6, <1>8 DEF InPlace
        <3>. QED  BY <3>1, <3>3, <3>4
    <2>6. copy[x].nrefs = 1 /\ x # l
        <3>1. copy[x] = c
            BY <1>4
        <3>. QED  BY <1>3, <1>6, <1>8, <3>1 DEF Object
    <2>7. Mild(h, k)
        BY <1>1, <2>3, <2>4, <2>5, <2>6 DEF Mild
    <2>. QED  BY <2>2, <2>7, UnseenMild
<1>9. CASE ~InPlace(l) /\ ~Is(l, {"str"})
    <2>1. c.nrefs = 1
        BY <1>3 DEF Object
    <2>2. Mild(h, copy)
        BY <1>1, <1>4, <2>1, AddedMild
    <2>. QED  BY <1>5, <1>9, <2>2, UnseenMild
<1>. QED  BY <1>7, <1>8, <1>9

LEMMA TopAlive ==
    ASSUME HInv, NEW ks, Is(Top, ks)
    PROVE  Top \in Obj /\ heap[Top] # Free /\ heap[Top].items \in Seq(Ref)
BY HeapTyped DEF Is, Live

LEMMA LoadsMild ==
    ASSUME HInv, \/ LoadNil \/ Wvalue \/ Throw \/ Destroy
                 \/ \E x \in Global : LoadGlobal(x) \/ StoreGlobal(x)
                 \/ \E i \in Nat : LoadAt(i)
                 \/ \E n \in 1..Len(stack) : PopN(n)
    PROVE  Mild(heap, heap')
<1>1. CASE LoadNil \/ Throw \/ Destroy
    BY <1>1, SameMild DEF LoadNil, Throw, Destroy, Instruct
<1>2. CASE Wvalue
    <2>1. PICK r : r = IF heap[Top].target = None THEN Nil ELSE heap[Top].target
        OBVIOUS
    <2>2. heap' = Counted(heap, r, 1)
        BY <1>2, <2>1 DEF Wvalue, Instruct, Reffed
    <2>3. r \in Ref
        <3>1. heap[Top] \in Cell
            BY <1>2, HeapTyped DEF Wvalue, Is
        <3>. QED  BY <2>1, <3>1 DEF Cell, Ref
    <2>4. r \in Obj => heap[r] # Free
        BY <1>2, <2>1, HeapAssumption, WvalueKeeps DEF AliveIn
    <2>. QED  BY <2>2, <2>3, <2>4, CountedMild, HeapTyped
<1>3. ASSUME NEW x \in Global, LoadGlobal(x)
      PROVE  Mild(heap, heap')
    <2>1. heap' = Counted(heap, globals[x], 1) /\ globals[x] # None
        BY <1>3 DEF LoadGlobal, Instruct, Reffed
    <2>2. globals[x] \in Ref
        BY <2>1, HeapTyped
    <2>3. globals[x] \in Obj => heap[globals[x]] # Free
        BY <1>3, IdleFacts DEF LoadGlobal, Settled, AliveIn
    <2>. QED  BY <2>1, <2>2, <2>3, CountedMild, HeapTyped
<1>4. ASSUME NEW x \in Global, StoreGlobal(x)
      PROVE  Mild(heap, heap')
    BY <1>4, SameMild DEF StoreGlobal, Instruct
<1>5. ASSUME NEW i \in Nat, LoadAt(i)
      PROVE  Mild(heap, heap')
    <2>1. heap' = Counted(heap, heap[Top].items[i], 1) /\ i \in DOMAIN heap[Top].items
        BY <1>5 DEF LoadAt, Instruct, Reffed
    <2>2. heap[Top].items \in Seq(Ref)
        BY <1>5, TopAlive DEF LoadAt
    <2>3. heap[Top].items[i] \in Ref
        BY <2>1, <2>2
    <2>4. MaxItems \in Nat /\ Settled(heap, stack, globals, MaxItems) /\ stack # <<>>
        BY <1>5, IdleFacts DEF LoadAt
    <2>5. heap[Top].items[i] \in Obj => heap[heap[Top].items[i]] # Free
        BY <1>5, <2>1, <2>4, TopContainer DEF LoadAt, AliveIn
    <2>. QED  BY <2>1, <2>3, <2>5, CountedMild, HeapTyped
<1>6. ASSUME NEW n \in 1..Len(stack), PopN(n)
      PROVE  Mild(heap, heap')
    BY <1>6, SameMild DEF PopN, Instruct
<1>. QED  BY <1>1, <1>2, <1>3, <1>4, <1>5, <1>6

LEMMA NewsMild ==
    ASSUME HInv, NEW o \in Obj, \/ NewString(o) \/ Wref(o)
                                \/ \E kind \in Containers, n \in 0..Len(stack) : NewContainer(o, kind, n)
    PROVE  Mild(heap, heap')
<1>1. heap \in [Obj -> Cell \union {Free}]
    BY HeapTyped
<1>2. heap[o] = Free
    BY DEF NewString, Wref, NewContainer, Room
<1>3. CASE NewString(o)
    <2>1. PICK c : c = [Object("str") EXCEPT !.text = 1]
        OBVIOUS
    <2>2. heap' = [heap EXCEPT ![o] = c]
        BY <1>3, <2>1 DEF NewString, Instruct
    <2>3. c.nrefs = 1
        BY <2>1 DEF Object
    <2>. QED  BY <1>1, <1>2, <2>2, <2>3, AddedMild
<1>4. ASSUME NEW kind \in Containers, NEW n \in 0..Len(stack), NewContainer(o, kind, n)
      PROVE  Mild(heap, heap')
    <2>1. PICK c : c = [Object(kind) EXCEPT !.items = Tops(stack, n)]
        OBVIOUS
    <2>2. heap' = [heap EXCEPT ![o] = c]
        BY <1>4, <2>1 DEF NewContainer, Instruct
    <2>3. c.nrefs = 1
        BY <2>1 DEF Object
    <2>. QED  BY <1>1, <1>2, <2>2, <2>3, AddedMild
<1>5. CASE Wref(o)
    <2>1. MaxItems \in Nat /\ Settled(heap, stack, globals, MaxItems) /\ stack # <<>>
        BY <1>5, IdleFacts DEF Wref
    <2>2. HeapOK(heap, MaxItems)
        BY <2>1 DEF Settled
    <2>3. Top \in ContainersIn(heap)
        <3>1. Top \in AliveIn(heap) /\ Top \in Obj
            BY <1>5, <2>1, TopContainer DEF Wref
        <3>. QED  BY <1>5, <3>1 DEF Wref, Is, ContainersIn
    <2>4. heap' = Chained(heap, o, Top)
        BY <1>5 DEF Wref, Instruct
    <2>5. Put(heap, heap', o, Top)
        BY <1>2, <2>1, <2>2, <2>3, <2>4, ChainedIs
    <2>. QED  BY <1>2, <2>5 DEF Put, Mild
<1>. QED  BY <1>3, <1>4, <1>5

LEMMA ItemsMild ==
    ASSUME HInv, Pop \/ \E i \in Nat : RemoveKey(i) \/ StoreAt(i) \/ ModifyAtThrows(i)
    PROVE  Mild(heap, heap')
<1>1. heap \in [Obj -> Cell \union {Free}]
    BY HeapTyped
<1>2. CASE Pop
    <2>1. PICK s : s = heap[Top].items
        OBVIOUS
    <2>2. /\ Top \in Obj /\ heap[Top] # Free /\ s \in Seq(Ref) /\ Len(s) >= 1
        <3>1. /\ Top \in Obj /\ heap[Top] # Free /\ s \in Seq(Ref) /\ s # <<>>
            BY <1>2, <2>1, TopAlive DEF Pop
        <3>. QED  BY <3>1
    <2>3. Drop(s, 1) \in Seq(Ref)
        BY <2>2, CountLast
    <2>4. heap' = [heap EXCEPT ![Top].items = Drop(s, 1)]
        BY <1>2, <2>1 DEF Pop, Instruct
    <2>. QED  BY <1>1, <2>2, <2>3, <2>4, RefilledUnseen, UnseenIsMild
<1>3. ASSUME NEW i \in Nat, RemoveKey(i)
      PROVE  Mild(heap, heap')
    <2>1. PICK s : s = heap[Top].items
        OBVIOUS
    <2>2. Top \in Obj /\ heap[Top] # Free /\ s \in Seq(Ref) /\ i \in DOMAIN s
        BY <1>3, <2>1, TopAlive DEF RemoveKey
    <2>3. i \in 1..Len(s) /\ Len(s) \in Nat
        BY <2>2
    <2>4. Last(s) \in Ref
        BY <2>2, <2>3 DEF Last
    <2>5. PICK q : q = [s EXCEPT ![i] = Last(s)]
        OBVIOUS
    <2>6. q \in Seq(Ref) /\ Len(q) >= 1
        BY <2>2, <2>3, <2>4, <2>5
    <2>7. Drop(q, 1) \in Seq(Ref)
        BY <2>6, CountLast
    <2>8. heap' = [heap EXCEPT ![Top].items = Drop(q, 1)]
        BY <1>3, <2>1, <2>5 DEF RemoveKey, Instruct
    <2>. QED  BY <1>1, <2>2, <2>7, <2>8, RefilledUnseen, UnseenIsMild
<1>4. ASSUME NEW i \in Nat, StoreAt(i) \/ ModifyAtThrows(i)
      PROVE  Mild(heap, heap')
    <2>1. Indexable(Second, i) /\ heap' = Grown(heap, Second, i)
        BY <1>4 DEF StoreAt, ModifyAtThrows, Instruct
    <2>2. Unseen(heap, heap')
        BY <2>1, GrownUnseen
    <2>. QED  BY <2>2, UnseenIsMild
<1>. QED  BY <1>2, <1>3, <1>4

LEMMA JoinsMild ==
    ASSUME HInv, NEW o \in Obj, \/ Concat(o) \/ \E x \in Global : ModifyGlobal(x, o)
                                \/ \E i \in Nat : ModifyAt(i, o)
    PROVE  Mild(heap, heap')
<1>1. heap \in [Obj -> Cell \union {Free}] /\ Unseen(heap, heap)
    BY HeapTyped DEF Unseen
<1>2. heap[o] = Free
    BY JoinableIs DEF Concat, ModifyGlobal, ModifyAt
<1>3. CASE Concat(o)
    <2>1. Second \in Ref
        BY <1>3, HeapTyped, SecondIs DEF Concat
    <2>2. heap' = Joined(heap, Second, Top, o)
        BY <1>3 DEF Concat, Instruct
    <2>. QED  BY <1>1, <1>2, <2>1, <2>2, JoinedMild
<1>4. ASSUME NEW x \in Global, ModifyGlobal(x, o)
      PROVE  Mild(heap, heap')
    <2>1. globals[x] \in Ref
        BY <1>4, HeapTyped DEF ModifyGlobal
    <2>2. heap' = Joined(heap, globals[x], Top, o)
        BY <1>4 DEF ModifyGlobal, Instruct
    <2>. QED  BY <1>1, <1>2, <2>1, <2>2, JoinedMild
<1>5. ASSUME NEW i \in Nat, ModifyAt(i, o)
      PROVE  Mild(heap, heap')
    <2>1. Indexable(Second, i) /\ Idle /\ Len(stack) >= 2
        BY <1>5 DEF ModifyAt
    <2>2. PICK h : h = Grown(heap, Second, i)
        OBVIOUS
    <2>3. PICK l : l = h[Second].items[i]
        OBVIOUS
    <2>4. Unseen(heap, h) /\ h \in [Obj -> Cell \union {Free}]
        BY <2>1, <2>2, GrownUnseen
    <2>5. l \in Ref
        BY <2>1, <2>2, <2>3, SecondGrown DEF GrownOK
    <2>6. heap' = Joined(h, l, Top, o)
        BY <1>5, <2>2, <2>3 DEF ModifyAt, Instruct
    <2>. QED  BY <1>2, <2>4, <2>5, <2>6, JoinedMild
<1>. QED  BY <1>3, <1>4, <1>5

(* Every step is mild or drops the last reference to an object, which then
   dies.                                                                    *)
LastDrop(r) == /\ r \in AliveIn(heap) /\ heap[r].nrefs = 1 /\ Died(heap, r, heap')

LEMMA NextIsMild ==
    ASSUME HInv, Next
    PROVE  Mild(heap, heap') \/ (DropRef /\ \E r : LastDrop(r) /\ Frees(due', r))
<1>1. CASE DropRef
    <2>1. ASSUME heap' = Counted(heap, Head(due).ref, -1),
                 Head(due).ref \in Obj => heap[Head(due).ref] # Free /\ heap[Head(due).ref].nrefs + -1 # 0
          PROVE  Mild(heap, heap')
        <3>1. Head(due).ref \in Ref
            BY <1>1, FirstDrop
        <3>. QED  BY <2>1, <3>1, HeapTyped, CountedMild
    <2>. QED  BY <1>1, <2>1, DropRefKeeps DEF LastDrop
<1>2. CASE FreeBlock
    BY <1>2, HeapTyped DEF FreeBlock, Mild
<1>3. CASE Overwrite
    BY <1>3, OverwriteKeeps DEF Mild
<1>4. MaxItems \in Nat
    BY BoundNat DEF HInv
<1>5. CASE \/ LoadNil \/ Wvalue \/ Throw \/ Destroy
           \/ \E x \in Global : LoadGlobal(x) \/ StoreGlobal(x)
           \/ \E i \in 1..MaxItems : LoadAt(i)
           \/ \E n \in 1..Len(stack) : PopN(n)
    BY <1>4, <1>5, LoadsMild
<1>6. CASE \/ Pop
           \/ \E i \in 1..MaxItems : RemoveKey(i) \/ StoreAt(i) \/ ModifyAtThrows(i)
    BY <1>4, <1>6, ItemsMild
<1>7. ASSUME NEW o \in Obj, \/ NewString(o) \/ Wref(o)
                            \/ \E kind \in Containers, n \in 0..Len(stack) : NewContainer(o, kind, n)
      PROVE  Mild(heap, heap')
    BY <1>7, NewsMild
<1>8. ASSUME NEW o \in Obj, \/ Concat(o) \/ \E x \in Global : ModifyGlobal(x, o)
                            \/ \E i \in 1..MaxItems : ModifyAt(i, o)
      PROVE  Mild(heap, heap')
    BY <1>4, <1>8, JoinsMild
<1>. QED  BY <1>1, <1>2, <1>3, <1>5, <1>6, <1>7, <1>8 DEF Next, Continue

(* StringsImmutable: perform_aop appends in place only to a string that the
   operand is the one reference to.                                         *)
THEOREM SharedStringsKept == Spec => StringsImmutable
<1>1. HInv /\ [Next]_vars =>
             [\A o \in Live :
                 heap'[o] # Free /\ heap[o].kind = "str" /\ heap'[o].kind = "str"
                 /\ heap'[o].text # heap[o].text
                     => RefsTo(o) = 1]_vars
    <2>1. SUFFICES ASSUME HInv, Next, NEW o \in Live, heap'[o] # Free, heap'[o].text # heap[o].text
                   PROVE  RefsTo(o) = 1
        OBVIOUS
    <2>2. o \in Obj /\ heap[o] # Free
        BY DEF Live
    <2>3. CASE Mild(heap, heap')
        <3>1. heap[o].nrefs = 1
            BY <2>1, <2>2, <2>3 DEF Mild
        <3>. QED  BY <2>1, <2>2, <3>1, RefsCounted DEF Nrefs
    <2>4. ASSUME NEW r, LastDrop(r)
          PROVE  FALSE
        BY <2>1, <2>2, <2>4 DEF LastDrop, Died, Remains
    <2>. QED  BY <2>1, <2>3, <2>4, NextIsMild
<1>. QED  BY <1>1, HeapInvariant, PTL DEF Spec, StringsImmutable

(* ForgetsTheDead: wrefable_invalidate, run when the last reference is
   dropped, is what clears the target of a weak reference.                  *)
THEOREM TargetsForgotten == Spec => ForgetsTheDead
<1>1. HInv /\ [Next]_vars =>
             [\A w \in Wrefs :
                 LET o == heap[w].target
                 IN  o # None /\ heap'[w] # Free /\ heap'[w].target # o
                       => heap'[w].target = None /\ heap[o].nrefs = 1 /\ heap'[o].nrefs = 0]_vars
    <2>1. SUFFICES ASSUME HInv, Next, NEW w \in Wrefs, heap'[w] # Free, heap'[w].target # heap[w].target
                   PROVE  /\ heap'[w].target = None /\ heap[heap[w].target].nrefs = 1
                          /\ heap'[heap[w].target].nrefs = 0
        OBVIOUS
    <2>2. w \in Obj /\ heap[w] # Free /\ w \in WrefsIn(heap)
        BY DEF Wrefs, WrefsIn, AliveIn, Live
    <2>3. CASE Mild(heap, heap')
        BY <2>1, <2>2, <2>3 DEF Mild
    <2>4. ASSUME NEW r, LastDrop(r)
          PROVE  /\ heap'[w].target = None /\ heap[heap[w].target].nrefs = 1
                 /\ heap'[heap[w].target].nrefs = 0
        BY <2>1, <2>2, <2>4 DEF LastDrop, Died, Remains
    <2>. QED  BY <2>1, <2>3, <2>4, NextIsMild
<1>. QED  BY <1>1, HeapInvariant, PTL DEF Spec, ForgetsTheDead
-----------------------------------------------------------------------------
(* What leaks.                                                              *)

(* What is dead is on its way to be freed.                                  *)
DeadFreed == \A o \in Obj : heap[o] # Free /\ heap[o].nrefs = 0 => Frees(due, o)

LEMMA DeadFreedKept ==
    ASSUME HInv, DeadFreed, [Next]_vars
    PROVE  DeadFreed'
<1>. SUFFICES ASSUME NEW o \in Obj, heap'[o] # Free, heap'[o].nrefs = 0
              PROVE  Frees(due', o)
    BY DEF DeadFreed
<1>1. CASE UNCHANGED vars
    BY <1>1 DEF vars, DeadFreed
<1>2. ASSUME Mild(heap, heap')
      PROVE  Frees(due, o)
    BY <1>2 DEF Mild, DeadFreed
<1>3. due \in Seq(Task) /\ (due # <<>> => Cut(due, Head(due), Tail(due)))
    BY CutIs DEF HInv, Sound
<1>4. CASE DropRef
    <2>1. \A x \in Obj : Frees(due, x) => Frees(due', x)
        BY <1>4, DropRefKeeps
    <2>2. CASE Mild(heap, heap')
        BY <1>2, <2>1, <2>2
    <2>3. ASSUME ~Mild(heap, heap') PROVE Frees(due', o)
        <3>1. PICK r : r \in AliveIn(heap) /\ Died(heap, r, heap') /\ Frees(due', r)
            BY <1>4, <2>3, NextIsMild DEF LastDrop, Next, Continue
        <3>2. o # r => heap[o] # Free /\ heap[o].nrefs = 0
            BY <3>1 DEF Died, Remains
        <3>. QED  BY <2>1, <3>1, <3>2 DEF DeadFreed
    <2>. QED  BY <2>2, <2>3
<1>5. CASE FreeBlock
    <2>1. Mild(heap, heap') /\ Frees(due, o)
        BY <1>2, <1>5, HeapTyped DEF FreeBlock, Mild
    <2>2. Head(due) # Release(o)
        <3>1. SUFFICES ASSUME Head(due) = Release(o) PROVE FALSE
            OBVIOUS
        <3>2. Head(due).ref = o
            <4>1. Release(o).ref = o
                BY DEF Release
            <4>. QED  BY <3>1, <4>1, Zenon
        <3>3. heap' = [heap EXCEPT ![o] = Free]
            BY <1>5, <3>2, Zenon DEF FreeBlock
        <3>. QED  BY <3>3, HeapTyped
    <2>3. due' = Tail(due) /\ due # <<>>
        BY <1>5 DEF FreeBlock
    <2>. QED  BY <1>3, <2>1, <2>2, <2>3, FreesRest
<1>6. CASE Overwrite
    <2>1. Mild(heap, heap') /\ Frees(due, o)
        BY <1>2, <1>6, OverwriteKeeps DEF Mild
    <2>2. Head(due) # Release(o)
        BY <1>6 DEF Overwrite, Release
    <2>3. due' = Tail(due) /\ due # <<>>
        BY <1>6 DEF Overwrite
    <2>. QED  BY <1>3, <2>1, <2>2, <2>3, FreesRest
<1>7. CASE Next /\ ~Continue
    <2>1. due = <<>>
        BY <1>7 DEF Next, Continue, LoadNil, Pop, Wvalue, Throw, Destroy, LoadGlobal, StoreGlobal,
                    ModifyGlobal, NewString, Wref, Concat, NewContainer, LoadAt, StoreAt, RemoveKey,
                    ModifyAtThrows, ModifyAt, PopN, Idle
    <2>2. Mild(heap, heap')
        BY <1>7, NextIsMild DEF Continue
    <2>3. ~Frees(due, o)
        BY <2>1 DEF Frees
    <2>. QED  BY <1>2, <2>2, <2>3
<1>. QED  BY <1>1, <1>4, <1>5, <1>6, <1>7 DEF Continue

(* The items of the objects in R, and of those in turn.                      *)
ItemsOf(R) == UNION {Items(o) : o \in R}
Closed(R)  == ItemsOf(R) \subseteq R

Reaches(c, N, S) ==
    c = [n \in 0..N |-> IF n = 0 THEN S
                        ELSE LET R == c[n - 1] IN R \union UNION {Items(o) : o \in R}]

LEMMA ReachesExists ==
    ASSUME NEW N \in Nat, NEW A
    PROVE  \E c : Reaches(c, N, A)
<1>. DEFINE S == {n \in Nat : ~ \E c : Reaches(c, n, A)}
<1>. SUFFICES ASSUME S # {} PROVE FALSE
    OBVIOUS
<1>1. PICK m \in S : \A n \in S : m <= n
    <2>1. S \subseteq Nat
        OBVIOUS
    <2>. HIDE DEF S
    <2>. QED  BY <2>1, LeastNat
<1>2. m \in Nat /\ ~ \E c : Reaches(c, m, A)
    BY <1>1
<1>3. CASE m = 0
    <2>1. PICK c : c = [n \in 0..0 |-> A]
        OBVIOUS
    <2>2. c = [n \in 0..0 |-> IF n = 0 THEN A
                        ELSE LET R == c[n - 1] IN R \union UNION {Items(o) : o \in R}]
        BY <2>1
    <2>3. Reaches(c, 0, A)
        BY <2>2 DEF Reaches
    <2>. QED  BY <1>2, <1>3, <2>3
<1>4. CASE m # 0
    <2>1. m - 1 \in Nat /\ m - 1 \notin S
        BY <1>1, <1>2, <1>4
    <2>2. PICK b : Reaches(b, m - 1, A)
        BY <2>1
    <2>3. PICK x : x = b[m - 1] \union ItemsOf(b[m - 1])
        OBVIOUS
    <2>4. PICK c : c = [n \in 0..m |-> IF n = m THEN x ELSE b[n]]
        OBVIOUS
    <2>5. c[m] = x /\ \A n \in 0..(m - 1) : c[n] = b[n]
        BY <1>2, <1>4, <2>4
    <2>6. \A n \in 0..(m - 1) : b[n] = IF n = 0 THEN A ELSE b[n - 1] \union ItemsOf(b[n - 1])
        BY <2>2 DEF Reaches, ItemsOf
    <2>7. \A n \in 0..m : c[n] = IF n = 0 THEN A ELSE c[n - 1] \union ItemsOf(c[n - 1])
        <3>. TAKE n \in 0..m
        <3>1. CASE n = m
            <4>1. m - 1 \in 0..(m - 1) /\ m # 0
                BY <1>2, <1>4
            <4>. QED  BY <2>3, <2>5, <3>1, <4>1
        <3>2. CASE n # m
            <4>1. n \in 0..(m - 1) /\ (n # 0 => n - 1 \in 0..(m - 1))
                BY <1>2, <3>2
            <4>. QED  BY <2>5, <2>6, <4>1
        <3>. QED  BY <3>1, <3>2
    <2>8. Reaches(c, m, A)
        <3>1. c = [n \in 0..m |-> c[n]]
            BY <2>4
        <3>2. c = [n \in 0..m |-> IF n = 0 THEN A
                        ELSE LET R == c[n - 1] IN R \union UNION {Items(o) : o \in R}]
            BY <2>7, <3>1 DEF ItemsOf
        <3>. QED  BY <3>2 DEF Reaches
    <2>. QED  BY <1>2, <2>8
<1>. QED  BY <1>3, <1>4

LEMMA ReachedIs ==
    ASSUME NEW S
    PROVE  \E c : /\ ReachedFrom(S) = c[Cardinality(Obj)] /\ c[0] = S
                  /\ \A n \in 1..Cardinality(Obj) : c[n] = c[n - 1] \union ItemsOf(c[n - 1])
<1>1. Cardinality(Obj) \in Nat
    BY HeapAssumption, FS_CardinalityType
<1>2. \E c : Reaches(c, Cardinality(Obj), S)
    BY <1>1, ReachesExists
<1>3. PICK c : c = CHOOSE b : Reaches(b, Cardinality(Obj), S)
    OBVIOUS
<1>4. Reaches(c, Cardinality(Obj), S)
    BY <1>2, <1>3
<1>5. ReachedFrom(S) = c[Cardinality(Obj)]
    BY <1>3 DEF ReachedFrom, Reaches
<1>6. c[0] = S /\ \A n \in 1..Cardinality(Obj) : c[n] = c[n - 1] \union ItemsOf(c[n - 1])
    <2>1. PICK N \in Nat : N = Cardinality(Obj)
        BY <1>1
    <2>2. \A n \in 0..N : c[n] = IF n = 0 THEN S ELSE c[n - 1] \union ItemsOf(c[n - 1])
        BY <1>4, <2>1 DEF Reaches, ItemsOf
    <2>3. 0 \in 0..N /\ \A n \in 1..N : n \in 0..N /\ n # 0
        OBVIOUS
    <2>. QED  BY <2>1, <2>2, <2>3
<1>. QED  BY <1>5, <1>6

(* In A, which is closed, as many steps as there are objects reach all there
   is to reach from S, and nothing else.                                    *)
LEMMA ReachedFacts ==
    ASSUME NEW A, A \subseteq Obj, Closed(A), NEW S, S \subseteq A
    PROVE  /\ S \subseteq ReachedFrom(S) /\ ReachedFrom(S) \subseteq A
           /\ Closed(ReachedFrom(S))
           /\ \A T : S \subseteq T /\ Closed(T) => ReachedFrom(S) \subseteq T
<1>1. PICK N : N = Cardinality(Obj)
    OBVIOUS
<1>2. N \in Nat /\ IsFiniteSet(Obj)
    BY <1>1, HeapAssumption, FS_CardinalityType
<1>3. PICK c : /\ ReachedFrom(S) = c[N] /\ c[0] = S
               /\ \A n \in 1..N : c[n] = c[n - 1] \union ItemsOf(c[n - 1])
    BY <1>1, ReachedIs
<1>. DEFINE P(n) == /\ S \subseteq c[n] /\ c[n] \subseteq A
                    /\ Closed(c[n]) \/ Cardinality(c[n]) > n
                    /\ \A T : S \subseteq T /\ Closed(T) => c[n] \subseteq T
            B == {n \in 0..N : ~P(n)}
<1>4. P(0)
    <2>1. Closed(S) \/ Cardinality(S) > 0
        <3>1. CASE S = {}
            BY <3>1 DEF Closed, ItemsOf
        <3>2. CASE S # {}
            <4>1. S \in SUBSET Obj
                OBVIOUS
            <4>2. IsFiniteSet(S)
                BY <1>2, <4>1, FS_Subset
            <4>3. Cardinality(S) \in Nat /\ Cardinality(S) # 0
                BY <3>2, <4>2, FS_CardinalityType, FS_EmptySet
            <4>. QED  BY <4>3
        <3>. QED  BY <3>1, <3>2
    <2>. QED  BY <1>3, <2>1
<1>5. ASSUME NEW n \in 1..N, P(n - 1)
      PROVE  P(n)
    <2>1. PICK R, Q : R = c[n - 1] /\ Q = c[n] /\ Q = R \union ItemsOf(R)
        BY <1>3
    <2>2. S \subseteq R /\ R \subseteq A /\ (Closed(R) \/ Cardinality(R) > n - 1)
        BY <1>5, <2>1
    <2>3. ItemsOf(R) \subseteq ItemsOf(A)
        BY <2>2 DEF ItemsOf
    <2>4. S \subseteq Q /\ Q \subseteq A
        BY <2>1, <2>2, <2>3 DEF Closed
    <2>5. ASSUME NEW T, S \subseteq T, Closed(T)
          PROVE  Q \subseteq T
        <3>1. R \subseteq T
            BY <1>5, <2>1, <2>5
        <3>2. ItemsOf(R) \subseteq ItemsOf(T)
            BY <3>1 DEF ItemsOf
        <3>. QED  BY <2>1, <2>5, <3>1, <3>2 DEF Closed
    <2>6. Closed(Q) \/ Cardinality(Q) > n
        <3>1. CASE Closed(R)
            <4>1. Q = R
                BY <2>1, <3>1 DEF Closed
            <4>. QED  BY <3>1, <4>1
        <3>2. CASE ~Closed(R)
            <4>1. Q # R /\ R \in SUBSET Q /\ Q \in SUBSET Obj
                BY <2>1, <2>4, <3>2 DEF Closed
            <4>2. IsFiniteSet(Q)
                BY <1>2, <4>1, FS_Subset
            <4>3. /\ IsFiniteSet(R) /\ Cardinality(R) <= Cardinality(Q)
                  /\ Cardinality(R) # Cardinality(Q)
                BY <4>1, <4>2, FS_Subset
            <4>4. Cardinality(R) \in Nat /\ Cardinality(Q) \in Nat /\ Cardinality(R) > n - 1
                BY <2>2, <3>2, <4>2, <4>3, FS_CardinalityType
            <4>. QED  BY <1>2, <4>3, <4>4
        <3>. QED  BY <3>1, <3>2
    <2>. QED  BY <2>1, <2>4, <2>5, <2>6
<1>6. P(N)
    <2>. SUFFICES ASSUME B # {} PROVE FALSE
        BY <1>2
    <2>1. B \subseteq Nat
        BY <1>2
    <2>2. PICK m \in B : \A n \in B : m <= n
        <3>. HIDE DEF B
        <3>. QED  BY <2>1, LeastNat
    <2>3. m \in 0..N /\ ~P(m)
        BY <2>2
    <2>4. m # 0
        BY <1>4, <2>3
    <2>5. m \in 1..N /\ m - 1 \in 0..N /\ m - 1 \notin B
        BY <1>2, <2>2, <2>3, <2>4
    <2>6. P(m - 1)
        BY <2>5
    <2>7. P(m)
        <3>. HIDE DEF P
        <3>. QED  BY <1>5, <2>5, <2>6
    <2>. QED  BY <2>3, <2>7
<1>7. Closed(c[N])
    <2>1. c[N] \in SUBSET Obj
        BY <1>6
    <2>2. IsFiniteSet(c[N]) /\ Cardinality(c[N]) <= N
        BY <1>1, <1>2, <2>1, FS_Subset
    <2>3. ~ (Cardinality(c[N]) > N)
        BY <1>2, <2>2, FS_CardinalityType
    <2>. QED  BY <1>6, <2>3
<1>. QED  BY <1>3, <1>6, <1>7

(* What refers to an object between two instructions.                        *)
LEMMA ReferrerIs ==
    ASSUME HInv, DeadFreed, due = <<>>
    PROVE  /\ Live = AliveIn(heap) /\ Live \subseteq Obj /\ Closed(Live)
           /\ \A o \in Live : o \in Roots \/ \E p \in Live : o \in Items(p)
<1>1. PICK M \in Nat : M = MaxItems
    BY BoundNat DEF HInv
<1>2. Settled(heap, stack, globals, M)
    BY <1>1, SettledIs DEF HInv
<1>3. HeapOK(heap, M) /\ Fits(heap, M)
    BY <1>2 DEF Settled, HeapOK
<1>4. Live = AliveIn(heap)
    <2>1. \A o : ~Frees(due, o)
        BY DEF Frees
    <2>2. \A o \in Live : heap[o].nrefs \in Nat /\ heap[o].nrefs # 0
        BY <1>3, <2>1, CellFacts DEF Live, DeadFreed
    <2>. QED  BY <2>2 DEF Live, AliveIn
<1>5. ASSUME NEW p \in Live PROVE Items(p) \subseteq Live
    <2>1. p \in AliveIn(heap) /\ p \in Obj /\ heap[p] # Free
        BY <1>4, <1>5 DEF Live
    <2>2. heap[p].items \in Seq(Ref) /\ DOMAIN heap[p].items = 1..Len(heap[p].items)
        BY <1>3, <2>1, CellFacts
    <2>3. \A i \in 1..Len(heap[p].items) : heap[p].items[i] \in Obj => heap[p].items[i] \in AliveIn(heap)
        BY <1>2, <2>1 DEF Settled
    <2>4. \A i \in 1..Len(heap[p].items) : heap[p].items[i] = Nil \/ heap[p].items[i] \in Obj
        BY <2>2, ElementOfSeq DEF Ref
    <2>. QED  BY <1>4, <2>2, <2>3, <2>4 DEF Items
<1>6. Closed(Live)
    BY <1>5 DEF Closed, ItemsOf
<1>7. ASSUME NEW o \in Live, o \notin Roots
      PROVE  \E p \in Live : o \in Items(p)
    <2>1. o \in Obj /\ o \in AliveIn(heap)
        BY <1>4, <1>7 DEF Live
    <2>2. Nrefs(heap, o) \in Nat /\ Nrefs(heap, o) # 0
        BY <1>3, <2>1, NrefsNat DEF AliveIn
    <2>3. stack \in Seq(Ref) /\ Nrefs(heap, o) = Count(stack, o) + InGlobals(globals, o) + InItems(heap, M, o)
        BY <1>2, <2>1 DEF Settled, Exact
    <2>4. Count(stack, o) = 0
        <3>1. \A i \in 1..Len(stack) : stack[i] # o
            <4>1. DOMAIN stack = 1..Len(stack)
                BY <2>3
            <4>. QED  BY <1>7, <4>1 DEF Roots, ToSet
        <3>. QED  BY <2>3, <3>1, CountFacts
    <2>5. InGlobals(globals, o) = 0
        <3>1. {g \in Global : globals[g] = o} = {}
            BY <1>7 DEF Roots
        <3>. QED  BY <3>1, FS_EmptySet DEF InGlobals
    <2>6. InItems(heap, M, o) # 0
        BY <2>2, <2>3, <2>4, <2>5, SlotsFinite
    <2>7. PICK ci \in Slots(heap, M) : heap[ci[1]].items[ci[2]] = o
        <3>1. {ci \in Slots(heap, M) : heap[ci[1]].items[ci[2]] = o} # {}
            BY <2>6, FS_EmptySet DEF InItems
        <3>. QED  BY <3>1
    <2>8. ci[1] \in Live /\ ci[2] \in DOMAIN heap[ci[1]].items
        BY <1>4, <2>7 DEF Slots
    <2>9. o \in Items(ci[1])
        BY <2>1, <2>7, <2>8, HeapAssumption DEF Items
    <2>. QED  BY <2>8, <2>9
<1>. QED  BY <1>4, <1>6, <1>7 DEF Live

LEMMA NoOtherLeak ==
    ASSUME HInv, DeadFreed, due = <<>>
    PROVE  Live = ReachedFrom(Roots \union Cyclic)
<1>. DEFINE D(o) == ReachedFrom(Items(o))
<1>1. Live \subseteq Obj /\ Closed(Live)
    BY ReferrerIs
<1>2. \A o \in Live : Items(o) \subseteq Live
    BY <1>1 DEF Closed, ItemsOf
<1>3. PICK R : R = ReachedFrom(Roots \union Cyclic)
    OBVIOUS
<1>4. R \subseteq Live /\ Closed(R) /\ Roots \subseteq R /\ Cyclic \subseteq R
    <2>1. Roots \union Cyclic \subseteq Live
        BY DEF Roots, Cyclic
    <2>. QED  BY <1>1, <1>3, <2>1, ReachedFacts
<1>5. ASSUME NEW o \in Live
      PROVE  /\ Items(o) \subseteq D(o) /\ D(o) \subseteq Live /\ Closed(D(o))
             /\ \A T : Items(o) \subseteq T /\ Closed(T) => D(o) \subseteq T
    BY <1>1, <1>2, <1>5, ReachedFacts
<1>6. \A o \in Live : o \in D(o) => o \in Cyclic
    BY DEF Cyclic
<1>. HIDE DEF D
<1>7. PICK N \in Nat : N = Cardinality(Obj) /\ IsFiniteSet(Obj)
    BY HeapAssumption, FS_CardinalityType
<1>8. \A o \in Live : IsFiniteSet(D(o)) /\ Cardinality(D(o)) \in 0..N
    <2>. TAKE o \in Live
    <2>1. D(o) \in SUBSET Obj
        BY <1>1, <1>5
    <2>2. IsFiniteSet(D(o)) /\ Cardinality(D(o)) <= N
        BY <1>7, <2>1, FS_Subset
    <2>. QED  BY <2>2, FS_CardinalityType
<1>9. SUFFICES ASSUME Live \ R # {} PROVE FALSE
    BY <1>3, <1>4
<1>. DEFINE W == {N - Cardinality(D(u)) : u \in Live \ R}
<1>10. W \subseteq Nat /\ W # {}
    BY <1>8, <1>9
<1>11. PICK w \in W : \A v \in W : w <= v
    <2>. HIDE DEF W
    <2>. QED  BY <1>10, LeastNat
<1>12. PICK o \in Live \ R : w = N - Cardinality(D(o))
    BY <1>11
<1>13. PICK p \in Live : o \in Items(p)
    BY <1>4, <1>12, ReferrerIs
<1>14. p \in Live \ R
    <2>. SUFFICES ASSUME p \in R PROVE FALSE
        OBVIOUS
    <2>1. o \in R
        BY <1>4, <1>13 DEF Closed, ItemsOf
    <2>. QED  BY <1>12, <2>1
<1>15. o \in D(p) /\ D(o) \subseteq D(p)
    <2>1. o \in D(p)
        BY <1>5, <1>13
    <2>2. Items(o) \subseteq D(p)
        BY <1>5, <1>13, <2>1 DEF Closed, ItemsOf
    <2>. QED  BY <1>5, <1>12, <1>13, <2>1, <2>2
<1>16. o \notin D(o)
    BY <1>4, <1>6, <1>12
<1>17. Cardinality(D(o)) < Cardinality(D(p))
    <2>1. D(o) \in SUBSET D(p) /\ D(o) # D(p)
        BY <1>15, <1>16
    <2>2. Cardinality(D(o)) <= Cardinality(D(p)) /\ Cardinality(D(o)) # Cardinality(D(p))
        BY <1>8, <1>14, <2>1, FS_Subset
    <2>. QED  BY <1>8, <1>12, <1>14, <2>2
<1>18. w <= N - Cardinality(D(p))
    BY <1>11, <1>14
<1>. QED  BY <1>8, <1>12, <1>14, <1>17, <1>18

(* OnlyCyclesLeak: between two instructions, and after state_destroy, what
   neither a root nor a cycle of lists and dicts leads to has been freed. An
   object that is there has a referrer; going from referrer to referrer, all
   of them out of reach, could not end but in a cycle.                      *)
THEOREM CyclesAloneLeak == Spec => []OnlyCyclesLeak
<1>1. Init => DeadFreed
    BY DEF Init, DeadFreed
<1>2. HInv /\ DeadFreed /\ [Next]_vars => DeadFreed'
    BY DeadFreedKept
<1>3. HInv /\ DeadFreed => OnlyCyclesLeak
    BY NoOtherLeak DEF OnlyCyclesLeak
<1>. QED  BY <1>1, <1>2, <1>3, HeapInvariant, PTL DEF Spec
=============================================================================
