--------------------------- MODULE EvalStackProofs ---------------------------
(***************************************************************************)
(* Proofs about EvalStack for every program and every bound.               *)
(***************************************************************************)
EXTENDS EvalStack, SequenceTheorems, TLAPS

(* What a call site remembers of the caller, whose own site is `caller`.     *)
SiteOK(caller, site) ==
    LET ip == site.callIp
    IN  /\ ip \in Ip /\ ip.fn = caller.callee
        /\ ip.nargs < ip.depth
        /\ ip.depth <= Shape[caller.callee].maxstack
        /\ site.prevConsts = Shape[caller.callee].chunk
        /\ site.bottom = OperandsStart(caller) + ip.depth - ip.nargs
        /\ site.prevOff \in {Wild, caller.bottom}

(* What holds of one scratch pad in every reachable state: enough of its
   layout to compute, from the call stack alone, where every frame is.      *)
SitesOK(p) ==
    /\ p.cs # <<>>
    /\ p.cs[1].callIp = NullIp /\ p.cs[1].bottom = 1
    /\ \A i, j \in 1..Len(p.cs) : i < j => OperandsStart(p.cs[i]) < p.cs[j].bottom
    /\ \A i \in 2..Len(p.cs) : SiteOK(p.cs[i - 1], p.cs[i])

RoomOK(p) ==
    /\ Len(p.slots) <= p.cap
    /\ \A i \in 1..Len(p.cs) :
          OperandsStart(p.cs[i]) + Shape[p.cs[i].callee].maxstack <= p.cap

PinnedOK(p) ==
    \A i \in 1..Len(p.cs) :
        p.cs[i].bottom \in 1..Len(p.slots) /\ p.slots[p.cs[i].bottom] = p.cs[i].callee

TopAt(p, start) ==
    IF p.wait = 0
    THEN Len(p.slots) = start + p.ip.depth
    ELSE /\ p.ip.nargs < p.ip.depth
         /\ Len(p.slots) = start + p.ip.depth - p.ip.nargs + p.wait - 1

TopOK(p) ==
    LET site == p.cs[Len(p.cs)]
    IN  /\ p.ip.fn = site.callee /\ p.consts = Shape[site.callee].chunk
        /\ p.ip.depth <= Shape[site.callee].maxstack
        /\ TopAt(p, OperandsStart(site))
        /\ p.locals.blk <= p.blk
        /\ p.locals.blk = p.blk => p.locals.off \in {Wild, site.bottom}

PadOK(p) == /\ p \in ScratchPad
            /\ SitesOK(p) /\ RoomOK(p) /\ PinnedOK(p) /\ TopOK(p)

-----------------------------------------------------------------------------
(* Sequences.                                                               *)

(* Sums of offsets in a frame.                                              *)
LEMMA OverTheCall ==
    ASSUME NEW l \in Nat, NEW a \in Nat, NEW m \in Nat, NEW x \in Nat,
           NEW w \in Nat, l = a + m - x + w - 1
    PROVE  l - w + 1 = a + (m - x)
OBVIOUS

LEMMA WithPassed ==
    ASSUME NEW l \in Nat, NEW a \in Nat, NEW m \in Nat, NEW x \in Nat,
           NEW n \in Nat, l = a + m, x < m
    PROVE  l - x + n = a + m - x + (n + 1) - 1 /\ l - x + n >= a /\ n + 1 # 0
OBVIOUS

LEMMA LocalInFrame ==
    ASSUME NEW l \in Nat, NEW a \in Nat, NEW b \in Nat, NEW m \in Nat,
           NEW n \in Nat, m >= 1, l = a + m, a = b + n, NEW i \in 1..n
    PROVE  b + i \in 1..(l - 1) /\ b + i > b
OBVIOUS

(* Dropping n elements keeps the others.                                    *)
LEMMA DropFacts ==
    ASSUME NEW S, NEW s \in Seq(S), NEW n \in 0..Len(s)
    PROVE  /\ Drop(s, n) \in Seq(S)
           /\ Len(Drop(s, n)) = Len(s) - n
           /\ \A i \in 1..(Len(s) - n) : Drop(s, n)[i] = s[i]
BY DEF Drop

(* The n topmost elements, in order.                                        *)
LEMMA TopsFacts ==
    ASSUME NEW S, NEW s \in Seq(S), NEW n \in 0..Len(s)
    PROVE  /\ Tops(s, n) \in Seq(S)
           /\ Len(Tops(s, n)) = n
           /\ \A i \in 1..n : Tops(s, n)[i] = s[Len(s) - n + i]
BY DEF Tops

(* Appending keeps what is there.                                           *)
LEMMA AppendFacts ==
    ASSUME NEW S, NEW s \in Seq(S), NEW e \in S
    PROVE  /\ Append(s, e) \in Seq(S)
           /\ Len(Append(s, e)) = Len(s) + 1
           /\ \A i \in 1..Len(s) : Append(s, e)[i] = s[i]
           /\ Append(s, e)[Len(s) + 1] = e
BY AppendProperties

(* The locals that are not parameters start as nil.                         *)
LEMMA NilsFacts ==
    ASSUME NEW n \in Nat
    PROVE  Nils(n) \in Seq(Value) /\ Len(Nils(n)) = n
BY ProgramAssumption DEF Nils

-----------------------------------------------------------------------------
(* Constants and records.                                                   *)

(* What codegen's Shape of a function consists of.                          *)
LEMMA ShapeFacts ==
    ASSUME NEW f \in Func
    PROVE  /\ f \in Value
           /\ Shape[f].nargs \in Int /\ Shape[f].nlocals \in Nat
           /\ Shape[f].maxstack \in Nat /\ Shape[f].chunk \in Chunk
           /\ Required(f) \in Nat /\ Params(f) \in Nat
           /\ Params(f) <= Shape[f].nlocals
<1>1. Shape[f] \in ShapeType /\ f \in Value
  BY ProgramAssumption
<1>2. /\ Shape[f].nargs \in Int /\ Shape[f].nlocals \in Nat
      /\ Shape[f].maxstack \in Nat /\ Shape[f].chunk \in Chunk
  BY <1>1 DEF ShapeType
<1>3. Required(f) \in Nat /\ Params(f) \in Nat
  BY <1>2 DEF Required, Params, Gathers
<1> QED BY <1>1, <1>2, <1>3, ProgramAssumption

(* A call site's frame starts with its locals, its operands come after.     *)
LEMMA SiteFacts ==
    ASSUME NEW site \in CallSite
    PROVE  /\ site.callee \in Func /\ site.bottom \in Nat
           /\ OperandsStart(site) \in Nat /\ OperandsStart(site) >= site.bottom
           /\ OperandsStart(site) = site.bottom + Shape[site.callee].nlocals
           /\ Shape[site.callee].nlocals \in Nat
           /\ Shape[site.callee].maxstack \in Nat
           /\ site.prevOff \in Nat \union {Wild}
<1>1. /\ site.callee \in Func /\ site.bottom \in Nat
      /\ site.prevOff \in Nat \union {Wild}
  BY DEF CallSite
<1> QED BY <1>1, ShapeFacts DEF OperandsStart

(* The types of a pad's fields.                                             *)
LEMMA PadFacts ==
    ASSUME NEW p \in ScratchPad
    PROVE  /\ p.slots \in Seq(Value) /\ Len(p.slots) \in Nat
           /\ p.cap \in Nat /\ p.blk \in Nat /\ p.wait \in Nat
           /\ p.cs \in Seq(CallSite) /\ Len(p.cs) \in Nat
           /\ \A i \in 1..Len(p.cs) : p.cs[i] \in CallSite
           /\ p.ip \in Ip /\ p.ip.fn \in Func
           /\ p.ip.depth \in Nat /\ p.ip.nargs \in Nat
           /\ p.locals \in Pointer /\ p.locals.blk \in Nat
           /\ p.locals.off \in Nat \union {Wild}
           /\ p.consts \in Chunk
<1>1. /\ p.slots \in Seq(Value) /\ p.cap \in Nat /\ p.blk \in Nat
      /\ p.wait \in Nat /\ p.cs \in Seq(CallSite) /\ p.ip \in Ip
      /\ p.locals \in Pointer /\ p.consts \in Chunk
  BY DEF ScratchPad
<1>2. p.ip.fn \in Func /\ p.ip.depth \in Nat /\ p.ip.nargs \in Nat
  BY <1>1 DEF Ip
<1>3. p.locals.blk \in Nat /\ p.locals.off \in Nat \union {Wild}
  BY <1>1 DEF Pointer
<1> QED BY <1>1, <1>2, <1>3

-----------------------------------------------------------------------------
(* Operations on a pad.                                                     *)

(* Growing gives the stack a new capacity and maybe a new block.            *)
LEMMA GrownFacts ==
    ASSUME NEW p, NEW need, NEW q \in Grown(p, need)
    PROVE  \E d \in Doubled(p.cap, need), b \in {p.blk, p.blk + 1} :
              q = Realloc(p, d, b)
BY DEF Grown

(* value_stack_ensure only changes the capacity and the block, makes room
   for n values, and never gives an old block number again.                 *)
LEMMA EnsureFacts ==
    ASSUME NEW p \in ScratchPad, NEW n \in Nat, NEW q \in Ensure(p, n)
    PROVE  /\ q \in ScratchPad
           /\ q.slots = p.slots /\ q.cs = p.cs /\ q.ip = p.ip
           /\ q.locals = p.locals /\ q.consts = p.consts /\ q.wait = p.wait
           /\ q.cap >= p.cap /\ q.cap >= Len(p.slots) + n
           /\ q.blk >= p.blk
           /\ Len(p.slots) + n <= p.cap => q = p
<1>1. p.cap \in Nat /\ p.blk \in Nat /\ Len(p.slots) \in Nat
  BY DEF ScratchPad
<1>2. CASE Len(p.slots) + n <= p.cap
  <2>1. q = p
    BY <1>2 DEF Ensure
  <2> QED BY <1>1, <1>2, <2>1
<1>3. CASE ~(Len(p.slots) + n <= p.cap)
  <2>1. PICK d \in Doubled(p.cap, Len(p.slots) + n), b \in {p.blk, p.blk + 1} :
           q = Realloc(p, d, b)
    BY <1>3, GrownFacts DEF Ensure
  <2>2. d \in Nat /\ d >= Len(p.slots) + n /\ b \in Nat /\ b >= p.blk
    BY <1>1, <2>1 DEF Doubled
  <2>3. q \in ScratchPad
    BY <2>1, <2>2 DEF ScratchPad, Realloc
  <2>4. /\ q.slots = p.slots /\ q.cs = p.cs /\ q.ip = p.ip
        /\ q.locals = p.locals /\ q.consts = p.consts /\ q.wait = p.wait
        /\ q.cap = d /\ q.blk = b
    BY <2>1 DEF ScratchPad, Realloc
  <2> QED BY <1>1, <1>3, <2>2, <2>3, <2>4
<1> QED BY <1>2, <1>3

KeepsFrames(p, q) ==
    /\ q.cs = p.cs /\ q.cap >= p.cap /\ q.blk >= p.blk
    /\ q.locals = p.locals /\ q.consts = p.consts /\ q.ip.fn = p.ip.fn
    /\ Len(q.slots) >= OperandsStart(Last(p.cs))
    /\ \A j \in 1..Last(p.cs).bottom : q.slots[j] = p.slots[j]

(* A pad whose call stack is untouched, and whose slots are the same up to
   the function of the top frame, is in order if its top is.                *)
LEMMA SameSites ==
    ASSUME NEW p, PadOK(p), NEW q \in ScratchPad,
           KeepsFrames(p, q),
           q.ip.depth <= Shape[p.ip.fn].maxstack,
           Len(q.slots) <= q.cap,
           TopAt(q, OperandsStart(Last(p.cs)))
    PROVE  PadOK(q)
<1> DEFINE n == Len(p.cs)
<1>0. /\ q.cs = p.cs /\ q.cap >= p.cap /\ q.blk >= p.blk
      /\ q.locals = p.locals /\ q.consts = p.consts /\ q.ip.fn = p.ip.fn
      /\ Len(q.slots) >= OperandsStart(Last(p.cs))
      /\ \A j \in 1..Last(p.cs).bottom : q.slots[j] = p.slots[j]
  BY DEF KeepsFrames
<1>1. /\ n \in Nat /\ n >= 1
      /\ p \in ScratchPad /\ p.cs \in Seq(CallSite)
      /\ \A i \in 1..n : p.cs[i] \in CallSite
  <2>1. p \in ScratchPad /\ p.cs # <<>>
    BY DEF PadOK, SitesOK
  <2>2. p.cs \in Seq(CallSite) /\ \A i \in 1..n : p.cs[i] \in CallSite
    BY <2>1, PadFacts
  <2> QED BY <2>1, <2>2
<1>2. SitesOK(q)
  <2>1. SitesOK(p) /\ q.cs = p.cs
    BY <1>0 DEF PadOK
  <2> QED BY <2>1 DEF SitesOK
<1>3. RoomOK(q)
  <2>1. \A i \in 1..n : /\ OperandsStart(p.cs[i]) \in Nat
                        /\ Shape[p.cs[i].callee].maxstack \in Nat
    BY <1>0, <1>1, SiteFacts
  <2>2. p.cap \in Nat /\ q.cap \in Nat
    BY <1>1 DEF ScratchPad
  <2>3. RoomOK(p)
    BY DEF PadOK
  <2> QED BY <1>0, <1>1, <2>1, <2>2, <2>3 DEF RoomOK
<1>4. PinnedOK(q)
  <2> SUFFICES ASSUME NEW i \in 1..n
               PROVE  /\ p.cs[i].bottom \in 1..Len(q.slots)
                      /\ q.slots[p.cs[i].bottom] = p.cs[i].callee
    BY <1>0 DEF PinnedOK
  <2>1. p.cs[i].bottom \in 1..Len(p.slots) /\ p.slots[p.cs[i].bottom] = p.cs[i].callee
    <3>1. PinnedOK(p)
      BY DEF PadOK
    <3> QED BY <3>1 DEF PinnedOK
  <2>2. \A k \in 1..n : OperandsStart(p.cs[k]) \in Nat /\ OperandsStart(p.cs[k]) >= p.cs[k].bottom /\ p.cs[k].bottom \in Nat
    BY <1>0, <1>1, SiteFacts
  <2>3. p.cs[i].bottom <= p.cs[n].bottom
    <3>1. i < n => OperandsStart(p.cs[i]) < p.cs[n].bottom
      BY <1>1 DEF PadOK, SitesOK
    <3> QED BY <1>0, <1>1, <2>2, <3>1
  <2>4. p.cs[n].bottom <= Len(q.slots)
    <3>1. Len(q.slots) \in Nat
      BY PadFacts
    <3> QED BY <1>0, <1>1, <2>2, <3>1 DEF Last
  <2>5. p.cs[i].bottom \in 1..Len(q.slots)
    <3>1. p.cs[i].bottom \in Nat /\ p.cs[n].bottom \in Nat /\ p.cs[i].bottom >= 1
      BY <1>0, <1>1, <2>1, <2>2
    <3>2. Len(q.slots) \in Nat
      BY PadFacts
    <3> QED BY <2>3, <2>4, <3>1, <3>2
  <2>6. p.cs[i].bottom \in 1..Last(p.cs).bottom
    BY <1>0, <1>1, <2>1, <2>2, <2>3 DEF Last
  <2> QED BY <1>0, <2>1, <2>5, <2>6
<1>5. TopOK(q)
  <2>1. /\ p.locals.blk \in Nat /\ p.blk \in Nat /\ q.blk \in Nat
        /\ p.locals.blk <= p.blk
        /\ p.locals.blk = p.blk => p.locals.off \in {Wild, p.cs[n].bottom}
        /\ p.ip.fn = p.cs[n].callee /\ p.consts = Shape[p.cs[n].callee].chunk
    BY <1>1, PadFacts DEF PadOK, TopOK
  <2>2. q.locals.blk <= q.blk
    BY <1>0, <2>1
  <2>3. q.locals.blk = q.blk => q.locals.off \in {Wild, p.cs[n].bottom}
    BY <1>0, <2>1
  <2> QED BY <1>0, <2>1, <2>2, <2>3 DEF TopOK, Last
<1> QED BY <1>2, <1>3, <1>4, <1>5 DEF PadOK

(* The registers and the call stack are the same in p and q, q's stack is
   at least as large and at least as new.                                   *)
SameControl(p, q) ==
    /\ q.cs = p.cs /\ q.ip = p.ip /\ q.locals = p.locals
    /\ q.consts = p.consts /\ q.wait = p.wait
    /\ q.cap >= p.cap /\ q.blk >= p.blk

(* Giving a pad other slots changes nothing else.                           *)
LEMMA NewSlots ==
    ASSUME NEW p \in ScratchPad, NEW s \in Seq(Value)
    PROVE  LET q == [p EXCEPT !.slots = s]
           IN  /\ q \in ScratchPad /\ q.slots = s /\ SameControl(p, q)
               /\ q.cap = p.cap /\ q.blk = p.blk
<1> DEFINE q == [p EXCEPT !.slots = s]
<1>1. q \in ScratchPad /\ q.slots = s /\ q.cap = p.cap /\ q.blk = p.blk
  BY DEF ScratchPad
<1>2. q.cs = p.cs /\ q.ip = p.ip /\ q.locals = p.locals
      /\ q.consts = p.consts /\ q.wait = p.wait
  BY DEF ScratchPad
<1> QED BY <1>1, <1>2, PadFacts DEF SameControl

(* value_stack_push_copies: the values are on top, in order, within the
   capacity; the block is the same one if they fitted.                      *)
LEMMA PushCopiesFacts ==
    ASSUME NEW p \in ScratchPad, NEW s \in Seq(Value), NEW q \in PushCopies(p, s)
    PROVE  /\ q \in ScratchPad /\ q.slots = p.slots \o s /\ SameControl(p, q)
           /\ Len(p.slots) + Len(s) <= q.cap
           /\ Len(p.slots) + Len(s) <= p.cap => q.blk = p.blk
<1>1. PICK e \in Ensure(p, Len(s)) : q = Pushed(e, s)
  BY DEF PushCopies
<1>2. /\ e \in ScratchPad /\ e.slots = p.slots /\ SameControl(p, e)
      /\ e.cap >= Len(p.slots) + Len(s)
      /\ Len(p.slots) + Len(s) <= p.cap => e.blk = p.blk
  BY EnsureFacts DEF SameControl
<1>3. e.slots \o s \in Seq(Value)
  BY <1>2, PadFacts, ConcatProperties
<1>4. q = [e EXCEPT !.slots = e.slots \o s]
  BY <1>1 DEF Pushed
<1>5. q \in ScratchPad /\ q.slots = e.slots \o s /\ SameControl(e, q)
      /\ q.cap = e.cap /\ q.blk = e.blk
  BY <1>2, <1>3, <1>4, NewSlots
<1> QED BY <1>2, <1>5 DEF SameControl

(* do_call_scatter: everything under the list is kept, the list's items are
   on top.                                                                  *)
LEMMA ScatterFacts ==
    ASSUME NEW p \in ScratchPad, p.slots # <<>>, Last(p.slots) \in List,
           NEW q \in Scatter(p)
    PROVE  LET k == Len(Items[Last(p.slots)])
           IN  /\ q \in ScratchPad /\ SameControl(p, q) /\ k \in Nat
               /\ Len(q.slots) = Len(p.slots) - 1 + k
               /\ Len(q.slots) <= q.cap
               /\ \A i \in 1..(Len(p.slots) - 1) : q.slots[i] = p.slots[i]
               /\ Len(q.slots) <= p.cap => q.blk = p.blk
<1> DEFINE items == Items[Last(p.slots)]
           d == TopDropped(p)
<1>1. items \in Seq(Value) /\ Len(items) \in Nat
  BY ProgramAssumption
<1>2. p.slots \in Seq(Value) /\ Len(p.slots) \in Nat /\ Len(p.slots) >= 1
  BY PadFacts
<1>3. /\ Drop(p.slots, 1) \in Seq(Value) /\ Len(Drop(p.slots, 1)) = Len(p.slots) - 1
      /\ \A i \in 1..(Len(p.slots) - 1) : Drop(p.slots, 1)[i] = p.slots[i]
  BY <1>2, DropFacts
<1>4. /\ d \in ScratchPad /\ d.slots = Drop(p.slots, 1) /\ SameControl(p, d)
      /\ d.cap = p.cap /\ d.blk = p.blk
  <2>1. d = [p EXCEPT !.slots = Drop(p.slots, 1)]
    BY DEF TopDropped
  <2> QED BY <1>3, <2>1, NewSlots
<1> HIDE DEF d
<1>5. /\ q \in ScratchPad /\ q.slots = d.slots \o items /\ SameControl(d, q)
      /\ Len(d.slots) + Len(items) <= q.cap
      /\ Len(d.slots) + Len(items) <= d.cap => q.blk = d.blk
  <2>1. q \in PushCopies(d, items)
    BY DEF Scatter, d
  <2> HIDE DEF items
  <2> QED BY <1>1, <1>4, <2>1, PushCopiesFacts
<1>6. /\ Len(q.slots) = Len(p.slots) - 1 + Len(items)
      /\ \A i \in 1..(Len(p.slots) - 1) : q.slots[i] = p.slots[i]
  <2> DEFINE under == Drop(p.slots, 1)
  <2>1. q.slots = under \o items
    BY <1>4, <1>5
  <2> HIDE DEF items, under
  <2>2. /\ under \in Seq(Value) /\ Len(under) = Len(p.slots) - 1
        /\ \A i \in 1..(Len(p.slots) - 1) : under[i] = p.slots[i]
    BY <1>3 DEF under
  <2>3. /\ Len(under \o items) = Len(under) + Len(items)
        /\ \A i \in 1..(Len(under) + Len(items)) :
              (under \o items)[i] = IF i <= Len(under) THEN under[i]
                                    ELSE items[i - Len(under)]
    BY <1>1, <2>2, ConcatProperties
  <2> QED BY <1>1, <1>2, <2>1, <2>2, <2>3
<1>7. SameControl(p, q)
  BY <1>4, <1>5 DEF SameControl
<1> QED BY <1>1, <1>3, <1>4, <1>5, <1>6, <1>7

(* do_call_gather: the n values on top are one list, the others are kept.   *)
LEMMA GatherFacts ==
    ASSUME NEW p \in ScratchPad, NEW n \in 0..Len(p.slots),
           Len(p.slots) <= p.cap, NEW q \in Gather(p, n)
    PROVE  /\ q \in ScratchPad /\ SameControl(p, q)
           /\ Len(q.slots) = Len(p.slots) - n + 1
           /\ Len(q.slots) <= q.cap
           /\ \A i \in 1..(Len(p.slots) - n) : q.slots[i] = p.slots[i]
           /\ Len(q.slots) <= p.cap => q.blk = p.blk
<1>1. PICK e \in (IF n = 0 THEN Ensure(p, 1) ELSE {p}),
           l \in ListsOf(Tops(p.slots, n)) : q = Gathered(e, n, l)
  BY DEF Gather
<1>2. /\ p.slots \in Seq(Value) /\ Len(p.slots) \in Nat
      /\ p.cap \in Nat /\ p.blk \in Nat
  BY PadFacts
<1>3. /\ e \in ScratchPad /\ e.slots = p.slots /\ SameControl(p, e)
      /\ e.cap >= Len(p.slots) - n + 1
      /\ Len(p.slots) - n + 1 <= p.cap => e.blk = p.blk
  <2>1. CASE n = 0
    BY <1>1, <1>2, <2>1, EnsureFacts DEF SameControl
  <2>2. CASE n # 0
    BY <1>1, <1>2, <2>2 DEF SameControl
  <2> QED BY <2>1, <2>2
<1>4. l \in Value
  BY ProgramAssumption DEF ListsOf
<1> DEFINE s == Append(Drop(p.slots, n), l)
<1>5. /\ s \in Seq(Value) /\ Len(s) = Len(p.slots) - n + 1
      /\ \A i \in 1..(Len(p.slots) - n) : s[i] = p.slots[i]
  <2> DEFINE under == Drop(p.slots, n)
  <2>1. /\ under \in Seq(Value) /\ Len(under) = Len(p.slots) - n
        /\ \A i \in 1..(Len(p.slots) - n) : under[i] = p.slots[i]
    BY <1>2, DropFacts
  <2> HIDE DEF under
  <2>2. under \in Seq(Value)
    BY <2>1
  <2> HIDE DEF s
  <2>3. /\ Append(under, l) \in Seq(Value) /\ Len(Append(under, l)) = Len(under) + 1
        /\ \A i \in 1..Len(under) : Append(under, l)[i] = under[i]
    BY <1>4, <2>2, AppendFacts
  <2> QED BY <1>2, <2>1, <2>3 DEF under, s
<1>6. q = [e EXCEPT !.slots = s]
  BY <1>1, <1>3 DEF Gathered
<1> HIDE DEF s
<1>7. q \in ScratchPad /\ q.slots = s /\ SameControl(e, q)
      /\ q.cap = e.cap /\ q.blk = e.blk
  BY <1>3, <1>5, <1>6, NewSlots
<1>8. SameControl(p, q)
  BY <1>3, <1>7 DEF SameControl
<1> QED BY <1>3, <1>5, <1>7, <1>8

(* do_call_coerce: the n arguments have become the parameters of f.         *)
LEMMA CoerceFacts ==
    ASSUME NEW p \in ScratchPad, NEW f \in Func, NEW n \in 0..Len(p.slots),
           Accepts(f, n), Len(p.slots) <= p.cap, NEW q \in Coerce(p, f, n)
    PROVE  /\ q \in ScratchPad /\ SameControl(p, q)
           /\ Len(q.slots) = Len(p.slots) - n + Params(f)
           /\ Len(q.slots) <= q.cap
           /\ \A i \in 1..(Len(p.slots) - n) : q.slots[i] = p.slots[i]
           /\ Len(q.slots) <= p.cap => q.blk = p.blk
<1>1. /\ Len(p.slots) \in Nat /\ p.cap \in Nat /\ p.blk \in Nat
      /\ Required(f) \in Nat /\ Params(f) \in Nat
  BY PadFacts, ShapeFacts
<1>2. CASE Gathers(f)
  <2>1. /\ n - Required(f) \in 0..Len(p.slots) /\ Params(f) = Required(f) + 1
        /\ q \in Gather(p, n - Required(f))
    BY <1>1, <1>2 DEF Accepts, Params, Coerce
  <2>2. /\ q \in ScratchPad /\ SameControl(p, q)
        /\ Len(q.slots) = Len(p.slots) - (n - Required(f)) + 1
        /\ Len(q.slots) <= q.cap
        /\ \A i \in 1..(Len(p.slots) - (n - Required(f))) : q.slots[i] = p.slots[i]
        /\ Len(q.slots) <= p.cap => q.blk = p.blk
    BY <2>1, GatherFacts
  <2>3. /\ n \in Nat
        /\ Len(p.slots) - (n - Required(f)) + 1 = Len(p.slots) - n + Params(f)
        /\ Len(p.slots) - n <= Len(p.slots) - (n - Required(f))
    BY <1>1, <2>1, SMTT(30)
  <2>4. \A i \in 1..(Len(p.slots) - n) : q.slots[i] = p.slots[i]
    BY <1>1, <2>2, <2>3
  <2> QED BY <2>2, <2>3, <2>4
<1>3. CASE ~Gathers(f)
  <2>1. q = p /\ n = Required(f) /\ Params(f) = Required(f)
    BY <1>3 DEF Coerce, Accepts, Params
  <2>2. SameControl(p, p)
    BY PadFacts DEF SameControl
  <2>3. Len(p.slots) - n + Params(f) = Len(p.slots)
    BY <1>1, <2>1
  <2>4. SameControl(p, q) /\ \A i \in 1..(Len(p.slots) - n) : q.slots[i] = p.slots[i]
    BY <2>1, <2>2
  <2>5. q \in ScratchPad /\ Len(q.slots) <= q.cap
        /\ Len(q.slots) = Len(p.slots) - n + Params(f)
    BY <2>1, <2>3
  <2>6. q.blk = p.blk
    BY <2>1
  <2> QED BY <2>4, <2>5, <2>6
<1> QED BY <1>2, <1>3

-----------------------------------------------------------------------------
(* Instructions.                                                            *)

(* The top frame of a pad in order.                                         *)
LEMMA TopFacts ==
    ASSUME NEW p, PadOK(p)
    PROVE  LET site == Last(p.cs)
           IN  /\ p \in ScratchPad /\ Len(p.cs) >= 1 /\ site = p.cs[Len(p.cs)]
               /\ site \in CallSite
               /\ p.ip.fn = site.callee /\ p.consts = Shape[site.callee].chunk
               /\ p.ip.depth <= Shape[site.callee].maxstack
               /\ Len(p.slots) <= p.cap
               /\ site.bottom >= 1 /\ site.bottom <= Len(p.slots)
               /\ OperandsStart(site) + Shape[site.callee].maxstack <= p.cap
               /\ TopAt(p, OperandsStart(site))
<1> DEFINE n == Len(p.cs)
<1>1. p \in ScratchPad /\ SitesOK(p) /\ RoomOK(p) /\ PinnedOK(p) /\ TopOK(p)
  BY DEF PadOK
<1>2. /\ n \in Nat /\ n >= 1
      /\ p.cs[n] \in CallSite /\ Last(p.cs) = p.cs[n]
      /\ p.wait \in Nat /\ Len(p.slots) \in Nat
  <2>1. p.cs \in Seq(CallSite) /\ p.cs # <<>>
    BY <1>1, PadFacts DEF SitesOK
  <2> QED BY <1>1, <2>1, PadFacts DEF Last
<1>3. Len(p.slots) <= p.cap
      /\ OperandsStart(p.cs[n]) + Shape[p.cs[n].callee].maxstack <= p.cap
  BY <1>1, <1>2 DEF RoomOK
<1>4. p.cs[n].bottom >= 1 /\ p.cs[n].bottom <= Len(p.slots)
  BY <1>1, <1>2 DEF PinnedOK
<1>5. /\ p.ip.fn = p.cs[n].callee /\ p.consts = Shape[p.cs[n].callee].chunk
      /\ p.ip.depth <= Shape[p.cs[n].callee].maxstack
      /\ TopAt(p, OperandsStart(p.cs[n]))
  BY <1>1, <1>2 DEF TopOK
<1> QED BY <1>1, <1>2, <1>3, <1>4, <1>5

(* An instruction that leaves everything under the operands' start but the
   locals alone, and ends at a depth codegen allows.                        *)
LEMMA InstructionOK ==
    ASSUME NEW p, PadOK(p), p.wait = 0,
           NEW s \in Seq(Value), NEW d \in Nat,
           d <= Shape[p.ip.fn].maxstack,
           Len(s) = OperandsStart(Last(p.cs)) + d,
           \A j \in 1..Last(p.cs).bottom : s[j] = p.slots[j]
    PROVE  PadOK([p EXCEPT !.slots = s, !.ip.depth = d])
<1> DEFINE q == [p EXCEPT !.slots = s, !.ip.depth = d]
           site == Last(p.cs)
<1>1. /\ p \in ScratchPad /\ p.ip \in Ip /\ p.ip.fn = site.callee
      /\ site \in CallSite
  BY TopFacts, PadFacts
<1>2. [p.ip EXCEPT !.depth = d] \in Ip
      /\ [p.ip EXCEPT !.depth = d].fn = p.ip.fn
      /\ [p.ip EXCEPT !.depth = d].depth = d
  BY <1>1 DEF Ip
<1>3. /\ q \in ScratchPad /\ q.slots = s /\ q.ip = [p.ip EXCEPT !.depth = d]
      /\ q.cap = p.cap /\ q.blk = p.blk
  BY <1>1, <1>2 DEF ScratchPad
<1>4. /\ q.cs = p.cs /\ q.locals = p.locals /\ q.consts = p.consts
      /\ q.wait = p.wait
  BY <1>1 DEF ScratchPad
<1>5. /\ Len(s) <= p.cap /\ Len(s) >= OperandsStart(site)
      /\ p.cap \in Nat /\ p.blk \in Nat
  <2>1. /\ OperandsStart(site) \in Nat /\ Shape[site.callee].maxstack \in Nat
        /\ p.cap \in Nat /\ p.blk \in Nat
    BY <1>1, SiteFacts, PadFacts
  <2>2. OperandsStart(site) + Shape[site.callee].maxstack <= p.cap
    BY TopFacts
  <2> HIDE DEF site
  <2> QED BY <1>1, <2>1, <2>2 DEF site
<1> HIDE DEF q
<1>6. PadOK(q)
  <2>1. q.cap >= p.cap /\ q.blk >= p.blk
    BY <1>3, <1>5
  <2>2. q.ip.fn = p.ip.fn /\ q.ip.depth = d
    BY <1>2, <1>3
  <2>3. /\ Len(q.slots) <= q.cap /\ Len(q.slots) >= OperandsStart(Last(p.cs))
        /\ Len(q.slots) = OperandsStart(Last(p.cs)) + q.ip.depth
        /\ \A j \in 1..Last(p.cs).bottom : q.slots[j] = p.slots[j]
    BY <1>3, <1>5, <2>2
  <2>4. KeepsFrames(p, q)
    BY <1>4, <2>1, <2>2, <2>3 DEF KeepsFrames
  <2>5. TopAt(q, OperandsStart(Last(p.cs)))
    BY <1>4, <2>3 DEF TopAt
  <2> QED BY <1>3, <2>2, <2>3, <2>4, <2>5, SameSites
<1> QED BY <1>6 DEF q

-----------------------------------------------------------------------------
(* Calls.                                                                   *)

(* q is p with nargs arguments of f turned into its parameters.             *)
Arranged(p, q, f, nargs) ==
    /\ q \in ScratchPad /\ SameControl(p, q)
    /\ Len(q.slots) = Len(p.slots) - nargs + Params(f)
    /\ \A i \in 1..(Len(p.slots) - nargs) : q.slots[i] = p.slots[i]

(* r is the pad do_call makes of q: one call site more, the new frame on top
   of what the caller has in p under the arguments, room for its operands.  *)
Entered(p, q, r, f, nargs) ==
    LET n == Len(p.cs)
        site == SiteFor(q, f, [p.ip EXCEPT !.nargs = nargs])
    IN  /\ r \in ScratchPad /\ site \in CallSite
        /\ r.cs = Append(p.cs, site) /\ Len(r.cs) = n + 1
        /\ r.cs[n + 1] = site /\ \A i \in 1..n : r.cs[i] = p.cs[i]
        /\ site.bottom = Len(p.slots) - nargs /\ site.callee = f
        /\ site.callIp = [p.ip EXCEPT !.nargs = nargs]
        /\ site.prevConsts = p.consts /\ site.prevOff = LocalsOffset(q)
        /\ Len(r.slots) = OperandsStart(site)
        /\ OperandsStart(site) + Shape[f].maxstack <= r.cap
        /\ r.cap >= p.cap /\ r.blk >= p.blk
        /\ \A i \in 1..(Len(p.slots) - nargs) : r.slots[i] = p.slots[i]
        /\ r.ip = [fn |-> f, depth |-> 0, nargs |-> 0] /\ r.wait = 0
        /\ r.consts = Shape[f].chunk
        /\ r.locals = [blk |-> r.blk, off |-> site.bottom]

(* That is what Enter makes of an arranged pad.                              *)
LEMMA EnterFacts ==
    ASSUME NEW p, PadOK(p), p.wait = 0, NEW f \in Func,
           NEW nargs \in Nat, nargs < p.ip.depth,
           NEW q, Arranged(p, q, f, nargs),
           NEW r \in Enter(q, f, [p.ip EXCEPT !.nargs = nargs])
    PROVE  Entered(p, q, r, f, nargs)
<1> DEFINE n == Len(p.cs)
           callIp == [p.ip EXCEPT !.nargs = nargs]
           site == SiteFor(q, f, callIp)
           need == Shape[f].maxstack + NVars(f)
           bottom == Len(p.slots) - nargs
<1>1. /\ q \in ScratchPad /\ SameControl(p, q)
      /\ Len(q.slots) = Len(p.slots) - nargs + Params(f)
      /\ \A i \in 1..(Len(p.slots) - nargs) : q.slots[i] = p.slots[i]
  BY DEF Arranged
<1>2. /\ p \in ScratchPad /\ n \in Nat /\ p.cs \in Seq(CallSite)
      /\ Len(p.slots) \in Nat /\ p.cap \in Nat /\ p.blk \in Nat
      /\ p.consts \in Chunk /\ p.ip \in Ip /\ p.ip.depth \in Nat
      /\ p.locals \in Pointer
  BY TopFacts, PadFacts
<1>3. /\ f \in Value /\ Params(f) \in Nat /\ NVars(f) \in Nat
      /\ Shape[f].maxstack \in Nat /\ Shape[f].nlocals \in Nat
      /\ Shape[f].chunk \in Chunk /\ NVars(f) = Shape[f].nlocals - Params(f)
  BY ShapeFacts DEF NVars
<1>4. bottom \in Nat /\ bottom >= 1
  <2>1. /\ Len(p.slots) = OperandsStart(Last(p.cs)) + p.ip.depth
        /\ OperandsStart(Last(p.cs)) \in Nat
    BY TopFacts, SiteFacts DEF TopAt
  <2> QED BY <1>2, <2>1
<1>5. callIp \in Ip
  BY <1>2 DEF Ip
<1>6. LocalsOffset(q) \in Nat \union {Wild}
  BY <1>1, PadFacts DEF LocalsOffset
<1>7. /\ site.callIp = callIp /\ site.callee = f /\ site.prevConsts = p.consts
      /\ site.prevOff = LocalsOffset(q) /\ site.bottom = bottom
  <2>1. site.bottom = Len(q.slots) - Params(f)
    BY DEF SiteFor
  <2>2. /\ site.callIp = callIp /\ site.callee = f
        /\ site.prevConsts = q.consts /\ site.prevOff = LocalsOffset(q)
    BY DEF SiteFor
  <2>3. Len(q.slots) - Params(f) = bottom
    BY <1>1, <1>2, <1>3, SMTT(30)
  <2> QED BY <1>1, <2>1, <2>2, <2>3 DEF SameControl
<1>8. site \in CallSite
  <2>1. site = [callIp |-> callIp, callee |-> f, prevConsts |-> q.consts,
                prevOff |-> LocalsOffset(q), bottom |-> Len(q.slots) - Params(f)]
    BY DEF SiteFor
  <2>2. Len(q.slots) - Params(f) \in Nat /\ q.consts \in Chunk
    BY <1>1, <1>2, <1>3, <1>4, SMTT(30) DEF SameControl
  <2> HIDE DEF site, callIp
  <2> QED BY <1>5, <1>6, <2>1, <2>2 DEF CallSite
<1>9. PICK e \in Ensure(q, need) : r = Started(e, f, site)
  BY DEF Enter
<1> HIDE DEF site, callIp, need
<1>10. /\ e \in ScratchPad /\ e.slots = q.slots /\ e.cs = p.cs
       /\ e.cap >= q.cap /\ e.cap >= Len(q.slots) + need /\ e.blk >= q.blk
  <2>1. need \in Nat
    BY <1>3 DEF need
  <2> QED BY <1>1, <2>1, EnsureFacts DEF SameControl
<1>11. /\ r.slots = q.slots \o Nils(NVars(f)) /\ r.cap = e.cap /\ r.blk = e.blk
       /\ r.cs = Append(p.cs, site)
       /\ r.ip = [fn |-> f, depth |-> 0, nargs |-> 0]
       /\ r.locals = [blk |-> e.blk, off |-> bottom]
       /\ r.consts = Shape[f].chunk /\ r.wait = 0
  BY <1>7, <1>9, <1>10 DEF Started
<1>12. /\ r.slots \in Seq(Value) /\ Len(r.slots) = bottom + Shape[f].nlocals
       /\ \A i \in 1..bottom : r.slots[i] = p.slots[i]
  <2> DEFINE nils == Nils(NVars(f))
  <2>1. nils \in Seq(Value) /\ Len(nils) = NVars(f)
    BY <1>3, NilsFacts
  <2>2. q.slots \in Seq(Value) /\ Len(q.slots) \in Nat
    BY <1>1, PadFacts
  <2> HIDE DEF nils
  <2>3. /\ q.slots \o nils \in Seq(Value)
        /\ Len(q.slots \o nils) = Len(q.slots) + Len(nils)
        /\ \A i \in 1..(Len(q.slots) + Len(nils)) :
              (q.slots \o nils)[i] = IF i <= Len(q.slots) THEN q.slots[i]
                                     ELSE nils[i - Len(q.slots)]
    BY <2>1, <2>2, ConcatProperties
  <2>4. r.slots = q.slots \o nils
    BY <1>11 DEF nils
  <2>5. Len(q.slots) + NVars(f) = bottom + Shape[f].nlocals
    BY <1>1, <1>2, <1>3, SMTT(30)
  <2>6. \A i \in 1..bottom : q.slots[i] = p.slots[i]
    BY <1>1
  <2>7. bottom <= Len(q.slots)
    BY <1>1, <1>2, <1>3, SMTT(30)
  <2> HIDE DEF bottom
  <2> QED BY <1>3, <1>4, <2>1, <2>2, <2>3, <2>4, <2>5, <2>6, <2>7
<1>13. Append(p.cs, site) \in Seq(CallSite) /\ Len(Append(p.cs, site)) = n + 1
       /\ Append(p.cs, site)[n + 1] = site
       /\ \A i \in 1..n : Append(p.cs, site)[i] = p.cs[i]
  BY <1>2, <1>8, AppendFacts
<1>14. r \in ScratchPad
  <2>1. r = [slots |-> r.slots, cap |-> e.cap, blk |-> e.blk, cs |-> r.cs,
             ip |-> r.ip, locals |-> r.locals, consts |-> r.consts, wait |-> 0]
    BY <1>9, <1>11 DEF Started
  <2>2. r.locals \in Pointer /\ r.ip \in Ip /\ r.consts \in Chunk
    <3>1. e.blk \in Nat
      BY <1>10, PadFacts
    <3> HIDE DEF bottom
    <3> QED BY <1>3, <1>4, <1>11, <3>1 DEF Pointer, Ip
  <2>3. e.cap \in Nat /\ e.blk \in Nat /\ r.slots \in Seq(Value) /\ r.cs \in Seq(CallSite)
    BY <1>10, <1>11, <1>12, <1>13, PadFacts
  <2> QED BY <2>1, <2>2, <2>3 DEF ScratchPad
<1>15. OperandsStart(site) = bottom + Shape[f].nlocals
  BY <1>7 DEF OperandsStart
<1>16. /\ OperandsStart(site) + Shape[f].maxstack <= r.cap
       /\ r.cap >= p.cap /\ r.blk >= p.blk
  <2>1. /\ q.cap \in Nat /\ q.blk \in Nat /\ e.cap \in Nat /\ e.blk \in Nat
        /\ Len(q.slots) \in Nat /\ q.cap >= p.cap /\ q.blk >= p.blk
    BY <1>1, <1>10, PadFacts DEF SameControl
  <2>2. Len(q.slots) + need = OperandsStart(site) + Shape[f].maxstack
    BY <1>1, <1>2, <1>3, <1>15, SMTT(30) DEF need
  <2> HIDE DEF bottom
  <2> QED BY <1>2, <1>10, <1>11, <2>1, <2>2
<1> QED
  BY <1>7, <1>8, <1>11, <1>12, <1>13, <1>14, <1>15, <1>16 DEF Entered, site, callIp

(* A call leaves the pad in order: the callee's frame lies above everything
   of its callers', and the caller is where OP_RETURN will look for it.     *)
LEMMA EnterOK ==
    ASSUME NEW p, PadOK(p), p.wait = 0, NEW f \in Func,
           NEW nargs \in Nat, nargs < p.ip.depth,
           p.slots[Len(p.slots) - nargs] = f,
           NEW q, Arranged(p, q, f, nargs),
           NEW r \in Enter(q, f, [p.ip EXCEPT !.nargs = nargs])
    PROVE  PadOK(r)
<1> DEFINE n == Len(p.cs)
           callIp == [p.ip EXCEPT !.nargs = nargs]
           site == SiteFor(q, f, callIp)
           top == p.cs[n]
<1>1. /\ r \in ScratchPad /\ site \in CallSite
      /\ Len(r.cs) = n + 1
      /\ r.cs[n + 1] = site /\ \A i \in 1..n : r.cs[i] = p.cs[i]
      /\ site.bottom = Len(p.slots) - nargs /\ site.callee = f
      /\ site.callIp = callIp
      /\ site.prevConsts = p.consts /\ site.prevOff = LocalsOffset(q)
      /\ Len(r.slots) = OperandsStart(site)
      /\ OperandsStart(site) + Shape[f].maxstack <= r.cap
      /\ r.cap >= p.cap
      /\ \A i \in 1..(Len(p.slots) - nargs) : r.slots[i] = p.slots[i]
      /\ r.ip = [fn |-> f, depth |-> 0, nargs |-> 0] /\ r.wait = 0
      /\ r.consts = Shape[f].chunk
      /\ r.locals = [blk |-> r.blk, off |-> site.bottom]
  <2>1. Entered(p, q, r, f, nargs)
    BY EnterFacts
  <2> QED BY <2>1 DEF Entered
<1>2. /\ p \in ScratchPad /\ n \in Nat /\ n >= 1 /\ top = Last(p.cs)
      /\ n = Len(p.cs) /\ top = p.cs[n]
      /\ top \in CallSite /\ p.ip \in Ip /\ p.ip.depth \in Nat
      /\ p.ip.fn = top.callee /\ p.consts = Shape[top.callee].chunk
      /\ p.ip.depth <= Shape[top.callee].maxstack
      /\ Len(p.slots) \in Nat /\ p.cap \in Nat
      /\ Len(p.slots) = OperandsStart(top) + p.ip.depth
      /\ \A i \in 1..n : p.cs[i] \in CallSite
  BY TopFacts, PadFacts DEF TopAt
<1>3. /\ SitesOK(p) /\ RoomOK(p) /\ PinnedOK(p) /\ TopOK(p)
  BY DEF PadOK
<1>4. \A i \in 1..n : /\ OperandsStart(p.cs[i]) \in Nat /\ p.cs[i].bottom \in Nat
                      /\ OperandsStart(p.cs[i]) >= p.cs[i].bottom
                      /\ p.cs[i].callee \in Func
                      /\ Shape[p.cs[i].callee].maxstack \in Nat
  BY <1>2, SiteFacts
<1>5. /\ callIp \in Ip /\ callIp.fn = p.ip.fn /\ callIp.depth = p.ip.depth
      /\ callIp.nargs = nargs
  BY <1>2 DEF Ip
<1> HIDE DEF site, callIp, n, top
<1>6. site.prevOff \in {Wild, top.bottom}
  <2>1. /\ q \in ScratchPad /\ q.locals = p.locals /\ q.blk >= p.blk
    BY DEF Arranged, SameControl
  <2>2. q.blk \in Nat /\ p.blk \in Nat /\ p.locals.blk \in Nat
    BY <1>2, <2>1, PadFacts
  <2>3. /\ p.locals.blk <= p.blk
        /\ p.locals.blk = p.blk => p.locals.off \in {Wild, top.bottom}
    BY <1>2, <1>3 DEF TopOK
  <2> QED BY <1>1, <2>1, <2>2, <2>3 DEF LocalsOffset
<1>7. /\ OperandsStart(site) \in Nat /\ OperandsStart(site) >= site.bottom
      /\ site.bottom \in Nat
      /\ site.bottom = OperandsStart(top) + p.ip.depth - nargs
  <2>1. site \in CallSite
    BY <1>1
  <2>2. site.bottom = Len(p.slots) - nargs
    BY <1>1
  <2>3. Len(p.slots) = OperandsStart(top) + p.ip.depth
    BY <1>2
  <2>4. /\ OperandsStart(site) \in Nat /\ OperandsStart(site) >= site.bottom
        /\ site.bottom \in Nat /\ OperandsStart(top) \in Nat
        /\ p.ip.depth \in Nat
    BY <1>2, <2>1, SiteFacts
  <2> QED BY <2>2, <2>3, <2>4
<1>8. \A i \in 1..n : OperandsStart(p.cs[i]) < site.bottom
  <2> TAKE i \in 1..n
  <2>1. OperandsStart(p.cs[i]) <= OperandsStart(top)
    <3>1. i < n => OperandsStart(p.cs[i]) < top.bottom
      <4>1. i \in 1..Len(p.cs) /\ Len(p.cs) \in 1..Len(p.cs) /\ top = p.cs[Len(p.cs)]
            /\ n = Len(p.cs)
        BY <1>2
      <4> QED BY <1>3, <4>1 DEF SitesOK
    <3>2. n \in 1..n /\ (i < n \/ i = n) /\ top = p.cs[n]
      <4>1. n \in Nat /\ n >= 1 /\ top = p.cs[n]
        BY <1>2
      <4> QED BY <4>1
    <3>3. /\ OperandsStart(p.cs[i]) \in Nat /\ OperandsStart(top) \in Nat
          /\ top.bottom \in Nat /\ OperandsStart(top) >= top.bottom
      BY <1>4, <3>2
    <3>4. CASE i = n
      BY <3>2, <3>3, <3>4
    <3>5. CASE i < n
      BY <3>1, <3>3, <3>5
    <3> QED BY <3>2, <3>4, <3>5
  <2>2. OperandsStart(p.cs[i]) \in Nat /\ OperandsStart(top) \in Nat
    BY <1>2, <1>4
  <2>3. PICK a \in Nat, m \in Nat : a = OperandsStart(top) /\ m = p.ip.depth
    BY <1>2, <2>2
  <2>4. a < a + m - nargs
    BY <2>3
  <2> QED BY <1>7, <2>1, <2>2, <2>3, <2>4
<1>9. SitesOK(r)
  <2>1. r.cs # <<>> /\ r.cs[1].callIp = NullIp /\ r.cs[1].bottom = 1
    <3>1. r.cs \in Seq(CallSite) /\ 1 \in 1..n
      <4>1. n \in Nat /\ n >= 1
        BY <1>2
      <4> QED BY <1>1, <4>1, PadFacts
    <3>2. r.cs # <<>> /\ r.cs[1] = p.cs[1]
      BY <1>1, <1>2, <3>1
    <3>3. p.cs[1].callIp = NullIp /\ p.cs[1].bottom = 1
      BY <1>3 DEF SitesOK
    <3> QED BY <3>2, <3>3
  <2>2. \A i, j \in 1..(n + 1) : i < j => OperandsStart(r.cs[i]) < r.cs[j].bottom
    <3> SUFFICES ASSUME NEW i \in 1..(n + 1), NEW j \in 1..(n + 1), i < j
                 PROVE  OperandsStart(r.cs[i]) < r.cs[j].bottom
      OBVIOUS
    <3>1. i \in 1..n /\ r.cs[i] = p.cs[i]
      BY <1>1, <1>2
    <3>2. CASE j = n + 1
      BY <1>1, <1>8, <3>1, <3>2
    <3>3. CASE j # n + 1
      <4>1. j \in 1..n /\ n = Len(p.cs)
        <5>1. n \in Nat /\ n = Len(p.cs)
          BY <1>2
        <5> QED BY <3>3, <5>1
      <4>2. r.cs[j] = p.cs[j]
        BY <1>1, <4>1
      <4>3. OperandsStart(p.cs[i]) < p.cs[j].bottom
        BY <1>3, <3>1, <4>1 DEF SitesOK
      <4> QED BY <3>1, <4>2, <4>3
    <3> QED BY <3>2, <3>3
  <2>3. ASSUME NEW i \in 2..(n + 1)
        PROVE  SiteOK(r.cs[i - 1], r.cs[i])
    <3>1. i - 1 \in 1..n /\ r.cs[i - 1] = p.cs[i - 1]
      <4>1. n \in Nat
        BY <1>2
      <4>2. i - 1 \in 1..n
        BY <2>3, <4>1
      <4> QED BY <1>1, <4>2
    <3>2. CASE i = n + 1
      <4>1. r.cs[i] = site /\ r.cs[i - 1] = top
        BY <1>1, <1>2, <3>1, <3>2
      <4>2. SiteOK(top, site)
        BY <1>1, <1>2, <1>5, <1>6, <1>7 DEF SiteOK
      <4> QED BY <4>1, <4>2
    <3>3. CASE i # n + 1
      <4>1. i \in 2..n /\ i \in 1..n
        <5>1. n \in Nat
          BY <1>2
        <5> QED BY <2>3, <3>3, <5>1
      <4>2. r.cs[i] = p.cs[i] /\ n = Len(p.cs)
        BY <1>1, <1>2, <4>1
      <4>3. SiteOK(p.cs[i - 1], p.cs[i])
        BY <1>3, <4>1, <4>2 DEF SitesOK
      <4> QED BY <3>1, <4>2, <4>3
    <3> QED BY <3>2, <3>3
  <2> QED BY <1>1, <2>1, <2>2, <2>3 DEF SitesOK
<1>10. RoomOK(r)
  <2>1. r.cap \in Nat /\ Shape[f].maxstack \in Nat
    BY <1>1, PadFacts, ShapeFacts
  <2>2. \A i \in 1..n : OperandsStart(r.cs[i]) + Shape[r.cs[i].callee].maxstack <= r.cap
    <3> TAKE i \in 1..n
    <3>1. OperandsStart(p.cs[i]) + Shape[p.cs[i].callee].maxstack <= p.cap
      BY <1>2, <1>3 DEF RoomOK
    <3>2. r.cs[i] = p.cs[i] /\ r.cap >= p.cap /\ p.cap \in Nat
      BY <1>1, <1>2
    <3>3. OperandsStart(p.cs[i]) \in Nat /\ Shape[p.cs[i].callee].maxstack \in Nat
      BY <1>4
    <3> QED BY <2>1, <3>1, <3>2, <3>3
  <2>3. Len(r.slots) <= r.cap
    BY <1>1, <1>7, <2>1
  <2> QED BY <1>1, <1>2, <2>2, <2>3 DEF RoomOK
<1>11. PinnedOK(r)
  <2>1. Len(r.slots) \in Nat /\ Len(r.slots) >= site.bottom /\ site.bottom >= 1
    <3>1. 1 \in 1..n
      BY <1>2
    <3>2. OperandsStart(p.cs[1]) < site.bottom /\ OperandsStart(p.cs[1]) \in Nat
      BY <1>4, <1>8, <3>1
    <3>3. Len(r.slots) \in Nat
      BY <1>1, PadFacts
    <3> QED BY <1>1, <1>7, <3>2, <3>3
  <2>2. \A i \in 1..n : /\ r.cs[i].bottom \in 1..Len(r.slots)
                        /\ r.slots[r.cs[i].bottom] = r.cs[i].callee
    <3> TAKE i \in 1..n
    <3>1. p.cs[i].bottom \in 1..Len(p.slots) /\ p.slots[p.cs[i].bottom] = p.cs[i].callee
      BY <1>2, <1>3 DEF PinnedOK
    <3>2. p.cs[i].bottom \in 1..site.bottom
      BY <1>4, <1>7, <1>8, <3>1
    <3>3. r.slots[p.cs[i].bottom] = p.slots[p.cs[i].bottom]
      BY <1>1, <3>2
    <3>4. r.cs[i] = p.cs[i]
      BY <1>1
    <3>5. site.bottom \in Nat
      BY <1>7
    <3>6. p.cs[i].bottom \in 1..Len(r.slots)
      BY <2>1, <3>2, <3>5
    <3> QED BY <3>1, <3>3, <3>4, <3>6
  <2>3. r.slots[site.bottom] = f
    BY <1>1, <2>1
  <2>4. site.bottom \in 1..Len(r.slots)
    BY <1>7, <2>1
  <2>5. /\ r.cs[n + 1].bottom \in 1..Len(r.slots)
        /\ r.slots[r.cs[n + 1].bottom] = r.cs[n + 1].callee
    BY <1>1, <2>3, <2>4
  <2>6. \A i \in 1..(n + 1) : i \in 1..n \/ i = n + 1
    BY <1>2
  <2>7. Len(r.cs) = n + 1
    BY <1>1
  <2> QED BY <2>2, <2>5, <2>6, <2>7 DEF PinnedOK
<1>12. TopOK(r)
  <2>1. r.cs[Len(r.cs)] = site
    BY <1>1
  <2>2. /\ r.ip.fn = f /\ r.ip.depth = 0 /\ r.locals.blk = r.blk
        /\ r.locals.off = site.bottom
    BY <1>1
  <2>3. r.blk \in Nat /\ Shape[f].maxstack \in Nat
    BY <1>1, PadFacts, ShapeFacts
  <2> QED BY <1>1, <1>7, <2>1, <2>2, <2>3 DEF TopOK, TopAt
<1> QED BY <1>1, <1>9, <1>10, <1>11, <1>12 DEF PadOK

(* The call sites of a pad in order, one by one.                             *)
LEMMA FrameFacts ==
    ASSUME NEW p, PadOK(p), NEW i \in 1..Len(p.cs)
    PROVE  /\ p.cs[i] \in CallSite
           /\ p.cs[i].bottom \in Nat /\ p.cs[i].bottom >= 1
           /\ p.cs[i].bottom <= Len(p.slots)
           /\ p.slots[p.cs[i].bottom] = p.cs[i].callee
           /\ OperandsStart(p.cs[i]) \in Nat
           /\ OperandsStart(p.cs[i]) >= p.cs[i].bottom
           /\ OperandsStart(p.cs[i]) = p.cs[i].bottom + Shape[p.cs[i].callee].nlocals
           /\ p.cs[i].callee \in Func
           /\ Shape[p.cs[i].callee].nlocals \in Nat
           /\ Shape[p.cs[i].callee].maxstack \in Nat
           /\ OperandsStart(p.cs[i]) + Shape[p.cs[i].callee].maxstack <= p.cap
           /\ \A j \in 1..Len(p.cs) : i < j => OperandsStart(p.cs[i]) < p.cs[j].bottom
<1>1. p \in ScratchPad /\ SitesOK(p) /\ RoomOK(p) /\ PinnedOK(p)
  BY DEF PadOK
<1>2. p.cs[i] \in CallSite /\ Len(p.slots) \in Nat
  BY <1>1, PadFacts
<1>3. /\ p.cs[i].bottom \in 1..Len(p.slots)
      /\ p.slots[p.cs[i].bottom] = p.cs[i].callee
  BY <1>1 DEF PinnedOK
<1>4. OperandsStart(p.cs[i]) + Shape[p.cs[i].callee].maxstack <= p.cap
  BY <1>1 DEF RoomOK
<1>5. \A j \in 1..Len(p.cs) : i < j => OperandsStart(p.cs[i]) < p.cs[j].bottom
  BY <1>1 DEF SitesOK
<1>6. p.cs[i].bottom \in Nat /\ p.cs[i].bottom >= 1 /\ p.cs[i].bottom <= Len(p.slots)
  BY <1>2, <1>3
<1> QED BY <1>2, <1>3, <1>4, <1>5, <1>6, SiteFacts

(* OP_RETURN to a caller: the call's slots are replaced by the value, and
   the caller's registers are back.                                         *)
Returned(p) ==
    [p EXCEPT !.slots = Popped(p), !.cs = Drop(@, 1),
              !.consts = Last(p.cs).prevConsts,
              !.locals = [blk |-> p.blk, off |-> Last(p.cs).prevOff],
              !.ip = After(Last(p.cs).callIp)]

(* What is left when a frame is popped: everything under its function.      *)
LEMMA PoppedFacts ==
    ASSUME NEW p, PadOK(p), p.wait = 0, p.ip.depth = 1
    PROVE  /\ Popped(p) \in Seq(Value)
           /\ Len(Popped(p)) = Last(p.cs).bottom
           /\ \A i \in 1..(Last(p.cs).bottom - 1) : Popped(p)[i] = p.slots[i]
           /\ Last(Popped(p)) \in Value
<1> DEFINE site == Last(p.cs)
           len == Len(p.slots)
           k == 1 + Shape[site.callee].nlocals + 1
           under == Drop(p.slots, k)
           v == p.slots[len]
<1>1. /\ p \in ScratchPad /\ site = p.cs[Len(p.cs)] /\ Len(p.cs) \in 1..Len(p.cs)
      /\ TopAt(p, OperandsStart(site))
  <2>1. p \in ScratchPad /\ Len(p.cs) >= 1 /\ TopAt(p, OperandsStart(site))
    BY TopFacts
  <2> QED BY <2>1, PadFacts DEF Last
<1>2. /\ site.bottom \in Nat /\ site.bottom >= 1
      /\ OperandsStart(site) = site.bottom + Shape[site.callee].nlocals
      /\ Shape[site.callee].nlocals \in Nat
  BY <1>1, FrameFacts
<1>3. p.slots \in Seq(Value) /\ len \in Nat /\ len = OperandsStart(site) + 1
  BY <1>1, PadFacts DEF TopAt
<1> HIDE DEF site
<1>4. k \in 0..len /\ len - k = site.bottom - 1
  BY <1>2, <1>3
<1>5. v \in Value
  BY <1>2, <1>3
<1> HIDE DEF k, len
<1>6. /\ under \in Seq(Value) /\ Len(under) = site.bottom - 1
      /\ \A i \in 1..(site.bottom - 1) : under[i] = p.slots[i]
  <2>1. /\ under \in Seq(Value) /\ Len(under) = len - k
        /\ \A i \in 1..(len - k) : under[i] = p.slots[i]
    BY <1>3, <1>4, DropFacts DEF len
  <2> HIDE DEF under
  <2> QED BY <1>4, <2>1
<1>7. Popped(p) = Append(under, v)
  BY DEF Popped, Last, under, k, v, len, site
<1> HIDE DEF under, v
<1>8. /\ Append(under, v) \in Seq(Value) /\ Len(Append(under, v)) = Len(under) + 1
      /\ \A i \in 1..Len(under) : Append(under, v)[i] = under[i]
      /\ Append(under, v)[Len(under) + 1] = v
  BY <1>5, <1>6, AppendFacts
<1>9. Len(Popped(p)) = site.bottom /\ Last(Popped(p)) = v
  BY <1>2, <1>6, <1>7, <1>8 DEF Last
<1> QED BY <1>5, <1>6, <1>7, <1>8, <1>9 DEF site

(* The point after a call: its function and arguments are gone, its value is
   there.                                                                   *)
LEMMA AfterFacts ==
    ASSUME NEW ip \in Ip, ip.nargs < ip.depth
    PROVE  /\ After(ip) \in Ip /\ After(ip).fn = ip.fn
           /\ After(ip).depth = ip.depth - ip.nargs
           /\ ip.depth \in Nat /\ ip.nargs \in Nat
<1>1. ip.depth \in Nat /\ ip.nargs \in Nat /\ ip.fn \in Func
  BY DEF Ip
<1>2. ip.depth - ip.nargs \in Nat
  BY <1>1
<1> QED BY <1>1, <1>2 DEF After, Ip

(* OP_RETURN to a bytecode caller leaves the pad in order: the caller's
   frame is the top one again, at the depth codegen computed for the next
   instruction.                                                             *)
LEMMA ReturnOK ==
    ASSUME NEW p, PadOK(p), p.wait = 0, p.ip.depth = 1,
           Last(p.cs).callIp # NullIp
    PROVE  PadOK(Returned(p))
<1> DEFINE n == Len(p.cs)
           q == Returned(p)
           site == p.cs[n]
           caller == p.cs[n - 1]
           ip == site.callIp
           s == Popped(p)
           cs == Drop(p.cs, 1)
<1>1. /\ p \in ScratchPad /\ SitesOK(p) /\ n \in Nat /\ site = Last(p.cs)
      /\ Len(p.slots) <= p.cap /\ p.cap \in Nat /\ p.blk \in Nat
      /\ Len(p.slots) \in Nat
      /\ p.cs \in Seq(CallSite) /\ n >= 1 /\ n = Len(p.cs)
  BY TopFacts, PadFacts DEF PadOK
<1>2. n >= 2 /\ n - 1 \in 1..n /\ n \in 1..n /\ n \in 2..n
  BY <1>1 DEF SitesOK
<1>3. /\ ip \in Ip /\ ip.fn = caller.callee /\ ip.nargs < ip.depth
      /\ ip.depth <= Shape[caller.callee].maxstack
      /\ site.prevConsts = Shape[caller.callee].chunk
      /\ site.bottom = OperandsStart(caller) + ip.depth - ip.nargs
      /\ site.prevOff \in {Wild, caller.bottom}
  BY <1>1, <1>2 DEF SitesOK, SiteOK
<1>4. \A i \in 1..n :
         /\ p.cs[i] \in CallSite
         /\ p.cs[i].bottom \in Nat /\ p.cs[i].bottom >= 1
         /\ p.cs[i].bottom <= Len(p.slots)
         /\ p.slots[p.cs[i].bottom] = p.cs[i].callee
         /\ OperandsStart(p.cs[i]) \in Nat
         /\ OperandsStart(p.cs[i]) >= p.cs[i].bottom
         /\ p.cs[i].callee \in Func
         /\ Shape[p.cs[i].callee].maxstack \in Nat
         /\ OperandsStart(p.cs[i]) + Shape[p.cs[i].callee].maxstack <= p.cap
         /\ \A j \in 1..n : i < j => OperandsStart(p.cs[i]) < p.cs[j].bottom
  BY FrameFacts
<1>5. /\ s \in Seq(Value) /\ Len(s) = site.bottom
      /\ \A i \in 1..(site.bottom - 1) : s[i] = p.slots[i]
  BY <1>1, PoppedFacts
<1>6. /\ cs \in Seq(CallSite) /\ Len(cs) = n - 1
      /\ \A i \in 1..(n - 1) : cs[i] = p.cs[i]
  <2>1. 1 \in 0..Len(p.cs)
    BY <1>1, <1>2
  <2> QED BY <1>1, <2>1, DropFacts
<1>7. /\ After(ip) \in Ip /\ After(ip).fn = ip.fn
      /\ After(ip).depth = ip.depth - ip.nargs
      /\ ip.depth \in Nat /\ ip.nargs \in Nat
  BY <1>3, AfterFacts
<1>8. /\ q.slots = s /\ q.cs = cs /\ q.consts = site.prevConsts
      /\ q.locals = [blk |-> p.blk, off |-> site.prevOff]
      /\ q.ip = After(ip) /\ q.cap = p.cap /\ q.blk = p.blk /\ q.wait = 0
  BY <1>1 DEF Returned, ScratchPad
<1>9. q \in ScratchPad
  <2>1. site.prevOff \in Nat \union {Wild} /\ site.prevConsts \in Chunk
    BY <1>2, <1>3, <1>4, ShapeFacts
  <2>2. [blk |-> p.blk, off |-> site.prevOff] \in Pointer
    BY <1>1, <2>1 DEF Pointer
  <2>3. q = [p EXCEPT !.slots = s, !.cs = cs, !.consts = site.prevConsts,
                      !.locals = [blk |-> p.blk, off |-> site.prevOff],
                      !.ip = After(ip)]
    BY <1>1 DEF Returned
  <2> HIDE DEF s, cs, ip, q
  <2> QED BY <1>1, <1>5, <1>6, <1>7, <2>1, <2>2, <2>3 DEF ScratchPad
<1> HIDE DEF q, site, caller, ip, s, cs, n
<1>10. q.cs # <<>> /\ Len(q.cs) = n - 1 /\ \A i \in 1..(n - 1) : q.cs[i] = p.cs[i]
  BY <1>2, <1>6, <1>8
<1>11. SitesOK(q)
  <2>1. q.cs[1].callIp = NullIp /\ q.cs[1].bottom = 1
    <3>1. 1 \in 1..(n - 1)
      BY <1>1, <1>2
    <3> QED BY <1>1, <1>10, <3>1 DEF SitesOK
  <2>2. \A i, j \in 1..(n - 1) : i < j => OperandsStart(q.cs[i]) < q.cs[j].bottom
    <3> SUFFICES ASSUME NEW i \in 1..(n - 1), NEW j \in 1..(n - 1), i < j
                 PROVE  OperandsStart(q.cs[i]) < q.cs[j].bottom
      OBVIOUS
    <3>1. i \in 1..n /\ j \in 1..n /\ q.cs[i] = p.cs[i] /\ q.cs[j] = p.cs[j]
      BY <1>1, <1>10
    <3> QED BY <1>4, <3>1
  <2>3. \A i \in 2..(n - 1) : /\ i \in 2..n /\ q.cs[i] = p.cs[i]
                             /\ q.cs[i - 1] = p.cs[i - 1]
    BY <1>1, <1>10
  <2>4. Len(q.cs) = n - 1
    BY <1>10
  <2>5. q.cs # <<>>
    BY <1>10
  <2>6. SitesOK(p) /\ Len(p.cs) = n
    BY <1>1
  <2>7. ASSUME NEW i \in 2..(n - 1)
        PROVE  SiteOK(q.cs[i - 1], q.cs[i])
    BY <2>3, <2>6, <2>7 DEF SitesOK
  <2> QED BY <2>1, <2>2, <2>4, <2>5, <2>7 DEF SitesOK
<1>12. Len(q.slots) = OperandsStart(caller) + q.ip.depth
  BY <1>3, <1>5, <1>7, <1>8
<1>13. RoomOK(q)
  <2>1. Len(q.slots) <= q.cap
    <3>1. site.bottom <= Len(p.slots) /\ site.bottom \in Nat
      BY <1>2, <1>4 DEF site
    <3> QED BY <1>1, <1>5, <1>8, <3>1
  <2>2. \A i \in 1..(n - 1) : i \in 1..n
    BY <1>1
  <2> QED BY <1>4, <1>8, <1>10, <2>1, <2>2 DEF RoomOK
<1>14. PinnedOK(q)
  <2> SUFFICES ASSUME NEW i \in 1..(n - 1)
               PROVE  /\ q.cs[i].bottom \in 1..Len(q.slots)
                      /\ q.slots[q.cs[i].bottom] = q.cs[i].callee
    BY <1>10 DEF PinnedOK
  <2>1. i \in 1..n /\ i < n /\ q.cs[i] = p.cs[i]
    BY <1>1, <1>10
  <2>2. OperandsStart(p.cs[i]) < site.bottom
    BY <1>2, <1>4, <2>1 DEF site
  <2>3. /\ p.cs[i].bottom \in Nat /\ p.cs[i].bottom >= 1
        /\ OperandsStart(p.cs[i]) \in Nat /\ OperandsStart(p.cs[i]) >= p.cs[i].bottom
        /\ p.slots[p.cs[i].bottom] = p.cs[i].callee
        /\ site.bottom \in Nat
    BY <1>2, <1>4, <2>1 DEF site
  <2>4. p.cs[i].bottom \in 1..(site.bottom - 1)
    BY <2>2, <2>3
  <2> QED BY <1>5, <1>8, <2>1, <2>3, <2>4
<1>15. TopOK(q)
  <2>1. q.cs[Len(q.cs)] = caller
    BY <1>2, <1>10 DEF caller
  <2>2. TopAt(q, OperandsStart(caller))
    BY <1>8, <1>12 DEF TopAt
  <2>3. After(ip).depth <= Shape[caller.callee].maxstack
    <3>1. Shape[caller.callee].maxstack \in Nat
      BY <1>2, <1>4 DEF caller
    <3> QED BY <1>3, <1>7, <3>1
  <2>4. /\ q.ip.fn = caller.callee /\ q.consts = Shape[caller.callee].chunk
        /\ q.locals.blk = q.blk /\ q.locals.off \in {Wild, caller.bottom}
        /\ q.ip.depth <= Shape[caller.callee].maxstack
    BY <1>3, <1>7, <1>8, <2>3
  <2> QED BY <1>1, <1>8, <2>1, <2>2, <2>4 DEF TopOK
<1> QED BY <1>9, <1>11, <1>13, <1>14, <1>15 DEF PadOK, q

(* What a native function leaves: its value instead of its slots.           *)
DoneNative(p, v) ==
    [p EXCEPT !.slots = Append(Drop(@, p.wait), v), !.wait = 0, !.ip = After(@)]

(* The caller of a native function goes on where codegen says, with its
   frame as it was.                                                         *)
LEMMA DoneNativeOK ==
    ASSUME NEW p, PadOK(p), p.wait > 0, NEW v \in Value
    PROVE  PadOK(DoneNative(p, v))
<1> DEFINE q == DoneNative(p, v)
           site == Last(p.cs)
           under == Drop(p.slots, p.wait)
           s == Append(under, v)
           start == OperandsStart(site)
           len == Len(p.slots)
<1>1. /\ p \in ScratchPad /\ p.ip \in Ip /\ site \in CallSite
      /\ p.ip.fn = site.callee
      /\ p.ip.depth <= Shape[site.callee].maxstack
      /\ len <= p.cap /\ len \in Nat /\ p.cap \in Nat /\ p.blk \in Nat
      /\ p.wait \in Nat /\ p.slots \in Seq(Value)
      /\ site.bottom >= 1 /\ TopAt(p, start)
  BY TopFacts, PadFacts
<1>2. /\ start \in Nat /\ site.bottom \in Nat /\ start >= site.bottom
      /\ Shape[site.callee].maxstack \in Nat
  BY <1>1, SiteFacts
<1>3. /\ p.ip.nargs < p.ip.depth
      /\ len = start + p.ip.depth - p.ip.nargs + p.wait - 1
  BY <1>1 DEF TopAt
<1>4. /\ After(p.ip) \in Ip /\ After(p.ip).fn = p.ip.fn
      /\ After(p.ip).depth = p.ip.depth - p.ip.nargs
      /\ p.ip.depth \in Nat /\ p.ip.nargs \in Nat
  BY <1>1, <1>3, AfterFacts
<1> HIDE DEF start, len, site
<1>5. p.wait \in 0..len /\ len - p.wait >= start
  BY <1>1, <1>2, <1>3, <1>4, SMTT(30)
<1>6. /\ under \in Seq(Value) /\ Len(under) = len - p.wait
      /\ \A i \in 1..(len - p.wait) : under[i] = p.slots[i]
  BY <1>1, <1>5, DropFacts DEF len
<1> HIDE DEF under
<1>7. /\ s \in Seq(Value) /\ Len(s) = Len(under) + 1
      /\ \A i \in 1..Len(under) : s[i] = under[i]
  <2>1. under \in Seq(Value)
    BY <1>6
  <2> QED BY <2>1, AppendFacts
<1>8. q = [p EXCEPT !.slots = s, !.wait = 0, !.ip = After(p.ip)]
  BY <1>1 DEF DoneNative, under
<1> HIDE DEF s, q
<1>9. /\ q \in ScratchPad /\ q.slots = s /\ q.cs = p.cs /\ q.ip = After(p.ip)
      /\ q.locals = p.locals /\ q.consts = p.consts /\ q.cap = p.cap
      /\ q.blk = p.blk /\ q.wait = 0
  BY <1>1, <1>4, <1>7, <1>8 DEF ScratchPad
<1>10. /\ Len(s) = start + q.ip.depth /\ Len(s) <= q.cap
       /\ \A i \in 1..site.bottom : s[i] = p.slots[i]
  <2>1. Len(s) = len - p.wait + 1
    BY <1>6, <1>7
  <2>2. \A i \in 1..site.bottom : i \in 1..(len - p.wait)
    BY <1>1, <1>2, <1>5
  <2>3. \A i \in 1..site.bottom : s[i] = p.slots[i]
    BY <1>6, <1>7, <2>2
  <2>4. Len(s) = start + q.ip.depth
    <3>1. q.ip.depth = p.ip.depth - p.ip.nargs
      BY <1>4, <1>9
    <3>2. len = start + p.ip.depth - p.ip.nargs + p.wait - 1
      BY <1>3
    <3>3. /\ len \in Nat /\ start \in Nat /\ p.wait \in Nat
          /\ p.ip.depth \in Nat /\ p.ip.nargs \in Nat
      BY <1>1, <1>2, <1>4
    <3>4. PICK l \in Nat, a \in Nat, m \in Nat, x \in Nat, w \in Nat :
             l = len /\ a = start /\ m = p.ip.depth /\ x = p.ip.nargs /\ w = p.wait
      BY <3>3
    <3>5. l = a + m - x + w - 1
      BY <3>2, <3>4
    <3>6. l - w + 1 = a + (m - x)
      BY <3>5, OverTheCall
    <3> QED BY <2>1, <3>1, <3>4, <3>6
  <2>5. Len(s) <= q.cap
    BY <1>1, <1>5, <1>9, <2>1, SMTT(30)
  <2> QED BY <2>3, <2>4, <2>5
<1>11. KeepsFrames(p, q)
  <2>1. Len(q.slots) >= OperandsStart(Last(p.cs))
    BY <1>2, <1>4, <1>9, <1>10, <1>3 DEF start, site
  <2>2. \A j \in 1..Last(p.cs).bottom : q.slots[j] = p.slots[j]
    BY <1>9, <1>10 DEF site
  <2> QED BY <1>1, <1>4, <1>9, <2>1, <2>2 DEF KeepsFrames
<1>12. q.ip.depth <= Shape[p.ip.fn].maxstack
  BY <1>1, <1>2, <1>4, <1>9
<1>13. TopAt(q, OperandsStart(Last(p.cs)))
  BY <1>9, <1>10 DEF TopAt, start, site
<1>14. Len(q.slots) <= q.cap
  BY <1>9, <1>10
<1>15. PadOK(q)
  BY <1>9, <1>11, <1>12, <1>13, <1>14, SameSites
<1> QED BY <1>15 DEF q

(* A fresh pad is in order.                                                 *)
LEMMA FreshOK ==
    ASSUME NEW f \in Func, Main(f), NEW r \in FreshPad(f)
    PROVE  PadOK(r) /\ r.wait = 0
<1> DEFINE site == OutermostSite(f)
           need == Shape[f].maxstack + Shape[f].nlocals + 1
           e0 == EmptyPad(f)
<1>1. /\ f \in Value /\ Shape[f].nlocals \in Nat /\ Shape[f].maxstack \in Nat
      /\ Shape[f].chunk \in Chunk /\ need \in Nat
      /\ Params(f) = 0 /\ NVars(f) = Shape[f].nlocals
  BY ShapeFacts DEF Main, Params, Required, Gathers, NVars
<1>2. /\ site \in CallSite /\ site.callIp = NullIp /\ site.callee = f
      /\ site.bottom = 1
  BY DEF OutermostSite, CallSite
<1>3. /\ e0 \in ScratchPad /\ e0.slots = <<>> /\ e0.cs = <<>>
  <2>1. /\ [fn |-> f, depth |-> 0, nargs |-> 0] \in Ip
        /\ [blk |-> 0, off |-> 1] \in Pointer
    BY DEF Ip, Pointer
  <2>2. <<>> \in Seq(Value) /\ <<>> \in Seq(CallSite)
    OBVIOUS
  <2> QED BY <1>1, <2>1, <2>2 DEF EmptyPad, ScratchPad
<1>4. PICK e \in Ensure(e0, need) : r = Started(Pushed(e, <<f>>), f, site)
  BY DEF FreshPad
<1> HIDE DEF e0, site, need
<1>5. /\ e \in ScratchPad /\ e.slots = <<>> /\ e.cs = <<>> /\ e.cap >= need
      /\ e.cap \in Nat /\ e.blk \in Nat
  <2>1. /\ e \in ScratchPad /\ e.slots = <<>> /\ e.cs = <<>>
        /\ e.cap >= Len(e0.slots) + need
    BY <1>1, <1>3, <1>4, EnsureFacts
  <2> QED BY <1>1, <1>3, <2>1, PadFacts
<1> DEFINE h == Pushed(e, <<f>>)
<1>6. h.slots = <<f>> /\ h.cs = <<>> /\ h.cap = e.cap /\ h.blk = e.blk
  <2>2. <<f>> \in Seq(Value)
    BY <1>1
  <2>1. h = [e EXCEPT !.slots = <<f>>]
    <3>1. e.slots \o <<f>> = <<f>>
      BY <1>5, <2>2, ConcatEmptySeq
    <3> QED BY <3>1 DEF Pushed
  <2> DEFINE t == <<f>>
  <2>3. h = [e EXCEPT !.slots = t] /\ t \in Seq(Value)
    BY <2>1, <2>2
  <2> HIDE DEF t, h
  <2>4. h.slots = t /\ SameControl(e, h) /\ h.cap = e.cap /\ h.blk = e.blk
    BY <1>5, <2>3, NewSlots
  <2> QED BY <1>5, <2>4 DEF t, SameControl
<1> HIDE DEF h
<1> DEFINE nils == Nils(Shape[f].nlocals)
<1>7. /\ r.slots = <<f>> \o nils /\ r.cap = e.cap /\ r.blk = e.blk
      /\ r.cs = <<site>> /\ r.ip = [fn |-> f, depth |-> 0, nargs |-> 0]
      /\ r.locals = [blk |-> e.blk, off |-> 1]
      /\ r.consts = Shape[f].chunk /\ r.wait = 0
  <2>1. r = Started(h, f, site)
    BY <1>4 DEF h
  <2>2. Append(<<>>, site) = <<site>>
    OBVIOUS
  <2>3. /\ r.slots = h.slots \o Nils(NVars(f)) /\ r.cap = h.cap /\ r.blk = h.blk
        /\ r.cs = Append(h.cs, site) /\ r.ip = [fn |-> f, depth |-> 0, nargs |-> 0]
        /\ r.locals = [blk |-> h.blk, off |-> site.bottom]
        /\ r.consts = Shape[f].chunk /\ r.wait = 0
    BY <2>1 DEF Started
  <2> QED BY <1>1, <1>2, <1>6, <2>2, <2>3
<1>8. /\ r.slots \in Seq(Value) /\ Len(r.slots) = 1 + Shape[f].nlocals
      /\ r.slots[1] = f
  <2>1. nils \in Seq(Value) /\ Len(nils) = Shape[f].nlocals
    BY <1>1, NilsFacts
  <2> HIDE DEF nils
  <2>2. <<f>> \in Seq(Value) /\ Len(<<f>>) = 1 /\ <<f>>[1] = f
    BY <1>1
  <2> QED BY <1>1, <1>7, <2>1, <2>2, ConcatProperties
<1>9. r \in ScratchPad
  <2>1. r = [slots |-> r.slots, cap |-> e.cap, blk |-> e.blk, cs |-> r.cs,
             ip |-> r.ip, locals |-> r.locals, consts |-> r.consts, wait |-> 0]
    <3>1. r = Started(h, f, site)
      BY <1>4 DEF h
    <3> HIDE DEF nils
    <3> QED BY <1>6, <1>7, <3>1 DEF Started
  <2>2. r.locals \in Pointer /\ r.ip \in Ip /\ r.consts \in Chunk
    BY <1>1, <1>5, <1>7 DEF Pointer, Ip
  <2>3. r.cs \in Seq(CallSite)
    BY <1>2, <1>7
  <2>4. r.slots \in Seq(Value) /\ e.cap \in Nat /\ e.blk \in Nat
    BY <1>5, <1>8
  <2> HIDE DEF nils
  <2> QED BY <2>1, <2>2, <2>3, <2>4 DEF ScratchPad
<1>10. Len(r.cs) = 1 /\ r.cs[1] = site /\ r.cs # <<>>
  BY <1>7
<1>11. OperandsStart(site) = 1 + Shape[f].nlocals
  BY <1>2 DEF OperandsStart
<1>12. SitesOK(r)
  BY <1>2, <1>10 DEF SitesOK
<1>13. RoomOK(r)
  <2>1. 1 + Shape[f].nlocals + Shape[f].maxstack <= r.cap
    BY <1>1, <1>5, <1>7 DEF need
  <2>2. site.callee = f /\ Shape[f].maxstack \in Nat /\ r.cap \in Nat
        /\ Shape[f].nlocals \in Nat
    BY <1>1, <1>2, <1>5, <1>7
  <2>3. Len(r.slots) <= r.cap
    BY <1>8, <2>1, <2>2
  <2> QED BY <1>10, <1>11, <2>1, <2>2, <2>3 DEF RoomOK
<1>14. PinnedOK(r)
  BY <1>1, <1>2, <1>8, <1>10 DEF PinnedOK
<1>15. TopOK(r)
  <2>1. r.ip.fn = f /\ r.ip.depth = 0 /\ r.locals.blk = r.blk /\ r.locals.off = 1
    BY <1>7
  <2> QED BY <1>1, <1>2, <1>5, <1>7, <1>8, <1>10, <1>11, <2>1 DEF TopOK, TopAt
<1> QED BY <1>7, <1>9, <1>12, <1>13, <1>14, <1>15 DEF PadOK

(* After scattering, the arguments passed are on top of what the caller has
   under the call's operands.                                               *)
LEMMA ScatteredFacts ==
    ASSUME PadOK(Pad), NEW nargs \in Nat, NEW scatter \in BOOLEAN,
           CallPoint(nargs, scatter), Scatterable(scatter),
           NEW p \in Scattered(scatter)
    PROVE  /\ p \in ScratchPad /\ SameControl(Pad, p)
           /\ Passed(nargs, scatter) \in Nat
           /\ Len(p.slots) = Len(Pad.slots) - nargs + Passed(nargs, scatter)
           /\ Len(p.slots) <= p.cap
           /\ \A i \in 1..(Len(Pad.slots) - nargs) : p.slots[i] = Pad.slots[i]
<1>1. /\ Pad \in ScratchPad /\ Len(Pad.slots) \in Nat
      /\ Len(Pad.slots) <= Pad.cap /\ Len(Pad.slots) >= 1
  <2>1. /\ Last(Pad.cs).bottom >= 1 /\ Last(Pad.cs).bottom <= Len(Pad.slots)
        /\ Pad \in ScratchPad /\ Last(Pad.cs) \in CallSite
        /\ Len(Pad.slots) <= Pad.cap
    BY TopFacts
  <2>2. Last(Pad.cs).bottom \in Nat /\ Len(Pad.slots) \in Nat
    BY <2>1, SiteFacts, PadFacts
  <2> QED BY <2>1, <2>2
<1>2. CASE scatter
  <2> DEFINE k == Len(Items[Last(Pad.slots)])
  <2>1. nargs >= 1 /\ Last(Pad.slots) \in List /\ p \in Scatter(Pad)
    BY <1>2 DEF CallPoint, Scatterable, Scattered
  <2>2. Pad.slots # <<>>
    BY <1>1
  <2>3. /\ p \in ScratchPad /\ SameControl(Pad, p) /\ k \in Nat
        /\ Len(p.slots) = Len(Pad.slots) - 1 + k /\ Len(p.slots) <= p.cap
        /\ \A i \in 1..(Len(Pad.slots) - 1) : p.slots[i] = Pad.slots[i]
    BY <1>1, <2>1, <2>2, ScatterFacts
  <2>4. Passed(nargs, scatter) = nargs - 1 + k
    BY <1>2 DEF Passed
  <2> HIDE DEF k
  <2>5. /\ nargs - 1 + k \in Nat
        /\ Len(p.slots) = Len(Pad.slots) - nargs + (nargs - 1 + k)
        /\ \A i \in 1..(Len(Pad.slots) - nargs) : i \in 1..(Len(Pad.slots) - 1)
    <3> DEFINE len == Len(Pad.slots)
    <3>1. len \in Nat /\ nargs >= 1 /\ k \in Nat /\ Len(p.slots) = len - 1 + k
      BY <1>1, <2>1, <2>3
    <3> HIDE DEF len
    <3>2. nargs - 1 + k \in Nat /\ Len(p.slots) = len - nargs + (nargs - 1 + k)
      BY <3>1, SMTT(30)
    <3>3. \A i \in 1..(len - nargs) : i \in 1..(len - 1)
      BY <3>1
    <3> QED BY <3>2, <3>3 DEF len
  <2> QED BY <2>3, <2>4, <2>5
<1>3. CASE ~scatter
  <2>1. p = Pad /\ Passed(nargs, scatter) = nargs
    BY <1>3 DEF Scattered, Passed
  <2>2. SameControl(Pad, Pad)
    BY <1>1, PadFacts DEF SameControl
  <2>3. Len(Pad.slots) = Len(Pad.slots) - nargs + nargs
    BY <1>1
  <2> QED BY <1>1, <2>1, <2>2, <2>3
<1> QED BY <1>2, <1>3

(* After do_call_scatter and do_call_coerce, the parameters are where the
   arguments were.                                                          *)
LEMMA ArrangedOK ==
    ASSUME PadOK(Pad), NEW nargs \in Nat, NEW scatter \in BOOLEAN,
           CallPoint(nargs, scatter), Scatterable(scatter),
           NEW f \in Func, f = Called(nargs),
           Accepts(f, Passed(nargs, scatter)),
           NEW p \in Scattered(scatter),
           NEW q \in Coerce(p, f, Passed(nargs, scatter))
    PROVE  Arranged(Pad, q, f, nargs)
<1> DEFINE n == Passed(nargs, scatter)
<1>1. /\ p \in ScratchPad /\ SameControl(Pad, p) /\ n \in Nat
      /\ Len(p.slots) = Len(Pad.slots) - nargs + n /\ Len(p.slots) <= p.cap
      /\ \A i \in 1..(Len(Pad.slots) - nargs) : p.slots[i] = Pad.slots[i]
  BY ScatteredFacts
<1>2. nargs < Pad.ip.depth /\ Pad.wait = 0
  BY DEF CallPoint, Running
<1>3. /\ Len(Pad.slots) \in Nat /\ Params(f) \in Nat
      /\ Len(Pad.slots) - nargs \in Nat
  <2>1. /\ Pad \in ScratchPad /\ Last(Pad.cs) \in CallSite
        /\ Len(Pad.slots) = OperandsStart(Last(Pad.cs)) + Pad.ip.depth
    BY <1>2, TopFacts DEF TopAt
  <2>2. /\ Len(Pad.slots) \in Nat /\ OperandsStart(Last(Pad.cs)) \in Nat
        /\ Pad.ip.depth \in Nat
    BY <2>1, PadFacts, SiteFacts
  <2> QED BY <1>2, <2>1, <2>2, ShapeFacts
<1> HIDE DEF n
<1>4. n \in 0..Len(p.slots)
  BY <1>1, <1>3
<1>5. Accepts(f, n) /\ q \in Coerce(p, f, n)
  BY DEF n
<1>6. /\ q \in ScratchPad /\ SameControl(p, q)
      /\ Len(q.slots) = Len(p.slots) - n + Params(f)
      /\ \A i \in 1..(Len(p.slots) - n) : q.slots[i] = p.slots[i]
  BY <1>1, <1>4, <1>5, CoerceFacts
<1>7. Len(p.slots) - n = Len(Pad.slots) - nargs
  BY <1>1, <1>3
<1>8. SameControl(Pad, q)
  <2>1. Pad \in ScratchPad
    BY TopFacts
  <2>2. /\ Pad.cap \in Nat /\ Pad.blk \in Nat /\ p.cap \in Nat /\ p.blk \in Nat
        /\ q.cap \in Nat /\ q.blk \in Nat
    BY <1>1, <1>6, <2>1, PadFacts
  <2> QED BY <1>1, <1>6, <2>2 DEF SameControl
<1> QED BY <1>1, <1>6, <1>7, <1>8 DEF Arranged

(* do_call of a bytecode function leaves the pad in order.                  *)
LEMMA CallFuncOK ==
    ASSUME PadOK(Pad), NEW nargs \in Nat, NEW scatter \in BOOLEAN,
           CallPoint(nargs, scatter), Scatterable(scatter),
           NEW f \in Func, f = Called(nargs),
           Accepts(f, Passed(nargs, scatter)),
           NEW p \in Scattered(scatter),
           NEW q \in Coerce(p, f, Passed(nargs, scatter)),
           NEW r \in Enter(q, f, [Pad.ip EXCEPT !.nargs = nargs])
    PROVE  PadOK(r)
<1>1. nargs < Pad.ip.depth /\ Pad.wait = 0
  BY DEF CallPoint, Running
<1>2. Arranged(Pad, q, f, nargs)
  BY ArrangedOK
<1>3. Pad.slots[Len(Pad.slots) - nargs] = f
  BY DEF Called
<1> QED BY <1>1, <1>2, <1>3, EnterOK

(* do_call of a native function leaves the pad in order.                    *)
LEMMA CallNativeOK ==
    ASSUME PadOK(Pad), NEW nargs \in Nat, NEW scatter \in BOOLEAN,
           CallPoint(nargs, scatter), Scatterable(scatter),
           NEW p \in Scattered(scatter)
    PROVE  PadOK([p EXCEPT !.wait = Passed(nargs, scatter) + 1, !.ip.nargs = nargs])
<1> DEFINE n == Passed(nargs, scatter)
           q == [p EXCEPT !.wait = n + 1, !.ip.nargs = nargs]
           site == Last(Pad.cs)
           start == OperandsStart(site)
           len == Len(Pad.slots)
<1>1. /\ p \in ScratchPad /\ SameControl(Pad, p) /\ n \in Nat
      /\ Len(p.slots) = len - nargs + n /\ Len(p.slots) <= p.cap
      /\ \A i \in 1..(len - nargs) : p.slots[i] = Pad.slots[i]
  BY ScatteredFacts
<1>2. nargs < Pad.ip.depth /\ Pad.wait = 0
  BY DEF CallPoint, Running
<1>3. /\ Pad \in ScratchPad /\ site \in CallSite /\ Pad.ip \in Ip
      /\ Pad.ip.depth \in Nat /\ Pad.ip.fn = site.callee
      /\ Pad.ip.depth <= Shape[site.callee].maxstack
      /\ len = start + Pad.ip.depth /\ len \in Nat
      /\ start \in Nat /\ site.bottom \in Nat /\ start >= site.bottom
  <2>1. /\ Pad \in ScratchPad /\ site \in CallSite /\ Pad.ip.fn = site.callee
        /\ Pad.ip.depth <= Shape[site.callee].maxstack
        /\ TopAt(Pad, start)
    BY TopFacts
  <2>2. /\ Pad.ip \in Ip /\ Pad.ip.depth \in Nat /\ len \in Nat
    BY <2>1, PadFacts
  <2>3. start \in Nat /\ site.bottom \in Nat /\ start >= site.bottom
    BY <2>1, SiteFacts
  <2> QED BY <1>2, <2>1, <2>2, <2>3 DEF TopAt
<1> HIDE DEF n, site, start, len
<1> DEFINE ip == [Pad.ip EXCEPT !.nargs = nargs]
<1>4. ip \in Ip /\ ip.fn = Pad.ip.fn /\ ip.depth = Pad.ip.depth /\ ip.nargs = nargs
  BY <1>3 DEF Ip
<1>5. q = [p EXCEPT !.wait = n + 1, !.ip = ip]
  BY <1>1 DEF SameControl
<1> HIDE DEF ip, q
<1>6. /\ q \in ScratchPad /\ q.slots = p.slots /\ q.cs = p.cs /\ q.ip = ip
      /\ q.locals = p.locals /\ q.consts = p.consts /\ q.cap = p.cap
      /\ q.blk = p.blk /\ q.wait = n + 1
  <2>1. n + 1 \in Nat /\ ip \in Ip
    BY <1>1, <1>4
  <2> DEFINE w == n + 1
  <2> HIDE DEF w
  <2>2. q = [p EXCEPT !.wait = w, !.ip = ip] /\ w \in Nat
    BY <1>5, <2>1 DEF w
  <2>3. /\ q \in ScratchPad /\ q.slots = p.slots /\ q.cs = p.cs /\ q.ip = ip
        /\ q.locals = p.locals /\ q.consts = p.consts /\ q.cap = p.cap
        /\ q.blk = p.blk /\ q.wait = w
    BY <1>1, <2>1, <2>2 DEF ScratchPad
  <2> QED BY <2>3 DEF w
<1>7. /\ Len(q.slots) = start + q.ip.depth - q.ip.nargs + q.wait - 1
      /\ Len(q.slots) >= start /\ q.wait # 0
  <2>1. q.ip.depth = Pad.ip.depth /\ q.ip.nargs = nargs /\ q.wait = n + 1
    BY <1>4, <1>6
  <2>2. Len(q.slots) = len - nargs + n
    BY <1>1, <1>6
  <2>3. len = start + Pad.ip.depth
    BY <1>3
  <2>4. len \in Nat /\ start \in Nat /\ Pad.ip.depth \in Nat /\ n \in Nat
    BY <1>1, <1>3
  <2>5. nargs < Pad.ip.depth
    BY <1>2
  <2>6. PICK l \in Nat, a \in Nat, m \in Nat, k \in Nat :
           l = len /\ a = start /\ m = Pad.ip.depth /\ k = n
    BY <2>4
  <2>7. l = a + m /\ nargs < m
    BY <2>3, <2>5, <2>6
  <2>8. l - nargs + k = a + m - nargs + (k + 1) - 1 /\ l - nargs + k >= a
        /\ k + 1 # 0
    BY <2>7, WithPassed
  <2> QED BY <2>1, <2>2, <2>6, <2>8
<1>8. \A j \in 1..site.bottom : q.slots[j] = Pad.slots[j]
  <2>1. \A j \in 1..site.bottom : j \in 1..(len - nargs)
    BY <1>2, <1>3
  <2> QED BY <1>1, <1>6, <2>1
<1>9. KeepsFrames(Pad, q)
  BY <1>1, <1>4, <1>6, <1>7, <1>8 DEF KeepsFrames, SameControl, site, start
<1>10. q.ip.depth <= Shape[Pad.ip.fn].maxstack
  BY <1>3, <1>4, <1>6
<1>11. TopAt(q, OperandsStart(Last(Pad.cs)))
  <2>1. q.ip.nargs < q.ip.depth
    BY <1>2, <1>4, <1>6
  <2> QED BY <1>7, <2>1 DEF TopAt, site, start
<1>12. Len(q.slots) <= q.cap
  BY <1>1, <1>6
<1>13. PadOK(q)
  BY <1>6, <1>9, <1>10, <1>11, <1>12, SameSites
<1> QED BY <1>13 DEF q, n

-----------------------------------------------------------------------------
(* The inductive invariant: every pad is in order, and every one but the
   running one is in a call of Require.                                     *)
AwaitsRequire(p) == p.wait > 0 /\ p.slots[Len(p.slots) - p.wait + 1] = Require

IInv ==
    /\ pads \in Seq(ScratchPad)
    /\ ret \in Value \union {None, Failed}
    /\ \A k \in 1..Len(pads) : PadOK(pads[k])
    /\ \A k \in 1..Len(pads) :
          k < Len(pads) \/ ret # None => AwaitsRequire(pads[k])

(* Steps that change the running pad only.                                  *)
LEMMA SetPadInv ==
    ASSUME IInv, pads # <<>>, NEW p, PadOK(p), SetPad(p)
    PROVE  IInv'
<1> DEFINE n == Len(pads)
<1>1. /\ pads' = [pads EXCEPT ![n] = p] /\ ret' = None
  BY DEF SetPad
<1>2. p \in ScratchPad
  BY DEF PadOK
<1>3. pads \in Seq(ScratchPad) /\ n \in Nat /\ n \in 1..n
  BY DEF IInv
<1>4. /\ pads' \in Seq(ScratchPad) /\ Len(pads') = n /\ pads'[n] = p
      /\ \A k \in 1..n : k # n => pads'[k] = pads[k]
  BY <1>1, <1>2, <1>3
<1> HIDE DEF n
<1>5. \A k \in 1..n : PadOK(pads'[k])
  <2> TAKE k \in 1..n
  <2>1. PadOK(pads[k])
    BY DEF IInv, n
  <2> QED BY <1>4, <2>1
<1>6. \A k \in 1..n : k < n => AwaitsRequire(pads'[k])
  <2> TAKE k \in 1..n
  <2>1. k < n => AwaitsRequire(pads[k])
    BY DEF IInv, n
  <2>2. k < n => k # n
    BY <1>3
  <2> QED BY <1>4, <2>1, <2>2
<1>7. ret' \in Value \union {None, Failed}
  BY <1>1
<1> QED BY <1>1, <1>4, <1>5, <1>6, <1>7 DEF IInv

(* The end of an evaluation: the pad is freed, the one under it is waiting. *)
LEMMA PopPadInv ==
    ASSUME IInv, pads # <<>>, pads' = Drop(pads, 1),
           ret' \in Value \union {Failed}
    PROVE  IInv'
<1> DEFINE n == Len(pads)
<1>1. pads \in Seq(ScratchPad) /\ n \in Nat /\ 1 \in 0..n /\ n >= 1
  BY DEF IInv
<1>2. /\ pads' \in Seq(ScratchPad) /\ Len(pads') = n - 1
      /\ \A k \in 1..(n - 1) : pads'[k] = pads[k]
  BY <1>1, DropFacts
<1> HIDE DEF n
<1>3. \A k \in 1..(n - 1) : PadOK(pads'[k]) /\ AwaitsRequire(pads'[k])
  <2> TAKE k \in 1..(n - 1)
  <2>1. k \in 1..n /\ k < n
    BY <1>1
  <2>2. PadOK(pads[k]) /\ AwaitsRequire(pads[k])
    BY <2>1 DEF IInv, n
  <2> QED BY <1>2, <2>2
<1> QED BY <1>2, <1>3 DEF IInv

(* An error that takes the running pad away leaves the pads under it as they
   were: the invariant holds of them.                                       *)
LEMMA UnwindInv ==
    ASSUME IInv, pads # <<>>, Unwind
    PROVE  IInv'
BY PopPadInv DEF Unwind

(* The start of an evaluation, of a source text or of a required module.    *)
LEMMA BeginInv ==
    ASSUME IInv, NEW f \in Func, Main(f), Begin(f),
           pads # <<>> => AwaitsRequire(Pad)
    PROVE  IInv'
<1> DEFINE n == Len(pads)
<1>1. PICK p \in FreshPad(f) : pads' = Append(pads, p)
  BY DEF Begin
<1>2. PadOK(p) /\ p \in ScratchPad /\ ret' = None
  <2>1. PadOK(p)
    BY FreshOK
  <2> QED BY <2>1 DEF PadOK, Begin
<1>3. pads \in Seq(ScratchPad) /\ n \in Nat
  BY DEF IInv
<1>4. /\ pads' \in Seq(ScratchPad) /\ Len(pads') = n + 1 /\ pads'[n + 1] = p
      /\ \A k \in 1..n : pads'[k] = pads[k]
  BY <1>1, <1>2, <1>3, AppendFacts
<1>5. n > 0 => AwaitsRequire(pads[n])
  BY <1>3 DEF Pad, Last
<1> HIDE DEF n
<1>6. \A k \in 1..n : PadOK(pads'[k]) /\ AwaitsRequire(pads'[k])
  <2> TAKE k \in 1..n
  <2>1. PadOK(pads[k]) /\ (k < n => AwaitsRequire(pads[k]))
    BY DEF IInv, n
  <2>2. k = n => AwaitsRequire(pads[k])
    BY <1>3, <1>5
  <2>3. k < n \/ k = n
    BY <1>3
  <2> QED BY <1>4, <2>1, <2>2, <2>3
<1>7. \A k \in 1..(n + 1) : k \in 1..n \/ k = n + 1
  BY <1>3
<1>8. ~(n + 1 < n + 1)
  BY <1>3
<1>9. /\ \A k \in 1..Len(pads') : PadOK(pads'[k])
      /\ \A k \in 1..Len(pads') :
            k < Len(pads') \/ ret' # None => AwaitsRequire(pads'[k])
  BY <1>2, <1>4, <1>6, <1>7, <1>8
<1> QED BY <1>2, <1>4, <1>9 DEF IInv

(* The running pad is in order.                                             *)
LEMMA PadInv ==
    ASSUME IInv, pads # <<>>
    PROVE  /\ PadOK(Pad)
           /\ ret # None => AwaitsRequire(Pad)
<1>1. pads \in Seq(ScratchPad) /\ Len(pads) \in 1..Len(pads)
  BY DEF IInv
<1> QED BY <1>1 DEF IInv, Pad, Last

(* Every instruction on operands.                                           *)
LEMMA OperateInv ==
    ASSUME IInv, NEW take \in Nat, NEW given \in Seq(Value), Operate(take, given)
    PROVE  IInv'
<1> DEFINE depth == Pad.ip.depth - take + Len(given)
           s == Drop(Pad.slots, take) \o given
           start == OperandsStart(Last(Pad.cs))
           bottom == Last(Pad.cs).bottom
<1>1. /\ pads # <<>> /\ Pad.wait = 0 /\ Pad.ip.depth >= take
      /\ depth <= Shape[Pad.ip.fn].maxstack
      /\ SetPad([Pad EXCEPT !.slots = s, !.ip.depth = depth])
  BY DEF Operate, Running
<1>2. PadOK(Pad)
  BY <1>1, PadInv
<1>3. /\ Pad \in ScratchPad /\ Pad.slots \in Seq(Value)
      /\ Len(Pad.slots) \in Nat /\ Pad.ip.depth \in Nat
      /\ start \in Nat /\ bottom \in Nat /\ start >= bottom
      /\ Len(Pad.slots) = start + Pad.ip.depth
  <2>1. /\ Pad \in ScratchPad /\ Last(Pad.cs) \in CallSite
        /\ TopAt(Pad, start)
    BY <1>2, TopFacts
  <2> QED BY <1>1, <2>1, PadFacts, SiteFacts DEF TopAt
<1> HIDE DEF start, bottom
<1>4. Len(given) \in Nat /\ depth \in Nat /\ take \in 0..Len(Pad.slots)
  <2> DEFINE d == Pad.ip.depth
             g == Len(given)
             len == Len(Pad.slots)
  <2>1. d \in Nat /\ g \in Nat /\ len \in Nat /\ d >= take /\ len = start + d
    BY <1>1, <1>3
  <2> HIDE DEF d, g, len
  <2>2. d - take + g \in Nat /\ take \in 0..len
    BY <1>3, <2>1
  <2> QED BY <2>1, <2>2 DEF d, g, len
<1> DEFINE under == Drop(Pad.slots, take)
<1>5. /\ under \in Seq(Value) /\ Len(under) = Len(Pad.slots) - take
      /\ \A i \in 1..(Len(Pad.slots) - take) : under[i] = Pad.slots[i]
  BY <1>3, <1>4, DropFacts
<1> HIDE DEF under
<1>6. /\ under \o given \in Seq(Value)
      /\ Len(under \o given) = Len(under) + Len(given)
      /\ \A i \in 1..Len(under) : (under \o given)[i] = under[i]
  <2>1. under \in Seq(Value)
    BY <1>5
  <2>2. /\ under \o given \in Seq(Value)
        /\ Len(under \o given) = Len(under) + Len(given)
        /\ \A i \in 1..(Len(under) + Len(given)) :
              (under \o given)[i] = IF i <= Len(under) THEN under[i]
                                    ELSE given[i - Len(under)]
    BY <2>1, ConcatProperties
  <2> QED BY <1>4, <2>1, <2>2
<1>7. s = under \o given
  BY DEF under
<1> HIDE DEF s
<1>8. s \in Seq(Value) /\ Len(s) = start + depth
  <2>1. s \in Seq(Value) /\ Len(s) = Len(under) + Len(given)
    BY <1>6, <1>7
  <2>2. Len(under) = Len(Pad.slots) - take
    BY <1>5
  <2>3. /\ Len(Pad.slots) = start + Pad.ip.depth
        /\ start \in Nat /\ Pad.ip.depth \in Nat
    BY <1>3
  <2>4. Len(given) \in Nat
    BY <1>4
  <2> QED BY <2>1, <2>2, <2>3, <2>4
<1>9. \A j \in 1..bottom : s[j] = Pad.slots[j]
  <2>1. \A j \in 1..bottom : j \in 1..(Len(Pad.slots) - take)
    BY <1>1, <1>3
  <2>2. \A j \in 1..(Len(Pad.slots) - take) : s[j] = Pad.slots[j]
    BY <1>5, <1>6, <1>7
  <2> QED BY <2>1, <2>2
<1> HIDE DEF depth
<1>10. PadOK([Pad EXCEPT !.slots = s, !.ip.depth = depth])
  BY <1>1, <1>2, <1>4, <1>8, <1>9, InstructionOK DEF start, bottom
<1> QED BY <1>1, <1>10, SetPadInv DEF s, depth

(* OP_STORE_LOCAL and OP_MODIFY_LOCAL.                                      *)
LEMMA WriteLocalInv ==
    ASSUME IInv, NEW i \in 1..Shape[Pad.ip.fn].nlocals, NEW v \in Value,
           WriteLocal(i, v)
    PROVE  IInv'
<1> DEFINE popped == Drop(Pad.slots, 1)
           s == IF LocalsValid(Pad) THEN [popped EXCEPT ![Pad.locals.off + i] = v]
                ELSE popped
           d == Pad.ip.depth - 1
           site == Last(Pad.cs)
           start == OperandsStart(site)
           len == Len(Pad.slots)
<1>1. /\ pads # <<>> /\ Pad.wait = 0 /\ Pad.ip.depth >= 1
      /\ SetPad([Pad EXCEPT !.slots = s, !.ip.depth = d])
  BY DEF WriteLocal, Running
<1>2. PadOK(Pad)
  BY <1>1, PadInv
<1>3. /\ Pad \in ScratchPad /\ Pad.slots \in Seq(Value) /\ len \in Nat
      /\ Pad.ip.depth \in Nat /\ Pad.ip.depth <= Shape[site.callee].maxstack
      /\ start \in Nat /\ site.bottom \in Nat /\ start >= site.bottom
      /\ len = start + Pad.ip.depth /\ Pad.ip.fn = site.callee
      /\ Shape[site.callee].maxstack \in Nat
      /\ Shape[site.callee].nlocals \in Nat
      /\ start = site.bottom + Shape[site.callee].nlocals
  <2>1. /\ Pad \in ScratchPad /\ site \in CallSite /\ TopAt(Pad, start)
        /\ Pad.ip.fn = site.callee /\ Pad.ip.depth <= Shape[site.callee].maxstack
    BY <1>2, TopFacts
  <2> QED BY <1>1, <2>1, PadFacts, SiteFacts DEF TopAt
<1>4. LocalsValid(Pad) => Pad.locals.off = site.bottom
  BY <1>2 DEF LocalsValid, PadOK, TopOK, Last
<1> HIDE DEF start, site, len
<1>5. /\ popped \in Seq(Value) /\ Len(popped) = len - 1
      /\ \A j \in 1..(len - 1) : popped[j] = Pad.slots[j]
  <2>1. 1 \in 0..Len(Pad.slots)
    BY <1>1, <1>3 DEF len
  <2> QED BY <1>3, <2>1, DropFacts DEF len
<1> HIDE DEF popped
<1>6. /\ s \in Seq(Value) /\ Len(s) = len - 1
      /\ \A j \in 1..site.bottom : s[j] = Pad.slots[j]
  <2>1. \A j \in 1..site.bottom : j \in 1..(len - 1)
    <3>1. /\ len \in Nat /\ start \in Nat /\ site.bottom \in Nat
          /\ Pad.ip.depth \in Nat /\ Pad.ip.depth >= 1
          /\ start >= site.bottom /\ len = start + Pad.ip.depth
      BY <1>1, <1>3
    <3> QED BY <3>1
  <2>2. CASE ~LocalsValid(Pad)
    BY <1>5, <2>1, <2>2
  <2>3. CASE LocalsValid(Pad)
    <3> DEFINE m == site.bottom + i
    <3>1. s = [popped EXCEPT ![m] = v] /\ m \in Nat
      <4>1. Pad.locals.off + i = m
        BY <1>4, <2>3
      <4>2. s = [popped EXCEPT ![Pad.locals.off + i] = v]
        BY <2>3
      <4>3. m \in Nat
        BY <1>3
      <4> QED BY <4>1, <4>2, <4>3
    <3>2. m \in 1..Len(popped) /\ m > site.bottom
      <4>1. /\ len \in Nat /\ start \in Nat /\ site.bottom \in Nat
            /\ Pad.ip.depth \in Nat /\ Pad.ip.depth >= 1
            /\ start >= site.bottom /\ len = start + Pad.ip.depth
            /\ start = site.bottom + Shape[site.callee].nlocals
            /\ Shape[site.callee].nlocals \in Nat
        BY <1>1, <1>3
      <4>2. i \in 1..Shape[site.callee].nlocals
        BY <1>3
      <4>3. Len(popped) = len - 1
        BY <1>5
      <4> QED BY <4>1, <4>2, <4>3, LocalInFrame
    <3> HIDE DEF m, s
    <3>3. /\ s \in Seq(Value) /\ Len(s) = Len(popped)
          /\ \A j \in 1..Len(popped) : j # m => s[j] = popped[j]
      BY <1>5, <3>1, <3>2
    <3>4. \A j \in 1..site.bottom : j # m
      BY <1>3, <3>1, <3>2
    <3> QED BY <1>5, <2>1, <3>3, <3>4
  <2> QED BY <2>2, <2>3
<1> HIDE DEF s
<1>7. d \in Nat /\ d <= Shape[Pad.ip.fn].maxstack /\ len - 1 = start + d
  <2>1. /\ len \in Nat /\ start \in Nat /\ len = start + Pad.ip.depth
        /\ Pad.ip.depth \in Nat /\ Pad.ip.depth >= 1
    BY <1>1, <1>3
  <2>2. /\ Pad.ip.depth <= Shape[Pad.ip.fn].maxstack
        /\ Shape[Pad.ip.fn].maxstack \in Nat
    BY <1>3
  <2> QED BY <2>1, <2>2
<1> HIDE DEF d
<1>8. PadOK([Pad EXCEPT !.slots = s, !.ip.depth = d])
  <2>1. Len(s) = OperandsStart(Last(Pad.cs)) + d
    BY <1>6, <1>7 DEF start, site
  <2>2. \A j \in 1..Last(Pad.cs).bottom : s[j] = Pad.slots[j]
    BY <1>6 DEF site
  <2> QED BY <1>1, <1>2, <1>6, <1>7, <2>1, <2>2, InstructionOK
<1> QED BY <1>1, <1>8, SetPadInv DEF s, d, popped

(* The values the running function can load are values, and what LocalReads
   finds in a local is one of its pad's slots.                              *)
LEMMA ReadFacts ==
    ASSUME IInv, Running, NEW i \in 1..Shape[Pad.ip.fn].nlocals,
           NEW v \in LocalReads(Pad, i)
    PROVE  v \in Value
<1> DEFINE site == Last(Pad.cs)
<1>1. PadOK(Pad) /\ Pad.wait = 0
  BY PadInv DEF Running
<1>2. /\ Pad \in ScratchPad /\ site \in CallSite /\ Pad.ip.fn = site.callee
      /\ TopAt(Pad, OperandsStart(site)) /\ site.bottom >= 1
  BY <1>1, TopFacts
<1>3. Loads[Pad.ip.fn] \subseteq Value
  BY <1>2, PadFacts, ProgramAssumption
<1>4. CASE LocalsValid(Pad)
  <2>1. Pad.locals.off = site.bottom
    BY <1>1, <1>4 DEF LocalsValid, PadOK, TopOK, Last
  <2>2. /\ Pad.slots \in Seq(Value) /\ site.bottom \in Nat
        /\ Pad.ip.depth \in Nat /\ Len(Pad.slots) \in Nat
        /\ Shape[site.callee].nlocals \in Nat
        /\ Len(Pad.slots) = site.bottom + Shape[site.callee].nlocals + Pad.ip.depth
    <3>1. /\ Pad.slots \in Seq(Value) /\ Pad.ip.depth \in Nat /\ Len(Pad.slots) \in Nat
      BY <1>2, PadFacts
    <3>2. /\ OperandsStart(site) = site.bottom + Shape[site.callee].nlocals
          /\ site.bottom \in Nat /\ Shape[site.callee].nlocals \in Nat
      BY <1>2, SiteFacts
    <3> QED BY <1>1, <1>2, <3>1, <3>2 DEF TopAt
  <2> DEFINE m == Pad.locals.off + i
  <2>3. m \in 1..Len(Pad.slots)
    <3> HIDE DEF site
    <3> QED BY <1>2, <2>1, <2>2
  <2>4. v = Pad.slots[m]
    BY <1>4 DEF LocalReads
  <2> QED BY <2>2, <2>3, <2>4
<1>5. CASE ~LocalsValid(Pad)
  BY <1>3, <1>5 DEF LocalReads
<1> QED BY <1>4, <1>5

-----------------------------------------------------------------------------
(* The theorems.                                                            *)

(* With no pad at all, the invariant holds.                                 *)
LEMMA InitInv == Init => IInv
BY DEF Init, IInv

(* No step breaks the invariant.                                            *)
LEMMA NextInv == IInv /\ [Next]_vars => IInv'
<1> SUFFICES ASSUME IInv, [Next]_vars PROVE IInv'
  OBVIOUS
<1>1. CASE UNCHANGED vars
  <2>1. pads' = pads /\ ret' = ret
    BY <1>1 DEF vars
  <2> QED BY <2>1 DEF IInv
<1>2. CASE Next
  <2>1. ASSUME NEW f \in Func, Main(f), Eval(f)
        PROVE  IInv'
    BY <2>1, BeginInv DEF Eval
  <2>2. ASSUME NEW f \in Func, Main(f), RequireEval(f)
        PROVE  IInv'
    <3>1. AwaitsRequire(Pad) /\ Begin(f)
      <4>1. /\ Pad.wait > 0 /\ Pad.slots[Len(Pad.slots) - Pad.wait + 1] = Require
            /\ Begin(f)
        BY <2>2 DEF RequireEval, InNative
      <4> QED BY <4>1 DEF AwaitsRequire
    <3> QED BY <2>2, <3>1, BeginInv
  <2>3. ASSUME NEW v \in Value, Load(v)
        PROVE  IInv'
    <3>1. Operate(0, <<v>>) /\ <<v>> \in Seq(Value)
      BY <2>3 DEF Load
    <3> QED BY <3>1, OperateInv
  <2>4. ASSUME NEW v \in Value, NativeReturn(v)
        PROVE  IInv'
    <3>1. pads # <<>> /\ Pad.wait > 0 /\ SetPad(DoneNative(Pad, v))
      BY <2>4 DEF NativeReturn, InNative, NativeDone, DoneNative
    <3>2. PadOK(Pad)
      BY <3>1, PadInv
    <3>3. PadOK(DoneNative(Pad, v))
      BY <3>1, <3>2, DoneNativeOK
    <3> QED BY <3>1, <3>3, SetPadInv
  <2>5. ASSUME Running, NEW take \in 1..Pad.ip.depth, NEW v \in Value, Compute(take, v)
        PROVE  IInv'
    <3>1. Operate(take, <<v>>) /\ <<v>> \in Seq(Value) /\ take \in Nat
      BY <2>5 DEF Compute
    <3> QED BY <3>1, OperateInv
  <2>6. ASSUME NEW take \in {1, 3}, Consume(take)
        PROVE  IInv'
    <3>1. Operate(take, <<>>) /\ <<>> \in Seq(Value) /\ take \in Nat
      BY <2>6 DEF Consume
    <3> QED BY <3>1, OperateInv
  <2>7. ASSUME Running, NEW i \in 1..Shape[Pad.ip.fn].nlocals, LoadLocal(i)
        PROVE  IInv'
    <3>1. PICK v \in LocalReads(Pad, i) : Operate(0, <<v>>)
      BY <2>7 DEF LoadLocal
    <3>2. <<v>> \in Seq(Value)
      BY <2>7, <3>1, ReadFacts
    <3> QED BY <3>1, <3>2, OperateInv
  <2>8. ASSUME Running, NEW i \in 1..Shape[Pad.ip.fn].nlocals, StoreLocal(i)
        PROVE  IInv'
    <3>1. WriteLocal(i, Last(Pad.slots)) /\ Pad.ip.depth >= 1
      BY <2>8 DEF StoreLocal, WriteLocal
    <3>2. Last(Pad.slots) \in Value
      <4>1. PadOK(Pad) /\ Pad.wait = 0
        BY <2>8, PadInv DEF Running
      <4>2. Pad \in ScratchPad /\ Last(Pad.cs).bottom >= 1
            /\ Last(Pad.cs).bottom <= Len(Pad.slots)
            /\ Last(Pad.cs) \in CallSite
        BY <4>1, TopFacts
      <4>3. Pad.slots \in Seq(Value) /\ Last(Pad.cs).bottom \in Nat
        BY <4>2, PadFacts, SiteFacts
      <4>4. Len(Pad.slots) \in 1..Len(Pad.slots)
        BY <4>2, <4>3
      <4> QED BY <4>3, <4>4 DEF Last
    <3> QED BY <3>1, <3>2, WriteLocalInv
  <2>9. ASSUME Running, NEW i \in 1..Shape[Pad.ip.fn].nlocals,
               NEW v \in Value, ModifyLocal(i, v)
        PROVE  IInv'
    BY <2>9, WriteLocalInv DEF ModifyLocal
  <2>10. ASSUME Running, NEW nargs \in 0..Pad.ip.depth, NEW scatter \in BOOLEAN,
                CallFunc(nargs, scatter)
         PROVE  IInv'
    <3> DEFINE f == Called(nargs)
               n == Passed(nargs, scatter)
    <3>1. /\ CallPoint(nargs, scatter) /\ Scatterable(scatter)
          /\ f \in Func /\ Accepts(f, n)
      BY <2>10 DEF CallFunc
    <3>2. PICK p \in Scattered(scatter) : \E q \in Coerce(p, f, n) :
             \E r \in Enter(q, f, [Pad.ip EXCEPT !.nargs = nargs]) : SetPad(r)
      BY <2>10 DEF CallFunc
    <3>3. PICK q \in Coerce(p, f, n) :
             \E r \in Enter(q, f, [Pad.ip EXCEPT !.nargs = nargs]) : SetPad(r)
      BY <3>2
    <3>4. PICK r \in Enter(q, f, [Pad.ip EXCEPT !.nargs = nargs]) : SetPad(r)
      BY <3>3
    <3>5. PadOK(Pad) /\ pads # <<>> /\ nargs \in Nat
      BY <2>10, PadInv DEF Running
    <3>6. PadOK(r)
      BY <3>1, <3>5, CallFuncOK
    <3> QED BY <3>4, <3>5, <3>6, SetPadInv
  <2>11. ASSUME Running, NEW nargs \in 0..Pad.ip.depth, NEW scatter \in BOOLEAN,
                CallNative(nargs, scatter)
         PROVE  IInv'
    <3>1. CallPoint(nargs, scatter) /\ Scatterable(scatter)
      BY <2>11 DEF CallNative
    <3>2. PICK p \in Scattered(scatter) :
             SetPad([p EXCEPT !.wait = Passed(nargs, scatter) + 1, !.ip.nargs = nargs])
      BY <2>11 DEF CallNative
    <3>3. PadOK(Pad) /\ pads # <<>> /\ nargs \in Nat
      BY <2>11, PadInv DEF Running
    <3>4. PadOK([p EXCEPT !.wait = Passed(nargs, scatter) + 1, !.ip.nargs = nargs])
      BY <3>1, <3>3, CallNativeOK
    <3> QED BY <3>2, <3>3, <3>4, SetPadInv
  <2>12. ASSUME Running, NEW nargs \in 0..Pad.ip.depth, NEW scatter \in BOOLEAN,
                CallFails(nargs, scatter)
         PROVE  IInv'
    BY <2>12, UnwindInv DEF CallFails, Running
  <2>13. CASE NativeThrow
    BY <2>13, UnwindInv DEF NativeThrow, InNative
  <2>14. CASE RequireReturn
    <3>1. pads # <<>> /\ ret \in Value /\ SetPad(DoneNative(Pad, ret))
      BY <2>14 DEF RequireReturn, NativeDone, DoneNative
    <3>2. ret # None
      BY <3>1, ProgramAssumption
    <3>3. PadOK(Pad) /\ Pad.wait > 0
      BY <3>1, <3>2, PadInv DEF AwaitsRequire
    <3>4. PadOK(DoneNative(Pad, ret))
      BY <3>1, <3>3, DoneNativeOK
    <3> QED BY <3>1, <3>4, SetPadInv
  <2>15. CASE RequireThrow
    BY <2>15, UnwindInv DEF RequireThrow
  <2>16. CASE Return
    <3>1. /\ pads # <<>> /\ Pad.wait = 0 /\ Pad.ip.depth = 1
          /\ Last(Pad.cs).callIp # NullIp /\ SetPad(Returned(Pad))
      BY <2>16 DEF Return, Running, Returned
    <3>2. PadOK(Returned(Pad))
      BY <3>1, PadInv, ReturnOK
    <3> QED BY <3>1, <3>2, SetPadInv
  <2>17. CASE Finish
    <3>1. /\ pads # <<>> /\ Pad.wait = 0 /\ Pad.ip.depth = 1
          /\ ret' = Last(Popped(Pad)) /\ pads' = Drop(pads, 1)
      BY <2>17 DEF Finish, Running
    <3>2. ret' \in Value
      BY <3>1, PadInv, PoppedFacts
    <3> QED BY <3>1, <3>2, PopPadInv
  <2>18. CASE Throw
    BY <2>18, UnwindInv DEF Throw, Running
  <2>19. CASE Deliver
    <3>1. pads' = pads /\ ret' = None /\ pads = <<>>
      BY <2>19 DEF Deliver
    <3> QED BY <3>1 DEF IInv
  <2> QED
    BY <1>2, <2>1, <2>2, <2>3, <2>4, <2>5, <2>6, <2>7, <2>8, <2>9, <2>10,
       <2>11, <2>12, <2>13, <2>14, <2>15, <2>16, <2>17, <2>18, <2>19
    DEF Next
<1> QED BY <1>1, <1>2

(* Every reachable state satisfies the invariant.                           *)
THEOREM Invariance == Spec => []IInv
BY InitInv, NextInv, PTL DEF Spec

(* state_eval never leaves the stacks ill-formed.                           *)
THEOREM TypeCorrect == Spec => []TypeOK
<1>1. IInv => TypeOK
  BY DEF IInv, TypeOK
<1> QED BY <1>1, Invariance, PTL

(* What value_stack_ensure reserves in do_call and setup_for_eval is enough
   for every frame of every evaluation, whatever the code.                  *)
THEOREM NoOverrun == Spec => []RoomForFrames
<1>1. IInv => RoomForFrames
  <2> SUFFICES ASSUME IInv, NEW k \in 1..Len(pads)
               PROVE  /\ Len(pads[k].slots) <= pads[k].cap
                      /\ \A i \in DOMAIN pads[k].cs :
                            OperandsStart(pads[k].cs[i])
                                + Shape[pads[k].cs[i].callee].maxstack <= pads[k].cap
    BY DEF RoomForFrames, IInv
  <2>1. PadOK(pads[k])
    BY DEF IInv
  <2>2. RoomOK(pads[k]) /\ pads[k].cs \in Seq(CallSite)
    BY <2>1, PadFacts DEF PadOK
  <2> QED BY <2>2 DEF RoomOK
<1> QED BY <1>1, Invariance, PTL

(* The top of the value stack is where codegen's operand depth says.        *)
THEOREM StaticDepth == Spec => []DepthAgrees
<1>1. IInv => DepthAgrees
  <2> SUFFICES ASSUME IInv, NEW k \in 1..Len(pads)
               PROVE  LET p == pads[k] IN
                        IF p.wait = 0
                        THEN Len(p.slots) = OperandsStart(Last(p.cs)) + p.ip.depth
                        ELSE Len(p.slots) - p.wait + 1 =
                               OperandsStart(Last(p.cs)) + After(p.ip).depth
    BY DEF DepthAgrees, IInv
  <2> DEFINE p == pads[k]
  <2>1. PadOK(p)
    BY DEF IInv
  <2>2. /\ TopAt(p, OperandsStart(Last(p.cs))) /\ p \in ScratchPad
        /\ Last(p.cs) \in CallSite
    BY <2>1, TopFacts
  <2>3. /\ p.ip.depth \in Nat /\ p.ip.nargs \in Nat /\ p.wait \in Nat
        /\ Len(p.slots) \in Nat /\ OperandsStart(Last(p.cs)) \in Nat
    BY <2>2, PadFacts, SiteFacts
  <2> HIDE DEF p
  <2>4. After(p.ip).depth = p.ip.depth - p.ip.nargs
    BY DEF After
  <2> DEFINE start == OperandsStart(Last(p.cs))
             len == Len(p.slots)
  <2>5. /\ len \in Nat /\ start \in Nat
        /\ p.wait = 0 => len = start + p.ip.depth
        /\ p.wait # 0 => len = start + p.ip.depth - p.ip.nargs + p.wait - 1
    BY <2>2, <2>3 DEF TopAt
  <2> HIDE DEF start, len
  <2>6. p.wait # 0 => len - p.wait + 1 = start + After(p.ip).depth
    <3>1. /\ len \in Nat /\ start \in Nat /\ p.wait \in Nat
          /\ p.ip.depth \in Nat /\ p.ip.nargs \in Nat
      BY <2>3, <2>5
    <3>2. PICK l \in Nat, a \in Nat, m \in Nat, x \in Nat, w \in Nat :
             l = len /\ a = start /\ m = p.ip.depth /\ x = p.ip.nargs /\ w = p.wait
      BY <3>1
    <3> SUFFICES ASSUME p.wait # 0
                 PROVE  len - p.wait + 1 = start + After(p.ip).depth
      OBVIOUS
    <3>3. l = a + m - x + w - 1
      BY <2>5, <3>2
    <3>4. l - w + 1 = a + (m - x)
      BY <3>3, OverTheCall
    <3> QED BY <2>4, <3>2, <3>4
  <2> QED BY <2>5, <2>6 DEF start, len, p
<1> QED BY <1>1, Invariance, PTL

(* No instruction pointer into code is the null one.                        *)
LEMMA IpNotNull == NullIp \notin Ip
BY ProgramAssumption DEF NullIp, Ip

(* The assertion of state_eval at label done.                               *)
THEOREM DoneAssertion == Spec => []ResultAloneAtDone
<1>1. IInv => ResultAloneAtDone
  <2> SUFFICES ASSUME IInv, pads # <<>>, Pad.wait = 0, Pad.ip.depth = 1,
                      Last(Pad.cs).callIp = NullIp
               PROVE  Len(Popped(Pad)) = 1
    BY DEF ResultAloneAtDone, Running
  <2>1. PadOK(Pad)
    BY PadInv
  <2>2. Len(Popped(Pad)) = Last(Pad.cs).bottom
    BY <2>1, PoppedFacts
  <2>3. /\ SitesOK(Pad) /\ Pad.cs \in Seq(CallSite) /\ Pad.cs # <<>>
        /\ Len(Pad.cs) \in Nat /\ Len(Pad.cs) >= 1
        /\ Last(Pad.cs) = Pad.cs[Len(Pad.cs)]
    BY <2>1, TopFacts, PadFacts DEF PadOK, SitesOK
  <2>4. Len(Pad.cs) = 1
    <3> SUFFICES ASSUME Len(Pad.cs) # 1 PROVE FALSE
      OBVIOUS
    <3>0. Len(Pad.cs) \in 2..Len(Pad.cs)
      <4> DEFINE n == Len(Pad.cs)
      <4>1. n \in Nat /\ n >= 1 /\ n # 1
        BY <2>3
      <4> HIDE DEF n
      <4>2. n \in 2..n
        BY <4>1
      <4> QED BY <4>2 DEF n
    <3>1. SiteOK(Pad.cs[Len(Pad.cs) - 1], Pad.cs[Len(Pad.cs)])
      BY <2>3, <3>0 DEF SitesOK
    <3> QED BY <2>3, <3>1, IpNotNull DEF SiteOK
  <2> QED BY <2>2, <2>3, <2>4 DEF SitesOK
<1> QED BY <1>1, Invariance, PTL

(* The function a call site points to is alive as long as the call.         *)
THEOREM CalleesAlive == Spec => []CalleePinned
<1>1. IInv => CalleePinned
  <2> SUFFICES ASSUME IInv, NEW k \in 1..Len(pads), NEW i \in DOMAIN pads[k].cs
               PROVE  /\ pads[k].cs[i].bottom \in 1..Len(pads[k].slots)
                      /\ pads[k].slots[pads[k].cs[i].bottom] = pads[k].cs[i].callee
    BY DEF CalleePinned, IInv
  <2>1. PadOK(pads[k])
    BY DEF IInv
  <2>2. PinnedOK(pads[k]) /\ pads[k].cs \in Seq(CallSite)
    BY <2>1, PadFacts DEF PadOK
  <2> QED BY <2>2 DEF PinnedOK
<1> QED BY <1>1, Invariance, PTL

(* The traceback's instruction pointers belong to its functions, and
   OP_RETURN restores the constants of the function it returns to.          *)
THEOREM SitesAgree == Spec => []SitesMatch
<1>1. IInv => SitesMatch
  <2> SUFFICES ASSUME IInv, NEW k \in 1..Len(pads)
               PROVE  LET p == pads[k] IN
                        /\ p.cs # <<>>
                        /\ p.ip.fn = Last(p.cs).callee
                        /\ p.consts = Shape[p.ip.fn].chunk
                        /\ \A i \in DOMAIN p.cs :
                             IF i = 1 THEN p.cs[i].callIp = NullIp
                             ELSE /\ p.cs[i].callIp # NullIp
                                  /\ p.cs[i].callIp.fn = p.cs[i - 1].callee
                                  /\ p.cs[i].prevConsts = Shape[p.cs[i - 1].callee].chunk
    BY DEF SitesMatch, IInv
  <2> DEFINE p == pads[k]
  <2>1. PadOK(p)
    BY DEF IInv
  <2>2. /\ SitesOK(p) /\ p.cs \in Seq(CallSite) /\ p.cs # <<>>
        /\ p.ip.fn = Last(p.cs).callee /\ p.consts = Shape[p.ip.fn].chunk
    BY <2>1, TopFacts, PadFacts DEF PadOK, SitesOK
  <2> HIDE DEF p
  <2>3. ASSUME NEW i \in DOMAIN p.cs
        PROVE  IF i = 1 THEN p.cs[i].callIp = NullIp
               ELSE /\ p.cs[i].callIp # NullIp
                    /\ p.cs[i].callIp.fn = p.cs[i - 1].callee
                    /\ p.cs[i].prevConsts = Shape[p.cs[i - 1].callee].chunk
    <3>1. CASE i = 1
      BY <2>2, <3>1 DEF SitesOK
    <3>2. CASE i # 1
      <4>1. i \in 2..Len(p.cs)
        BY <2>2, <3>2
      <4>2. SiteOK(p.cs[i - 1], p.cs[i])
        BY <2>2, <4>1 DEF SitesOK
      <4> QED BY <3>2, <4>2, IpNotNull DEF SiteOK
    <3> QED BY <3>1, <3>2
  <2> QED BY <2>2, <2>3 DEF p
<1> QED BY <1>1, Invariance, PTL

(* Only an evaluation waiting in Require has another one above it.          *)
THEOREM OuterWaits == Spec => []OuterAwaitsRequire
<1>1. IInv => OuterAwaitsRequire
  BY DEF IInv, OuterAwaitsRequire, AwaitsRequire
<1> QED BY <1>1, Invariance, PTL

-----------------------------------------------------------------------------
(* The locals, where the calls leave room enough for do_call (the envelope
   NoEarlyGrowth): no call moves the value stack before it has saved the
   offset of its caller's locals.                                           *)
LocalsOK(p) ==
    /\ p.locals = [blk |-> p.blk, off |-> Last(p.cs).bottom]
    /\ \A i \in 2..Len(p.cs) : p.cs[i].prevOff = p.cs[i - 1].bottom

(* Under the envelope, scattering and gathering leave the block where it is. *)
LEMMA BlockStays ==
    ASSUME NoEarlyGrowth, PadOK(Pad), NEW nargs \in Nat, NEW scatter \in BOOLEAN,
           CallPoint(nargs, scatter), Scatterable(scatter),
           NEW p \in Scattered(scatter)
    PROVE  /\ p.blk = Pad.blk
           /\ \A f \in Func : Accepts(f, Passed(nargs, scatter)) =>
                 \A q \in Coerce(p, f, Passed(nargs, scatter)) : q.blk = Pad.blk
<1> DEFINE n == Passed(nargs, scatter)
           len == Len(Pad.slots)
           site == Last(Pad.cs)
           start == OperandsStart(site)
           max == Shape[site.callee].maxstack
<1>1. /\ p \in ScratchPad /\ SameControl(Pad, p) /\ n \in Nat
      /\ Len(p.slots) = len - nargs + n /\ Len(p.slots) <= p.cap
  BY ScatteredFacts
<1>2. /\ nargs < Pad.ip.depth /\ Pad.wait = 0
      /\ Pad.ip.depth + Slack <= Shape[Pad.ip.fn].maxstack
      /\ scatter => nargs >= 1
  BY DEF CallPoint, Running
<1>3. /\ Pad \in ScratchPad /\ site \in CallSite /\ Pad.ip.fn = site.callee
      /\ TopAt(Pad, start) /\ start + max <= Pad.cap /\ len <= Pad.cap
      /\ len \in Nat /\ Pad.cap \in Nat /\ Pad.ip.depth \in Nat
      /\ start \in Nat /\ max \in Nat /\ len = start + Pad.ip.depth
  <2>1. /\ Pad \in ScratchPad /\ site \in CallSite /\ Pad.ip.fn = site.callee
        /\ TopAt(Pad, start) /\ start + max <= Pad.cap /\ len <= Pad.cap
    BY TopFacts
  <2> QED BY <1>2, <2>1, PadFacts, SiteFacts DEF TopAt
<1>4. p.cap \in Nat /\ p.cap >= Pad.cap
  BY <1>1, PadFacts DEF SameControl
<1>5. Slack \in Nat /\ Slack >= 1
  BY ProgramAssumption DEF NoEarlyGrowth
<1>6. len + Slack <= Pad.cap
  <2>1. Pad.ip.depth + Slack <= max
    BY <1>2, <1>3
  <2> HIDE DEF len, start, max, site
  <2> QED BY <1>3, <1>5, <2>1
<1>7. p.blk = Pad.blk
  <2>1. CASE ~scatter
    BY <2>1 DEF Scattered
  <2>2. CASE scatter
    <3> DEFINE k == Len(Items[Last(Pad.slots)])
    <3>1. Last(Pad.slots) \in List /\ p \in Scatter(Pad)
      BY <2>2 DEF Scatterable, Scattered
    <3>2. Pad.slots # <<>>
      BY <1>2, <1>3
    <3>3. /\ k \in Nat /\ Len(p.slots) = len - 1 + k
          /\ Len(p.slots) <= Pad.cap => p.blk = Pad.blk
      BY <1>3, <3>1, <3>2, ScatterFacts
    <3>4. k <= Slack + 1
      BY <3>1 DEF NoEarlyGrowth
    <3> HIDE DEF k, len
    <3> QED BY <1>3, <1>5, <1>6, <3>3, <3>4
  <2> QED BY <2>1, <2>2
<1>8. ASSUME NEW f \in Func, Accepts(f, n), NEW q \in Coerce(p, f, n)
      PROVE  q.blk = Pad.blk
  <2>1. Params(f) \in Nat /\ Required(f) \in Nat
    BY ShapeFacts
  <2>2. n \in 0..Len(p.slots)
    <3> HIDE DEF n, len, start
    <3> QED BY <1>1, <1>2, <1>3
  <2>3. /\ Len(q.slots) = Len(p.slots) - n + Params(f)
        /\ Len(q.slots) <= p.cap => q.blk = p.blk
    <3> HIDE DEF n
    <3> QED BY <1>1, <1>8, <2>2, CoerceFacts
  <2>4. Params(f) <= nargs + Slack \/ Params(f) = n
    <3>1. CASE ~Gathers(f)
      BY <1>8, <3>1 DEF Accepts, Params
    <3>2. CASE Gathers(f) /\ nargs >= 1
      <4>1. Required(f) <= Slack /\ Params(f) = Required(f) + 1
        BY <3>2 DEF NoEarlyGrowth, Params
      <4> QED BY <1>5, <2>1, <3>2, <4>1
    <3>3. CASE Gathers(f) /\ ~(nargs >= 1)
      <4>1. ~scatter /\ n = nargs /\ nargs = 0
        BY <1>2, <3>3 DEF Passed
      <4>2. Required(f) <= n /\ Params(f) = Required(f) + 1
        BY <1>8, <3>3 DEF Accepts, Params
      <4> QED BY <1>5, <2>1, <4>1, <4>2
    <3> QED BY <3>1, <3>2, <3>3
  <2>5. Len(q.slots) <= p.cap
    <3> HIDE DEF n, len
    <3>1. CASE Params(f) = n
      BY <1>1, <1>3, <2>1, <2>3, <3>1, <1>4
    <3>2. CASE Params(f) <= nargs + Slack
      <4>1. Len(q.slots) = len - nargs + Params(f)
        BY <1>1, <1>3, <2>1, <2>3, SMTT(30)
      <4> QED BY <1>3, <1>4, <1>5, <1>6, <2>1, <3>2, <4>1, SMTT(30)
    <3> QED BY <2>4, <3>1, <3>2
  <2> QED BY <1>7, <2>3, <2>5
<1> QED BY <1>7, <1>8

(* When nothing has moved the stack before do_call saves the offset of the
   caller's locals, the saved offset and the new register are right.        *)
LEMMA EnterLocals ==
    ASSUME NEW p, PadOK(p), p.wait = 0, LocalsOK(p), NEW f \in Func,
           NEW nargs \in Nat, nargs < p.ip.depth,
           NEW q, Arranged(p, q, f, nargs), q.blk = p.blk,
           NEW r \in Enter(q, f, [p.ip EXCEPT !.nargs = nargs])
    PROVE  LocalsOK(r)
<1> DEFINE n == Len(p.cs)
           site == SiteFor(q, f, [p.ip EXCEPT !.nargs = nargs])
<1>1. /\ r.cs[n + 1] = site /\ Len(r.cs) = n + 1
      /\ \A i \in 1..n : r.cs[i] = p.cs[i]
      /\ site.prevOff = LocalsOffset(q)
      /\ r.locals = [blk |-> r.blk, off |-> site.bottom]
  <2>1. Entered(p, q, r, f, nargs)
    BY EnterFacts
  <2> QED BY <2>1 DEF Entered
<1>2. n \in Nat /\ n >= 1 /\ Last(p.cs) = p.cs[n] /\ n = Len(p.cs)
  BY TopFacts, PadFacts
<1>3. LocalsOffset(q) = p.cs[n].bottom
  <2>1. q.locals = p.locals
    BY DEF Arranged, SameControl
  <2> QED BY <1>2, <2>1 DEF LocalsOffset, LocalsOK
<1> HIDE DEF site, n
<1>4. \A i \in 2..(n + 1) : r.cs[i].prevOff = r.cs[i - 1].bottom
  <2> TAKE i \in 2..(n + 1)
  <2>1. i - 1 \in 1..n /\ r.cs[i - 1] = p.cs[i - 1]
    BY <1>1, <1>2
  <2>2. CASE i = n + 1
    <3>1. i - 1 = n
      BY <1>2, <2>2
    <3> QED BY <1>1, <1>3, <2>1, <2>2, <3>1
  <2>3. CASE i # n + 1
    <3>1. i \in 2..n /\ r.cs[i] = p.cs[i]
      BY <1>1, <1>2, <2>3
    <3> QED BY <1>2, <2>1, <3>1 DEF LocalsOK
  <2> QED BY <2>2, <2>3
<1> QED BY <1>1, <1>4 DEF LocalsOK, Last

(* OP_RETURN computes the caller's locals from the offset saved at the call. *)
LEMMA ReturnLocals ==
    ASSUME NEW p, PadOK(p), p.wait = 0, LocalsOK(p),
           Last(p.cs).callIp # NullIp
    PROVE  LocalsOK(Returned(p))
<1> DEFINE n == Len(p.cs)
           q == Returned(p)
           cs == Drop(p.cs, 1)
<1>1. /\ p \in ScratchPad /\ p.cs \in Seq(CallSite)
      /\ n \in Nat /\ n >= 2 /\ Last(p.cs) = p.cs[n] /\ n = Len(p.cs)
      /\ 1 \in 0..Len(p.cs)
  <2>1. /\ p \in ScratchPad /\ n >= 1 /\ Last(p.cs) = p.cs[n] /\ n \in Nat
        /\ p.cs \in Seq(CallSite)
    BY TopFacts, PadFacts
  <2>2. n # 1
    BY <2>1 DEF PadOK, SitesOK
  <2> HIDE DEF n
  <2>3. n >= 2 /\ 1 \in 0..n
    BY <2>1, <2>2
  <2> QED BY <2>1, <2>3 DEF n
<1>2. /\ cs \in Seq(CallSite) /\ Len(cs) = n - 1
      /\ \A i \in 1..(n - 1) : cs[i] = p.cs[i]
  BY <1>1, DropFacts
<1> HIDE DEF cs
<1>3. /\ q.cs = cs /\ q.locals = [blk |-> p.blk, off |-> Last(p.cs).prevOff]
      /\ q.blk = p.blk
  BY <1>1 DEF Returned, ScratchPad, cs
<1> HIDE DEF n, q
<1>4. Last(p.cs).prevOff = p.cs[n - 1].bottom
  <2>1. n \in 2..n
    BY <1>1
  <2> QED BY <1>1, <2>1 DEF LocalsOK
<1>5. Last(q.cs) = p.cs[n - 1]
  BY <1>1, <1>2, <1>3 DEF Last
<1>6. \A i \in 2..(n - 1) : q.cs[i].prevOff = q.cs[i - 1].bottom
  <2> TAKE i \in 2..(n - 1)
  <2>1. i \in 2..n /\ q.cs[i] = p.cs[i] /\ q.cs[i - 1] = p.cs[i - 1]
    BY <1>1, <1>2, <1>3
  <2> QED BY <1>1, <2>1 DEF LocalsOK
<1> QED BY <1>2, <1>3, <1>4, <1>5, <1>6 DEF LocalsOK, q

LInv == IInv /\ \A k \in 1..Len(pads) : LocalsOK(pads[k])

(* Changing the running pad keeps the others' locals.                       *)
LEMMA SetPadLocals ==
    ASSUME LInv, pads # <<>>, NEW p, LocalsOK(p), SetPad(p)
    PROVE  \A k \in 1..Len(pads') : LocalsOK(pads'[k])
<1> DEFINE n == Len(pads)
<1>1. pads \in Seq(ScratchPad) /\ n \in Nat /\ n \in 1..n
  BY DEF LInv, IInv
<1>2. pads' = [pads EXCEPT ![n] = p]
  BY DEF SetPad
<1>3. /\ Len(pads') = n /\ pads'[n] = p
      /\ \A k \in 1..n : k # n => pads'[k] = pads[k]
  BY <1>1, <1>2
<1> HIDE DEF n
<1>4. \A k \in 1..n : LocalsOK(pads[k])
  BY DEF LInv, n
<1> QED BY <1>3, <1>4

(* A pad with the same call stack, block and register.                      *)
LEMMA SameLocals ==
    ASSUME NEW p, LocalsOK(p), NEW q, q.locals = p.locals, q.cs = p.cs, q.blk = p.blk
    PROVE  LocalsOK(q)
BY DEF LocalsOK

(* The end of an evaluation leaves the other pads' locals as they were.     *)
LEMMA PopPadLocals ==
    ASSUME LInv, pads # <<>>, pads' = Drop(pads, 1)
    PROVE  \A k \in 1..Len(pads') : LocalsOK(pads'[k])
<1> DEFINE n == Len(pads)
<1>1. pads \in Seq(ScratchPad) /\ n \in Nat /\ 1 \in 0..n /\ n >= 1
  BY DEF LInv, IInv
<1>2. /\ Len(pads') = n - 1 /\ \A k \in 1..(n - 1) : pads'[k] = pads[k]
  BY <1>1, DropFacts
<1>3. \A k \in 1..n : LocalsOK(pads[k])
  BY DEF LInv
<1> HIDE DEF n
<1>4. \A k \in 1..(n - 1) : k \in 1..n
  BY <1>1
<1> QED BY <1>2, <1>3, <1>4

(* A fresh pad's locals.                                                    *)
LEMMA FreshLocals ==
    ASSUME NEW f \in Func, Main(f), NEW r \in FreshPad(f)
    PROVE  LocalsOK(r)
<1>1. PICK e \in Ensure(EmptyPad(f), Shape[f].maxstack + Shape[f].nlocals + 1) :
         r = Started(Pushed(e, <<f>>), f, OutermostSite(f))
  BY DEF FreshPad
<1>2. Shape[f].maxstack + Shape[f].nlocals + 1 \in Nat
  BY ShapeFacts
<1>3. EmptyPad(f) \in ScratchPad /\ EmptyPad(f).cs = <<>>
  <2>1. /\ [fn |-> f, depth |-> 0, nargs |-> 0] \in Ip
        /\ [blk |-> 0, off |-> 1] \in Pointer
    BY DEF Ip, Pointer
  <2>2. <<>> \in Seq(Value) /\ <<>> \in Seq(CallSite)
    OBVIOUS
  <2> QED BY <2>1, <2>2, ShapeFacts DEF EmptyPad, ScratchPad
<1>4. e \in ScratchPad /\ e.cs = <<>>
  BY <1>2, <1>3, EnsureFacts
<1> DEFINE h == Pushed(e, <<f>>)
<1>5. h.cs = <<>>
  BY <1>4 DEF Pushed, ScratchPad
<1>6. r = Started(h, f, OutermostSite(f))
  BY <1>1
<1> HIDE DEF h
<1>7. /\ r.cs = <<OutermostSite(f)>>
      /\ r.locals = [blk |-> r.blk, off |-> OutermostSite(f).bottom]
  BY <1>5, <1>6 DEF Started
<1> QED BY <1>7 DEF LocalsOK, Last

(* An instruction, or a native function, leaves the locals where they are.  *)
LEMMA KeptLocals ==
    ASSUME LInv, pads # <<>>, NEW q, SetPad(q),
           q.locals = Pad.locals, q.cs = Pad.cs, q.blk = Pad.blk
    PROVE  \A k \in 1..Len(pads') : LocalsOK(pads'[k])
<1>1. LocalsOK(Pad)
  <2>1. pads \in Seq(ScratchPad) /\ Len(pads) \in 1..Len(pads)
    BY DEF LInv, IInv
  <2> QED BY <2>1 DEF LInv, Pad, Last
<1>2. LocalsOK(q)
  BY <1>1, SameLocals
<1> QED BY <1>2, SetPadLocals

(* No step of a program in the envelope breaks the locals.                  *)
LEMMA LocalsNext == NoEarlyGrowth /\ LInv /\ [Next]_vars => LInv'
<1> SUFFICES ASSUME NoEarlyGrowth, LInv, [Next]_vars
             PROVE  \A k \in 1..Len(pads') : LocalsOK(pads'[k])
  BY NextInv DEF LInv
<1> USE DEF LInv
<1>1. pads # <<>> => /\ PadOK(Pad) /\ LocalsOK(Pad) /\ Pad \in ScratchPad
  <2> SUFFICES ASSUME pads # <<>>
               PROVE  PadOK(Pad) /\ LocalsOK(Pad) /\ Pad \in ScratchPad
    OBVIOUS
  <2>1. pads \in Seq(ScratchPad) /\ Len(pads) \in 1..Len(pads)
    BY DEF IInv
  <2>2. PadOK(Pad)
    BY PadInv
  <2> QED BY <2>1, <2>2 DEF Pad, Last, PadOK
<1>2. ASSUME UNCHANGED vars
      PROVE  \A k \in 1..Len(pads') : LocalsOK(pads'[k])
  BY <1>2 DEF vars
<1>3. ASSUME NEW take, NEW given, Operate(take, given)
      PROVE  \A k \in 1..Len(pads') : LocalsOK(pads'[k])
  <2> DEFINE depth == Pad.ip.depth - take + Len(given)
             q == [Pad EXCEPT !.slots = Drop(Pad.slots, take) \o given,
                              !.ip.depth = depth]
  <2>1. pads # <<>> /\ SetPad(q)
    BY <1>3 DEF Operate, Running
  <2>2. q.locals = Pad.locals /\ q.cs = Pad.cs /\ q.blk = Pad.blk
    BY <1>1, <2>1 DEF ScratchPad
  <2> HIDE DEF q
  <2> QED BY <2>1, <2>2, KeptLocals
<1>4. ASSUME NEW i, NEW v, WriteLocal(i, v)
      PROVE  \A k \in 1..Len(pads') : LocalsOK(pads'[k])
  <2> DEFINE popped == Drop(Pad.slots, 1)
             q == [Pad EXCEPT
                    !.slots = IF LocalsValid(Pad)
                              THEN [popped EXCEPT ![Pad.locals.off + i] = v]
                              ELSE popped,
                    !.ip.depth = @ - 1]
  <2>1. pads # <<>> /\ SetPad(q)
    BY <1>4 DEF WriteLocal, Running
  <2>2. q.locals = Pad.locals /\ q.cs = Pad.cs /\ q.blk = Pad.blk
    BY <1>1, <2>1 DEF ScratchPad
  <2> HIDE DEF q
  <2> QED BY <2>1, <2>2, KeptLocals
<1>5. ASSUME NEW v, pads # <<>>, NativeDone(v)
      PROVE  \A k \in 1..Len(pads') : LocalsOK(pads'[k])
  <2> DEFINE q == DoneNative(Pad, v)
  <2>1. SetPad(q)
    BY <1>5 DEF NativeDone, DoneNative
  <2>2. q.locals = Pad.locals /\ q.cs = Pad.cs /\ q.blk = Pad.blk
    BY <1>1, <1>5 DEF DoneNative, ScratchPad
  <2> HIDE DEF q
  <2> QED BY <1>5, <2>1, <2>2, KeptLocals
<1>6. ASSUME pads # <<>>, Unwind
      PROVE  \A k \in 1..Len(pads') : LocalsOK(pads'[k])
  BY <1>6, PopPadLocals DEF Unwind
<1>7. ASSUME NEW f \in Func, Main(f), Begin(f)
      PROVE  \A k \in 1..Len(pads') : LocalsOK(pads'[k])
  <2>1. PICK p \in FreshPad(f) : pads' = Append(pads, p)
    BY <1>7 DEF Begin
  <2>2. p \in ScratchPad /\ LocalsOK(p)
    <3>1. PadOK(p) /\ LocalsOK(p)
      BY <1>7, FreshOK, FreshLocals
    <3> QED BY <3>1 DEF PadOK
  <2> DEFINE n == Len(pads)
  <2>3. pads \in Seq(ScratchPad) /\ n \in Nat
    BY DEF IInv
  <2>4. /\ Len(pads') = n + 1 /\ pads'[n + 1] = p
        /\ \A k \in 1..n : pads'[k] = pads[k]
    BY <2>1, <2>2, <2>3, AppendFacts
  <2>5. \A k \in 1..n : LocalsOK(pads[k])
    OBVIOUS
  <2> HIDE DEF n
  <2>6. \A k \in 1..(n + 1) : k \in 1..n \/ k = n + 1
    BY <2>3
  <2> QED BY <2>2, <2>4, <2>5, <2>6
<1>8. ASSUME Running, NEW nargs \in 0..Pad.ip.depth, NEW scatter \in BOOLEAN,
             CallFunc(nargs, scatter)
      PROVE  \A k \in 1..Len(pads') : LocalsOK(pads'[k])
  <2> DEFINE f == Called(nargs)
             n == Passed(nargs, scatter)
             callIp == [Pad.ip EXCEPT !.nargs = nargs]
  <2>1. /\ CallPoint(nargs, scatter) /\ Scatterable(scatter)
        /\ f \in Func /\ Accepts(f, n)
    BY <1>8 DEF CallFunc
  <2>2. PICK p \in Scattered(scatter) : \E q \in Coerce(p, f, n) :
           \E r \in Enter(q, f, callIp) : SetPad(r)
    BY <1>8 DEF CallFunc
  <2>3. PICK q \in Coerce(p, f, n) : \E r \in Enter(q, f, callIp) : SetPad(r)
    BY <2>2
  <2>4. PICK r \in Enter(q, f, callIp) : SetPad(r)
    BY <2>3
  <2>5. /\ PadOK(Pad) /\ LocalsOK(Pad) /\ pads # <<>> /\ nargs \in Nat
        /\ Pad.wait = 0 /\ nargs < Pad.ip.depth
    BY <1>1, <1>8, <2>1 DEF Running, CallPoint
  <2>6. q.blk = Pad.blk
    BY <2>1, <2>5, BlockStays
  <2>7. Arranged(Pad, q, f, nargs)
    BY <2>1, <2>5, ArrangedOK
  <2>8. LocalsOK(r)
    BY <2>1, <2>5, <2>6, <2>7, EnterLocals
  <2> QED BY <2>4, <2>5, <2>8, SetPadLocals
<1>9. ASSUME Running, NEW nargs \in 0..Pad.ip.depth, NEW scatter \in BOOLEAN,
             CallNative(nargs, scatter)
      PROVE  \A k \in 1..Len(pads') : LocalsOK(pads'[k])
  <2>1. CallPoint(nargs, scatter) /\ Scatterable(scatter)
    BY <1>9 DEF CallNative
  <2> DEFINE q(p) == [p EXCEPT !.wait = Passed(nargs, scatter) + 1, !.ip.nargs = nargs]
  <2>2. PICK p \in Scattered(scatter) : SetPad(q(p))
    BY <1>9 DEF CallNative
  <2>3. PadOK(Pad) /\ pads # <<>> /\ nargs \in Nat
    BY <1>1, <1>9 DEF Running
  <2>4. p \in ScratchPad /\ SameControl(Pad, p)
    BY <2>1, <2>3, ScatteredFacts
  <2>5. p.blk = Pad.blk
    BY <2>1, <2>3, BlockStays
  <2>6. q(p).locals = Pad.locals /\ q(p).cs = Pad.cs /\ q(p).blk = Pad.blk
    BY <2>4, <2>5 DEF SameControl, ScratchPad
  <2> HIDE DEF q
  <2> QED BY <2>2, <2>3, <2>6, KeptLocals
<1>10. ASSUME Return
       PROVE  \A k \in 1..Len(pads') : LocalsOK(pads'[k])
  <2>1. /\ pads # <<>> /\ Pad.wait = 0
        /\ Last(Pad.cs).callIp # NullIp /\ SetPad(Returned(Pad))
    BY <1>10 DEF Return, Running, Returned
  <2>2. LocalsOK(Returned(Pad))
    BY <1>1, <2>1, ReturnLocals
  <2> QED BY <2>1, <2>2, SetPadLocals
<1>11. ASSUME Finish
       PROVE  \A k \in 1..Len(pads') : LocalsOK(pads'[k])
  BY <1>11, PopPadLocals DEF Finish, Running
<1>12. ASSUME Deliver
       PROVE  \A k \in 1..Len(pads') : LocalsOK(pads'[k])
  BY <1>12 DEF Deliver
<1>13. ASSUME Running, NEW i, LoadLocal(i)
       PROVE  \A k \in 1..Len(pads') : LocalsOK(pads'[k])
  BY <1>3, <1>13 DEF LoadLocal
<1> QED
  BY <1>2, <1>3, <1>4, <1>5, <1>6, <1>7, <1>8, <1>9, <1>10, <1>11, <1>12, <1>13
  DEF Next, Eval, RequireEval, Load, NativeReturn, Compute, Consume, StoreLocal,
      ModifyLocal, CallFails, NativeThrow, RequireReturn, RequireThrow, Throw,
      InNative, Running

(* In the envelope, every saved offset and the register point to the locals
   of the function they are for, through every call, return and move.       *)
THEOREM LocalsStaySound ==
    ASSUME NoEarlyGrowth
    PROVE  Spec => []LocalsSound
<1>1. Init => LInv
  BY InitInv DEF Init, LInv
<1>2. LInv /\ [Next]_vars => LInv'
  BY LocalsNext
<1>3. LInv => LocalsSound
  BY DEF LInv, IInv, LocalsOK, LocalsSound
<1> QED BY <1>1, <1>2, <1>3, PTL DEF Spec
=============================================================================
