------------------------------ MODULE EvalStack ------------------------------
(***************************************************************************)
(* The evaluator's stacks (vm.c): every run of state_eval owns a ScratchPad *)
(* whose value stack holds all its frames one after the other in a single   *)
(* array that realloc may move, and whose call stack holds what OP_RETURN   *)
(* restores.  The running function is reached through three registers: ip,  *)
(* consts and locals, a pointer into that array.                            *)
(*                                                                         *)
(* A frame is laid out as                                                   *)
(*     [ the function | its nlocals locals | its operands ... ]            *)
(* and an instruction pointer is abstracted to the function it points into *)
(* and the operand depth codegen computed for that point.  `bottom` (in a   *)
(* call site) is a history variable: the code does not store it.           *)
(***************************************************************************)
EXTENDS Program

VARIABLES
    pads,   \* the chain of scratch pads from state->pad->prev... to state->pad
    ret     \* what state_eval has just returned: None, Failed (NULL), a value

vars == <<pads, ret>>

Ip == [fn : Func, depth : Nat, nargs : Nat]
NullIp == [fn |-> None, depth |-> 0, nargs |-> 0]
Wild == -1      \* an offset computed from a pointer into a freed block
Pointer == [blk : Nat, off : Nat \union {Wild}]
CallSite == [callIp : Ip \union {NullIp}, callee : Func,
             prevConsts : Chunk \union {None},
             prevOff : Nat \union {Wild}, bottom : Nat]

(* slots: begin..top-1 of the value stack; cap: end - begin; blk: which
   block of memory begin points to; wait: slots a native call in progress
   occupies (its arguments and the function), 0 when there is none.         *)
ScratchPad == [slots : Seq(Value), cap : Nat, blk : Nat, cs : Seq(CallSite),
               ip : Ip, locals : Pointer, consts : Chunk, wait : Nat]

TypeOK ==
    /\ pads \in Seq(ScratchPad)
    /\ ret \in Value \union {None, Failed}

-----------------------------------------------------------------------------
(* Helpers on sequences.                                                    *)
Drop(s, n) == SubSeq(s, 1, Len(s) - n)
Tops(s, n) == SubSeq(s, Len(s) - n + 1, Len(s))
Last(s)    == s[Len(s)]
NilsUninitialized(n) == [i \in 1..n |-> None]  \* mutant: memory as it was
Nils(n)    == [i \in 1..n |-> Nil]

(* value_stack_ensure: capacities uu_x2realloc reaches from c by doubling
   until at least `need`; it may or may not move the block.                 *)
Doubled(c, need) ==
    {d \in need..(2 * need) :
        d < 2 * need /\ \E k \in 0..need : d = (IF c = 0 THEN 1 ELSE c) * 2^k}

Realloc(p, d, b) == [p EXCEPT !.cap = d, !.blk = b]

Grown(p, need) ==
    {Realloc(p, d, b) : d \in Doubled(p.cap, need), b \in {p.blk, p.blk + 1}}

Ensure(p, n) == IF Len(p.slots) + n <= p.cap
                THEN {p} ELSE Grown(p, Len(p.slots) + n)

Pushed(p, s) == [p EXCEPT !.slots = @ \o s]

PushCopies(p, s) == {Pushed(q, s) : q \in Ensure(p, Len(s))}

(* do_call_scatter: the list on top is replaced by its items.               *)
TopDropped(p) == [p EXCEPT !.slots = Drop(@, 1)]
Scatter(p) == PushCopies(TopDropped(p), Items[Last(p.slots)])

(* do_call_gather: the n values on top are replaced by a list of them.      *)
ListsOf(s) == {l \in List : Items[l] = s}
Gathered(p, n, l) == [p EXCEPT !.slots = Append(Drop(@, n), l)]
Gather(p, n) ==
    {Gathered(q, n, l) : q \in (IF n = 0 THEN Ensure(p, 1) ELSE {p}),
                         l \in ListsOf(Tops(p.slots, n))}

(* do_call_coerce, when f accepts n arguments.                              *)
Coerce(p, f, n) == IF Gathers(f) THEN Gather(p, n - Required(f)) ELSE {p}

(* pad->rti.locals - pad->rti.vs.begin.                                     *)
LocalsOffset(p) == IF p.locals.blk = p.blk THEN p.locals.off ELSE Wild

NVars(f) == Shape[f].nlocals - Params(f)

(* Start f, whose parameters are on top of p, at call site `site`: the other
   locals are set to nil and the registers point into the new frame.        *)
Started(p, f, site) ==
    [slots  |-> p.slots \o Nils(NVars(f)),
     cap    |-> p.cap, blk |-> p.blk,
     cs     |-> Append(p.cs, site),
     ip     |-> [fn |-> f, depth |-> 0, nargs |-> 0],
     locals |-> [blk |-> p.blk, off |-> site.bottom],
     consts |-> Shape[f].chunk,
     wait   |-> 0]

(* The rest of do_call for a bytecode function: room for its frame, and a
   call site that remembers the caller.                                     *)
SiteFor(p, f, callIp) ==
    [callIp |-> callIp, callee |-> f, prevConsts |-> p.consts,
     prevOff |-> LocalsOffset(p), bottom |-> Len(p.slots) - Params(f)]

(* Mutants: no room for the operands; the offset saved once the stack has
   moved.                                                                   *)
EnterTight(p, f, callIp) ==
    {Started(q, f, SiteFor(p, f, callIp)) : q \in Ensure(p, NVars(f))}
EnterThenSave(p, f, callIp) ==
    {Started(q, f, SiteFor(q, f, callIp)) :
        q \in Ensure(p, Shape[f].maxstack + NVars(f))}

Enter(p, f, callIp) ==
    {Started(q, f, SiteFor(p, f, callIp)) :
        q \in Ensure(p, Shape[f].maxstack + NVars(f))}

(* scratch_pad_new, setup_for_eval and the start of state_eval; a function
   with parameters, which setup_for_eval refuses, is never handed to it.    *)
EmptyPad(f) ==
    [slots |-> <<>>, cap |-> 0, blk |-> 0, cs |-> <<>>,
     ip |-> [fn |-> f, depth |-> 0, nargs |-> 0],
     locals |-> [blk |-> 0, off |-> 1],
     consts |-> Shape[f].chunk, wait |-> 0]

OutermostSite(f) == [callIp |-> NullIp, callee |-> f, prevConsts |-> None,
                     prevOff |-> Wild, bottom |-> 1]

FreshPad(f) ==
    {Started(Pushed(q, <<f>>), f, OutermostSite(f)) :
        q \in Ensure(EmptyPad(f), Shape[f].maxstack + Shape[f].nlocals + 1)}

-----------------------------------------------------------------------------
Pad == Last(pads)

Running  == pads # <<>> /\ ret = None /\ Pad.wait = 0
InNative == pads # <<>> /\ ret = None /\ Pad.wait > 0

SetPad(p) == pads' = [pads EXCEPT ![Len(pads)] = p] /\ ret' = None

(* Mutant: the pad of a failed evaluation stays.                            *)
UnwindLeaks == pads' = pads /\ ret' = Failed

(* longjmp to err_handler: scratch_pad_free, and state_eval returns NULL.   *)
Unwind == pads' = Drop(pads, 1) /\ ret' = Failed

Init == pads = <<>> /\ ret = None

Begin(f) == /\ \E p \in FreshPad(f) : pads' = Append(pads, p)
            /\ ret' = None

(* main.c hands state_eval the function of a source text.                   *)
Eval(f) == pads = <<>> /\ ret = None /\ Begin(f)

(* X_Require evaluates the module it has loaded.                            *)
RequireEval(f) ==
    /\ InNative
    /\ Pad.slots[Len(Pad.slots) - Pad.wait + 1] = Require
    /\ Len(pads) < MaxPads
    /\ Begin(f)

(* The instructions on operands only: take some, give a value or none.
   An instruction leaves ip at the depth codegen computed for the next one. *)
Operate(take, given) ==
    LET depth == Pad.ip.depth - take + Len(given)
    IN  /\ Running
        /\ Pad.ip.depth >= take
        /\ depth <= Shape[Pad.ip.fn].maxstack
        /\ SetPad([Pad EXCEPT !.slots = Drop(@, take) \o given,
                              !.ip.depth = depth])

(* OP_LOAD_CONST, OP_LOAD_GLOBAL, OP_FUNCTION.                              *)
Load(v) == Running /\ v \in Loads[Pad.ip.fn] /\ Operate(0, <<v>>)

(* OP_LOAD_AT, OP_AOP, OP_CMP_2WAY, OP_CMP_3WAY, OP_NOT, OP_NEG, OP_LEN,
   OP_LIST and OP_DICT.                                                     *)
Compute(take, v) == Running /\ v \in Loads[Pad.ip.fn] /\ Operate(take, <<v>>)

(* OP_STORE_GLOBAL, OP_MODIFY_GLOBAL, OP_PRINT, OP_JUMP_UNLESS (one
   operand), OP_STORE_AT and OP_MODIFY_AT (three).                          *)
Consume(take) == Operate(take, <<>>)

LocalsValid(p) == p.locals.blk = p.blk /\ p.locals.off # Wild

(* What locals[i] reads: anything once the block it points into is freed.   *)
LocalReads(p, i) ==
    IF LocalsValid(p) THEN {p.slots[p.locals.off + i]} ELSE Loads[p.ip.fn]

LoadLocal(i) ==
    /\ Running
    /\ \E v \in LocalReads(Pad, i) : Operate(0, <<v>>)

(* Mutant: locals counted from the function's own slot.                     *)
WriteLocalBelow(i, v) ==
    LET popped == Drop(Pad.slots, 1)
    IN  /\ Running /\ Pad.ip.depth >= 1
        /\ SetPad([Pad EXCEPT
              !.slots = IF LocalsValid(Pad)
                        THEN [popped EXCEPT ![Pad.locals.off + i - 1] = v]
                        ELSE popped,
              !.ip.depth = @ - 1])

(* OP_STORE_LOCAL and OP_MODIFY_LOCAL; a write into a freed block is lost.  *)
WriteLocal(i, v) ==
    LET popped == Drop(Pad.slots, 1)
    IN  /\ Running /\ Pad.ip.depth >= 1
        /\ SetPad([Pad EXCEPT
              !.slots = IF LocalsValid(Pad)
                        THEN [popped EXCEPT ![Pad.locals.off + i] = v]
                        ELSE popped,
              !.ip.depth = @ - 1])

StoreLocal(i)     == Running /\ WriteLocal(i, Last(Pad.slots))
ModifyLocal(i, v) == Running /\ v \in Loads[Pad.ip.fn] /\ WriteLocal(i, v)

-----------------------------------------------------------------------------
(* OP_CALL with instr.c = nargs and instr.a = scatter.                      *)
CallPoint(nargs, scatter) ==
    /\ Running
    /\ nargs < Pad.ip.depth
    /\ Pad.ip.depth + Slack <= Shape[Pad.ip.fn].maxstack
    /\ scatter => nargs >= 1

Scatterable(scatter) == scatter => Last(Pad.slots) \in List

(* How many arguments there are once the last is scattered, and the callee. *)
Passed(nargs, scatter) ==
    IF scatter THEN nargs - 1 + Len(Items[Last(Pad.slots)]) ELSE nargs
Called(nargs) == Pad.slots[Len(Pad.slots) - nargs]

Scattered(scatter) == IF scatter THEN Scatter(Pad) ELSE {Pad}

CallFunc(nargs, scatter) ==
    LET f == Called(nargs)
        n == Passed(nargs, scatter)
    IN  /\ CallPoint(nargs, scatter) /\ Scatterable(scatter)
        /\ f \in Func /\ Accepts(f, n)
        /\ Len(Pad.cs) < MaxFrames
        /\ \E p \in Scattered(scatter) : \E q \in Coerce(p, f, n) :
              \E r \in Enter(q, f, [Pad.ip EXCEPT !.nargs = nargs]) : SetPad(r)

CallNative(nargs, scatter) ==
    /\ CallPoint(nargs, scatter) /\ Scatterable(scatter)
    /\ Called(nargs) \in Native
    /\ \E p \in Scattered(scatter) :
          SetPad([p EXCEPT !.wait = Passed(nargs, scatter) + 1,
                           !.ip.nargs = nargs])

(* state_throw out of do_call: nothing to scatter, a wrong number of
   arguments, or a value that cannot be called.                             *)
CallFails(nargs, scatter) ==
    LET f == Called(nargs)
    IN  /\ CallPoint(nargs, scatter)
        /\ Scatterable(scatter) =>
              /\ f \notin Native
              /\ f \in Func => ~Accepts(f, Passed(nargs, scatter))
        /\ Unwind

(* The next ip after a call: the function and the arguments are gone, the
   value returned is there.                                                 *)
AfterKeepsArgs(ip) == [fn |-> ip.fn, depth |-> ip.depth, nargs |-> 0]  \* mutant
After(ip) == [fn |-> ip.fn, depth |-> ip.depth - ip.nargs, nargs |-> 0]

NativeDone(v) ==
    SetPad([Pad EXCEPT !.slots = Append(Drop(@, Pad.wait), v),
                       !.wait = 0, !.ip = After(@)])

NativeReturn(v) == InNative /\ v \in Loads[Pad.ip.fn] /\ NativeDone(v)

NativeThrow == InNative /\ Unwind

(* X_Require when its state_eval returns: the value, or "module evaluation
   failed".                                                                 *)
RequireReturn == pads # <<>> /\ ret \in Value /\ NativeDone(ret)
RequireThrowNil == pads # <<>> /\ ret = Failed /\ NativeDone(Nil)      \* mutant
RequireThrow  == pads # <<>> /\ ret = Failed /\ Unwind

(* Mutant: the function's own slot stays under the result.                  *)
PoppedKeepsCallee(p) ==
    Append(Drop(p.slots, Shape[Last(p.cs).callee].nlocals + 1), Last(p.slots))

(* What OP_RETURN leaves on the value stack of p.                           *)
Popped(p) ==
    Append(Drop(p.slots, 1 + Shape[Last(p.cs).callee].nlocals + 1), Last(p.slots))

(* Mutant: the constants of the function that returns stay.                 *)
ReturnKeepsConsts ==
    LET site == Last(Pad.cs)
    IN  /\ Running /\ Pad.ip.depth = 1
        /\ site.callIp # NullIp
        /\ SetPad([Pad EXCEPT !.slots = Popped(Pad),
                              !.cs = Drop(@, 1),
                              !.locals = [blk |-> Pad.blk, off |-> site.prevOff],
                              !.ip = After(site.callIp)])

Return ==
    LET site == Last(Pad.cs)
    IN  /\ Running /\ Pad.ip.depth = 1
        /\ site.callIp # NullIp
        /\ SetPad([Pad EXCEPT !.slots = Popped(Pad),
                              !.cs = Drop(@, 1),
                              !.consts = site.prevConsts,
                              !.locals = [blk |-> Pad.blk, off |-> site.prevOff],
                              !.ip = After(site.callIp)])

(* OP_RETURN of the outermost function: label done of state_eval.           *)
Finish ==
    /\ Running /\ Pad.ip.depth = 1
    /\ Last(Pad.cs).callIp = NullIp
    /\ ret' = Last(Popped(Pad))
    /\ pads' = Drop(pads, 1)

(* flush_and_throw, from any instruction that can fail.                     *)
Throw == Running /\ Unwind

(* main.c takes the outcome.                                                *)
Deliver == pads = <<>> /\ ret # None /\ ret' = None /\ UNCHANGED pads

Next ==
    \/ \E f \in Func : Main(f) /\ (Eval(f) \/ RequireEval(f))
    \/ \E v \in Value : Load(v) \/ NativeReturn(v)
    \/ Running /\ \E take \in 1..Pad.ip.depth, v \in Value : Compute(take, v)
    \/ \E take \in {1, 3} : Consume(take)
    \/ Running /\ \E i \in 1..Shape[Pad.ip.fn].nlocals :
                     \/ LoadLocal(i) \/ StoreLocal(i)
                     \/ \E v \in Value : ModifyLocal(i, v)
    \/ Running /\ \E nargs \in 0..Pad.ip.depth, scatter \in BOOLEAN :
                     \/ CallFunc(nargs, scatter)
                     \/ CallNative(nargs, scatter)
                     \/ CallFails(nargs, scatter)
    \/ NativeThrow
    \/ RequireReturn
    \/ RequireThrow
    \/ Return
    \/ Finish
    \/ Throw
    \/ Deliver

Spec == Init /\ [][Next]_vars

(* The code's own fairness: a step that is due is taken, the caller of
   state_eval does not stop between its return and what comes next.         *)
FairSpec == Spec /\ WF_vars(RequireThrow) /\ WF_vars(Deliver)

-----------------------------------------------------------------------------
(* Properties.                                                              *)

OperandsStart(site) == site.bottom + Shape[site.callee].nlocals

(* No instruction writes past the end of the value stack: what
   value_stack_ensure reserved in do_call and setup_for_eval is enough for
   every frame, also after calls scattered or gathered their arguments, and
   for a frame returned to.                                                 *)
RoomForFrames ==
    \A k \in DOMAIN pads : LET p == pads[k] IN
        /\ Len(p.slots) <= p.cap
        /\ \A i \in DOMAIN p.cs :
              OperandsStart(p.cs[i]) + Shape[p.cs[i].callee].maxstack <= p.cap

(* The top of the value stack is always where codegen's operand depth says,
   whatever the number of arguments scattering or gathering really passed;
   OP_RETURN relies on it to find the function's own slot.                  *)
DepthAgrees ==
    \A k \in DOMAIN pads : LET p == pads[k] IN
        IF p.wait = 0
        THEN Len(p.slots) = OperandsStart(Last(p.cs)) + p.ip.depth
        ELSE Len(p.slots) - p.wait + 1 =
                OperandsStart(Last(p.cs)) + After(p.ip).depth

(* The assertion at label done of state_eval: when the outermost function
   returns, its result is all that is left on the value stack.              *)
ResultAloneAtDone ==
    Running /\ Pad.ip.depth = 1 /\ Last(Pad.cs).callIp = NullIp
        => Len(Popped(Pad)) = 1

(* The call stack's callee is a non-owning reference: the slot under the
   function's locals holds the reference that keeps it alive.               *)
CalleePinned ==
    \A k \in DOMAIN pads : \A i \in DOMAIN pads[k].cs :
        LET site == pads[k].cs[i]
        IN  /\ site.bottom \in 1..Len(pads[k].slots)
            /\ pads[k].slots[site.bottom] = site.callee

(* What state_print_traceback and OP_RETURN rely on: the instruction pointer
   that goes with a call site, and the constants, are those of its callee.  *)
SitesMatch ==
    \A k \in DOMAIN pads : LET p == pads[k] IN
        /\ p.cs # <<>>
        /\ p.ip.fn = Last(p.cs).callee /\ p.consts = Shape[p.ip.fn].chunk
        /\ \A i \in DOMAIN p.cs :
              IF i = 1 THEN p.cs[i].callIp = NullIp
              ELSE /\ p.cs[i].callIp # NullIp
                   /\ p.cs[i].callIp.fn = p.cs[i - 1].callee
                   /\ p.cs[i].prevConsts = Shape[p.cs[i - 1].callee].chunk

(* An evaluation with another one above it is waiting for Require.          *)
OuterAwaitsRequire ==
    \A k \in DOMAIN pads : LET p == pads[k] IN
        k < Len(pads) \/ ret # None =>
            p.wait > 0 /\ p.slots[Len(p.slots) - p.wait + 1] = Require

(* Every offset saved in a call site is "from the bottom of the value stack
   to the beginning of the caller's locals", and so is the register.        *)
LocalsSound ==
    \A k \in DOMAIN pads : LET p == pads[k] IN
        /\ p.locals = [blk |-> p.blk, off |-> Last(p.cs).bottom]
        /\ \A i \in 2..Len(p.cs) : p.cs[i].prevOff = p.cs[i - 1].bottom

(* The comment on CallSite.prev_locals_offset: "Offset from the bottom of the
   value stack to the beginning of the caller's locals."                    *)
OffsetsAsDocumented ==
    \A k \in DOMAIN pads : LET cs == pads[k].cs IN
        \A i \in 2..Len(cs) :
            Shape[cs[i - 1].callee].nlocals > 0 =>
                cs[i].prevOff = cs[i - 1].bottom

(* Room at the calls for everything do_call pushes before it has saved the
   offset of the caller's locals.                                           *)
NoEarlyGrowth ==
    /\ Slack >= 1
    /\ \A l \in List : Len(Items[l]) <= Slack + 1
    /\ \A f \in Func : Gathers(f) => Required(f) <= Slack

(* An error ends the evaluation and every evaluation waiting for it through
   Require: nothing of them is ever resumed.                                *)
ErrorsReachTheDriver == ret = Failed ~> (pads = <<>> /\ ret = Failed)

-----------------------------------------------------------------------------
(* Each pad seen as frames of their own (CallFrames).  Frame i's locals are
   where the code would look for them once it is frame i's turn.            *)
StartOf(p, i) == IF i = Len(p.cs) THEN p.locals.off ELSE p.cs[i + 1].prevOff

FrameOf(p, i) ==
    LET top   == i = Len(p.cs)
        f     == p.cs[i].callee
        start == StartOf(p, i)
        stop  == IF top THEN Len(p.slots) - p.wait ELSE StartOf(p, i + 1) - 1
        opnds == start + Shape[f].nlocals
    IN  [fn |-> f,
         consts |-> IF top THEN p.consts ELSE p.cs[i + 1].prevConsts,
         locals |-> SubSeq(p.slots, start + 1, opnds),
         opnds  |-> SubSeq(p.slots, opnds + 1, stop)]

EvaluationOf(p) == [frames |-> [i \in 1..Len(p.cs) |-> FrameOf(p, i)],
                    native |-> Tops(p.slots, p.wait)]

Frames == INSTANCE CallFrames
            WITH pads <- [k \in 1..Len(pads) |-> EvaluationOf(pads[k])]

(* The single array of slots behaves as separate frames would: arguments,
   gathered and scattered lists, locals, constants and return values reach
   the right function, and no function disturbs another one's slots.        *)
FramesSpec == Frames!Spec
=============================================================================
