----------------------------- MODULE CallFrames -----------------------------
(***************************************************************************)
(* What calling promises, with no value stack: each evaluation is a stack  *)
(* of frames, a frame has its own locals, operands and constants, a call   *)
(* hands the arguments over by value and a return hands one value back.    *)
(* EvalStack, which lays all frames of an evaluation out in one growing    *)
(* array, implements it.                                                   *)
(***************************************************************************)
EXTENDS Program

VARIABLES
    pads,   \* the nested evaluations, the running one last
    ret     \* what the last evaluation left: None, Failed or a value

vars == <<pads, ret>>

Frame == [fn : Func, consts : Chunk, locals : Seq(Value), opnds : Seq(Value)]
Evaluation == [frames : Seq(Frame), native : Seq(Value)]

TypeOK ==
    /\ pads \in Seq(Evaluation)
    /\ ret \in Value \union {None, Failed}

Nils(n) == [i \in 1..n |-> Nil]
Drop(s, n) == SubSeq(s, 1, Len(s) - n)
Tops(s, n) == SubSeq(s, Len(s) - n + 1, Len(s))

NewFrame(f, args) ==
    [fn |-> f, consts |-> Shape[f].chunk,
     locals |-> args \o Nils(Shape[f].nlocals - Len(args)), opnds |-> <<>>]

Pad == pads[Len(pads)]
Fr  == Pad.frames[Len(Pad.frames)]

Running == pads # <<>> /\ ret = None /\ Pad.native = <<>>
InNative == pads # <<>> /\ ret = None /\ Pad.native # <<>>

SetPad(p) == pads' = [pads EXCEPT ![Len(pads)] = p] /\ ret' = None
SetFrame(fr) == SetPad([Pad EXCEPT !.frames[Len(Pad.frames)] = fr])
Unwind == pads' = Drop(pads, 1) /\ ret' = Failed

Init == pads = <<>> /\ ret = None

(* A source text's function is evaluated in an evaluation of its own.       *)
Begin(f) ==
    /\ pads' = Append(pads, [frames |-> <<NewFrame(f, <<>>)>>, native |-> <<>>])
    /\ ret' = None

Eval(f) == pads = <<>> /\ ret = None /\ Begin(f)

RequireEval(f) ==
    /\ InNative /\ Pad.native[1] = Require /\ Len(pads) < MaxPads
    /\ Begin(f)

(* Any instruction on operands: take some, give at most one value.          *)
Instruction(take, given) ==
    /\ Running
    /\ Len(Fr.opnds) >= take
    /\ SetFrame([Fr EXCEPT !.opnds = Drop(@, take) \o given])

SetLocal(i, v) ==
    /\ Running /\ Fr.opnds # <<>>
    /\ SetFrame([Fr EXCEPT !.opnds = Drop(@, 1), !.locals[i] = v])

(* The arguments of a call, the last one spread when it is scattered.       *)
Arguments(ops, nargs, scatter) ==
    LET args == Tops(ops, nargs)
    IN  IF scatter THEN Drop(args, 1) \o Items[args[nargs]] ELSE args

(* What the parameters of f become, the extra arguments gathered in a list. *)
Bindings(f, args) ==
    IF Gathers(f)
    THEN {SubSeq(args, 1, Required(f)) \o <<l>> :
            l \in {x \in List : Items[x] = SubSeq(args, Required(f) + 1, Len(args))}}
    ELSE {args}

Callable(nargs, scatter) ==
    /\ Running
    /\ Len(Fr.opnds) > nargs
    /\ scatter => nargs >= 1 /\ Fr.opnds[Len(Fr.opnds)] \in List

CallFunc(nargs, scatter) ==
    LET f == Fr.opnds[Len(Fr.opnds) - nargs]
        args == Arguments(Fr.opnds, nargs, scatter)
        caller == [Fr EXCEPT !.opnds = Drop(@, nargs + 1)]
    IN  /\ Callable(nargs, scatter)
        /\ f \in Func /\ Accepts(f, Len(args))
        /\ Len(Pad.frames) < MaxFrames
        /\ \E bound \in Bindings(f, args) :
             SetPad([Pad EXCEPT !.frames =
                        Append(Drop(@, 1) \o <<caller>>, NewFrame(f, bound))])

CallNative(nargs, scatter) ==
    LET f == Fr.opnds[Len(Fr.opnds) - nargs]
    IN  /\ Callable(nargs, scatter)
        /\ f \in Native
        /\ SetPad([Pad EXCEPT
                     !.frames[Len(Pad.frames)].opnds = Drop(@, nargs + 1),
                     !.native = <<f>> \o Arguments(Fr.opnds, nargs, scatter)])

NativeReturn(v) ==
    /\ InNative
    /\ SetPad([Pad EXCEPT !.frames[Len(Pad.frames)].opnds = Append(@, v),
                          !.native = <<>>])

(* The value returned becomes an operand of the caller, or the result.      *)
Return ==
    LET n == Len(Pad.frames)
        callers == Drop(Pad.frames, 1)
    IN  /\ Running /\ Len(Fr.opnds) = 1
        /\ IF n = 1
           THEN pads' = Drop(pads, 1) /\ ret' = Fr.opnds[1]
           ELSE SetPad([Pad EXCEPT !.frames =
                  [callers EXCEPT ![n - 1].opnds = @ \o Fr.opnds]])

Fail == (Running \/ InNative) /\ Unwind

(* Require goes on when the module's evaluation is over.                    *)
RequireReturn ==
    /\ pads # <<>> /\ ret \in Value
    /\ SetPad([Pad EXCEPT !.frames[Len(Pad.frames)].opnds = Append(@, ret),
                          !.native = <<>>])

RequireFail == pads # <<>> /\ ret = Failed /\ Unwind

Deliver == pads = <<>> /\ ret # None /\ ret' = None /\ UNCHANGED pads

Next ==
    \/ \E f \in Func : Main(f) /\ (Eval(f) \/ RequireEval(f))
    \/ Running /\ \E k \in 0..Len(Fr.opnds), v \in Value :
                     Instruction(k, <<v>>) \/ Instruction(k, <<>>)
    \/ Running /\ \E i \in DOMAIN Fr.locals, v \in Value : SetLocal(i, v)
    \/ Running /\ \E k \in 0..Len(Fr.opnds), scatter \in BOOLEAN :
                     CallFunc(k, scatter) \/ CallNative(k, scatter)
    \/ \E v \in Value : NativeReturn(v)
    \/ Return
    \/ Fail
    \/ RequireReturn
    \/ RequireFail
    \/ Deliver

Spec == Init /\ [][Next]_vars
=============================================================================
