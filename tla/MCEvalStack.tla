----------------------------- MODULE MCEvalStack -----------------------------
(* Small programs for EvalStack: a source text `main`, a function with a     *)
(* local of its own, a function that gathers, and a module to Require.       *)
EXTENDS EvalStack, TLC

CONSTANTS main, one, rest, mod, va, vb, l0, l1, l2, A, B

MCValue  == {main, one, rest, mod, Require, Nil, va, vb, l0, l1, l2}
MCFunc   == {main, one, rest, mod}
MCItems  == (l0 :> <<>>) @@ (l1 :> <<va>>) @@ (l2 :> <<va, vb>>)
Shapes(m, n) ==
    (main :> [nargs |-> 0, nlocals |-> 0, maxstack |-> m, chunk |-> A])
 @@ (one :> [nargs |-> 1, nlocals |-> 2, maxstack |-> n, chunk |-> A])
 @@ (rest :> [nargs |-> -1, nlocals |-> 1, maxstack |-> n, chunk |-> B])
 @@ (mod :> [nargs |-> 0, nlocals |-> 0, maxstack |-> 2, chunk |-> B])
Shape2 == Shapes(2, 2)
Shape3 == Shapes(3, 3)
(* Enough room that no call moves the stack early (NoEarlyGrowth, Slack 1).  *)
ShapeRoomy == [Shapes(2, 2) EXCEPT
    ![rest] = [nargs |-> -1, nlocals |-> 1, maxstack |-> 3, chunk |-> B]]

(* Calls within one evaluation.                                             *)
CallLoads == (main :> {one, rest, l2}) @@ (one :> {rest, l0}) @@ (rest :> {one, vb})
          @@ (mod :> {rest, l1})

(* Calls three deep, gathering, scattering and passing one argument, and a
   module required on the way.                                               *)
DeepLoads == (main :> {Require, rest}) @@ (rest :> {one, l2}) @@ (one :> {vb}) @@ (mod :> {l1})

(* A function with locals that calls a gathering one.                       *)
StaleLoads == (main :> {one}) @@ (one :> {rest, l2}) @@ (rest :> {rest}) @@ (mod :> {rest})
=============================================================================
