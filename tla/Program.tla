------------------------------ MODULE Program ------------------------------
(***************************************************************************)
(* What the evaluator (vm.c) knows of a compiled program: the values, the  *)
(* bytecode functions with the Shape that codegen gave each (vm.h, Shape), *)
(* the native functions and the lists.                                     *)
(*                                                                         *)
(* Code is abstracted to the contract codegen keeps: an instruction of     *)
(* function f works at a statically known operand depth, at most           *)
(* Shape[f].maxstack, and OP_RETURN at depth 1 exactly.                    *)
(***************************************************************************)
EXTENDS Integers, Sequences

CONSTANTS
    Value,      \* every value a slot can hold
    Func,       \* the bytecode functions (VK_FUNC)
    Native,     \* the native functions (VK_CFUNC)
    List,       \* the lists (VK_LIST)
    Nil,        \* the nil value
    None,       \* no value: a NULL pointer
    Failed,     \* the outcome of an evaluation that ended with an error
    Require,    \* the native function X_Require, which evaluates a module
    Items,      \* Items[l]: the contents of list l
    Chunk,      \* the chunks (one per compiled source text)
    Shape,      \* Shape[f]: what func_shape(f) returns, and the chunk of f
    Loads,      \* Loads[f]: values the instructions of f may produce
    Slack,      \* free operand slots there are at every OP_CALL
    MaxFrames,  \* bound: bytecode calls nested in one evaluation
    MaxPads     \* bound: evaluations nested through Require

(* The fields of a Shape.  nargs is the code's encoding: n >= 0 for exactly
   n arguments, ~n = -n-1 for at least n, the rest gathered in a list.      *)
ShapeType == [nargs : Int, nlocals : Nat, maxstack : Nat, chunk : Chunk]

Gathers(f)  == Shape[f].nargs < 0
Required(f) == IF Gathers(f) THEN -Shape[f].nargs - 1 ELSE Shape[f].nargs
Params(f)   == IF Gathers(f) THEN Required(f) + 1 ELSE Required(f)

(* do_call_coerce: does f take n arguments?                                 *)
Accepts(f, n) == IF Gathers(f) THEN n >= Required(f) ELSE n = Required(f)

(* Functions of a whole source text: what state_eval is handed.             *)
Main(f) == Shape[f].nargs = 0

ASSUME ProgramAssumption ==
    /\ Func \subseteq Value /\ Native \subseteq Value /\ List \subseteq Value
    /\ Nil \in Value /\ Require \in Native
    /\ None \notin Value \union Chunk /\ Failed \notin Value /\ None # Failed
    /\ Func \cap Native = {} /\ Func \cap List = {} /\ Native \cap List = {}
    /\ Items \in [List -> Seq(Value)]
    /\ Shape \in [Func -> ShapeType]
    /\ Loads \in [Func -> SUBSET Value]
    /\ \A f \in Func : Params(f) <= Shape[f].nlocals
    /\ Slack \in Nat
    /\ MaxFrames \in Nat \ {0} /\ MaxPads \in Nat \ {0}
=============================================================================
