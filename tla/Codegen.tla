------------------------------- MODULE Codegen -------------------------------
(***************************************************************************)
(* The parser as a code generator (parse.c): one pass over the source that *)
(* emits instructions as it goes, leaves names symbolic until the function *)
(* they are in ends, and patches jumps once their target is known.          *)
(*                                                                         *)
(* One action is one statement, or the opening or closing part of a        *)
(* compound one; the recursion of stmt, block, if_stmt, for_stmt... is laid *)
(* out in `todo`.  Expressions are a few templates (what expr emits; Expr   *)
(* models how).  Positions in the program count from 1.                    *)
(*                                                                         *)
(* The fields fn, path and goal of an instruction are history: the function *)
(* and the constructs it was written in, and where a jump has to lead.      *)
(***************************************************************************)
EXTENDS Integers, SequencesExt

CONSTANTS
    Ident,          \* the identifiers of the source
    NoName,         \* no identifier
    Exprs,          \* bound: the expressions of the source (see Expr)
    Stmts,          \* bound: its simple statements (see Simple)
    Headers,        \* bound: what is between the parentheses of its for loops
    Signatures,     \* bound: its functions' names and parameters
    MaxStmts        \* bound: its statements and clauses

VARIABLES
    prog,       \* the code emitted
    scopes,     \* the locals of each open function, in the order of their index
    ranges,     \* which parts of prog belong to which open function
    shapes,     \* the Shape of each function
    stacks,     \* jumps to be patched: S_IF, S_BREAK, S_CONTINUE
    todo,       \* the compound statements that are open
    globals,    \* state->globals_table, in the order of the index
    written,    \* history: how many statements and clauses there have been
    status      \* "parsing", "ok", "error", or "more": the source is incomplete

parser == <<prog, scopes, ranges, shapes, stacks, todo, written>>
vars == <<parser, globals, status>>

Pos == Nat
NoPos == -1         \* (size_t) -1
Begins == -2        \* the mark of stack_segment_begin
NoLine == 0         \* the line of an instruction that cannot fail
NoGoal == [of |-> 0, piece |-> 0]

Ops == {"LoadConst", "LoadLocal", "LoadAt", "LoadGlobal",
        "ModifyLocal", "ModifyAt", "ModifyGlobal",
        "StoreLocal", "StoreAt", "StoreGlobal", "Print", "Return",
        "Jump", "JumpUnless", "Call", "Function", "Neg", "Aop", "List",
        "LoadSymbolic", "ModifySymbolic", "StoreSymbolic"}
Symbolic == {"LoadSymbolic", "ModifySymbolic", "StoreSymbolic"}

(* c is a jump's distance, a number of operands or an index.                *)
Instr == [op : Ops, c : Int, name : Ident \union {NoName}, line : Nat, fn : Nat,
          path : Seq([of : Nat, piece : Nat]), goal : [of : Nat, piece : Nat]]
Shape == [nargs : Int, nlocals : Nat, maxstack : Nat, offset : Nat,
          names : Seq(Ident)]
CodeRange == [scope : Nat, begin : Pos, end : Pos \union {NoPos}]
Open  == [kind : {"fun", "if", "while", "for"}, of : Nat, piece : Nat,
          begin : Pos, jump : Pos \union {NoPos}, i1 : Pos, i2 : Pos,
          name : Ident \union {NoName}]

(* What each variable may hold.                                             *)
TypeOK ==
    /\ prog \in Seq(Instr) /\ scopes \in Seq(Seq(Ident))
    /\ ranges \in Seq(CodeRange) /\ shapes \in Seq(Shape)
    /\ stacks \in [{"if", "break", "continue"} -> Seq(Pos \union {NoPos, Begins})]
    /\ todo \in Seq(Open) /\ globals \in Seq(Ident)
    /\ written \in Nat /\ status \in {"parsing", "ok", "error", "more"}

-----------------------------------------------------------------------------
(* Expressions and simple statements.                                       *)

Bare(op, c) == [op |-> op, c |-> c, name |-> NoName]
Const   == <<Bare("LoadConst", 0)>>
Load(x) == <<[op |-> "LoadSymbolic", c |-> 0, name |-> x]>>

(* 1, x, -x, x + 1, x["f"], x(x), [1, 2].                                    *)
Code(e) ==
    CASE e.is = "none"  -> <<>>
      [] e.is = "const" -> Const
      [] e.is = "name"  -> Load(e.name)
      [] e.is = "neg"   -> Load(e.name) \o <<Bare("Neg", 0)>>
      [] e.is = "sum"   -> Load(e.name) \o Const \o <<Bare("Aop", 0)>>
      [] e.is = "item"  -> Load(e.name) \o Const \o <<Bare("LoadAt", 0)>>
      [] e.is = "call"  -> Load(e.name) \o Load(e.name) \o <<Bare("Call", 1)>>
      [] e.is = "list"  -> Const \o Const \o <<Bare("List", 2)>>

Expr == [is : {"const", "list"}, name : {NoName}]
        \union [is : {"name", "neg", "sum", "item", "call"}, name : Ident]

(* Scopes and the globals table give a name its index (xht_put_int).        *)
Put(names, x) == IF x \in ToSet(names) THEN names ELSE Append(names, x)
IndexIn(names, x) == (CHOOSE i \in 1..Len(names) : names[i] = x) - 1

(* load_to_store, load_to_modify: the last load of the left-hand side, taken
   back, becomes the store.                                                 *)
Assignable(e, do) == \/ Last(Code(e)).op = "LoadSymbolic"
                     \/ Last(Code(e)).op = "LoadAt" /\ do # "local"

Stored(names, load, do) ==
    CASE do = "local" -> [op |-> "StoreLocal", name |-> load.name,
                          c |-> IndexIn(Put(names, load.name), load.name)]
      [] do = "set"   -> [op |-> IF load.op = "LoadAt" THEN "StoreAt"
                                 ELSE "StoreSymbolic",
                          c |-> 0, name |-> load.name]
      [] do = "modify" -> [op |-> IF load.op = "LoadAt" THEN "ModifyAt"
                                  ELSE "ModifySymbolic",
                           c |-> 0, name |-> load.name]

(* e;  target = e;  target := e;  target += e;                              *)
Simple == [do : {"print"}, value : Expr]
          \union [do : {"set", "local", "modify"}, target : Expr, value : Expr]
Nothing == [do |-> "nothing"]
NoExpr  == [is |-> "none"]

Valid(s) == s.do \notin {"print", "nothing"} => Assignable(s.target, s.do)

ASSUME CodegenAssumption ==
    /\ NoName \notin Ident /\ Exprs \subseteq Expr
    /\ Stmts \subseteq Simple
    /\ Headers \subseteq [init : Simple \union {Nothing}, cond : Expr \union {NoExpr},
                         post : Simple \union {Nothing}]
    /\ \A h \in Headers : Valid(h.init) /\ Valid(h.post)
    /\ Signatures \subseteq [name : Ident, params : Seq(Ident), gather : BOOLEAN]
    /\ \A g \in Signatures : g.gather => g.params # <<>>
    /\ MaxStmts \in Nat

NotDiscarded == <<>>                                        \* mutant
Discarded == <<Bare("Print", 0)>>

(* expr_or_assignment: what it emits, and the scope after it.               *)
SimpleCode(names, s) ==
    CASE s.do = "nothing" -> <<>>
      [] s.do = "print"   -> Code(s.value) \o Discarded
      [] OTHER -> Front(Code(s.target)) \o Code(s.value)
                    \o <<Stored(names, Last(Code(s.target)), s.do)>>

Declared(names, s) ==
    IF s.do = "local" THEN Put(names, Last(Code(s.target)).name) ELSE names

-----------------------------------------------------------------------------
Cur   == Last(todo)
Names == Last(scopes)
Funs(open) == {k \in DOMAIN open : open[k].kind = "fun"}
FunOf(open) == open[Max(Funs(open))]
FunNow == FunOf(todo)
ShapeIdx == prog[FunNow.begin].c        \* fun_shape_ptr

PathOf(open) == [k \in 1..Len(open) |-> [of |-> open[k].of, piece |-> open[k].piece]]

(* Code emitted in function fn within the constructs `open`.                *)
EmitAt(p, code, fn, open, goal, ln) ==
    p \o [i \in 1..Len(code) |->
            [op |-> code[i].op, c |-> code[i].c, name |-> code[i].name,
             line |-> ln, fn |-> fn, path |-> PathOf(open), goal |-> goal]]

(* Every statement is on a line of its own.                                 *)
Emit(p, code, open)        == EmitAt(p, code, ShapeIdx, open, NoGoal, written + 1)
EmitNoLine(p, code, open)  == EmitAt(p, code, ShapeIdx, open, NoGoal, NoLine)
Postponed(p, op, open, of, piece) ==        \* postpone_jump
    EmitAt(p, <<Bare(op, 0)>>, ShapeIdx, open,
           [of |-> of, piece |-> piece], NoLine)

Here(p) == Len(p) + 1

Patched(p, froms, to) ==                    \* fixup_jump
    [i \in 1..Len(p) |-> IF i \in froms THEN [p[i] EXCEPT !.c = to - i] ELSE p[i]]

(* stack_segment_end_fixup pops down to the mark.                           *)
MarkOf(s)  == Max({i \in DOMAIN s : s[i] = Begins})
Segment(s) == {s[i] : i \in (MarkOf(s) + 1)..Len(s)}
Ended(s)   == SubSeq(s, 1, MarkOf(s) - 1)
Begun(s)   == Append(s, Begins)

(* The pieces of a loop in the order they are executed (condition 1, body 2,
   post clause 3, jump back 4), the clauses of an if statement, and what
   comes after the whole construct.                                         *)
Clause(n) == 10 + n
Past == Clause(MaxStmts + 2)

Parsing == status = "parsing"

(* A statement or clause is begun.                                          *)
Write == Parsing /\ written < MaxStmts /\ written' = written + 1

-----------------------------------------------------------------------------
(* Simple statements.                                                       *)

Discard(why) ==                            \* longjmp to parse's err_handler
    /\ status' = why
    /\ prog' = <<>> /\ scopes' = <<>> /\ ranges' = <<>> /\ shapes' = <<>>
    /\ stacks' = [s \in {"if", "break", "continue"} |-> <<>>]
    /\ todo' = <<>> /\ written' = 0

Rejected(why) == Discard(why) /\ UNCHANGED globals

SimpleStmt(s) ==
    /\ Write
    /\ prog' = Emit(prog, SimpleCode(Names, s), todo)
    /\ scopes' = Front(scopes) \o <<Declared(Names, s)>>
    /\ UNCHANGED <<ranges, shapes, stacks, todo, globals, status>>

InvalidAssignment(s) == Parsing /\ ~Valid(s) /\ Rejected("error")

(* return e;  or  return;                                                    *)
Final == <<Bare("LoadConst", 0), Bare("Return", 0)>>

ReturnStmt(e) ==
    /\ Write
    /\ prog' = IF e = NoExpr THEN EmitNoLine(prog, Final, todo)
               ELSE EmitNoLine(Emit(prog, Code(e), todo), <<Bare("Return", 0)>>, todo)
    /\ UNCHANGED <<scopes, ranges, shapes, stacks, todo, globals, status>>

(* break and continue: history only, the loop they belong to.               *)
LoopNow ==
    LET loops == {k \in 1..Len(todo) : todo[k].kind \in {"while", "for"}
                     /\ \A j \in (k + 1)..Len(todo) : todo[j].kind # "fun"}
    IN  IF loops = {} THEN [of |-> 0, kind |-> "none"] ELSE todo[Max(loops)]

JumpStmt(which, piece) ==
    /\ Parsing
    /\ IF Last(stacks[which]) = NoPos THEN Rejected("error")
       ELSE /\ Write
            /\ prog' = Postponed(prog, "Jump", todo, LoopNow.of, piece)
            /\ stacks' = [stacks EXCEPT ![which] = Append(@, Here(prog))]
            /\ UNCHANGED <<scopes, ranges, shapes, todo, globals, status>>

BreakStmt    == JumpStmt("break", Past)
ContinueStmt == JumpStmt("continue", IF LoopNow.kind = "for" THEN 3 ELSE 1)

-----------------------------------------------------------------------------
(* Compound statements.                                                     *)

New(kind, piece) ==
    [kind |-> kind, of |-> written + 1, piece |-> piece, begin |-> Here(prog),
     jump |-> NoPos, i1 |-> 0, i2 |-> 0, name |-> NoName]

AtPiece(piece) == Front(todo) \o <<[Cur EXCEPT !.piece = piece]>>

IfBegin(e) ==
    LET open == Append(todo, New("if", Clause(1)))
        p    == Emit(prog, Code(e), open)
    IN  /\ Write
        /\ prog' = Postponed(p, "JumpUnless", open, written + 1, Clause(2))
        /\ todo' = Append(todo, [New("if", Clause(1)) EXCEPT !.jump = Here(p)])
        /\ stacks' = [stacks EXCEPT !["if"] = Begun(@)]
        /\ UNCHANGED <<scopes, ranges, shapes, globals, status>>

(* The jump from the end of a clause to the end of the statement, and the
   clause that follows; jump = NoPos after else.                            *)
NextClause(e) ==
    LET p == Postponed(prog, "Jump", todo, Cur.of, Past)
        q == Patched(p, {Cur.jump}, Here(p))
        open == AtPiece(Cur.piece + 1)
        r == Emit(q, e, open)
        isElse == e = <<>>
    IN  /\ Write /\ Cur.kind = "if" /\ Cur.jump # NoPos
        /\ stacks' = [stacks EXCEPT !["if"] = Append(@, Here(prog))]
        /\ prog' = IF isElse THEN r
                   ELSE Postponed(r, "JumpUnless", open, Cur.of, Cur.piece + 2)
        /\ todo' = Front(todo) \o
                   <<[Cur EXCEPT !.piece = @ + 1,
                                 !.jump = IF isElse THEN NoPos ELSE Here(r)]>>
        /\ UNCHANGED <<scopes, ranges, shapes, globals, status>>

Elif(e) == NextClause(Code(e))
Else    == NextClause(<<>>)

IfEnd ==
    /\ Parsing /\ Cur.kind = "if"
    /\ prog' = Patched(prog, Segment(stacks["if"]) \union ({Cur.jump} \ {NoPos}),
                       Here(prog))
    /\ stacks' = [stacks EXCEPT !["if"] = Ended(@)]
    /\ todo' = Front(todo)
    /\ UNCHANGED <<scopes, ranges, shapes, globals, written, status>>

LoopBegun == [stacks EXCEPT !["break"] = Begun(@), !["continue"] = Begun(@)]
LoopEnded == [stacks EXCEPT !["break"] = Ended(@), !["continue"] = Ended(@)]

WhileBegin(e) ==
    LET open == Append(todo, New("while", 1))
        p    == Emit(prog, Code(e), open)
    IN  /\ Write
        /\ prog' = Postponed(p, "JumpUnless", open, written + 1, Past)
        /\ todo' = Append(todo, [New("while", 2) EXCEPT !.jump = Here(p)])
        /\ stacks' = LoopBegun
        /\ UNCHANGED <<scopes, ranges, shapes, globals, status>>

WhileEnd ==
    LET p == Postponed(prog, "Jump", AtPiece(4), Cur.of, 1)
        q == Patched(p, {Here(prog)}, Cur.begin)
        r == Patched(q, {Cur.jump} \union Segment(stacks["break"]), Here(p))
    IN  /\ Parsing /\ Cur.kind = "while"
        /\ prog' = Patched(r, Segment(stacks["continue"]), Cur.begin)
        /\ stacks' = LoopEnded
        /\ todo' = Front(todo)
        /\ UNCHANGED <<scopes, ranges, shapes, globals, written, status>>

(* for (init; cond; post) {: the post clause is emitted before the body.     *)
ForBegin(init, cond, post) ==
    LET p0    == Emit(prog, SimpleCode(Names, init), todo)
        names == Declared(Names, init)
        loop  == [New("for", 1) EXCEPT !.begin = Here(p0)]
        p1    == Emit(p0, Code(cond), Append(todo, loop))
        p2    == IF cond = NoExpr THEN p1
                 ELSE Postponed(p1, "JumpUnless", Append(todo, loop), loop.of, Past)
        p3    == Emit(p2, SimpleCode(names, post),
                      Append(todo, [loop EXCEPT !.piece = 3]))
    IN  /\ Write
        /\ prog' = p3
        /\ scopes' = Front(scopes) \o <<Declared(names, post)>>
        /\ todo' = Append(todo, [loop EXCEPT !.piece = 2,
                            !.jump = IF cond = NoExpr THEN NoPos ELSE Here(p1),
                            !.i1 = Here(p2), !.i2 = Here(p3)])
        /\ stacks' = LoopBegun
        /\ UNCHANGED <<ranges, shapes, globals, status>>

(* ti_rotate_left of prog[i1 .. i3 - 1] by i2 - i1.                          *)
Rotated(p, i1, i2, i3) ==
    SubSeq(p, 1, i1 - 1) \o SubSeq(p, i2, i3 - 1) \o SubSeq(p, i1, i2 - 1)
        \o SubSeq(p, i3, Len(p))

(* The jumps are patched before the body moves by nrotate.                  *)
BreakTargetUnmoved(end, nrotate) == end     \* mutant
BreakTarget(end, nrotate) == end + nrotate
ForEnd ==
    LET i3 == Here(prog)
        nrotate == Cur.i2 - Cur.i1
        p == Postponed(prog, "Jump", AtPiece(4), Cur.of, 1)
        q == Patched(p, {i3}, Cur.begin)
        r == Patched(q, {Cur.jump} \ {NoPos}, Here(p))
        s == Patched(r, Segment(stacks["break"]), BreakTarget(Here(p), nrotate))
        t == Patched(s, Segment(stacks["continue"]), (i3 - nrotate) + nrotate)
    IN  /\ Parsing /\ Cur.kind = "for"
        /\ prog' = Rotated(t, Cur.i1, Cur.i2, i3)
        /\ stacks' = LoopEnded
        /\ todo' = Front(todo)
        /\ UNCHANGED <<scopes, ranges, shapes, globals, written, status>>

-----------------------------------------------------------------------------
(* Functions.                                                               *)

(* fun_begin, which open_scope ends; the parameters are the first locals.    *)
Opened(rs, pos, i) ==
    (IF rs = <<>> THEN <<>> ELSE Front(rs) \o <<[Last(rs) EXCEPT !.end = pos]>>)
        \o <<[scope |-> i, begin |-> pos, end |-> NoPos]>>

NewShape(params, gather) ==
    [nargs |-> IF gather THEN -Len(params) ELSE Len(params),
     nlocals |-> 0, maxstack |-> 0, offset |-> 0, names |-> <<>>]

EnterFun(p, params, gather, name) ==
    /\ prog' = p
    /\ shapes' = Append(shapes, NewShape(params, gather))
    /\ scopes' = Append(scopes, params)
    /\ ranges' = Opened(ranges, Here(p), Len(scopes) + 1)
    /\ stacks' = [s \in DOMAIN stacks |-> Append(stacks[s], NoPos)]
    /\ todo' = Append(todo, [New("fun", 1) EXCEPT !.name = name])

Distinct(params) == \A i, j \in DOMAIN params : params[i] = params[j] => i = j

FunBegin(name, params, gather) ==
    /\ Parsing
    /\ IF ~Distinct(params) THEN Rejected("error")      \* duplicate parameter
       ELSE /\ Write
            /\ EnterFun(EmitNoLine(prog, <<Bare("Function", Len(shapes) + 1)>>, todo),
                        params, gather, name)
            /\ UNCHANGED <<globals, status>>

(* close_scope's table of what an instruction adds to the operand depth.     *)
Actions(instr) ==
    CASE instr.op \in {"LoadConst", "LoadLocal", "LoadGlobal", "Function",
                       "LoadSymbolic"} -> 1
      [] instr.op \in {"LoadAt", "ModifyLocal", "ModifyGlobal", "StoreLocal",
                       "StoreGlobal", "Print", "Return", "JumpUnless", "Aop",
                       "ModifySymbolic", "StoreSymbolic"} -> -1
      [] instr.op \in {"ModifyAt", "StoreAt"} -> -3
      [] instr.op \in {"Jump", "Neg"} -> 0
      [] instr.op = "Call" -> -instr.c
      [] instr.op = "List" -> 1 - instr.c

OpLocal(op)  == CASE op = "LoadSymbolic" -> "LoadLocal"
                  [] op = "StoreSymbolic" -> "StoreLocal"
                  [] op = "ModifySymbolic" -> "ModifyLocal"
OpGlobal(op) == CASE op = "LoadSymbolic" -> "LoadGlobal"
                  [] op = "StoreSymbolic" -> "StoreGlobal"
                  [] op = "ModifySymbolic" -> "ModifyGlobal"

(* resolve_symbolic, with the globals table after it.                       *)
IsLocalUnlessGlobal(names, gs, x) ==        \* mutant
    x \in ToSet(names) /\ x \notin ToSet(gs)
IsLocal(names, gs, x) == x \in ToSet(names)

Interned(names, gs, instr) ==
    IF instr.op \in Symbolic /\ ~IsLocal(names, gs, instr.name)
    THEN Put(gs, instr.name) ELSE gs
Resolved(names, gs, instr) ==
    IF instr.op \notin Symbolic THEN instr
    ELSE IF IsLocal(names, gs, instr.name)
    THEN [instr EXCEPT !.op = OpLocal(@), !.c = IndexIn(names, instr.name)]
    ELSE [instr EXCEPT !.op = OpGlobal(@),
                       !.c = IndexIn(Put(gs, instr.name), instr.name)]

(* One step of close_scope's walk over the code of the scope: what it does
   to the globals table and to the operand depth.                            *)
Walked(names, w, instr) ==
    LET depth == w.depth + Actions(instr)
    IN  [globals |-> Interned(names, w.globals, instr),
         depth |-> depth, maxstack |-> Max({w.maxstack, depth}),
         wrapped |-> w.wrapped \/ depth < 0]        \* size_t below 0

(* nranges_for_scope_index: the ranges of the innermost scope are the last.  *)
Others(rs, i) == Max({0} \union {k \in 1..Len(rs) : rs[k].scope # i})
Ours(rs, i) == SubSeq(rs, Others(rs, i) + 1, Len(rs))
Rest(rs, i) == SubSeq(rs, 1, Others(rs, i))

Positions(rs) == UNION {r.begin..(r.end - 1) : r \in ToSet(rs)}

(* Ranges are in the order of their positions.                               *)
Walk(names, gs, p, ours) ==
    LET walk[j \in 0..Len(p)] ==
            IF j = 0 THEN [globals |-> gs, depth |-> 0, maxstack |-> 0,
                           wrapped |-> FALSE]
            ELSE IF j \in ours THEN Walked(names, walk[j - 1], p[j])
            ELSE walk[j - 1]
    IN  [prog |-> [j \in 1..Len(p) |->
                     IF j \in ours THEN Resolved(names, walk[j - 1].globals, p[j])
                     ELSE p[j]],
         end |-> walk[Len(p)]]

(* fun_end: what falls off the end returns nil; close_scope; the Shape.      *)
Closed ==
    LET p    == EmitNoLine(prog, Final, todo)
        done == Front(ranges) \o <<[Last(ranges) EXCEPT !.end = Here(p)]>>
        w    == Walk(Names, globals, p, Positions(Ours(done, Len(scopes))))
    IN  [prog |-> w.prog, globals |-> w.end.globals, maxstack |-> w.end.maxstack,
         wrapped |-> w.end.wrapped, ranges |-> Rest(done, Len(scopes)),
         offset |-> Here(p) - FunNow.begin]

TooBig == Closed.wrapped /\ Discard("error") /\ globals' = Closed.globals

CloseFun ==
    /\ ~Closed.wrapped
    /\ shapes' = [shapes EXCEPT ![ShapeIdx] =
                    [nargs |-> @.nargs, nlocals |-> Len(Names),
                     maxstack |-> Closed.maxstack, offset |-> Closed.offset,
                     names |-> Names]]
    /\ scopes' = Front(scopes)
    /\ globals' = Closed.globals
    /\ stacks' = [s \in DOMAIN stacks |-> Front(stacks[s])]
    /\ UNCHANGED written

(* fun_stmt stores the function under its name, where it is defined.         *)
StoreFun(p, rs) ==
    LET outer == Front(todo)
        fn    == p[FunOf(outer).begin].c
    IN  /\ prog' = EmitAt(p, <<[op |-> "StoreSymbolic", c |-> 0, name |-> Cur.name]>>,
                          fn, outer, NoGoal, NoLine)
        /\ ranges' = Append(rs, [scope |-> Len(scopes) - 1, begin |-> Here(p),
                                 end |-> NoPos])
        /\ todo' = outer
        /\ UNCHANGED status

FunEnd ==
    /\ Parsing /\ Cur.kind = "fun" /\ Len(todo) > 1
    /\ TooBig \/ (CloseFun /\ StoreFun(Closed.prog, Closed.ranges))

(* End of the source in the outermost block; to_chunk.                      *)
EndOfSource ==
    /\ Parsing /\ Len(todo) = 1
    /\ \/ TooBig
       \/ /\ CloseFun
          /\ prog' = Closed.prog /\ ranges' = Closed.ranges /\ todo' = <<>>
          /\ status' = "ok"

(* The source ends in an expression or in a block: need_more.                *)
Incomplete == Parsing /\ Rejected("more")

SyntaxError == Parsing /\ Rejected("error")

(* parse: the function of the whole source.                                 *)
Start(p) ==
    /\ prog = p
    /\ shapes = <<NewShape(<<>>, FALSE)>> /\ scopes = <<<<>>>>
    /\ ranges = <<[scope |-> 1, begin |-> 2, end |-> NoPos]>>
    /\ stacks = [s \in {"if", "break", "continue"} |-> <<NoPos>>]
    /\ todo = <<[kind |-> "fun", of |-> 1, piece |-> 1, begin |-> 1,
                 jump |-> NoPos, i1 |-> 0, i2 |-> 0, name |-> NoName]>>
    /\ written = 1 /\ status = "parsing"

Outermost == EmitAt(<<>>, <<Bare("Function", 1)>>, 0, <<>>, NoGoal, NoLine)

Init == Start(Outermost) /\ globals = <<>>

Next ==
    \/ \E s \in Stmts : (Valid(s) /\ SimpleStmt(s)) \/ InvalidAssignment(s)
    \/ \E e \in Exprs \union {NoExpr} : ReturnStmt(e)
    \/ \E e \in Exprs : IfBegin(e) \/ Elif(e) \/ WhileBegin(e)
    \/ BreakStmt \/ ContinueStmt \/ Else \/ IfEnd \/ WhileEnd
    \/ \E h \in Headers : ForBegin(h.init, h.cond, h.post)
    \/ ForEnd
    \/ \E g \in Signatures : FunBegin(g.name, g.params, g.gather)
    \/ FunEnd \/ EndOfSource \/ Incomplete \/ SyntaxError

Spec == Init /\ [][Next]_vars

-----------------------------------------------------------------------------
(* to_chunk's table of lines, and find_quark's search in it.                 *)
Quarks(p) ==
    LET quarks[i \in 0..Len(p)] ==
            IF i = 0 THEN <<>>
            ELSE LET qs == quarks[i - 1]
                 IN  IF p[i].line # NoLine
                        /\ (qs = <<>> \/ Last(qs).line # p[i].line)
                     THEN Append(qs, [instr |-> i, line |-> p[i].line]) ELSE qs
    IN  quarks[Len(p)]

(* One round of its loop, of which a quark costs at most one.                *)
BisectedBefore(qs, instr, w) ==             \* mutant: > for >=
    LET mid == w.left + (w.right - w.left) \div 2
    IN  IF w.left = w.right THEN w
        ELSE IF instr > qs[mid + 1].instr THEN [left |-> mid + 1, right |-> w.right]
        ELSE [left |-> w.left, right |-> mid]
Bisected(qs, instr, w) ==
    LET mid == w.left + (w.right - w.left) \div 2
    IN  IF w.left = w.right THEN w
        ELSE IF instr >= qs[mid + 1].instr THEN [left |-> mid + 1, right |-> w.right]
        ELSE [left |-> w.left, right |-> mid]

FindQuark(qs, instr) ==
    LET search[k \in 0..Len(qs)] ==
            IF k = 0 THEN [left |-> 0, right |-> Len(qs)]
            ELSE Bisected(qs, instr, search[k - 1])
    IN  search[Len(qs)].left

-----------------------------------------------------------------------------
(* Properties.                                                              *)

IsJump(i) == prog[i].op \in {"Jump", "JumpUnless"}
Target(i) == i + prog[i].c

(* The instructions of a construct, and where one enters at its nth piece.   *)
Within(k) == {i \in DOMAIN prog : \E e \in ToSet(prog[i].path) : e.of = k}
PieceAt(i, k) == (CHOOSE e \in ToSet(prog[i].path) : e.of = k).piece
Landing(k, n) ==
    LET code == Within(k)
    IN  Min({i \in code : PieceAt(i, k) >= n} \union {Max(code) + 1})

Finalized == {prog[i].goal.of : i \in DOMAIN prog}
             \ ({todo[k].of : k \in 1..Len(todo)} \union {0})

(* if, while and for do what their numbered steps in the README say: every
   construct is laid out in the order of its pieces and without a hole, and
   every jump of it leads to the first instruction of the piece it is for,
   whatever was moved since the jump was emitted or patched.                *)
JumpsLand ==
    /\ \A k \in Finalized : LET code == Within(k) IN
          /\ code = Min(code)..Max(code)
          /\ \A i \in code \ {Max(code)} : PieceAt(i, k) <= PieceAt(i + 1, k)
    /\ \A i \in DOMAIN prog : IsJump(i) /\ prog[i].goal.of \in Finalized =>
          Target(i) = Landing(prog[i].goal.of, prog[i].goal.piece)

(* A function that defines another one in a loop whose post clause is moved
   behind the body: the ranges of its code no longer are where they were
   recorded.                                                                *)
RangesMoved(f) ==
    \E i, j \in DOMAIN prog :
        /\ prog[i].fn = f /\ prog[i].op = "Function" /\ prog[j].fn = f
        /\ \E e \in ToSet(prog[i].path), g \in ToSet(prog[j].path) :
              e.of = g.of /\ e.piece = 2 /\ g.piece = 3

Translated(f) == shapes[f].offset > 0 /\ ~RangesMoved(f)

(* "Lexical, function-wide scope with hoisting": a name is a local of the
   function it is written in if that function has it as a parameter or
   declares it anywhere, before or after; a global otherwise.               *)
NamesResolved ==
    \A f \in DOMAIN shapes : Translated(f) =>
        LET names == shapes[f].names
        IN  \A i \in DOMAIN prog :
              LET instr == prog[i]
              IN  instr.fn = f /\ instr.name # NoName =>
                    IF instr.name \in ToSet(names)
                    THEN /\ instr.op \in {"LoadLocal", "StoreLocal", "ModifyLocal"}
                         /\ instr.c = IndexIn(names, instr.name)
                    ELSE /\ instr.op \in {"LoadGlobal", "StoreGlobal", "ModifyGlobal"}
                         /\ globals[instr.c + 1] = instr.name

(* What the evaluator pops and pushes.                                      *)
Takes(instr) ==
    CASE instr.op \in {"LoadConst", "LoadLocal", "LoadGlobal", "Function", "Jump"} -> 0
      [] instr.op \in {"LoadAt", "Aop"} -> 2
      [] instr.op \in {"StoreAt", "ModifyAt"} -> 3
      [] instr.op = "Call" -> instr.c + 1
      [] instr.op = "List" -> instr.c
      [] OTHER -> 1
Gives(instr) ==
    IF instr.op \in {"LoadConst", "LoadLocal", "LoadGlobal", "Function", "LoadAt",
                     "Aop", "Call", "List", "Neg"} THEN 1 ELSE 0

OwnCode(f) == SelectSeq([i \in 1..Len(prog) |-> i], LAMBDA i : prog[i].fn = f)

DepthsOf(f) ==
    LET own == OwnCode(f)
        depth[k \in 0..Len(own)] ==
            IF k = 0 THEN 0
            ELSE depth[k - 1] - Takes(prog[own[k]]) + Gives(prog[own[k]])
    IN  depth

(* The contract EvalStack builds on: an instruction of a function works at
   one operand depth however it is reached, never deeper than maxstack and
   with the operands it takes; a jump stays within its function; OP_RETURN
   finds one operand; OP_FUNCTION skips the body of the function it makes.   *)
DepthStatic ==
    \A f \in DOMAIN shapes : Translated(f) =>
        LET own   == OwnCode(f)
            depth == DepthsOf(f)
        IN  \A k \in 1..Len(own) :
              LET instr == prog[own[k]]
              IN  /\ depth[k - 1] >= Takes(instr)
                  /\ depth[k] <= shapes[f].maxstack
                  /\ instr.op = "Return" => depth[k - 1] = 1
                  /\ IsJump(own[k]) =>
                        \E j \in 1..Len(own) : own[j] = Target(own[k])
                                               /\ depth[j - 1] = depth[k]
                  /\ instr.op = "Function" =>
                        own[k + 1] = own[k] + shapes[instr.c].offset
                  /\ k < Len(own) /\ instr.op # "Function" => own[k + 1] = own[k] + 1

(* The line the traceback shows for an instruction that failed is the one it
   was written on.                                                          *)
LinesFound ==
    status = "ok" =>
        LET qs == Quarks(prog)
        IN  \A i \in DOMAIN prog : prog[i].line # NoLine =>
                /\ FindQuark(qs, i) # 0
                /\ qs[FindQuark(qs, i)].line = prog[i].line

(* "The `fun NAME` statement is just an assignment: it is equivalent to
   `NAME = <newly_created_function>;`."                                     *)
FunStmtIsAssignment ==
    status = "ok" =>
        \A i \in 2..Len(prog) : prog[i].op = "Function" =>
            LET store == prog[i + shapes[prog[i].c].offset]
            IN  store.op \in {"StoreLocal", "StoreGlobal"}
=============================================================================
