-------------------------------- MODULE Expr --------------------------------
(***************************************************************************)
(* Expressions (parse.c, expr and the functions it calls): precedence       *)
(* climbing that emits postfix code, and the statement around one           *)
(* (expr_or_assignment), which takes the last instruction back when the     *)
(* expression turns out to be the target of an assignment.                  *)
(*                                                                         *)
(* `frames` is the C stack of the recursion, the innermost call last; an    *)
(* action is one iteration of a loop or what a function does once the one   *)
(* it called has returned.  The lexer hands out any token.  An instruction  *)
(* is known by the position of the token it was emitted for (emit_at).      *)
(***************************************************************************)
EXTENDS Integers, SequencesExt

CONSTANTS
    Tokens,     \* bound: the tokens of the source
    Limit,      \* bound: Limit[t], how long a text with token t may be
    Endings     \* bound: what is tried after a text that was refused

VARIABLES
    cur,        \* p->cur
    read,       \* history: the tokens so far, cur the last unless it is "eof"
    frames,     \* the calls that are open
    code,       \* the code emitted
    status      \* "parsing", "ok", "error" or "more"

vars == <<cur, read, frames, code, status>>

(* One operator of each priority, and those that are something else too.     *)
Unary == "-" :> 50 @@ "!" :> 50 @@ "@" :> 60
Binary ==
    "~" :> 10 @@ "||" :> 11 @@ "&&" :> 12 @@ "|" :> 13 @@ "^" :> 14 @@ "&" :> 15
    @@ "==" :> 16 @@ "<" :> 17 @@ "<<" :> 18 @@ "-" :> 19 @@ "+" :> 19
    @@ "*" :> 20 @@ "/" :> 20 @@ "**" :> 21
LeftToRightAll(op) == 1                                     \* mutant
LeftToRight(op) == IF op = "**" THEN 0 ELSE 1

Stops == {",", "eof", "=", ":", ";", ")", "]", "}"}
Token == {"name", "literal", "(", "[", "{", "."} \union Stops
         \union DOMAIN Unary \union DOMAIN Binary

Simple == {"LoadSymbolic", "LoadConst", "LoadAt", "StoreSymbolic", "StoreAt",
           "Print", "Unary", "Binary"}
Instr == [op : Simple, at : Nat, n : {0}, scatter : {FALSE}]
         \union [op : {"List", "Dict"}, at : Nat, n : Nat, scatter : {FALSE}]
         \union [op : {"Call"}, at : Nat, n : Nat \ {0}, scatter : BOOLEAN]
         \union [op : {"Call"}, at : Nat, n : {0}, scatter : {FALSE}]
Bracket == [funcall |-> ")", newlist |-> "]", newdict |-> "}"]
Frame == [fn : {"stmt", "expr", "unary_operator", "binary_operator", "group",
                "index", "field"} \union DOMAIN Bracket,
          min : Int, expect : BOOLEAN,                          \* expr
          stage : {"open", "item", "colon", "after", "value"},
          at : Nat, n : Nat, scatter : BOOLEAN,
          load : {"none", "LoadSymbolic", "LoadConst", "LoadAt", "Unary", "Binary",
                  "Call", "List", "Dict"}]

ASSUME ExprAssumption ==
    /\ Tokens \subseteq Token \ {"eof"} /\ Limit \in [Tokens -> Nat]
    /\ Endings \subseteq Seq(Token)

(* What each variable may hold.                                             *)
TypeOK ==
    /\ cur \in Token /\ read \in Seq(Token)
    /\ frames \in Seq(Frame) /\ code \in Seq(Instr)
    /\ status \in {"parsing", "ok", "error", "more"}

-----------------------------------------------------------------------------
Top  == Last(frames)
Here == Len(read)

Call(fn) == [fn |-> fn, min |-> 0, expect |-> FALSE, stage |-> "open",
             at |-> Here, n |-> 0, scatter |-> FALSE, load |-> "none"]
ExprCall(min) == [Call("expr") EXCEPT !.min = min, !.expect = TRUE]

At(op, at) == [op |-> op, at |-> at, n |-> 0, scatter |-> FALSE]

(* expect_expr = false in the expression below.                             *)
HasValueAlready(fs) == fs                                   \* mutant
HasValue(fs) == Front(fs) \o <<[Last(fs) EXCEPT !.expect = FALSE]>>

Comes(t) == cur' = t /\ read' = IF t = "eof" THEN read ELSE Append(read, t)
Coming   == {t \in Tokens : \A u \in ToSet(read) \union {t} : Len(read) < Limit[u]}
            \union {"eof"}
Advance  == \E t \in Coming : Comes(t)

(* throw_error_at: at the end of the text, more of it is needed.            *)
FailAt(t) == /\ status' = IF t = "eof" THEN "more" ELSE "error"
             /\ frames' = <<>> /\ code' = <<>>
Fail == FailAt(cur) /\ UNCHANGED <<cur, read>>

Enter(calls) ==
    frames' = frames \o calls /\ Advance /\ UNCHANGED <<code, status>>
Return == frames' = Front(frames) /\ UNCHANGED <<cur, read, code, status>>

(* The innermost call is done; the expression it is part of has a value.     *)
Gives(instrs) ==
    /\ code' = code \o instrs
    /\ frames' = HasValue(Front(frames))
    /\ UNCHANGED status

In(fn) == status = "parsing" /\ Top.fn = fn

-----------------------------------------------------------------------------
(* expr: one iteration.                                                     *)

Operand ==
    /\ In("expr") /\ cur \in {"name", "literal"}
    /\ IF ~Top.expect THEN Fail
       ELSE /\ code' = Append(code, At(IF cur = "name" THEN "LoadSymbolic"
                                       ELSE "LoadConst", Here))
            /\ frames' = HasValue(frames)
            /\ Advance /\ UNCHANGED status

OpenBracket ==
    /\ In("expr") /\ cur = "["
    /\ Enter(IF Top.expect THEN <<Call("newlist")>>
             ELSE <<Call("index"), ExprCall(-1)>>)

OpenBrace ==
    /\ In("expr") /\ cur = "{"
    /\ IF Top.expect THEN Enter(<<Call("newdict")>>) ELSE Fail

OpenParen ==
    /\ In("expr") /\ cur = "("
    /\ Enter(IF Top.expect THEN <<Call("group"), ExprCall(-1)>>
             ELSE <<Call("funcall")>>)

Dot ==
    /\ In("expr") /\ cur = "."
    /\ IF Top.expect THEN Fail ELSE Enter(<<Call("field")>>)

Stop == In("expr") /\ cur \in Stops /\ IF Top.expect THEN Fail ELSE Return

Operator == cur \notin Stops \union {"name", "literal", "(", "[", "{", "."}

UnaryBegin ==
    /\ In("expr") /\ Operator /\ Top.expect
    /\ IF cur \notin DOMAIN Unary THEN Fail
       ELSE Enter(<<Call("unary_operator"), ExprCall(Unary[cur])>>)

BinaryBegin ==
    /\ In("expr") /\ Operator /\ ~Top.expect
    /\ IF cur \notin DOMAIN Binary THEN Fail
       ELSE IF Binary[cur] < Top.min THEN Return
       ELSE Enter(<<Call("binary_operator"),
                    ExprCall(Binary[cur] + LeftToRight(cur))>>)

-----------------------------------------------------------------------------
(* What follows once the expression called for has returned.                *)

UnaryEnd ==
    In("unary_operator") /\ Gives(<<At("Unary", Top.at)>>) /\ UNCHANGED <<cur, read>>
BinaryEnd ==
    In("binary_operator") /\ Gives(<<At("Binary", Top.at)>>) /\ UNCHANGED <<cur, read>>

GroupEnd ==
    In("group") /\ IF cur = ")" THEN Gives(<<>>) /\ Advance ELSE Fail
IndexEnd ==
    In("index") /\ IF cur = "]" THEN Gives(<<At("LoadAt", Top.at)>>) /\ Advance ELSE Fail
Field ==
    In("field") /\ IF cur = "name"
                   THEN Gives(<<At("LoadConst", Here), At("LoadAt", Here)>>) /\ Advance
                   ELSE Fail

(* funcall, newlist, newdict: "open" before the first item, "item" before
   another, "after" one; a dict entry has its colon in between.             *)
InList(stages) ==
    /\ status = "parsing" /\ Top.fn \in DOMAIN Bracket
    /\ Top.stage \in stages

ListOp == [funcall |-> "Call", newlist |-> "List", newdict |-> "Dict"]

ListEnd ==
    /\ InList({"open", "after"}) /\ cur = Bracket[Top.fn]
    /\ Gives(<<[At(ListOp[Top.fn], Top.at) EXCEPT !.n = Top.n,
                                                  !.scatter = Top.scatter]>>)
    /\ Advance

Scatters(fn, t) == fn = "funcall" /\ t = "*"

Item ==
    LET scatter == Scatters(Top.fn, cur)
        next    == IF Top.fn = "newdict" THEN "colon" ELSE "after"
        list    == [Top EXCEPT !.n = @ + 1, !.scatter = scatter, !.stage = next]
    IN  /\ InList({"open", "item"})
        /\ Top.stage = "open" => cur # Bracket[Top.fn]
        /\ frames' = Front(frames) \o <<list, ExprCall(-1)>>
        /\ IF scatter THEN Advance ELSE UNCHANGED <<cur, read>>
        /\ UNCHANGED <<code, status>>

Colon ==
    /\ InList({"colon"})
    /\ IF cur # ":" THEN Fail
       ELSE /\ frames' = Front(frames) \o <<[Top EXCEPT !.stage = "after"], ExprCall(-1)>>
            /\ Advance /\ UNCHANGED <<code, status>>

(* The scattered argument has to be the last: found out one token later.    *)
Comma ==
    /\ InList({"after"}) /\ cur = ","
    /\ \E t \in Coming :
         /\ Comes(t)
         /\ IF Top.scatter THEN FailAt(t)
            ELSE /\ frames' = Front(frames) \o <<[Top EXCEPT !.stage = "item"]>>
                 /\ UNCHANGED <<code, status>>

NoComma ==
    InList({"after"}) /\ cur \notin {",", Bracket[Top.fn]} /\ Fail

-----------------------------------------------------------------------------
(* expr_or_assignment and the semicolon after it.                           *)

Done(instr) == /\ code' = Append(code, instr) /\ status' = "ok"
               /\ frames' = <<>> /\ UNCHANGED <<cur, read>>

PrintStmt == In("stmt") /\ Top.stage = "open" /\ cur = ";" /\ Done(At("Print", Here))

Target ==
    /\ In("stmt") /\ Top.stage = "open" /\ cur = "="
    /\ code' = Front(code)
    /\ frames' = <<[Call("stmt") EXCEPT !.stage = "value", !.load = Last(code).op],
                   ExprCall(-1)>>
    /\ Advance /\ UNCHANGED status

NoTarget == In("stmt") /\ Top.stage = "open" /\ cur \notin {";", "="} /\ Fail

(* load_to_store.                                                           *)
Stores == "LoadSymbolic" :> "StoreSymbolic" @@ "LoadAt" :> "StoreAt"

Assign ==
    /\ In("stmt") /\ Top.stage = "value"
    /\ IF Top.load \notin DOMAIN Stores THEN FailAt("=") /\ UNCHANGED <<cur, read>>
       ELSE IF cur # ";" THEN Fail
       ELSE Done(At(Stores[Top.load], Top.at))

Init ==
    /\ cur \in Tokens \ {";", "}"}
    /\ read = <<cur>>
    /\ frames = <<[Call("stmt") EXCEPT !.at = 0], [ExprCall(-1) EXCEPT !.at = 0]>>
    /\ code = <<>> /\ status = "parsing"

Next ==
    \/ Operand \/ OpenBracket \/ OpenBrace \/ OpenParen \/ Dot \/ Stop
    \/ UnaryBegin \/ BinaryBegin \/ UnaryEnd \/ BinaryEnd \/ GroupEnd \/ IndexEnd
    \/ Field \/ ListEnd \/ Item \/ Colon \/ Comma \/ NoComma
    \/ PrintStmt \/ Target \/ NoTarget \/ Assign

Spec == Init /\ [][Next]_vars

-----------------------------------------------------------------------------
(* The reference: the README's table of priorities and, from it, the code of
   the expression that a text s[i..j] is, found by where the text has to be
   split.                                                                   *)
Documented ==
    "~" :> 10 @@ "||" :> 11 @@ "&&" :> 12 @@ "|" :> 13 @@ "&" :> 14 @@ "^" :> 15
    @@ "==" :> 16 @@ "<" :> 17 @@ "<<" :> 18 @@ "-" :> 19 @@ "+" :> 19
    @@ "*" :> 20 @@ "/" :> 20 @@ "**" :> 21

Opens(t)  == t \in {"(", "[", "{"}
Closes(t) == t \in {")", "]", "}"}
DepthAt(s, i, k) ==     \* open brackets between i and k - 1
    Len(SelectSeq(SubSeq(s, i, k - 1), Opens)) - Len(SelectSeq(SubSeq(s, i, k - 1), Closes))

TopLevel(s, i, j, ts) == {k \in i..j : s[k] \in ts /\ DepthAt(s, i, k) = 0}

(* A binary operator follows a value.                                       *)
Splits(s, i, j) ==
    {k \in TopLevel(s, i, j, DOMAIN Documented) :
        k > i /\ (s[k - 1] \in {"name", "literal"} \/ Closes(s[k - 1]))}

(* The operator done last.                                                  *)
Split(s, i, j) ==
    LET lowest == Min({Documented[s[k]] : k \in Splits(s, i, j)})
        those  == {k \in Splits(s, i, j) : Documented[s[k]] = lowest}
    IN  IF lowest = Documented["**"] THEN Min(those) ELSE Max(those)

(* Where the bracket closed at j was opened; i - 1 if it was not.            *)
Opening(s, i, j) ==
    Max({m \in i..(j - 1) : Opens(s[m]) /\ DepthAt(s, m, j) = 1
                            /\ \A k \in (m + 1)..j : DepthAt(s, m, k) >= 1} \union {i - 1})

(* The texts between the separators of s[i..j], as <<first, last>>.          *)
Parts(s, i, j, sep) ==
    LET seps == SetToSortSeq(TopLevel(s, i, j, {sep}), <)
        cuts == <<i - 1>> \o seps \o <<j + 1>>
    IN  IF i > j THEN <<>>
        ELSE [k \in 1..(Len(cuts) - 1) |-> <<cuts[k] + 1, cuts[k + 1] - 1>>]

Pairs == {<<"(", ")">>, <<"[", "]">>, <<"{", "}">>}

IsExpr(s) ==
    LET is[i \in 1..(Len(s) + 1), j \in 0..Len(s)] ==
            LET m    == Opening(s, i, j)
                inner == Parts(s, m + 1, j - 1, ",")
                args == \A k \in DOMAIN inner :
                          \/ is[inner[k][1], inner[k][2]]
                          \/ /\ k = Len(inner) /\ inner[k][1] <= inner[k][2]
                             /\ s[inner[k][1]] = "*" /\ is[inner[k][1] + 1, inner[k][2]]
                items == \A k \in DOMAIN inner : is[inner[k][1], inner[k][2]]
                entries == \A k \in DOMAIN inner :
                             LET kv == Parts(s, inner[k][1], inner[k][2], ":")
                             IN  Len(kv) = 2 /\ is[kv[1][1], kv[1][2]]
                                             /\ is[kv[2][1], kv[2][2]]
            IN  IF i > j THEN FALSE
                ELSE IF Splits(s, i, j) # {}
                THEN LET k == Split(s, i, j) IN is[i, k - 1] /\ is[k + 1, j]
                ELSE IF s[i] \in DOMAIN Unary THEN is[i + 1, j]
                ELSE IF i = j THEN s[i] \in {"name", "literal"}
                ELSE IF s[j - 1] = "." THEN s[j] = "name" /\ is[i, j - 2]
                ELSE /\ Closes(s[j]) /\ m >= i /\ <<s[m], s[j]>> \in Pairs
                     /\ IF m = i
                        THEN CASE s[m] = "(" -> is[i + 1, j - 1]
                               [] s[m] = "[" -> items
                               [] s[m] = "{" -> entries
                        ELSE /\ is[i, m - 1]
                             /\ CASE s[m] = "(" -> args
                                  [] s[m] = "[" -> is[m + 1, j - 1]
                                  [] s[m] = "{" -> FALSE
    IN  is[1, Len(s)]

(* The postfix code of s, when it is an expression; `off` tokens precede it. *)
Postfix(s, off) ==
    LET tag(op, k) == At(op, off + k)
        post[i \in 1..(Len(s) + 1), j \in 0..Len(s)] ==
            LET m     == Opening(s, i, j)
                inner == Parts(s, m + 1, j - 1, ",")
                last  == inner[Len(inner)]
                scattered == inner # <<>> /\ m > i /\ s[m] = "(" /\ s[last[1]] = "*"
                items == FlattenSeq([k \in DOMAIN inner |->
                           post[IF scattered /\ k = Len(inner) THEN inner[k][1] + 1
                                ELSE inner[k][1], inner[k][2]]])
                entries == FlattenSeq([k \in DOMAIN inner |->
                             LET kv == Parts(s, inner[k][1], inner[k][2], ":")
                             IN  post[kv[1][1], kv[1][2]] \o post[kv[2][1], kv[2][2]]])
                listOf(op) == [tag(op, m) EXCEPT !.n = Len(inner), !.scatter = scattered]
            IN  IF Splits(s, i, j) # {}
                THEN LET k == Split(s, i, j)
                     IN  post[i, k - 1] \o post[k + 1, j] \o <<tag("Binary", k)>>
                ELSE IF s[i] \in DOMAIN Unary THEN post[i + 1, j] \o <<tag("Unary", i)>>
                ELSE IF i = j
                THEN <<tag(IF s[i] = "name" THEN "LoadSymbolic" ELSE "LoadConst", i)>>
                ELSE IF s[j - 1] = "."
                THEN post[i, j - 2] \o <<tag("LoadConst", j), tag("LoadAt", j)>>
                ELSE IF m = i
                THEN CASE s[m] = "(" -> post[i + 1, j - 1]
                       [] s[m] = "[" -> items \o <<listOf("List")>>
                       [] s[m] = "{" -> entries \o <<listOf("Dict")>>
                ELSE CASE s[m] = "(" -> post[i, m - 1] \o items \o <<listOf("Call")>>
                       [] s[m] = "[" -> post[i, m - 1] \o post[m + 1, j - 1]
                                          \o <<tag("LoadAt", m)>>
    IN  post[1, Len(s)]

(* A statement without its semicolon: an expression or target = expression.  *)
Equals(s) == SelectInSeq(s, LAMBDA t : t = "=")
Before(s) == SubSeq(s, 1, Equals(s) - 1)
Behind(s) == SubSeq(s, Equals(s) + 1, Len(s))

IsStatement(s) ==
    IF Equals(s) = 0 THEN IsExpr(s)
    ELSE /\ IsExpr(Before(s)) /\ IsExpr(Behind(s))
         /\ Last(Postfix(Before(s), 0)).op \in DOMAIN Stores

StatementCode(s) ==
    LET k == Equals(s)
        target == Postfix(Before(s), 0)
    IN  IF k = 0 THEN Append(Postfix(s, 0), At("Print", Len(s) + 1))
        ELSE Front(target) \o Postfix(Behind(s), k)
               \o <<At(Stores[Last(target).op], k)>>

-----------------------------------------------------------------------------
(* Properties.                                                              *)

(* "Operations with higher priority are done first", by the README's table
   and associativity, and an assignment's target is the name or the element
   its left-hand side denotes: what an accepted statement emits is the
   postfix form of the tree the README gives it.                            *)
GroupedAsDocumented ==
    status = "ok" => /\ IsStatement(Front(read))
                     /\ code = StatementCode(Front(read))

(* What is refused is no statement, nor can it become one: not the text
   read, and not the text continued by one of the endings.                  *)
NothingRefused ==
    status = "error" =>
        \A ending \in Endings :
            LET text == read \o ending
            IN  Last(text) = ";" => ~IsStatement(Front(text))
=============================================================================
