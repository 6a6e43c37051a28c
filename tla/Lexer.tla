-------------------------------- MODULE Lexer --------------------------------
(***************************************************************************)
(* The lexer (lexer.c): it hands out lexemes on demand, and puts in the      *)
(* semicolons that the source leaves out.  Whether a line break, a `}` or    *)
(* the end is inside an expression it learns from the brackets alone: `{`    *)
(* opens a block if a keyword was waiting for one at this level.            *)
(*                                                                         *)
(* A character stands for those the lexer treats alike.  Keywords are       *)
(* characters of their own: "if" for those with a block after them (if,      *)
(* elif, else, while, for, fun) and "nil" for the others.  An action is one  *)
(* iteration of the loop of lexer_next; positions count from 1.             *)
(***************************************************************************)
EXTENDS Integers, SequencesExt

CONSTANTS
    Chars,      \* bound: the characters of the source
    Limit       \* bound: Limit[c], how long a text with character c may be

VARIABLES
    text,       \* the source
    cur,        \* the position x->cur points to
    line, lineStart,
    levels, blocky, exprContext,        \* level_stack; blocky_level, -1 if none
    flag,       \* inserted_semicolon_flag
    out         \* history: the lexemes handed out; <<>> before lexer_new

layout == <<levels, blocky, exprContext, flag>>
vars == <<text, cur, line, lineStart, layout, out>>

Words   == {"if", "nil"}
Letters == {"a"} \union Words
Digits  == {"1"}

(* choice1223's b, c and d: what may follow a character.                    *)
Compound == [c \in {"&", ">", "+", "-", "="} |->
    CASE c \in {"+", "="} -> [b |-> "=", c |-> "none", d |-> "none"] \* = + ! % : ^ ~
      [] c = "-" -> [b |-> "=", c |-> ">", d |-> "none"]
      [] OTHER   -> [b |-> "=", c |-> c, d |-> "="]]          \* & | * / < >
Char == Letters \union Digits \union DOMAIN Compound
        \union {",", ".", "'", "quote", "\\", "\n", " ", "#", "?",
                "(", ")", "[", "]", "{", "}"}

Kind == {"number", "ident", "string", "op", "fake", "eof", "error",
         "if", "nil", "(", ")", "[", "]", "{", "}"}
Lexeme == [kind : Kind, start : Nat \ {0}, size : Nat,
           line : Nat \ {0}, column : Nat \ {0}]

ASSUME LexerAssumption == Chars \subseteq Char /\ Limit \in [Chars -> Nat]

-----------------------------------------------------------------------------
Started  == lineStart # 0
Finished == out # <<>> /\ Last(out).kind \in {"eof", "error"}
End      == Len(text) + 1
At(p)    == IF p < End THEN text[p] ELSE "end"
Seg(p, n) == SubSeq(text, p, p + n - 1)

(* The cached is_expr_context is right, and a semicolon put in is still in
   front of what it was put in for.                                         *)
TypeOK ==
    /\ text \in Seq(Char) /\ cur \in 1..End
    /\ line \in Nat \ {0} /\ lineStart \in 0..cur
    /\ levels \in Seq({"expr", "stmt"}) /\ blocky \in {-1} \union Nat
    /\ exprContext = (levels # <<>> /\ Last(levels) = "expr")
    /\ out \in Seq(Lexeme)
    /\ flag \in BOOLEAN
    /\ flag => /\ Last(out).kind = "fake" /\ Last(out).start = cur
               /\ At(cur) \in {"\n", "}", "end"} /\ ~exprContext

-----------------------------------------------------------------------------
(* make_lexeme: the n characters from cur on.                               *)
Emit(kind, n) ==
    /\ cur' = cur + n
    /\ out' = Append(out, [kind |-> kind, start |-> cur, size |-> n, line |-> line,
                           column |-> cur - lineStart + 1])
    /\ UNCHANGED <<text, line, lineStart>>

(* The first position after cur that is in S or, at the latest, the end.     *)
First(S) == Min({p \in S : p > cur} \union {End})

EndOfNumber ==
    First({p \in 1..Len(text) :
             \/ text[p] \notin Digits \union {"'", "."}
             \/ text[p] = "." /\ \E q \in (cur + 1)..(p - 1) : text[q] = "."})

EndOfIdentifier == First({p \in 1..Len(text) : text[p] \notin Letters \union Digits})

(* string's loop goes on at p: the position of what it stops at.             *)
StringStopUnescaped ==                                      \* mutant
    First({p \in 1..Len(text) : text[p] \in {"quote", "\n"}})
StringStop ==
    LET stop[p \in 1..(End + 1)] ==
            IF p >= End THEN End
            ELSE IF text[p] \in {"quote", "\n"} THEN p
            ELSE IF text[p] = "\\" THEN stop[p + 2]
            ELSE stop[p + 1]
    IN  stop[cur + 1]

SizeOfOperator ==
    LET follow == Compound[text[cur]]
    IN  IF At(cur + 1) = follow.b THEN 2
        ELSE IF At(cur + 1) # follow.c THEN 1
        ELSE IF At(cur + 2) = follow.d THEN 3 ELSE 2

-----------------------------------------------------------------------------
(* The stack of levels.                                                     *)
Push(level) ==
    levels' = Append(levels, level) /\ exprContext' = (level = "expr")

SetBlocky == blocky' = Len(levels)

PushBlockyKept ==                       \* mutant: the block is waited for on
    /\ Push(IF blocky = Len(levels) THEN "stmt" ELSE "expr")
    /\ UNCHANGED blocky
PushBlocky ==
    /\ Push(IF blocky = Len(levels) THEN "stmt" ELSE "expr")
    /\ blocky' = IF blocky = Len(levels) THEN -1 ELSE blocky

PopUncached ==                          \* mutant: is_expr_context stays
    /\ levels' = SubSeq(levels, 1, Len(levels) - 1)
    /\ UNCHANGED <<exprContext, blocky>>
Pop ==
    IF levels = <<>> THEN UNCHANGED <<levels, exprContext, blocky>>
    ELSE /\ levels' = Front(levels)
         /\ exprContext' = (levels' # <<>> /\ Last(levels') = "expr")
         /\ UNCHANGED blocky

(* What insert_semicolon answers; it resets the flag when the flag made it
   say no, and the code then goes past what the semicolon is for.            *)
Inserts == ~exprContext /\ ~flag
Resets  == flag' = IF exprContext THEN flag ELSE FALSE

-----------------------------------------------------------------------------
(* The source that is read, and lexer_new.                                  *)
Init ==
    /\ text = <<>> /\ cur = 1 /\ line = 1 /\ lineStart = 0
    /\ levels = <<>> /\ blocky = -1 /\ exprContext = FALSE /\ flag = FALSE
    /\ out = <<>>

Type ==
    /\ ~Started
    /\ \E c \in Chars : /\ \A d \in ToSet(text) \union {c} : Len(text) < Limit[d]
                        /\ text' = Append(text, c)
    /\ UNCHANGED <<cur, line, lineStart, layout, out>>

Begin ==
    /\ ~Started
    /\ lineStart' = 1
    /\ UNCHANGED <<text, cur, line, layout, out>>

-----------------------------------------------------------------------------
(* lexer_next is called until there is no more or it fails.                 *)
Asked(S) == Started /\ ~Finished /\ At(cur) \in S

FakeSemicolon ==
    /\ Asked({"\n", "}", "end"}) /\ Inserts
    /\ flag' = TRUE
    /\ Emit("fake", 0)
    /\ UNCHANGED <<levels, blocky, exprContext>>

Ends ==
    /\ Asked({"end"}) /\ ~Inserts
    /\ Resets
    /\ Emit("eof", 0)
    /\ UNCHANGED <<levels, blocky, exprContext>>

LineBreakSameLine ==                    \* mutant: the line begins where it did
    /\ Asked({"\n"}) /\ ~Inserts
    /\ Resets
    /\ cur' = cur + 1 /\ line' = line + 1
    /\ UNCHANGED <<text, lineStart, levels, blocky, exprContext, out>>
LineBreak ==
    /\ Asked({"\n"}) /\ ~Inserts
    /\ Resets
    /\ cur' = cur + 1 /\ line' = line + 1 /\ lineStart' = cur + 1
    /\ UNCHANGED <<text, levels, blocky, exprContext, out>>

Blank ==
    /\ Asked({" "})
    /\ cur' = cur + 1
    /\ UNCHANGED <<text, line, lineStart, layout, out>>

Comment ==
    /\ Asked({"#"})
    /\ cur' = First({p \in 1..Len(text) : text[p] = "\n"})
    /\ UNCHANGED <<text, line, lineStart, layout, out>>

Number ==
    /\ Asked(Digits)
    /\ Emit("number", EndOfNumber - cur)
    /\ UNCHANGED layout

Identifier ==
    /\ Asked(Letters)
    /\ LET n == EndOfIdentifier - cur
           keyword == n = 1 /\ text[cur] \in Words
       IN  /\ Emit(IF keyword THEN text[cur] ELSE "ident", n)
           /\ IF keyword /\ text[cur] = "if" THEN SetBlocky ELSE UNCHANGED blocky
    /\ UNCHANGED <<levels, exprContext, flag>>

String ==
    /\ Asked({"quote"})
    /\ IF At(StringStop) = "quote" THEN Emit("string", StringStop + 1 - cur)
       ELSE /\ cur' = StringStop        \* make_error_advance(x, ..., 0)
            /\ out' = Append(out, [kind |-> "error", start |-> StringStop, size |-> 0,
                                   line |-> line, column |-> StringStop - lineStart + 1])
            /\ UNCHANGED <<text, line, lineStart>>
    /\ UNCHANGED layout

Operator ==
    /\ Asked(DOMAIN Compound \union {",", "."})
    /\ Emit("op", IF At(cur) \in DOMAIN Compound THEN SizeOfOperator ELSE 1)
    /\ UNCHANGED layout

Open ==
    /\ Asked({"(", "["})
    /\ Push("expr")
    /\ Emit(At(cur), 1)
    /\ UNCHANGED <<blocky, flag>>

OpenBrace ==
    /\ Asked({"{"})
    /\ PushBlocky
    /\ Emit("{", 1)
    /\ UNCHANGED flag

Close ==
    /\ Asked({")", "]"})
    /\ Pop
    /\ Emit(At(cur), 1)
    /\ UNCHANGED flag

CloseBrace ==
    /\ Asked({"}"}) /\ ~Inserts
    /\ Resets
    /\ Pop
    /\ Emit("}", 1)

Unexpected ==
    /\ Asked({"?", "'", "\\"})
    /\ Emit("error", 1)
    /\ UNCHANGED layout

Next ==
    \/ Type \/ Begin
    \/ FakeSemicolon \/ Ends \/ LineBreak \/ Blank \/ Comment
    \/ Number \/ Identifier \/ String \/ Operator \/ Unexpected
    \/ Open \/ OpenBrace \/ Close \/ CloseBrace

Spec == Init /\ [][Next]_vars

-----------------------------------------------------------------------------
(* The README's rule, told from brackets that match: a stack of what is open
   before the n-th lexeme, or <<"bad">> where no program begins like this.   *)
Opened(stack, kind) ==
    LET top == IF stack = <<>> THEN "block" ELSE Last(stack)
        closes(tops) == IF stack # <<>> /\ top \in tops THEN Front(stack) ELSE <<"bad">>
    IN  IF stack = <<"bad">> THEN stack
        ELSE CASE kind = "if"         -> IF top = "block" THEN Append(stack, "head")
                                         ELSE <<"bad">>
               [] kind \in {"(", "["} -> Append(stack, kind)
               [] kind = "{"          -> IF top = "head" THEN Append(Front(stack), "block")
                                         ELSE Append(stack, "dict")
               [] kind = ")"          -> closes({"("})
               [] kind = "]"          -> closes({"["})
               [] kind = "}"          -> closes({"dict", "block"})
               [] OTHER               -> stack

Opens(lexemes) ==
    LET before[n \in 1..(Len(lexemes) + 1)] ==
            IF n = 1 THEN <<>> ELSE Opened(before[n - 1], lexemes[n - 1].kind)
    IN  before

(* What is open at position p, a head being part of what it stands in.       *)
OpenAt(p) ==
    LET stack == Opens(out)[1 + Cardinality({i \in DOMAIN out : out[i].start < p})]
    IN  IF stack # <<>> /\ Last(stack) = "head" THEN Front(stack) ELSE stack

Outside(p) == OpenAt(p) = <<>> \/ Last(OpenAt(p)) = "block"
Inside(p)  == OpenAt(p) # <<>> /\ Last(OpenAt(p)) \in {"(", "[", "dict"}

Within(p, i) == p \in out[i].start..(out[i].start + out[i].size - 1)
Passed(p)  == IF Finished THEN Last(out).kind = "eof" ELSE p < cur

(* A place of README.md:602-607 the lexer has gone past.                     *)
Place(p) ==
    /\ Passed(p)
    /\ \/ At(p) = "end"
       \/ At(p) = "\n" /\ ~\E i \in DOMAIN out : Within(p, i)
       \/ \E i \in DOMAIN out : out[i].kind = "}" /\ out[i].start = p

FakesAt(p) == {i \in DOMAIN out : out[i].kind = "fake" /\ out[i].start = p}

(* Semicolons are put in before a line break, a `}` and the end that are
   outside of an expression: one each, and nowhere else (insert_semicolon and
   level_stack against the documented rule).                                *)
SemicolonsAsDocumented ==
    \A p \in 1..cur :
        /\ Place(p) /\ Outside(p) => Cardinality(FakesAt(p)) = 1
        /\ Place(p) /\ Inside(p) => FakesAt(p) = {}
        /\ Passed(p) /\ ~Place(p) => FakesAt(p) = {}

(* The words of the language that begin with character c.                    *)
Spelled(kind, s) ==
    CASE kind = "number" ->
            /\ s[1] \in Digits /\ ToSet(s) \subseteq Digits \union {"'", "."}
            /\ Cardinality({i \in DOMAIN s : s[i] = "."}) <= 1
      [] kind \in {"ident", "if", "nil"} ->
            /\ s[1] \in Letters /\ ToSet(s) \subseteq Letters \union Digits
            /\ (kind # "ident") = (s \in {<<w>> : w \in Words})
            /\ kind \in Words => s = <<kind>>
      [] kind = "op" ->
            s \in {<<"=">>, <<"=", "=">>, <<",">>, <<".">>, <<"+">>, <<"+", "=">>,
                   <<"-">>, <<"-", "=">>, <<"-", ">">>}
                  \union UNION {{<<c>>, <<c, "=">>, <<c, c>>, <<c, c, "=">>} :
                                c \in {"&", ">"}}
      [] OTHER -> s = <<kind>>

(* A quote that an even number of backslashes stands before closes.          *)
Closes(s, n) ==
    /\ s[n] = "quote"
    /\ Cardinality({m \in 2..(n - 1) : \A k \in m..(n - 1) : s[k] = "\\"}) % 2 = 0

Ignored(i) == \A p \in (IF i = 1 THEN 1 ELSE out[i - 1].start + out[i - 1].size)
                        ..(out[i].start - 1) :
                \/ At(p) \in {" ", "\n"}
                \/ \E q \in 1..p : At(q) = "#" /\ "\n" \notin ToSet(SubSeq(text, q, p))

(* The source is cut into the longest words of the language, and nothing but
   blanks and comments is left out (number, identifier, string, choice1223).
   A string ends at its first quote that is not escaped.                     *)
LongestWords ==
    \A i \in DOMAIN out :
        LET l == out[i]
            s == Seg(l.start, l.size)
        IN  /\ l.kind \notin {"error"} => Ignored(i)
            /\ l.kind \notin {"fake", "eof", "error", "string"} =>
                /\ Spelled(l.kind, s)
                /\ ~\E n \in (l.size + 1)..(Len(text) + 1 - l.start),
                       k \in {l.kind, "ident"} : Spelled(k, Seg(l.start, n))
            /\ l.kind = "string" =>
                /\ l.size > 1 /\ s[1] = "quote"
                /\ {n \in 2..l.size : Closes(s, n)} = {l.size}

(* A lexeme's line and column are what an editor shows, up to a string with a
   line break in it, which add_string_const refuses before the parser asks for
   more: error messages and the lines kept for the code (emit_at) use them.  *)
PositionsRight ==
    \A i \in DOMAIN out :
        LET before == {p \in 1..(out[i].start - 1) : text[p] = "\n"}
        IN  (\A p \in before, j \in DOMAIN out : ~Within(p, j)) /\ out[i].kind # "error" =>
                /\ out[i].line = Cardinality(before) + 1
                /\ out[i].column = out[i].start - Max(before \union {0})
=============================================================================
