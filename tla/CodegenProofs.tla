--------------------------- MODULE CodegenProofs ---------------------------
(***************************************************************************)
(* Proofs about Codegen, for every set of identifiers and sources of every *)
(* length: its types, that every name of a function ends up as the local   *)
(* or the global it stands for, and that find_quark finds every line.      *)
(***************************************************************************)
EXTENDS Codegen, FiniteSetTheorems, SequenceTheorems, WellFoundedInduction, TLAPS

Which == {"if", "break", "continue"}

-----------------------------------------------------------------------------
(* The inductive invariant.  While a source is being parsed, entry k of the
   open constructs t is in the scope of index sc[k] and in the function of
   shape own[k].                                                             *)
Scoped(t, nsc, nsh, sc, own) ==
    /\ Len(t) > 0 /\ t[1].kind = "fun" /\ sc[1] = 1 /\ sc[Len(t)] = nsc
    /\ sc \in [1..Len(t) -> 1..nsc] /\ own \in [1..Len(t) -> 1..nsh]
    /\ \A k \in 2..Len(t) : t[k].kind = "fun" => sc[k] = sc[k - 1] + 1
    /\ \A k, l \in 1..Len(t) : k < l =>
          IF \E j \in (k + 1)..l : t[j].kind = "fun"
          THEN sc[k] < sc[l] /\ own[k] < own[l]
          ELSE sc[k] = sc[l] /\ own[k] = own[l]

Jumps(p) == {i \in 1..Len(p) : p[i].op \in {"Jump", "JumpUnless"} /\ p[i].name = NoName}

(* They are in the order of their positions, and so is what they have noted. *)
Placed(p, t) ==
    /\ \A k \in 1..Len(t) : /\ t[k].begin \in 1..(Len(p) + 1)
                            /\ t[k].jump # NoPos => t[k].jump \in Jumps(p)
    /\ \A k \in 1..Len(t) : t[k].kind = "for" =>
          /\ t[k].piece = 2 /\ t[k].begin <= t[k].i1
          /\ t[k].i1 <= t[k].i2 /\ t[k].i2 <= Len(p) + 1
    /\ \A k, l \in 1..Len(t) : k < l =>
          /\ t[k].begin <= t[l].begin /\ t[k].jump < t[l].begin
          /\ t[k].kind = "fun" => t[k].begin < t[l].begin
          /\ t[k].kind = "for" => t[k].i2 <= t[l].begin

(* The jumps in stack s to be patched are jumps, those below entry k, up to
   g[k], ahead of it.                                                        *)
MarkedBy(w) == IF w = "if" THEN {"fun", "if"} ELSE {"fun", "while", "for"}
Closing(w)  == IF w = "if" THEN {"fun", "while", "for"} ELSE {"fun"}
Stacked(p, t, w, s, g) ==
    /\ g \in [1..Len(t) -> 0..Len(s)]
    /\ \A j \in 1..Len(s) : s[j] >= 0 => s[j] \in Jumps(p)
    /\ \A k \in 1..Len(t), j \in 1..Len(s) : j <= g[k] => s[j] < t[k].begin
    /\ \A k \in 1..Len(t) : t[k].kind \in MarkedBy(w) =>
          g[k] > 0 /\ s[g[k]] = IF t[k].kind = "fun" THEN NoPos ELSE Begins
    /\ \A k, l \in 1..Len(t) : k < l =>
          g[k] <= g[l] /\ (t[l].kind \in MarkedBy(w) => g[k] < g[l])
    /\ \A j \in 1..Len(s) : s[j] = Begins =>
          \E k \in 1..Len(t) : t[k].kind \in MarkedBy(w) /\ j = g[k]
    /\ \A k \in 1..Len(t), j \in 1..Len(s) : t[k].kind \in Closing(w) /\ j > g[k] =>
          \E l \in 1..Len(t) : l > k /\ t[l].kind \in MarkedBy(w) /\ g[l] <= j

(* An open function begins with the instruction that makes it, and all that
   has been emitted since is its own code or that of functions within it.    *)
Owned(p, t, sh, own) ==
    /\ \A i \in 1..Len(p) : p[i].fn <= Len(sh)
    /\ \A k \in 1..Len(t) : t[k].kind = "fun" =>
          /\ t[k].begin <= Len(p) /\ p[t[k].begin].op = "Function"
          /\ p[t[k].begin].c = own[k] /\ sh[own[k]].offset = 0
          /\ \A i \in 1..Len(p) :
                IF i > t[k].begin THEN p[i].fn >= own[k] ELSE p[i].fn < own[k]

(* RangesMoved, of any code.                                                 *)
InPiece(instr, of, piece) ==
    \E e \in ToSet(instr.path) : e.of = of /\ e.piece = piece
Moved(p, f) ==
    \E i, j \in 1..Len(p) : \E n \in Nat :
        /\ p[i].fn = f /\ p[i].op = "Function" /\ p[j].fn = f
        /\ InPiece(p[i], n, 2) /\ InPiece(p[j], n, 3)

(* The ranges of the open scopes are where the code of their functions is.   *)
Ranged(p, rs, t, nsc, sc) ==
    /\ Len(rs) > 0 /\ rs[Len(rs)].scope = nsc
    /\ \A m \in 1..Len(rs) : (rs[m].end = NoPos) <=> (m = Len(rs))
    /\ \A m, n \in 1..Len(rs) : m < n => rs[m].scope <= rs[n].scope
    /\ \A m \in 1..Len(rs) : rs[m].begin <= Len(p) + 1
    /\ \A m \in 1..Len(rs), k \in 1..Len(t) :
          t[k].kind = "fun" /\ rs[m].scope = sc[k] => rs[m].begin > t[k].begin
CoveredBy(p, rs, f, s) ==
    \A i \in 1..Len(p) : p[i].fn = f =>
        \E m \in 1..Len(rs) : /\ rs[m].scope = s /\ rs[m].begin <= i
                              /\ i < rs[m].end \/ rs[m].end = NoPos
Covering(p, rs, t, sc, own) ==
    \A k \in 1..Len(t) : Moved(p, own[k]) \/ CoveredBy(p, rs, own[k], sc[k])

(* A for loop whose body defines a function: its post clause will move the
   code of that function.                                                    *)
Defines(p, t, k, f) ==
    \E i \in 1..Len(p) : /\ i >= t[k].i2 /\ p[i].fn = f /\ p[i].op = "Function"
                         /\ InPiece(p[i], t[k].of, 2)
Looped(p, rs, t, sc, own) ==
    \A k \in 1..Len(t) : t[k].kind = "for" =>
        /\ \A i \in 1..Len(p) : t[k].i1 <= i /\ i < t[k].i2 =>
              p[i].fn = own[k] /\ InPiece(p[i], t[k].of, 3)
        /\ \/ Defines(p, t, k, own[k])
           \/ /\ \A l \in 1..Len(t) : l > k => t[l].kind # "fun"
              /\ \A m \in 1..Len(rs) : rs[m].scope = sc[k] => rs[m].begin <= t[k].i1

(* Names of open functions are symbolic, or the locals they declare.         *)
Named(p, ss, t, sc, own) ==
    /\ \A s \in 1..Len(ss) : Distinct(ss[s])
    /\ \A k \in 1..Len(t), i \in 1..Len(p) :
          p[i].fn = own[k] /\ p[i].name # NoName =>
             \/ p[i].op \in Symbolic
             \/ /\ p[i].op = "StoreLocal" /\ p[i].name \in ToSet(ss[sc[k]])
                /\ p[i].c = IndexIn(ss[sc[k]], p[i].name)

(* Those of closed functions are settled.                                    *)
Settled(instr, names, gs) ==
    IF instr.name \in ToSet(names)
    THEN /\ instr.op \in {"LoadLocal", "StoreLocal", "ModifyLocal"}
         /\ instr.c = IndexIn(names, instr.name)
    ELSE /\ instr.op \in {"LoadGlobal", "StoreGlobal", "ModifyGlobal"}
         /\ instr.c \in 0..(Len(gs) - 1) /\ gs[instr.c + 1] = instr.name
Resolution(p, sh, gs) ==
    \A f \in 1..Len(sh) : sh[f].offset > 0 /\ ~Moved(p, f) =>
        \A i \in 1..Len(p) : p[i].fn = f /\ p[i].name # NoName =>
            Settled(p[i], sh[f].names, gs)

Symbols(p) == \A i \in 1..Len(p) : p[i].op \in Symbolic => p[i].name # NoName

Built(p, t, st, sh, ss, rs, sc, own, h) ==
    /\ Scoped(t, Len(ss), Len(sh), sc, own) /\ Placed(p, t)
    /\ \A w \in Which : Stacked(p, t, w, st[w], h[w])
    /\ Owned(p, t, sh, own) /\ Ranged(p, rs, t, Len(ss), sc)
    /\ Covering(p, rs, t, sc, own) /\ Looped(p, rs, t, sc, own)
    /\ Named(p, ss, t, sc, own)
    /\ \A k \in 2..Len(t) : t[k].kind = "fun" => t[k].name # NoName

IInv ==
    /\ TypeOK /\ Distinct(globals) /\ Symbols(prog)
    /\ Resolution(prog, shapes, globals)
    /\ Parsing => \E sc, own, h :
                     Built(prog, todo, stacks, shapes, scopes, ranges, sc, own, h)
-----------------------------------------------------------------------------
(* Greatest numbers, and the ends of sequences.                              *)

LEMMA LeastNat ==
    ASSUME NEW S, S \subseteq Nat, S # {}
    PROVE  \E n \in S : \A m \in S : n <= m
<1>1. IsWellFoundedOn(OpToRel(<, Nat), Nat)
    BY NatLessThanWellFounded
<1>2. PICK n \in S : \A m \in S : ~ (<< m, n >> \in OpToRel(<, Nat))
    BY <1>1, WFMin
<1>3. \A m \in S : ~ (m < n)
    BY <1>2 DEF OpToRel
<1>. QED  BY <1>3

LEMMA MaxIs ==
    ASSUME NEW S, S \subseteq Int, NEW n \in S, \A m \in S : m <= n
    PROVE  Max(S) = n
<1>1. n \in S /\ \A m \in S : n >= m
    OBVIOUS
<1>2. Max(S) \in S /\ \A m \in S : Max(S) >= m
    BY <1>1 DEF Max
<1>3. Max(S) \in Int /\ n \in Int /\ Max(S) >= n /\ n >= Max(S)
    BY <1>1, <1>2
<1>. QED  BY <1>3

LEMMA MaxExists ==
    ASSUME NEW N \in Nat, NEW S, S \subseteq 0..N, S # {}
    PROVE  Max(S) \in S /\ \A m \in S : m <= Max(S)
<1>. DEFINE T == {N - m : m \in S}
<1>1. T \subseteq Nat /\ T # {}
    <2>1. PICK x : x \in S
        OBVIOUS
    <2>2. N - x \in T
        BY <2>1
    <2>3. \A m \in 0..N : N - m \in Nat
        OBVIOUS
    <2>. QED  BY <2>2, <2>3
<1>2. PICK n \in T : \A m \in T : n <= m
    <2>. HIDE DEF T
    <2>. QED  BY <1>1, LeastNat
<1>3. PICK x \in S : n = N - x
    BY <1>2
<1>4. \A m \in S : m <= x
    <2>. TAKE m \in S
    <2>1. N - m \in T
        OBVIOUS
    <2>2. n <= N - m
        BY <1>2, <2>1
    <2>3. n \in Int /\ m \in Int /\ x \in Int
        BY <1>3
    <2>. QED  BY <1>3, <2>2, <2>3
<1>5. x \in S /\ S \subseteq Int
    BY <1>3
<1>. QED  BY <1>4, <1>5, MaxIs

LEMMA EndsAre ==
    ASSUME NEW S, NEW s \in Seq(S), Len(s) > 0
    PROVE  /\ Last(s) = s[Len(s)] /\ Last(s) \in S
           /\ Front(s) \in Seq(S) /\ Len(Front(s)) = Len(s) - 1
           /\ \A i \in 1..(Len(s) - 1) : Front(s)[i] = s[i]
<1>1. Len(s) \in Nat /\ \A i \in 1..Len(s) : s[i] \in S
    BY LenProperties, ElementOfSeq
<1>2. \A i \in 1..(Len(s) - 1) : s[i] \in S
    BY <1>1
<1>3. /\ SubSeq(s, 1, Len(s) - 1) \in Seq(S)
      /\ Len(SubSeq(s, 1, Len(s) - 1)) = IF 1 <= Len(s) - 1 THEN Len(s) - 1 - 1 + 1 ELSE 0
      /\ \A i \in 1..(Len(s) - 1 - 1 + 1) : SubSeq(s, 1, Len(s) - 1)[i] = s[1 + i - 1]
    <2>1. 1 \in Int /\ Len(s) - 1 \in Int
        BY <1>1
    <2>. QED  BY <1>2, <2>1, SubSeqProperties
<1>4. Len(SubSeq(s, 1, Len(s) - 1)) = Len(s) - 1
    <2>1. PICK r, n : r = Len(SubSeq(s, 1, Len(s) - 1)) /\ n = Len(s)
        OBVIOUS
    <2>2. n \in Nat /\ n > 0 /\ r = IF 1 <= n - 1 THEN n - 1 - 1 + 1 ELSE 0
        BY <1>1, <1>3, <2>1
    <2>3. r = n - 1
        BY <2>2
    <2>. QED  BY <2>1, <2>3
<1>5. \A i \in 1..(Len(s) - 1) : SubSeq(s, 1, Len(s) - 1)[i] = s[i]
    BY <1>1, <1>3
<1>. QED  BY <1>1, <1>3, <1>4, <1>5 DEF Last, Front

LEMMA FrontThen ==
    ASSUME NEW S, NEW s \in Seq(S), Len(s) > 0, NEW e \in S
    PROVE  /\ Front(s) \o <<e>> \in Seq(S) /\ Len(Front(s) \o <<e>>) = Len(s)
           /\ \A i \in 1..Len(s) : (Front(s) \o <<e>>)[i] = IF i = Len(s) THEN e ELSE s[i]
<1>1. PICK r : r = Front(s)
    OBVIOUS
<1>2. /\ r \in Seq(S) /\ Len(r) = Len(s) - 1
      /\ \A i \in 1..(Len(s) - 1) : r[i] = s[i]
    BY <1>1, EndsAre
<1>3. Len(s) \in Nat /\ <<e>> \in Seq(S) /\ Len(<<e>>) = 1 /\ <<e>>[1] = e
    BY LenProperties
<1>4. /\ r \o <<e>> \in Seq(S) /\ Len(r \o <<e>>) = Len(r) + Len(<<e>>)
      /\ \A i \in 1..(Len(r) + Len(<<e>>)) :
            (r \o <<e>>)[i] = IF i <= Len(r) THEN r[i] ELSE <<e>>[i - Len(r)]
    BY <1>2, <1>3, ConcatProperties
<1>5. ASSUME NEW i \in 1..Len(s)
      PROVE  (r \o <<e>>)[i] = IF i = Len(s) THEN e ELSE s[i]
    <2>1. CASE i = Len(s)
        BY <1>2, <1>3, <1>4, <2>1
    <2>2. CASE i # Len(s)
        <3>1. i \in 1..(Len(s) - 1) /\ i <= Len(r)
            BY <1>2, <1>3, <2>2
        <3>. QED  BY <1>2, <1>3, <1>4, <2>2, <3>1
    <2>. QED  BY <2>1, <2>2
<1>. QED  BY <1>1, <1>2, <1>3, <1>4, <1>5

-----------------------------------------------------------------------------
(* Code: what the templates are made of, and what is emitted.                *)
BareInstr == [op : Ops, c : Int, name : Ident \union {NoName}]

(* b fits a function with these names declared so far.                       *)
Fits(b, names) ==
    /\ b.op # "Function"
    /\ b.op \in Symbolic => b.name # NoName
    /\ b.name # NoName =>
          \/ b.op \in Symbolic
          \/ /\ b.op = "StoreLocal" /\ b.name \in ToSet(names)
             /\ b.c = IndexIn(names, b.name)
Loads == {b \in BareInstr : b.op # "Function"
             /\ (b.name # NoName <=> b.op = "LoadSymbolic")
             /\ (b.op \in Symbolic => b.op = "LoadSymbolic")}

LEMMA CodeIs ==
    ASSUME NEW e \in Expr \union {NoExpr}
    PROVE  Code(e) \in Seq(Loads) /\ (e \in Expr => Len(Code(e)) > 0)
<1>. USE CodegenAssumption
<1>1. /\ Bare("LoadConst", 0) \in Loads /\ Bare("Neg", 0) \in Loads
      /\ Bare("Aop", 0) \in Loads /\ Bare("LoadAt", 0) \in Loads
      /\ Bare("Call", 1) \in Loads /\ Bare("List", 2) \in Loads
    BY DEF Loads, BareInstr, Bare, Ops, Symbolic
<1>2. Const \in Seq(Loads) /\ Len(Const) = 1
    BY <1>1 DEF Const
<1>3. ASSUME e.name \in Ident
      PROVE  Load(e.name) \in Seq(Loads) /\ Len(Load(e.name)) = 1
    <2>1. [op |-> "LoadSymbolic", c |-> 0, name |-> e.name] \in Loads
        BY <1>3 DEF Loads, BareInstr, Ops, Symbolic
    <2>. QED  BY <2>1 DEF Load
<1>4. CASE e = NoExpr
    <2>1. Code(e) = <<>>
        BY <1>4 DEF Code, NoExpr
    <2>2. e \notin Expr
        BY <1>4 DEF NoExpr, Expr
    <2>. QED  BY <2>1, <2>2
<1>5. CASE e \in [is : {"const", "list"}, name : {NoName}]
    <2>1. CASE e.is = "const"
        BY <1>2, <2>1 DEF Code
    <2>2. CASE e.is = "list"
        <3>1. Code(e) = Const \o Const \o <<Bare("List", 2)>>
            BY <2>2 DEF Code
        <3>2. <<Bare("List", 2)>> \in Seq(Loads) /\ Len(<<Bare("List", 2)>>) = 1
            BY <1>1
        <3>3. Const \o Const \in Seq(Loads) /\ Len(Const \o Const) = 2
            BY <1>2, ConcatProperties
        <3>4. Code(e) \in Seq(Loads) /\ Len(Code(e)) = 2 + 1
            BY <3>1, <3>2, <3>3, ConcatProperties
        <3>. QED  BY <3>4
    <2>. QED  BY <1>5, <2>1, <2>2
<1>6. CASE e \in [is : {"name", "neg", "sum", "item", "call"}, name : Ident]
    <2>1. Load(e.name) \in Seq(Loads) /\ Len(Load(e.name)) = 1
        BY <1>3, <1>6
    <2>2. \A b \in Loads : <<b>> \in Seq(Loads) /\ Len(<<b>>) = 1
        OBVIOUS
    <2>3. /\ Load(e.name) \o Const \in Seq(Loads) /\ Len(Load(e.name) \o Const) = 2
          /\ Load(e.name) \o Load(e.name) \in Seq(Loads)
          /\ Len(Load(e.name) \o Load(e.name)) = 2
        BY <1>2, <2>1, ConcatProperties
    <2>4. CASE e.is = "name"
        BY <2>1, <2>4 DEF Code
    <2>5. CASE e.is = "neg"
        <3>1. Code(e) = Load(e.name) \o <<Bare("Neg", 0)>>
            BY <2>5 DEF Code
        <3>2. Code(e) \in Seq(Loads) /\ Len(Code(e)) = 1 + 1
            BY <1>1, <2>1, <2>2, <3>1, ConcatProperties
        <3>. QED  BY <3>2
    <2>6. CASE e.is = "sum"
        <3>1. Code(e) = Load(e.name) \o Const \o <<Bare("Aop", 0)>>
            BY <2>6 DEF Code
        <3>2. Code(e) \in Seq(Loads) /\ Len(Code(e)) = 2 + 1
            BY <1>1, <2>2, <2>3, <3>1, ConcatProperties
        <3>. QED  BY <3>2
    <2>7. CASE e.is = "item"
        <3>1. Code(e) = Load(e.name) \o Const \o <<Bare("LoadAt", 0)>>
            BY <2>7 DEF Code
        <3>2. Code(e) \in Seq(Loads) /\ Len(Code(e)) = 2 + 1
            BY <1>1, <2>2, <2>3, <3>1, ConcatProperties
        <3>. QED  BY <3>2
    <2>8. CASE e.is = "call"
        <3>1. Code(e) = Load(e.name) \o Load(e.name) \o <<Bare("Call", 1)>>
            BY <2>8 DEF Code
        <3>2. Code(e) \in Seq(Loads) /\ Len(Code(e)) = 2 + 1
            BY <1>1, <2>2, <2>3, <3>1, ConcatProperties
        <3>. QED  BY <3>2
    <2>. QED  BY <1>6, <2>4, <2>5, <2>6, <2>7, <2>8
<1>. QED  BY <1>4, <1>5, <1>6 DEF Expr

Goal == [of : Nat, piece : Nat]

LEMMA PathIs ==
    ASSUME NEW open \in Seq(Open)
    PROVE  /\ PathOf(open) \in Seq(Goal) /\ Len(PathOf(open)) = Len(open)
           /\ \A k \in 1..Len(open) :
                PathOf(open)[k].of = open[k].of /\ PathOf(open)[k].piece = open[k].piece
<1>1. Len(open) \in Nat /\ \A k \in 1..Len(open) : open[k] \in Open
    BY LenProperties, ElementOfSeq
<1>2. \A k \in 1..Len(open) : [of |-> open[k].of, piece |-> open[k].piece] \in Goal
    BY <1>1 DEF Open, Goal
<1>3. PICK r : r = [k \in 1..Len(open) |-> [of |-> open[k].of, piece |-> open[k].piece]]
    OBVIOUS
<1>4. r \in [1..Len(open) -> Goal]
    BY <1>2, <1>3
<1>5. r \in Seq(Goal) /\ Len(r) = Len(open)
    BY <1>1, <1>4
<1>6. \A k \in 1..Len(open) : r[k].of = open[k].of /\ r[k].piece = open[k].piece
    BY <1>3
<1>. QED  BY <1>3, <1>5, <1>6 DEF PathOf

Emitted(p, code, fn, open, q) ==
    /\ q \in Seq(Instr) /\ Len(q) = Len(p) + Len(code)
    /\ \A i \in 1..Len(p) : q[i] = p[i]
    /\ \A i \in 1..Len(code) :
         /\ q[Len(p) + i].op = code[i].op /\ q[Len(p) + i].c = code[i].c
         /\ q[Len(p) + i].name = code[i].name /\ q[Len(p) + i].fn = fn
         /\ q[Len(p) + i].path = PathOf(open)

LEMMA EmitIs ==
    ASSUME NEW p \in Seq(Instr), NEW code \in Seq(BareInstr), NEW fn \in Nat,
           NEW open \in Seq(Open), NEW goal \in Goal, NEW ln \in Nat
    PROVE  Emitted(p, code, fn, open, EmitAt(p, code, fn, open, goal, ln))
<1>1. Len(code) \in Nat /\ \A i \in 1..Len(code) : code[i] \in BareInstr
    BY LenProperties, ElementOfSeq
<1>2. PICK path : path = PathOf(open)
    OBVIOUS
<1>3. path \in Seq(Goal)
    BY <1>2, PathIs
<1>4. PICK r : r = [i \in 1..Len(code) |->
            [op |-> code[i].op, c |-> code[i].c, name |-> code[i].name,
             line |-> ln, fn |-> fn, path |-> path, goal |-> goal]]
    OBVIOUS
<1>5. \A i \in 1..Len(code) : [op |-> code[i].op, c |-> code[i].c, name |-> code[i].name,
             line |-> ln, fn |-> fn, path |-> path, goal |-> goal] \in Instr
    BY <1>1, <1>3 DEF BareInstr, Instr, Goal
<1>6. r \in [1..Len(code) -> Instr]
    BY <1>4, <1>5
<1>7. r \in Seq(Instr) /\ Len(r) = Len(code)
    BY <1>1, <1>6
<1>8. Len(p) \in Nat
    BY LenProperties
<1>9. PICK q : q = p \o r
    OBVIOUS
<1>10. /\ q \in Seq(Instr) /\ Len(q) = Len(p) + Len(code)
       /\ \A i \in 1..(Len(p) + Len(code)) : q[i] = IF i <= Len(p) THEN p[i] ELSE r[i - Len(p)]
    <2>1. /\ q \in Seq(Instr) /\ Len(q) = Len(p) + Len(r)
          /\ \A i \in 1..(Len(p) + Len(r)) : q[i] = IF i <= Len(p) THEN p[i] ELSE r[i - Len(p)]
        <3>1. p \in Seq(Instr) /\ r \in Seq(Instr)
            BY <1>7
        <3>2. /\ p \o r \in Seq(Instr) /\ Len(p \o r) = Len(p) + Len(r)
              /\ \A i \in 1..(Len(p) + Len(r)) :
                    (p \o r)[i] = IF i <= Len(p) THEN p[i] ELSE r[i - Len(p)]
            BY <3>1, ConcatProperties
        <3>. QED  BY <1>9, <3>2
    <2>2. Len(r) = Len(code)
        BY <1>7
    <2>. QED  BY <2>1, <2>2
<1>11. \A i \in 1..Len(p) : q[i] = p[i]
    BY <1>1, <1>8, <1>10
<1>12. \A i \in 1..Len(code) : q[Len(p) + i] = r[i]
    <2>. TAKE i \in 1..Len(code)
    <2>1. Len(p) + i \in 1..(Len(p) + Len(code)) /\ ~(Len(p) + i <= Len(p))
          /\ (Len(p) + i) - Len(p) = i
        BY <1>1, <1>8
    <2>. QED  BY <1>10, <2>1
<1>13. EmitAt(p, code, fn, open, goal, ln) = q
    BY <1>2, <1>4, <1>9 DEF EmitAt
<1>14. \A i \in 1..Len(code) : r[i] = [op |-> code[i].op, c |-> code[i].c, name |-> code[i].name,
             line |-> ln, fn |-> fn, path |-> path, goal |-> goal]
    BY <1>4
<1>15. \A i \in 1..Len(code) :
          /\ q[Len(p) + i].op = code[i].op /\ q[Len(p) + i].c = code[i].c
          /\ q[Len(p) + i].name = code[i].name /\ q[Len(p) + i].fn = fn
          /\ q[Len(p) + i].path = path
    <2>. TAKE i \in 1..Len(code)
    <2>1. q[Len(p) + i] = [op |-> code[i].op, c |-> code[i].c, name |-> code[i].name,
             line |-> ln, fn |-> fn, path |-> path, goal |-> goal]
        BY <1>12, <1>14
    <2>. QED  BY <2>1
<1>. QED  BY <1>2, <1>10, <1>11, <1>13, <1>15 DEF Emitted

(* q is p, some of its jumps patched, and more code of function fn.          *)
Continues(p, q, fn, names) ==
    /\ q \in Seq(Instr) /\ Len(q) >= Len(p)
    /\ \A i \in 1..Len(p) :
          /\ q[i].op = p[i].op /\ q[i].name = p[i].name
          /\ q[i].fn = p[i].fn /\ q[i].path = p[i].path
          /\ i \notin Jumps(p) => q[i].c = p[i].c
    /\ \A i \in (Len(p) + 1)..Len(q) : q[i].fn = fn /\ Fits(q[i], names)

LEMMA EmitContinues ==
    ASSUME NEW p \in Seq(Instr), NEW code \in Seq(BareInstr), NEW fn \in Nat, NEW names,
           NEW open \in Seq(Open), NEW goal \in Goal, NEW ln \in Nat,
           \A i \in 1..Len(code) : Fits(code[i], names)
    PROVE  Continues(p, EmitAt(p, code, fn, open, goal, ln), fn, names)
<1>1. PICK q : q = EmitAt(p, code, fn, open, goal, ln)
    OBVIOUS
<1>2. /\ q \in Seq(Instr) /\ Len(q) = Len(p) + Len(code)
      /\ \A i \in 1..Len(p) : q[i] = p[i]
      /\ \A i \in 1..Len(code) :
           /\ q[Len(p) + i].op = code[i].op /\ q[Len(p) + i].c = code[i].c
           /\ q[Len(p) + i].name = code[i].name /\ q[Len(p) + i].fn = fn
    <2>1. Emitted(p, code, fn, open, q)
        BY <1>1, EmitIs
    <2>. QED  BY <2>1 DEF Emitted
<1>3. Len(p) \in Nat /\ Len(code) \in Nat
    BY LenProperties
<1>4. \A i \in (Len(p) + 1)..Len(q) : q[i].fn = fn /\ Fits(q[i], names)
    <2>. TAKE i \in (Len(p) + 1)..Len(q)
    <2>1. PICK j \in 1..Len(code) : i = Len(p) + j
        <3>1. i - Len(p) \in 1..Len(code) /\ i = Len(p) + (i - Len(p))
            BY <1>2, <1>3
        <3>. QED  BY <3>1
    <2>2. Fits(code[j], names)
        OBVIOUS
    <2>. QED  BY <1>2, <2>1, <2>2 DEF Fits
<1>5. Len(q) >= Len(p)
    BY <1>2, <1>3
<1>. QED  BY <1>1, <1>2, <1>4, <1>5 DEF Continues

LEMMA PatchIs ==
    ASSUME NEW p \in Seq(Instr), NEW froms, NEW to \in Int
    PROVE  LET q == Patched(p, froms, to)
           IN  /\ q \in Seq(Instr) /\ Len(q) = Len(p)
               /\ \A i \in 1..Len(p) :
                    /\ q[i].op = p[i].op /\ q[i].name = p[i].name
                    /\ q[i].fn = p[i].fn /\ q[i].path = p[i].path
                    /\ i \notin froms => q[i] = p[i]
<1>1. Len(p) \in Nat /\ \A i \in 1..Len(p) : p[i] \in Instr
    BY LenProperties, ElementOfSeq
<1>2. PICK q : q = [i \in 1..Len(p) |-> IF i \in froms THEN [p[i] EXCEPT !.c = to - i] ELSE p[i]]
    OBVIOUS
<1>3. ASSUME NEW i \in 1..Len(p)
      PROVE  /\ q[i] \in Instr /\ q[i].op = p[i].op /\ q[i].name = p[i].name
             /\ q[i].fn = p[i].fn /\ q[i].path = p[i].path
             /\ i \notin froms => q[i] = p[i]
    <2>1. q[i] = IF i \in froms THEN [p[i] EXCEPT !.c = to - i] ELSE p[i]
        BY <1>2
    <2>2. to - i \in Int /\ p[i] \in Instr
        BY <1>1
    <2>3. PICK r, d : r = p[i] /\ d = to - i
        OBVIOUS
    <2>4. r \in Instr /\ d \in Int
        BY <2>2, <2>3
    <2>5. /\ [r EXCEPT !.c = d] \in Instr
          /\ [r EXCEPT !.c = d].op = r.op /\ [r EXCEPT !.c = d].name = r.name
          /\ [r EXCEPT !.c = d].fn = r.fn /\ [r EXCEPT !.c = d].path = r.path
        BY <2>4 DEF Instr
    <2>. QED  BY <2>1, <2>2, <2>3, <2>5
<1>4. q \in [1..Len(p) -> Instr]
    <2>1. DOMAIN q = 1..Len(p) /\ q = [i \in 1..Len(p) |-> q[i]]
        BY <1>2
    <2>. QED  BY <1>3, <2>1
<1>5. q \in Seq(Instr) /\ Len(q) = Len(p)
    BY <1>1, <1>4
<1>. QED  BY <1>2, <1>3, <1>5 DEF Patched

LEMMA PatchContinues ==
    ASSUME NEW p \in Seq(Instr), NEW froms, NEW to \in Int, NEW fn, NEW names,
           \A i \in froms : i \in 1..Len(p) => i \in Jumps(p)
    PROVE  /\ Continues(p, Patched(p, froms, to), fn, names)
           /\ Len(Patched(p, froms, to)) = Len(p)
<1>1. PICK q : q = Patched(p, froms, to)
    OBVIOUS
<1>2. /\ q \in Seq(Instr) /\ Len(q) = Len(p)
      /\ \A i \in 1..Len(p) :
           /\ q[i].op = p[i].op /\ q[i].name = p[i].name
           /\ q[i].fn = p[i].fn /\ q[i].path = p[i].path
           /\ i \notin froms => q[i] = p[i]
    BY <1>1, PatchIs
<1>3. Len(p) \in Nat
    BY LenProperties
<1>. QED  BY <1>1, <1>2, <1>3 DEF Continues

LEMMA JumpsStay ==
    ASSUME NEW p \in Seq(Instr), NEW q, NEW fn, NEW names, Continues(p, q, fn, names)
    PROVE  \A i \in 1..Len(p) : i \in Jumps(p) <=> i \in Jumps(q)
<1>1. Len(p) \in Nat /\ Len(q) \in Nat
    BY LenProperties DEF Continues
<1>. QED  BY <1>1 DEF Continues, Jumps

LEMMA ContinuesOn ==
    ASSUME NEW p \in Seq(Instr), NEW q, NEW r, NEW fn, NEW names,
           Continues(p, q, fn, names), Continues(q, r, fn, names)
    PROVE  Continues(p, r, fn, names)
<1>1. Len(p) \in Nat /\ Len(q) \in Nat /\ Len(r) \in Nat /\ q \in Seq(Instr)
    BY LenProperties DEF Continues
<1>2. \A i \in 1..Len(p) : i \in Jumps(p) <=> i \in Jumps(q)
    BY JumpsStay
<1>3. Len(q) >= Len(p) /\ Len(r) >= Len(q) /\ r \in Seq(Instr)
    BY DEF Continues
<1>4. Len(r) >= Len(p)
    BY <1>1, <1>3
<1>5. \A i \in 1..Len(p) :
          /\ r[i].op = p[i].op /\ r[i].name = p[i].name
          /\ r[i].fn = p[i].fn /\ r[i].path = p[i].path
          /\ i \notin Jumps(p) => r[i].c = p[i].c
    <2>. TAKE i \in 1..Len(p)
    <2>1. i \in 1..Len(q)
        BY <1>1, <1>3
    <2>. QED  BY <1>2, <2>1 DEF Continues
<1>6. \A i \in (Len(p) + 1)..Len(r) : r[i].fn = fn /\ Fits(r[i], names)
    <2>. TAKE i \in (Len(p) + 1)..Len(r)
    <2>1. CASE i <= Len(q)
        <3>1. i \in 1..Len(q) /\ i \in (Len(p) + 1)..Len(q)
            BY <1>1, <2>1
        <3>2. q[i].fn = fn /\ Fits(q[i], names)
            BY <3>1 DEF Continues
        <3>3. i \notin Jumps(q) => r[i].c = q[i].c
            BY <3>1 DEF Continues
        <3>4. r[i].op = q[i].op /\ r[i].name = q[i].name /\ r[i].fn = q[i].fn
            BY <3>1 DEF Continues
        <3>5. i \in Jumps(q) => q[i].name = NoName /\ q[i].op \notin Symbolic
            BY DEF Jumps, Symbolic
        <3>. QED  BY <3>2, <3>3, <3>4, <3>5 DEF Fits
    <2>2. CASE i > Len(q)
        <3>1. i \in (Len(q) + 1)..Len(r)
            BY <1>1, <2>2
        <3>. QED  BY <3>1 DEF Continues
    <2>. QED  BY <1>1, <2>1, <2>2
<1>. QED  BY <1>3, <1>4, <1>5, <1>6 DEF Continues

-----------------------------------------------------------------------------
(* Names and their indices.                                                  *)

LEMMA MembersAre ==
    ASSUME NEW S, NEW s \in Seq(S)
    PROVE  /\ \A x : x \in ToSet(s) <=> \E i \in 1..Len(s) : s[i] = x
           /\ DOMAIN s = 1..Len(s) /\ Len(s) \in Nat
BY LenProperties DEF ToSet

LEMMA AppendIs ==
    ASSUME NEW S, NEW s \in Seq(S), NEW e \in S
    PROVE  /\ Append(s, e) \in Seq(S) /\ Len(Append(s, e)) = Len(s) + 1
           /\ \A i \in 1..(Len(s) + 1) : Append(s, e)[i] = IF i = Len(s) + 1 THEN e ELSE s[i]
<1>1. /\ Append(s, e) \in Seq(S) /\ Len(Append(s, e)) = Len(s) + 1
      /\ \A i \in 1..Len(s) : Append(s, e)[i] = s[i]
      /\ Append(s, e)[Len(s) + 1] = e
    BY AppendProperties
<1>2. Len(s) \in Nat
    BY LenProperties
<1>3. \A i \in 1..(Len(s) + 1) : i = Len(s) + 1 \/ i \in 1..Len(s)
    BY <1>2
<1>4. \A i \in 1..Len(s) : i # Len(s) + 1
    BY <1>2
<1>. QED  BY <1>1, <1>3, <1>4

LEMMA IndexIs ==
    ASSUME NEW S, NEW s \in Seq(S), Distinct(s), NEW x \in ToSet(s)
    PROVE  /\ IndexIn(s, x) \in 0..(Len(s) - 1) /\ s[IndexIn(s, x) + 1] = x
           /\ \A i \in 1..Len(s) : s[i] = x => IndexIn(s, x) = i - 1
<1>1. PICK n : n = CHOOSE i \in 1..Len(s) : s[i] = x
    OBVIOUS
<1>2. n \in 1..Len(s) /\ s[n] = x
    BY <1>1, MembersAre
<1>3. IndexIn(s, x) = n - 1 /\ Len(s) \in Nat
    BY <1>1, MembersAre DEF IndexIn
<1>4. \A i \in 1..Len(s) : s[i] = x => i = n
    BY <1>2, MembersAre DEF Distinct
<1>. QED  BY <1>2, <1>3, <1>4

Grows(s, r) == Len(s) <= Len(r) /\ \A i \in 1..Len(s) : r[i] = s[i]

LEMMA GrownIndex ==
    ASSUME NEW S, NEW s \in Seq(S), NEW r \in Seq(S), Grows(s, r), Distinct(r),
           NEW x \in ToSet(s)
    PROVE  x \in ToSet(r) /\ Distinct(s) /\ IndexIn(r, x) = IndexIn(s, x)
<1>1. Len(s) \in Nat /\ Len(r) \in Nat /\ DOMAIN s = 1..Len(s) /\ DOMAIN r = 1..Len(r)
    BY MembersAre
<1>2. Distinct(s)
    BY <1>1 DEF Distinct, Grows
<1>3. /\ IndexIn(s, x) \in 0..(Len(s) - 1) /\ s[IndexIn(s, x) + 1] = x
    BY <1>2, IndexIs
<1>4. PICK n : n = IndexIn(s, x) + 1
    OBVIOUS
<1>5. n \in 1..Len(s) /\ s[n] = x /\ IndexIn(s, x) = n - 1
    BY <1>1, <1>3, <1>4
<1>6. n \in 1..Len(r) /\ r[n] = x
    BY <1>1, <1>5 DEF Grows
<1>7. x \in ToSet(r)
    BY <1>6, MembersAre
<1>. QED  BY <1>2, <1>5, <1>6, <1>7, IndexIs

LEMMA GrowsOn ==
    ASSUME NEW S, NEW s \in Seq(S), NEW r \in Seq(S), NEW q \in Seq(S),
           Grows(s, r), Grows(r, q)
    PROVE  Grows(s, q)
<1>1. Len(s) \in Nat /\ Len(r) \in Nat /\ Len(q) \in Nat
    BY LenProperties
<1>. QED  BY <1>1 DEF Grows

LEMMA PutIs ==
    ASSUME NEW S, NEW s \in Seq(S), Distinct(s), NEW x \in S
    PROVE  /\ Put(s, x) \in Seq(S) /\ Distinct(Put(s, x)) /\ Grows(s, Put(s, x))
           /\ x \in ToSet(Put(s, x))
<1>1. Len(s) \in Nat /\ DOMAIN s = 1..Len(s)
    BY MembersAre
<1>2. CASE x \in ToSet(s)
    BY <1>1, <1>2 DEF Put, Grows
<1>3. CASE x \notin ToSet(s)
    <2>1. PICK r : r = Append(s, x)
        OBVIOUS
    <2>2. /\ r \in Seq(S) /\ Len(r) = Len(s) + 1
          /\ \A i \in 1..(Len(s) + 1) : r[i] = IF i = Len(s) + 1 THEN x ELSE s[i]
        BY <2>1, AppendIs
    <2>3. DOMAIN r = 1..(Len(s) + 1)
        BY <2>2, MembersAre
    <2>4. \A i \in 1..Len(s) : s[i] # x
        BY <1>3, MembersAre
    <2>5. Distinct(r)
        <3>1. ASSUME NEW i \in 1..(Len(s) + 1), NEW j \in 1..(Len(s) + 1), r[i] = r[j]
              PROVE  i = j
            <4>1. \A k \in 1..(Len(s) + 1) : k # Len(s) + 1 => k \in 1..Len(s)
                BY <1>1
            <4>2. CASE i = Len(s) + 1
                BY <2>2, <2>4, <3>1, <4>1, <4>2
            <4>3. CASE j = Len(s) + 1
                BY <2>2, <2>4, <3>1, <4>1, <4>3
            <4>4. CASE i # Len(s) + 1 /\ j # Len(s) + 1
                BY <1>1, <2>2, <3>1, <4>1, <4>4 DEF Distinct
            <4>. QED  BY <4>2, <4>3, <4>4
        <3>. QED  BY <2>3, <3>1 DEF Distinct
    <2>6. Grows(s, r)
        BY <1>1, <2>2 DEF Grows
    <2>7. x \in ToSet(r)
        <3>1. Len(s) + 1 \in 1..Len(r) /\ r[Len(s) + 1] = x
            BY <1>1, <2>2
        <3>. QED  BY <2>2, <3>1, MembersAre
    <2>. QED  BY <1>3, <2>1, <2>2, <2>5, <2>6, <2>7 DEF Put
<1>. QED  BY <1>2, <1>3

LEMMA FitsMore ==
    ASSUME NEW b, NEW s \in Seq(Ident), NEW r \in Seq(Ident), Grows(s, r), Distinct(r),
           Fits(b, s)
    PROVE  Fits(b, r)
BY GrownIndex DEF Fits

LEMMA LoadsFit ==
    ASSUME NEW names, NEW b \in Loads
    PROVE  b \in BareInstr /\ Fits(b, names) /\ (b.op = "LoadSymbolic" => b.name \in Ident)
BY DEF Loads, BareInstr, Fits, Symbolic

LEMMA LoadsAre ==
    ASSUME NEW code \in Seq(Loads), NEW names
    PROVE  /\ code \in Seq(BareInstr) /\ Len(code) \in Nat
           /\ \A i \in 1..Len(code) : code[i] \in Loads /\ Fits(code[i], names)
<1>1. Loads \subseteq BareInstr
    BY DEF Loads
<1>2. code \in Seq(BareInstr)
    BY <1>1, SeqMonotonic
<1>3. \A i \in 1..Len(code) : code[i] \in Loads
    BY ElementOfSeq
<1>. QED  BY <1>2, <1>3, LoadsFit, LenProperties

LEMMA FitsJoined ==
    ASSUME NEW s \in Seq(BareInstr), NEW r \in Seq(BareInstr), NEW names,
           \A i \in 1..Len(s) : Fits(s[i], names), \A i \in 1..Len(r) : Fits(r[i], names)
    PROVE  /\ s \o r \in Seq(BareInstr)
           /\ \A i \in 1..Len(s \o r) : Fits((s \o r)[i], names)
<1>1. Len(s) \in Nat /\ Len(r) \in Nat
    BY LenProperties
<1>2. PICK q : q = s \o r
    OBVIOUS
<1>3. /\ q \in Seq(BareInstr) /\ Len(q) = Len(s) + Len(r)
      /\ \A i \in 1..(Len(s) + Len(r)) : q[i] = IF i <= Len(s) THEN s[i] ELSE r[i - Len(s)]
    BY <1>2, ConcatProperties
<1>4. ASSUME NEW i \in 1..Len(q)
      PROVE  Fits(q[i], names)
    <2>1. CASE i <= Len(s)
        <3>1. i \in 1..Len(s) /\ q[i] = s[i]
            BY <1>1, <1>3, <2>1
        <3>. QED  BY <3>1
    <2>2. CASE i > Len(s)
        <3>1. i - Len(s) \in 1..Len(r) /\ q[i] = r[i - Len(s)]
            BY <1>1, <1>3, <2>2
        <3>. QED  BY <3>1
    <2>. QED  BY <1>1, <1>3, <2>1, <2>2
<1>. QED  BY <1>2, <1>3, <1>4

LEMMA StoredFits ==
    ASSUME NEW names \in Seq(Ident), Distinct(names), NEW load \in Loads,
           NEW do \in {"set", "local", "modify"},
           load.op = "LoadSymbolic" \/ (load.op = "LoadAt" /\ do # "local")
    PROVE  /\ do = "local" => load.name \in Ident
           /\ Stored(names, load, do) \in BareInstr
           /\ Fits(Stored(names, load, do),
                   IF do = "local" THEN Put(names, load.name) ELSE names)
<1>1. load \in BareInstr /\ (load.op = "LoadSymbolic" => load.name \in Ident)
    BY LoadsFit
<1>2. load.op = "LoadAt" => load.name = NoName
    BY DEF Loads
<1>3. CASE do = "local"
    <2>1. load.name \in Ident /\ load.name # NoName
        BY <1>1, <1>3, CodegenAssumption
    <2>2. PICK r : r = Put(names, load.name)
        OBVIOUS
    <2>3. r \in Seq(Ident) /\ Distinct(r) /\ load.name \in ToSet(r) /\ Len(r) \in Nat
        BY <2>1, <2>2, PutIs, LenProperties
    <2>4. IndexIn(r, load.name) \in Int
        BY <2>3, IndexIs
    <2>5. Stored(names, load, do) = [op |-> "StoreLocal", name |-> load.name,
                                     c |-> IndexIn(r, load.name)]
        BY <1>3, <2>2 DEF Stored
    <2>6. Stored(names, load, do) \in BareInstr
        BY <2>1, <2>4, <2>5 DEF BareInstr, Ops
    <2>7. Fits(Stored(names, load, do), r)
        BY <2>3, <2>5 DEF Fits, Symbolic
    <2>. QED  BY <1>3, <2>1, <2>2, <2>6, <2>7
<1>4. CASE do = "set"
    <2>1. Stored(names, load, do) = [op |-> IF load.op = "LoadAt" THEN "StoreAt"
                                            ELSE "StoreSymbolic",
                                     c |-> 0, name |-> load.name]
        BY <1>4 DEF Stored
    <2>. QED  BY <1>1, <1>2, <1>4, <2>1, CodegenAssumption DEF BareInstr, Ops, Fits, Symbolic
<1>5. CASE do = "modify"
    <2>1. Stored(names, load, do) = [op |-> IF load.op = "LoadAt" THEN "ModifyAt"
                                            ELSE "ModifySymbolic",
                                     c |-> 0, name |-> load.name]
        BY <1>5 DEF Stored
    <2>. QED  BY <1>1, <1>2, <1>5, <2>1, CodegenAssumption DEF BareInstr, Ops, Fits, Symbolic
<1>. QED  BY <1>3, <1>4, <1>5

LEMMA SimpleIs ==
    ASSUME NEW names \in Seq(Ident), Distinct(names),
           NEW s \in Simple \union {Nothing}, Valid(s)
    PROVE  /\ Declared(names, s) \in Seq(Ident) /\ Distinct(Declared(names, s))
           /\ Grows(names, Declared(names, s))
           /\ SimpleCode(names, s) \in Seq(BareInstr)
           /\ \A i \in 1..Len(SimpleCode(names, s)) :
                Fits(SimpleCode(names, s)[i], Declared(names, s))
<1>0. Grows(names, names)
    BY LenProperties DEF Grows
<1>1. CASE s = Nothing
    <2>1. SimpleCode(names, s) = <<>> /\ Declared(names, s) = names
        BY <1>1 DEF SimpleCode, Declared, Nothing
    <2>. QED  BY <1>0, <2>1
<1>2. CASE s \in [do : {"print"}, value : Expr]
    <2>1. SimpleCode(names, s) = Code(s.value) \o Discarded /\ Declared(names, s) = names
        BY <1>2 DEF SimpleCode, Declared
    <2>2. Code(s.value) \in Seq(Loads)
        BY <1>2, CodeIs
    <2>3. /\ Code(s.value) \in Seq(BareInstr)
          /\ \A i \in 1..Len(Code(s.value)) : Fits(Code(s.value)[i], names)
        BY <2>2, LoadsAre
    <2>4. Bare("Print", 0) \in BareInstr /\ Fits(Bare("Print", 0), names)
        BY DEF Bare, BareInstr, Fits, Ops, Symbolic
    <2>5. Discarded \in Seq(BareInstr) /\ \A i \in 1..Len(Discarded) : Fits(Discarded[i], names)
        BY <2>4 DEF Discarded
    <2>. QED  BY <1>0, <2>1, <2>3, <2>5, FitsJoined
<1>3. CASE s \in [do : {"set", "local", "modify"}, target : Expr, value : Expr]
    <2>1. s.target \in Expr /\ s.value \in Expr /\ s.do \in {"set", "local", "modify"}
        BY <1>3
    <2>2. PICK t, v, d : t = Code(s.target) /\ v = Code(s.value) /\ d = Declared(names, s)
        OBVIOUS
    <2>3. t \in Seq(Loads) /\ v \in Seq(Loads) /\ Len(t) > 0
        BY <2>1, <2>2, CodeIs
    <2>4. PICK load : load = Last(t)
        OBVIOUS
    <2>5. load \in Loads /\ Front(t) \in Seq(Loads)
        BY <2>3, <2>4, EndsAre
    <2>6. load.op = "LoadSymbolic" \/ (load.op = "LoadAt" /\ s.do # "local")
        BY <2>1, <2>2, <2>4 DEF Valid, Assignable
    <2>7. d = IF s.do = "local" THEN Put(names, load.name) ELSE names
        BY <2>2, <2>4 DEF Declared
    <2>8. /\ s.do = "local" => load.name \in Ident
          /\ Stored(names, load, s.do) \in BareInstr /\ Fits(Stored(names, load, s.do), d)
        BY <2>1, <2>5, <2>6, <2>7, StoredFits
    <2>9. d \in Seq(Ident) /\ Distinct(d) /\ Grows(names, d)
        BY <1>0, <2>7, <2>8, PutIs
    <2>10. PICK e : e = Stored(names, load, s.do)
        OBVIOUS
    <2>11. <<e>> \in Seq(BareInstr) /\ \A i \in 1..Len(<<e>>) : Fits(<<e>>[i], d)
        BY <2>8, <2>10
    <2>12. /\ Front(t) \in Seq(BareInstr) /\ \A i \in 1..Len(Front(t)) : Fits(Front(t)[i], d)
           /\ v \in Seq(BareInstr) /\ \A i \in 1..Len(v) : Fits(v[i], d)
        BY <2>3, <2>5, LoadsAre
    <2>13. /\ Front(t) \o v \in Seq(BareInstr)
           /\ \A i \in 1..Len(Front(t) \o v) : Fits((Front(t) \o v)[i], d)
        BY <2>12, FitsJoined
    <2>14. /\ (Front(t) \o v) \o <<e>> \in Seq(BareInstr)
           /\ \A i \in 1..Len((Front(t) \o v) \o <<e>>) : Fits(((Front(t) \o v) \o <<e>>)[i], d)
        BY <2>11, <2>13, FitsJoined
    <2>15. SimpleCode(names, s) = (Front(t) \o v) \o <<e>>
        <3>1. s.do # "nothing" /\ s.do # "print"
            BY <2>1
        <3>. QED  BY <2>2, <2>4, <2>10, <3>1 DEF SimpleCode
    <2>. QED  BY <2>2, <2>9, <2>14, <2>15
<1>. QED  BY <1>1, <1>2, <1>3 DEF Simple

-----------------------------------------------------------------------------
(* The innermost function.                                                   *)

LEMMA OpenIs ==
    ASSUME NEW t \in Seq(Open)
    PROVE  /\ Len(t) \in Nat /\ DOMAIN t = 1..Len(t)
           /\ \A k \in 1..Len(t) :
                /\ t[k] \in Open /\ t[k].begin \in Nat /\ t[k].jump \in Int
                /\ t[k].i1 \in Nat /\ t[k].i2 \in Nat /\ t[k].of \in Nat
                /\ t[k].piece \in Nat /\ t[k].kind \in {"fun", "if", "while", "for"}
                /\ t[k].name \in Ident \union {NoName}
<1>1. Len(t) \in Nat /\ DOMAIN t = 1..Len(t) /\ \A k \in 1..Len(t) : t[k] \in Open
    BY LenProperties, ElementOfSeq
<1>2. NoPos \in Int /\ Pos = Nat
    BY DEF NoPos, Pos
<1>3. ASSUME NEW o \in Open
      PROVE  /\ o.begin \in Nat /\ o.jump \in Int /\ o.i1 \in Nat /\ o.i2 \in Nat
             /\ o.of \in Nat /\ o.piece \in Nat /\ o.kind \in {"fun", "if", "while", "for"}
             /\ o.name \in Ident \union {NoName}
    BY <1>2 DEF Open
<1>. QED  BY <1>1, <1>3

LEMMA InstrIs ==
    ASSUME NEW p \in Seq(Instr)
    PROVE  /\ Len(p) \in Nat /\ DOMAIN p = 1..Len(p)
           /\ \A i \in 1..Len(p) :
                /\ p[i] \in Instr /\ p[i].op \in Ops /\ p[i].c \in Int
                /\ p[i].name \in Ident \union {NoName} /\ p[i].line \in Nat
                /\ p[i].fn \in Nat /\ p[i].path \in Seq(Goal) /\ p[i].goal \in Goal
<1>1. Len(p) \in Nat /\ DOMAIN p = 1..Len(p) /\ \A i \in 1..Len(p) : p[i] \in Instr
    BY LenProperties, ElementOfSeq
<1>. QED  BY <1>1 DEF Instr, Goal

LEMMA FunNowIs ==
    ASSUME NEW t \in Seq(Open), NEW nsc \in Nat, NEW nsh \in Nat, NEW sc, NEW own,
           Scoped(t, nsc, nsh, sc, own)
    PROVE  \E m \in 1..Len(t) :
             /\ FunOf(t) = t[m] /\ t[m].kind = "fun"
             /\ \A k \in (m + 1)..Len(t) : t[k].kind # "fun"
             /\ own[m] = own[Len(t)] /\ sc[m] = nsc
<1>1. Len(t) \in Nat /\ DOMAIN t = 1..Len(t)
    BY OpenIs
<1>2. Len(t) > 0 /\ t[1].kind = "fun"
    BY DEF Scoped
<1>3. PICK F : F = Funs(t)
    OBVIOUS
<1>4. F \subseteq 0..Len(t) /\ 1 \in F
    BY <1>1, <1>2, <1>3 DEF Funs
<1>5. Max(F) \in F /\ \A k \in F : k <= Max(F)
    BY <1>1, <1>4, MaxExists
<1>6. PICK m : m = Max(F)
    OBVIOUS
<1>7. m \in 1..Len(t) /\ t[m].kind = "fun"
    BY <1>1, <1>3, <1>5, <1>6 DEF Funs
<1>8. \A k \in (m + 1)..Len(t) : t[k].kind # "fun"
    <2>. SUFFICES ASSUME NEW k \in (m + 1)..Len(t), t[k].kind = "fun"
                  PROVE  FALSE
        OBVIOUS
    <2>1. k \in F
        BY <1>1, <1>3, <1>7 DEF Funs
    <2>2. k <= m
        BY <1>5, <1>6, <2>1
    <2>. QED  BY <1>1, <1>7, <2>2
<1>9. FunOf(t) = t[m]
    BY <1>3, <1>6 DEF FunOf
<1>10. own[m] = own[Len(t)] /\ sc[m] = sc[Len(t)]
    <2>1. CASE m = Len(t)
        BY <2>1
    <2>2. CASE m # Len(t)
        <3>1. m < Len(t) /\ Len(t) \in 1..Len(t)
            <4>1. m \in 1..Len(t) /\ Len(t) \in Nat
                BY <1>1, <1>7
            <4>. QED  BY <2>2, <4>1
        <3>. QED  BY <1>7, <1>8, <3>1 DEF Scoped
    <2>. QED  BY <2>1, <2>2
<1>. QED  BY <1>7, <1>8, <1>9, <1>10 DEF Scoped

-----------------------------------------------------------------------------
(* Emitting code of the innermost function keeps all parts of the invariant. *)

LEMMA PieceKept ==
    ASSUME NEW p, NEW q, NEW i, p[i].path = q[i].path, NEW of, NEW piece
    PROVE  InPiece(p[i], of, piece) <=> InPiece(q[i], of, piece)
BY DEF InPiece

LEMMA MovedStays ==
    ASSUME NEW p \in Seq(Instr), NEW q, NEW fn, NEW names, Continues(p, q, fn, names),
           NEW f, Moved(p, f)
    PROVE  Moved(q, f)
<1>1. PICK i, j \in 1..Len(p) : \E n \in Nat :
        /\ p[i].fn = f /\ p[i].op = "Function" /\ p[j].fn = f
        /\ InPiece(p[i], n, 2) /\ InPiece(p[j], n, 3)
    BY DEF Moved
<1>2. i \in 1..Len(q) /\ j \in 1..Len(q)
    BY InstrIs DEF Continues
<1>3. q[i].fn = f /\ q[i].op = "Function" /\ q[j].fn = f
    BY <1>1 DEF Continues
<1>4. \A n \in Nat : /\ InPiece(p[i], n, 2) <=> InPiece(q[i], n, 2)
                     /\ InPiece(p[j], n, 3) <=> InPiece(q[j], n, 3)
    BY PieceKept DEF Continues
<1>. QED  BY <1>1, <1>2, <1>3, <1>4 DEF Moved

LEMMA PlacedGrown ==
    ASSUME NEW p \in Seq(Instr), NEW q, NEW fn, NEW names, Continues(p, q, fn, names),
           NEW t \in Seq(Open), Placed(p, t)
    PROVE  Placed(q, t)
<1>1. Len(p) \in Nat /\ Len(q) \in Nat /\ Len(q) >= Len(p)
    BY InstrIs DEF Continues
<1>2. \A i \in Jumps(p) : i \in Jumps(q)
    BY JumpsStay DEF Jumps
<1>3. \A k \in 1..Len(t) : t[k].begin \in Nat /\ t[k].i2 \in Nat
    BY OpenIs
<1>. QED  BY <1>1, <1>2, <1>3 DEF Placed

LEMMA StackedGrown ==
    ASSUME NEW p \in Seq(Instr), NEW q, NEW fn, NEW names, Continues(p, q, fn, names),
           NEW t, NEW w, NEW s, NEW g, Stacked(p, t, w, s, g)
    PROVE  Stacked(q, t, w, s, g)
<1>1. \A i \in Jumps(p) : i \in Jumps(q)
    BY JumpsStay DEF Jumps
<1>. QED  BY <1>1 DEF Stacked

LEMMA OwnedGrown ==
    ASSUME NEW p \in Seq(Instr), NEW q, NEW names, NEW t \in Seq(Open),
           NEW nsc \in Nat, NEW sh, NEW sc, NEW own, Len(sh) \in Nat,
           Continues(p, q, own[Len(t)], names),
           Scoped(t, nsc, Len(sh), sc, own), Placed(p, t), Owned(p, t, sh, own)
    PROVE  Owned(q, t, sh, own)
<1>1. /\ Len(p) \in Nat /\ Len(q) \in Nat /\ Len(q) >= Len(p) /\ q \in Seq(Instr)
      /\ Len(t) \in Nat /\ Len(t) > 0
    BY InstrIs, OpenIs DEF Continues, Scoped
<1>2. own[Len(t)] \in 1..Len(sh) /\ \A k \in 1..Len(t) : own[k] \in 1..Len(sh)
    <2>1. Len(t) \in 1..Len(t)
        BY <1>1
    <2>. QED  BY <2>1 DEF Scoped
<1>3. \A k \in 1..Len(t) : own[k] <= own[Len(t)]
    <2>. TAKE k \in 1..Len(t)
    <2>1. CASE k = Len(t)
        BY <1>2, <2>1
    <2>2. CASE k # Len(t)
        <3>1. k < Len(t) /\ Len(t) \in 1..Len(t)
            BY <1>1, <2>2
        <3>2. own[k] < own[Len(t)] \/ own[k] = own[Len(t)]
            BY <3>1 DEF Scoped
        <3>. QED  BY <1>2, <3>2
    <2>. QED  BY <2>1, <2>2
<1>4. \A i \in 1..Len(q) : /\ i \in 1..Len(p) => q[i].fn = p[i].fn
                           /\ i \notin 1..Len(p) => q[i].fn = own[Len(t)] /\ i > Len(p)
    <2>. TAKE i \in 1..Len(q)
    <2>1. i \in 1..Len(p) \/ i \in (Len(p) + 1)..Len(q)
        BY <1>1
    <2>2. i \in (Len(p) + 1)..Len(q) => i > Len(p)
        BY <1>1
    <2>. QED  BY <2>1, <2>2 DEF Continues
<1>5. \A i \in 1..Len(q) : q[i].fn <= Len(sh)
    BY <1>2, <1>4 DEF Owned
<1>6. ASSUME NEW k \in 1..Len(t), t[k].kind = "fun"
      PROVE  /\ t[k].begin <= Len(q) /\ q[t[k].begin].op = "Function"
             /\ q[t[k].begin].c = own[k] /\ sh[own[k]].offset = 0
             /\ \A i \in 1..Len(q) :
                   IF i > t[k].begin THEN q[i].fn >= own[k] ELSE q[i].fn < own[k]
    <2>1. /\ t[k].begin <= Len(p) /\ p[t[k].begin].op = "Function"
          /\ p[t[k].begin].c = own[k] /\ sh[own[k]].offset = 0
          /\ \A i \in 1..Len(p) :
                   IF i > t[k].begin THEN p[i].fn >= own[k] ELSE p[i].fn < own[k]
        BY <1>6 DEF Owned
    <2>2. t[k].begin \in Nat /\ t[k].begin \in 1..Len(p)
        BY <1>1, <2>1, OpenIs DEF Placed
    <2>3. t[k].begin \notin Jumps(p)
        BY <2>1 DEF Jumps
    <2>4. q[t[k].begin].op = "Function" /\ q[t[k].begin].c = own[k]
        BY <2>1, <2>2, <2>3 DEF Continues
    <2>5. t[k].begin <= Len(q)
        BY <1>1, <2>1, <2>2
    <2>6. ASSUME NEW i \in 1..Len(q)
          PROVE  IF i > t[k].begin THEN q[i].fn >= own[k] ELSE q[i].fn < own[k]
        <3>1. CASE i \in 1..Len(p)
            BY <1>4, <2>1, <3>1
        <3>2. CASE i \notin 1..Len(p)
            <4>1. i > t[k].begin
                BY <1>1, <1>4, <2>1, <2>2, <3>2
            <4>. QED  BY <1>2, <1>3, <1>4, <3>2, <4>1
        <3>. QED  BY <3>1, <3>2
    <2>. QED  BY <2>1, <2>4, <2>5, <2>6
<1>. QED  BY <1>5, <1>6 DEF Owned

LEMMA LastEntry ==
    ASSUME NEW t \in Seq(Open), NEW nsc \in Nat, NEW nsh \in Nat, NEW sc, NEW own,
           Scoped(t, nsc, nsh, sc, own)
    PROVE  /\ Len(t) \in 1..Len(t) /\ Len(t) \in Nat /\ own[Len(t)] \in 1..nsh
           /\ sc[Len(t)] = nsc /\ nsc > 0
           /\ \A k \in 1..Len(t) :
                /\ own[k] \in 1..nsh /\ sc[k] \in 1..nsc /\ own[k] <= own[Len(t)]
                /\ own[k] = own[Len(t)] => sc[k] = nsc
<1>1. Len(t) \in Nat /\ Len(t) > 0
    BY OpenIs DEF Scoped
<1>2. Len(t) \in 1..Len(t)
    BY <1>1
<1>3. \A k \in 1..Len(t) : own[k] \in 1..nsh /\ sc[k] \in 1..nsc
    BY DEF Scoped
<1>4. sc[Len(t)] = nsc
    BY DEF Scoped
<1>5. ASSUME NEW k \in 1..Len(t)
      PROVE  own[k] <= own[Len(t)] /\ (own[k] = own[Len(t)] => sc[k] = nsc)
    <2>1. CASE k = Len(t)
        BY <1>2, <1>3, <1>4, <2>1
    <2>2. CASE k # Len(t)
        <3>1. k < Len(t)
            BY <1>1, <2>2
        <3>2. \/ own[k] < own[Len(t)]
              \/ own[k] = own[Len(t)] /\ sc[k] = sc[Len(t)]
            BY <1>2, <3>1 DEF Scoped
        <3>3. own[k] \in Int /\ own[Len(t)] \in Int
            BY <1>2, <1>3
        <3>. QED  BY <1>4, <3>2, <3>3
    <2>. QED  BY <2>1, <2>2
<1>6. nsc > 0
    BY <1>2, <1>3, <1>4
<1>. QED  BY <1>1, <1>2, <1>3, <1>4, <1>5, <1>6

LEMMA RangesAre ==
    ASSUME NEW rs \in Seq(CodeRange)
    PROVE  /\ Len(rs) \in Nat
           /\ \A m \in 1..Len(rs) : /\ rs[m] \in CodeRange /\ rs[m].scope \in Nat
                                   /\ rs[m].begin \in Nat /\ rs[m].end \in Int
<1>1. Len(rs) \in Nat /\ \A m \in 1..Len(rs) : rs[m] \in CodeRange
    BY LenProperties, ElementOfSeq
<1>2. NoPos \in Int /\ Pos = Nat
    BY DEF NoPos, Pos
<1>. QED  BY <1>1, <1>2 DEF CodeRange

LEMMA RangedGrown ==
    ASSUME NEW p \in Seq(Instr), NEW q, NEW fn, NEW names, Continues(p, q, fn, names),
           NEW rs \in Seq(CodeRange), NEW t, NEW nsc, NEW sc, Ranged(p, rs, t, nsc, sc)
    PROVE  Ranged(q, rs, t, nsc, sc)
<1>1. Len(p) \in Nat /\ Len(q) \in Nat /\ Len(q) >= Len(p)
    BY InstrIs DEF Continues
<1>2. \A m \in 1..Len(rs) : rs[m].begin \in Nat
    BY RangesAre
<1>3. \A m \in 1..Len(rs) : rs[m].begin <= Len(q) + 1
    BY <1>1, <1>2 DEF Ranged
<1>. QED  BY <1>3 DEF Ranged

LEMMA CoveringGrown ==
    ASSUME NEW p \in Seq(Instr), NEW q, NEW names, NEW t \in Seq(Open),
           NEW rs \in Seq(CodeRange), NEW nsc \in Nat, NEW nsh \in Nat, NEW sc, NEW own,
           Continues(p, q, own[Len(t)], names), Scoped(t, nsc, nsh, sc, own),
           Ranged(p, rs, t, nsc, sc), Covering(p, rs, t, sc, own)
    PROVE  Covering(q, rs, t, sc, own)
<1>. SUFFICES ASSUME NEW k \in 1..Len(t), ~Moved(q, own[k])
              PROVE  CoveredBy(q, rs, own[k], sc[k])
    BY DEF Covering
<1>1. CoveredBy(p, rs, own[k], sc[k])
    BY MovedStays DEF Covering
<1>2. Len(p) \in Nat /\ Len(q) \in Nat /\ Len(q) >= Len(p)
    BY InstrIs DEF Continues
<1>. SUFFICES ASSUME NEW i \in 1..Len(q), q[i].fn = own[k]
              PROVE  \E m \in 1..Len(rs) : /\ rs[m].scope = sc[k] /\ rs[m].begin <= i
                                           /\ i < rs[m].end \/ rs[m].end = NoPos
    BY DEF CoveredBy
<1>3. CASE i <= Len(p)
    <2>1. i \in 1..Len(p)
        BY <1>2, <1>3
    <2>2. p[i].fn = own[k]
        BY <2>1 DEF Continues
    <2>. QED  BY <1>1, <2>1, <2>2 DEF CoveredBy
<1>4. CASE i > Len(p)
    <2>1. i \in (Len(p) + 1)..Len(q)
        BY <1>2, <1>4
    <2>2. q[i].fn = own[Len(t)]
        BY <2>1 DEF Continues
    <2>3. sc[k] = nsc
        <3>1. own[k] = own[Len(t)]
            BY <2>2
        <3>2. \A l \in 1..Len(t) : own[l] = own[Len(t)] => sc[l] = nsc
            BY LastEntry
        <3>. QED  BY <3>1, <3>2
    <2>4. Len(rs) \in Nat /\ Len(rs) > 0
        BY LenProperties DEF Ranged
    <2>5. Len(rs) \in 1..Len(rs)
        BY <2>4
    <2>6. rs[Len(rs)].scope = nsc /\ rs[Len(rs)].end = NoPos /\ rs[Len(rs)].begin <= Len(p) + 1
        BY <2>5 DEF Ranged
    <2>7. rs[Len(rs)].begin \in Nat
        BY <2>5, RangesAre
    <2>8. rs[Len(rs)].begin <= i
        BY <1>2, <1>4, <2>6, <2>7
    <2>. QED  BY <2>3, <2>5, <2>6, <2>8
<1>. QED  BY <1>2, <1>3, <1>4

LEMMA LoopedGrown ==
    ASSUME NEW p \in Seq(Instr), NEW q, NEW fn, NEW names, Continues(p, q, fn, names),
           NEW t \in Seq(Open), NEW rs, NEW sc, NEW own,
           Placed(p, t), Looped(p, rs, t, sc, own)
    PROVE  Looped(q, rs, t, sc, own)
<1>1. Len(p) \in Nat /\ Len(q) \in Nat /\ Len(q) >= Len(p)
    BY InstrIs DEF Continues
<1>2. \A i \in 1..Len(p) : i \in 1..Len(q) /\ q[i].fn = p[i].fn /\ q[i].op = p[i].op
    BY <1>1 DEF Continues
<1>3. \A i \in 1..Len(p) : \A of, piece : InPiece(q[i], of, piece) <=> InPiece(p[i], of, piece)
    BY PieceKept DEF Continues
<1>4. ASSUME NEW k \in 1..Len(t), t[k].kind = "for"
      PROVE  /\ \A i \in 1..Len(q) : t[k].i1 <= i /\ i < t[k].i2 =>
                   q[i].fn = own[k] /\ InPiece(q[i], t[k].of, 3)
             /\ Defines(p, t, k, own[k]) => Defines(q, t, k, own[k])
    <2>1. t[k].i2 <= Len(p) + 1 /\ t[k].i2 \in Nat
        BY <1>4, OpenIs DEF Placed
    <2>2. \A i \in 1..Len(q) : i < t[k].i2 => i \in 1..Len(p)
        BY <1>1, <2>1
    <2>3. \A i \in 1..Len(p) : t[k].i1 <= i /\ i < t[k].i2 =>
                   p[i].fn = own[k] /\ InPiece(p[i], t[k].of, 3)
        BY <1>4 DEF Looped
    <2>4. Defines(p, t, k, own[k]) => Defines(q, t, k, own[k])
        BY <1>2, <1>3 DEF Defines
    <2>. QED  BY <1>2, <1>3, <2>2, <2>3, <2>4
<1>. QED  BY <1>4 DEF Looped

LEMMA NamedGrown ==
    ASSUME NEW p \in Seq(Instr), NEW q, NEW names \in Seq(Ident), NEW t \in Seq(Open),
           NEW nsh \in Nat, NEW sc, NEW own, NEW ss \in Seq(Seq(Ident)), NEW rr \in Seq(Seq(Ident)),
           Continues(p, q, own[Len(t)], names), Scoped(t, Len(ss), nsh, sc, own),
           Named(p, ss, t, sc, own), Len(rr) = Len(ss), Distinct(names),
           \A s \in 1..Len(ss) : rr[s] = IF s = Len(ss) THEN names ELSE ss[s],
           Grows(ss[Len(ss)], names)
    PROVE  Named(q, rr, t, sc, own)
<1>1. Len(p) \in Nat /\ Len(q) \in Nat /\ Len(q) >= Len(p) /\ Len(ss) \in Nat
    BY InstrIs, LenProperties DEF Continues
<1>2. \A s \in 1..Len(rr) : Distinct(rr[s])
    BY DEF Named
<1>3. ASSUME NEW k \in 1..Len(t), NEW i \in 1..Len(q), q[i].fn = own[k], q[i].name # NoName
      PROVE  \/ q[i].op \in Symbolic
             \/ /\ q[i].op = "StoreLocal" /\ q[i].name \in ToSet(rr[sc[k]])
                /\ q[i].c = IndexIn(rr[sc[k]], q[i].name)
    <2>0. sc[k] \in 1..Len(ss) /\ (own[k] = own[Len(t)] => sc[k] = Len(ss)) /\ Len(ss) \in 1..Len(ss)
        BY <1>1, LastEntry
    <2>1. CASE i <= Len(p)
        <3>1. i \in 1..Len(p)
            BY <1>1, <2>1
        <3>2. p[i].fn = own[k] /\ p[i].name = q[i].name /\ p[i].op = q[i].op
            BY <1>3, <3>1 DEF Continues
        <3>3. q[i].c = p[i].c
            <4>1. i \notin Jumps(p)
                BY <1>3, <3>2 DEF Jumps
            <4>. QED  BY <3>1, <4>1 DEF Continues
        <3>4. \/ p[i].op \in Symbolic
              \/ /\ p[i].op = "StoreLocal" /\ p[i].name \in ToSet(ss[sc[k]])
                 /\ p[i].c = IndexIn(ss[sc[k]], p[i].name)
            BY <1>3, <3>1, <3>2 DEF Named
        <3>5. CASE sc[k] = Len(ss)
            <4>1. rr[sc[k]] = names /\ ss[sc[k]] \in Seq(Ident)
                BY <2>0, <3>5, ElementOfSeq
            <4>2. \A x \in ToSet(ss[sc[k]]) : x \in ToSet(names)
                     /\ IndexIn(names, x) = IndexIn(ss[sc[k]], x)
                BY <3>5, <4>1, GrownIndex
            <4>. QED  BY <3>2, <3>3, <3>4, <4>1, <4>2
        <3>6. CASE sc[k] # Len(ss)
            <4>1. rr[sc[k]] = ss[sc[k]]
                BY <2>0, <3>6
            <4>. QED  BY <3>2, <3>3, <3>4, <4>1
        <3>. QED  BY <3>5, <3>6
    <2>2. CASE i > Len(p)
        <3>1. i \in (Len(p) + 1)..Len(q)
            BY <1>1, <2>2
        <3>2. q[i].fn = own[Len(t)] /\ Fits(q[i], names)
            BY <3>1 DEF Continues
        <3>3. rr[sc[k]] = names
            BY <1>3, <2>0, <3>2
        <3>. QED  BY <1>3, <3>2, <3>3 DEF Fits
    <2>. QED  BY <1>1, <2>1, <2>2
<1>. QED  BY <1>2, <1>3 DEF Named

LEMMA ResolutionGrown ==
    ASSUME NEW p \in Seq(Instr), NEW q, NEW fn, NEW names, Continues(p, q, fn, names),
           NEW sh \in Seq(Shape), NEW gs, sh[fn].offset = 0, Resolution(p, sh, gs)
    PROVE  Resolution(q, sh, gs)
<1>1. Len(p) \in Nat /\ Len(q) \in Nat /\ Len(q) >= Len(p)
    BY InstrIs DEF Continues
<1>. SUFFICES ASSUME NEW f \in 1..Len(sh), sh[f].offset > 0, ~Moved(q, f),
                     NEW i \in 1..Len(q), q[i].fn = f, q[i].name # NoName
              PROVE  Settled(q[i], sh[f].names, gs)
    BY DEF Resolution
<1>2. ~Moved(p, f)
    BY MovedStays
<1>3. f # fn
    OBVIOUS
<1>4. i \in 1..Len(p)
    <2>1. CASE i > Len(p)
        <3>1. i \in (Len(p) + 1)..Len(q)
            BY <1>1, <2>1
        <3>2. q[i].fn = fn
            BY <3>1 DEF Continues
        <3>. QED  BY <1>3, <3>2
    <2>. QED  BY <1>1, <2>1
<1>5. p[i].fn = f /\ p[i].name = q[i].name /\ p[i].op = q[i].op
    BY <1>4 DEF Continues
<1>6. q[i].c = p[i].c
    <2>1. i \notin Jumps(p)
        BY <1>5 DEF Jumps
    <2>. QED  BY <1>4, <2>1 DEF Continues
<1>7. Settled(p[i], sh[f].names, gs)
    BY <1>2, <1>4, <1>5 DEF Resolution
<1>. QED  BY <1>5, <1>6, <1>7 DEF Settled

LEMMA SymbolsGrown ==
    ASSUME NEW p \in Seq(Instr), NEW q, NEW fn, NEW names, Continues(p, q, fn, names),
           Symbols(p)
    PROVE  Symbols(q)
<1>1. Len(p) \in Nat /\ Len(q) \in Nat
    BY InstrIs DEF Continues
<1>. SUFFICES ASSUME NEW i \in 1..Len(q), q[i].op \in Symbolic
              PROVE  q[i].name # NoName
    BY DEF Symbols
<1>2. i \in 1..Len(p) \/ i \in (Len(p) + 1)..Len(q)
    BY <1>1
<1>. QED  BY <1>2 DEF Continues, Symbols, Fits

LEMMA BuiltGrown ==
    ASSUME NEW p \in Seq(Instr), NEW q, NEW names \in Seq(Ident), NEW t \in Seq(Open), NEW st,
           NEW sh \in Seq(Shape), NEW ss \in Seq(Seq(Ident)), NEW rr \in Seq(Seq(Ident)),
           NEW rs \in Seq(CodeRange), NEW sc, NEW own, NEW h,
           Built(p, t, st, sh, ss, rs, sc, own, h),
           Continues(p, q, own[Len(t)], names), Len(rr) = Len(ss), Distinct(names),
           \A s \in 1..Len(ss) : rr[s] = IF s = Len(ss) THEN names ELSE ss[s],
           Grows(ss[Len(ss)], names)
    PROVE  Built(q, t, st, sh, rr, rs, sc, own, h)
<1>1. Len(ss) \in Nat /\ Len(sh) \in Nat
    BY LenProperties
<1>2. /\ Scoped(t, Len(ss), Len(sh), sc, own) /\ Placed(p, t)
      /\ \A w \in Which : Stacked(p, t, w, st[w], h[w])
      /\ Owned(p, t, sh, own) /\ Ranged(p, rs, t, Len(ss), sc)
      /\ Covering(p, rs, t, sc, own) /\ Looped(p, rs, t, sc, own)
      /\ Named(p, ss, t, sc, own)
      /\ \A k \in 2..Len(t) : t[k].kind = "fun" => t[k].name # NoName
    BY DEF Built
<1>3. Placed(q, t)
    BY <1>2, PlacedGrown
<1>4. \A w \in Which : Stacked(q, t, w, st[w], h[w])
    BY <1>2, StackedGrown
<1>5. Owned(q, t, sh, own)
    BY <1>1, <1>2, OwnedGrown
<1>6. Ranged(q, rs, t, Len(ss), sc)
    BY <1>2, RangedGrown
<1>7. Covering(q, rs, t, sc, own)
    BY <1>1, <1>2, CoveringGrown
<1>8. Looped(q, rs, t, sc, own)
    BY <1>2, LoopedGrown
<1>9. Named(q, rr, t, sc, own)
    BY <1>1, <1>2, NamedGrown
<1>. QED  BY <1>2, <1>3, <1>4, <1>5, <1>6, <1>7, <1>8, <1>9 DEF Built

-----------------------------------------------------------------------------
(* What becomes of the last entry's own notes does not matter, nor does one
   more jump to be patched.                                                  *)
Alike(t, u) ==
    /\ u \in Seq(Open) /\ Len(u) = Len(t)
    /\ \A k \in 1..Len(t) :
          /\ u[k].kind = t[k].kind /\ u[k].begin = t[k].begin /\ u[k].of = t[k].of
          /\ u[k].i1 = t[k].i1 /\ u[k].i2 = t[k].i2 /\ u[k].name = t[k].name
          /\ t[k].kind = "for" => u[k].piece = t[k].piece
          /\ k < Len(t) => u[k].jump = t[k].jump

LEMMA BuiltAlike ==
    ASSUME NEW p, NEW t \in Seq(Open), NEW u, NEW st, NEW sh, NEW ss, NEW rs,
           NEW sc, NEW own, NEW h,
           Built(p, t, st, sh, ss, rs, sc, own, h), Alike(t, u),
           u[Len(u)].jump # NoPos => u[Len(u)].jump \in Jumps(p)
    PROVE  Built(p, u, st, sh, ss, rs, sc, own, h)
<1>1. PICK n : n = Len(t)
    OBVIOUS
<1>2. n = Len(u) /\ n \in Nat
    BY <1>1, OpenIs DEF Alike
<1>3. \A k \in 1..n :
          /\ u[k].kind = t[k].kind /\ u[k].begin = t[k].begin /\ u[k].of = t[k].of
          /\ u[k].i1 = t[k].i1 /\ u[k].i2 = t[k].i2 /\ u[k].name = t[k].name
          /\ t[k].kind = "for" => u[k].piece = t[k].piece
          /\ k < n => u[k].jump = t[k].jump
    BY <1>1 DEF Alike
<1>4. Scoped(u, Len(ss), Len(sh), sc, own)
    <2>1. n > 0 /\ t[1].kind = "fun"
        BY <1>1 DEF Built, Scoped
    <2>2. 1 \in 1..n /\ \A k, l \in 1..n : \A j \in (k + 1)..l : j \in 1..n
        BY <1>2, <2>1
    <2>3. \A j \in 1..n : u[j].kind = "fun" <=> t[j].kind = "fun"
        BY <1>3
    <2>4. \A k, l \in 1..n : (\E j \in (k + 1)..l : u[j].kind = "fun")
                              <=> (\E j \in (k + 1)..l : t[j].kind = "fun")
        BY <2>2, <2>3
    <2>5. \A k \in 2..n : u[k].kind = "fun" => t[k].kind = "fun"
        BY <1>2, <2>3
    <2>. QED  BY <1>1, <1>2, <2>1, <2>2, <2>3, <2>4, <2>5 DEF Built, Scoped
<1>5. Placed(p, u)
    <2>1. Placed(p, t)
        BY DEF Built
    <2>2. ASSUME NEW k \in 1..n
          PROVE  /\ u[k].begin \in 1..(Len(p) + 1)
                 /\ u[k].jump # NoPos => u[k].jump \in Jumps(p)
                 /\ u[k].kind = "for" => /\ u[k].piece = 2 /\ u[k].begin <= u[k].i1
                                         /\ u[k].i1 <= u[k].i2 /\ u[k].i2 <= Len(p) + 1
        <3>1. /\ t[k].begin \in 1..(Len(p) + 1)
              /\ t[k].jump # NoPos => t[k].jump \in Jumps(p)
              /\ t[k].kind = "for" => /\ t[k].piece = 2 /\ t[k].begin <= t[k].i1
                                      /\ t[k].i1 <= t[k].i2 /\ t[k].i2 <= Len(p) + 1
            BY <1>1, <2>1 DEF Placed
        <3>2. CASE k = n
            BY <1>2, <1>3, <3>1, <3>2
        <3>3. CASE k # n
            <4>1. k < n
                BY <1>2, <3>3
            <4>. QED  BY <1>3, <3>1, <4>1
        <3>. QED  BY <3>2, <3>3
    <2>3. ASSUME NEW k \in 1..n, NEW l \in 1..n, k < l
          PROVE  /\ u[k].begin <= u[l].begin /\ u[k].jump < u[l].begin
                 /\ u[k].kind = "fun" => u[k].begin < u[l].begin
                 /\ u[k].kind = "for" => u[k].i2 <= u[l].begin
        <3>1. /\ t[k].begin <= t[l].begin /\ t[k].jump < t[l].begin
              /\ t[k].kind = "fun" => t[k].begin < t[l].begin
              /\ t[k].kind = "for" => t[k].i2 <= t[l].begin
            BY <1>1, <2>1, <2>3 DEF Placed
        <3>2. k < n
            BY <1>2, <2>3
        <3>. QED  BY <1>3, <3>1, <3>2
    <2>4. /\ \A k \in 1..Len(u) : /\ u[k].begin \in 1..(Len(p) + 1)
                                  /\ u[k].jump # NoPos => u[k].jump \in Jumps(p)
          /\ \A k \in 1..Len(u) : u[k].kind = "for" =>
                /\ u[k].piece = 2 /\ u[k].begin <= u[k].i1
                /\ u[k].i1 <= u[k].i2 /\ u[k].i2 <= Len(p) + 1
        BY <1>2, <2>2
    <2>5. \A k, l \in 1..Len(u) : k < l =>
             /\ u[k].begin <= u[l].begin /\ u[k].jump < u[l].begin
             /\ u[k].kind = "fun" => u[k].begin < u[l].begin
             /\ u[k].kind = "for" => u[k].i2 <= u[l].begin
        BY <1>2, <2>3
    <2>. QED  BY <2>4, <2>5 DEF Placed
<1>6. ASSUME NEW w \in Which
      PROVE  Stacked(p, u, w, st[w], h[w])
    <2>1. PICK s, g : s = st[w] /\ g = h[w]
        OBVIOUS
    <2>2. Stacked(p, t, w, s, g) /\ n = Len(t)
        BY <1>1, <2>1 DEF Built
    <2>3. \A k \in 1..n : u[k].kind = t[k].kind /\ u[k].begin = t[k].begin
        BY <1>3
    <2>4. /\ g \in [1..n -> 0..Len(s)] /\ \A j \in 1..Len(s) : s[j] >= 0 => s[j] \in Jumps(p)
          /\ \A j \in 1..Len(s) : s[j] = Begins =>
                \E k \in 1..n : t[k].kind \in MarkedBy(w) /\ j = g[k]
        BY <2>2 DEF Stacked
    <2>5. \A j \in 1..Len(s) : s[j] = Begins =>
             \E k \in 1..n : u[k].kind \in MarkedBy(w) /\ j = g[k]
        BY <2>3, <2>4
    <2>6. /\ \A k \in 1..n, j \in 1..Len(s) : j <= g[k] => s[j] < u[k].begin
          /\ \A k \in 1..n : u[k].kind \in MarkedBy(w) =>
                g[k] > 0 /\ s[g[k]] = IF u[k].kind = "fun" THEN NoPos ELSE Begins
        BY <2>2, <2>3 DEF Stacked
    <2>7. \A k, l \in 1..n : k < l =>
             g[k] <= g[l] /\ (u[l].kind \in MarkedBy(w) => g[k] < g[l])
        BY <2>2, <2>3 DEF Stacked
    <2>8. ASSUME NEW k \in 1..n, NEW j \in 1..Len(s), u[k].kind \in Closing(w), j > g[k]
          PROVE  \E l \in 1..n : l > k /\ u[l].kind \in MarkedBy(w) /\ g[l] <= j
        <3>1. t[k].kind \in Closing(w)
            BY <2>3, <2>8
        <3>2. \E l \in 1..n : l > k /\ t[l].kind \in MarkedBy(w) /\ g[l] <= j
            BY <2>2, <2>8, <3>1 DEF Stacked
        <3>. QED  BY <2>3, <3>2
    <2>9. Stacked(p, u, w, s, g)
        BY <1>2, <2>4, <2>5, <2>6, <2>7, <2>8 DEF Stacked
    <2>. QED  BY <2>1, <2>9
<1>7. Owned(p, u, sh, own)
    BY <1>1, <1>2, <1>3 DEF Built, Owned
<1>8. Ranged(p, rs, u, Len(ss), sc)
    BY <1>1, <1>2, <1>3 DEF Built, Ranged
<1>9. Covering(p, rs, u, sc, own)
    BY <1>1, <1>2 DEF Built, Covering
<1>10. Looped(p, rs, u, sc, own)
    <2>1. Looped(p, rs, t, sc, own)
        BY DEF Built
    <2>2. \A k \in 1..n : t[k].kind = "for" =>
             (Defines(p, t, k, own[k]) => Defines(p, u, k, own[k]))
        BY <1>3 DEF Defines
    <2>. QED  BY <1>1, <1>2, <1>3, <2>1, <2>2 DEF Looped
<1>11. Named(p, ss, u, sc, own)
    BY <1>1, <1>2 DEF Built, Named
<1>12. \A k \in 2..n : u[k].kind = "fun" => u[k].name # NoName
    <2>1. \A k \in 2..n : k \in 1..n
        BY <1>2
    <2>. QED  BY <1>1, <1>3, <2>1 DEF Built
<1>. QED  BY <1>2, <1>4, <1>5, <1>6, <1>7, <1>8, <1>9, <1>10, <1>11, <1>12 DEF Built

Place == Nat \union {NoPos, Begins}

LEMMA PlacesAre ==
    ASSUME NEW s \in Seq(Place)
    PROVE  /\ Len(s) \in Nat /\ \A j \in 1..Len(s) : s[j] \in Place /\ s[j] \in Int
           /\ NoPos \in Place /\ Begins \in Place /\ NoPos # Begins /\ NoPos < 0 /\ Begins < 0
<1>1. Len(s) \in Nat /\ \A j \in 1..Len(s) : s[j] \in Place
    BY LenProperties, ElementOfSeq
<1>. QED  BY <1>1 DEF Place, NoPos, Begins

LEMMA StackedOneMore ==
    ASSUME NEW p \in Seq(Instr), NEW t \in Seq(Open), NEW w, NEW s \in Seq(Place), NEW g,
           Stacked(p, t, w, s, g), NEW x \in Jumps(p), Len(t) > 0, Len(s) > 0,
           \/ w # "if" /\ Last(s) # NoPos
           \/ t[Len(t)].kind \in MarkedBy(w) \ Closing(w)
    PROVE  Stacked(p, t, w, Append(s, x), g)
<1>1. PICK r : r = Append(s, x)
    OBVIOUS
<1>2. Len(s) \in Nat /\ (\A j \in 1..Len(s) : s[j] \in Int) /\ x \in Nat /\ Len(t) \in Nat
    <2>1. Len(s) \in Nat /\ \A j \in 1..Len(s) : s[j] \in Int
        BY PlacesAre
    <2>2. Len(t) \in Nat
        BY OpenIs
    <2>3. x \in 1..Len(p) /\ Len(p) \in Nat
        BY InstrIs DEF Jumps
    <2>. QED  BY <2>1, <2>2, <2>3
<1>3. /\ Len(r) = Len(s) + 1
      /\ \A j \in 1..(Len(s) + 1) : r[j] = IF j = Len(s) + 1 THEN x ELSE s[j]
    BY <1>1, <1>2, AppendIs DEF Place
<1>4. \A j \in 1..Len(r) : j \in 1..Len(s) \/ j = Len(s) + 1
    BY <1>2, <1>3
<1>5. r[Len(s) + 1] = x /\ \A j \in 1..Len(s) : r[j] = s[j]
    <2>1. \A j \in 1..Len(s) : j \in 1..(Len(s) + 1) /\ j # Len(s) + 1
        BY <1>2
    <2>2. Len(s) + 1 \in 1..(Len(s) + 1)
        BY <1>2
    <2>. QED  BY <1>3, <2>1, <2>2
<1>6. \A k \in 1..Len(t) : g[k] \in 0..Len(s)
    BY DEF Stacked
<1>7. g \in [1..Len(t) -> 0..Len(r)]
    <2>1. 0..Len(s) \subseteq 0..Len(r)
        BY <1>2, <1>3
    <2>2. g \in [1..Len(t) -> 0..Len(s)]
        BY DEF Stacked
    <2>. QED  BY <2>1, <2>2
<1>8. \A j \in 1..Len(r) : r[j] >= 0 => r[j] \in Jumps(p)
    BY <1>4, <1>5 DEF Stacked
<1>9. \A k \in 1..Len(t), j \in 1..Len(r) : j <= g[k] => r[j] < t[k].begin
    <2>1. \A k \in 1..Len(t) : ~(Len(s) + 1 <= g[k])
        BY <1>2, <1>6
    <2>. QED  BY <1>4, <1>5, <2>1 DEF Stacked
<1>10. \A k \in 1..Len(t) : t[k].kind \in MarkedBy(w) =>
          g[k] > 0 /\ r[g[k]] = IF t[k].kind = "fun" THEN NoPos ELSE Begins
    <2>1. \A k \in 1..Len(t) : g[k] > 0 => g[k] \in 1..Len(s)
        BY <1>2, <1>6
    <2>. QED  BY <1>5, <2>1 DEF Stacked
<1>11. \A j \in 1..Len(r) : r[j] = Begins =>
          \E k \in 1..Len(t) : t[k].kind \in MarkedBy(w) /\ j = g[k]
    <2>1. x # Begins
        BY <1>2 DEF Begins
    <2>. QED  BY <1>4, <1>5, <2>1 DEF Stacked
<1>12. ASSUME NEW k \in 1..Len(t), NEW j \in 1..Len(r), t[k].kind \in Closing(w), j > g[k]
       PROVE  \E l \in 1..Len(t) : l > k /\ t[l].kind \in MarkedBy(w) /\ g[l] <= j
    <2>1. CASE j \in 1..Len(s)
        BY <1>12, <2>1 DEF Stacked
    <2>2. CASE j = Len(s) + 1 /\ Len(s) > g[k]
        <3>1. Len(s) \in 1..Len(s)
            BY <1>2
        <3>2. PICK l \in 1..Len(t) : l > k /\ t[l].kind \in MarkedBy(w) /\ g[l] <= Len(s)
            BY <1>12, <2>2, <3>1 DEF Stacked
        <3>3. g[l] <= j
            BY <1>2, <1>6, <2>2, <3>2
        <3>. QED  BY <3>2, <3>3
    <2>3. CASE j = Len(s) + 1 /\ ~(Len(s) > g[k])
        <3>1. g[k] = Len(s)
            BY <1>2, <1>6, <2>3
        <3>2. CASE t[Len(t)].kind \in MarkedBy(w) \ Closing(w)
            <4>1. Len(t) \in 1..Len(t)
                BY <1>2
            <4>2. Len(t) > k
                <5>1. k # Len(t)
                    BY <1>12, <3>2
                <5>. QED  BY <1>2, <5>1
            <4>3. g[Len(t)] <= j
                BY <1>2, <1>6, <2>3, <4>1
            <4>. QED  BY <3>2, <4>1, <4>2, <4>3
        <3>3. CASE w # "if" /\ Last(s) # NoPos
            <4>1. t[k].kind = "fun"
                BY <1>12, <3>3 DEF Closing
            <4>2. s[g[k]] = NoPos
                BY <4>1 DEF Stacked, MarkedBy
            <4>3. Last(s) = s[Len(s)]
                BY EndsAre
            <4>. QED  BY <3>1, <3>3, <4>2, <4>3
        <3>. QED  BY <3>2, <3>3
    <2>. QED  BY <1>4, <2>1, <2>2, <2>3
<1>13. \A k, l \in 1..Len(t) : k < l =>
          g[k] <= g[l] /\ (t[l].kind \in MarkedBy(w) => g[k] < g[l])
    BY DEF Stacked
<1>. QED  BY <1>1, <1>7, <1>8, <1>9, <1>10, <1>11, <1>12, <1>13 DEF Stacked

-----------------------------------------------------------------------------
(* A construct is opened where all that is noted so far is before it.        *)
Ahead(t, n) ==
    \A k \in 1..Len(t) : /\ t[k].begin <= n /\ t[k].jump < n
                         /\ t[k].kind = "fun" => t[k].begin < n
                         /\ t[k].kind = "for" => t[k].i2 <= n
Under(s, n) == \A j \in 1..Len(s) : s[j] < n

LEMMA AheadOfHere ==
    ASSUME NEW p \in Seq(Instr), NEW t \in Seq(Open), NEW sh, NEW own,
           Placed(p, t), Owned(p, t, sh, own)
    PROVE  Ahead(t, Len(p) + 1)
<1>1. Len(p) \in Nat /\ \A i \in Jumps(p) : i \in 1..Len(p)
    BY InstrIs DEF Jumps
<1>. SUFFICES ASSUME NEW k \in 1..Len(t)
              PROVE  /\ t[k].begin <= Len(p) + 1 /\ t[k].jump < Len(p) + 1
                     /\ t[k].kind = "fun" => t[k].begin < Len(p) + 1
                     /\ t[k].kind = "for" => t[k].i2 <= Len(p) + 1
    BY DEF Ahead
<1>2. t[k].begin \in Nat /\ t[k].jump \in Int /\ t[k].i2 \in Nat
    BY OpenIs
<1>3. t[k].begin <= Len(p) + 1
    BY <1>1 DEF Placed
<1>4. t[k].jump < Len(p) + 1
    <2>1. CASE t[k].jump = NoPos
        BY <1>1, <2>1 DEF NoPos
    <2>2. CASE t[k].jump # NoPos
        <3>1. t[k].jump \in 1..Len(p)
            BY <1>1, <2>2 DEF Placed
        <3>. QED  BY <1>1, <3>1
    <2>. QED  BY <2>1, <2>2
<1>5. t[k].kind = "fun" => t[k].begin < Len(p) + 1
    BY <1>1, <1>2 DEF Owned
<1>6. t[k].kind = "for" => t[k].i2 <= Len(p) + 1
    BY DEF Placed
<1>. QED  BY <1>3, <1>4, <1>5, <1>6

LEMMA UnderHere ==
    ASSUME NEW p \in Seq(Instr), NEW t, NEW w, NEW s \in Seq(Place), NEW g,
           Stacked(p, t, w, s, g)
    PROVE  Under(s, Len(p) + 1)
<1>1. Len(p) \in Nat /\ \A i \in Jumps(p) : i \in 1..Len(p)
    BY InstrIs DEF Jumps
<1>. SUFFICES ASSUME NEW j \in 1..Len(s)
              PROVE  s[j] < Len(p) + 1
    BY DEF Under
<1>2. s[j] \in Int
    BY PlacesAre
<1>3. CASE s[j] >= 0
    <2>1. s[j] \in 1..Len(p)
        BY <1>1, <1>3 DEF Stacked
    <2>. QED  BY <1>1, <2>1
<1>4. CASE ~(s[j] >= 0)
    BY <1>1, <1>2, <1>4
<1>. QED  BY <1>3, <1>4

LEMMA PlacedPushed ==
    ASSUME NEW p \in Seq(Instr), NEW t \in Seq(Open), NEW e \in Open,
           Placed(p, t), Ahead(t, e.begin), e.begin \in 1..(Len(p) + 1),
           e.jump # NoPos => e.jump \in Jumps(p),
           e.kind = "for" => e.piece = 2 /\ e.begin <= e.i1 /\ e.i1 <= e.i2
                                /\ e.i2 <= Len(p) + 1
    PROVE  Placed(p, Append(t, e))
<1>1. PICK u, n : u = Append(t, e) /\ n = Len(t)
    OBVIOUS
<1>2. n \in Nat /\ Len(u) = n + 1 /\ \A k \in 1..(n + 1) : u[k] = IF k = n + 1 THEN e ELSE t[k]
    BY <1>1, AppendIs, OpenIs
<1>3. \A k \in 1..(n + 1) : k \in 1..n \/ k = n + 1
    BY <1>2
<1>4. u[n + 1] = e /\ \A k \in 1..n : u[k] = t[k]
    BY <1>2
<1>5. \A k, l \in 1..(n + 1) : k < l => k \in 1..n
    BY <1>2
<1>6. \A k \in 1..(n + 1) : /\ u[k].begin \in 1..(Len(p) + 1)
                            /\ u[k].jump # NoPos => u[k].jump \in Jumps(p)
    BY <1>1, <1>3, <1>4 DEF Placed
<1>7. \A k \in 1..(n + 1) : u[k].kind = "for" =>
          /\ u[k].piece = 2 /\ u[k].begin <= u[k].i1
          /\ u[k].i1 <= u[k].i2 /\ u[k].i2 <= Len(p) + 1
    BY <1>1, <1>3, <1>4 DEF Placed
<1>8. \A k, l \in 1..(n + 1) : k < l =>
          /\ u[k].begin <= u[l].begin /\ u[k].jump < u[l].begin
          /\ u[k].kind = "fun" => u[k].begin < u[l].begin
          /\ u[k].kind = "for" => u[k].i2 <= u[l].begin
    <2>1. \A k \in 1..n : /\ u[k].begin <= u[n + 1].begin /\ u[k].jump < u[n + 1].begin
                          /\ u[k].kind = "fun" => u[k].begin < u[n + 1].begin
                          /\ u[k].kind = "for" => u[k].i2 <= u[n + 1].begin
        BY <1>1, <1>4 DEF Ahead
    <2>2. \A k, l \in 1..n : k < l =>
              /\ u[k].begin <= u[l].begin /\ u[k].jump < u[l].begin
              /\ u[k].kind = "fun" => u[k].begin < u[l].begin
              /\ u[k].kind = "for" => u[k].i2 <= u[l].begin
        BY <1>1, <1>4 DEF Placed
    <2>. QED  BY <1>3, <1>5, <2>1, <2>2
<1>. QED  BY <1>1, <1>2, <1>6, <1>7, <1>8 DEF Placed

(* The mark that opening e leaves on stack w.                                *)
Marked(w, s, e) ==
    IF e.kind \in MarkedBy(w) THEN Append(s, IF e.kind = "fun" THEN NoPos ELSE Begins)
    ELSE s

Raised(t, e, w, s, g) ==
    [k \in 1..(Len(t) + 1) |-> IF k = Len(t) + 1 THEN Len(Marked(w, s, e)) ELSE g[k]]

LEMMA StackedPushed ==
    ASSUME NEW p, NEW t \in Seq(Open), NEW e \in Open, NEW w, NEW s \in Seq(Place), NEW g,
           Stacked(p, t, w, s, g), Under(s, e.begin)
    PROVE  /\ Marked(w, s, e) \in Seq(Place)
           /\ Stacked(p, Append(t, e), w, Marked(w, s, e),
                      Raised(t, e, w, s, g))
<1>1. PICK u, n, N : u = Append(t, e) /\ n = Len(t) /\ N = Len(s)
    OBVIOUS
<1>2. n \in Nat /\ Len(u) = n + 1 /\ \A k \in 1..(n + 1) : u[k] = IF k = n + 1 THEN e ELSE t[k]
    BY <1>1, AppendIs, OpenIs
<1>3. \A k \in 1..(n + 1) : k \in 1..n \/ k = n + 1
    BY <1>2
<1>4. u[n + 1] = e /\ \A k \in 1..n : u[k] = t[k]
    BY <1>2
<1>5. PICK mark : mark = IF e.kind = "fun" THEN NoPos ELSE Begins
    OBVIOUS
<1>6. mark \in Place /\ mark < 0 /\ mark \in Int
    BY <1>5, PlacesAre DEF Place, NoPos, Begins
<1>7. N \in Nat /\ \A j \in 1..N : s[j] \in Int
    BY <1>1, PlacesAre
<1>8. PICK r, M : r = Marked(w, s, e) /\ M = Len(r)
    OBVIOUS
<1>9. e.begin \in Nat
    BY DEF Open, Pos
<1>10. /\ r \in Seq(Place) /\ M = IF e.kind \in MarkedBy(w) THEN N + 1 ELSE N
       /\ \A j \in 1..N : r[j] = s[j]
       /\ e.kind \in MarkedBy(w) => r[M] = mark
    <2>1. CASE e.kind \in MarkedBy(w)
        <3>1. r = Append(s, mark)
            BY <1>5, <1>8, <2>1 DEF Marked
        <3>2. /\ r \in Seq(Place) /\ M = N + 1
              /\ \A j \in 1..(N + 1) : r[j] = IF j = N + 1 THEN mark ELSE s[j]
            BY <1>1, <1>6, <1>8, <3>1, AppendIs
        <3>3. \A j \in 1..N : j \in 1..(N + 1) /\ j # N + 1
            BY <1>7
        <3>4. N + 1 \in 1..(N + 1)
            BY <1>7
        <3>. QED  BY <2>1, <3>2, <3>3, <3>4
    <2>2. CASE e.kind \notin MarkedBy(w)
        BY <1>1, <1>8, <2>2 DEF Marked
    <2>. QED  BY <2>1, <2>2
<1>11. PICK f : f = [k \in 1..(n + 1) |-> IF k = n + 1 THEN M ELSE g[k]]
    OBVIOUS
<1>12. f[n + 1] = M /\ \A k \in 1..n : f[k] = g[k]
    BY <1>2, <1>11
<1>13. \A k \in 1..n : g[k] \in 0..N
    BY <1>1 DEF Stacked
<1>14. M \in Nat /\ N <= M /\ \A j \in 1..M : j \in 1..N \/ (j = M /\ e.kind \in MarkedBy(w))
    BY <1>7, <1>10
<1>15. f \in [1..Len(u) -> 0..M]
    <2>1. \A k \in 1..(n + 1) : (IF k = n + 1 THEN M ELSE g[k]) \in 0..M
        BY <1>3, <1>7, <1>13, <1>14
    <2>. QED  BY <1>2, <1>11, <2>1
<1>16. \A j \in 1..M : r[j] >= 0 => r[j] \in Jumps(p)
    BY <1>1, <1>6, <1>10, <1>14 DEF Stacked
<1>17. ASSUME NEW k \in 1..(n + 1), NEW j \in 1..M, j <= f[k]
       PROVE  r[j] < u[k].begin
    <2>1. CASE k \in 1..n
        <3>1. j \in 1..N
            BY <1>7, <1>12, <1>13, <1>17, <2>1
        <3>. QED  BY <1>1, <1>4, <1>10, <1>12, <1>17, <2>1, <3>1 DEF Stacked
    <2>2. CASE k = n + 1
        <3>1. CASE j \in 1..N
            BY <1>1, <1>4, <1>10, <2>2, <3>1 DEF Under
        <3>2. CASE j = M /\ e.kind \in MarkedBy(w)
            BY <1>4, <1>6, <1>9, <1>10, <2>2, <3>2
        <3>. QED  BY <1>14, <3>1, <3>2
    <2>. QED  BY <1>3, <2>1, <2>2
<1>18. ASSUME NEW k \in 1..(n + 1), u[k].kind \in MarkedBy(w)
       PROVE  f[k] > 0 /\ r[f[k]] = IF u[k].kind = "fun" THEN NoPos ELSE Begins
    <2>1. CASE k \in 1..n
        <3>1. g[k] > 0 /\ s[g[k]] = IF t[k].kind = "fun" THEN NoPos ELSE Begins
            BY <1>1, <1>4, <1>18, <2>1 DEF Stacked
        <3>2. g[k] \in 1..N
            BY <1>7, <1>13, <2>1, <3>1
        <3>. QED  BY <1>4, <1>10, <1>12, <2>1, <3>1, <3>2
    <2>2. CASE k = n + 1
        <3>1. M > 0
            BY <1>4, <1>7, <1>10, <1>18, <2>2
        <3>. QED  BY <1>4, <1>5, <1>10, <1>12, <1>18, <2>2, <3>1
    <2>. QED  BY <1>3, <2>1, <2>2
<1>19. ASSUME NEW k \in 1..(n + 1), NEW l \in 1..(n + 1), k < l
       PROVE  f[k] <= f[l] /\ (u[l].kind \in MarkedBy(w) => f[k] < f[l])
    <2>0. k \in 1..n
        BY <1>2, <1>19
    <2>1. CASE l \in 1..n
        BY <1>1, <1>4, <1>12, <1>19, <2>0, <2>1 DEF Stacked
    <2>2. CASE l = n + 1
        <3>1. g[k] \in 0..N
            BY <1>13, <2>0
        <3>. QED  BY <1>4, <1>7, <1>10, <1>12, <1>14, <2>0, <2>2, <3>1
    <2>. QED  BY <1>3, <2>1, <2>2
<1>20. ASSUME NEW j \in 1..M, r[j] = Begins
       PROVE  \E k \in 1..(n + 1) : u[k].kind \in MarkedBy(w) /\ j = f[k]
    <2>1. CASE j \in 1..N
        <3>1. PICK k \in 1..n : t[k].kind \in MarkedBy(w) /\ j = g[k]
            BY <1>1, <1>10, <1>20, <2>1 DEF Stacked
        <3>2. k \in 1..(n + 1)
            BY <1>2
        <3>. QED  BY <1>4, <1>12, <3>1, <3>2
    <2>2. CASE j = M /\ e.kind \in MarkedBy(w)
        <3>1. n + 1 \in 1..(n + 1)
            BY <1>2
        <3>. QED  BY <1>4, <1>12, <2>2, <3>1
    <2>. QED  BY <1>14, <2>1, <2>2
<1>21. ASSUME NEW k \in 1..(n + 1), NEW j \in 1..M, u[k].kind \in Closing(w), j > f[k]
       PROVE  \E l \in 1..(n + 1) : l > k /\ u[l].kind \in MarkedBy(w) /\ f[l] <= j
    <2>0. k \in 1..n
        <3>1. k # n + 1
            BY <1>12, <1>14, <1>21
        <3>. QED  BY <1>3, <3>1
    <2>1. CASE j \in 1..N
        <3>1. PICK l \in 1..n : l > k /\ t[l].kind \in MarkedBy(w) /\ g[l] <= j
            BY <1>1, <1>4, <1>12, <1>21, <2>0, <2>1 DEF Stacked
        <3>2. l \in 1..(n + 1)
            BY <1>2
        <3>. QED  BY <1>4, <1>12, <3>1, <3>2
    <2>2. CASE j = M /\ e.kind \in MarkedBy(w)
        <3>1. n + 1 \in 1..(n + 1) /\ n + 1 > k
            BY <1>2, <2>0
        <3>2. f[n + 1] <= j
            BY <1>12, <1>14, <2>2
        <3>. QED  BY <1>4, <2>2, <3>1, <3>2
    <2>. QED  BY <1>14, <2>1, <2>2
<1>22. Stacked(p, u, w, r, f)
    BY <1>2, <1>8, <1>15, <1>16, <1>17, <1>18, <1>19, <1>20, <1>21 DEF Stacked
<1>23. f = Raised(t, e, w, s, g)
    BY <1>1, <1>8, <1>11 DEF Raised
<1>. QED  BY <1>1, <1>8, <1>10, <1>22, <1>23

LEMMA BuiltPushed ==
    ASSUME NEW p \in Seq(Instr), NEW t \in Seq(Open), NEW e \in Open,
           NEW st, NEW su, \A w \in Which : st[w] \in Seq(Place),
           NEW sh \in Seq(Shape), NEW ss \in Seq(Seq(Ident)), NEW rs \in Seq(CodeRange),
           NEW sc, NEW own, NEW h, Built(p, t, st, sh, ss, rs, sc, own, h),
           e.kind # "fun", Ahead(t, e.begin), \A w \in Which : Under(st[w], e.begin),
           e.begin \in 1..(Len(p) + 1), e.jump # NoPos => e.jump \in Jumps(p),
           \A m \in 1..Len(rs) : rs[m].begin <= e.begin,
           e.kind = "for" => /\ e.piece = 2 /\ e.begin <= e.i1 /\ e.i1 <= e.i2
                             /\ e.i2 <= Len(p) + 1
                             /\ \A i \in 1..Len(p) : e.i1 <= i /\ i < e.i2 =>
                                  p[i].fn = own[Len(t)] /\ InPiece(p[i], e.of, 3),
           \A w \in Which : su[w] = Marked(w, st[w], e)
    PROVE  \E sd, owm, g : Built(p, Append(t, e), su, sh, ss, rs, sd, owm, g)
<1>1. PICK u, n : u = Append(t, e) /\ n = Len(t)
    OBVIOUS
<1>2. n \in Nat /\ Len(u) = n + 1 /\ u \in Seq(Open)
      /\ \A k \in 1..(n + 1) : u[k] = IF k = n + 1 THEN e ELSE t[k]
    BY <1>1, AppendIs, OpenIs
<1>3. \A k \in 1..(n + 1) : k \in 1..n \/ k = n + 1
    BY <1>2
<1>4. u[n + 1] = e /\ \A k \in 1..n : u[k] = t[k]
    BY <1>2
<1>5. n > 0 /\ n \in 1..n
    BY <1>1, <1>2 DEF Built, Scoped
<1>6. PICK sd, owm, g :
        /\ sd = [k \in 1..(n + 1) |-> IF k = n + 1 THEN sc[n] ELSE sc[k]]
        /\ owm = [k \in 1..(n + 1) |-> IF k = n + 1 THEN own[n] ELSE own[k]]
        /\ g = [w \in Which |-> Raised(t, e, w, st[w], h[w])]
    OBVIOUS
<1>7. /\ sd[n + 1] = sc[n] /\ owm[n + 1] = own[n]
      /\ \A k \in 1..n : sd[k] = sc[k] /\ owm[k] = own[k]
    BY <1>2, <1>6
<1>8. Scoped(u, Len(ss), Len(sh), sd, owm)
    <2>1. Scoped(t, Len(ss), Len(sh), sc, own)
        BY DEF Built
    <2>2. /\ 1 \in 1..n /\ u[1].kind = "fun" /\ sd[1] = 1 /\ sd[n + 1] = Len(ss)
          /\ \A k \in 1..n : sc[k] \in 1..Len(ss) /\ own[k] \in 1..Len(sh)
        <3>1. 1 \in 1..n
            BY <1>2, <1>5
        <3>2. t[1].kind = "fun" /\ sc[1] = 1 /\ sc[n] = Len(ss)
            BY <1>1, <2>1 DEF Scoped
        <3>3. sc \in [1..n -> 1..Len(ss)] /\ own \in [1..n -> 1..Len(sh)]
            BY <1>1, <2>1 DEF Scoped
        <3>. QED  BY <1>4, <1>7, <3>1, <3>2, <3>3
    <2>3. sd \in [1..(n + 1) -> 1..Len(ss)] /\ owm \in [1..(n + 1) -> 1..Len(sh)]
        BY <1>3, <1>5, <1>6, <2>2
    <2>4. ASSUME NEW k \in 2..(n + 1), u[k].kind = "fun"
          PROVE  sd[k] = sd[k - 1] + 1
        <3>1. k # n + 1
            BY <1>4, <2>4
        <3>2. k \in 2..n /\ k \in 1..n /\ k - 1 \in 1..n
            BY <1>2, <3>1
        <3>. QED  BY <1>1, <1>4, <1>7, <2>1, <2>4, <3>2 DEF Scoped
    <2>5. ASSUME NEW k \in 1..(n + 1), NEW l \in 1..(n + 1), k < l
          PROVE  IF \E j \in (k + 1)..l : u[j].kind = "fun"
                 THEN sd[k] < sd[l] /\ owm[k] < owm[l]
                 ELSE sd[k] = sd[l] /\ owm[k] = owm[l]
        <3>0. k \in 1..n
            BY <1>2, <2>5
        <3>1. CASE l \in 1..n
            <4>1. \A j \in (k + 1)..l : j \in 1..n
                BY <1>2, <3>0, <3>1
            <4>2. (\E j \in (k + 1)..l : u[j].kind = "fun")
                     <=> (\E j \in (k + 1)..l : t[j].kind = "fun")
                BY <1>4, <4>1
            <4>3. IF \E j \in (k + 1)..l : t[j].kind = "fun"
                  THEN sc[k] < sc[l] /\ own[k] < own[l]
                  ELSE sc[k] = sc[l] /\ own[k] = own[l]
                BY <1>1, <2>1, <2>5, <3>0, <3>1 DEF Scoped
            <4>. QED  BY <1>7, <3>0, <3>1, <4>2, <4>3
        <3>2. CASE l = n + 1
            <4>1. \A j \in (k + 1)..(n + 1) : j \in (k + 1)..n \/ j = n + 1
                BY <1>2, <3>0
            <4>2. \A j \in (k + 1)..n : j \in 1..n /\ j \in (k + 1)..(n + 1)
                BY <1>2, <3>0
            <4>3. (\E j \in (k + 1)..l : u[j].kind = "fun")
                     <=> (\E j \in (k + 1)..n : t[j].kind = "fun")
                BY <1>4, <3>2, <4>1, <4>2
            <4>4. CASE k = n
                <5>1. ~ \E j \in (k + 1)..n : t[j].kind = "fun"
                    BY <1>2, <4>4
                <5>. QED  BY <1>7, <3>0, <3>2, <4>3, <4>4, <5>1
            <4>5. CASE k # n
                <5>1. k < n
                    BY <1>2, <3>0, <4>5
                <5>2. IF \E j \in (k + 1)..n : t[j].kind = "fun"
                      THEN sc[k] < sc[n] /\ own[k] < own[n]
                      ELSE sc[k] = sc[n] /\ own[k] = own[n]
                    BY <1>1, <1>5, <2>1, <3>0, <5>1 DEF Scoped
                <5>. QED  BY <1>7, <3>0, <3>2, <4>3, <5>2
            <4>. QED  BY <4>4, <4>5
        <3>. QED  BY <1>3, <3>1, <3>2
    <2>6. n + 1 > 0
        BY <1>2
    <2>. QED  BY <1>2, <2>2, <2>3, <2>4, <2>5, <2>6 DEF Scoped
<1>9. Placed(p, u)
    BY <1>1, PlacedPushed DEF Built
<1>10. ASSUME NEW w \in Which
       PROVE  Stacked(p, u, w, su[w], g[w])
    <2>1. Stacked(p, t, w, st[w], h[w]) /\ st[w] \in Seq(Place) /\ Under(st[w], e.begin)
        BY DEF Built
    <2>2. Stacked(p, Append(t, e), w, Marked(w, st[w], e), Raised(t, e, w, st[w], h[w]))
        BY <2>1, StackedPushed
    <2>3. g[w] = Raised(t, e, w, st[w], h[w])
        BY <1>6
    <2>. QED  BY <1>1, <2>2, <2>3
<1>11. Owned(p, u, sh, owm)
    <2>1. Owned(p, t, sh, own)
        BY DEF Built
    <2>2. \A k \in 1..(n + 1) : u[k].kind = "fun" => k \in 1..n
        BY <1>3, <1>4
    <2>3. ASSUME NEW k \in 1..(n + 1), u[k].kind = "fun"
          PROVE  /\ u[k].begin <= Len(p) /\ p[u[k].begin].op = "Function"
                 /\ p[u[k].begin].c = owm[k] /\ sh[owm[k]].offset = 0
                 /\ \A i \in 1..Len(p) :
                       IF i > u[k].begin THEN p[i].fn >= owm[k] ELSE p[i].fn < owm[k]
        <3>1. k \in 1..n /\ u[k] = t[k] /\ owm[k] = own[k] /\ t[k].kind = "fun"
            BY <1>4, <1>7, <2>2, <2>3
        <3>. QED  BY <1>1, <2>1, <3>1 DEF Owned
    <2>. QED  BY <1>2, <2>1, <2>3 DEF Owned
<1>12. Ranged(p, rs, u, Len(ss), sd)
    <2>1. Ranged(p, rs, t, Len(ss), sc)
        BY DEF Built
    <2>2. \A k \in 1..(n + 1) : u[k].kind = "fun" => k \in 1..n
        BY <1>3, <1>4
    <2>. QED  BY <1>1, <1>2, <1>4, <1>7, <2>1, <2>2 DEF Ranged
<1>13. Covering(p, rs, u, sd, owm)
    <2>1. Covering(p, rs, t, sc, own)
        BY DEF Built
    <2>. QED  BY <1>1, <1>2, <1>3, <1>5, <1>7, <2>1 DEF Covering
<1>14. Looped(p, rs, u, sd, owm)
    <2>1. Looped(p, rs, t, sc, own)
        BY DEF Built
    <2>2. ASSUME NEW k \in 1..(n + 1), u[k].kind = "for"
          PROVE  /\ \A i \in 1..Len(p) : u[k].i1 <= i /\ i < u[k].i2 =>
                      p[i].fn = owm[k] /\ InPiece(p[i], u[k].of, 3)
                 /\ \/ Defines(p, u, k, owm[k])
                    \/ /\ \A l \in 1..(n + 1) : l > k => u[l].kind # "fun"
                       /\ \A m \in 1..Len(rs) : rs[m].scope = sd[k] => rs[m].begin <= u[k].i1
        <3>1. CASE k \in 1..n
            <4>1. /\ \A i \in 1..Len(p) : t[k].i1 <= i /\ i < t[k].i2 =>
                        p[i].fn = own[k] /\ InPiece(p[i], t[k].of, 3)
                  /\ \/ Defines(p, t, k, own[k])
                     \/ /\ \A l \in 1..n : l > k => t[l].kind # "fun"
                        /\ \A m \in 1..Len(rs) : rs[m].scope = sc[k] => rs[m].begin <= t[k].i1
                BY <1>1, <1>4, <2>1, <2>2, <3>1 DEF Looped
            <4>2. Defines(p, t, k, own[k]) => Defines(p, u, k, owm[k])
                BY <1>4, <1>7, <3>1 DEF Defines
            <4>. QED  BY <1>3, <1>4, <1>7, <3>1, <4>1, <4>2
        <3>2. CASE k = n + 1
            <4>1. \A l \in 1..(n + 1) : ~(l > k)
                BY <1>2, <3>2
            <4>2. \A m \in 1..Len(rs) : rs[m].begin <= e.i1
                <5>1. \A m \in 1..Len(rs) : rs[m].begin \in Nat /\ rs[m].begin <= e.begin
                    BY RangesAre
                <5>2. e.begin <= e.i1 /\ e.begin \in Nat /\ e.i1 \in Nat
                    BY <1>4, <2>2, <3>2 DEF Open, Pos
                <5>. QED  BY <5>1, <5>2
            <4>. QED  BY <1>1, <1>4, <1>7, <2>2, <3>2, <4>1, <4>2
        <3>. QED  BY <1>3, <3>1, <3>2
    <2>. QED  BY <1>2, <2>2 DEF Looped
<1>15. Named(p, ss, u, sd, owm)
    <2>1. Named(p, ss, t, sc, own)
        BY DEF Built
    <2>2. ASSUME NEW k \in 1..(n + 1)
          PROVE  \E l \in 1..n : owm[k] = own[l] /\ sd[k] = sc[l]
        BY <1>3, <1>5, <1>7
    <2>3. ASSUME NEW k \in 1..(n + 1), NEW i \in 1..Len(p), p[i].fn = owm[k], p[i].name # NoName
          PROVE  \/ p[i].op \in Symbolic
                 \/ /\ p[i].op = "StoreLocal" /\ p[i].name \in ToSet(ss[sd[k]])
                    /\ p[i].c = IndexIn(ss[sd[k]], p[i].name)
        <3>1. PICK l \in 1..n : owm[k] = own[l] /\ sd[k] = sc[l]
            BY <2>2
        <3>. QED  BY <1>1, <2>1, <2>3, <3>1 DEF Named
    <2>. QED  BY <1>2, <2>1, <2>3 DEF Named
<1>16. \A k \in 2..(n + 1) : u[k].kind = "fun" => u[k].name # NoName
    <2>1. \A k \in 2..(n + 1) : k \in 2..n \/ k = n + 1
        BY <1>2
    <2>2. \A k \in 2..n : k \in 1..n
        BY <1>2
    <2>. QED  BY <1>1, <1>4, <2>1, <2>2 DEF Built
<1>. QED  BY <1>1, <1>2, <1>8, <1>9, <1>10, <1>11, <1>12, <1>13, <1>14, <1>15, <1>16 DEF Built

-----------------------------------------------------------------------------
(* A construct is closed: the stacks are cut back to where its marks were.   *)
Cut(s, r, m) == Len(r) = m /\ \A j \in 1..m : r[j] = s[j]

LEMMA StackedPopped ==
    ASSUME NEW p, NEW t \in Seq(Open), NEW w, NEW s \in Seq(Place), NEW g,
           Stacked(p, t, w, s, g), Len(t) > 1, NEW r \in Seq(Place),
           Cut(s, r, IF t[Len(t)].kind \in MarkedBy(w) THEN g[Len(t)] - 1 ELSE Len(s))
    PROVE  /\ Stacked(p, Front(t), w, r, [k \in 1..(Len(t) - 1) |-> g[k]])
           /\ t[Len(t)].kind \in {"fun", "while", "for"} => Under(r, t[Len(t)].begin)
<1>1. PICK u, n, N, M : u = Front(t) /\ n = Len(t) /\ N = Len(s) /\ M = Len(r)
    OBVIOUS
<1>2. n \in Nat /\ n > 1 /\ N \in Nat /\ M \in Nat
    BY <1>1, OpenIs, PlacesAre
<1>3. Len(u) = n - 1 /\ \A k \in 1..(n - 1) : u[k] = t[k]
    <2>1. Len(t) > 0
        BY <1>1, <1>2
    <2>. QED  BY <1>1, <2>1, EndsAre
<1>4. \A k \in 1..(n - 1) : k \in 1..n /\ k < n
    BY <1>2
<1>5. n \in 1..n /\ \A k \in 1..n : k = n \/ k \in 1..(n - 1)
    BY <1>2
<1>6. \A k \in 1..n : g[k] \in 0..N
    BY <1>1 DEF Stacked
<1>7. PICK marked : marked = (t[n].kind \in MarkedBy(w))
    OBVIOUS
<1>8. CASE t[n].kind \in MarkedBy(w)
    <2>1. g[n] > 0 /\ g[n] \in 1..N
        <3>1. g[n] > 0
            BY <1>1, <1>5, <1>8 DEF Stacked
        <3>. QED  BY <1>2, <1>5, <1>6, <3>1
    <2>2. M = g[n] - 1 /\ \A j \in 1..M : j \in 1..N /\ j < g[n] /\ r[j] = s[j]
        <3>1. M = g[n] - 1 /\ \A j \in 1..(g[n] - 1) : r[j] = s[j]
            BY <1>1, <1>8 DEF Cut
        <3>2. \A j \in 1..(g[n] - 1) : j \in 1..N /\ j < g[n]
            BY <1>2, <2>1
        <3>. QED  BY <3>1, <3>2
    <2>3. \A k \in 1..(n - 1) : g[k] < g[n] /\ g[k] \in 0..M
        <3>1. \A k \in 1..(n - 1) : g[k] < g[n]
            BY <1>1, <1>4, <1>5, <1>8 DEF Stacked
        <3>. QED  BY <1>4, <1>6, <2>1, <2>2, <3>1
    <2>4. PICK f : f = [k \in 1..(n - 1) |-> g[k]]
        OBVIOUS
    <2>5. f \in [1..Len(u) -> 0..M] /\ \A k \in 1..(n - 1) : f[k] = g[k]
        BY <1>3, <2>3, <2>4
    <2>6. \A j \in 1..M : r[j] >= 0 => r[j] \in Jumps(p)
        BY <1>1, <2>2 DEF Stacked
    <2>7. \A k \in 1..(n - 1), j \in 1..M : j <= f[k] => r[j] < u[k].begin
        BY <1>1, <1>3, <1>4, <2>2, <2>5 DEF Stacked
    <2>8. ASSUME NEW k \in 1..(n - 1), u[k].kind \in MarkedBy(w)
          PROVE  f[k] > 0 /\ r[f[k]] = IF u[k].kind = "fun" THEN NoPos ELSE Begins
        <3>1. g[k] > 0 /\ s[g[k]] = IF t[k].kind = "fun" THEN NoPos ELSE Begins
            BY <1>1, <1>3, <1>4, <2>8 DEF Stacked
        <3>2. g[k] \in 1..M
            BY <1>2, <2>3, <3>1
        <3>. QED  BY <1>3, <2>2, <2>5, <3>1, <3>2
    <2>9. \A k, l \in 1..(n - 1) : k < l =>
             f[k] <= f[l] /\ (u[l].kind \in MarkedBy(w) => f[k] < f[l])
        BY <1>1, <1>3, <1>4, <2>5 DEF Stacked
    <2>10. ASSUME NEW j \in 1..M, r[j] = Begins
           PROVE  \E k \in 1..(n - 1) : u[k].kind \in MarkedBy(w) /\ j = f[k]
        <3>1. PICK k \in 1..n : t[k].kind \in MarkedBy(w) /\ j = g[k]
            BY <1>1, <2>2, <2>10 DEF Stacked
        <3>2. k # n
            BY <2>1, <2>2, <3>1
        <3>. QED  BY <1>3, <1>5, <2>5, <3>1, <3>2
    <2>11. ASSUME NEW k \in 1..(n - 1), NEW j \in 1..M, u[k].kind \in Closing(w), j > f[k]
           PROVE  \E l \in 1..(n - 1) : l > k /\ u[l].kind \in MarkedBy(w) /\ f[l] <= j
        <3>1. PICK l \in 1..n : l > k /\ t[l].kind \in MarkedBy(w) /\ g[l] <= j
            BY <1>1, <1>3, <1>4, <2>2, <2>5, <2>11 DEF Stacked
        <3>2. l # n
            BY <2>1, <2>2, <3>1
        <3>. QED  BY <1>3, <1>5, <2>5, <3>1, <3>2
    <2>12. Stacked(p, u, w, r, f)
        BY <1>1, <1>3, <2>5, <2>6, <2>7, <2>8, <2>9, <2>10, <2>11 DEF Stacked
    <2>13. Under(r, t[n].begin)
        <3>1. \A j \in 1..M : j <= g[n]
            BY <2>1, <2>2
        <3>. QED  BY <1>1, <1>5, <2>2, <3>1 DEF Stacked, Under
    <2>. QED  BY <1>1, <2>4, <2>12, <2>13
<1>9. CASE t[n].kind \notin MarkedBy(w)
    <2>2. M = N /\ \A j \in 1..M : r[j] = s[j]
        BY <1>1, <1>9 DEF Cut
    <2>4. PICK f : f = [k \in 1..(n - 1) |-> g[k]]
        OBVIOUS
    <2>5. f \in [1..Len(u) -> 0..M] /\ \A k \in 1..(n - 1) : f[k] = g[k]
        BY <1>3, <1>4, <1>6, <2>2, <2>4
    <2>6. \A j \in 1..M : r[j] >= 0 => r[j] \in Jumps(p)
        BY <1>1, <2>2 DEF Stacked
    <2>7. \A k \in 1..(n - 1), j \in 1..M : j <= f[k] => r[j] < u[k].begin
        BY <1>1, <1>3, <1>4, <2>2, <2>5 DEF Stacked
    <2>8. ASSUME NEW k \in 1..(n - 1), u[k].kind \in MarkedBy(w)
          PROVE  f[k] > 0 /\ r[f[k]] = IF u[k].kind = "fun" THEN NoPos ELSE Begins
        <3>1. g[k] > 0 /\ s[g[k]] = IF t[k].kind = "fun" THEN NoPos ELSE Begins
            BY <1>1, <1>3, <1>4, <2>8 DEF Stacked
        <3>2. g[k] \in 1..M
            BY <1>2, <1>4, <1>6, <2>2, <3>1
        <3>. QED  BY <1>3, <2>2, <2>5, <3>1, <3>2
    <2>9. \A k, l \in 1..(n - 1) : k < l =>
             f[k] <= f[l] /\ (u[l].kind \in MarkedBy(w) => f[k] < f[l])
        BY <1>1, <1>3, <1>4, <2>5 DEF Stacked
    <2>10. ASSUME NEW j \in 1..M, r[j] = Begins
           PROVE  \E k \in 1..(n - 1) : u[k].kind \in MarkedBy(w) /\ j = f[k]
        <3>1. PICK k \in 1..n : t[k].kind \in MarkedBy(w) /\ j = g[k]
            BY <1>1, <2>2, <2>10 DEF Stacked
        <3>2. k # n
            BY <1>9, <3>1
        <3>. QED  BY <1>3, <1>5, <2>5, <3>1, <3>2
    <2>11. ASSUME NEW k \in 1..(n - 1), NEW j \in 1..M, u[k].kind \in Closing(w), j > f[k]
           PROVE  \E l \in 1..(n - 1) : l > k /\ u[l].kind \in MarkedBy(w) /\ f[l] <= j
        <3>1. PICK l \in 1..n : l > k /\ t[l].kind \in MarkedBy(w) /\ g[l] <= j
            BY <1>1, <1>3, <1>4, <2>2, <2>5, <2>11 DEF Stacked
        <3>2. l # n
            BY <1>9, <3>1
        <3>. QED  BY <1>3, <1>5, <2>5, <3>1, <3>2
    <2>12. Stacked(p, u, w, r, f)
        BY <1>1, <1>3, <2>5, <2>6, <2>7, <2>8, <2>9, <2>10, <2>11 DEF Stacked
    <2>13. ASSUME t[n].kind \in {"fun", "while", "for"}
           PROVE  Under(r, t[n].begin)
        <3>1. t[n].kind \in Closing(w)
            BY <1>9, <2>13 DEF MarkedBy, Closing
        <3>2. \A j \in 1..N : ~(j > g[n])
            <4>1. \A l \in 1..n : ~(l > n)
                BY <1>2
            <4>. QED  BY <1>1, <1>5, <3>1, <4>1 DEF Stacked
        <3>3. \A j \in 1..N : j <= g[n]
            BY <1>2, <1>5, <1>6, <3>2
        <3>. QED  BY <1>1, <1>5, <2>2, <3>3 DEF Stacked, Under
    <2>. QED  BY <1>1, <2>4, <2>12, <2>13
<1>. QED  BY <1>8, <1>9

(* stack_segment_end_fixup finds the mark of the construct that ends, and
   the end of a function the one below which there is nothing of its own.    *)
LEMMA EndedIs ==
    ASSUME NEW p, NEW t \in Seq(Open), NEW w, NEW s \in Seq(Place), NEW g,
           Stacked(p, t, w, s, g), Len(t) > 0, t[Len(t)].kind \in MarkedBy(w) \ {"fun"}
    PROVE  /\ Ended(s) \in Seq(Place) /\ Cut(s, Ended(s), g[Len(t)] - 1)
           /\ \A i \in Segment(s) : i >= 0 => i \in Jumps(p)
<1>1. PICK n, N : n = Len(t) /\ N = Len(s)
    OBVIOUS
<1>2. n \in Nat /\ n > 0 /\ N \in Nat /\ n \in 1..n /\ DOMAIN s = 1..N
    BY <1>1, OpenIs, PlacesAre, LenProperties
<1>3. g[n] \in 0..N /\ g[n] > 0 /\ s[g[n]] = Begins
    BY <1>1, <1>2 DEF Stacked
<1>4. g[n] \in 1..N
    BY <1>2, <1>3
<1>5. PICK B : B = {i \in DOMAIN s : s[i] = Begins}
    OBVIOUS
<1>6. B \subseteq Int /\ g[n] \in B
    BY <1>2, <1>3, <1>4, <1>5
<1>7. \A j \in B : j <= g[n]
    <2>. TAKE j \in B
    <2>1. j \in 1..N /\ s[j] = Begins
        BY <1>2, <1>5
    <2>2. PICK k \in 1..n : j = g[k]
        BY <1>1, <2>1 DEF Stacked
    <2>3. CASE k = n
        BY <1>4, <2>2, <2>3
    <2>4. CASE k # n
        <3>1. k < n
            BY <1>2, <2>4
        <3>. QED  BY <1>1, <1>2, <2>2, <3>1 DEF Stacked
    <2>. QED  BY <2>3, <2>4
<1>8. MarkOf(s) = g[n]
    <2>1. Max(B) = g[n]
        BY <1>6, <1>7, MaxIs
    <2>. QED  BY <1>5, <2>1 DEF MarkOf
<1>9. PICK m, r : m = g[n] - 1 /\ r = SubSeq(s, 1, m)
    OBVIOUS
<1>10. m \in Nat /\ m < N
    BY <1>2, <1>4, <1>9
<1>11. \A i \in 1..m : s[i] \in Place
    <2>1. \A i \in 1..m : i \in 1..N
        BY <1>2, <1>10
    <2>. QED  BY <1>1, <2>1, PlacesAre
<1>12. /\ r \in Seq(Place) /\ Len(r) = IF 1 <= m THEN m - 1 + 1 ELSE 0
       /\ \A i \in 1..(m - 1 + 1) : r[i] = s[1 + i - 1]
    <2>1. 1 \in Int /\ m \in Int
        BY <1>10
    <2>. QED  BY <1>9, <1>11, <2>1, SubSeqProperties
<1>13. Len(r) = m
    <2>1. PICK l : l = Len(r)
        OBVIOUS
    <2>2. l = m
        BY <1>10, <1>12, <2>1
    <2>. QED  BY <2>1, <2>2
<1>14. \A i \in 1..m : r[i] = s[i]
    <2>1. \A i \in 1..m : i \in 1..(m - 1 + 1) /\ 1 + i - 1 = i
        BY <1>10
    <2>. QED  BY <1>12, <2>1
<1>15. Ended(s) = r
    BY <1>8, <1>9 DEF Ended
<1>16. \A i \in Segment(s) : i >= 0 => i \in Jumps(p)
    <2>1. \A j \in (g[n] + 1)..N : j \in 1..N
        BY <1>2, <1>4
    <2>. QED  BY <1>1, <1>8, <2>1 DEF Segment, Stacked
<1>. QED  BY <1>1, <1>9, <1>12, <1>13, <1>14, <1>15, <1>16 DEF Cut

LEMMA FunMarkIs ==
    ASSUME NEW p, NEW t \in Seq(Open), NEW w, NEW s \in Seq(Place), NEW g,
           Stacked(p, t, w, s, g), Len(t) > 0, t[Len(t)].kind = "fun"
    PROVE  Len(s) > 0 /\ Front(s) \in Seq(Place) /\ Cut(s, Front(s), g[Len(t)] - 1)
<1>1. PICK n, N : n = Len(t) /\ N = Len(s)
    OBVIOUS
<1>2. n \in Nat /\ n > 0 /\ N \in Nat /\ n \in 1..n
    BY <1>1, OpenIs, PlacesAre
<1>3. g[n] \in 0..N /\ g[n] > 0
    BY <1>1, <1>2 DEF Stacked, MarkedBy
<1>4. \A j \in 1..N : ~(j > g[n])
    <2>1. \A l \in 1..n : ~(l > n)
        BY <1>2
    <2>2. t[n].kind \in Closing(w)
        BY <1>1 DEF Closing
    <2>. QED  BY <1>1, <1>2, <2>1, <2>2 DEF Stacked
<1>5. g[n] = N /\ N > 0
    <2>1. N \in 1..N
        BY <1>2, <1>3
    <2>. QED  BY <1>2, <1>3, <1>4, <2>1
<1>6. /\ Front(s) \in Seq(Place) /\ Len(Front(s)) = N - 1
      /\ \A i \in 1..(N - 1) : Front(s)[i] = s[i]
    BY <1>1, <1>5, EndsAre
<1>. QED  BY <1>1, <1>5, <1>6 DEF Cut

(* What is popped of the stacks with the innermost construct.                *)
Unwound(t, st, su, h) ==
    \A w \in Which : Cut(st[w], su[w], IF t[Len(t)].kind \in MarkedBy(w)
                                      THEN h[w][Len(t)] - 1 ELSE Len(st[w]))

Shortened(p, t, su, sh, ss, rs, f) ==
    /\ Front(t) \in Seq(Open) /\ Ahead(Front(t), t[Len(t)].begin)
    /\ t[Len(t)].kind # "if" => \A w \in Which : Under(su[w], t[Len(t)].begin)
    /\ \E sd, owm, g : /\ Built(p, Front(t), su, sh, ss, rs, sd, owm, g)
                       /\ owm[Len(Front(t))] = f

LEMMA PlacedPopped ==
    ASSUME NEW p, NEW t \in Seq(Open), Len(t) > 1, Placed(p, t)
    PROVE  Placed(p, Front(t))
<1>1. PICK u, n : u = Front(t) /\ n = Len(t)
    OBVIOUS
<1>2. n \in Nat /\ n > 1
    BY <1>1, OpenIs
<1>3. Len(u) = n - 1 /\ \A k \in 1..(n - 1) : u[k] = t[k]
    <2>1. Len(t) > 0
        BY <1>1, <1>2
    <2>. QED  BY <1>1, <2>1, EndsAre
<1>4. \A k \in 1..(n - 1) : k \in 1..n
    BY <1>2
<1>5. ASSUME NEW k \in 1..(n - 1)
      PROVE  /\ u[k].begin \in 1..(Len(p) + 1)
             /\ u[k].jump # NoPos => u[k].jump \in Jumps(p)
             /\ u[k].kind = "for" => /\ u[k].piece = 2 /\ u[k].begin <= u[k].i1
                                     /\ u[k].i1 <= u[k].i2 /\ u[k].i2 <= Len(p) + 1
    <2>1. u[k] = t[k] /\ k \in 1..Len(t)
        BY <1>1, <1>3, <1>4
    <2>. QED  BY <2>1 DEF Placed
<1>6. ASSUME NEW k \in 1..(n - 1), NEW l \in 1..(n - 1), k < l
      PROVE  /\ u[k].begin <= u[l].begin /\ u[k].jump < u[l].begin
             /\ u[k].kind = "fun" => u[k].begin < u[l].begin
             /\ u[k].kind = "for" => u[k].i2 <= u[l].begin
    <2>1. u[k] = t[k] /\ u[l] = t[l] /\ k \in 1..Len(t) /\ l \in 1..Len(t)
        BY <1>1, <1>3, <1>4
    <2>. QED  BY <1>6, <2>1 DEF Placed
<1>. QED  BY <1>1, <1>3, <1>5, <1>6 DEF Placed

LEMMA BuiltPopped ==
    ASSUME NEW p, NEW t \in Seq(Open),
           NEW st, NEW su, \A w \in Which : st[w] \in Seq(Place) /\ su[w] \in Seq(Place),
           NEW sh \in Seq(Shape), NEW ss \in Seq(Seq(Ident)), NEW rs \in Seq(CodeRange),
           NEW sc, NEW own, NEW h, Built(p, t, st, sh, ss, rs, sc, own, h),
           t[Len(t)].kind # "fun",
           Unwound(t, st, su, h)
    PROVE  Shortened(p, t, su, sh, ss, rs, own[Len(t)])
<1>1. PICK u, n : u = Front(t) /\ n = Len(t)
    OBVIOUS
<1>2. n \in Nat /\ n > 1
    <2>1. n \in Nat /\ n > 0 /\ t[1].kind = "fun"
        BY <1>1, OpenIs DEF Built, Scoped
    <2>2. n # 1
        BY <1>1, <2>1
    <2>. QED  BY <2>1, <2>2
<1>3. u \in Seq(Open) /\ Len(u) = n - 1 /\ \A k \in 1..(n - 1) : u[k] = t[k]
    <2>1. Len(t) > 0
        BY <1>1, <1>2
    <2>. QED  BY <1>1, <2>1, EndsAre
<1>4. \A k \in 1..(n - 1) : k \in 1..n /\ k < n
    BY <1>2
<1>5. n \in 1..n /\ n - 1 \in 1..(n - 1) /\ n - 1 \in 1..n /\ n - 1 < n /\ 1 \in 1..(n - 1)
    BY <1>2
<1>6. PICK sd, owm, g :
        /\ sd = [k \in 1..(n - 1) |-> sc[k]] /\ owm = [k \in 1..(n - 1) |-> own[k]]
        /\ g = [w \in Which |-> [k \in 1..(Len(t) - 1) |-> h[w][k]]]
    OBVIOUS
<1>7. \A k \in 1..(n - 1) : sd[k] = sc[k] /\ owm[k] = own[k]
    BY <1>6
<1>8. own[n - 1] = own[n] /\ sc[n - 1] = sc[n]
    <2>1. \A j \in ((n - 1) + 1)..n : j = n
        BY <1>2
    <2>2. ~ \E j \in ((n - 1) + 1)..n : t[j].kind = "fun"
        BY <1>1, <2>1
    <2>. QED  BY <1>1, <1>5, <2>2 DEF Built, Scoped
<1>9. Scoped(u, Len(ss), Len(sh), sd, owm)
    <2>1. Scoped(t, Len(ss), Len(sh), sc, own)
        BY DEF Built
    <2>2. sc \in [1..n -> 1..Len(ss)] /\ own \in [1..n -> 1..Len(sh)]
        BY <1>1, <2>1 DEF Scoped
    <2>3. sd \in [1..(n - 1) -> 1..Len(ss)] /\ owm \in [1..(n - 1) -> 1..Len(sh)]
        BY <1>4, <1>6, <2>2
    <2>4. u[1].kind = "fun" /\ sd[1] = 1 /\ sd[n - 1] = Len(ss)
        <3>1. t[1].kind = "fun" /\ sc[1] = 1 /\ sc[n] = Len(ss)
            BY <1>1, <2>1 DEF Scoped
        <3>. QED  BY <1>3, <1>5, <1>7, <1>8, <3>1
    <2>5. ASSUME NEW k \in 2..(n - 1), u[k].kind = "fun"
          PROVE  sd[k] = sd[k - 1] + 1
        <3>1. k \in 1..(n - 1) /\ k - 1 \in 1..(n - 1) /\ k \in 2..n
            BY <1>2
        <3>. QED  BY <1>1, <1>3, <1>7, <2>1, <2>5, <3>1 DEF Scoped
    <2>6. ASSUME NEW k \in 1..(n - 1), NEW l \in 1..(n - 1), k < l
          PROVE  IF \E j \in (k + 1)..l : u[j].kind = "fun"
                 THEN sd[k] < sd[l] /\ owm[k] < owm[l]
                 ELSE sd[k] = sd[l] /\ owm[k] = owm[l]
        <3>1. \A j \in (k + 1)..l : j \in 1..(n - 1)
            BY <1>2
        <3>2. (\E j \in (k + 1)..l : u[j].kind = "fun")
                 <=> (\E j \in (k + 1)..l : t[j].kind = "fun")
            BY <1>3, <3>1
        <3>3. IF \E j \in (k + 1)..l : t[j].kind = "fun"
              THEN sc[k] < sc[l] /\ own[k] < own[l]
              ELSE sc[k] = sc[l] /\ own[k] = own[l]
            BY <1>1, <1>4, <2>1, <2>6 DEF Scoped
        <3>. QED  BY <1>7, <3>2, <3>3
    <2>7. n - 1 > 0
        BY <1>2
    <2>. QED  BY <1>3, <2>3, <2>4, <2>5, <2>6, <2>7 DEF Scoped
<1>10. Placed(p, u)
    <2>1. Placed(p, t) /\ Len(t) > 1
        BY <1>1, <1>2 DEF Built
    <2>. QED  BY <1>1, <2>1, PlacedPopped
<1>11. ASSUME NEW w \in Which
       PROVE  /\ Stacked(p, u, w, su[w], g[w])
              /\ t[n].kind # "if" => Under(su[w], t[n].begin)
    <2>1. /\ Stacked(p, t, w, st[w], h[w]) /\ st[w] \in Seq(Place) /\ su[w] \in Seq(Place)
          /\ Cut(st[w], su[w], IF t[Len(t)].kind \in MarkedBy(w)
                              THEN h[w][Len(t)] - 1 ELSE Len(st[w]))
        BY DEF Built, Unwound
    <2>2. Len(t) > 1
        BY <1>1, <1>2
    <2>3. /\ Stacked(p, Front(t), w, su[w], [k \in 1..(Len(t) - 1) |-> h[w][k]])
          /\ t[Len(t)].kind \in {"fun", "while", "for"} => Under(su[w], t[Len(t)].begin)
        BY <2>1, <2>2, StackedPopped
    <2>4. g[w] = [k \in 1..(Len(t) - 1) |-> h[w][k]]
        BY <1>6
    <2>5. t[n].kind \in {"fun", "if", "while", "for"}
        BY <1>1, <1>5, OpenIs
    <2>. QED  BY <1>1, <2>3, <2>4, <2>5
<1>12. Owned(p, u, sh, owm)
    <2>1. Owned(p, t, sh, own)
        BY DEF Built
    <2>3. ASSUME NEW k \in 1..(n - 1), u[k].kind = "fun"
          PROVE  /\ u[k].begin <= Len(p) /\ p[u[k].begin].op = "Function"
                 /\ p[u[k].begin].c = owm[k] /\ sh[owm[k]].offset = 0
                 /\ \A i \in 1..Len(p) :
                       IF i > u[k].begin THEN p[i].fn >= owm[k] ELSE p[i].fn < owm[k]
        <3>1. k \in 1..n /\ u[k] = t[k] /\ owm[k] = own[k] /\ t[k].kind = "fun"
            BY <1>3, <1>4, <1>7, <2>3
        <3>. QED  BY <1>1, <2>1, <3>1 DEF Owned
    <2>. QED  BY <1>3, <2>1, <2>3 DEF Owned
<1>13. Ranged(p, rs, u, Len(ss), sd)
    <2>1. Ranged(p, rs, t, Len(ss), sc)
        BY DEF Built
    <2>. QED  BY <1>1, <1>3, <1>4, <1>7, <2>1 DEF Ranged
<1>14. Covering(p, rs, u, sd, owm)
    <2>1. Covering(p, rs, t, sc, own)
        BY DEF Built
    <2>. QED  BY <1>1, <1>3, <1>4, <1>7, <2>1 DEF Covering
<1>15. Looped(p, rs, u, sd, owm)
    <2>1. Looped(p, rs, t, sc, own)
        BY DEF Built
    <2>2. ASSUME NEW k \in 1..(n - 1), u[k].kind = "for"
          PROVE  /\ \A i \in 1..Len(p) : u[k].i1 <= i /\ i < u[k].i2 =>
                      p[i].fn = owm[k] /\ InPiece(p[i], u[k].of, 3)
                 /\ \/ Defines(p, u, k, owm[k])
                    \/ /\ \A l \in 1..(n - 1) : l > k => u[l].kind # "fun"
                       /\ \A m \in 1..Len(rs) : rs[m].scope = sd[k] => rs[m].begin <= u[k].i1
        <3>1. k \in 1..n /\ u[k] = t[k] /\ owm[k] = own[k] /\ sd[k] = sc[k]
            BY <1>3, <1>4, <1>7
        <3>2. /\ \A i \in 1..Len(p) : t[k].i1 <= i /\ i < t[k].i2 =>
                    p[i].fn = own[k] /\ InPiece(p[i], t[k].of, 3)
              /\ \/ Defines(p, t, k, own[k])
                 \/ /\ \A l \in 1..n : l > k => t[l].kind # "fun"
                    /\ \A m \in 1..Len(rs) : rs[m].scope = sc[k] => rs[m].begin <= t[k].i1
            BY <1>1, <2>1, <2>2, <3>1 DEF Looped
        <3>3. Defines(p, t, k, own[k]) => Defines(p, u, k, owm[k])
            BY <3>1 DEF Defines
        <3>. QED  BY <1>3, <1>4, <3>1, <3>2, <3>3
    <2>. QED  BY <1>3, <2>2 DEF Looped
<1>16. Named(p, ss, u, sd, owm)
    <2>1. Named(p, ss, t, sc, own)
        BY DEF Built
    <2>2. ASSUME NEW k \in 1..(n - 1), NEW i \in 1..Len(p), p[i].fn = owm[k], p[i].name # NoName
          PROVE  \/ p[i].op \in Symbolic
                 \/ /\ p[i].op = "StoreLocal" /\ p[i].name \in ToSet(ss[sd[k]])
                    /\ p[i].c = IndexIn(ss[sd[k]], p[i].name)
        <3>1. k \in 1..n /\ owm[k] = own[k] /\ sd[k] = sc[k]
            BY <1>4, <1>7
        <3>. QED  BY <1>1, <2>1, <2>2, <3>1 DEF Named
    <2>. QED  BY <1>3, <2>1, <2>2 DEF Named
<1>17. \A k \in 2..(n - 1) : u[k].kind = "fun" => u[k].name # NoName
    <2>1. \A k \in 2..(n - 1) : k \in 2..n /\ k \in 1..(n - 1)
        BY <1>2
    <2>. QED  BY <1>1, <1>3, <2>1 DEF Built
<1>18. Built(p, u, su, sh, ss, rs, sd, owm, g)
    BY <1>3, <1>9, <1>10, <1>11, <1>12, <1>13, <1>14, <1>15, <1>16, <1>17 DEF Built
<1>19. owm[Len(u)] = own[n]
    BY <1>3, <1>5, <1>7, <1>8
<1>20. Ahead(u, t[n].begin)
    <2>1. Placed(p, t)
        BY DEF Built
    <2>. QED  BY <1>1, <1>3, <1>4, <1>5, <2>1 DEF Placed, Ahead
<1>. QED  BY <1>1, <1>3, <1>11, <1>18, <1>19, <1>20 DEF Shortened

-----------------------------------------------------------------------------
(* The rotation of a for loop exchanges code from position b on.             *)
Shuffled(p, q, b) ==
    /\ q \in Seq(Instr) /\ Len(q) = Len(p)
    /\ \A i \in 1..Len(p) : i < b => q[i] = p[i]
    /\ \A i \in 1..Len(p) : i >= b => \E j \in 1..Len(p) : j >= b /\ q[i] = p[j]
    /\ \A j \in 1..Len(p) : j >= b => \E i \in 1..Len(p) : i >= b /\ q[i] = p[j]

LEMMA PartIs ==
    ASSUME NEW S, NEW s \in Seq(S), NEW m \in Nat, NEW n \in Nat,
           1 <= m, n <= Len(s), m <= n + 1
    PROVE  /\ SubSeq(s, m, n) \in Seq(S) /\ Len(SubSeq(s, m, n)) = n + 1 - m
           /\ \A i \in 1..(n + 1 - m) : SubSeq(s, m, n)[i] = s[m + i - 1]
<1>1. Len(s) \in Nat /\ \A i \in 1..Len(s) : s[i] \in S
    BY LenProperties, ElementOfSeq
<1>2. \A i \in m..n : i \in 1..Len(s)
    BY <1>1
<1>3. m \in Int /\ n \in Int /\ \A i \in m..n : s[i] \in S
    BY <1>1, <1>2
<1>4. /\ SubSeq(s, m, n) \in Seq(S)
      /\ Len(SubSeq(s, m, n)) = IF m <= n THEN n - m + 1 ELSE 0
      /\ \A i \in 1..(n - m + 1) : SubSeq(s, m, n)[i] = s[m + i - 1]
    BY <1>3, SubSeqProperties
<1>5. PICK r, l : r = SubSeq(s, m, n) /\ l = Len(r)
    OBVIOUS
<1>6. l = n + 1 - m
    BY <1>4, <1>5
<1>7. \A i \in 1..(n + 1 - m) : i \in 1..(n - m + 1)
    OBVIOUS
<1>. QED  BY <1>4, <1>5, <1>6, <1>7

LEMMA RotatedIs ==
    ASSUME NEW p \in Seq(Instr), NEW i1 \in Nat, NEW i2 \in Nat, NEW i3 \in Nat,
           1 <= i1, i1 <= i2, i2 <= i3, i3 <= Len(p) + 1
    PROVE  /\ Shuffled(p, Rotated(p, i1, i2, i3), i1)
           /\ i1 = i2 => Rotated(p, i1, i2, i3) = p
<1>1. PICK N : N = Len(p)
    OBVIOUS
<1>2. N \in Nat
    BY <1>1, InstrIs
<1>3. PICK a, b, c, d : /\ a = SubSeq(p, 1, i1 - 1) /\ b = SubSeq(p, i2, i3 - 1)
                        /\ c = SubSeq(p, i1, i2 - 1) /\ d = SubSeq(p, i3, Len(p))
    OBVIOUS
<1>4. /\ a \in Seq(Instr) /\ Len(a) = i1 - 1
      /\ \A i \in 1..(i1 - 1) : a[i] = p[i]
    <2>1. i1 - 1 \in Nat /\ 1 <= (i1 - 1) + 1 /\ i1 - 1 <= Len(p)
        BY <1>1, <1>2
    <2>2. /\ a \in Seq(Instr) /\ Len(a) = (i1 - 1) + 1 - 1
          /\ \A i \in 1..((i1 - 1) + 1 - 1) : a[i] = p[1 + i - 1]
        BY <1>3, <2>1, PartIs
    <2>3. (i1 - 1) + 1 - 1 = i1 - 1 /\ \A i \in 1..(i1 - 1) : 1 + i - 1 = i
        OBVIOUS
    <2>. QED  BY <2>2, <2>3
<1>5. /\ b \in Seq(Instr) /\ Len(b) = i3 - i2
      /\ \A i \in 1..(i3 - i2) : b[i] = p[i2 + i - 1]
    <2>1. i3 - 1 \in Nat /\ i2 <= (i3 - 1) + 1 /\ i3 - 1 <= Len(p) /\ 1 <= i2
        BY <1>1, <1>2
    <2>2. /\ b \in Seq(Instr) /\ Len(b) = (i3 - 1) + 1 - i2
          /\ \A i \in 1..((i3 - 1) + 1 - i2) : b[i] = p[i2 + i - 1]
        BY <1>3, <2>1, PartIs
    <2>3. (i3 - 1) + 1 - i2 = i3 - i2
        OBVIOUS
    <2>. QED  BY <2>2, <2>3
<1>6. /\ c \in Seq(Instr) /\ Len(c) = i2 - i1
      /\ \A i \in 1..(i2 - i1) : c[i] = p[i1 + i - 1]
    <2>1. i2 - 1 \in Nat /\ i1 <= (i2 - 1) + 1 /\ i2 - 1 <= Len(p)
        BY <1>1, <1>2
    <2>2. /\ c \in Seq(Instr) /\ Len(c) = (i2 - 1) + 1 - i1
          /\ \A i \in 1..((i2 - 1) + 1 - i1) : c[i] = p[i1 + i - 1]
        BY <1>3, <2>1, PartIs
    <2>3. (i2 - 1) + 1 - i1 = i2 - i1
        OBVIOUS
    <2>. QED  BY <2>2, <2>3
<1>7. /\ d \in Seq(Instr) /\ Len(d) = N + 1 - i3
      /\ \A i \in 1..(N + 1 - i3) : d[i] = p[i3 + i - 1]
    <2>1. N <= Len(p) /\ i3 <= N + 1 /\ 1 <= i3
        BY <1>1, <1>2
    <2>. QED  BY <1>1, <1>2, <1>3, <2>1, PartIs
<1>8. PICK ab : ab = a \o b
    OBVIOUS
<1>9. /\ ab \in Seq(Instr) /\ Len(ab) = (i1 - 1) + (i3 - i2)
      /\ \A i \in 1..((i1 - 1) + (i3 - i2)) :
            ab[i] = IF i < i1 THEN p[i] ELSE p[i + (i2 - i1)]
    <2>1. /\ ab \in Seq(Instr) /\ Len(ab) = Len(a) + Len(b)
          /\ \A i \in 1..(Len(a) + Len(b)) : ab[i] = IF i <= Len(a) THEN a[i] ELSE b[i - Len(a)]
        BY <1>4, <1>5, <1>8, ConcatProperties
    <2>2. ASSUME NEW i \in 1..((i1 - 1) + (i3 - i2))
          PROVE  ab[i] = IF i < i1 THEN p[i] ELSE p[i + (i2 - i1)]
        <3>1. CASE i < i1
            <4>1. i \in 1..(i1 - 1)
                BY <3>1
            <4>. QED  BY <1>4, <1>5, <2>1, <3>1, <4>1
        <3>2. CASE ~(i < i1)
            <4>1. i - (i1 - 1) \in 1..(i3 - i2) /\ i2 + (i - (i1 - 1)) - 1 = i + (i2 - i1)
                BY <3>2
            <4>2. ~(i <= i1 - 1)
                BY <3>2
            <4>3. ab[i] = b[i - (i1 - 1)]
                BY <1>4, <1>5, <2>1, <4>2
            <4>. QED  BY <1>5, <3>2, <4>1, <4>3
        <3>. QED  BY <3>1, <3>2
    <2>. QED  BY <1>4, <1>5, <2>1, <2>2
<1>10. PICK abc : abc = ab \o c
    OBVIOUS
<1>11. /\ abc \in Seq(Instr) /\ Len(abc) = i3 - 1
       /\ \A i \in 1..(i3 - 1) :
            abc[i] = IF i < i1 THEN p[i]
                     ELSE IF i < i1 + (i3 - i2) THEN p[i + (i2 - i1)] ELSE p[i - (i3 - i2)]
    <2>1. /\ abc \in Seq(Instr) /\ Len(abc) = Len(ab) + Len(c)
          /\ \A i \in 1..(Len(ab) + Len(c)) : abc[i] = IF i <= Len(ab) THEN ab[i] ELSE c[i - Len(ab)]
        BY <1>6, <1>9, <1>10, ConcatProperties
    <2>2. Len(ab) + Len(c) = i3 - 1
        BY <1>6, <1>9
    <2>3. ASSUME NEW i \in 1..(i3 - 1)
          PROVE  abc[i] = IF i < i1 THEN p[i]
                          ELSE IF i < i1 + (i3 - i2) THEN p[i + (i2 - i1)] ELSE p[i - (i3 - i2)]
        <3>1. CASE i < i1 + (i3 - i2)
            <4>1. i \in 1..((i1 - 1) + (i3 - i2)) /\ i <= (i1 - 1) + (i3 - i2)
                BY <3>1
            <4>. QED  BY <1>9, <2>1, <2>2, <3>1, <4>1
        <3>2. CASE ~(i < i1 + (i3 - i2))
            <4>1. /\ i - ((i1 - 1) + (i3 - i2)) \in 1..(i2 - i1) /\ ~(i < i1)
                  /\ i1 + (i - ((i1 - 1) + (i3 - i2))) - 1 = i - (i3 - i2)
                BY <3>2
            <4>2. ~(i <= (i1 - 1) + (i3 - i2))
                BY <3>2
            <4>3. abc[i] = c[i - ((i1 - 1) + (i3 - i2))]
                BY <1>9, <2>1, <2>2, <4>2
            <4>. QED  BY <1>6, <3>2, <4>1, <4>3
        <3>. QED  BY <3>1, <3>2
    <2>. QED  BY <2>1, <2>2, <2>3
<1>12. PICK q : q = abc \o d
    OBVIOUS
<1>13. /\ q \in Seq(Instr) /\ Len(q) = N
       /\ \A i \in 1..N : q[i] = IF i < i1 \/ i >= i3 THEN p[i]
                    ELSE IF i < i1 + (i3 - i2) THEN p[i + (i2 - i1)] ELSE p[i - (i3 - i2)]
    <2>1. /\ q \in Seq(Instr) /\ Len(q) = Len(abc) + Len(d)
          /\ \A i \in 1..(Len(abc) + Len(d)) : q[i] = IF i <= Len(abc) THEN abc[i] ELSE d[i - Len(abc)]
        BY <1>7, <1>11, <1>12, ConcatProperties
    <2>2. Len(abc) + Len(d) = N
        BY <1>2, <1>7, <1>11
    <2>3. ASSUME NEW i \in 1..N
          PROVE  q[i] = IF i < i1 \/ i >= i3 THEN p[i]
                    ELSE IF i < i1 + (i3 - i2) THEN p[i + (i2 - i1)] ELSE p[i - (i3 - i2)]
        <3>1. CASE i < i3
            <4>1. i \in 1..(i3 - 1) /\ i <= i3 - 1 /\ ~(i >= i3)
                BY <3>1
            <4>2. q[i] = abc[i]
                BY <1>11, <2>1, <2>2, <4>1
            <4>3. abc[i] = IF i < i1 THEN p[i]
                     ELSE IF i < i1 + (i3 - i2) THEN p[i + (i2 - i1)] ELSE p[i - (i3 - i2)]
                BY <1>11, <4>1
            <4>. QED  BY <4>1, <4>2, <4>3
        <3>2. CASE i >= i3
            <4>1. i - (i3 - 1) \in 1..(N + 1 - i3) /\ i3 + (i - (i3 - 1)) - 1 = i
                BY <1>2, <3>2
            <4>2. ~(i <= i3 - 1)
                BY <3>2
            <4>3. q[i] = d[i - (i3 - 1)]
                BY <1>11, <2>1, <2>2, <4>2
            <4>. QED  BY <1>7, <3>2, <4>1, <4>3
        <3>. QED  BY <3>1, <3>2
    <2>. QED  BY <2>1, <2>2, <2>3
<1>14. ASSUME NEW i \in 1..N, i >= i1
       PROVE  \E j \in 1..N : j >= i1 /\ q[i] = p[j]
    <2>1. CASE i >= i3
        BY <1>13, <1>14, <2>1
    <2>2. CASE i < i3 /\ i < i1 + (i3 - i2)
        <3>1. i + (i2 - i1) \in 1..N /\ i + (i2 - i1) >= i1
            BY <1>1, <1>2, <1>14, <2>2
        <3>. QED  BY <1>13, <1>14, <2>2, <3>1
    <2>3. CASE i < i3 /\ ~(i < i1 + (i3 - i2))
        <3>1. i - (i3 - i2) \in 1..N /\ i - (i3 - i2) >= i1
            BY <1>1, <1>2, <1>14, <2>3
        <3>. QED  BY <1>13, <1>14, <2>3, <3>1
    <2>. QED  BY <2>1, <2>2, <2>3
<1>15. ASSUME NEW j \in 1..N, j >= i1
       PROVE  \E i \in 1..N : i >= i1 /\ q[i] = p[j]
    <2>1. CASE j >= i3
        BY <1>13, <1>15, <2>1
    <2>2. CASE j < i2
        <3>1. PICK i : i = j + (i3 - i2)
            OBVIOUS
        <3>2. i \in 1..N /\ i >= i1 /\ i < i3 /\ ~(i < i1 + (i3 - i2)) /\ i - (i3 - i2) = j
            BY <1>1, <1>2, <1>15, <2>2, <3>1
        <3>3. ~(i < i1 \/ i >= i3)
            BY <3>2
        <3>. QED  BY <1>13, <3>2, <3>3
    <2>3. CASE j >= i2 /\ j < i3
        <3>1. PICK i : i = j - (i2 - i1)
            OBVIOUS
        <3>2. i \in 1..N /\ i >= i1 /\ i < i3 /\ i < i1 + (i3 - i2) /\ i + (i2 - i1) = j
            BY <1>1, <1>2, <1>15, <2>3, <3>1
        <3>3. ~(i < i1 \/ i >= i3)
            BY <3>2
        <3>. QED  BY <1>13, <3>2, <3>3
    <2>. QED  BY <2>1, <2>2, <2>3
<1>16. \A i \in 1..N : i < i1 => q[i] = p[i]
    BY <1>13
<1>17. ASSUME i1 = i2
       PROVE  q = p
    <2>1. \A i \in 1..N : q[i] = p[i]
        <3>. TAKE i \in 1..N
        <3>1. CASE i < i1 \/ i >= i3
            BY <1>13, <3>1
        <3>2. CASE ~(i < i1 \/ i >= i3)
            <4>1. i < i1 + (i3 - i2) /\ i + (i2 - i1) = i
                BY <1>17, <3>2
            <4>. QED  BY <1>13, <3>2, <4>1
        <3>. QED  BY <3>1, <3>2
    <2>. QED  BY <1>1, <1>13, <2>1, SeqEqual
<1>18. Rotated(p, i1, i2, i3) = q
    BY <1>3, <1>8, <1>10, <1>12 DEF Rotated
<1>. QED  BY <1>1, <1>13, <1>14, <1>15, <1>16, <1>17, <1>18 DEF Shuffled

LEMMA MovedShuffled ==
    ASSUME NEW p \in Seq(Instr), NEW q, NEW b \in Nat, Shuffled(p, q, b), NEW f
    PROVE  Moved(q, f) <=> Moved(p, f)
<1>1. Len(q) = Len(p) /\ Len(p) \in Nat
    BY InstrIs DEF Shuffled
<1>2. \A i \in 1..Len(p) : \E j \in 1..Len(p) : q[i] = p[j]
    BY <1>1 DEF Shuffled
<1>3. \A j \in 1..Len(p) : \E i \in 1..Len(p) : q[i] = p[j]
    BY <1>1 DEF Shuffled
<1>4. ASSUME Moved(p, f)
      PROVE  Moved(q, f)
    <2>1. PICK i, j \in 1..Len(p) : \E n \in Nat :
            /\ p[i].fn = f /\ p[i].op = "Function" /\ p[j].fn = f
            /\ InPiece(p[i], n, 2) /\ InPiece(p[j], n, 3)
        BY <1>4 DEF Moved
    <2>2. PICK k, l \in 1..Len(p) : q[k] = p[i] /\ q[l] = p[j]
        BY <1>3
    <2>. QED  BY <1>1, <2>1, <2>2 DEF Moved
<1>5. ASSUME Moved(q, f)
      PROVE  Moved(p, f)
    <2>1. PICK i, j \in 1..Len(q) : \E n \in Nat :
            /\ q[i].fn = f /\ q[i].op = "Function" /\ q[j].fn = f
            /\ InPiece(q[i], n, 2) /\ InPiece(q[j], n, 3)
        BY <1>5 DEF Moved
    <2>2. PICK k, l \in 1..Len(p) : q[i] = p[k] /\ q[j] = p[l]
        BY <1>1, <1>2
    <2>. QED  BY <2>1, <2>2 DEF Moved
<1>. QED  BY <1>4, <1>5

LEMMA TurnedKept ==
    ASSUME NEW p \in Seq(Instr), NEW q, NEW b \in Nat, Shuffled(p, q, b), NEW sh, NEW gs
    PROVE  /\ Resolution(p, sh, gs) => Resolution(q, sh, gs)
           /\ Symbols(p) => Symbols(q)
<1>1. Len(q) = Len(p) /\ Len(p) \in Nat
    BY InstrIs DEF Shuffled
<1>2. \A i \in 1..Len(q) : \E j \in 1..Len(p) : q[i] = p[j]
    BY <1>1 DEF Shuffled
<1>3. ASSUME Resolution(p, sh, gs), NEW f \in 1..Len(sh), sh[f].offset > 0, ~Moved(q, f),
             NEW i \in 1..Len(q), q[i].fn = f, q[i].name # NoName
      PROVE  Settled(q[i], sh[f].names, gs)
    <2>1. ~Moved(p, f)
        BY <1>3, MovedShuffled
    <2>2. PICK j \in 1..Len(p) : q[i] = p[j]
        BY <1>2
    <2>3. p[j].fn = f /\ p[j].name # NoName
        BY <1>3, <2>2
    <2>4. Settled(p[j], sh[f].names, gs)
        BY <1>3, <2>1, <2>3 DEF Resolution
    <2>. QED  BY <2>2, <2>4
<1>. QED  BY <1>2, <1>3 DEF Resolution, Symbols

LEMMA BuiltTurned ==
    ASSUME NEW p \in Seq(Instr), NEW q, NEW b \in Nat, Shuffled(p, q, b),
           NEW t \in Seq(Open), NEW st, NEW sh \in Seq(Shape), NEW ss \in Seq(Seq(Ident)),
           NEW rs \in Seq(CodeRange), NEW sc, NEW own, NEW h,
           Built(p, t, st, sh, ss, rs, sc, own, h),
           Ahead(t, b), \A w \in Which : st[w] \in Seq(Place) /\ Under(st[w], b),
           b <= Len(p) + 1,
           \/ Moved(p, own[Len(t)])
           \/ \A m \in 1..Len(rs) : rs[m].scope = Len(ss) => rs[m].begin <= b
    PROVE  Built(q, t, st, sh, ss, rs, sc, own, h)
<1>1. Len(q) = Len(p) /\ Len(p) \in Nat /\ q \in Seq(Instr)
    BY InstrIs DEF Shuffled
<1>2. PICK n : n = Len(t)
    OBVIOUS
<1>3. n \in Nat /\ n \in 1..n /\ Len(ss) \in Nat /\ Len(sh) \in Nat
    <2>1. n \in Nat /\ n > 0
        BY <1>2, OpenIs DEF Built, Scoped
    <2>. QED  BY <2>1, LenProperties
<1>4. \A i \in 1..Len(p) : i < b => q[i] = p[i]
    BY DEF Shuffled
<1>5. \A i \in 1..Len(p) : i >= b => \E j \in 1..Len(p) : j >= b /\ q[i] = p[j]
    BY DEF Shuffled
<1>6. \A i \in 1..Len(p) : \E j \in 1..Len(p) : q[i] = p[j]
    <2>. TAKE i \in 1..Len(p)
    <2>1. CASE i < b
        BY <1>4, <2>1
    <2>2. CASE i >= b
        BY <1>5, <2>2
    <2>. QED  BY <2>1, <2>2
<1>7. \A i \in Jumps(p) : i < b => i \in Jumps(q)
    BY <1>1, <1>4 DEF Jumps
<1>8. /\ Scoped(t, Len(ss), Len(sh), sc, own) /\ Placed(p, t)
      /\ \A w \in Which : Stacked(p, t, w, st[w], h[w])
      /\ Owned(p, t, sh, own) /\ Ranged(p, rs, t, Len(ss), sc)
      /\ Covering(p, rs, t, sc, own) /\ Looped(p, rs, t, sc, own)
      /\ Named(p, ss, t, sc, own)
      /\ \A k \in 2..Len(t) : t[k].kind = "fun" => t[k].name # NoName
    BY DEF Built
<1>9. Placed(q, t)
    <2>1. \A k \in 1..Len(t) : t[k].jump # NoPos => t[k].jump \in Jumps(q)
        BY <1>7, <1>8 DEF Ahead, Placed
    <2>. QED  BY <1>1, <1>8, <2>1 DEF Placed
<1>10. ASSUME NEW w \in Which
       PROVE  Stacked(q, t, w, st[w], h[w])
    <2>1. \A j \in 1..Len(st[w]) : st[w][j] >= 0 => st[w][j] \in Jumps(q)
        BY <1>7, <1>8 DEF Under, Stacked
    <2>2. Stacked(p, t, w, st[w], h[w])
        BY <1>8
    <2>. QED  BY <2>1, <2>2 DEF Stacked
<1>11. Owned(q, t, sh, own)
    <2>1. \A i \in 1..Len(q) : q[i].fn <= Len(sh)
        BY <1>1, <1>6, <1>8 DEF Owned
    <2>2. ASSUME NEW k \in 1..Len(t), t[k].kind = "fun"
          PROVE  /\ t[k].begin <= Len(q) /\ q[t[k].begin].op = "Function"
                 /\ q[t[k].begin].c = own[k] /\ sh[own[k]].offset = 0
                 /\ \A i \in 1..Len(q) :
                       IF i > t[k].begin THEN q[i].fn >= own[k] ELSE q[i].fn < own[k]
        <3>1. t[k].begin < b /\ t[k].begin \in Nat /\ t[k].begin \in 1..Len(p)
            BY <1>1, <1>8, <2>2, OpenIs DEF Ahead, Owned, Placed
        <3>2. q[t[k].begin] = p[t[k].begin]
            BY <1>4, <3>1
        <3>3. /\ t[k].begin <= Len(p) /\ p[t[k].begin].op = "Function"
              /\ p[t[k].begin].c = own[k] /\ sh[own[k]].offset = 0
              /\ \A i \in 1..Len(p) :
                    IF i > t[k].begin THEN p[i].fn >= own[k] ELSE p[i].fn < own[k]
            BY <1>8, <2>2 DEF Owned
        <3>4. ASSUME NEW i \in 1..Len(p)
              PROVE  IF i > t[k].begin THEN q[i].fn >= own[k] ELSE q[i].fn < own[k]
            <4>1. CASE i < b
                BY <1>4, <3>3, <4>1
            <4>2. CASE i >= b
                <5>1. PICK j \in 1..Len(p) : j >= b /\ q[i] = p[j]
                    BY <1>5, <4>2
                <5>2. i > t[k].begin /\ j > t[k].begin
                    BY <3>1, <4>2, <5>1
                <5>. QED  BY <3>3, <5>1, <5>2
            <4>. QED  BY <4>1, <4>2
        <3>. QED  BY <1>1, <3>2, <3>3, <3>4
    <2>. QED  BY <2>1, <2>2 DEF Owned
<1>12. Ranged(q, rs, t, Len(ss), sc)
    BY <1>1, <1>8 DEF Ranged
<1>13. Covering(q, rs, t, sc, own)
    <2>. SUFFICES ASSUME NEW k \in 1..Len(t), ~Moved(q, own[k])
                  PROVE  CoveredBy(q, rs, own[k], sc[k])
        BY DEF Covering
    <2>1. ~Moved(p, own[k]) /\ CoveredBy(p, rs, own[k], sc[k])
        BY <1>8, MovedShuffled DEF Covering
    <2>. SUFFICES ASSUME NEW i \in 1..Len(p), q[i].fn = own[k]
                  PROVE  \E m \in 1..Len(rs) : /\ rs[m].scope = sc[k] /\ rs[m].begin <= i
                                               /\ i < rs[m].end \/ rs[m].end = NoPos
        BY <1>1 DEF CoveredBy
    <2>2. CASE i < b
        BY <1>4, <2>1, <2>2 DEF CoveredBy
    <2>3. CASE i >= b
        <3>1. PICK j \in 1..Len(p) : j >= b /\ q[i] = p[j]
            BY <1>5, <2>3
        <3>2. PICK m \in 1..Len(t) :
                 /\ FunOf(t) = t[m] /\ t[m].kind = "fun"
                 /\ \A l \in (m + 1)..Len(t) : t[l].kind # "fun"
                 /\ own[m] = own[Len(t)] /\ sc[m] = Len(ss)
            <4>1. PICK a, c : a = Len(ss) /\ c = Len(sh)
                OBVIOUS
            <4>2. a \in Nat /\ c \in Nat /\ Scoped(t, a, c, sc, own)
                BY <1>3, <1>8, <4>1
            <4>3. \E m \in 1..Len(t) :
                    /\ FunOf(t) = t[m] /\ t[m].kind = "fun"
                    /\ \A l \in (m + 1)..Len(t) : t[l].kind # "fun"
                    /\ own[m] = own[Len(t)] /\ sc[m] = a
                BY <4>2, FunNowIs
            <4>. QED  BY <4>1, <4>3
        <3>3. t[m].begin < b /\ t[m].begin \in Nat
            BY <3>2, OpenIs DEF Ahead
        <3>4. p[j].fn >= own[m]
            <4>1. j > t[m].begin
                BY <3>1, <3>3
            <4>. QED  BY <1>8, <3>2, <4>1 DEF Owned
        <3>5. /\ own[k] \in Int /\ own[k] <= own[Len(t)] /\ own[Len(t)] \in Int
              /\ own[k] = own[Len(t)] => sc[k] = Len(ss)
            BY <1>3, <1>8, LastEntry
        <3>6. own[k] = own[Len(t)] /\ sc[k] = Len(ss)
            BY <3>1, <3>2, <3>4, <3>5
        <3>7. \A l \in 1..Len(rs) : rs[l].scope = Len(ss) => rs[l].begin <= b
            BY <2>1, <3>6
        <3>8. Len(rs) \in Nat /\ Len(rs) > 0
            BY <1>8, RangesAre DEF Ranged
        <3>9. Len(rs) \in 1..Len(rs)
            BY <3>8
        <3>10. rs[Len(rs)].scope = Len(ss) /\ rs[Len(rs)].end = NoPos /\ rs[Len(rs)].begin \in Nat
            BY <1>8, <3>9, RangesAre DEF Ranged
        <3>11. rs[Len(rs)].begin <= i
            <4>1. rs[Len(rs)].begin <= b
                BY <3>7, <3>9, <3>10
            <4>2. PICK x : x = rs[Len(rs)].begin
                OBVIOUS
            <4>3. x \in Nat /\ x <= b
                BY <3>10, <4>1, <4>2
            <4>4. x <= i
                BY <2>3, <4>3
            <4>. QED  BY <4>2, <4>4
        <3>. QED  BY <3>6, <3>9, <3>10, <3>11
    <2>. QED  BY <2>2, <2>3
<1>14. Looped(q, rs, t, sc, own)
    <2>1. ASSUME NEW k \in 1..Len(t), t[k].kind = "for"
          PROVE  /\ \A i \in 1..Len(q) : t[k].i1 <= i /\ i < t[k].i2 =>
                       q[i].fn = own[k] /\ InPiece(q[i], t[k].of, 3)
                 /\ Defines(p, t, k, own[k]) => Defines(q, t, k, own[k])
        <3>1. t[k].i2 <= b /\ t[k].i2 \in Nat
            BY <2>1, OpenIs DEF Ahead
        <3>2. \A i \in 1..Len(q) : i < t[k].i2 => i < b
            BY <3>1
        <3>3. \A i \in 1..Len(p) : t[k].i1 <= i /\ i < t[k].i2 =>
                 p[i].fn = own[k] /\ InPiece(p[i], t[k].of, 3)
            BY <1>8, <2>1 DEF Looped
        <3>4. ASSUME Defines(p, t, k, own[k])
              PROVE  Defines(q, t, k, own[k])
            <4>1. PICK j \in 1..Len(p) : /\ j >= t[k].i2 /\ p[j].fn = own[k]
                         /\ p[j].op = "Function" /\ InPiece(p[j], t[k].of, 2)
                BY <3>4 DEF Defines
            <4>2. PICK i \in 1..Len(p) : i >= t[k].i2 /\ q[i] = p[j]
                <5>1. CASE j < b
                    BY <1>4, <4>1, <5>1
                <5>2. CASE j >= b
                    <6>1. PICK i \in 1..Len(p) : i >= b /\ q[i] = p[j]
                        BY <5>2 DEF Shuffled
                    <6>2. i >= t[k].i2
                        BY <3>1, <6>1
                    <6>. QED  BY <6>1, <6>2
                <5>. QED  BY <5>1, <5>2
            <4>. QED  BY <1>1, <4>1, <4>2 DEF Defines
        <3>. QED  BY <1>1, <1>4, <3>2, <3>3, <3>4
    <2>. QED  BY <1>8, <2>1 DEF Looped
<1>15. Named(q, ss, t, sc, own)
    <2>1. \A s \in 1..Len(ss) : Distinct(ss[s])
        BY <1>8 DEF Named
    <2>2. ASSUME NEW k \in 1..Len(t), NEW i \in 1..Len(q), q[i].fn = own[k], q[i].name # NoName
          PROVE  \/ q[i].op \in Symbolic
                 \/ /\ q[i].op = "StoreLocal" /\ q[i].name \in ToSet(ss[sc[k]])
                    /\ q[i].c = IndexIn(ss[sc[k]], q[i].name)
        <3>1. PICK j \in 1..Len(p) : q[i] = p[j]
            BY <1>1, <1>6
        <3>2. p[j].fn = own[k] /\ p[j].name # NoName
            BY <2>2, <3>1
        <3>3. \/ p[j].op \in Symbolic
              \/ /\ p[j].op = "StoreLocal" /\ p[j].name \in ToSet(ss[sc[k]])
                 /\ p[j].c = IndexIn(ss[sc[k]], p[j].name)
            BY <1>8, <3>2 DEF Named
        <3>. QED  BY <3>1, <3>3
    <2>. QED  BY <2>1, <2>2 DEF Named
<1>. QED  BY <1>8, <1>9, <1>10, <1>11, <1>12, <1>13, <1>14, <1>15 DEF Built

-----------------------------------------------------------------------------
(* What a recursive function computes, one step F[j] after the other from z.  *)
Stepwise(f, V, N, z, F) ==
    f \in [0..N -> V] /\ f[0] = z /\ \A j \in 1..N : f[j] = F[j][f[j - 1]]

LEMMA Recursion ==
    ASSUME NEW V, NEW N \in Nat, NEW z \in V, NEW F \in [1..N -> [V -> V]]
    PROVE  \E f : Stepwise(f, V, N, z, F)
<1>. DEFINE S == {n \in Nat : n <= N /\ ~ \E f : Stepwise(f, V, n, z, F)}
<1>1. CASE S = {}
    <2>1. N \notin S
        BY <1>1
    <2>. QED  BY <2>1
<1>2. CASE S # {}
    <2>1. PICK m \in S : \A n \in S : m <= n
        <3>1. S \subseteq Nat
            OBVIOUS
        <3>. HIDE DEF S
        <3>. QED  BY <1>2, <3>1, LeastNat
    <2>2. m \in Nat /\ m <= N /\ ~ \E f : Stepwise(f, V, m, z, F)
        BY <2>1
    <2>3. CASE m = 0
        <3>1. PICK f : f = [j \in 0..0 |-> z]
            OBVIOUS
        <3>2. f \in [0..0 -> V] /\ f[0] = z /\ \A j \in 1..0 : f[j] = F[j][f[j - 1]]
            BY <3>1
        <3>3. Stepwise(f, V, 0, z, F)
            BY <3>2 DEF Stepwise
        <3>. QED  BY <2>2, <2>3, <3>3
    <2>4. CASE m # 0
        <3>1. m - 1 \in Nat /\ m - 1 <= N /\ m - 1 \notin S
            <4>1. m - 1 \in Nat /\ ~(m <= m - 1) /\ m - 1 <= N
                BY <2>2, <2>4
            <4>. HIDE DEF S
            <4>. QED  BY <2>1, <4>1
        <3>2. PICK g : Stepwise(g, V, m - 1, z, F)
            BY <3>1
        <3>3. g \in [0..(m - 1) -> V] /\ g[0] = z /\ \A j \in 1..(m - 1) : g[j] = F[j][g[j - 1]]
            BY <3>2 DEF Stepwise
        <3>4. PICK x : x = F[m][g[m - 1]]
            OBVIOUS
        <3>5. m \in 1..N /\ m - 1 \in 0..(m - 1)
            BY <2>2, <2>4
        <3>6. x \in V
            BY <3>3, <3>4, <3>5
        <3>7. PICK f : f = [j \in 0..m |-> IF j = m THEN x ELSE g[j]]
            OBVIOUS
        <3>8. f[m] = x /\ \A j \in 0..(m - 1) : f[j] = g[j]
            BY <2>2, <3>7
        <3>9. f \in [0..m -> V]
            <4>1. \A j \in 0..m : j # m => j \in 0..(m - 1)
                BY <2>2
            <4>2. \A j \in 0..m : (IF j = m THEN x ELSE g[j]) \in V
                BY <3>3, <3>6, <4>1
            <4>. QED  BY <3>7, <4>2
        <3>10. f[0] = z
            <4>1. 0 \in 0..(m - 1)
                BY <2>2, <2>4
            <4>. QED  BY <3>3, <3>8, <4>1
        <3>11. \A j \in 1..m : f[j] = F[j][f[j - 1]]
            <4>. TAKE j \in 1..m
            <4>1. j - 1 \in 0..(m - 1)
                BY <2>2
            <4>2. CASE j = m
                BY <3>4, <3>8, <4>1, <4>2
            <4>3. CASE j # m
                <5>1. j \in 1..(m - 1) /\ j \in 0..(m - 1)
                    BY <2>2, <4>3
                <5>. QED  BY <3>3, <3>8, <4>1, <5>1
            <4>. QED  BY <4>2, <4>3
        <3>12. Stepwise(f, V, m, z, F)
            BY <3>9, <3>10, <3>11 DEF Stepwise
        <3>. QED  BY <2>2, <3>12
    <2>. QED  BY <2>3, <2>4
<1>. QED  BY <1>1, <1>2

-----------------------------------------------------------------------------
(* close_scope.                                                              *)
WalkState == {w \in [globals : Seq(Ident), depth : Int, maxstack : Nat, wrapped : BOOLEAN] :
                Distinct(w.globals)}

LEMMA WalkedIs ==
    ASSUME NEW names, NEW w \in WalkState, NEW instr \in Instr,
           instr.op \in Symbolic => instr.name # NoName
    PROVE  /\ Walked(names, w, instr) \in WalkState
           /\ Grows(w.globals, Walked(names, w, instr).globals)
<1>1. /\ w.globals \in Seq(Ident) /\ w.depth \in Int /\ w.maxstack \in Nat
      /\ w.wrapped \in BOOLEAN /\ Distinct(w.globals)
    BY DEF WalkState
<1>2. PICK d, g : d = w.depth + Actions(instr) /\ g = Interned(names, w.globals, instr)
    OBVIOUS
<1>3. d \in Int
    <2>1. instr.op \in Ops /\ instr.c \in Int
        BY DEF Instr
    <2>2. Actions(instr) \in Int
        BY <2>1 DEF Actions, Ops
    <2>. QED  BY <1>1, <1>2, <2>2
<1>4. g \in Seq(Ident) /\ Distinct(g) /\ Grows(w.globals, g)
    <2>1. CASE instr.op \in Symbolic /\ ~IsLocal(names, w.globals, instr.name)
        <3>1. instr.name \in Ident
            BY <2>1 DEF Instr
        <3>2. g = Put(w.globals, instr.name)
            BY <1>2, <2>1 DEF Interned
        <3>. QED  BY <1>1, <3>1, <3>2, PutIs
    <2>2. CASE ~(instr.op \in Symbolic /\ ~IsLocal(names, w.globals, instr.name))
        <3>1. g = w.globals
            BY <1>2, <2>2 DEF Interned
        <3>2. Grows(g, g)
            BY <1>1, <3>1, LenProperties DEF Grows
        <3>. QED  BY <1>1, <3>1, <3>2
    <2>. QED  BY <2>1, <2>2
<1>5. Max({w.maxstack, d}) \in Nat
    <2>1. PICK m : m = w.maxstack
        OBVIOUS
    <2>2. m \in Nat
        BY <1>1, <2>1
    <2>3. CASE d <= m
        <3>1. Max({m, d}) = m
            <4>1. {m, d} \subseteq Int /\ m \in {m, d} /\ \A k \in {m, d} : k <= m
                BY <1>3, <2>2, <2>3
            <4>. QED  BY <4>1, MaxIs
        <3>. QED  BY <2>1, <2>2, <3>1
    <2>4. CASE ~(d <= m)
        <3>1. Max({m, d}) = d
            <4>1. {m, d} \subseteq Int /\ d \in {m, d} /\ \A k \in {m, d} : k <= d
                BY <1>3, <2>2, <2>4
            <4>. QED  BY <4>1, MaxIs
        <3>2. d \in Nat
            BY <1>3, <2>2, <2>4
        <3>. QED  BY <2>1, <3>1, <3>2
    <2>. QED  BY <2>3, <2>4
<1>6. PICK x, r : x = Max({w.maxstack, d}) /\ r = (w.wrapped \/ d < 0)
    OBVIOUS
<1>7. r \in BOOLEAN
    BY <1>6
<1>8. Walked(names, w, instr) = [globals |-> g, depth |-> d, maxstack |-> x, wrapped |-> r]
    BY <1>2, <1>6 DEF Walked
<1>. QED  BY <1>3, <1>4, <1>5, <1>6, <1>7, <1>8 DEF WalkState

LEMMA ResolvedIs ==
    ASSUME NEW names \in Seq(Ident), Distinct(names), NEW gs \in Seq(Ident), Distinct(gs),
           NEW instr \in Instr, instr.op \in Symbolic => instr.name # NoName
    PROVE  LET r == Resolved(names, gs, instr)
           IN  /\ r \in Instr /\ r.name = instr.name /\ r.fn = instr.fn
               /\ r.path = instr.path /\ r.line = instr.line
               /\ instr.op \notin Symbolic => r = instr
               /\ r.op \notin Symbolic
               /\ instr.op \in Symbolic =>
                     r.op # "Function" /\ Settled(r, names, Interned(names, gs, instr))
<1>1. CASE instr.op \notin Symbolic
    BY <1>1 DEF Resolved
<1>2. CASE instr.op \in Symbolic
    <2>1. PICK x : x = instr.name
        OBVIOUS
    <2>2. x \in Ident
        BY <1>2, <2>1 DEF Instr
    <2>3. CASE IsLocal(names, gs, x)
        <3>1. PICK o, k : o = OpLocal(instr.op) /\ k = IndexIn(names, x)
            OBVIOUS
        <3>2. x \in ToSet(names)
            BY <2>3 DEF IsLocal
        <3>3. k \in Int
            BY <3>1, <3>2, IndexIs
        <3>4. o \in {"LoadLocal", "StoreLocal", "ModifyLocal"}
            BY <1>2, <3>1 DEF OpLocal, Symbolic
        <3>5. PICK r : r = [instr EXCEPT !.op = o, !.c = k]
            OBVIOUS
        <3>6. r = Resolved(names, gs, instr)
            BY <1>2, <2>1, <2>3, <3>1, <3>5 DEF Resolved
        <3>7. o \in Ops /\ o \notin Symbolic
            BY <3>4 DEF Ops, Symbolic
        <3>8. /\ r \in Instr /\ r.name = instr.name /\ r.fn = instr.fn /\ r.line = instr.line
              /\ r.path = instr.path /\ r.op = o /\ r.c = k
            BY <3>3, <3>5, <3>7 DEF Instr
        <3>9. Settled(r, names, Interned(names, gs, instr))
            BY <2>1, <3>1, <3>2, <3>4, <3>8 DEF Settled
        <3>. QED  BY <1>2, <3>4, <3>6, <3>7, <3>8, <3>9
    <2>4. CASE ~IsLocal(names, gs, x)
        <3>0. PICK g : g = Put(gs, x)
            OBVIOUS
        <3>1. PICK o, k : o = OpGlobal(instr.op) /\ k = IndexIn(g, x)
            OBVIOUS
        <3>2. x \notin ToSet(names)
            BY <2>4 DEF IsLocal
        <3>3. g \in Seq(Ident) /\ Distinct(g) /\ x \in ToSet(g) /\ Len(g) \in Nat
            BY <2>2, <3>0, PutIs, LenProperties
        <3>4. k \in 0..(Len(g) - 1) /\ g[k + 1] = x /\ k \in Int
            BY <3>1, <3>3, IndexIs
        <3>5. o \in {"LoadGlobal", "StoreGlobal", "ModifyGlobal"}
            BY <1>2, <3>1 DEF OpGlobal, Symbolic
        <3>6. PICK r : r = [instr EXCEPT !.op = o, !.c = k]
            OBVIOUS
        <3>7. r = Resolved(names, gs, instr)
            BY <1>2, <2>1, <2>4, <3>0, <3>1, <3>6 DEF Resolved
        <3>8. o \in Ops /\ o \notin Symbolic
            BY <3>5 DEF Ops, Symbolic
        <3>9. /\ r \in Instr /\ r.name = instr.name /\ r.fn = instr.fn /\ r.line = instr.line
              /\ r.path = instr.path /\ r.op = o /\ r.c = k
            BY <3>4, <3>6, <3>8 DEF Instr
        <3>10. Interned(names, gs, instr) = g
            BY <1>2, <2>1, <2>4, <3>0 DEF Interned
        <3>11. Settled(r, names, g)
            BY <2>1, <3>2, <3>4, <3>5, <3>9 DEF Settled
        <3>. QED  BY <1>2, <3>5, <3>7, <3>8, <3>9, <3>10, <3>11
    <2>. QED  BY <2>3, <2>4
<1>. QED  BY <1>1, <1>2

LEMMA SettledGrown ==
    ASSUME NEW instr, NEW names, NEW gs \in Seq(Ident), NEW hs \in Seq(Ident),
           Grows(gs, hs), Settled(instr, names, gs)
    PROVE  Settled(instr, names, hs)
<1>1. Len(gs) \in Nat /\ Len(hs) \in Nat /\ Len(gs) <= Len(hs)
    BY LenProperties DEF Grows
<1>2. ASSUME instr.c \in 0..(Len(gs) - 1), gs[instr.c + 1] = instr.name
      PROVE  instr.c \in 0..(Len(hs) - 1) /\ hs[instr.c + 1] = instr.name
    <2>1. instr.c + 1 \in 1..Len(gs) /\ instr.c \in 0..(Len(hs) - 1)
        BY <1>1, <1>2
    <2>. QED  BY <1>2, <2>1 DEF Grows
<1>. QED  BY <1>2 DEF Settled

WalkSteps(names, p, ours) ==
    [j \in 1..Len(p) |-> [v \in WalkState |-> IF j \in ours THEN Walked(names, v, p[j]) ELSE v]]

LEMMA WalkStarts ==
    ASSUME NEW gs \in Seq(Ident), Distinct(gs)
    PROVE  [globals |-> gs, depth |-> 0, maxstack |-> 0, wrapped |-> FALSE] \in WalkState
BY DEF WalkState

LEMMA WalkIs ==
    ASSUME NEW names \in Seq(Ident), Distinct(names), NEW gs \in Seq(Ident), Distinct(gs),
           NEW p \in Seq(Instr), Symbols(p), NEW ours
    PROVE  LET w == Walk(names, gs, p, ours)
           IN  /\ w.end \in WalkState /\ Grows(gs, w.end.globals)
               /\ w.prog \in Seq(Instr) /\ Len(w.prog) = Len(p)
               /\ \A i \in 1..Len(p) :
                    /\ w.prog[i].name = p[i].name /\ w.prog[i].fn = p[i].fn
                    /\ w.prog[i].path = p[i].path
                    /\ i \notin ours \/ p[i].op \notin Symbolic => w.prog[i] = p[i]
                    /\ w.prog[i].op \in Symbolic => p[i].op \in Symbolic
                    /\ p[i].op \in Symbolic => w.prog[i].op # "Function"
                    /\ i \in ours /\ p[i].op \in Symbolic =>
                          Settled(w.prog[i], names, w.end.globals)
<1>1. PICK N, z : N = Len(p) /\ z = [globals |-> gs, depth |-> 0, maxstack |-> 0, wrapped |-> FALSE]
    OBVIOUS
<1>2. N \in Nat /\ \A j \in 1..N : p[j] \in Instr /\ (p[j].op \in Symbolic => p[j].name # NoName)
    BY <1>1, InstrIs DEF Symbols
<1>3. z \in WalkState /\ z.globals = gs
    BY <1>1, WalkStarts
<1>4. PICK F : F = WalkSteps(names, p, ours)
    OBVIOUS
<1>5. \A j \in 1..N, v \in WalkState : F[j][v] = IF j \in ours THEN Walked(names, v, p[j]) ELSE v
    BY <1>1, <1>4 DEF WalkSteps
<1>6. F \in [1..N -> [WalkState -> WalkState]]
    <2>1. ASSUME NEW j \in 1..N, NEW v \in WalkState
          PROVE  (IF j \in ours THEN Walked(names, v, p[j]) ELSE v) \in WalkState
        BY <1>2, WalkedIs
    <2>. QED  BY <1>1, <1>4, <2>1 DEF WalkSteps
<1>7. PICK f : Stepwise(f, WalkState, N, z, F)
    BY <1>2, <1>3, <1>6, Recursion
<1>8. /\ f \in [0..N -> WalkState] /\ f[0] = z
      /\ \A j \in 1..N : f[j] = IF j \in ours THEN Walked(names, f[j - 1], p[j]) ELSE f[j - 1]
    <2>1. f \in [0..N -> WalkState] /\ f[0] = z /\ \A j \in 1..N : f[j] = F[j][f[j - 1]]
        BY <1>7 DEF Stepwise
    <2>2. \A j \in 1..N : j - 1 \in 0..N
        BY <1>2
    <2>. QED  BY <1>5, <2>1, <2>2
<1>9. f = [j \in 0..N |-> IF j = 0 THEN z
                          ELSE IF j \in ours THEN Walked(names, f[j - 1], p[j]) ELSE f[j - 1]]
    <2>1. \A j \in 0..N : j # 0 => j \in 1..N
        BY <1>2
    <2>2. f = [j \in 0..N |-> f[j]]
        BY <1>8
    <2>. QED  BY <1>8, <2>1, <2>2
<1>10. PICK walk : walk = CHOOSE g : g = [j \in 0..N |-> IF j = 0 THEN z
                          ELSE IF j \in ours THEN Walked(names, g[j - 1], p[j]) ELSE g[j - 1]]
    OBVIOUS
<1>11. walk = [j \in 0..N |-> IF j = 0 THEN z
                          ELSE IF j \in ours THEN Walked(names, walk[j - 1], p[j]) ELSE walk[j - 1]]
    BY <1>9, <1>10
<1>12. Walk(names, gs, p, ours) =
         [prog |-> [j \in 1..N |-> IF j \in ours THEN Resolved(names, walk[j - 1].globals, p[j])
                                   ELSE p[j]],
          end |-> walk[N]]
    BY <1>1, <1>10 DEF Walk
<1>13. /\ walk[0] = z
       /\ \A j \in 1..N : walk[j] = IF j \in ours THEN Walked(names, walk[j - 1], p[j])
                                    ELSE walk[j - 1]
    <2>1. 0 \in 0..N /\ \A j \in 1..N : j \in 0..N /\ j # 0
        BY <1>2
    <2>. QED  BY <1>11, <2>1
<1>14. \A j \in 0..N : walk[j] \in WalkState
    <2>. DEFINE S == {j \in 0..N : walk[j] \notin WalkState}
    <2>1. CASE S = {}
        BY <2>1
    <2>2. CASE S # {}
        <3>1. PICK m \in S : \A n \in S : m <= n
            <4>1. S \subseteq Nat
                OBVIOUS
            <4>. HIDE DEF S
            <4>. QED  BY <2>2, <4>1, LeastNat
        <3>2. m \in 1..N
            <4>1. m # 0
                BY <1>3, <1>13
            <4>. QED  BY <4>1
        <3>3. walk[m - 1] \in WalkState
            <4>1. m - 1 \in 0..N /\ ~(m <= m - 1)
                BY <1>2, <3>2
            <4>2. m - 1 \notin S
                <5>. HIDE DEF S
                <5>. QED  BY <3>1, <4>1
            <4>. QED  BY <4>1, <4>2
        <3>4. walk[m] \in WalkState
            BY <1>2, <1>13, <3>2, <3>3, WalkedIs
        <3>. QED  BY <3>4
    <2>. QED  BY <2>1, <2>2
<1>15. \A j \in 1..N : Grows(walk[j - 1].globals, walk[j].globals)
    <2>. TAKE j \in 1..N
    <2>1. j - 1 \in 0..N
        BY <1>2
    <2>2. walk[j - 1] \in WalkState
        BY <1>14, <2>1
    <2>3. CASE j \in ours
        BY <1>2, <1>13, <2>2, <2>3, WalkedIs
    <2>4. CASE j \notin ours
        <3>1. walk[j] = walk[j - 1] /\ walk[j].globals \in Seq(Ident)
            BY <1>13, <2>2, <2>4 DEF WalkState
        <3>. QED  BY <3>1, LenProperties DEF Grows
    <2>. QED  BY <2>3, <2>4
<1>16. \A j \in 0..N : walk[j].globals \in Seq(Ident) /\ Distinct(walk[j].globals)
    BY <1>14 DEF WalkState
<1>17. ASSUME NEW i \in 0..N
       PROVE  \A j \in i..N : Grows(walk[i].globals, walk[j].globals)
    <2>. DEFINE S == {j \in i..N : ~Grows(walk[i].globals, walk[j].globals)}
    <2>1. CASE S = {}
        BY <2>1
    <2>2. CASE S # {}
        <3>1. PICK m \in S : \A n \in S : m <= n
            <4>1. S \subseteq Nat
                OBVIOUS
            <4>. HIDE DEF S
            <4>. QED  BY <2>2, <4>1, LeastNat
        <3>2. m # i
            <4>1. Grows(walk[i].globals, walk[i].globals)
                BY <1>16, LenProperties DEF Grows
            <4>. QED  BY <4>1
        <3>3. m \in i..N
            OBVIOUS
        <3>4. m - 1 \in i..N /\ m - 1 \in 0..N /\ m \in 1..N /\ m \in 0..N /\ ~(m <= m - 1)
            BY <1>2, <3>2, <3>3
        <3>5. Grows(walk[i].globals, walk[m - 1].globals)
            <4>2. m - 1 \notin S
                <5>. HIDE DEF S
                <5>. QED  BY <3>1, <3>4
            <4>. QED  BY <3>4, <4>2
        <3>6. Grows(walk[i].globals, walk[m].globals)
            BY <1>15, <1>16, <3>4, <3>5, GrowsOn
        <3>. QED  BY <3>6
    <2>. QED  BY <2>1, <2>2
<1>18. PICK q : q = [j \in 1..N |-> IF j \in ours THEN Resolved(names, walk[j - 1].globals, p[j])
                                    ELSE p[j]]
    OBVIOUS
<1>19. PICK e : e = walk[N].globals
    OBVIOUS
<1>20. ASSUME NEW i \in 1..N
       PROVE  /\ q[i] \in Instr /\ q[i].name = p[i].name /\ q[i].fn = p[i].fn
              /\ q[i].path = p[i].path
              /\ i \notin ours \/ p[i].op \notin Symbolic => q[i] = p[i]
              /\ q[i].op \in Symbolic => p[i].op \in Symbolic
              /\ p[i].op \in Symbolic => q[i].op # "Function"
              /\ i \in ours /\ p[i].op \in Symbolic => Settled(q[i], names, e)
    <2>1. CASE i \notin ours
        <3>1. q[i] = p[i]
            BY <1>18, <2>1
        <3>2. "Function" \notin Symbolic
            BY DEF Symbolic
        <3>. QED  BY <1>2, <2>1, <3>1, <3>2
    <2>2. CASE i \in ours
        <3>1. PICK g, r : g = walk[i - 1].globals /\ r = Resolved(names, g, p[i])
            OBVIOUS
        <3>2. q[i] = r
            BY <1>18, <2>2, <3>1
        <3>3. i - 1 \in 0..N /\ i \in 0..N /\ N \in i..N
            BY <1>2
        <3>4. g \in Seq(Ident) /\ Distinct(g)
            BY <1>16, <3>1, <3>3
        <3>5. /\ r \in Instr /\ r.name = p[i].name /\ r.fn = p[i].fn /\ r.path = p[i].path
              /\ p[i].op \notin Symbolic => r = p[i]
              /\ r.op \notin Symbolic
              /\ p[i].op \in Symbolic =>
                    r.op # "Function" /\ Settled(r, names, Interned(names, g, p[i]))
            BY <1>2, <3>1, <3>4, ResolvedIs
        <3>6. walk[i].globals = Interned(names, g, p[i])
            <4>1. walk[i] = Walked(names, walk[i - 1], p[i])
                BY <1>13, <2>2
            <4>. QED  BY <3>1, <4>1 DEF Walked
        <3>7. Grows(walk[i].globals, e)
            BY <1>17, <1>19, <3>3
        <3>8. walk[i].globals \in Seq(Ident) /\ e \in Seq(Ident)
            <4>1. N \in 0..N
                BY <1>2
            <4>. QED  BY <1>16, <1>19, <3>3, <4>1
        <3>9. p[i].op \in Symbolic => Settled(r, names, e)
            BY <3>5, <3>6, <3>7, <3>8, SettledGrown
        <3>. QED  BY <2>2, <3>2, <3>5, <3>9
    <2>. QED  BY <2>1, <2>2
<1>21. q \in Seq(Instr) /\ Len(q) = N
    <2>1. q \in [1..N -> Instr]
        <3>1. q = [i \in 1..N |-> q[i]]
            BY <1>18
        <3>. QED  BY <1>20, <3>1
    <2>. QED  BY <1>2, <2>1
<1>22. walk[N] \in WalkState /\ Grows(gs, e)
    <2>1. N \in 0..N /\ 0 \in 0..N
        BY <1>2
    <2>. QED  BY <1>3, <1>13, <1>14, <1>17, <1>19, <2>1
<1>23. Walk(names, gs, p, ours).prog = q /\ Walk(names, gs, p, ours).end = walk[N]
    BY <1>12, <1>18
<1>. QED  BY <1>1, <1>19, <1>20, <1>21, <1>22, <1>23

-----------------------------------------------------------------------------
(* The ranges of the innermost scope are the last ones.                      *)
Sorted(rs) == \A m, n \in 1..Len(rs) : m < n => rs[m].scope <= rs[n].scope

LEMMA OthersIs ==
    ASSUME NEW rs \in Seq(CodeRange), Sorted(rs), Len(rs) > 0, NEW s, s = rs[Len(rs)].scope
    PROVE  /\ Others(rs, s) \in 0..(Len(rs) - 1)
           /\ \A m \in 1..Len(rs) : m <= Others(rs, s) => rs[m].scope < s
           /\ \A m \in 1..Len(rs) : m > Others(rs, s) => rs[m].scope = s
<1>1. PICK N, T : N = Len(rs) /\ T = {0} \union {k \in 1..Len(rs) : rs[k].scope # s}
    OBVIOUS
<1>2. N \in Nat /\ N > 0 /\ N \in 1..N /\ s \in Nat /\ \A m \in 1..N : rs[m].scope \in Nat
    <2>1. N \in Nat /\ N > 0 /\ \A m \in 1..N : rs[m].scope \in Nat
        BY <1>1, RangesAre
    <2>2. N \in 1..N
        BY <2>1
    <2>. QED  BY <1>1, <2>1, <2>2
<1>3. T \subseteq 0..N /\ T # {}
    BY <1>1, <1>2
<1>4. Max(T) \in T /\ \A m \in T : m <= Max(T)
    BY <1>2, <1>3, MaxExists
<1>5. PICK K : K = Max(T)
    OBVIOUS
<1>6. K = Others(rs, s)
    BY <1>1, <1>5 DEF Others
<1>7. K \in 0..(N - 1)
    <2>1. K \in 0..N
        BY <1>3, <1>4, <1>5
    <2>2. N \notin T
        BY <1>1, <1>2
    <2>3. K # N
        BY <1>4, <1>5, <2>2
    <2>. QED  BY <1>2, <2>1, <2>3
<1>8. ASSUME NEW m \in 1..N, m > K
      PROVE  rs[m].scope = s
    <2>1. m \notin T
        BY <1>2, <1>4, <1>5, <1>7, <1>8
    <2>. QED  BY <1>1, <2>1
<1>9. ASSUME NEW m \in 1..N, m <= K
      PROVE  rs[m].scope < s
    <2>1. K \in 1..N /\ K < N
        BY <1>2, <1>7, <1>9
    <2>2. rs[K].scope # s
        BY <1>1, <1>4, <1>5, <2>1
    <2>3. rs[K].scope <= s
        BY <1>1, <1>2, <2>1 DEF Sorted
    <2>4. rs[m].scope <= rs[K].scope
        <3>1. CASE m = K
            BY <1>2, <2>1, <3>1
        <3>2. CASE m # K
            <4>1. m < K
                BY <1>9, <2>1, <3>2
            <4>. QED  BY <1>1, <2>1, <4>1 DEF Sorted
        <3>. QED  BY <3>1, <3>2
    <2>5. rs[K].scope \in Nat /\ rs[m].scope \in Nat
        BY <1>2, <2>1
    <2>. QED  BY <1>2, <2>2, <2>3, <2>4, <2>5
<1>. QED  BY <1>1, <1>6, <1>7, <1>8, <1>9

Parted(rs, s, ours, rest) ==
    /\ \A i : i \in ours <=>
          \E m \in 1..Len(rs) : rs[m].scope = s /\ i \in rs[m].begin..(rs[m].end - 1)
    /\ rest \in Seq(CodeRange) /\ Len(rest) < Len(rs)
    /\ \A m \in 1..Len(rest) : rest[m] = rs[m] /\ rs[m].scope < s
    /\ \A m \in 1..Len(rs) : rs[m].scope # s => m <= Len(rest)

LEMMA OursAre ==
    ASSUME NEW rs \in Seq(CodeRange), Sorted(rs), Len(rs) > 0, NEW s, s = rs[Len(rs)].scope
    PROVE  Parted(rs, s, Positions(Ours(rs, s)), Rest(rs, s))
<1>1. PICK N, K : N = Len(rs) /\ K = Others(rs, s)
    OBVIOUS
<1>2. N \in Nat /\ N > 0 /\ K \in 0..(N - 1)
    BY <1>1, RangesAre, OthersIs
<1>3. /\ \A m \in 1..N : m <= K => rs[m].scope < s
      /\ \A m \in 1..N : m > K => rs[m].scope = s
    BY <1>1, OthersIs
<1>4. PICK o, r : o = Ours(rs, s) /\ r = Rest(rs, s)
    OBVIOUS
<1>5. /\ o \in Seq(CodeRange) /\ Len(o) = N - K
      /\ \A i \in 1..(N - K) : o[i] = rs[K + i]
    <2>1. K + 1 \in Nat /\ N \in Nat /\ 1 <= K + 1 /\ N <= Len(rs) /\ K + 1 <= N + 1
        BY <1>1, <1>2
    <2>2. o = SubSeq(rs, K + 1, N)
        BY <1>1, <1>4 DEF Ours
    <2>3. /\ o \in Seq(CodeRange) /\ Len(o) = N + 1 - (K + 1)
          /\ \A i \in 1..(N + 1 - (K + 1)) : o[i] = rs[(K + 1) + i - 1]
        BY <2>1, <2>2, PartIs
    <2>4. N + 1 - (K + 1) = N - K /\ \A i \in 1..(N - K) : (K + 1) + i - 1 = K + i
        BY <1>2
    <2>. QED  BY <2>3, <2>4
<1>6. /\ r \in Seq(CodeRange) /\ Len(r) = K /\ \A i \in 1..K : r[i] = rs[i]
    <2>1. K \in Nat /\ K <= Len(rs) /\ 1 <= K + 1
        BY <1>1, <1>2
    <2>2. r = SubSeq(rs, 1, K)
        BY <1>1, <1>4 DEF Rest
    <2>3. /\ r \in Seq(CodeRange) /\ Len(r) = K + 1 - 1
          /\ \A i \in 1..(K + 1 - 1) : r[i] = rs[1 + i - 1]
        BY <2>1, <2>2, PartIs
    <2>4. K + 1 - 1 = K /\ \A i \in 1..K : 1 + i - 1 = i
        BY <1>2
    <2>. QED  BY <2>3, <2>4
<1>7. ASSUME NEW i
      PROVE  i \in Positions(o) <=>
                 \E m \in 1..N : rs[m].scope = s /\ i \in rs[m].begin..(rs[m].end - 1)
    <2>1. i \in Positions(o) <=> \E x \in ToSet(o) : i \in x.begin..(x.end - 1)
        BY DEF Positions
    <2>2. \A x : x \in ToSet(o) <=> \E j \in 1..(N - K) : o[j] = x
        BY <1>5, MembersAre
    <2>3. i \in Positions(o) <=> \E j \in 1..(N - K) : i \in o[j].begin..(o[j].end - 1)
        BY <2>1, <2>2
    <2>4. ASSUME NEW j \in 1..(N - K)
          PROVE  K + j \in 1..N /\ o[j] = rs[K + j] /\ rs[K + j].scope = s
        <3>1. K + j \in 1..N /\ K + j > K
            BY <1>2
        <3>. QED  BY <1>3, <1>5, <3>1
    <2>5. ASSUME NEW m \in 1..N, rs[m].scope = s
          PROVE  \E j \in 1..(N - K) : o[j] = rs[m]
        <3>1. s \in Nat
            BY <1>1, <2>5, RangesAre
        <3>2. ~(m <= K)
            BY <1>3, <2>5, <3>1
        <3>3. m - K \in 1..(N - K) /\ K + (m - K) = m
            BY <1>2, <3>2
        <3>. QED  BY <1>5, <3>3
    <2>. QED  BY <2>3, <2>4, <2>5
<1>8. \A m \in 1..K : m \in 1..N /\ rs[m].scope < s
    BY <1>2, <1>3
<1>9. \A m \in 1..N : rs[m].scope # s => m <= K
    BY <1>2, <1>3
<1>10. K < N
    BY <1>2
<1>11. Parted(rs, s, Positions(o), r)
    BY <1>1, <1>6, <1>7, <1>8, <1>9, <1>10 DEF Parted
<1>. QED  BY <1>4, <1>11

(* The code of a scope once its names are settled.                           *)
Settles(p, q, ours, names, gs) ==
    /\ q \in Seq(Instr) /\ Len(q) = Len(p)
    /\ \A i \in 1..Len(p) :
          /\ q[i].name = p[i].name /\ q[i].fn = p[i].fn /\ q[i].path = p[i].path
          /\ i \notin ours \/ p[i].op \notin Symbolic => q[i] = p[i]
          /\ q[i].op \in Symbolic => p[i].op \in Symbolic
          /\ p[i].op \in Symbolic => q[i].op # "Function"
          /\ i \in ours /\ p[i].op \in Symbolic => Settled(q[i], names, gs)

Finished(rs, n) == Front(rs) \o <<[Last(rs) EXCEPT !.end = n]>>

LEMMA FinishedIs ==
    ASSUME NEW rs \in Seq(CodeRange), Len(rs) > 0, NEW n \in Nat
    PROVE  /\ Finished(rs, n) \in Seq(CodeRange) /\ Len(Finished(rs, n)) = Len(rs)
           /\ \A m \in 1..Len(rs) :
                /\ Finished(rs, n)[m].scope = rs[m].scope
                /\ Finished(rs, n)[m].begin = rs[m].begin
                /\ m # Len(rs) => Finished(rs, n)[m] = rs[m]
                /\ m = Len(rs) => Finished(rs, n)[m].end = n
<1>1. Len(rs) \in Nat /\ Len(rs) \in 1..Len(rs) /\ \A m \in 1..Len(rs) : rs[m] \in CodeRange
    <2>1. Len(rs) \in Nat
        BY LenProperties
    <2>2. Len(rs) \in 1..Len(rs)
        BY <2>1
    <2>. QED  BY <2>1, <2>2, ElementOfSeq
<1>2. Last(rs) = rs[Len(rs)]
    BY EndsAre
<1>3. PICK r, e : r = rs[Len(rs)] /\ e = [r EXCEPT !.end = n]
    OBVIOUS
<1>4. r \in CodeRange
    BY <1>1, <1>3
<1>5. e \in CodeRange /\ e.scope = r.scope /\ e.begin = r.begin /\ e.end = n
    BY <1>3, <1>4 DEF CodeRange, Pos
<1>6. PICK d : d = Finished(rs, n)
    OBVIOUS
<1>7. d = Front(rs) \o <<e>>
    BY <1>2, <1>3, <1>6 DEF Finished
<1>8. /\ d \in Seq(CodeRange) /\ Len(d) = Len(rs)
      /\ \A m \in 1..Len(rs) : d[m] = IF m = Len(rs) THEN e ELSE rs[m]
    BY <1>5, <1>7, FrontThen
<1>9. ASSUME NEW m \in 1..Len(rs)
      PROVE  /\ d[m].scope = rs[m].scope /\ d[m].begin = rs[m].begin
             /\ m # Len(rs) => d[m] = rs[m]
             /\ m = Len(rs) => d[m].end = n
    <2>1. CASE m = Len(rs)
        BY <1>3, <1>5, <1>8, <2>1
    <2>2. CASE m # Len(rs)
        BY <1>8, <2>2
    <2>. QED  BY <2>1, <2>2
<1>. QED  BY <1>6, <1>8, <1>9

LEMMA FinishedSorted ==
    ASSUME NEW p, NEW rs \in Seq(CodeRange), NEW t, NEW nsc, NEW sc, Ranged(p, rs, t, nsc, sc),
           NEW n \in Nat
    PROVE  LET done == Finished(rs, n)
           IN  /\ done \in Seq(CodeRange) /\ Sorted(done) /\ Len(done) > 0
               /\ Len(done) = Len(rs) /\ nsc = done[Len(done)].scope
<1>1. Len(rs) > 0 /\ Len(rs) \in Nat
    BY LenProperties DEF Ranged
<1>2. Len(rs) \in 1..Len(rs)
    BY <1>1
<1>3. PICK d : d = Finished(rs, n)
    OBVIOUS
<1>4. /\ d \in Seq(CodeRange) /\ Len(d) = Len(rs)
      /\ \A m \in 1..Len(rs) : d[m].scope = rs[m].scope
    BY <1>1, <1>3, FinishedIs
<1>5. Sorted(d)
    BY <1>4 DEF Sorted, Ranged
<1>. QED  BY <1>1, <1>2, <1>3, <1>4, <1>5 DEF Ranged

(* They are the places of that function's code, none of an outer one's.      *)
LEMMA OursCover ==
    ASSUME NEW p \in Seq(Instr), NEW t \in Seq(Open), NEW st, NEW sh, NEW ss, NEW sc, NEW own,
           NEW h, NEW rs \in Seq(CodeRange), Built(p, t, st, sh, ss, rs, sc, own, h),
           t[Len(t)].kind = "fun", NEW n, n = Len(p) + 1
    PROVE  LET ours == Positions(Ours(Finished(rs, n), Len(ss)))
           IN  \A i \in 1..Len(p) :
                 /\ i \in ours => p[i].fn >= own[Len(t)]
                 /\ p[i].fn = own[Len(t)] => i \in ours \/ Moved(p, own[Len(t)])
<1>1. PICK d, s, l : d = Finished(rs, n) /\ s = Len(ss) /\ l = Len(t)
    OBVIOUS
<1>2. n \in Nat /\ Len(p) \in Nat
    BY InstrIs
<1>3. l \in 1..l /\ l \in Nat
    <2>1. l \in Nat /\ l > 0
        BY <1>1, OpenIs DEF Built, Scoped
    <2>. QED  BY <2>1
<1>4. sc[l] = s /\ Ranged(p, rs, t, s, sc)
    BY <1>1 DEF Built, Scoped
<1>5. d \in Seq(CodeRange) /\ Sorted(d) /\ Len(d) > 0 /\ Len(d) = Len(rs) /\ s = d[Len(d)].scope
    BY <1>1, <1>2, <1>4, FinishedSorted
<1>6. Len(rs) > 0
    BY <1>5
<1>7. \A m \in 1..Len(rs) :
            /\ d[m].scope = rs[m].scope /\ d[m].begin = rs[m].begin
            /\ m # Len(rs) => d[m] = rs[m]
            /\ m = Len(rs) => d[m].end = n
    BY <1>1, <1>2, <1>6, FinishedIs
<1>8. PICK ours : ours = Positions(Ours(d, s))
    OBVIOUS
<1>9. \A i : i \in ours <=>
                 \E m \in 1..Len(rs) : d[m].scope = s /\ i \in d[m].begin..(d[m].end - 1)
    <2>1. \A i : i \in Positions(Ours(d, s)) <=>
                 \E m \in 1..Len(d) : d[m].scope = s /\ i \in d[m].begin..(d[m].end - 1)
        <3>1. d \in Seq(CodeRange)
            BY <1>5
        <3>2. Sorted(d)
            BY <1>5
        <3>3. Len(d) > 0
            BY <1>5
        <3>4. s = d[Len(d)].scope
            BY <1>5
        <3>5. Parted(d, s, Positions(Ours(d, s)), Rest(d, s))
            BY <3>1, <3>2, <3>3, <3>4, OursAre
        <3>. QED  BY <3>5 DEF Parted
    <2>. QED  BY <1>5, <1>8, <2>1
<1>10. ASSUME NEW i \in 1..Len(p), i \in ours
       PROVE  p[i].fn >= own[l]
    <2>1. PICK m \in 1..Len(rs) : d[m].scope = s /\ i \in d[m].begin..(d[m].end - 1)
        BY <1>9, <1>10
    <2>2. rs[m].scope = sc[l] /\ rs[m].begin \in Nat /\ rs[m].begin <= i
        BY <1>4, <1>7, <2>1, RangesAre
    <2>3. rs[m].begin > t[l].begin /\ t[l].begin \in Nat
        BY <1>1, <1>3, <1>4, <2>2, OpenIs DEF Ranged
    <2>4. i > t[l].begin
        BY <2>2, <2>3
    <2>. QED  BY <1>1, <1>3, <2>4 DEF Built, Owned
<1>11. ASSUME NEW i \in 1..Len(p), p[i].fn = own[l], ~Moved(p, own[l])
       PROVE  i \in ours
    <2>1. CoveredBy(p, rs, own[l], s)
        BY <1>1, <1>3, <1>4, <1>11 DEF Built, Covering
    <2>2. PICK m \in 1..Len(rs) : /\ rs[m].scope = s /\ rs[m].begin <= i
                                  /\ i < rs[m].end \/ rs[m].end = NoPos
        BY <1>11, <2>1 DEF CoveredBy
    <2>3. rs[m].begin \in Nat /\ rs[m].end \in Int /\ d[m].begin = rs[m].begin /\ d[m].scope = s
        BY <1>7, <2>2, RangesAre
    <2>4. i < d[m].end /\ d[m].end \in Int
        <3>1. CASE m = Len(rs)
            BY <1>2, <1>7, <3>1
        <3>2. CASE m # Len(rs)
            <4>1. rs[m].end # NoPos
                BY <1>4, <3>2 DEF Ranged
            <4>. QED  BY <1>7, <2>2, <2>3, <3>2, <4>1
        <3>. QED  BY <3>1, <3>2
    <2>5. i \in d[m].begin..(d[m].end - 1)
        BY <2>2, <2>3, <2>4
    <2>. QED  BY <1>9, <2>3, <2>5
<1>. QED  BY <1>1, <1>8, <1>10, <1>11

-----------------------------------------------------------------------------
(* close_scope settles the names of the function that ends, and leaves the
   others alone.                                                             *)
LEMMA MovedSettled ==
    ASSUME NEW p \in Seq(Instr), NEW q, NEW ours, NEW names, NEW gs,
           Settles(p, q, ours, names, gs), NEW f
    PROVE  /\ Moved(q, f) <=> Moved(p, f)
           /\ \A i \in 1..Len(p) : p[i].op = "Function" <=> q[i].op = "Function"
<1>1. Len(q) = Len(p) /\ Len(p) \in Nat
    BY InstrIs DEF Settles
<1>2. \A i \in 1..Len(p) : p[i].op = "Function" <=> q[i].op = "Function"
    <2>. TAKE i \in 1..Len(p)
    <2>1. "Function" \notin Symbolic
        BY DEF Symbolic
    <2>2. CASE p[i].op \in Symbolic
        BY <2>1, <2>2 DEF Settles
    <2>3. CASE p[i].op \notin Symbolic
        BY <2>3 DEF Settles
    <2>. QED  BY <2>2, <2>3
<1>3. \A i \in 1..Len(p) : q[i].fn = p[i].fn
    BY DEF Settles
<1>4. \A i \in 1..Len(p) : \A of, piece : InPiece(q[i], of, piece) <=> InPiece(p[i], of, piece)
    BY PieceKept DEF Settles
<1>5. ASSUME NEW i \in 1..Len(p), NEW j \in 1..Len(p), NEW n \in Nat
      PROVE  (/\ p[i].fn = f /\ p[i].op = "Function" /\ p[j].fn = f
              /\ InPiece(p[i], n, 2) /\ InPiece(p[j], n, 3))
             <=> (/\ q[i].fn = f /\ q[i].op = "Function" /\ q[j].fn = f
                  /\ InPiece(q[i], n, 2) /\ InPiece(q[j], n, 3))
    BY <1>2, <1>3, <1>4
<1>6. Moved(q, f) <=> Moved(p, f)
    BY <1>1, <1>5 DEF Moved
<1>. QED  BY <1>2, <1>6

(* The shapes when function f ends.                                          *)
Shaped(sh, si, f, names) ==
    /\ si \in Seq(Shape) /\ Len(si) = Len(sh) /\ si[f].names = names
    /\ \A g \in 1..Len(sh) : g # f => si[g] = sh[g]

(* The function of entry Len(t) ends where the code p does: `ours` is its own. *)
Ends(p, t, sh, ss, rs, own, n, ours, si) ==
    /\ p \in Seq(Instr) /\ t \in Seq(Open) /\ sh \in Seq(Shape) /\ rs \in Seq(CodeRange)
    /\ t[Len(t)].kind = "fun" /\ n = Len(p) + 1
    /\ ours = Positions(Ours(Finished(rs, n), Len(ss)))
    /\ Shaped(sh, si, own[Len(t)], ss[Len(ss)])

LEMMA ResolutionClosed ==
    ASSUME NEW p, NEW t, NEW st, NEW sh, NEW ss, NEW sc, NEW own, NEW h, NEW rs, NEW n,
           NEW ours, NEW si, Ends(p, t, sh, ss, rs, own, n, ours, si),
           Built(p, t, st, sh, ss, rs, sc, own, h),
           NEW q, NEW gs \in Seq(Ident), NEW hs \in Seq(Ident), Grows(gs, hs),
           Settles(p, q, ours, ss[Len(ss)], hs),
           Resolution(p, sh, gs), Symbols(p)
    PROVE  Resolution(q, si, hs) /\ Symbols(q)
<1>. /\ p \in Seq(Instr) /\ t \in Seq(Open) /\ sh \in Seq(Shape) /\ rs \in Seq(CodeRange)
     /\ t[Len(t)].kind = "fun" /\ n = Len(p) + 1
     /\ ours = Positions(Ours(Finished(rs, n), Len(ss)))
     /\ Shaped(sh, si, own[Len(t)], ss[Len(ss)])
    BY DEF Ends
<1>1. Len(q) = Len(p) /\ Len(p) \in Nat
    BY InstrIs DEF Settles
<1>2. PICK l, f, names : l = Len(t) /\ f = own[l] /\ names = ss[Len(ss)]
    OBVIOUS
<1>3. l \in 1..l /\ l \in Nat /\ sc[l] = Len(ss)
    <2>1. l \in Nat /\ l > 0 /\ sc[l] = Len(ss)
        BY <1>2, OpenIs DEF Built, Scoped
    <2>. QED  BY <2>1
<1>4. \A i \in 1..Len(p) : p[i].fn = f => i \in ours \/ Moved(p, f)
    BY <1>2, OursCover
<1>5. ASSUME NEW g \in 1..Len(si), si[g].offset > 0, ~Moved(q, g),
             NEW i \in 1..Len(p), q[i].fn = g, q[i].name # NoName
      PROVE  Settled(q[i], si[g].names, hs)
    <2>1. ~Moved(p, g)
        BY <1>5, MovedSettled
    <2>2. p[i].fn = g /\ p[i].name # NoName /\ p[i].name = q[i].name
        BY <1>5 DEF Settles
    <2>3. g \in 1..Len(sh)
        BY DEF Shaped
    <2>4. CASE g = f
        <3>1. i \in ours /\ si[g].names = names
            BY <1>2, <1>4, <2>1, <2>2, <2>4 DEF Shaped
        <3>2. CASE p[i].op \in Symbolic
            BY <1>2, <3>1, <3>2 DEF Settles
        <3>3. CASE p[i].op \notin Symbolic
            <4>1. q[i] = p[i]
                BY <3>3 DEF Settles
            <4>2. /\ p[i].op = "StoreLocal" /\ p[i].name \in ToSet(names)
                  /\ p[i].c = IndexIn(names, p[i].name)
                BY <1>2, <1>3, <2>2, <2>4, <3>3 DEF Built, Named
            <4>3. Settled(p[i], names, hs)
                BY <4>2 DEF Settled
            <4>. QED  BY <3>1, <4>1, <4>3
        <3>. QED  BY <3>2, <3>3
    <2>5. CASE g # f
        <3>1. si[g] = sh[g]
            BY <1>2, <2>3, <2>5 DEF Shaped
        <3>2. Settled(p[i], sh[g].names, gs)
            BY <1>5, <2>1, <2>2, <2>3, <3>1 DEF Resolution
        <3>3. p[i].op \notin Symbolic
            BY <3>2 DEF Settled, Symbolic
        <3>4. q[i] = p[i]
            BY <3>3 DEF Settles
        <3>. QED  BY <3>1, <3>2, <3>4, SettledGrown
    <2>. QED  BY <2>4, <2>5
<1>6. Resolution(q, si, hs)
    BY <1>1, <1>5 DEF Resolution
<1>7. Symbols(q)
    BY <1>1 DEF Symbols, Settles
<1>. QED  BY <1>6, <1>7

Lowered(t, g) == [k \in 1..(Len(t) - 1) |-> g[k]]

LEMMA StackedFunPopped ==
    ASSUME NEW p, NEW t \in Seq(Open), NEW w, NEW s \in Seq(Place), NEW g,
           Stacked(p, t, w, s, g), Len(t) > 1, t[Len(t)].kind = "fun"
    PROVE  /\ Front(s) \in Seq(Place)
           /\ Stacked(p, Front(t), w, Front(s), Lowered(t, g))
<1>1. Len(t) > 0
    BY OpenIs
<1>2. Front(s) \in Seq(Place) /\ Cut(s, Front(s), g[Len(t)] - 1)
    BY <1>1, FunMarkIs
<1>3. t[Len(t)].kind \in MarkedBy(w)
    BY DEF MarkedBy
<1>4. PICK r : r = Front(s)
    OBVIOUS
<1>5. r \in Seq(Place)
      /\ Cut(s, r, IF t[Len(t)].kind \in MarkedBy(w) THEN g[Len(t)] - 1 ELSE Len(s))
    BY <1>2, <1>3, <1>4
<1>6. Stacked(p, Front(t), w, r, [k \in 1..(Len(t) - 1) |-> g[k]])
    BY <1>5, StackedPopped
<1>. QED  BY <1>4, <1>5, <1>6 DEF Lowered

(* What there is of an open function, whatever has just been begun or ended.  *)
Standing(p, t, st, sh, ss, rs) ==
    /\ \A w \in Which : st[w] \in Seq(Place)
    /\ rs \in Seq(CodeRange)
    /\ \E sc, own, h : Built(p, t, st, sh, ss, rs, sc, own, h)

(* What is known of a source while it is being parsed.                        *)
Inside(p, t, st, sh, ss, rs, sc, own, h) ==
    /\ p \in Seq(Instr) /\ t \in Seq(Open) /\ \A w \in Which : st[w] \in Seq(Place)
    /\ sh \in Seq(Shape) /\ ss \in Seq(Seq(Ident)) /\ rs \in Seq(CodeRange)
    /\ Built(p, t, st, sh, ss, rs, sc, own, h)

(* What a function has done when it ends.                                     *)
Leaving(p, t, sh, ss, rs, own, n, ours, q, gs, si, rt) ==
    /\ Len(t) > 1 /\ t[Len(t)].kind = "fun" /\ n = Len(p) + 1
    /\ ours = Positions(Ours(Finished(rs, n), Len(ss)))
    /\ Settles(p, q, ours, ss[Len(ss)], gs) /\ Shaped(sh, si, own[Len(t)], ss[Len(ss)])
    /\ rt = Append(Rest(Finished(rs, n), Len(ss)),
                   [scope |-> Len(ss) - 1, begin |-> n, end |-> NoPos])
Lifted(st, su) ==
    su \in [Which -> Seq(Place)] /\ \A w \in Which : su[w] = Front(st[w])

LEMMA BuiltClosed ==
    ASSUME NEW p, NEW t, NEW st, NEW sh, NEW ss, NEW rs, NEW sc, NEW own, NEW h,
           Inside(p, t, st, sh, ss, rs, sc, own, h),
           NEW n, NEW ours, NEW q, NEW gs, NEW si, NEW rt,
           Leaving(p, t, sh, ss, rs, own, n, ours, q, gs, si, rt), NEW su, Lifted(st, su)
    PROVE  Standing(q, Front(t), su, si, Front(ss), rt)
<1>a. /\ p \in Seq(Instr) /\ t \in Seq(Open) /\ sh \in Seq(Shape)
      /\ ss \in Seq(Seq(Ident)) /\ rs \in Seq(CodeRange)
    BY DEF Inside
<1>b. Len(t) > 1 /\ t[Len(t)].kind = "fun" /\ n = Len(p) + 1
    BY DEF Leaving
<1>c. ours = Positions(Ours(Finished(rs, n), Len(ss)))
    BY DEF Leaving
<1>d. Settles(p, q, ours, ss[Len(ss)], gs) /\ Shaped(sh, si, own[Len(t)], ss[Len(ss)])
    BY DEF Leaving
<1>e. rt = Append(Rest(Finished(rs, n), Len(ss)),
                 [scope |-> Len(ss) - 1, begin |-> n, end |-> NoPos])
    BY DEF Leaving
<1>f. \A w \in Which : st[w] \in Seq(Place) /\ su[w] = Front(st[w])
    BY DEF Inside, Lifted
<1>0. /\ Scoped(t, Len(ss), Len(sh), sc, own) /\ Placed(p, t)
      /\ \A w \in Which : Stacked(p, t, w, st[w], h[w])
      /\ Owned(p, t, sh, own) /\ Ranged(p, rs, t, Len(ss), sc)
      /\ Covering(p, rs, t, sc, own) /\ Looped(p, rs, t, sc, own)
      /\ Named(p, ss, t, sc, own)
      /\ \A k \in 2..Len(t) : t[k].kind = "fun" => t[k].name # NoName
    BY DEF Inside, Built
<1>1. PICK l, u, N : l = Len(t) /\ u = Front(t) /\ N = Len(ss)
    OBVIOUS
<1>2. l \in Nat /\ l > 1 /\ l \in 1..l /\ l \in 2..l /\ l - 1 \in 1..(l - 1) /\ l - 1 \in 1..l /\ 1 \in 1..(l - 1)
    <2>1. l \in Nat /\ l > 1
        BY <1>a, <1>b, <1>1, OpenIs
    <2>. QED  BY <2>1
<1>3. u \in Seq(Open) /\ Len(u) = l - 1 /\ \A k \in 1..(l - 1) : u[k] = t[k]
    <2>1. Len(t) > 0
        BY <1>1, <1>2
    <2>. QED  BY <1>a, <1>1, <2>1, EndsAre
<1>4. \A k \in 1..(l - 1) : k \in 1..l /\ k < l
    BY <1>2
<1>5. N \in Nat /\ Len(sh) \in Nat /\ Len(p) \in Nat /\ Len(q) = Len(p) /\ q \in Seq(Instr)
      /\ n \in Nat /\ Len(si) = Len(sh) /\ si \in Seq(Shape)
    BY <1>a, <1>b, <1>d, <1>1, LenProperties, InstrIs DEF Settles, Shaped
<1>6. /\ \A k \in 1..l : sc[k] \in 1..N /\ own[k] \in 1..Len(sh)
      /\ t[1].kind = "fun" /\ sc[1] = 1 /\ sc[l] = N
    BY <1>0, <1>1 DEF Scoped
<1>7. \A k \in 1..(l - 1) : sc[k] < N /\ own[k] < own[l]
    <2>. TAKE k \in 1..(l - 1)
    <2>1. k \in 1..l /\ k < l /\ l \in (k + 1)..l
        BY <1>2
    <2>2. \E j \in (k + 1)..l : t[j].kind = "fun"
        BY <1>b, <1>1, <2>1
    <2>3. IF \E j \in (k + 1)..l : t[j].kind = "fun"
          THEN sc[k] < sc[l] /\ own[k] < own[l]
          ELSE sc[k] = sc[l] /\ own[k] = own[l]
        BY <1>0, <1>1, <1>2, <2>1 DEF Scoped
    <2>. QED  BY <1>6, <2>2, <2>3
<1>8. sc[l - 1] = N - 1 /\ N - 1 \in Nat
    <2>1. sc[l] = sc[l - 1] + 1
        BY <1>b, <1>0, <1>1, <1>2 DEF Scoped
    <2>2. PICK x : x = sc[l - 1]
        OBVIOUS
    <2>3. x \in 1..N /\ N = x + 1
        BY <1>2, <1>6, <2>1, <2>2
    <2>4. x = N - 1 /\ N - 1 \in Nat
        BY <1>5, <2>3
    <2>. QED  BY <2>2, <2>4
<1>9. /\ Front(ss) \in Seq(Seq(Ident)) /\ Len(Front(ss)) = N - 1
      /\ \A s \in 1..(N - 1) : Front(ss)[s] = ss[s] /\ s \in 1..N
    <2>1. Len(ss) > 0
        BY <1>1, <1>5, <1>8
    <2>2. \A s \in 1..(N - 1) : s \in 1..N
        BY <1>5
    <2>. QED  BY <1>a, <1>1, <2>1, <2>2, EndsAre
<1>10. PICK sd, owm, g :
         /\ sd = [k \in 1..(l - 1) |-> sc[k]] /\ owm = [k \in 1..(l - 1) |-> own[k]]
         /\ g = [w \in Which |-> Lowered(t, h[w])]
    OBVIOUS
<1>11. \A k \in 1..(l - 1) : sd[k] = sc[k] /\ owm[k] = own[k]
    BY <1>10
<1>12. \A i \in 1..Len(p) : q[i].fn = p[i].fn /\ q[i].name = p[i].name
                            /\ (p[i].op = "Function" <=> q[i].op = "Function")
                            /\ (p[i].op = "Function" => q[i] = p[i])
    <2>1. "Function" \notin Symbolic
        BY DEF Symbolic
    <2>. QED  BY <1>a, <1>d, <2>1, MovedSettled DEF Settles
<1>13. \A i \in 1..Len(p) : \A of, piece : InPiece(q[i], of, piece) <=> InPiece(p[i], of, piece)
    BY <1>a, <1>d, PieceKept DEF Settles
<1>14. \A i \in Jumps(p) : i \in Jumps(q)
    <2>. TAKE i \in Jumps(p)
    <2>1. i \in 1..Len(p) /\ p[i].op \notin Symbolic
        BY DEF Jumps, Symbolic
    <2>2. q[i] = p[i]
        BY <1>d, <2>1 DEF Settles
    <2>. QED  BY <1>5, <2>1, <2>2 DEF Jumps
<1>15. Scoped(u, N - 1, Len(si), sd, owm)
    <2>1. \A k \in 1..(l - 1) : sc[k] \in 1..(N - 1) /\ own[k] \in 1..Len(si)
        <3>. TAKE k \in 1..(l - 1)
        <3>1. k \in 1..l /\ sc[k] < N
            BY <1>4, <1>7
        <3>2. sc[k] \in 1..N /\ own[k] \in 1..Len(sh)
            BY <1>6, <3>1
        <3>. QED  BY <1>5, <3>1, <3>2
    <2>2. sd \in [1..(l - 1) -> 1..(N - 1)] /\ owm \in [1..(l - 1) -> 1..Len(si)]
        BY <1>10, <2>1
    <2>3. u[1].kind = "fun" /\ sd[1] = 1 /\ sd[l - 1] = N - 1
        BY <1>2, <1>3, <1>6, <1>8, <1>11
    <2>4. ASSUME NEW k \in 2..(l - 1), u[k].kind = "fun"
          PROVE  sd[k] = sd[k - 1] + 1
        <3>1. k \in 1..(l - 1) /\ k - 1 \in 1..(l - 1) /\ k \in 2..l
            BY <1>2
        <3>. QED  BY <1>0, <1>1, <1>3, <1>11, <2>4, <3>1 DEF Scoped
    <2>5. ASSUME NEW k \in 1..(l - 1), NEW m \in 1..(l - 1), k < m
          PROVE  IF \E j \in (k + 1)..m : u[j].kind = "fun"
                 THEN sd[k] < sd[m] /\ owm[k] < owm[m]
                 ELSE sd[k] = sd[m] /\ owm[k] = owm[m]
        <3>1. \A j \in (k + 1)..m : j \in 1..(l - 1)
            BY <1>2
        <3>2. (\E j \in (k + 1)..m : u[j].kind = "fun")
                 <=> (\E j \in (k + 1)..m : t[j].kind = "fun")
            BY <1>3, <3>1
        <3>3. IF \E j \in (k + 1)..m : t[j].kind = "fun"
              THEN sc[k] < sc[m] /\ own[k] < own[m]
              ELSE sc[k] = sc[m] /\ own[k] = own[m]
            BY <1>0, <1>1, <1>4, <2>5 DEF Scoped
        <3>. QED  BY <1>11, <3>2, <3>3
    <2>6. PICK v, M : v = l - 1 /\ M = N - 1
        OBVIOUS
    <2>7. v > 0 /\ Len(u) = v
        BY <1>2, <1>3, <2>6
    <2>8. sd \in [1..v -> 1..M] /\ owm \in [1..v -> 1..Len(si)]
        BY <2>2, <2>6
    <2>9. u[1].kind = "fun" /\ sd[1] = 1 /\ sd[v] = M
        BY <2>3, <2>6
    <2>10. \A k \in 2..v : u[k].kind = "fun" => sd[k] = sd[k - 1] + 1
        BY <2>4, <2>6
    <2>11. \A k, m \in 1..v : k < m =>
             IF \E j \in (k + 1)..m : u[j].kind = "fun"
             THEN sd[k] < sd[m] /\ owm[k] < owm[m]
             ELSE sd[k] = sd[m] /\ owm[k] = owm[m]
        BY <2>5, <2>6
    <2>12. Scoped(u, M, Len(si), sd, owm)
        BY <2>7, <2>8, <2>9, <2>10, <2>11 DEF Scoped
    <2>. QED  BY <2>6, <2>12
<1>16. Placed(q, u)
    <2>1. Placed(p, t)
        BY <1>0
    <2>2. Placed(p, u)
        BY <1>a, <1>b, <1>1, <2>1, PlacedPopped
    <2>. QED  BY <1>5, <1>14, <2>2 DEF Placed
<1>17. ASSUME NEW w \in Which
       PROVE  su[w] \in Seq(Place) /\ Stacked(q, u, w, su[w], g[w])
    <2>1. Stacked(p, t, w, st[w], h[w]) /\ st[w] \in Seq(Place)
        BY <1>f, <1>0
    <2>2. su[w] = Front(st[w])
        BY <1>f
    <2>3. /\ Front(st[w]) \in Seq(Place)
          /\ Stacked(p, Front(t), w, Front(st[w]), Lowered(t, h[w]))
        BY <1>a, <1>b, <2>1, StackedFunPopped
    <2>7. Stacked(p, u, w, su[w], g[w])
        BY <1>1, <1>10, <2>2, <2>3
    <2>. QED  BY <1>14, <2>2, <2>3, <2>7 DEF Stacked
<1>18. \A k \in 1..(l - 1) : si[own[k]] = sh[own[k]]
    <2>. TAKE k \in 1..(l - 1)
    <2>1. own[k] \in 1..Len(sh) /\ own[l] \in 1..Len(sh) /\ own[k] < own[l]
        BY <1>2, <1>4, <1>6, <1>7
    <2>2. own[k] # own[l]
        BY <2>1
    <2>. QED  BY <1>d, <1>1, <2>1, <2>2 DEF Shaped
<1>19. Owned(q, u, si, owm)
    <2>1. \A i \in 1..Len(q) : q[i].fn <= Len(si)
        BY <1>0, <1>5, <1>12 DEF Owned
    <2>2. ASSUME NEW k \in 1..(l - 1), u[k].kind = "fun"
          PROVE  /\ u[k].begin <= Len(q) /\ q[u[k].begin].op = "Function"
                 /\ q[u[k].begin].c = owm[k] /\ si[owm[k]].offset = 0
                 /\ \A i \in 1..Len(q) :
                       IF i > u[k].begin THEN q[i].fn >= owm[k] ELSE q[i].fn < owm[k]
        <3>1. k \in 1..l /\ u[k] = t[k] /\ owm[k] = own[k] /\ t[k].kind = "fun"
            BY <1>3, <1>4, <1>11, <2>2
        <3>2. /\ t[k].begin <= Len(p) /\ p[t[k].begin].op = "Function"
              /\ p[t[k].begin].c = own[k] /\ sh[own[k]].offset = 0
              /\ \A i \in 1..Len(p) :
                    IF i > t[k].begin THEN p[i].fn >= own[k] ELSE p[i].fn < own[k]
            BY <1>0, <1>1, <3>1 DEF Owned
        <3>3. t[k].begin \in 1..Len(p)
            <4>1. t[k].begin \in 1..(Len(p) + 1)
                BY <1>0, <1>1, <3>1 DEF Placed
            <4>. QED  BY <1>5, <3>2, <4>1
        <3>4. q[t[k].begin] = p[t[k].begin]
            BY <1>12, <3>2, <3>3
        <3>. QED  BY <1>5, <1>12, <1>18, <3>1, <3>2, <3>4
    <2>. QED  BY <1>3, <2>1, <2>2 DEF Owned
<1>20. PICK d, rest, e : /\ d = Finished(rs, n) /\ rest = Rest(d, N)
                         /\ e = [scope |-> N - 1, begin |-> n, end |-> NoPos]
    OBVIOUS
<1>21. d \in Seq(CodeRange) /\ Sorted(d) /\ Len(d) > 0 /\ Len(d) = Len(rs) /\ N = d[Len(d)].scope
    BY <1>a, <1>0, <1>1, <1>5, <1>20, FinishedSorted
<1>22. Parted(d, N, Positions(Ours(d, N)), rest)
    BY <1>20, <1>21, OursAre
<1>23. Len(rs) > 0 /\ Len(rs) \in Nat /\ Len(rs) \in 1..Len(rs)
    <2>1. Len(rs) > 0 /\ Len(rs) \in Nat
        BY <1>21, LenProperties
    <2>. QED  BY <2>1
<1>24. \A m \in 1..Len(rs) : /\ d[m].scope = rs[m].scope /\ d[m].begin = rs[m].begin
                             /\ m # Len(rs) => d[m] = rs[m]
    BY <1>a, <1>5, <1>20, <1>23, FinishedIs
<1>25. PICK K : K = Len(rest)
    OBVIOUS
<1>26. rest \in Seq(CodeRange) /\ K \in Nat /\ K < Len(rs)
    BY <1>21, <1>22, <1>25, LenProperties DEF Parted
<1>27. \A m \in 1..K : m \in 1..Len(rs) /\ m # Len(rs) /\ rest[m] = rs[m] /\ rs[m].scope < N
    <2>. TAKE m \in 1..K
    <2>1. m \in 1..Len(rs) /\ m # Len(rs)
        BY <1>23, <1>26
    <2>2. rest[m] = d[m] /\ d[m].scope < N
        BY <1>22, <1>25 DEF Parted
    <2>. QED  BY <1>24, <2>1, <2>2
<1>28. \A m \in 1..Len(rs) : rs[m].scope # N => m \in 1..K
    <2>. TAKE m \in 1..Len(rs)
    <2>1. rs[m].scope # N => m <= K
        BY <1>21, <1>22, <1>24, <1>25 DEF Parted
    <2>. QED  BY <1>26, <2>1
<1>29. e \in CodeRange /\ e.scope = N - 1 /\ e.begin = n /\ e.end = NoPos
    BY <1>5, <1>8, <1>20 DEF CodeRange, Pos
<1>30. /\ rt \in Seq(CodeRange) /\ Len(rt) = K + 1
       /\ rt[K + 1] = e /\ \A m \in 1..K : rt[m] = rs[m]
    <2>1. rt = Append(rest, e)
        BY <1>e, <1>1, <1>20
    <2>2. /\ rt \in Seq(CodeRange) /\ Len(rt) = K + 1
          /\ \A m \in 1..(K + 1) : rt[m] = IF m = K + 1 THEN e ELSE rest[m]
        <3>1. rest \in Seq(CodeRange) /\ e \in CodeRange
            BY <1>26, <1>29
        <3>2. /\ Append(rest, e) \in Seq(CodeRange) /\ Len(Append(rest, e)) = Len(rest) + 1
              /\ \A m \in 1..(Len(rest) + 1) :
                    Append(rest, e)[m] = IF m = Len(rest) + 1 THEN e ELSE rest[m]
            BY <3>1, AppendIs
        <3>. QED  BY <1>25, <2>1, <3>2
    <2>3. K + 1 \in 1..(K + 1) /\ \A m \in 1..K : m \in 1..(K + 1) /\ m # K + 1
        BY <1>26
    <2>. QED  BY <1>27, <2>2, <2>3
<1>31. \A m \in 1..(K + 1) : m \in 1..K \/ m = K + 1
    BY <1>26
<1>32. Ranged(q, rt, u, N - 1, sd)
    <2>1. Len(rt) > 0 /\ rt[Len(rt)].scope = N - 1
        BY <1>26, <1>29, <1>30
    <2>2. \A m \in 1..Len(rt) : (rt[m].end = NoPos) <=> (m = Len(rt))
        <3>1. \A m \in 1..K : rt[m].end # NoPos /\ m # K + 1
            <4>1. \A m \in 1..Len(rs) : rs[m].end = NoPos => m = Len(rs)
                BY <1>0 DEF Ranged
            <4>2. \A m \in 1..K : rs[m].end # NoPos
                BY <1>27, <4>1
            <4>3. \A m \in 1..K : m # K + 1
                BY <1>26
            <4>. QED  BY <1>30, <4>2, <4>3
        <3>. QED  BY <1>29, <1>30, <1>31, <3>1
    <2>3. \A m, k \in 1..Len(rt) : m < k => rt[m].scope <= rt[k].scope
        <3>. SUFFICES ASSUME NEW m \in 1..(K + 1), NEW k \in 1..(K + 1), m < k
                      PROVE  rt[m].scope <= rt[k].scope
            BY <1>30
        <3>1. m \in 1..K
            BY <1>26
        <3>2. CASE k \in 1..K
            BY <1>0, <1>27, <1>30, <3>1, <3>2 DEF Ranged
        <3>3. CASE k = K + 1
            <4>1. rs[m].scope < N /\ rs[m].scope \in Nat
                BY <1>a, <1>27, <3>1, RangesAre
            <4>. QED  BY <1>5, <1>27, <1>29, <1>30, <3>1, <3>3, <4>1
        <3>. QED  BY <1>31, <3>2, <3>3
    <2>4. \A m \in 1..Len(rt) : rt[m].begin <= Len(q) + 1
        <3>1. \A m \in 1..K : rs[m].begin <= Len(p) + 1
            BY <1>0, <1>27 DEF Ranged
        <3>2. n <= Len(p) + 1
            BY <1>b, <1>5
        <3>. QED  BY <1>5, <1>29, <1>30, <1>31, <3>1, <3>2
    <2>5. ASSUME NEW m \in 1..Len(rt), NEW k \in 1..(l - 1), u[k].kind = "fun", rt[m].scope = sd[k]
          PROVE  rt[m].begin > u[k].begin
        <3>1. k \in 1..l /\ t[k].kind = "fun" /\ u[k] = t[k] /\ sd[k] = sc[k]
            BY <1>3, <1>4, <1>11, <2>5
        <3>2. CASE m \in 1..K
            BY <1>0, <1>1, <1>27, <1>30, <2>5, <3>1, <3>2 DEF Ranged
        <3>3. CASE m = K + 1
            <4>1. t[k].begin <= Len(p) /\ t[k].begin \in Nat
                BY <1>a, <1>0, <1>1, <3>1, OpenIs DEF Owned
            <4>2. n > t[k].begin
                BY <1>b, <1>5, <4>1
            <4>. QED  BY <1>29, <1>30, <3>1, <3>3, <4>2
        <3>. QED  BY <1>30, <1>31, <3>2, <3>3
    <2>. QED  BY <1>3, <2>1, <2>2, <2>3, <2>4, <2>5 DEF Ranged
<1>33. Covering(q, rt, u, sd, owm)
    <2>1. ASSUME NEW k \in 1..(l - 1), ~Moved(q, owm[k])
          PROVE  CoveredBy(q, rt, owm[k], sd[k])
        <3>1. k \in 1..l /\ sd[k] = sc[k] /\ owm[k] = own[k] /\ sc[k] < N /\ sc[k] \in 1..N
            BY <1>4, <1>6, <1>7, <1>11
        <3>2. ~Moved(p, own[k])
            BY <1>a, <1>d, <2>1, <3>1, MovedSettled
        <3>3. CoveredBy(p, rs, own[k], sc[k])
            BY <1>0, <1>1, <3>1, <3>2 DEF Covering
        <3>4. ASSUME NEW i \in 1..Len(p), q[i].fn = own[k]
              PROVE  \E m \in 1..Len(rt) : /\ rt[m].scope = sc[k] /\ rt[m].begin <= i
                                           /\ i < rt[m].end \/ rt[m].end = NoPos
            <4>1. PICK m \in 1..Len(rs) : /\ rs[m].scope = sc[k] /\ rs[m].begin <= i
                                          /\ i < rs[m].end \/ rs[m].end = NoPos
                BY <1>12, <3>3, <3>4 DEF CoveredBy
            <4>2. rs[m].scope # N
                BY <1>5, <3>1, <4>1
            <4>3. m \in 1..K
                BY <1>28, <4>2
            <4>4. m \in 1..(K + 1)
                BY <1>26, <4>3
            <4>. QED  BY <1>30, <4>1, <4>3, <4>4
        <3>5. CoveredBy(q, rt, own[k], sc[k])
            BY <1>5, <3>4 DEF CoveredBy
        <3>. QED  BY <3>1, <3>5
    <2>. QED  BY <1>3, <2>1 DEF Covering
<1>34. Looped(q, rt, u, sd, owm)
    <2>1. ASSUME NEW k \in 1..(l - 1), u[k].kind = "for"
          PROVE  /\ \A i \in 1..Len(q) : u[k].i1 <= i /\ i < u[k].i2 =>
                      q[i].fn = owm[k] /\ InPiece(q[i], u[k].of, 3)
                 /\ Defines(q, u, k, owm[k])
        <3>1. k \in 1..l /\ u[k] = t[k] /\ owm[k] = own[k] /\ k < l /\ t[k].kind = "for"
            BY <1>3, <1>4, <1>11, <2>1
        <3>2. /\ \A i \in 1..Len(p) : t[k].i1 <= i /\ i < t[k].i2 =>
                    p[i].fn = own[k] /\ InPiece(p[i], t[k].of, 3)
              /\ \/ Defines(p, t, k, own[k])
                 \/ \A j \in 1..l : j > k => t[j].kind # "fun"
            BY <1>0, <1>1, <3>1 DEF Looped
        <3>3. Defines(p, t, k, own[k])
            BY <1>b, <1>1, <1>2, <3>1, <3>2
        <3>4. Defines(q, u, k, owm[k])
            <4>1. PICK i \in 1..Len(p) : /\ i >= t[k].i2 /\ p[i].fn = own[k] /\ p[i].op = "Function"
                                         /\ InPiece(p[i], t[k].of, 2)
                BY <3>3 DEF Defines
            <4>2. i \in 1..Len(q) /\ q[i] = p[i]
                BY <1>5, <1>12, <4>1
            <4>. QED  BY <3>1, <4>1, <4>2 DEF Defines
        <3>. QED  BY <1>5, <1>12, <1>13, <3>1, <3>2, <3>4
    <2>. QED  BY <1>3, <2>1 DEF Looped
<1>35. Named(q, Front(ss), u, sd, owm)
    <2>1. \A s \in 1..(N - 1) : Distinct(Front(ss)[s])
        BY <1>0, <1>1, <1>9 DEF Named
    <2>2. ASSUME NEW k \in 1..(l - 1), NEW i \in 1..Len(p), q[i].fn = owm[k], q[i].name # NoName
          PROVE  \/ q[i].op \in Symbolic
                 \/ /\ q[i].op = "StoreLocal" /\ q[i].name \in ToSet(Front(ss)[sd[k]])
                    /\ q[i].c = IndexIn(Front(ss)[sd[k]], q[i].name)
        <3>0. k \in 1..l /\ sd[k] = sc[k] /\ owm[k] = own[k] /\ own[k] < own[l] /\ sc[k] < N
            BY <1>4, <1>7, <1>11
        <3>1. sc[k] \in 1..N /\ own[k] \in Int /\ own[l] \in Int
            BY <1>2, <1>6, <3>0
        <3>2. sc[k] \in 1..(N - 1)
            BY <1>5, <3>0, <3>1
        <3>3. Front(ss)[sd[k]] = ss[sc[k]]
            <4>1. \A s \in 1..(N - 1) : Front(ss)[s] = ss[s]
                BY <1>9
            <4>. QED  BY <3>0, <3>2, <4>1
        <3>4. p[i].fn = own[k] /\ p[i].name = q[i].name
            BY <1>12, <2>2, <3>0
        <3>5. i \notin ours
            <4>0. /\ p \in Seq(Instr) /\ t \in Seq(Open) /\ rs \in Seq(CodeRange)
                  /\ Built(p, t, st, sh, ss, rs, sc, own, h)
                  /\ t[Len(t)].kind = "fun" /\ n = Len(p) + 1
                BY <1>b DEF Inside
            <4>1. i \in ours => p[i].fn >= own[l]
                BY <1>c, <1>1, <4>0, OursCover
            <4>. QED  BY <3>0, <3>1, <3>4, <4>1
        <3>6. q[i] = p[i]
            BY <1>d, <3>5 DEF Settles
        <3>7. \/ p[i].op \in Symbolic
              \/ /\ p[i].op = "StoreLocal" /\ p[i].name \in ToSet(ss[sc[k]])
                 /\ p[i].c = IndexIn(ss[sc[k]], p[i].name)
            BY <1>0, <1>1, <2>2, <3>0, <3>4 DEF Named
        <3>. QED  BY <3>3, <3>6, <3>7
    <2>. QED  BY <1>3, <1>5, <1>9, <2>1, <2>2 DEF Named
<1>36. \A k \in 2..(l - 1) : u[k].kind = "fun" => u[k].name # NoName
    <2>1. \A k \in 2..(l - 1) : k \in 2..l /\ k \in 1..(l - 1)
        BY <1>2
    <2>. QED  BY <1>0, <1>1, <1>3, <2>1
<1>37. Built(q, u, su, si, Front(ss), rt, sd, owm, g)
    BY <1>3, <1>9, <1>15, <1>16, <1>17, <1>19, <1>32, <1>33, <1>34, <1>35, <1>36 DEF Built
<1>38. Standing(q, u, su, si, Front(ss), rt)
    BY <1>17, <1>30, <1>37 DEF Standing
<1>. QED  BY <1>1, <1>38

-----------------------------------------------------------------------------
(* A function is begun: OP_FUNCTION in the enclosing one, and a new scope.    *)
Making(p, q, t, fn, c) ==
    /\ q \in Seq(Instr) /\ Len(q) = Len(p) + 1 /\ \A i \in 1..Len(p) : q[i] = p[i]
    /\ q[Len(p) + 1].op = "Function" /\ q[Len(p) + 1].c = c
    /\ q[Len(p) + 1].name = NoName /\ q[Len(p) + 1].fn = fn
    /\ q[Len(p) + 1].path = PathOf(t)

LEMMA MovedMade ==
    ASSUME NEW p \in Seq(Instr), NEW q, NEW t, NEW fn, NEW c, Making(p, q, t, fn, c), NEW f
    PROVE  Moved(p, f) => Moved(q, f)
<1>1. \A i \in 1..Len(p) : i \in 1..Len(q) /\ q[i] = p[i]
    BY InstrIs DEF Making
<1>. QED  BY <1>1 DEF Moved

LEMMA ResolutionMade ==
    ASSUME NEW p \in Seq(Instr), NEW q, NEW t, NEW fn, NEW c, Making(p, q, t, fn, c),
           NEW sh \in Seq(Shape), NEW e \in Shape, e.offset = 0, NEW gs,
           Resolution(p, sh, gs), Symbols(p)
    PROVE  Resolution(q, Append(sh, e), gs) /\ Symbols(q)
<1>1. PICK si, S : si = Append(sh, e) /\ S = Len(sh)
    OBVIOUS
<1>2. S \in Nat /\ Len(si) = S + 1 /\ \A k \in 1..(S + 1) : si[k] = IF k = S + 1 THEN e ELSE sh[k]
    BY <1>1, AppendIs, LenProperties
<1>3. Len(p) \in Nat /\ \A i \in 1..Len(q) : i \in 1..Len(p) \/ i = Len(p) + 1
    BY InstrIs DEF Making
<1>4. ASSUME NEW f \in 1..Len(si), si[f].offset > 0, ~Moved(q, f),
             NEW i \in 1..Len(q), q[i].fn = f, q[i].name # NoName
      PROVE  Settled(q[i], si[f].names, gs)
    <2>1. f # S + 1
        BY <1>2, <1>4
    <2>2. f \in 1..S /\ si[f] = sh[f]
        BY <1>2, <2>1
    <2>3. i \in 1..Len(p)
        BY <1>3, <1>4 DEF Making
    <2>4. q[i] = p[i]
        BY <2>3 DEF Making
    <2>5. ~Moved(p, f)
        BY <1>4, MovedMade
    <2>. QED  BY <1>1, <1>4, <2>2, <2>3, <2>4, <2>5 DEF Resolution
<1>5. \A i \in 1..Len(q) : q[i].op \in Symbolic => q[i].name # NoName
    <2>1. "Function" \notin Symbolic
        BY DEF Symbolic
    <2>. QED  BY <1>3, <2>1 DEF Making, Symbols
<1>. QED  BY <1>1, <1>4, <1>5 DEF Resolution, Symbols

(* What a function has noted when it begins, and what it does to the stacks.  *)
Entering(p, ss, rs, e, x, params, rt) ==
    /\ e \in Open /\ e.kind = "fun" /\ e.begin = Len(p) + 1 /\ e.jump = NoPos
    /\ e.name # NoName /\ x \in Shape /\ x.offset = 0
    /\ params \in Seq(Ident) /\ Distinct(params)
    /\ rt = Finished(rs, Len(p) + 2)
              \o <<[scope |-> Len(ss) + 1, begin |-> Len(p) + 2, end |-> NoPos]>>
Piled(st, su) ==
    su \in [Which -> Seq(Place)] /\ \A w \in Which : su[w] = Append(st[w], NoPos)

LEMMA BuiltEntered ==
    ASSUME NEW p, NEW t, NEW st, NEW sh, NEW ss, NEW rs, NEW sc, NEW own, NEW h,
           Inside(p, t, st, sh, ss, rs, sc, own, h),
           NEW q, Making(p, q, t, own[Len(t)], Len(sh) + 1), NEW e, NEW x, NEW params, NEW rt,
           Entering(p, ss, rs, e, x, params, rt), NEW su, Piled(st, su)
    PROVE  Standing(q, Append(t, e), su, Append(sh, x), Append(ss, params), rt)
<1>a. /\ p \in Seq(Instr) /\ t \in Seq(Open) /\ sh \in Seq(Shape)
      /\ ss \in Seq(Seq(Ident)) /\ rs \in Seq(CodeRange)
      /\ e \in Open /\ x \in Shape /\ params \in Seq(Ident)
    BY DEF Inside, Entering
<1>b. Distinct(params) /\ x.offset = 0
    BY DEF Entering
<1>c. e.kind = "fun" /\ e.begin = Len(p) + 1 /\ e.jump = NoPos /\ e.name # NoName
    BY DEF Entering
<1>d. rt = Finished(rs, Len(p) + 2)
              \o <<[scope |-> Len(ss) + 1, begin |-> Len(p) + 2, end |-> NoPos]>>
    BY DEF Entering
<1>e. \A w \in Which : st[w] \in Seq(Place) /\ su[w] = Append(st[w], NoPos)
    BY DEF Inside, Piled
<1>0. /\ Scoped(t, Len(ss), Len(sh), sc, own) /\ Placed(p, t)
      /\ \A w \in Which : Stacked(p, t, w, st[w], h[w])
      /\ Owned(p, t, sh, own) /\ Ranged(p, rs, t, Len(ss), sc)
      /\ Covering(p, rs, t, sc, own) /\ Looped(p, rs, t, sc, own)
      /\ Named(p, ss, t, sc, own)
      /\ \A k \in 2..Len(t) : t[k].kind = "fun" => t[k].name # NoName
    BY DEF Inside, Built
<1>1. PICK n, u, N, S, L : /\ n = Len(t) /\ u = Append(t, e) /\ N = Len(ss) /\ S = Len(sh)
                           /\ L = Len(p)
    OBVIOUS
<1>2. n \in Nat /\ N \in Nat /\ S \in Nat /\ L \in Nat /\ n \in 1..n
      /\ Len(q) = L + 1 /\ q \in Seq(Instr)
    <2>1. n \in Nat /\ N \in Nat /\ S \in Nat /\ L \in Nat /\ n > 0
        BY <1>a, <1>0, <1>1, OpenIs, InstrIs, LenProperties DEF Scoped
    <2>. QED  BY <1>1, <2>1 DEF Making
<1>2a. n \in Nat /\ N \in Nat /\ S \in Nat /\ L \in Nat
    BY <1>2
<1>3. Len(u) = n + 1 /\ u \in Seq(Open)
      /\ \A k \in 1..(n + 1) : u[k] = IF k = n + 1 THEN e ELSE t[k]
    BY <1>a, <1>1, AppendIs
<1>4. \A k \in 1..(n + 1) : k \in 1..n \/ k = n + 1
    BY <1>2
<1>5. u[n + 1] = e /\ \A k \in 1..n : u[k] = t[k]
    BY <1>2, <1>3
<1>6. PICK si, sr : si = Append(sh, x) /\ sr = Append(ss, params)
    OBVIOUS
<1>7. /\ Len(si) = S + 1 /\ si[S + 1] = x /\ \A k \in 1..S : si[k] = sh[k]
      /\ Len(sr) = N + 1 /\ sr[N + 1] = params /\ \A k \in 1..N : sr[k] = ss[k]
    <2>1. Len(si) = S + 1 /\ \A k \in 1..(S + 1) : si[k] = IF k = S + 1 THEN x ELSE sh[k]
        BY <1>a, <1>1, <1>6, AppendIs
    <2>2. Len(sr) = N + 1 /\ \A k \in 1..(N + 1) : sr[k] = IF k = N + 1 THEN params ELSE ss[k]
        <3>1. /\ Len(Append(ss, params)) = Len(ss) + 1
              /\ \A k \in 1..(Len(ss) + 1) :
                    Append(ss, params)[k] = IF k = Len(ss) + 1 THEN params ELSE ss[k]
            BY <1>a, AppendIs
        <3>. QED  BY <1>1, <1>6, <3>1
    <2>3. /\ S + 1 \in 1..(S + 1) /\ \A k \in 1..S : k \in 1..(S + 1) /\ k # S + 1
          /\ N + 1 \in 1..(N + 1) /\ \A k \in 1..N : k \in 1..(N + 1) /\ k # N + 1
        BY <1>2
    <2>. QED  BY <2>1, <2>2, <2>3
<1>8. PICK sd, owm, g :
        /\ sd = [k \in 1..(n + 1) |-> IF k = n + 1 THEN N + 1 ELSE sc[k]]
        /\ owm = [k \in 1..(n + 1) |-> IF k = n + 1 THEN S + 1 ELSE own[k]]
        /\ g = [w \in Which |-> Raised(t, e, w, st[w], h[w])]
    OBVIOUS
<1>9. /\ sd[n + 1] = N + 1 /\ owm[n + 1] = S + 1
      /\ \A k \in 1..n : sd[k] = sc[k] /\ owm[k] = own[k]
    BY <1>2, <1>8
<1>10. /\ \A k \in 1..n : /\ sc[k] \in 1..N /\ own[k] \in 1..S /\ own[k] <= own[n]
                          /\ own[k] = own[n] => sc[k] = N
       /\ own[n] \in 1..S /\ sc[n] = N /\ N > 0
    <2>1. n \in 1..n /\ Scoped(t, N, S, sc, own)
        BY <1>0, <1>1, <1>2
    <2>. QED  BY <1>a, <1>1, <1>2, <2>1, LastEntry
<1>11. \A i \in 1..(L + 1) : i \in 1..L \/ i = L + 1
    BY <1>2
<1>12. /\ \A i \in 1..L : q[i] = p[i] /\ i \in 1..Len(q)
       /\ q[L + 1].op = "Function" /\ q[L + 1].c = S + 1 /\ q[L + 1].name = NoName
       /\ q[L + 1].fn = own[n] /\ q[L + 1].path = PathOf(t) /\ L + 1 \in 1..Len(q)
    BY <1>1, <1>2 DEF Making
<1>13. \A i \in Jumps(p) : i \in Jumps(q)
    BY <1>1, <1>12 DEF Jumps
<1>14. Scoped(u, N + 1, S + 1, sd, owm)
    <2>1. sd \in [1..(n + 1) -> 1..(N + 1)] /\ owm \in [1..(n + 1) -> 1..(S + 1)]
        <3>1. \A k \in 1..(n + 1) : /\ (IF k = n + 1 THEN N + 1 ELSE sc[k]) \in 1..(N + 1)
                                    /\ (IF k = n + 1 THEN S + 1 ELSE own[k]) \in 1..(S + 1)
            <4>. TAKE k \in 1..(n + 1)
            <4>1. CASE k = n + 1
                BY <1>2a, <4>1
            <4>2. CASE k \in 1..n
                <5>1. sc[k] \in 1..N /\ own[k] \in 1..S /\ k # n + 1
                    BY <1>2a, <1>10, <4>2
                <5>. QED  BY <1>2a, <5>1
            <4>. QED  BY <1>4, <4>1, <4>2
        <3>. QED  BY <1>8, <3>1
    <2>2. u[1].kind = "fun" /\ sd[1] = 1 /\ sd[n + 1] = N + 1
        <3>1. 1 \in 1..n
            BY <1>2
        <3>. QED  BY <1>0, <1>5, <1>9, <3>1 DEF Scoped
    <2>3. ASSUME NEW k \in 2..(n + 1), u[k].kind = "fun"
          PROVE  sd[k] = sd[k - 1] + 1
        <3>1. CASE k = n + 1
            <4>1. k - 1 = n
                BY <1>2, <3>1
            <4>. QED  BY <1>2, <1>9, <1>10, <3>1, <4>1
        <3>2. CASE k # n + 1
            <4>1. k \in 2..n /\ k \in 1..n /\ k - 1 \in 1..n
                BY <1>2, <3>2
            <4>. QED  BY <1>0, <1>1, <1>5, <1>9, <2>3, <4>1 DEF Scoped
        <3>. QED  BY <3>1, <3>2
    <2>4. ASSUME NEW k \in 1..(n + 1), NEW l \in 1..(n + 1), k < l
          PROVE  IF \E j \in (k + 1)..l : u[j].kind = "fun"
                 THEN sd[k] < sd[l] /\ owm[k] < owm[l]
                 ELSE sd[k] = sd[l] /\ owm[k] = owm[l]
        <3>0. k \in 1..n
            BY <1>2a, <2>4
        <3>1. CASE l \in 1..n
            <4>1. \A j \in (k + 1)..l : j \in 1..n
                BY <1>2, <3>0, <3>1
            <4>2. (\E j \in (k + 1)..l : u[j].kind = "fun")
                     <=> (\E j \in (k + 1)..l : t[j].kind = "fun")
                BY <1>5, <4>1
            <4>3. IF \E j \in (k + 1)..l : t[j].kind = "fun"
                  THEN sc[k] < sc[l] /\ own[k] < own[l]
                  ELSE sc[k] = sc[l] /\ own[k] = own[l]
                BY <1>0, <1>1, <2>4, <3>0, <3>1 DEF Scoped
            <4>. QED  BY <1>9, <3>0, <3>1, <4>2, <4>3
        <3>2. CASE l = n + 1
            <4>1. l \in (k + 1)..l /\ u[l].kind = "fun"
                <5>1. l \in (k + 1)..l
                    BY <1>2a, <3>0, <3>2
                <5>2. u[l].kind = "fun"
                    BY <1>c, <1>5, <3>2
                <5>. QED  BY <5>1, <5>2
            <4>2. sc[k] \in 1..N /\ own[k] \in 1..S
                BY <1>10, <3>0
            <4>3. sc[k] < N + 1 /\ own[k] < S + 1
                BY <1>2a, <4>2
            <4>. QED  BY <1>9, <3>0, <3>2, <4>1, <4>3
        <3>. QED  BY <1>4, <3>1, <3>2
    <2>5. PICK v, M, R : v = n + 1 /\ M = N + 1 /\ R = S + 1
        OBVIOUS
    <2>6. v > 0 /\ Len(u) = v
        BY <1>2a, <1>3, <2>5
    <2>7. sd \in [1..v -> 1..M] /\ owm \in [1..v -> 1..R]
        BY <2>1, <2>5
    <2>8. u[1].kind = "fun" /\ sd[1] = 1 /\ sd[v] = M
        BY <2>2, <2>5
    <2>9. \A k \in 2..v : u[k].kind = "fun" => sd[k] = sd[k - 1] + 1
        BY <2>3, <2>5
    <2>10. \A k, l \in 1..v : k < l =>
              IF \E j \in (k + 1)..l : u[j].kind = "fun"
              THEN sd[k] < sd[l] /\ owm[k] < owm[l]
              ELSE sd[k] = sd[l] /\ owm[k] = owm[l]
        BY <2>4, <2>5
    <2>11. Scoped(u, M, R, sd, owm)
        BY <2>6, <2>7, <2>8, <2>9, <2>10 DEF Scoped
    <2>. QED  BY <2>5, <2>11
<1>15. e.begin = L + 1 /\ e.begin \in 1..(Len(q) + 1)
    BY <1>c, <1>1, <1>2
<1>16. Placed(q, u)
    <2>1. Placed(q, t)
        <3>1. ASSUME NEW k \in 1..Len(t)
              PROVE  /\ t[k].begin \in 1..(Len(q) + 1)
                     /\ t[k].jump # NoPos => t[k].jump \in Jumps(q)
                     /\ t[k].kind = "for" => /\ t[k].piece = 2 /\ t[k].begin <= t[k].i1
                                             /\ t[k].i1 <= t[k].i2 /\ t[k].i2 <= Len(q) + 1
            <4>1. /\ t[k].begin \in 1..(L + 1)
                  /\ t[k].jump # NoPos => t[k].jump \in Jumps(p)
                  /\ t[k].kind = "for" => /\ t[k].piece = 2 /\ t[k].begin <= t[k].i1
                                          /\ t[k].i1 <= t[k].i2 /\ t[k].i2 <= L + 1
                BY <1>0, <1>1 DEF Placed
            <4>2. t[k].i2 \in Nat
                BY <1>a, OpenIs
            <4>3. t[k].begin \in 1..((L + 1) + 1)
                BY <1>2a, <4>1
            <4>4. t[k].i2 <= L + 1 => t[k].i2 <= (L + 1) + 1
                BY <1>2a, <4>2
            <4>5. Len(q) = L + 1
                BY <1>2
            <4>. QED  BY <1>13, <4>1, <4>3, <4>4, <4>5
        <3>2. \A k, l \in 1..Len(t) : k < l =>
                 /\ t[k].begin <= t[l].begin /\ t[k].jump < t[l].begin
                 /\ t[k].kind = "fun" => t[k].begin < t[l].begin
                 /\ t[k].kind = "for" => t[k].i2 <= t[l].begin
            BY <1>0 DEF Placed
        <3>. QED  BY <3>1, <3>2 DEF Placed
    <2>2. Ahead(t, e.begin)
        BY <1>a, <1>c, <1>0, AheadOfHere
    <2>. QED  BY <1>a, <1>c, <1>1, <1>2, <1>15, <2>1, <2>2, PlacedPushed
<1>17. ASSUME NEW w \in Which
       PROVE  su[w] \in Seq(Place) /\ Stacked(q, u, w, su[w], g[w])
    <2>1. Stacked(p, t, w, st[w], h[w]) /\ st[w] \in Seq(Place)
        BY <1>e, <1>0
    <2>2. Stacked(q, t, w, st[w], h[w])
        BY <1>13, <2>1 DEF Stacked
    <2>3. Under(st[w], e.begin)
        BY <1>a, <1>c, <2>1, UnderHere
    <2>4. Marked(w, st[w], e) = Append(st[w], NoPos)
        BY <1>c DEF Marked, MarkedBy
    <2>5. /\ Marked(w, st[w], e) \in Seq(Place)
          /\ Stacked(q, Append(t, e), w, Marked(w, st[w], e), Raised(t, e, w, st[w], h[w]))
        BY <1>a, <1>c, <1>1, <1>2, <2>1, <2>2, <2>3, StackedPushed
    <2>6. g[w] = Raised(t, e, w, st[w], h[w])
        BY <1>8
    <2>7. su[w] = Marked(w, st[w], e)
        BY <1>e, <2>4
    <2>. QED  BY <1>1, <2>5, <2>6, <2>7
<1>18. Owned(q, u, si, owm)
    <2>1. \A i \in 1..Len(q) : q[i].fn <= S
        <3>1. \A i \in 1..L : p[i].fn <= S
            BY <1>0, <1>1 DEF Owned
        <3>2. own[n] <= S
            BY <1>2, <1>10
        <3>. QED  BY <1>2, <1>11, <1>12, <3>1, <3>2
    <2>2. \A i \in 1..Len(q) : q[i].fn \in Nat
        BY <1>2, InstrIs
    <2>3. \A i \in 1..Len(q) : q[i].fn <= Len(si) /\ q[i].fn < S + 1
        BY <1>2, <1>7, <2>1, <2>2
    <2>4. ASSUME NEW k \in 1..(n + 1), u[k].kind = "fun"
          PROVE  /\ u[k].begin <= Len(q) /\ q[u[k].begin].op = "Function"
                 /\ q[u[k].begin].c = owm[k] /\ si[owm[k]].offset = 0
                 /\ \A i \in 1..Len(q) :
                       IF i > u[k].begin THEN q[i].fn >= owm[k] ELSE q[i].fn < owm[k]
        <3>1. CASE k = n + 1
            <4>1. u[k].begin = L + 1 /\ owm[k] = S + 1
                BY <1>5, <1>9, <1>15, <3>1
            <4>2. \A i \in 1..Len(q) : ~(i > L + 1)
                BY <1>2
            <4>3. L + 1 <= Len(q)
                BY <1>2
            <4>. QED  BY <1>b, <1>7, <1>12, <2>3, <4>1, <4>2, <4>3
        <3>2. CASE k \in 1..n
            <4>1. u[k] = t[k] /\ owm[k] = own[k] /\ t[k].kind = "fun"
                BY <1>5, <1>9, <2>4, <3>2
            <4>2. /\ t[k].begin <= L /\ p[t[k].begin].op = "Function"
                  /\ p[t[k].begin].c = own[k] /\ sh[own[k]].offset = 0
                  /\ \A i \in 1..L :
                        IF i > t[k].begin THEN p[i].fn >= own[k] ELSE p[i].fn < own[k]
                BY <1>0, <1>1, <3>2, <4>1 DEF Owned
            <4>3. t[k].begin \in 1..L
                <5>1. t[k].begin \in 1..(L + 1)
                    BY <1>0, <1>1, <3>2 DEF Placed
                <5>2. t[k].begin <= L
                    BY <4>2
                <5>. QED  BY <1>2a, <5>1, <5>2
            <4>4. si[own[k]] = sh[own[k]]
                BY <1>7, <1>10, <3>2
            <4>5. own[n] >= own[k] /\ L + 1 > t[k].begin /\ t[k].begin <= L + 1
                <5>1. own[k] \in 1..S /\ own[n] \in 1..S /\ own[k] <= own[n]
                    BY <1>10, <3>2
                <5>2. own[n] >= own[k]
                    BY <1>2a, <5>1
                <5>3. PICK b : b = t[k].begin
                    OBVIOUS
                <5>4. b \in 1..L
                    BY <4>3, <5>3
                <5>5. L + 1 > b /\ b <= L + 1
                    BY <1>2a, <5>4
                <5>. QED  BY <5>2, <5>3, <5>5
            <4>6. \A i \in 1..(L + 1) :
                       IF i > t[k].begin THEN q[i].fn >= own[k] ELSE q[i].fn < own[k]
                BY <1>11, <1>12, <4>2, <4>5
            <4>. QED  BY <1>2, <1>12, <4>1, <4>2, <4>3, <4>4, <4>5, <4>6
        <3>. QED  BY <1>4, <3>1, <3>2
    <2>. QED  BY <1>3, <2>3, <2>4 DEF Owned
<1>19. PICK d, y, K : /\ d = Finished(rs, L + 2) /\ K = Len(rs)
                      /\ y = [scope |-> N + 1, begin |-> L + 2, end |-> NoPos]
    OBVIOUS
<1>20. K \in Nat /\ K > 0 /\ K \in 1..K
    <2>1. K \in Nat /\ K > 0
        BY <1>a, <1>0, <1>19, RangesAre DEF Ranged
    <2>. QED  BY <2>1
<1>21. /\ d \in Seq(CodeRange) /\ Len(d) = K
       /\ \A m \in 1..K : /\ d[m].scope = rs[m].scope /\ d[m].begin = rs[m].begin
                          /\ m # K => d[m] = rs[m]
                          /\ m = K => d[m].end = L + 2
    <2>1. L + 2 \in Nat /\ Len(rs) > 0
        BY <1>2, <1>19, <1>20
    <2>. QED  BY <1>a, <1>19, <2>1, FinishedIs
<1>22. y \in CodeRange /\ y.scope = N + 1 /\ y.begin = L + 2 /\ y.end = NoPos
    BY <1>2, <1>19 DEF CodeRange, Pos
<1>23. /\ rt \in Seq(CodeRange) /\ Len(rt) = K + 1
       /\ rt[K + 1] = y /\ \A m \in 1..K : rt[m] = d[m] /\ m \in 1..(K + 1)
    <2>1. rt = d \o <<y>>
        BY <1>d, <1>1, <1>19
    <2>2. /\ d \o <<y>> \in Seq(CodeRange) /\ Len(d \o <<y>>) = Len(d) + Len(<<y>>)
          /\ \A i \in 1..(Len(d) + Len(<<y>>)) :
                (d \o <<y>>)[i] = IF i <= Len(d) THEN d[i] ELSE <<y>>[i - Len(d)]
        <3>1. <<y>> \in Seq(CodeRange)
            BY <1>22
        <3>. QED  BY <1>21, <3>1, ConcatProperties
    <2>3. /\ Len(<<y>>) = 1 /\ <<y>>[1] = y
          /\ K + 1 \in 1..(K + 1) /\ ~(K + 1 <= K) /\ (K + 1) - K = 1
          /\ \A m \in 1..K : m \in 1..(K + 1) /\ m <= K
        BY <1>20
    <2>4. PICK r : r = d \o <<y>>
        OBVIOUS
    <2>5. Len(d) = K /\ rt = r
        BY <1>21, <2>1, <2>4
    <2>6. /\ r \in Seq(CodeRange) /\ Len(r) = K + 1
          /\ \A i \in 1..(K + 1) : r[i] = IF i <= K THEN d[i] ELSE <<y>>[i - K]
        BY <2>2, <2>3, <2>4, <2>5
    <2>7. r[K + 1] = y /\ \A m \in 1..K : r[m] = d[m]
        BY <2>3, <2>6
    <2>. QED  BY <2>3, <2>5, <2>6, <2>7
<1>24. \A m \in 1..(K + 1) : m \in 1..K \/ m = K + 1
    BY <1>20
<1>25. \A m \in 1..K : /\ rs[m].scope \in Nat /\ rs[m].begin \in Nat /\ rs[m].end \in Int
                       /\ rs[m].scope <= N /\ rs[m].begin <= L + 1
    <2>. TAKE m \in 1..K
    <2>1. rs[m].scope \in Nat /\ rs[m].begin \in Nat /\ rs[m].end \in Int /\ rs[K].scope = N
        BY <1>a, <1>0, <1>1, <1>19, RangesAre DEF Ranged
    <2>2. rs[m].begin <= L + 1
        BY <1>0, <1>1, <1>19 DEF Ranged
    <2>3. CASE m = K
        BY <1>2, <2>1, <2>2, <2>3
    <2>4. CASE m # K
        <3>1. m < K
            BY <1>20, <2>4
        <3>. QED  BY <1>0, <1>19, <1>20, <2>1, <2>2, <3>1 DEF Ranged
    <2>. QED  BY <2>3, <2>4
<1>26. Ranged(q, rt, u, N + 1, sd)
    <2>1. Len(rt) > 0 /\ rt[Len(rt)].scope = N + 1
        BY <1>20, <1>22, <1>23
    <2>2. \A m \in 1..Len(rt) : (rt[m].end = NoPos) <=> (m = Len(rt))
        <3>1. \A m \in 1..K : m # K + 1
            BY <1>20
        <3>2. \A m \in 1..K : m # K => rs[m].end # NoPos
            BY <1>0, <1>19 DEF Ranged
        <3>3. L + 2 # NoPos
            BY <1>2 DEF NoPos
        <3>4. \A m \in 1..K : d[m].end # NoPos
            BY <1>21, <3>2, <3>3
        <3>. QED  BY <1>22, <1>23, <1>24, <3>1, <3>4
    <2>3. ASSUME NEW m \in 1..(K + 1), NEW k \in 1..(K + 1), m < k
          PROVE  rt[m].scope <= rt[k].scope
        <3>1. m \in 1..K
            BY <1>20, <2>3
        <3>2. CASE k \in 1..K
            BY <1>0, <1>19, <1>21, <1>23, <2>3, <3>1, <3>2 DEF Ranged
        <3>3. CASE k = K + 1
            <4>1. rs[m].scope \in Nat /\ rs[m].scope <= N
                BY <1>25, <3>1
            <4>2. rs[m].scope <= N + 1
                BY <1>2, <4>1
            <4>. QED  BY <1>21, <1>22, <1>23, <3>1, <3>3, <4>2
        <3>. QED  BY <1>24, <3>2, <3>3
    <2>4. \A m \in 1..(K + 1) : rt[m].begin <= Len(q) + 1
        <3>1. \A m \in 1..K : rs[m].begin <= (L + 1) + 1
            <4>. TAKE m \in 1..K
            <4>1. rs[m].begin \in Nat /\ rs[m].begin <= L + 1
                BY <1>25
            <4>. QED  BY <1>2a, <4>1
        <3>2. L + 2 <= (L + 1) + 1
            BY <1>2a
        <3>3. \A m \in 1..(K + 1) : rt[m].begin <= (L + 1) + 1
            <4>1. \A m \in 1..K : rt[m].begin = rs[m].begin
                BY <1>21, <1>23
            <4>2. rt[K + 1].begin = L + 2
                BY <1>22, <1>23
            <4>. QED  BY <1>24, <3>1, <3>2, <4>1, <4>2
        <3>4. Len(q) = L + 1
            BY <1>2
        <3>. QED  BY <3>3, <3>4
    <2>5. ASSUME NEW m \in 1..(K + 1), NEW k \in 1..(n + 1), u[k].kind = "fun", rt[m].scope = sd[k]
          PROVE  rt[m].begin > u[k].begin
        <3>1. CASE k = n + 1
            <4>1. m = K + 1
                <5>1. \A j \in 1..K : rt[j].scope # N + 1
                    <6>. TAKE j \in 1..K
                    <6>1. rt[j].scope = rs[j].scope
                        BY <1>21, <1>23
                    <6>2. rs[j].scope \in Nat /\ rs[j].scope <= N
                        BY <1>25
                    <6>3. PICK z : z = rs[j].scope
                        OBVIOUS
                    <6>4. z \in Nat /\ z <= N
                        BY <6>2, <6>3
                    <6>5. z # N + 1
                        BY <1>2a, <6>4
                    <6>. QED  BY <6>1, <6>3, <6>5
                <5>. QED  BY <1>9, <1>24, <2>5, <3>1, <5>1
            <4>2. L + 2 > L + 1
                BY <1>2
            <4>. QED  BY <1>5, <1>15, <1>22, <1>23, <3>1, <4>1, <4>2
        <3>2. CASE k \in 1..n
            <4>1. m \in 1..K
                <5>1. sc[k] \in 1..N
                    BY <1>10, <3>2
                <5>2. sc[k] # N + 1
                    BY <1>2, <5>1
                <5>. QED  BY <1>9, <1>22, <1>23, <1>24, <2>5, <3>2, <5>2
            <4>2. rs[m].scope = sc[k] /\ t[k].kind = "fun"
                BY <1>5, <1>9, <1>21, <1>23, <2>5, <3>2, <4>1
            <4>3. rs[m].begin > t[k].begin
                BY <1>0, <1>1, <1>19, <3>2, <4>1, <4>2 DEF Ranged
            <4>. QED  BY <1>5, <1>21, <1>23, <3>2, <4>1, <4>3
        <3>. QED  BY <1>4, <3>1, <3>2
    <2>6. Len(rt) = K + 1 /\ Len(u) = n + 1
        BY <1>3, <1>23
    <2>7. \A m, k \in 1..Len(rt) : m < k => rt[m].scope <= rt[k].scope
        <3>1. \A m, k \in 1..(K + 1) : m < k => rt[m].scope <= rt[k].scope
            BY <2>3
        <3>. QED  BY <2>6, <3>1
    <2>8. \A m \in 1..Len(rt) : rt[m].begin <= Len(q) + 1
        BY <2>4, <2>6
    <2>9. \A m \in 1..Len(rt), k \in 1..Len(u) :
             u[k].kind = "fun" /\ rt[m].scope = sd[k] => rt[m].begin > u[k].begin
        BY <2>5, <2>6
    <2>. QED  BY <2>1, <2>2, <2>7, <2>8, <2>9 DEF Ranged
<1>27. Covering(q, rt, u, sd, owm)
    <2>1. ASSUME NEW k \in 1..(n + 1), ~Moved(q, owm[k]), NEW i \in 1..(L + 1), q[i].fn = owm[k]
          PROVE  \E m \in 1..(K + 1) : /\ rt[m].scope = sd[k] /\ rt[m].begin <= i
                                       /\ i < rt[m].end \/ rt[m].end = NoPos
        <3>1. k \in 1..n
            <4>1. q[i].fn < S + 1
                <5>1. CASE i \in 1..L
                    <6>1. p[i].fn <= S /\ p[i].fn \in Nat
                        BY <1>a, <1>0, <1>1, <5>1, InstrIs DEF Owned
                    <6>. QED  BY <1>2, <1>12, <5>1, <6>1
                <5>2. CASE i = L + 1
                    BY <1>2, <1>10, <1>12, <5>2
                <5>. QED  BY <1>11, <5>1, <5>2
            <4>2. owm[k] # S + 1
                BY <1>2, <2>1, <4>1
            <4>. QED  BY <1>4, <1>9, <4>2
        <3>2. owm[k] = own[k] /\ sd[k] = sc[k]
            BY <1>9, <3>1
        <3>3. CASE i \in 1..L
            <4>1. ~Moved(p, own[k])
                BY <1>a, <2>1, <3>2, MovedMade
            <4>2. CoveredBy(p, rs, own[k], sc[k]) /\ p[i].fn = own[k]
                BY <1>0, <1>1, <1>12, <2>1, <3>1, <3>2, <3>3, <4>1 DEF Covering
            <4>3. PICK m \in 1..K : /\ rs[m].scope = sc[k] /\ rs[m].begin <= i
                                    /\ i < rs[m].end \/ rs[m].end = NoPos
                <5>1. i \in 1..Len(p) /\ p[i].fn = own[k] /\ K = Len(rs)
                    BY <1>1, <1>19, <3>3, <4>2
                <5>2. CoveredBy(p, rs, own[k], sc[k])
                    BY <4>2
                <5>3. \E m \in 1..Len(rs) : /\ rs[m].scope = sc[k] /\ rs[m].begin <= i
                                            /\ i < rs[m].end \/ rs[m].end = NoPos
                    BY <5>1, <5>2 DEF CoveredBy
                <5>. QED  BY <5>1, <5>3
            <4>4. i < d[m].end \/ d[m].end = NoPos
                <5>1. CASE m = K
                    BY <1>2, <1>21, <3>3, <5>1
                <5>2. CASE m # K
                    BY <1>21, <4>3, <5>2
                <5>. QED  BY <5>1, <5>2
            <4>5. d[m].scope = rs[m].scope /\ d[m].begin = rs[m].begin
                BY <1>21, <4>3
            <4>6. rt[m] = d[m] /\ m \in 1..(K + 1)
                BY <1>23, <4>3
            <4>7. rt[m].scope = sd[k] /\ rt[m].begin <= i
                BY <3>2, <4>3, <4>5, <4>6
            <4>8. i < rt[m].end \/ rt[m].end = NoPos
                BY <4>4, <4>6
            <4>. QED  BY <4>6, <4>7, <4>8
        <3>4. CASE i = L + 1
            <4>1. sc[k] = N
                BY <1>10, <1>12, <2>1, <3>1, <3>2, <3>4
            <4>2. rs[K].scope = N /\ rs[K].begin <= L + 1
                BY <1>0, <1>1, <1>19, <1>20, <1>25 DEF Ranged
            <4>3. rt[K].scope = N /\ rt[K].begin <= L + 1 /\ rt[K].end = L + 2 /\ K \in 1..(K + 1)
                BY <1>20, <1>21, <1>23, <4>2
            <4>4. L + 1 < L + 2
                BY <1>2
            <4>. QED  BY <3>2, <3>4, <4>1, <4>3, <4>4
        <3>. QED  BY <1>11, <3>3, <3>4
    <2>2. Len(q) = L + 1 /\ Len(u) = n + 1 /\ Len(rt) = K + 1
        BY <1>2, <1>3, <1>23
    <2>3. ASSUME NEW k \in 1..(n + 1), ~Moved(q, owm[k])
          PROVE  CoveredBy(q, rt, owm[k], sd[k])
        <3>1. \A i \in 1..(L + 1) : q[i].fn = owm[k] =>
                 \E m \in 1..(K + 1) : /\ rt[m].scope = sd[k] /\ rt[m].begin <= i
                                       /\ i < rt[m].end \/ rt[m].end = NoPos
            BY <2>1, <2>3
        <3>2. PICK s, f : s = sd[k] /\ f = owm[k]
            OBVIOUS
        <3>3. CoveredBy(q, rt, f, s)
            <4>1. \A i \in 1..Len(q) : q[i].fn = f =>
                     \E m \in 1..Len(rt) : /\ rt[m].scope = s /\ rt[m].begin <= i
                                           /\ i < rt[m].end \/ rt[m].end = NoPos
                BY <2>2, <3>1, <3>2
            <4>. QED  BY <4>1 DEF CoveredBy
        <3>. QED  BY <3>2, <3>3
    <2>. QED  BY <2>2, <2>3 DEF Covering
<1>28. Looped(q, rt, u, sd, owm)
    <2>1. ASSUME NEW k \in 1..(n + 1), u[k].kind = "for"
          PROVE  /\ \A i \in 1..(L + 1) : u[k].i1 <= i /\ i < u[k].i2 =>
                      q[i].fn = owm[k] /\ InPiece(q[i], u[k].of, 3)
                 /\ Defines(q, u, k, owm[k])
        <3>1. k \in 1..n
            BY <1>c, <1>4, <1>5, <2>1
        <3>2. u[k] = t[k] /\ owm[k] = own[k] /\ t[k].kind = "for"
            BY <1>5, <1>9, <2>1, <3>1
        <3>3. t[k].i2 <= L + 1 /\ t[k].i2 \in Nat /\ t[k].piece = 2
            BY <1>a, <1>0, <1>1, <3>1, <3>2, OpenIs DEF Placed
        <3>4. \A i \in 1..(L + 1) : i < t[k].i2 => i \in 1..L
            BY <1>2, <3>3
        <3>5. /\ \A i \in 1..L : t[k].i1 <= i /\ i < t[k].i2 =>
                    p[i].fn = own[k] /\ InPiece(p[i], t[k].of, 3)
              /\ \/ Defines(p, t, k, own[k])
                 \/ \A l \in 1..n : l > k => t[l].kind # "fun"
            BY <1>0, <1>1, <3>1, <3>2 DEF Looped
        <3>6. CASE Defines(p, t, k, own[k])
            <4>1. PICK i \in 1..L : /\ i >= t[k].i2 /\ p[i].fn = own[k] /\ p[i].op = "Function"
                                    /\ InPiece(p[i], t[k].of, 2)
                BY <1>1, <3>6 DEF Defines
            <4>2. i \in 1..Len(q) /\ q[i] = p[i]
                BY <1>12
            <4>3. Defines(q, u, k, owm[k])
                BY <3>2, <4>1, <4>2 DEF Defines
            <4>. QED  BY <1>12, <3>2, <3>4, <3>5, <4>3
        <3>7. CASE \A l \in 1..n : l > k => t[l].kind # "fun"
            <4>1. own[k] = own[n]
                <5>1. CASE k = n
                    BY <5>1
                <5>2. CASE k # n
                    <6>1. k < n /\ \A l \in (k + 1)..n : l \in 1..n /\ l > k
                        BY <1>2, <3>1, <5>2
                    <6>2. ~ \E l \in (k + 1)..n : t[l].kind = "fun"
                        BY <3>7, <6>1
                    <6>. QED  BY <1>0, <1>1, <1>2, <3>1, <6>1, <6>2 DEF Scoped
                <5>. QED  BY <5>1, <5>2
            <4>2. InPiece(q[L + 1], t[k].of, 2)
                <5>1. /\ PathOf(t) \in Seq(Goal) /\ Len(PathOf(t)) = n
                      /\ PathOf(t)[k].of = t[k].of /\ PathOf(t)[k].piece = t[k].piece
                    BY <1>a, <1>1, <3>1, PathIs
                <5>2. PathOf(t)[k] \in ToSet(PathOf(t))
                    BY <3>1, <5>1, MembersAre
                <5>. QED  BY <1>12, <3>3, <5>1, <5>2 DEF InPiece
            <4>3. L + 1 >= t[k].i2
                BY <1>2, <3>3
            <4>4. Defines(q, u, k, owm[k])
                BY <1>12, <3>2, <4>1, <4>2, <4>3 DEF Defines
            <4>. QED  BY <1>12, <3>2, <3>4, <3>5, <4>4
        <3>. QED  BY <3>5, <3>6, <3>7
    <2>. QED  BY <1>2, <1>3, <2>1 DEF Looped
<1>29. Named(q, sr, u, sd, owm)
    <2>1. \A s \in 1..(N + 1) : Distinct(sr[s])
        <3>1. \A s \in 1..(N + 1) : s \in 1..N \/ s = N + 1
            BY <1>2
        <3>. QED  BY <1>b, <1>0, <1>1, <1>7, <3>1 DEF Named
    <2>2. ASSUME NEW k \in 1..(n + 1), NEW i \in 1..(L + 1), q[i].fn = owm[k], q[i].name # NoName
          PROVE  \/ q[i].op \in Symbolic
                 \/ /\ q[i].op = "StoreLocal" /\ q[i].name \in ToSet(sr[sd[k]])
                    /\ q[i].c = IndexIn(sr[sd[k]], q[i].name)
        <3>1. i \in 1..L
            BY <1>11, <1>12, <2>2
        <3>2. p[i].fn <= S /\ p[i].fn \in Nat /\ q[i] = p[i]
            BY <1>a, <1>0, <1>1, <1>12, <3>1, InstrIs DEF Owned
        <3>3. k \in 1..n
            <4>1. owm[k] # S + 1
                BY <1>2, <2>2, <3>2
            <4>. QED  BY <1>4, <1>9, <4>1
        <3>4. owm[k] = own[k] /\ sd[k] = sc[k] /\ sr[sc[k]] = ss[sc[k]]
            BY <1>7, <1>9, <1>10, <3>3
        <3>5. \/ p[i].op \in Symbolic
              \/ /\ p[i].op = "StoreLocal" /\ p[i].name \in ToSet(ss[sc[k]])
                 /\ p[i].c = IndexIn(ss[sc[k]], p[i].name)
            BY <1>0, <1>1, <2>2, <3>1, <3>2, <3>3, <3>4 DEF Named
        <3>. QED  BY <3>2, <3>4, <3>5
    <2>3. Len(q) = L + 1 /\ Len(u) = n + 1 /\ Len(sr) = N + 1
        BY <1>2, <1>3, <1>7
    <2>4. \A k \in 1..(n + 1), i \in 1..(L + 1) :
             q[i].fn = owm[k] /\ q[i].name # NoName =>
                \/ q[i].op \in Symbolic
                \/ /\ q[i].op = "StoreLocal" /\ q[i].name \in ToSet(sr[sd[k]])
                   /\ q[i].c = IndexIn(sr[sd[k]], q[i].name)
        BY <2>2
    <2>. QED  BY <2>1, <2>3, <2>4 DEF Named
<1>30. \A k \in 2..(n + 1) : u[k].kind = "fun" => u[k].name # NoName
    <2>. TAKE k \in 2..(n + 1)
    <2>1. CASE k = n + 1
        BY <1>c, <1>5, <2>1
    <2>2. CASE k # n + 1
        <3>1. k \in 2..n /\ k \in 1..n
            BY <1>2, <2>2
        <3>. QED  BY <1>0, <1>1, <1>5, <3>1
    <2>. QED  BY <2>1, <2>2
<1>31. Built(q, u, su, si, sr, rt, sd, owm, g)
    BY <1>3, <1>7, <1>14, <1>16, <1>17, <1>18, <1>26, <1>27, <1>28, <1>29, <1>30 DEF Built
<1>32. Standing(q, u, su, si, sr, rt)
    BY <1>17, <1>23, <1>31 DEF Standing
<1>. QED  BY <1>1, <1>6, <1>32

-----------------------------------------------------------------------------
(* The state of the parser, and of one that has not failed: what it emits is
   the code of function f, and names are the locals of the innermost scope.  *)
State(p, t, st, sh, ss, rs, gs) ==
    /\ p \in Seq(Instr) /\ t \in Seq(Open) /\ st \in [Which -> Seq(Place)]
    /\ sh \in Seq(Shape) /\ ss \in Seq(Seq(Ident)) /\ rs \in Seq(CodeRange)
    /\ gs \in Seq(Ident) /\ Distinct(gs) /\ Symbols(p) /\ Resolution(p, sh, gs)
Going(p, t, st, sh, ss, rs, gs, f) ==
    /\ State(p, t, st, sh, ss, rs, gs)
    /\ \E sc, own, h : Built(p, t, st, sh, ss, rs, sc, own, h) /\ own[Len(t)] = f

LEMMA StateIs ==
    IInv <=> /\ written \in Nat /\ status \in {"parsing", "ok", "error", "more"}
             /\ State(prog, todo, stacks, shapes, scopes, ranges, globals)
             /\ Parsing => \E f : Going(prog, todo, stacks, shapes, scopes, ranges, globals, f)
<1>1. Which = {"if", "break", "continue"} /\ Place = Pos \union {NoPos, Begins}
    BY DEF Which, Place, Pos
<1>2. TypeOK /\ Distinct(globals) /\ Symbols(prog) /\ Resolution(prog, shapes, globals)
        <=> /\ written \in Nat /\ status \in {"parsing", "ok", "error", "more"}
            /\ State(prog, todo, stacks, shapes, scopes, ranges, globals)
    BY <1>1 DEF TypeOK, State
<1>3. ASSUME State(prog, todo, stacks, shapes, scopes, ranges, globals)
      PROVE  (\E sc, own, h : Built(prog, todo, stacks, shapes, scopes, ranges, sc, own, h))
               <=> \E f : Going(prog, todo, stacks, shapes, scopes, ranges, globals, f)
    BY <1>3 DEF Going
<1>. QED  BY <1>2, <1>3 DEF IInv

LEMMA GoingIs ==
    ASSUME NEW p, NEW t, NEW st, NEW sh, NEW ss, NEW rs, NEW gs, NEW f,
           Going(p, t, st, sh, ss, rs, gs, f)
    PROVE  /\ p[FunOf(t).begin].c = f /\ f \in 1..Len(sh) /\ f \in Nat /\ sh[f].offset = 0
           /\ Len(ss) \in Nat /\ Len(ss) > 0 /\ Last(ss) = ss[Len(ss)]
           /\ Last(ss) \in Seq(Ident) /\ Distinct(Last(ss))
           /\ Len(t) \in Nat /\ Len(t) > 0 /\ Last(t) = t[Len(t)] /\ Last(t) \in Open
           /\ Len(rs) > 0
           /\ \A w \in Which : st[w] \in Seq(Place) /\ Len(st[w]) > 0
<1>1. PICK sc, own, h : Built(p, t, st, sh, ss, rs, sc, own, h) /\ own[Len(t)] = f
    BY DEF Going
<1>2. State(p, t, st, sh, ss, rs, gs)
    BY DEF Going
<1>3. /\ p \in Seq(Instr) /\ t \in Seq(Open) /\ ss \in Seq(Seq(Ident)) /\ sh \in Seq(Shape)
      /\ rs \in Seq(CodeRange) /\ \A w \in Which : st[w] \in Seq(Place)
    BY <1>2 DEF State
<1>4. /\ Scoped(t, Len(ss), Len(sh), sc, own) /\ Owned(p, t, sh, own)
      /\ Ranged(p, rs, t, Len(ss), sc) /\ Named(p, ss, t, sc, own)
      /\ \A w \in Which : Stacked(p, t, w, st[w], h[w])
    BY <1>1 DEF Built
<1>5. PICK a, c : a = Len(ss) /\ c = Len(sh)
    OBVIOUS
<1>6. a \in Nat /\ c \in Nat
    BY <1>3, <1>5, LenProperties
<1>7. Scoped(t, a, c, sc, own)
    BY <1>4, <1>5
<1>8. PICK m \in 1..Len(t) : FunOf(t) = t[m] /\ t[m].kind = "fun" /\ own[m] = own[Len(t)]
    BY <1>3, <1>6, <1>7, FunNowIs
<1>9. p[t[m].begin].c = own[m] /\ sh[own[m]].offset = 0
    BY <1>4, <1>8 DEF Owned
<1>10. /\ Len(t) \in Nat /\ Len(t) \in 1..Len(t) /\ own[Len(t)] \in 1..c /\ a > 0
    BY <1>3, <1>6, <1>7, LastEntry
<1>11. f \in 1..Len(sh) /\ f \in Nat
    BY <1>1, <1>5, <1>6, <1>10
<1>12. Last(ss) = ss[Len(ss)] /\ Last(ss) \in Seq(Ident)
    BY <1>3, <1>5, <1>10, EndsAre
<1>13. Distinct(Last(ss))
    <2>1. a \in 1..Len(ss)
        BY <1>5, <1>6, <1>10
    <2>. QED  BY <1>4, <1>5, <1>12, <2>1 DEF Named
<1>14. Len(t) > 0
    BY <1>10
<1>15. Last(t) = t[Len(t)] /\ Last(t) \in Open
    BY <1>3, <1>14, EndsAre
<1>16. ASSUME NEW w \in Which
       PROVE  Len(st[w]) > 0
    <2>1. Stacked(p, t, w, st[w], h[w])
        BY <1>4
    <2>2. 1 \in 1..Len(t) /\ t[1].kind = "fun" /\ "fun" \in MarkedBy(w)
        BY <1>7, <1>10 DEF Scoped, MarkedBy
    <2>3. h[w][1] \in 0..Len(st[w]) /\ h[w][1] > 0
        BY <2>1, <2>2 DEF Stacked
    <2>4. Len(st[w]) \in Nat
        BY <1>3, LenProperties
    <2>. QED  BY <2>3, <2>4
<1>. QED  BY <1>1, <1>3, <1>4, <1>5, <1>6, <1>8, <1>9, <1>10, <1>11, <1>12, <1>13, <1>14, <1>15,
            <1>16 DEF Ranged

LEMMA GoingGrown ==
    ASSUME NEW p, NEW t, NEW st, NEW sh, NEW ss, NEW rs, NEW gs, NEW f,
           Going(p, t, st, sh, ss, rs, gs, f),
           NEW q, NEW names \in Seq(Ident), Distinct(names), Grows(Last(ss), names),
           Continues(p, q, f, names)
    PROVE  Going(q, t, st, sh, Front(ss) \o <<names>>, rs, gs, f)
<1>1. PICK sc, own, h : Built(p, t, st, sh, ss, rs, sc, own, h) /\ own[Len(t)] = f
    BY DEF Going
<1>2. State(p, t, st, sh, ss, rs, gs)
    BY DEF Going
<1>3. /\ p \in Seq(Instr) /\ t \in Seq(Open) /\ ss \in Seq(Seq(Ident)) /\ sh \in Seq(Shape)
      /\ rs \in Seq(CodeRange) /\ Symbols(p) /\ Resolution(p, sh, gs)
    BY <1>2 DEF State
<1>4. Len(ss) > 0 /\ Last(ss) = ss[Len(ss)] /\ sh[f].offset = 0
    BY GoingIs
<1>5. PICK rr : rr = Front(ss) \o <<names>>
    OBVIOUS
<1>6. /\ rr \in Seq(Seq(Ident)) /\ Len(rr) = Len(ss)
      /\ \A s \in 1..Len(ss) : rr[s] = IF s = Len(ss) THEN names ELSE ss[s]
    <2>1. /\ Front(ss) \o <<names>> \in Seq(Seq(Ident))
          /\ Len(Front(ss) \o <<names>>) = Len(ss)
          /\ \A s \in 1..Len(ss) : (Front(ss) \o <<names>>)[s] = IF s = Len(ss) THEN names ELSE ss[s]
        BY <1>3, <1>4, FrontThen
    <2>. QED  BY <1>5, <2>1
<1>7. Built(q, t, st, sh, rr, rs, sc, own, h)
    BY <1>1, <1>3, <1>4, <1>6, BuiltGrown
<1>8. q \in Seq(Instr) /\ Symbols(q)
    BY <1>3, SymbolsGrown DEF Continues
<1>9. Resolution(q, sh, gs)
    BY <1>3, <1>4, ResolutionGrown
<1>10. State(q, t, st, sh, rr, rs, gs)
    BY <1>2, <1>6, <1>8, <1>9 DEF State
<1>. QED  BY <1>1, <1>5, <1>7, <1>10 DEF Going

LEMMA GoingOn ==
    ASSUME NEW p, NEW t, NEW st, NEW sh, NEW ss, NEW rs, NEW gs, NEW f,
           Going(p, t, st, sh, ss, rs, gs, f), NEW q, Continues(p, q, f, Last(ss))
    PROVE  Going(q, t, st, sh, ss, rs, gs, f)
<1>1. PICK sc, own, h : Built(p, t, st, sh, ss, rs, sc, own, h) /\ own[Len(t)] = f
    BY DEF Going
<1>2. State(p, t, st, sh, ss, rs, gs)
    BY DEF Going
<1>3. /\ p \in Seq(Instr) /\ t \in Seq(Open) /\ ss \in Seq(Seq(Ident)) /\ sh \in Seq(Shape)
      /\ rs \in Seq(CodeRange) /\ Symbols(p) /\ Resolution(p, sh, gs)
    BY <1>2 DEF State
<1>4. /\ Len(ss) \in Nat /\ Last(ss) = ss[Len(ss)] /\ sh[f].offset = 0
      /\ Last(ss) \in Seq(Ident) /\ Distinct(Last(ss))
    BY GoingIs
<1>5. PICK names : names = Last(ss)
    OBVIOUS
<1>6. Grows(ss[Len(ss)], names)
    <2>1. Len(names) \in Nat
        BY <1>4, <1>5, LenProperties
    <2>. QED  BY <1>4, <1>5, <2>1 DEF Grows
<1>7. \A s \in 1..Len(ss) : ss[s] = IF s = Len(ss) THEN names ELSE ss[s]
    BY <1>4, <1>5
<1>8. Continues(p, q, own[Len(t)], names) /\ names \in Seq(Ident) /\ Distinct(names)
    BY <1>1, <1>4, <1>5
<1>9. Built(q, t, st, sh, ss, rs, sc, own, h)
    BY <1>1, <1>3, <1>6, <1>7, <1>8, BuiltGrown
<1>10. q \in Seq(Instr) /\ Symbols(q)
    BY <1>3, SymbolsGrown DEF Continues
<1>11. Resolution(q, sh, gs)
    BY <1>3, <1>4, ResolutionGrown
<1>12. State(q, t, st, sh, ss, rs, gs)
    BY <1>2, <1>10, <1>11 DEF State
<1>. QED  BY <1>1, <1>9, <1>12 DEF Going

LEMMA LastIs ==
    ASSUME NEW p, NEW t, NEW st, NEW sh, NEW ss, NEW rs, NEW gs, NEW f,
           Going(p, t, st, sh, ss, rs, gs, f)
    PROVE  /\ Last(t).jump # NoPos => Last(t).jump \in Jumps(p)
           /\ Last(t).begin \in 1..(Len(p) + 1)
           /\ Last(t).kind # "fun" => Len(t) > 1
           /\ Last(t).kind = "fun" => Last(t).begin <= Len(p)
           /\ Len(t) > 1 /\ Last(t).kind = "fun" => Last(t).name # NoName
<1>1. PICK sc, own, h : Built(p, t, st, sh, ss, rs, sc, own, h) /\ own[Len(t)] = f
    BY DEF Going
<1>2. Placed(p, t) /\ Scoped(t, Len(ss), Len(sh), sc, own) /\ Owned(p, t, sh, own)
      /\ \A k \in 2..Len(t) : t[k].kind = "fun" => t[k].name # NoName
    BY <1>1 DEF Built
<1>3. Len(t) \in Nat /\ Len(t) > 0 /\ Last(t) = t[Len(t)]
    BY GoingIs
<1>4. Len(t) \in 1..Len(t) /\ (Len(t) > 1 => Len(t) \in 2..Len(t))
    BY <1>3
<1>5. t[1].kind = "fun"
    BY <1>2 DEF Scoped
<1>6. Last(t).kind # "fun" => Len(t) > 1
    <2>1. Len(t) = 1 \/ Len(t) > 1
        BY <1>3
    <2>. QED  BY <1>3, <1>5, <2>1
<1>7. Last(t).kind = "fun" => Last(t).begin <= Len(p)
    BY <1>2, <1>3, <1>4 DEF Owned
<1>. QED  BY <1>2, <1>3, <1>4, <1>6, <1>7 DEF Placed

LEMMA GoingAlike ==
    ASSUME NEW p, NEW t, NEW st, NEW sh, NEW ss, NEW rs, NEW gs, NEW f,
           Going(p, t, st, sh, ss, rs, gs, f), NEW u, Alike(t, u),
           u[Len(u)].jump # NoPos => u[Len(u)].jump \in Jumps(p)
    PROVE  Going(p, u, st, sh, ss, rs, gs, f)
<1>1. PICK sc, own, h : Built(p, t, st, sh, ss, rs, sc, own, h) /\ own[Len(t)] = f
    BY DEF Going
<1>2. State(p, t, st, sh, ss, rs, gs)
    BY DEF Going
<1>3. t \in Seq(Open)
    BY <1>2 DEF State
<1>4. Built(p, u, st, sh, ss, rs, sc, own, h)
    BY <1>1, <1>3, BuiltAlike
<1>5. u \in Seq(Open) /\ Len(u) = Len(t)
    BY DEF Alike
<1>6. State(p, u, st, sh, ss, rs, gs)
    BY <1>2, <1>5 DEF State
<1>. QED  BY <1>1, <1>4, <1>5, <1>6 DEF Going

LEMMA GoingOneMore ==
    ASSUME NEW p, NEW t, NEW st, NEW sh, NEW ss, NEW rs, NEW gs, NEW f,
           Going(p, t, st, sh, ss, rs, gs, f), NEW w \in Which, NEW x \in Jumps(p),
           \/ w # "if" /\ Last(st[w]) # NoPos
           \/ w = "if" /\ Last(t).kind = "if"
    PROVE  Going(p, t, [st EXCEPT ![w] = Append(@, x)], sh, ss, rs, gs, f)
<1>1. PICK sc, own, h : Built(p, t, st, sh, ss, rs, sc, own, h) /\ own[Len(t)] = f
    BY DEF Going
<1>2. State(p, t, st, sh, ss, rs, gs)
    BY DEF Going
<1>3. p \in Seq(Instr) /\ t \in Seq(Open) /\ st \in [Which -> Seq(Place)]
    BY <1>2 DEF State
<1>4. PICK su : su = [st EXCEPT ![w] = Append(@, x)]
    OBVIOUS
<1>5. x \in Place
    BY <1>3, InstrIs DEF Jumps, Place
<1>6. /\ su \in [Which -> Seq(Place)] /\ su[w] = Append(st[w], x)
      /\ \A v \in Which : v # w => su[v] = st[v]
    <2>1. Append(st[w], x) \in Seq(Place)
        BY <1>3, <1>5, AppendIs
    <2>. QED  BY <1>3, <1>4, <2>1
<1>7. Stacked(p, t, w, su[w], h[w])
    <2>1. Stacked(p, t, w, st[w], h[w]) /\ st[w] \in Seq(Place)
        BY <1>1, <1>3 DEF Built
    <2>2. Len(t) > 0 /\ Len(st[w]) > 0 /\ Last(t) = t[Len(t)]
        BY GoingIs
    <2>3. \/ w # "if" /\ Last(st[w]) # NoPos
          \/ t[Len(t)].kind \in MarkedBy(w) \ Closing(w)
        BY <2>2 DEF MarkedBy, Closing
    <2>. QED  BY <1>3, <1>6, <2>1, <2>2, <2>3, StackedOneMore
<1>8. \A v \in Which : Stacked(p, t, v, su[v], h[v])
    <2>. TAKE v \in Which
    <2>1. CASE v = w
        BY <1>7, <2>1
    <2>2. CASE v # w
        BY <1>1, <1>6, <2>2 DEF Built
    <2>. QED  BY <2>1, <2>2
<1>9. Built(p, t, su, sh, ss, rs, sc, own, h)
    BY <1>1, <1>8 DEF Built
<1>10. State(p, t, su, sh, ss, rs, gs)
    BY <1>2, <1>6 DEF State
<1>. QED  BY <1>1, <1>4, <1>9, <1>10 DEF Going

(* What a construct has noted when it begins, and what it does to the stacks. *)
Opening(q, e, f) ==
    /\ e.kind # "fun" /\ (e.jump # NoPos => e.jump \in Jumps(q))
    /\ e.kind = "for" => /\ e.piece = 2 /\ e.begin <= e.i1 /\ e.i1 <= e.i2
                         /\ e.i2 <= Len(q) + 1
                         /\ \A i \in 1..Len(q) : e.i1 <= i /\ i < e.i2 =>
                              q[i].fn = f /\ InPiece(q[i], e.of, 3)
Pushed(st, su, e) ==
    su \in [Which -> Seq(Place)] /\ \A w \in Which : su[w] = Marked(w, st[w], e)
Popped(t, st, su) ==
    /\ su \in [Which -> Seq(Place)]
    /\ \A w \in Which :
          su[w] = IF Last(t).kind \in MarkedBy(w) THEN Ended(st[w]) ELSE st[w]

(* A construct begun where the code ended, before what has been emitted.     *)
LEMMA GoingPushed ==
    ASSUME NEW p, NEW t, NEW st, NEW sh, NEW ss, NEW rs, NEW gs, NEW f,
           Going(p, t, st, sh, ss, rs, gs, f),
           NEW q, NEW rr, Going(q, t, st, sh, rr, rs, gs, f), Len(p) <= Len(q),
           NEW e \in Open, e.begin = Len(p) + 1, Opening(q, e, f),
           NEW su, Pushed(st, su, e)
    PROVE  \E z : Going(q, Append(t, e), su, sh, rr, rs, gs, z)
<1>1. PICK sc, own, h : Built(p, t, st, sh, ss, rs, sc, own, h) /\ own[Len(t)] = f
    BY DEF Going
<1>2. PICK sd, owm, g : Built(q, t, st, sh, rr, rs, sd, owm, g) /\ owm[Len(t)] = f
    BY DEF Going
<1>3. State(p, t, st, sh, ss, rs, gs) /\ State(q, t, st, sh, rr, rs, gs)
    BY DEF Going
<1>4. /\ p \in Seq(Instr) /\ q \in Seq(Instr) /\ t \in Seq(Open) /\ sh \in Seq(Shape)
      /\ rr \in Seq(Seq(Ident)) /\ rs \in Seq(CodeRange)
      /\ \A w \in Which : st[w] \in Seq(Place)
    BY <1>3 DEF State
<1>5. Ahead(t, e.begin)
    <2>1. Placed(p, t) /\ Owned(p, t, sh, own)
        BY <1>1 DEF Built
    <2>. QED  BY <1>4, <2>1, AheadOfHere
<1>6. \A w \in Which : Under(st[w], e.begin)
    <2>. TAKE w \in Which
    <2>1. Stacked(p, t, w, st[w], h[w])
        BY <1>1 DEF Built
    <2>. QED  BY <1>4, <2>1, UnderHere
<1>7. \A m \in 1..Len(rs) : rs[m].begin <= e.begin
    BY <1>1 DEF Built, Ranged
<1>8. e.begin \in 1..(Len(q) + 1)
    <2>1. Len(p) \in Nat /\ Len(q) \in Nat
        BY <1>4, InstrIs
    <2>. QED  BY <2>1
<1>9. PICK u : u = Append(t, e)
    OBVIOUS
<1>10. \E sx, ox, hx : Built(q, Append(t, e), su, sh, rr, rs, sx, ox, hx)
    BY <1>2, <1>4, <1>5, <1>6, <1>7, <1>8, BuiltPushed DEF Opening, Pushed
<1>11. State(q, Append(t, e), su, sh, rr, rs, gs)
    <2>1. Append(t, e) \in Seq(Open)
        BY <1>4, AppendIs
    <2>. QED  BY <1>3, <2>1 DEF State, Pushed
<1>. QED  BY <1>10, <1>11 DEF Going

LEMMA GoingPopped ==
    ASSUME NEW p, NEW t, NEW st, NEW sh, NEW ss, NEW rs, NEW gs, NEW f,
           Going(p, t, st, sh, ss, rs, gs, f), Last(t).kind # "fun",
           NEW su, Popped(t, st, su)
    PROVE  /\ Going(p, Front(t), su, sh, ss, rs, gs, f)
           /\ Last(t).kind # "if" =>
                 /\ Ahead(Front(t), Last(t).begin)
                 /\ \A w \in Which : Under(su[w], Last(t).begin)
<1>0. /\ su \in [Which -> Seq(Place)]
      /\ \A w \in Which :
            su[w] = IF Last(t).kind \in MarkedBy(w) THEN Ended(st[w]) ELSE st[w]
    BY DEF Popped
<1>1. PICK sc, own, h : Built(p, t, st, sh, ss, rs, sc, own, h) /\ own[Len(t)] = f
    BY DEF Going
<1>2. State(p, t, st, sh, ss, rs, gs)
    BY DEF Going
<1>3. /\ p \in Seq(Instr) /\ t \in Seq(Open) /\ sh \in Seq(Shape)
      /\ ss \in Seq(Seq(Ident)) /\ rs \in Seq(CodeRange)
      /\ \A w \in Which : st[w] \in Seq(Place)
    BY <1>2 DEF State
<1>4. Len(t) > 0 /\ Last(t) = t[Len(t)]
    BY GoingIs
<1>5. ASSUME NEW w \in Which
      PROVE  Cut(st[w], su[w], IF t[Len(t)].kind \in MarkedBy(w)
                               THEN h[w][Len(t)] - 1 ELSE Len(st[w]))
    <2>1. Stacked(p, t, w, st[w], h[w]) /\ st[w] \in Seq(Place)
        BY <1>1, <1>3 DEF Built
    <2>2. CASE t[Len(t)].kind \in MarkedBy(w)
        <3>1. Cut(st[w], Ended(st[w]), h[w][Len(t)] - 1)
            BY <1>3, <1>4, <2>1, <2>2, EndedIs
        <3>. QED  BY <1>0, <1>4, <2>2, <3>1
    <2>3. CASE t[Len(t)].kind \notin MarkedBy(w)
        BY <1>0, <1>4, <2>3 DEF Cut
    <2>. QED  BY <2>2, <2>3
<1>6. /\ Front(t) \in Seq(Open) /\ Ahead(Front(t), t[Len(t)].begin)
      /\ t[Len(t)].kind # "if" => \A w \in Which : Under(su[w], t[Len(t)].begin)
      /\ \E sd, owm, g : /\ Built(p, Front(t), su, sh, ss, rs, sd, owm, g)
                         /\ owm[Len(Front(t))] = own[Len(t)]
    <2>1. \A w \in Which : st[w] \in Seq(Place) /\ su[w] \in Seq(Place)
        BY <1>0, <1>3
    <2>2. t[Len(t)].kind # "fun"
        BY <1>4
    <2>3. Built(p, t, st, sh, ss, rs, sc, own, h)
        BY <1>1
    <2>4. Unwound(t, st, su, h)
        BY <1>5 DEF Unwound
    <2>5. Shortened(p, t, su, sh, ss, rs, own[Len(t)])
        BY <1>3, <2>1, <2>2, <2>3, <2>4, BuiltPopped
    <2>. QED  BY <2>5 DEF Shortened
<1>7. State(p, Front(t), su, sh, ss, rs, gs)
    BY <1>0, <1>2, <1>6 DEF State
<1>. QED  BY <1>1, <1>4, <1>6, <1>7 DEF Going

LEMMA SegmentIs ==
    ASSUME NEW p, NEW t, NEW st, NEW sh, NEW ss, NEW rs, NEW gs, NEW f,
           Going(p, t, st, sh, ss, rs, gs, f), Last(t).kind # "fun",
           NEW w \in Which, Last(t).kind \in MarkedBy(w)
    PROVE  /\ Ended(st[w]) \in Seq(Place)
           /\ \A i \in Segment(st[w]) : i >= 0 => i \in Jumps(p)
<1>1. PICK sc, own, h : Built(p, t, st, sh, ss, rs, sc, own, h)
    BY DEF Going
<1>2. State(p, t, st, sh, ss, rs, gs)
    BY DEF Going
<1>3. /\ t \in Seq(Open) /\ st[w] \in Seq(Place)
    BY <1>2 DEF State
<1>4. Len(t) > 0 /\ Last(t) = t[Len(t)]
    BY GoingIs
<1>5. Stacked(p, t, w, st[w], h[w])
    BY <1>1 DEF Built
<1>6. /\ Ended(st[w]) \in Seq(Place)
      /\ \A i \in Segment(st[w]) : i >= 0 => i \in Jumps(p)
    BY <1>3, <1>4, <1>5, EndedIs
<1>. QED  BY <1>6

LEMMA GoingTurned ==
    ASSUME NEW p, NEW t, NEW st, NEW sh, NEW ss, NEW rs, NEW gs, NEW f,
           Going(p, t, st, sh, ss, rs, gs, f),
           NEW q, NEW b \in Nat, Shuffled(p, q, b), Ahead(t, b),
           \A w \in Which : Under(st[w], b), b <= Len(p) + 1,
           \/ Moved(p, f)
           \/ \A m \in 1..Len(rs) : rs[m].scope = Len(ss) => rs[m].begin <= b
    PROVE  Going(q, t, st, sh, ss, rs, gs, f)
<1>1. PICK sc, own, h : Built(p, t, st, sh, ss, rs, sc, own, h) /\ own[Len(t)] = f
    BY DEF Going
<1>2. State(p, t, st, sh, ss, rs, gs)
    BY DEF Going
<1>3. /\ p \in Seq(Instr) /\ t \in Seq(Open) /\ sh \in Seq(Shape)
      /\ ss \in Seq(Seq(Ident)) /\ rs \in Seq(CodeRange)
      /\ \A w \in Which : st[w] \in Seq(Place)
    BY <1>2 DEF State
<1>4. Built(q, t, st, sh, ss, rs, sc, own, h)
    BY <1>1, <1>3, BuiltTurned
<1>5. q \in Seq(Instr) /\ Resolution(q, sh, gs) /\ Symbols(q)
    BY <1>2, <1>3, TurnedKept DEF State, Shuffled
<1>6. State(q, t, st, sh, ss, rs, gs)
    BY <1>2, <1>5 DEF State
<1>. QED  BY <1>1, <1>4, <1>6 DEF Going

-----------------------------------------------------------------------------
(* What the actions share.                                                   *)
LEMMA StateIsNext ==
    IInv' <=> /\ written' \in Nat /\ status' \in {"parsing", "ok", "error", "more"}
              /\ State(prog', todo', stacks', shapes', scopes', ranges', globals')
              /\ status' = "parsing" =>
                   \E f : Going(prog', todo', stacks', shapes', scopes', ranges', globals', f)
<1>1. Which = {"if", "break", "continue"} /\ Place = Pos \union {NoPos, Begins}
    BY DEF Which, Place, Pos
<1>2. TypeOK' /\ Distinct(globals') /\ Symbols(prog') /\ Resolution(prog', shapes', globals')
        <=> /\ written' \in Nat /\ status' \in {"parsing", "ok", "error", "more"}
            /\ State(prog', todo', stacks', shapes', scopes', ranges', globals')
    BY <1>1 DEF TypeOK, State
<1>3. ASSUME State(prog', todo', stacks', shapes', scopes', ranges', globals')
      PROVE  (\E sc, own, h : Built(prog', todo', stacks', shapes', scopes', ranges', sc, own, h))
               <=> \E f : Going(prog', todo', stacks', shapes', scopes', ranges', globals', f)
    BY <1>3 DEF Going
<1>. QED  BY <1>2, <1>3 DEF IInv, Parsing

LEMMA KeptGoing ==
    ASSUME IInv, written' \in Nat, UNCHANGED status, NEW f,
           Going(prog', todo', stacks', shapes', scopes', ranges', globals', f)
    PROVE  IInv'
<1>1. status' \in {"parsing", "ok", "error", "more"}
    BY StateIs
<1>2. State(prog', todo', stacks', shapes', scopes', ranges', globals')
    BY DEF Going
<1>. QED  BY <1>1, <1>2, StateIsNext

LEMMA DiscardKeeps ==
    ASSUME NEW why \in {"ok", "error", "more"}, Discard(why),
           globals' \in Seq(Ident), Distinct(globals')
    PROVE  IInv'
<1>1. Symbols(<<>>) /\ Resolution(<<>>, <<>>, globals')
    BY DEF Symbols, Resolution
<1>2. stacks' \in [Which -> Seq(Place)]
    BY DEF Discard, Which
<1>3. State(prog', todo', stacks', shapes', scopes', ranges', globals')
    BY <1>1, <1>2 DEF Discard, State
<1>. QED  BY <1>3, StateIsNext DEF Discard

LEMMA RejectedKeeps ==
    ASSUME IInv, NEW why \in {"error", "more"}, Rejected(why)
    PROVE  IInv'
<1>1. globals' \in Seq(Ident) /\ Distinct(globals') /\ Discard(why)
    BY StateIs DEF Rejected, State
<1>. QED  BY <1>1, DiscardKeeps

LEMMA Now ==
    ASSUME IInv, Parsing
    PROVE  /\ Going(prog, todo, stacks, shapes, scopes, ranges, globals, ShapeIdx)
           /\ State(prog, todo, stacks, shapes, scopes, ranges, globals)
           /\ ShapeIdx \in Nat /\ written \in Nat
           /\ prog \in Seq(Instr) /\ Len(prog) \in Nat /\ todo \in Seq(Open)
           /\ Names \in Seq(Ident) /\ Distinct(Names)
<1>1. PICK f : Going(prog, todo, stacks, shapes, scopes, ranges, globals, f)
    BY StateIs
<1>2. ShapeIdx = f
    BY <1>1, GoingIs DEF ShapeIdx, FunNow
<1>3. f \in Nat /\ Names \in Seq(Ident) /\ Distinct(Names)
    BY <1>1, GoingIs DEF Names
<1>4. State(prog, todo, stacks, shapes, scopes, ranges, globals) /\ written \in Nat
    BY StateIs
<1>5. prog \in Seq(Instr) /\ Len(prog) \in Nat /\ todo \in Seq(Open)
    BY <1>4, LenProperties DEF State
<1>. QED  BY <1>1, <1>2, <1>3, <1>4, <1>5

AllFit(code, names) ==
    code \in Seq(BareInstr) /\ \A i \in 1..Len(code) : Fits(code[i], names)
Lengthens(p, q, n, fn, names) ==
    Continues(p, q, fn, names) /\ q \in Seq(Instr) /\ Len(q) = Len(p) + n
Posted(p, q, fn, open, names) ==
    /\ Lengthens(p, q, 1, fn, names) /\ Len(p) + 1 \in Jumps(q)
    /\ q[Len(p) + 1].fn = fn /\ q[Len(p) + 1].path = PathOf(open)

LEMMA EmittedIs ==
    ASSUME NEW p \in Seq(Instr), NEW fn \in Nat, NEW code, NEW names, AllFit(code, names),
           NEW open \in Seq(Open), written \in Nat, ShapeIdx = fn
    PROVE  /\ Lengthens(p, Emit(p, code, open), Len(code), fn, names)
           /\ Lengthens(p, EmitNoLine(p, code, open), Len(code), fn, names)
<1>1. NoGoal \in Goal /\ written + 1 \in Nat /\ NoLine \in Nat
    BY DEF NoGoal, Goal, NoLine
<1>2. code \in Seq(BareInstr) /\ \A i \in 1..Len(code) : Fits(code[i], names)
    BY DEF AllFit
<1>3. /\ Continues(p, EmitAt(p, code, fn, open, NoGoal, written + 1), fn, names)
      /\ Continues(p, EmitAt(p, code, fn, open, NoGoal, NoLine), fn, names)
    BY <1>1, <1>2, EmitContinues
<1>4. /\ Len(EmitAt(p, code, fn, open, NoGoal, written + 1)) = Len(p) + Len(code)
      /\ Len(EmitAt(p, code, fn, open, NoGoal, NoLine)) = Len(p) + Len(code)
    <2>1. /\ Emitted(p, code, fn, open, EmitAt(p, code, fn, open, NoGoal, written + 1))
          /\ Emitted(p, code, fn, open, EmitAt(p, code, fn, open, NoGoal, NoLine))
        BY <1>1, <1>2, EmitIs
    <2>. QED  BY <2>1 DEF Emitted
<1>. QED  BY <1>3, <1>4 DEF Emit, EmitNoLine, Continues, Lengthens

LEMMA EmittedOne ==
    ASSUME NEW p \in Seq(Instr), NEW b \in BareInstr, NEW fn \in Nat,
           NEW open \in Seq(Open), NEW goal \in Goal, NEW ln \in Nat
    PROVE  LET q == EmitAt(p, <<b>>, fn, open, goal, ln)
           IN  /\ q \in Seq(Instr) /\ Len(q) = Len(p) + 1 /\ \A i \in 1..Len(p) : q[i] = p[i]
               /\ q[Len(p) + 1].op = b.op /\ q[Len(p) + 1].c = b.c
               /\ q[Len(p) + 1].name = b.name /\ q[Len(p) + 1].fn = fn
               /\ q[Len(p) + 1].path = PathOf(open) /\ Len(p) + 1 \in 1..Len(q)
<1>1. PICK code, q : code = <<b>> /\ q = EmitAt(p, code, fn, open, goal, ln)
    OBVIOUS
<1>2. code \in Seq(BareInstr) /\ Len(code) = 1 /\ code[1] = b
    BY <1>1
<1>3. Emitted(p, code, fn, open, q)
    BY <1>1, <1>2, EmitIs
<1>4. 1 \in 1..Len(code) /\ Len(q) = Len(p) + 1 /\ Len(p) + 1 \in 1..Len(q)
    <2>1. Len(p) \in Nat
        BY InstrIs
    <2>. QED  BY <1>2, <1>3, <2>1 DEF Emitted
<1>5. /\ q \in Seq(Instr) /\ \A i \in 1..Len(p) : q[i] = p[i]
      /\ \A i \in 1..Len(code) :
           /\ q[Len(p) + i].op = code[i].op /\ q[Len(p) + i].c = code[i].c
           /\ q[Len(p) + i].name = code[i].name /\ q[Len(p) + i].fn = fn
           /\ q[Len(p) + i].path = PathOf(open)
    BY <1>3 DEF Emitted
<1>. QED  BY <1>1, <1>2, <1>4, <1>5

LEMMA PostponedIs ==
    ASSUME NEW p \in Seq(Instr), NEW fn \in Nat, ShapeIdx = fn,
           NEW op \in {"Jump", "JumpUnless"}, NEW open \in Seq(Open), NEW of \in Nat,
           NEW piece \in Nat, NEW names
    PROVE  Posted(p, Postponed(p, op, open, of, piece), fn, open, names)
<1>1. PICK b, goal, q : /\ b = Bare(op, 0) /\ goal = [of |-> of, piece |-> piece]
                        /\ q = EmitAt(p, <<b>>, fn, open, goal, NoLine)
    OBVIOUS
<1>2. b \in BareInstr /\ b.op = op /\ b.name = NoName
    BY <1>1 DEF Bare, BareInstr, Ops
<1>3. <<b>> \in Seq(BareInstr) /\ Len(<<b>>) = 1 /\ <<b>>[1] = b
    BY <1>2
<1>4. Fits(b, names)
    BY <1>2 DEF Fits, Symbolic
<1>5. goal \in Goal /\ NoLine \in Nat
    BY <1>1 DEF Goal, NoLine
<1>6. q = Postponed(p, op, open, of, piece)
    BY <1>1 DEF Postponed
<1>7. \A i \in 1..Len(<<b>>) : Fits(<<b>>[i], names)
    <2>1. \A i \in 1..Len(<<b>>) : i = 1
        BY <1>3
    <2>. QED  BY <1>3, <1>4, <2>1
<1>8. Continues(p, q, fn, names)
    BY <1>1, <1>3, <1>5, <1>7, EmitContinues
<1>9. /\ q \in Seq(Instr) /\ Len(q) = Len(p) + 1
      /\ q[Len(p) + 1].op = op /\ q[Len(p) + 1].name = NoName /\ q[Len(p) + 1].fn = fn
      /\ q[Len(p) + 1].path = PathOf(open) /\ Len(p) + 1 \in 1..Len(q)
    BY <1>1, <1>2, <1>5, EmittedOne
<1>. QED  BY <1>6, <1>8, <1>9 DEF Jumps, Posted, Lengthens

LEMMA PastIsNat == Past \in Nat /\ \A n \in Nat : Clause(n) \in Nat
BY CodegenAssumption DEF Past, Clause

LEMMA LoopNowIs ==
    ASSUME NEW t, t = todo, t \in Seq(Open)
    PROVE  LoopNow.of \in Nat
<1>1. PICK loops : loops = {k \in 1..Len(todo) : todo[k].kind \in {"while", "for"}
                              /\ \A j \in (k + 1)..Len(todo) : todo[j].kind # "fun"}
    OBVIOUS
<1>2. LoopNow = IF loops = {} THEN [of |-> 0, kind |-> "none"] ELSE todo[Max(loops)]
    BY <1>1 DEF LoopNow
<1>3. CASE loops = {}
    BY <1>2, <1>3
<1>4. CASE loops # {}
    <2>1. Len(t) \in Nat /\ loops \subseteq 0..Len(t)
        <3>1. Len(t) \in Nat
            BY OpenIs
        <3>. QED  BY <1>1, <3>1
    <2>2. Max(loops) \in loops
        BY <1>4, <2>1, MaxExists
    <2>3. Max(loops) \in 1..Len(t)
        BY <1>1, <2>2
    <2>4. t[Max(loops)].of \in Nat
        BY <2>3, OpenIs
    <2>. QED  BY <1>2, <1>4, <2>4
<1>. QED  BY <1>3, <1>4

LEMMA NewIs ==
    ASSUME NEW kind \in {"fun", "if", "while", "for"}, NEW piece \in Nat, NEW n,
           n = Len(prog), n \in Nat, written \in Nat
    PROVE  /\ New(kind, piece) \in Open /\ New(kind, piece).kind = kind
           /\ New(kind, piece).begin = n + 1 /\ New(kind, piece).jump = NoPos
           /\ New(kind, piece).of = written + 1 /\ New(kind, piece).piece = piece
BY DEF New, Open, Here, Pos

-----------------------------------------------------------------------------
(* Simple statements.                                                        *)
LEMMA SimpleKeeps ==
    ASSUME IInv, NEW s \in Stmts, Valid(s), SimpleStmt(s)
    PROVE  IInv'
<1>1. PICK fn, names, code, ds : /\ fn = ShapeIdx /\ names = Names
                                 /\ code = SimpleCode(names, s) /\ ds = Declared(names, s)
    OBVIOUS
<1>2. /\ Parsing /\ prog' = Emit(prog, code, todo)
      /\ scopes' = Front(scopes) \o <<ds>> /\ written' = written + 1
      /\ UNCHANGED <<ranges, shapes, stacks, todo, globals, status>>
    BY <1>1 DEF SimpleStmt, Write
<1>3. /\ Going(prog, todo, stacks, shapes, scopes, ranges, globals, fn)
      /\ fn \in Nat /\ written \in Nat /\ prog \in Seq(Instr) /\ todo \in Seq(Open)
      /\ names \in Seq(Ident) /\ Distinct(names) /\ names = Last(scopes)
    BY <1>1, <1>2, Now DEF Names
<1>4. s \in Simple \union {Nothing}
    BY CodegenAssumption
<1>5. /\ ds \in Seq(Ident) /\ Distinct(ds) /\ Grows(names, ds) /\ code \in Seq(BareInstr)
      /\ \A i \in 1..Len(code) : Fits(code[i], ds)
    BY <1>1, <1>3, <1>4, SimpleIs
<1>6. Continues(prog, prog', fn, ds)
    <2>1. AllFit(code, ds)
        BY <1>5 DEF AllFit
    <2>. QED  BY <1>1, <1>2, <1>3, <2>1, EmittedIs DEF Lengthens
<1>7. Going(prog', todo, stacks, shapes, Front(scopes) \o <<ds>>, ranges, globals, fn)
    BY <1>3, <1>5, <1>6, GoingGrown
<1>8. Going(prog', todo', stacks', shapes', scopes', ranges', globals', fn)
    BY <1>2, <1>7
<1>. QED  BY <1>2, <1>3, <1>8, KeptGoing

LEMMA FinalIs ==
    ASSUME NEW names
    PROVE  /\ AllFit(Final, names) /\ Len(Final) = 2
           /\ AllFit(<<Bare("Return", 0)>>, names) /\ Len(<<Bare("Return", 0)>>) = 1
<1>1. \A op \in {"LoadConst", "Return"} :
         /\ Bare(op, 0) \in BareInstr /\ Bare(op, 0).op = op /\ Bare(op, 0).name = NoName
    BY DEF Bare, BareInstr, Ops
<1>2. ASSUME NEW op \in {"LoadConst", "Return"}
      PROVE  Fits(Bare(op, 0), names)
    BY <1>1 DEF Fits, Symbolic
<1>3. PICK x, y : x = Bare("LoadConst", 0) /\ y = Bare("Return", 0)
    OBVIOUS
<1>4. x \in BareInstr /\ y \in BareInstr /\ Fits(x, names) /\ Fits(y, names)
    BY <1>1, <1>2, <1>3
<1>5. Final = <<x, y>>
    BY <1>3 DEF Final
<1>6. <<x, y>> \in Seq(BareInstr) /\ Len(<<x, y>>) = 2 /\ <<x, y>>[1] = x /\ <<x, y>>[2] = y
    BY <1>4
<1>7. <<y>> \in Seq(BareInstr) /\ Len(<<y>>) = 1 /\ <<y>>[1] = y
    BY <1>4
<1>8. \A i \in 1..2 : i = 1 \/ i = 2
    OBVIOUS
<1>9. \A i \in 1..1 : i = 1
    OBVIOUS
<1>10. \A i \in 1..Len(Final) : Fits(Final[i], names)
    BY <1>4, <1>5, <1>6, <1>8
<1>11. \A i \in 1..Len(<<y>>) : Fits(<<y>>[i], names)
    BY <1>4, <1>7, <1>9
<1>. QED  BY <1>3, <1>5, <1>6, <1>7, <1>10, <1>11 DEF AllFit

LEMMA CodeFits ==
    ASSUME NEW e \in Expr \union {NoExpr}, NEW names
    PROVE  AllFit(Code(e), names) /\ Len(Code(e)) \in Nat
<1>1. Code(e) \in Seq(Loads)
    BY CodeIs
<1>. QED  BY <1>1, LoadsAre DEF AllFit

LEMMA ReturnKeeps ==
    ASSUME IInv, NEW e \in Exprs \union {NoExpr}, ReturnStmt(e)
    PROVE  IInv'
<1>1. PICK fn, names : fn = ShapeIdx /\ names = Last(scopes)
    OBVIOUS
<1>2. /\ Parsing /\ written' = written + 1
      /\ prog' = IF e = NoExpr THEN EmitNoLine(prog, Final, todo)
                 ELSE EmitNoLine(Emit(prog, Code(e), todo), <<Bare("Return", 0)>>, todo)
      /\ UNCHANGED <<scopes, ranges, shapes, stacks, todo, globals, status>>
    BY DEF ReturnStmt, Write
<1>3. /\ Going(prog, todo, stacks, shapes, scopes, ranges, globals, fn)
      /\ fn \in Nat /\ written \in Nat /\ prog \in Seq(Instr) /\ todo \in Seq(Open)
    BY <1>1, <1>2, Now
<1>4. e \in Expr \union {NoExpr}
    BY CodegenAssumption
<1>5. Continues(prog, prog', fn, names)
    <2>1. CASE e = NoExpr
        <3>1. Continues(prog, EmitNoLine(prog, Final, todo), fn, names)
            BY <1>1, <1>3, EmittedIs, FinalIs DEF Lengthens
        <3>. QED  BY <1>2, <2>1, <3>1
    <2>2. CASE e # NoExpr
        <3>1. PICK q : q = Emit(prog, Code(e), todo)
            OBVIOUS
        <3>2. Continues(prog, q, fn, names) /\ q \in Seq(Instr)
            BY <1>1, <1>3, <1>4, <3>1, EmittedIs, CodeFits DEF Lengthens
        <3>3. Continues(q, EmitNoLine(q, <<Bare("Return", 0)>>, todo), fn, names)
            BY <1>1, <1>3, <3>2, EmittedIs, FinalIs DEF Lengthens
        <3>. QED  BY <1>2, <1>3, <2>2, <3>1, <3>2, <3>3, ContinuesOn
    <2>. QED  BY <2>1, <2>2
<1>6. Going(prog', todo, stacks, shapes, scopes, ranges, globals, fn)
    BY <1>1, <1>3, <1>5, GoingOn
<1>7. Going(prog', todo', stacks', shapes', scopes', ranges', globals', fn)
    BY <1>2, <1>6
<1>. QED  BY <1>2, <1>3, <1>7, KeptGoing

LEMMA JumpKeeps ==
    ASSUME IInv, NEW w \in {"break", "continue"}, NEW piece \in Nat, JumpStmt(w, piece)
    PROVE  IInv'
<1>1. CASE Last(stacks[w]) = NoPos
    BY <1>1, RejectedKeeps DEF JumpStmt
<1>2. CASE Last(stacks[w]) # NoPos
    <2>1. PICK fn, names, of : fn = ShapeIdx /\ names = Last(scopes) /\ of = LoopNow.of
        OBVIOUS
    <2>2. /\ Parsing /\ written' = written + 1
          /\ prog' = Postponed(prog, "Jump", todo, of, piece)
          /\ stacks' = [stacks EXCEPT ![w] = Append(@, Here(prog))]
          /\ UNCHANGED <<scopes, ranges, shapes, todo, globals, status>>
        BY <1>2, <2>1 DEF JumpStmt, Write
    <2>3. /\ Going(prog, todo, stacks, shapes, scopes, ranges, globals, fn)
          /\ fn \in Nat /\ written \in Nat /\ prog \in Seq(Instr) /\ todo \in Seq(Open)
        BY <2>1, <2>2, Now
    <2>4. of \in Nat
        BY <2>1, <2>3, LoopNowIs
    <2>5. /\ Continues(prog, Postponed(prog, "Jump", todo, of, piece), fn, names)
          /\ Len(prog) + 1 \in Jumps(Postponed(prog, "Jump", todo, of, piece))
        BY <2>1, <2>3, <2>4, PostponedIs DEF Posted, Lengthens
    <2>6. Going(prog', todo, stacks, shapes, scopes, ranges, globals, fn)
        BY <2>1, <2>2, <2>3, <2>5, GoingOn
    <2>7. PICK x : x = Len(prog) + 1
        OBVIOUS
    <2>8. x \in Jumps(prog') /\ w \in Which /\ w # "if" /\ x = Here(prog)
        BY <2>2, <2>5, <2>7 DEF Which, Here
    <2>9. Going(prog', todo, [stacks EXCEPT ![w] = Append(@, x)], shapes, scopes, ranges,
                globals, fn)
        BY <1>2, <2>6, <2>8, GoingOneMore
    <2>10. Going(prog', todo', stacks', shapes', scopes', ranges', globals', fn)
        BY <2>2, <2>8, <2>9
    <2>11. written' \in Nat /\ UNCHANGED status
        BY <2>2, <2>3
    <2>. QED  BY <2>10, <2>11, KeptGoing
<1>. QED  BY <1>1, <1>2

LEMMA BreaksKeep ==
    ASSUME IInv, BreakStmt \/ ContinueStmt
    PROVE  IInv'
<1>1. (IF LoopNow.kind = "for" THEN 3 ELSE 1) \in Nat
    OBVIOUS
<1>. QED  BY <1>1, PastIsNat, JumpKeeps DEF BreakStmt, ContinueStmt

-----------------------------------------------------------------------------
(* Jumps that are patched, and the stacks they are taken from.               *)
LEMMA Patching ==
    ASSUME NEW p \in Seq(Instr), NEW q, NEW fn, NEW names, Continues(p, q, fn, names),
           NEW froms, \A i \in froms : i >= 0 => i \in Jumps(p), NEW to \in Int
    PROVE  /\ Continues(p, Patched(q, froms, to), fn, names)
           /\ Len(Patched(q, froms, to)) = Len(q)
<1>1. q \in Seq(Instr)
    BY DEF Continues
<1>2. \A i \in Jumps(p) : i \in 1..Len(p)
    BY DEF Jumps
<1>3. ASSUME NEW i \in froms, i \in 1..Len(q)
      PROVE  i \in Jumps(q)
    <2>1. i >= 0
        BY <1>3
    <2>2. i \in Jumps(p)
        BY <2>1
    <2>. QED  BY <1>2, <2>2, JumpsStay
<1>4. Continues(q, Patched(q, froms, to), fn, names) /\ Len(Patched(q, froms, to)) = Len(q)
    BY <1>1, <1>3, PatchContinues
<1>. QED  BY <1>4, ContinuesOn

LEMMA ContinuesSelf ==
    ASSUME NEW p \in Seq(Instr), NEW fn, NEW names
    PROVE  Continues(p, p, fn, names)
<1>1. Len(p) \in Nat
    BY LenProperties
<1>2. PICK n : n = Len(p)
    OBVIOUS
<1>3. n >= n /\ \A i \in (n + 1)..n : FALSE
    BY <1>1, <1>2
<1>. QED  BY <1>2, <1>3 DEF Continues

LEMMA ContinuesMore ==
    ASSUME NEW p \in Seq(Instr), NEW q, NEW fn, NEW s \in Seq(Ident), Continues(p, q, fn, s),
           NEW r \in Seq(Ident), Grows(s, r), Distinct(r)
    PROVE  Continues(p, q, fn, r)
<1>1. \A b : Fits(b, s) => Fits(b, r)
    BY FitsMore
<1>. QED  BY <1>1 DEF Continues

LEMMA StacksBegun ==
    ASSUME NEW st \in [Which -> Seq(Place)], NEW e \in Open, NEW su,
           \/ e.kind = "if" /\ su = [st EXCEPT !["if"] = Begun(@)]
           \/ /\ e.kind \in {"while", "for"}
              /\ su = [st EXCEPT !["break"] = Begun(@), !["continue"] = Begun(@)]
    PROVE  Pushed(st, su, e)
<1>1. \A w \in Which : Begun(st[w]) \in Seq(Place)
    <2>. TAKE w \in Which
    <2>1. st[w] \in Seq(Place) /\ Begins \in Place
        BY PlacesAre DEF Place
    <2>. QED  BY <2>1, AppendIs DEF Begun
<1>2. /\ "if" \in Which /\ "break" \in Which /\ "continue" \in Which
      /\ \A w \in Which : w = "if" \/ w = "break" \/ w = "continue"
    BY DEF Which
<1>3. CASE e.kind = "if" /\ su = [st EXCEPT !["if"] = Begun(@)]
    <2>1. /\ su \in [Which -> Seq(Place)] /\ su["if"] = Begun(st["if"])
          /\ \A w \in Which : w # "if" => su[w] = st[w]
        BY <1>1, <1>2, <1>3
    <2>. QED  BY <1>3, <2>1 DEF Pushed, Marked, MarkedBy, Begun
<1>4. CASE /\ e.kind \in {"while", "for"}
           /\ su = [st EXCEPT !["break"] = Begun(@), !["continue"] = Begun(@)]
    <2>1. /\ su \in [Which -> Seq(Place)] /\ su["break"] = Begun(st["break"])
          /\ su["continue"] = Begun(st["continue"]) /\ su["if"] = st["if"]
        BY <1>1, <1>2, <1>4
    <2>. QED  BY <1>2, <1>4, <2>1 DEF Pushed, Marked, MarkedBy, Begun
<1>. QED  BY <1>3, <1>4

LEMMA StacksEnded ==
    ASSUME NEW p, NEW t, NEW st, NEW sh, NEW ss, NEW rs, NEW gs, NEW f,
           Going(p, t, st, sh, ss, rs, gs, f), NEW su,
           \/ Last(t).kind = "if" /\ su = [st EXCEPT !["if"] = Ended(@)]
           \/ /\ Last(t).kind \in {"while", "for"}
              /\ su = [st EXCEPT !["break"] = Ended(@), !["continue"] = Ended(@)]
    PROVE  Popped(t, st, su)
<1>1. st \in [Which -> Seq(Place)]
    BY DEF Going, State
<1>2. /\ "if" \in Which /\ "break" \in Which /\ "continue" \in Which
      /\ \A w \in Which : w = "if" \/ w = "break" \/ w = "continue"
    BY DEF Which
<1>3. \A w \in Which : Last(t).kind # "fun" /\ Last(t).kind \in MarkedBy(w) =>
                          Ended(st[w]) \in Seq(Place)
    BY SegmentIs
<1>4. CASE Last(t).kind = "if" /\ su = [st EXCEPT !["if"] = Ended(@)]
    <2>1. Ended(st["if"]) \in Seq(Place)
        BY <1>2, <1>3, <1>4 DEF MarkedBy
    <2>2. /\ su \in [Which -> Seq(Place)] /\ su["if"] = Ended(st["if"])
          /\ \A w \in Which : w # "if" => su[w] = st[w]
        BY <1>1, <1>2, <1>4, <2>1
    <2>. QED  BY <1>4, <2>2 DEF Popped, MarkedBy
<1>5. CASE /\ Last(t).kind \in {"while", "for"}
           /\ su = [st EXCEPT !["break"] = Ended(@), !["continue"] = Ended(@)]
    <2>1. Ended(st["break"]) \in Seq(Place) /\ Ended(st["continue"]) \in Seq(Place)
        BY <1>2, <1>3, <1>5 DEF MarkedBy
    <2>2. /\ su \in [Which -> Seq(Place)] /\ su["break"] = Ended(st["break"])
          /\ su["continue"] = Ended(st["continue"]) /\ su["if"] = st["if"]
        BY <1>1, <1>2, <1>5, <2>1
    <2>. QED  BY <1>2, <1>5, <2>2 DEF Popped, MarkedBy
<1>. QED  BY <1>4, <1>5

Changed(t, piece, jump) == Front(t) \o <<[Last(t) EXCEPT !.piece = piece, !.jump = jump]>>

Entry(t, u, jump) ==
    /\ u \in Seq(Open) /\ u[Len(u)].jump = jump
    /\ Last(t).kind # "for" => Alike(t, u)

LEMMA EntryChanged ==
    ASSUME NEW t \in Seq(Open), Len(t) > 0, NEW piece \in Nat, NEW jump \in Nat \union {NoPos}
    PROVE  Entry(t, Changed(t, piece, jump), jump)
<1>0. PICK u : u = Changed(t, piece, jump)
    OBVIOUS
<1>1. PICK e : e = [Last(t) EXCEPT !.piece = piece, !.jump = jump]
    OBVIOUS
<1>2. Last(t) = t[Len(t)] /\ Last(t) \in Open /\ Len(t) \in Nat
    BY EndsAre, LenProperties
<1>3. /\ e \in Open /\ e.jump = jump /\ e.kind = Last(t).kind /\ e.begin = Last(t).begin
      /\ e.of = Last(t).of /\ e.i1 = Last(t).i1 /\ e.i2 = Last(t).i2 /\ e.name = Last(t).name
    BY <1>1, <1>2 DEF Open, Pos
<1>4. /\ u \in Seq(Open) /\ Len(u) = Len(t)
      /\ \A i \in 1..Len(t) : u[i] = IF i = Len(t) THEN e ELSE t[i]
    <2>1. /\ Front(t) \o <<e>> \in Seq(Open) /\ Len(Front(t) \o <<e>>) = Len(t)
          /\ \A i \in 1..Len(t) : (Front(t) \o <<e>>)[i] = IF i = Len(t) THEN e ELSE t[i]
        BY <1>3, FrontThen
    <2>2. u = Front(t) \o <<e>>
        BY <1>0, <1>1 DEF Changed
    <2>. QED  BY <2>1, <2>2
<1>5. u[Len(u)] = e
    <2>1. Len(t) \in 1..Len(t)
        BY <1>2
    <2>. QED  BY <1>4, <2>1
<1>6. ASSUME Last(t).kind # "for"
      PROVE  Alike(t, u)
    <2>1. ASSUME NEW k \in 1..Len(t)
          PROVE  /\ u[k].kind = t[k].kind /\ u[k].begin = t[k].begin /\ u[k].of = t[k].of
                 /\ u[k].i1 = t[k].i1 /\ u[k].i2 = t[k].i2 /\ u[k].name = t[k].name
                 /\ t[k].kind = "for" => u[k].piece = t[k].piece
                 /\ k < Len(t) => u[k].jump = t[k].jump
        <3>1. CASE k = Len(t)
            <4>1. u[k] = e
                BY <1>4, <3>1
            <4>2. t[k] = Last(t)
                BY <1>2, <3>1
            <4>3. ~(k < k)
                OBVIOUS
            <4>. QED  BY <1>3, <1>6, <3>1, <4>1, <4>2, <4>3
        <3>2. CASE k # Len(t)
            BY <1>4, <3>2
        <3>. QED  BY <3>1, <3>2
    <2>. QED  BY <1>4, <2>1 DEF Alike
<1>. QED  BY <1>0, <1>3, <1>4, <1>5, <1>6 DEF Entry

-----------------------------------------------------------------------------
(* if and while.                                                             *)
LEMMA BegunIs ==
    ASSUME IInv, Parsing, NEW kind \in {"if", "while"}, NEW piece \in Nat, NEW later \in Nat,
           NEW target \in Nat, NEW c, c \in Expr,
           NEW open, open = Append(todo, New(kind, piece)),
           NEW q, q = Emit(prog, Code(c), open),
           prog' = Postponed(q, "JumpUnless", open, written + 1, target),
           todo' = Append(todo, [New(kind, later) EXCEPT !.jump = Here(q)]),
           \/ kind = "if" /\ stacks' = [stacks EXCEPT !["if"] = Begun(@)]
           \/ kind = "while" /\ stacks' = LoopBegun,
           written' = written + 1, UNCHANGED <<scopes, ranges, shapes, globals, status>>
    PROVE  IInv'
<1>1. PICK fn, names, n : fn = ShapeIdx /\ names = Last(scopes) /\ n = Len(prog)
    OBVIOUS
<1>2. /\ Going(prog, todo, stacks, shapes, scopes, ranges, globals, fn)
      /\ fn \in Nat /\ written \in Nat /\ prog \in Seq(Instr) /\ n \in Nat /\ todo \in Seq(Open)
    BY <1>1, Now
<1>3. stacks \in [Which -> Seq(Place)]
    BY <1>2 DEF Going, State
<1>4. open \in Seq(Open)
    <2>1. New(kind, piece) \in Open
        BY <1>1, <1>2, NewIs
    <2>. QED  BY <1>2, <2>1, AppendIs
<1>5. Continues(prog, q, fn, names) /\ q \in Seq(Instr) /\ Len(q) = n + Len(Code(c))
    <2>1. AllFit(Code(c), names)
        BY CodeFits
    <2>2. Lengthens(prog, q, Len(Code(c)), fn, names)
        BY <1>1, <1>2, <1>4, <2>1, EmittedIs
    <2>. QED  BY <1>1, <2>2 DEF Lengthens
<1>6. Len(Code(c)) \in Nat
    BY CodeFits
<1>7. PICK m : m = Len(q) + 1
    OBVIOUS
<1>8. m \in Nat /\ m = Here(q)
    BY <1>2, <1>5, <1>6, <1>7 DEF Here
<1>9. /\ Continues(q, prog', fn, names) /\ Len(prog') = Len(q) + 1 /\ m \in Jumps(prog')
    <2>1. written + 1 \in Nat
        BY <1>2
    <2>2. Posted(q, prog', fn, open, names)
        BY <1>1, <1>2, <1>4, <1>5, <2>1, PostponedIs
    <2>. QED  BY <1>7, <2>2 DEF Posted, Lengthens
<1>10. Going(prog', todo, stacks, shapes, scopes, ranges, globals, fn)
    <2>1. Continues(prog, prog', fn, names)
        BY <1>2, <1>5, <1>9, ContinuesOn
    <2>. QED  BY <1>1, <1>2, <2>1, GoingOn
<1>11. PICK e : e = [New(kind, later) EXCEPT !.jump = m]
    OBVIOUS
<1>12. e \in Open /\ e.kind = kind /\ e.begin = n + 1 /\ e.jump = m
    <2>1. /\ New(kind, later) \in Open /\ New(kind, later).kind = kind
          /\ New(kind, later).begin = n + 1
        BY <1>1, <1>2, NewIs
    <2>. QED  BY <1>8, <1>11, <2>1 DEF Open, Pos
<1>13. Pushed(stacks, stacks', e)
    <2>1. CASE kind = "if"
        BY <1>3, <1>12, <2>1, StacksBegun
    <2>2. CASE kind = "while"
        BY <1>3, <1>12, <2>2, StacksBegun DEF LoopBegun
    <2>. QED  BY <2>1, <2>2
<1>14. Len(prog) <= Len(prog')
    BY <1>1, <1>2, <1>5, <1>6, <1>9
<1>15. \E z : Going(prog', Append(todo, e), stacks', shapes, scopes, ranges, globals, z)
    <2>1. e.begin = Len(prog) + 1 /\ Opening(prog', e, fn)
        BY <1>1, <1>9, <1>12 DEF Opening
    <2>. QED  BY <1>2, <1>10, <1>12, <1>13, <1>14, <2>1, GoingPushed
<1>16. PICK z : Going(prog', todo', stacks', shapes', scopes', ranges', globals', z)
    BY <1>8, <1>11, <1>15
<1>17. written' \in Nat
    BY <1>2
<1>. QED  BY <1>16, <1>17, KeptGoing

LEMMA IfBeginKeeps ==
    ASSUME IInv, NEW e \in Exprs, IfBegin(e)
    PROVE  IInv'
<1>1. PICK open, q : open = Append(todo, New("if", Clause(1))) /\ q = Emit(prog, Code(e), open)
    OBVIOUS
<1>2. /\ Parsing /\ written' = written + 1
      /\ prog' = Postponed(q, "JumpUnless", open, written + 1, Clause(2))
      /\ todo' = Append(todo, [New("if", Clause(1)) EXCEPT !.jump = Here(q)])
      /\ stacks' = [stacks EXCEPT !["if"] = Begun(@)]
      /\ UNCHANGED <<scopes, ranges, shapes, globals, status>>
    BY <1>1 DEF IfBegin, Write
<1>3. e \in Expr /\ Clause(1) \in Nat /\ Clause(2) \in Nat
    BY CodegenAssumption, PastIsNat
<1>. QED  BY <1>1, <1>2, <1>3, BegunIs

LEMMA WhileBeginKeeps ==
    ASSUME IInv, NEW e \in Exprs, WhileBegin(e)
    PROVE  IInv'
<1>1. PICK open, q : open = Append(todo, New("while", 1)) /\ q = Emit(prog, Code(e), open)
    OBVIOUS
<1>2. /\ Parsing /\ written' = written + 1
      /\ prog' = Postponed(q, "JumpUnless", open, written + 1, Past)
      /\ todo' = Append(todo, [New("while", 2) EXCEPT !.jump = Here(q)])
      /\ stacks' = LoopBegun
      /\ UNCHANGED <<scopes, ranges, shapes, globals, status>>
    BY <1>1 DEF WhileBegin, Write
<1>3. e \in Expr /\ Past \in Nat
    BY CodegenAssumption, PastIsNat
<1>. QED  BY <1>1, <1>2, <1>3, BegunIs

LEMMA NextClauseKeeps ==
    ASSUME IInv, NEW c, c = <<>> \/ \E e \in Exprs : c = Code(e), NextClause(c)
    PROVE  IInv'
<1>1. PICK fn, names, n, j, of, piece :
         /\ fn = ShapeIdx /\ names = Last(scopes) /\ n = Len(prog) /\ j = Cur.jump
         /\ of = Cur.of /\ piece = Cur.piece
    OBVIOUS
<1>2. PICK p, open, q, r :
         /\ p = Postponed(prog, "Jump", todo, of, Past) /\ open = AtPiece(piece + 1)
         /\ q = Patched(p, {j}, Here(p)) /\ r = Emit(q, c, open)
    OBVIOUS
<1>3. /\ Parsing /\ written' = written + 1 /\ Cur.kind = "if" /\ j # NoPos
      /\ stacks' = [stacks EXCEPT !["if"] = Append(@, Here(prog))]
      /\ prog' = IF c = <<>> THEN r ELSE Postponed(r, "JumpUnless", open, of, piece + 2)
      /\ todo' = Front(todo) \o <<[Cur EXCEPT !.piece = @ + 1,
                                              !.jump = IF c = <<>> THEN NoPos ELSE Here(r)]>>
      /\ UNCHANGED <<scopes, ranges, shapes, globals, status>>
    BY <1>1, <1>2 DEF NextClause, Write
<1>4. /\ Going(prog, todo, stacks, shapes, scopes, ranges, globals, fn)
      /\ fn \in Nat /\ written \in Nat /\ prog \in Seq(Instr) /\ n \in Nat /\ todo \in Seq(Open)
    BY <1>1, <1>3, Now
<1>5. /\ Len(todo) > 0 /\ Cur = Last(todo) /\ Cur \in Open /\ j \in Jumps(prog)
      /\ of \in Nat /\ piece \in Nat
    <2>1. Len(todo) > 0 /\ Last(todo) \in Open
        BY <1>4, GoingIs
    <2>2. Last(todo).jump # NoPos => Last(todo).jump \in Jumps(prog)
        BY <1>4, LastIs
    <2>. QED  BY <1>1, <1>3, <2>1, <2>2 DEF Cur, Open
<1>6. AllFit(c, names) /\ Len(c) \in Nat
    <2>1. CASE c = <<>>
        <3>1. c \in Seq(BareInstr) /\ Len(c) = 0
            BY <2>1
        <3>. QED  BY <3>1 DEF AllFit
    <2>2. CASE c # <<>>
        <3>1. PICK e \in Exprs : c = Code(e)
            BY <2>2
        <3>2. e \in Expr
            BY CodegenAssumption
        <3>. QED  BY <3>1, <3>2, CodeFits
    <2>. QED  BY <2>1, <2>2
<1>7. /\ Continues(prog, p, fn, names) /\ p \in Seq(Instr)
      /\ Len(p) = n + 1 /\ n + 1 \in Jumps(p)
    <2>1. Past \in Nat
        BY PastIsNat
    <2>2. Posted(prog, p, fn, todo, names)
        BY <1>1, <1>2, <1>4, <1>5, <2>1, PostponedIs
    <2>. QED  BY <1>1, <2>2 DEF Posted, Lengthens
<1>8. Continues(p, q, fn, names) /\ Len(q) = Len(p) /\ q \in Seq(Instr)
    <2>1. j \in Jumps(p)
        BY <1>4, <1>5, <1>7, JumpsStay DEF Jumps
    <2>2. \A i \in {j} : i \in 1..Len(p) => i \in Jumps(p)
        BY <2>1
    <2>3. Here(p) \in Int
        BY <1>4, <1>7 DEF Here
    <2>4. \A i \in {j} : i >= 0 => i \in Jumps(p)
        BY <2>1
    <2>5. Continues(p, p, fn, names)
        BY <1>7, ContinuesSelf
    <2>6. Continues(p, q, fn, names) /\ Len(q) = Len(p)
        BY <1>2, <1>7, <2>3, <2>4, <2>5, Patching
    <2>. QED  BY <2>6 DEF Continues
<1>9. open \in Seq(Open)
    <2>1. open = Changed(todo, piece + 1, j)
        <3>1. [Last(todo) EXCEPT !.piece = piece + 1]
                = [Last(todo) EXCEPT !.piece = piece + 1, !.jump = j]
            BY <1>1, <1>5 DEF Open
        <3>. QED  BY <1>2, <1>5, <3>1 DEF AtPiece, Changed
    <2>2. j \in Nat \union {NoPos} /\ piece + 1 \in Nat
        BY <1>4, <1>5, InstrIs DEF Jumps
    <2>. QED  BY <1>4, <1>5, <2>1, <2>2, EntryChanged DEF Entry
<1>10. Continues(q, r, fn, names) /\ r \in Seq(Instr) /\ Len(r) = Len(q) + Len(c)
    <2>1. Lengthens(q, r, Len(c), fn, names)
        BY <1>1, <1>2, <1>4, <1>6, <1>8, <1>9, EmittedIs
    <2>. QED  BY <2>1 DEF Lengthens
<1>11. PICK m : m = Len(r) + 1
    OBVIOUS
<1>12. m \in Nat /\ m = Here(r)
    BY <1>4, <1>6, <1>7, <1>8, <1>10, <1>11 DEF Here
<1>13. Continues(r, prog', fn, names) /\ (c # <<>> => m \in Jumps(prog'))
    <2>1. CASE c = <<>>
        <3>1. r = prog'
            BY <1>3, <2>1
        <3>. QED  BY <1>10, <2>1, <3>1, ContinuesSelf
    <2>2. CASE c # <<>>
        <3>1. piece + 2 \in Nat
            BY <1>5
        <3>2. Posted(r, prog', fn, open, names)
            BY <1>1, <1>3, <1>4, <1>5, <1>9, <1>10, <2>2, <3>1, PostponedIs
        <3>. QED  BY <1>11, <2>2, <3>2 DEF Posted, Lengthens
    <2>. QED  BY <2>1, <2>2
<1>14. Continues(p, prog', fn, names)
    BY <1>7, <1>8, <1>10, <1>13, ContinuesOn
<1>15. Going(prog', todo, stacks, shapes, scopes, ranges, globals, fn)
    <2>1. Continues(prog, prog', fn, names)
        BY <1>4, <1>7, <1>14, ContinuesOn
    <2>. QED  BY <1>1, <1>4, <2>1, GoingOn
<1>16. n + 1 \in Jumps(prog') /\ n + 1 = Here(prog)
    <2>1. n + 1 \in Jumps(prog')
        BY <1>7, <1>14, JumpsStay DEF Jumps
    <2>. QED  BY <1>1, <2>1 DEF Here
<1>17. Going(prog', todo, stacks', shapes, scopes, ranges, globals, fn)
    <2>1. "if" \in Which /\ Last(todo).kind = "if"
        BY <1>3, <1>5 DEF Which
    <2>2. Going(prog', todo, [stacks EXCEPT !["if"] = Append(@, n + 1)], shapes, scopes, ranges,
                globals, fn)
        BY <1>15, <1>16, <2>1, GoingOneMore
    <2>. QED  BY <1>3, <1>16, <2>2
<1>18. PICK k : k = IF c = <<>> THEN NoPos ELSE m
    OBVIOUS
<1>19. /\ todo' = Changed(todo, piece + 1, k)
       /\ k \in Nat \union {NoPos} /\ piece + 1 \in Nat
    BY <1>1, <1>3, <1>5, <1>12, <1>18 DEF Cur, Changed
<1>20. /\ todo' \in Seq(Open) /\ todo'[Len(todo')].jump = k /\ Alike(todo, todo')
    <2>1. Last(todo).kind # "for"
        BY <1>3, <1>5
    <2>. QED  BY <1>4, <1>5, <1>19, <2>1, EntryChanged DEF Entry
<1>21. k # NoPos => k \in Jumps(prog')
    BY <1>13, <1>18
<1>22. Going(prog', todo', stacks', shapes, scopes, ranges, globals, fn)
    BY <1>17, <1>20, <1>21, GoingAlike
<1>23. Going(prog', todo', stacks', shapes', scopes', ranges', globals', fn)
    BY <1>3, <1>22
<1>24. written' \in Nat /\ UNCHANGED status
    BY <1>3, <1>4
<1>. QED  BY <1>23, <1>24, KeptGoing

LEMMA CurIs ==
    ASSUME NEW p, NEW t, NEW st, NEW sh, NEW ss, NEW rs, NEW gs, NEW f,
           Going(p, t, st, sh, ss, rs, gs, f)
    PROVE  /\ p \in Seq(Instr) /\ Len(p) \in Nat /\ t \in Seq(Open) /\ Len(t) > 0
           /\ Last(t) \in Open /\ Last(t).of \in Nat /\ Last(t).begin \in Nat
           /\ Last(t).jump \in Int /\ Last(t).i1 \in Nat /\ Last(t).i2 \in Nat
           /\ \A i \in {Last(t).jump} : i >= 0 => i \in Jumps(p)
<1>1. p \in Seq(Instr) /\ Len(p) \in Nat /\ t \in Seq(Open)
    BY LenProperties DEF Going, State
<1>2. Len(t) > 0 /\ Last(t) \in Open
    BY GoingIs
<1>3. Last(t).jump # NoPos => Last(t).jump \in Jumps(p)
    BY LastIs
<1>4. Last(t).jump = NoPos => ~(Last(t).jump >= 0)
    BY DEF NoPos
<1>5. /\ Last(t).of \in Nat /\ Last(t).begin \in Nat /\ Last(t).i1 \in Nat /\ Last(t).i2 \in Nat
      /\ Last(t).jump \in Int
    BY <1>2 DEF Open, Pos, NoPos
<1>. QED  BY <1>1, <1>2, <1>3, <1>4, <1>5

LEMMA IfEndKeeps ==
    ASSUME IInv, IfEnd
    PROVE  IInv'
<1>1. PICK fn, names, froms : /\ fn = ShapeIdx /\ names = Last(scopes)
                              /\ froms = Segment(stacks["if"]) \union ({Cur.jump} \ {NoPos})
    OBVIOUS
<1>2. /\ Parsing /\ Cur.kind = "if" /\ prog' = Patched(prog, froms, Here(prog))
      /\ stacks' = [stacks EXCEPT !["if"] = Ended(@)] /\ todo' = Front(todo)
      /\ UNCHANGED <<scopes, ranges, shapes, globals, written, status>>
    BY <1>1 DEF IfEnd
<1>3. Going(prog, todo, stacks, shapes, scopes, ranges, globals, fn) /\ written \in Nat
    BY <1>1, <1>2, Now
<1>4. /\ prog \in Seq(Instr) /\ Len(prog) \in Nat
      /\ \A i \in {Last(todo).jump} : i >= 0 => i \in Jumps(prog)
    BY <1>3, CurIs
<1>5. Last(todo).kind = "if" /\ Cur = Last(todo)
    BY <1>2 DEF Cur
<1>6. \A i \in froms : i >= 0 => i \in Jumps(prog)
    <2>1. "if" \in Which /\ "if" \in MarkedBy("if") /\ Last(todo).kind # "fun"
        BY <1>5 DEF Which, MarkedBy
    <2>2. \A i \in Segment(stacks["if"]) : i >= 0 => i \in Jumps(prog)
        BY <1>3, <1>5, <2>1, SegmentIs
    <2>. QED  BY <1>1, <1>4, <1>5, <2>2
<1>7. Continues(prog, prog', fn, names)
    <2>1. Here(prog) \in Int /\ Continues(prog, prog, fn, names)
        BY <1>4, ContinuesSelf DEF Here
    <2>. QED  BY <1>2, <1>4, <1>6, <2>1, Patching
<1>8. Going(prog, todo', stacks', shapes, scopes, ranges, globals, fn)
    <2>1. Popped(todo, stacks, stacks')
        BY <1>2, <1>3, <1>5, StacksEnded
    <2>. QED  BY <1>2, <1>3, <1>5, <2>1, GoingPopped
<1>9. Going(prog', todo', stacks', shapes, scopes, ranges, globals, fn)
    BY <1>1, <1>7, <1>8, GoingOn
<1>10. Going(prog', todo', stacks', shapes', scopes', ranges', globals', fn)
    BY <1>2, <1>9
<1>11. written' \in Nat /\ UNCHANGED status
    BY <1>2, <1>3
<1>. QED  BY <1>10, <1>11, KeptGoing

(* The jump back at the end of a loop, and the jumps that are patched there. *)
LEMMA LoopPatched ==
    ASSUME IInv, Parsing, Cur.kind \in {"while", "for"},
           NEW fn, NEW names, fn = ShapeIdx, names = Last(scopes),
           NEW p, p = Postponed(prog, "Jump", AtPiece(4), Cur.of, 1)
    PROVE  /\ Posted(prog, p, fn, AtPiece(4), names) /\ p \in Seq(Instr) /\ Len(p) \in Nat
           /\ Here(prog) \in Int /\ Here(p) \in Int /\ Cur.begin \in Int
           /\ \A froms \in {{Here(prog)}, {Cur.jump}, Segment(stacks["break"]),
                            Segment(stacks["continue"])} :
                 \A i \in froms : i >= 0 => i \in Jumps(p)
           /\ Popped(todo, stacks, LoopEnded)
<1>1. /\ Going(prog, todo, stacks, shapes, scopes, ranges, globals, fn) /\ written \in Nat
      /\ fn \in Nat
    BY Now
<1>2. /\ prog \in Seq(Instr) /\ Len(prog) \in Nat /\ todo \in Seq(Open) /\ Len(todo) > 0
      /\ Last(todo) \in Open /\ Last(todo).of \in Nat /\ Last(todo).begin \in Nat
      /\ Last(todo).jump \in Int
      /\ \A i \in {Last(todo).jump} : i >= 0 => i \in Jumps(prog)
    BY <1>1, CurIs
<1>3. Cur = Last(todo)
    BY DEF Cur
<1>4. AtPiece(4) \in Seq(Open)
    <2>1. [Last(todo) EXCEPT !.piece = 4] \in Open
        BY <1>2 DEF Open
    <2>. QED  BY <1>2, <1>3, <2>1, FrontThen DEF AtPiece
<1>5. Posted(prog, p, fn, AtPiece(4), names)
    BY <1>1, <1>2, <1>3, <1>4, PostponedIs
<1>6. Continues(prog, p, fn, names) /\ p \in Seq(Instr) /\ Len(p) = Len(prog) + 1
      /\ Len(prog) + 1 \in Jumps(p)
    BY <1>5 DEF Posted, Lengthens
<1>7. \A i \in Jumps(prog) : i \in Jumps(p)
    BY <1>2, <1>6, JumpsStay DEF Jumps
<1>8. \A i \in {Here(prog)} : i \in Jumps(p)
    BY <1>6 DEF Here
<1>9. \A i \in {Cur.jump} : i >= 0 => i \in Jumps(p)
    BY <1>2, <1>3, <1>7
<1>10. ASSUME NEW w \in {"break", "continue"}
       PROVE  \A i \in Segment(stacks[w]) : i >= 0 => i \in Jumps(p)
    <2>1. w \in Which /\ Last(todo).kind \in MarkedBy(w) /\ Last(todo).kind # "fun"
        BY <1>3 DEF Which, MarkedBy
    <2>2. \A i \in Segment(stacks[w]) : i >= 0 => i \in Jumps(prog)
        BY <1>1, <2>1, SegmentIs
    <2>. QED  BY <1>7, <2>2
<1>11. Popped(todo, stacks, LoopEnded)
    BY <1>1, <1>3, StacksEnded DEF LoopEnded
<1>12. Here(prog) \in Int /\ Here(p) \in Int /\ Cur.begin \in Int /\ Len(p) \in Nat
    BY <1>2, <1>3, <1>6 DEF Here
<1>. QED  BY <1>5, <1>6, <1>8, <1>9, <1>10, <1>11, <1>12

LEMMA WhileEndKeeps ==
    ASSUME IInv, WhileEnd
    PROVE  IInv'
<1>1. PICK fn, names, p, q, r :
         /\ fn = ShapeIdx /\ names = Last(scopes)
         /\ p = Postponed(prog, "Jump", AtPiece(4), Cur.of, 1)
         /\ q = Patched(p, {Here(prog)}, Cur.begin)
         /\ r = Patched(q, {Cur.jump} \union Segment(stacks["break"]), Here(p))
    OBVIOUS
<1>2. /\ Parsing /\ Cur.kind = "while"
      /\ prog' = Patched(r, Segment(stacks["continue"]), Cur.begin)
      /\ stacks' = LoopEnded /\ todo' = Front(todo)
      /\ UNCHANGED <<scopes, ranges, shapes, globals, written, status>>
    BY <1>1 DEF WhileEnd
<1>3. Going(prog, todo, stacks, shapes, scopes, ranges, globals, fn) /\ written \in Nat
      /\ prog \in Seq(Instr)
    BY <1>1, <1>2, Now
<1>4. /\ Posted(prog, p, fn, AtPiece(4), names) /\ p \in Seq(Instr) /\ Len(p) \in Nat
      /\ Here(prog) \in Int /\ Here(p) \in Int /\ Cur.begin \in Int
      /\ \A froms \in {{Here(prog)}, {Cur.jump}, Segment(stacks["break"]),
                       Segment(stacks["continue"])} :
            \A i \in froms : i >= 0 => i \in Jumps(p)
      /\ Popped(todo, stacks, LoopEnded)
    BY <1>1, <1>2, LoopPatched
<1>5. Continues(p, p, fn, names)
    BY <1>4, ContinuesSelf
<1>6. Continues(p, q, fn, names)
    BY <1>1, <1>4, <1>5, Patching
<1>7. Continues(p, r, fn, names)
    <2>1. \A i \in {Cur.jump} \union Segment(stacks["break"]) : i >= 0 => i \in Jumps(p)
        BY <1>4
    <2>. QED  BY <1>1, <1>4, <1>6, <2>1, Patching
<1>8. Continues(p, prog', fn, names)
    <2>1. \A i \in Segment(stacks["continue"]) : i >= 0 => i \in Jumps(p)
        BY <1>4
    <2>. QED  BY <1>2, <1>4, <1>7, <2>1, Patching
<1>9. Continues(prog, prog', fn, names)
    BY <1>3, <1>4, <1>8, ContinuesOn DEF Posted, Lengthens
<1>10. Going(prog, todo', stacks', shapes, scopes, ranges, globals, fn)
    <2>1. Last(todo).kind # "fun"
        BY <1>2 DEF Cur
    <2>. QED  BY <1>2, <1>3, <1>4, <2>1, GoingPopped
<1>11. Going(prog', todo', stacks', shapes, scopes, ranges, globals, fn)
    BY <1>1, <1>9, <1>10, GoingOn
<1>12. Going(prog', todo', stacks', shapes', scopes', ranges', globals', fn)
    BY <1>2, <1>11
<1>13. written' \in Nat /\ UNCHANGED status
    BY <1>2, <1>3
<1>. QED  BY <1>12, <1>13, KeptGoing

-----------------------------------------------------------------------------
(* for.                                                                      *)
Heading(p0, p1, p2, p3, fn, names, of, cond) ==
    /\ Continues(p0, p3, fn, names)
    /\ Len(p1) \in Nat /\ Len(p2) \in Nat /\ Len(p3) \in Nat
    /\ Len(p0) <= Len(p1) /\ Len(p1) <= Len(p2) /\ Len(p2) <= Len(p3)
    /\ cond # NoExpr => Len(p1) + 1 \in Jumps(p3)
    /\ \A i \in 1..Len(p3) : i >= Len(p2) + 1 =>
          p3[i].fn = fn /\ InPiece(p3[i], of, 3)

LEMMA HeadingIs ==
    ASSUME NEW p0 \in Seq(Instr), written \in Nat, NEW fn \in Nat, ShapeIdx = fn,
           NEW t \in Seq(Open), NEW e \in Open, NEW d \in Open, d.of = e.of, d.piece = 3,
           NEW names, NEW cond \in Expr \union {NoExpr}, NEW code, AllFit(code, names),
           NEW p1, p1 = Emit(p0, Code(cond), Append(t, e)),
           NEW p2, p2 = IF cond = NoExpr THEN p1
                        ELSE Postponed(p1, "JumpUnless", Append(t, e), e.of, Past),
           NEW p3, p3 = Emit(p2, code, Append(t, d))
    PROVE  Heading(p0, p1, p2, p3, fn, names, e.of, cond)
<1>1. Append(t, e) \in Seq(Open) /\ Append(t, d) \in Seq(Open) /\ e.of \in Nat
    <2>1. e.of \in Nat
        BY DEF Open
    <2>. QED  BY <2>1, AppendIs
<1>2. /\ Continues(p0, p1, fn, names) /\ p1 \in Seq(Instr) /\ Len(p1) \in Nat
      /\ Len(p0) \in Nat /\ Len(p0) <= Len(p1)
    <2>1. AllFit(Code(cond), names) /\ Len(Code(cond)) \in Nat
        BY CodeFits
    <2>2. Lengthens(p0, p1, Len(Code(cond)), fn, names)
        BY <1>1, <2>1, EmittedIs
    <2>3. Len(p0) \in Nat
        BY InstrIs
    <2>4. p1 \in Seq(Instr) /\ Len(p1) = Len(p0) + Len(Code(cond))
        BY <2>2 DEF Lengthens
    <2>5. Len(p1) \in Nat /\ Len(p0) <= Len(p1)
        BY <2>1, <2>3, <2>4
    <2>. QED  BY <2>2, <2>3, <2>4, <2>5 DEF Lengthens
<1>3. /\ Continues(p1, p2, fn, names) /\ p2 \in Seq(Instr) /\ Len(p2) \in Nat
      /\ Len(p1) <= Len(p2) /\ (cond # NoExpr => Len(p1) + 1 \in Jumps(p2))
    <2>1. CASE cond = NoExpr
        <3>1. p2 = p1
            BY <2>1
        <3>2. Continues(p1, p1, fn, names)
            BY <1>2, ContinuesSelf
        <3>. QED  BY <1>2, <2>1, <3>1, <3>2
    <2>2. CASE cond # NoExpr
        <3>1. Past \in Nat
            BY PastIsNat
        <3>2. Posted(p1, p2, fn, Append(t, e), names)
            BY <1>1, <1>2, <2>2, <3>1, PostponedIs
        <3>3. /\ Continues(p1, p2, fn, names) /\ p2 \in Seq(Instr) /\ Len(p2) = Len(p1) + 1
              /\ Len(p1) + 1 \in Jumps(p2)
            BY <3>2 DEF Posted, Lengthens
        <3>. QED  BY <1>2, <3>3
    <2>. QED  BY <2>1, <2>2
<1>4. code \in Seq(BareInstr) /\ Len(code) \in Nat
    BY LenProperties DEF AllFit
<1>5. Emitted(p2, code, fn, Append(t, d), p3)
    <2>1. NoGoal \in Goal /\ written + 1 \in Nat
        BY DEF NoGoal, Goal
    <2>2. p3 = EmitAt(p2, code, fn, Append(t, d), NoGoal, written + 1)
        BY DEF Emit
    <2>3. p2 \in Seq(Instr) /\ code \in Seq(BareInstr) /\ Append(t, d) \in Seq(Open)
        BY <1>1, <1>3, <1>4
    <2>4. Emitted(p2, code, fn, Append(t, d),
                  EmitAt(p2, code, fn, Append(t, d), NoGoal, written + 1))
        BY <2>1, <2>3, EmitIs
    <2>. QED  BY <2>2, <2>4
<1>6. Continues(p2, p3, fn, names) /\ p3 \in Seq(Instr)
    <2>1. Lengthens(p2, p3, Len(code), fn, names)
        BY <1>1, <1>3, EmittedIs
    <2>. QED  BY <2>1 DEF Lengthens
<1>7. /\ Len(p3) = Len(p2) + Len(code)
      /\ \A i \in 1..Len(code) : p3[Len(p2) + i].fn = fn /\ p3[Len(p2) + i].path = PathOf(Append(t, d))
    BY <1>5 DEF Emitted
<1>8. Len(p3) \in Nat /\ Len(p2) <= Len(p3)
    BY <1>3, <1>4, <1>7
<1>9. Continues(p0, p3, fn, names)
    <2>1. Continues(p0, p2, fn, names)
        BY <1>2, <1>3, ContinuesOn
    <2>. QED  BY <1>3, <1>6, <2>1, ContinuesOn
<1>10. ASSUME cond # NoExpr
       PROVE  Len(p1) + 1 \in Jumps(p3)
    <2>1. Len(p1) + 1 \in Jumps(p2)
        BY <1>3, <1>10
    <2>2. Len(p1) + 1 \in 1..Len(p2)
        BY <2>1 DEF Jumps
    <2>. QED  BY <1>3, <1>6, <2>1, <2>2, JumpsStay
<1>11. ASSUME NEW i \in 1..Len(p3), i >= Len(p2) + 1
       PROVE  p3[i].fn = fn /\ InPiece(p3[i], e.of, 3)
    <2>1. i - Len(p2) \in 1..Len(code) /\ Len(p2) + (i - Len(p2)) = i
        <3>1. PICK a, b, c : a = Len(p2) /\ b = Len(code) /\ c = Len(p3)
            OBVIOUS
        <3>2. a \in Nat /\ b \in Nat /\ c = a + b /\ i \in 1..c /\ i >= a + 1
            BY <1>3, <1>4, <1>7, <1>11, <3>1
        <3>3. i - a \in 1..b /\ a + (i - a) = i
            BY <3>2
        <3>. QED  BY <3>1, <3>3
    <2>2. p3[i].fn = fn /\ p3[i].path = PathOf(Append(t, d))
        BY <1>7, <2>1
    <2>3. PICK u, n : u = Append(t, d) /\ n = Len(t) + 1
        OBVIOUS
    <2>4. u \in Seq(Open) /\ Len(u) = n /\ n \in 1..n /\ u[n] = d
        <3>1. Len(t) \in Nat
            BY LenProperties
        <3>. QED  BY <2>3, <3>1, AppendIs
    <2>5. /\ PathOf(u) \in Seq(Goal) /\ Len(PathOf(u)) = n
          /\ PathOf(u)[n].of = d.of /\ PathOf(u)[n].piece = d.piece
        BY <2>4, PathIs
    <2>6. PathOf(u)[n] \in ToSet(PathOf(u))
        BY <2>4, <2>5, MembersAre
    <2>. QED  BY <2>2, <2>3, <2>5, <2>6 DEF InPiece
<1>. QED  BY <1>2, <1>3, <1>8, <1>9, <1>10, <1>11 DEF Heading

LEMMA ForBeginKeeps ==
    ASSUME IInv, NEW h \in Headers, ForBegin(h.init, h.cond, h.post)
    PROVE  IInv'
<1>1. PICK fn, names, mid, ds, cond, code, n :
         /\ fn = ShapeIdx /\ names = Names /\ mid = Declared(names, h.init)
         /\ ds = Declared(mid, h.post) /\ cond = h.cond /\ code = SimpleCode(mid, h.post)
         /\ n = written + 1
    OBVIOUS
<1>2. PICK p0 : p0 = Emit(prog, SimpleCode(names, h.init), todo)
    OBVIOUS
<1>3. PICK e, d : /\ e = [New("for", 1) EXCEPT !.begin = Here(p0)]
                  /\ d = [e EXCEPT !.piece = 3]
    OBVIOUS
<1>4. PICK p1 : p1 = Emit(p0, Code(cond), Append(todo, e))
    OBVIOUS
<1>5. PICK p2 : p2 = IF cond = NoExpr THEN p1
                     ELSE Postponed(p1, "JumpUnless", Append(todo, e), e.of, Past)
    OBVIOUS
<1>6. PICK x : x = [e EXCEPT !.piece = 2, !.jump = IF cond = NoExpr THEN NoPos ELSE Here(p1),
                             !.i1 = Here(p2), !.i2 = Here(prog')]
    OBVIOUS
<1>7. /\ Parsing /\ written' = n /\ prog' = Emit(p2, code, Append(todo, d))
      /\ scopes' = Front(scopes) \o <<ds>> /\ todo' = Append(todo, x) /\ stacks' = LoopBegun
      /\ UNCHANGED <<ranges, shapes, globals, status>>
    BY <1>1, <1>2, <1>3, <1>4, <1>5, <1>6 DEF ForBegin, Write
<1>8. /\ Going(prog, todo, stacks, shapes, scopes, ranges, globals, fn)
      /\ fn \in Nat /\ written \in Nat /\ prog \in Seq(Instr) /\ todo \in Seq(Open)
      /\ names \in Seq(Ident) /\ Distinct(names) /\ names = Last(scopes)
    BY <1>1, <1>7, Now DEF Names
<1>9. /\ h.init \in Simple \union {Nothing} /\ Valid(h.init)
      /\ h.post \in Simple \union {Nothing} /\ Valid(h.post)
      /\ cond \in Expr \union {NoExpr}
    BY <1>1, CodegenAssumption
<1>10. /\ mid \in Seq(Ident) /\ Distinct(mid) /\ Grows(names, mid)
       /\ AllFit(SimpleCode(names, h.init), mid)
    <2>1. /\ Declared(names, h.init) \in Seq(Ident) /\ Distinct(Declared(names, h.init))
          /\ Grows(names, Declared(names, h.init))
          /\ SimpleCode(names, h.init) \in Seq(BareInstr)
          /\ \A i \in 1..Len(SimpleCode(names, h.init)) :
               Fits(SimpleCode(names, h.init)[i], Declared(names, h.init))
        BY <1>8, <1>9, SimpleIs
    <2>. QED  BY <1>1, <2>1 DEF AllFit
<1>11. /\ ds \in Seq(Ident) /\ Distinct(ds) /\ Grows(mid, ds) /\ AllFit(code, ds)
    <2>1. /\ Declared(mid, h.post) \in Seq(Ident) /\ Distinct(Declared(mid, h.post))
          /\ Grows(mid, Declared(mid, h.post))
          /\ SimpleCode(mid, h.post) \in Seq(BareInstr)
          /\ \A i \in 1..Len(SimpleCode(mid, h.post)) :
               Fits(SimpleCode(mid, h.post)[i], Declared(mid, h.post))
        BY <1>9, <1>10, SimpleIs
    <2>. QED  BY <1>1, <2>1 DEF AllFit
<1>12. Continues(prog, p0, fn, mid) /\ p0 \in Seq(Instr)
    BY <1>1, <1>2, <1>8, <1>10, EmittedIs DEF Lengthens
<1>13. Going(p0, todo, stacks, shapes, Front(scopes) \o <<mid>>, ranges, globals, fn)
    BY <1>8, <1>10, <1>12, GoingGrown
<1>14. Len(p0) \in Nat /\ Len(prog) \in Nat
    BY <1>8, <1>12, InstrIs
<1>15. /\ e \in Open /\ d \in Open /\ e.of = n /\ d.of = n /\ d.piece = 3 /\ e.kind = "for"
       /\ e.begin = Len(p0) + 1
    <2>1. New("for", 1) \in Open /\ New("for", 1).kind = "for" /\ New("for", 1).of = written + 1
        BY <1>8, <1>14, NewIs
    <2>2. Here(p0) \in Nat /\ Here(p0) = Len(p0) + 1
        BY <1>14 DEF Here
    <2>3. e \in Open /\ e.kind = "for" /\ e.of = n /\ e.begin = Len(p0) + 1
        BY <1>1, <1>3, <2>1, <2>2 DEF Open, Pos
    <2>4. d \in Open /\ d.of = n /\ d.piece = 3
        BY <1>3, <2>3 DEF Open, Pos
    <2>. QED  BY <2>3, <2>4
<1>16. Heading(p0, p1, p2, prog', fn, ds, n, cond)
    <2>1. Heading(p0, p1, p2, prog', fn, ds, e.of, cond)
        BY <1>1, <1>4, <1>5, <1>7, <1>8, <1>9, <1>11, <1>12, <1>15, HeadingIs
    <2>. QED  BY <1>15, <2>1
<1>17. PICK a, b, c : a = Len(p1) /\ b = Len(p2) /\ c = Len(prog')
    OBVIOUS
<1>18. /\ Continues(p0, prog', fn, ds) /\ a \in Nat /\ b \in Nat /\ c \in Nat
       /\ Len(p0) <= a /\ a <= b /\ b <= c /\ (cond # NoExpr => a + 1 \in Jumps(prog'))
       /\ \A i \in 1..Len(prog') : i >= b + 1 => prog'[i].fn = fn /\ InPiece(prog'[i], n, 3)
    BY <1>16, <1>17 DEF Heading
<1>19. Going(prog', todo, stacks, shapes, scopes', ranges, globals, fn)
    <2>1. Continues(prog, p0, fn, ds)
        BY <1>8, <1>10, <1>11, <1>12, ContinuesMore
    <2>2. Continues(prog, prog', fn, ds)
        BY <1>8, <1>18, <2>1, ContinuesOn
    <2>3. Grows(names, ds)
        BY <1>8, <1>10, <1>11, GrowsOn
    <2>. QED  BY <1>7, <1>8, <1>11, <2>2, <2>3, GoingGrown
<1>20. PICK j : j = IF cond = NoExpr THEN NoPos ELSE a + 1
    OBVIOUS
<1>21. /\ x \in Open /\ x.kind = "for" /\ x.of = n /\ x.begin = Len(p0) + 1 /\ x.piece = 2
       /\ x.jump = j /\ x.i1 = b + 1 /\ x.i2 = c + 1
    <2>1. Here(p1) = a + 1 /\ Here(p2) = b + 1 /\ Here(prog') = c + 1
        BY <1>17 DEF Here
    <2>2. j \in Nat \union {NoPos} /\ b + 1 \in Nat /\ c + 1 \in Nat
        BY <1>18, <1>20
    <2>3. x = [e EXCEPT !.piece = 2, !.jump = j, !.i1 = b + 1, !.i2 = c + 1]
        BY <1>6, <1>20, <2>1
    <2>. QED  BY <1>15, <2>2, <2>3 DEF Open, Pos
<1>22. Opening(prog', x, fn)
    <2>1. x.kind # "fun" /\ (x.jump # NoPos => x.jump \in Jumps(prog'))
        BY <1>18, <1>20, <1>21
    <2>2. x.begin <= x.i1 /\ x.i1 <= x.i2 /\ x.i2 <= Len(prog') + 1
        BY <1>14, <1>17, <1>18, <1>21
    <2>3. \A i \in 1..Len(prog') : x.i1 <= i /\ i < x.i2 =>
             prog'[i].fn = fn /\ InPiece(prog'[i], x.of, 3)
        BY <1>18, <1>21
    <2>. QED  BY <1>21, <2>1, <2>2, <2>3 DEF Opening
<1>23. Pushed(stacks, stacks', x)
    <2>1. stacks \in [Which -> Seq(Place)]
        BY <1>8 DEF Going, State
    <2>. QED  BY <1>7, <1>21, <2>1, StacksBegun DEF LoopBegun
<1>24. \E z : Going(prog', Append(todo, x), stacks', shapes, scopes', ranges, globals, z)
    <2>1. Len(p0) <= Len(prog')
        BY <1>14, <1>17, <1>18
    <2>. QED  BY <1>13, <1>19, <1>21, <1>22, <1>23, <2>1, GoingPushed
<1>25. PICK z : Going(prog', todo', stacks', shapes', scopes', ranges', globals', z)
    BY <1>7, <1>24
<1>26. written' \in Nat /\ UNCHANGED status
    BY <1>1, <1>7, <1>8
<1>. QED  BY <1>25, <1>26, KeptGoing

LEMMA LoopIs ==
    ASSUME NEW p, NEW t, NEW st, NEW sh, NEW ss, NEW rs, NEW gs, NEW f,
           Going(p, t, st, sh, ss, rs, gs, f), Last(t).kind = "for"
    PROVE  /\ 1 <= Last(t).begin /\ Last(t).begin <= Last(t).i1
           /\ Last(t).i1 <= Last(t).i2 /\ Last(t).i2 <= Len(p) + 1
           /\ \/ Last(t).i1 = Last(t).i2
              \/ Moved(p, f)
              \/ \A m \in 1..Len(rs) : rs[m].scope = Len(ss) => rs[m].begin <= Last(t).i1
<1>1. PICK sc, own, h : Built(p, t, st, sh, ss, rs, sc, own, h) /\ own[Len(t)] = f
    BY DEF Going
<1>2. Placed(p, t) /\ Scoped(t, Len(ss), Len(sh), sc, own) /\ Looped(p, rs, t, sc, own)
    BY <1>1 DEF Built
<1>3. PICK n, e : n = Len(t) /\ e = Last(t)
    OBVIOUS
<1>4. /\ n \in 1..Len(t) /\ t[n] = e /\ e.kind = "for" /\ own[n] = f /\ sc[n] = Len(ss)
    <2>1. Len(t) \in Nat /\ Len(t) > 0 /\ Last(t) = t[Len(t)]
        BY GoingIs
    <2>. QED  BY <1>1, <1>2, <1>3, <2>1 DEF Scoped
<1>5. /\ e.begin \in Nat /\ e.i1 \in Nat /\ e.i2 \in Nat /\ Len(p) \in Nat /\ e.of \in Nat
    BY <1>3, CurIs
<1>6. /\ e.begin \in 1..(Len(p) + 1) /\ e.begin <= e.i1 /\ e.i1 <= e.i2 /\ e.i2 <= Len(p) + 1
    BY <1>2, <1>4 DEF Placed
<1>7. /\ \A i \in 1..Len(p) : e.i1 <= i /\ i < e.i2 => p[i].fn = f /\ InPiece(p[i], e.of, 3)
      /\ \/ Defines(p, t, n, f)
         \/ \A m \in 1..Len(rs) : rs[m].scope = Len(ss) => rs[m].begin <= e.i1
    BY <1>2, <1>4 DEF Looped
<1>8. ASSUME Defines(p, t, n, f), e.i1 # e.i2
      PROVE  Moved(p, f)
    <2>1. PICK i \in 1..Len(p) : p[i].fn = f /\ p[i].op = "Function" /\ InPiece(p[i], e.of, 2)
        BY <1>4, <1>8 DEF Defines
    <2>2. PICK j : j = e.i1
        OBVIOUS
    <2>3. j \in 1..Len(p) /\ e.i1 <= j /\ j < e.i2
        BY <1>5, <1>6, <1>8, <2>2
    <2>4. p[j].fn = f /\ InPiece(p[j], e.of, 3)
        BY <1>7, <2>3
    <2>. QED  BY <1>5, <2>1, <2>3, <2>4 DEF Moved
<1>. QED  BY <1>3, <1>5, <1>6, <1>7, <1>8

LEMMA AheadMore ==
    ASSUME NEW t \in Seq(Open), NEW a \in Nat, NEW b \in Nat, Ahead(t, a), a <= b
    PROVE  Ahead(t, b)
<1>1. ASSUME NEW k \in 1..Len(t)
      PROVE  t[k].begin \in Nat /\ t[k].jump \in Int /\ t[k].i2 \in Nat
    BY OpenIs
<1>. QED  BY <1>1 DEF Ahead

LEMMA UnderMore ==
    ASSUME NEW s \in Seq(Place), NEW a \in Nat, NEW b \in Nat, Under(s, a), a <= b
    PROVE  Under(s, b)
<1>1. \A j \in 1..Len(s) : s[j] \in Int
    BY PlacesAre
<1>. QED  BY <1>1 DEF Under

LEMMA ForEndKeeps ==
    ASSUME IInv, ForEnd
    PROVE  IInv'
<1>1. PICK fn, names, i1, i2, i3, b :
         /\ fn = ShapeIdx /\ names = Last(scopes) /\ i1 = Cur.i1 /\ i2 = Cur.i2
         /\ i3 = Here(prog) /\ b = Cur.begin
    OBVIOUS
<1>2. PICK p, q, r, s, u :
         /\ p = Postponed(prog, "Jump", AtPiece(4), Cur.of, 1)
         /\ q = Patched(p, {Here(prog)}, b)
         /\ r = Patched(q, {Cur.jump} \ {NoPos}, Here(p))
         /\ s = Patched(r, Segment(stacks["break"]), BreakTarget(Here(p), i2 - i1))
         /\ u = Patched(s, Segment(stacks["continue"]), (i3 - (i2 - i1)) + (i2 - i1))
    OBVIOUS
<1>3. /\ Parsing /\ Cur.kind = "for" /\ prog' = Rotated(u, i1, i2, i3)
      /\ stacks' = LoopEnded /\ todo' = Front(todo)
      /\ UNCHANGED <<scopes, ranges, shapes, globals, written, status>>
    BY <1>1, <1>2 DEF ForEnd
<1>4. Going(prog, todo, stacks, shapes, scopes, ranges, globals, fn) /\ written \in Nat
      /\ prog \in Seq(Instr) /\ Len(prog) \in Nat
    BY <1>1, <1>3, Now
<1>5. Cur = Last(todo)
    BY DEF Cur
<1>6. /\ i1 \in Nat /\ i2 \in Nat /\ b \in Nat /\ i3 = Len(prog) + 1
    BY <1>1, <1>4, <1>5, CurIs DEF Here
<1>7. /\ 1 <= b /\ b <= i1 /\ i1 <= i2 /\ i2 <= i3
      /\ \/ i1 = i2
         \/ Moved(prog, fn)
         \/ \A m \in 1..Len(ranges) : ranges[m].scope = Len(scopes) => ranges[m].begin <= i1
    BY <1>1, <1>3, <1>4, <1>5, <1>6, LoopIs
<1>8. /\ Posted(prog, p, fn, AtPiece(4), names) /\ p \in Seq(Instr) /\ Len(p) \in Nat
      /\ Here(prog) \in Int /\ Here(p) \in Int
      /\ \A froms \in {{Here(prog)}, {Cur.jump}, Segment(stacks["break"]),
                       Segment(stacks["continue"])} :
            \A i \in froms : i >= 0 => i \in Jumps(p)
      /\ Popped(todo, stacks, LoopEnded)
    BY <1>1, <1>2, <1>3, LoopPatched
<1>9. Continues(p, p, fn, names)
    BY <1>8, ContinuesSelf
<1>10. Continues(p, q, fn, names) /\ Len(q) = Len(p)
    BY <1>2, <1>6, <1>8, <1>9, Patching
<1>11. Continues(p, r, fn, names) /\ Len(r) = Len(q)
    <2>1. \A i \in {Cur.jump} \ {NoPos} : i >= 0 => i \in Jumps(p)
        BY <1>8
    <2>. QED  BY <1>2, <1>8, <1>10, <2>1, Patching
<1>12. Continues(p, s, fn, names) /\ Len(s) = Len(r)
    <2>1. BreakTarget(Here(p), i2 - i1) \in Int
        BY <1>6, <1>8 DEF BreakTarget
    <2>2. \A i \in Segment(stacks["break"]) : i >= 0 => i \in Jumps(p)
        BY <1>8
    <2>. QED  BY <1>2, <1>8, <1>11, <2>1, <2>2, Patching
<1>13. Continues(p, u, fn, names) /\ Len(u) = Len(s)
    <2>1. (i3 - (i2 - i1)) + (i2 - i1) \in Int
        BY <1>4, <1>6
    <2>2. \A i \in Segment(stacks["continue"]) : i >= 0 => i \in Jumps(p)
        BY <1>8
    <2>. QED  BY <1>2, <1>8, <1>12, <2>1, <2>2, Patching
<1>14. Continues(prog, u, fn, names) /\ Len(p) = Len(prog) + 1
    BY <1>4, <1>8, <1>13, ContinuesOn DEF Posted, Lengthens
<1>15. u \in Seq(Instr) /\ Len(u) = i3
    <2>1. u \in Seq(Instr)
        BY <1>14 DEF Continues
    <2>. QED  BY <1>6, <1>10, <1>11, <1>12, <1>13, <1>14, <2>1
<1>16. PICK t : t = Front(todo)
    OBVIOUS
<1>17. /\ Going(prog, t, stacks', shapes, scopes, ranges, globals, fn)
       /\ Ahead(t, b) /\ \A w \in Which : Under(stacks'[w], b)
    <2>1. Last(todo).kind # "fun" /\ Last(todo).kind # "if"
        BY <1>3, <1>5
    <2>. QED  BY <1>1, <1>3, <1>4, <1>5, <1>8, <1>16, <2>1, GoingPopped
<1>18. Going(u, t, stacks', shapes, scopes, ranges, globals, fn)
    BY <1>1, <1>14, <1>17, GoingOn
<1>19. /\ Shuffled(u, prog', i1) /\ (i1 = i2 => prog' = u)
    <2>1. i3 \in Nat /\ 1 <= i1 /\ i3 <= Len(u) + 1
        BY <1>4, <1>6, <1>7, <1>15
    <2>. QED  BY <1>3, <1>6, <1>7, <1>15, <2>1, RotatedIs
<1>20. Going(prog', t, stacks', shapes, scopes, ranges, globals, fn)
    <2>1. CASE i1 = i2
        BY <1>18, <1>19, <2>1
    <2>2. CASE i1 # i2
        <3>1. t \in Seq(Open) /\ \A w \in Which : stacks'[w] \in Seq(Place)
            BY <1>17 DEF Going, State
        <3>2. Ahead(t, i1)
            BY <1>6, <1>7, <1>17, <3>1, AheadMore
        <3>3. ASSUME NEW w \in Which
              PROVE  Under(stacks'[w], i1)
            <4>1. Under(stacks'[w], b) /\ stacks'[w] \in Seq(Place)
                BY <1>17, <3>1
            <4>. QED  BY <1>6, <1>7, <4>1, UnderMore
        <3>4. \/ Moved(u, fn)
              \/ \A m \in 1..Len(ranges) : ranges[m].scope = Len(scopes) => ranges[m].begin <= i1
            BY <1>4, <1>7, <1>14, <2>2, MovedStays
        <3>5. i1 <= Len(u) + 1
            BY <1>4, <1>6, <1>7, <1>15
        <3>. QED  BY <1>6, <1>18, <1>19, <3>2, <3>3, <3>4, <3>5, GoingTurned
    <2>. QED  BY <2>1, <2>2
<1>21. Going(prog', todo', stacks', shapes', scopes', ranges', globals', fn)
    BY <1>3, <1>16, <1>20
<1>22. written' \in Nat /\ UNCHANGED status
    BY <1>3, <1>4
<1>. QED  BY <1>21, <1>22, KeptGoing

-----------------------------------------------------------------------------
(* Functions.                                                                *)
LEMMA NewShapeIs ==
    ASSUME NEW params \in Seq(Ident), NEW gather
    PROVE  NewShape(params, gather) \in Shape /\ NewShape(params, gather).offset = 0
<1>1. Len(params) \in Int /\ -Len(params) \in Int
    BY LenProperties
<1>2. (IF gather THEN -Len(params) ELSE Len(params)) \in Int
    BY <1>1
<1>3. <<>> \in Seq(Ident)
    OBVIOUS
<1>. QED  BY <1>2, <1>3 DEF NewShape, Shape

Goes(p, t, st, sh, ss, rs, gs) == \E f : Going(p, t, st, sh, ss, rs, gs, f)

LEMMA GoingEntered ==
    ASSUME NEW p, NEW t, NEW st, NEW sh, NEW ss, NEW rs, NEW gs, NEW f,
           Going(p, t, st, sh, ss, rs, gs, f),
           NEW q, Making(p, q, t, f, Len(sh) + 1), NEW e, NEW x, NEW params, NEW rt,
           Entering(p, ss, rs, e, x, params, rt), NEW su, Piled(st, su)
    PROVE  Goes(q, Append(t, e), su, Append(sh, x), Append(ss, params), rt, gs)
<1>0. /\ e \in Open /\ e.kind = "fun" /\ e.begin = Len(p) + 1 /\ e.jump = NoPos
      /\ e.name # NoName /\ x \in Shape /\ x.offset = 0
      /\ params \in Seq(Ident) /\ Distinct(params)
      /\ rt = Finished(rs, Len(p) + 2)
                \o <<[scope |-> Len(ss) + 1, begin |-> Len(p) + 2, end |-> NoPos]>>
      /\ su \in [Which -> Seq(Place)] /\ \A w \in Which : su[w] = Append(st[w], NoPos)
    BY DEF Entering, Piled
<1>1. PICK sc, own, h : Built(p, t, st, sh, ss, rs, sc, own, h) /\ own[Len(t)] = f
    BY DEF Going
<1>2. State(p, t, st, sh, ss, rs, gs)
    BY DEF Going
<1>3. /\ p \in Seq(Instr) /\ t \in Seq(Open) /\ \A w \in Which : st[w] \in Seq(Place)
      /\ sh \in Seq(Shape) /\ ss \in Seq(Seq(Ident)) /\ rs \in Seq(CodeRange)
      /\ Symbols(p) /\ Resolution(p, sh, gs)
    BY <1>2 DEF State
<1>4. Making(p, q, t, own[Len(t)], Len(sh) + 1)
    BY <1>1
<1>5. Built(p, t, st, sh, ss, rs, sc, own, h)
    BY <1>1
<1>6. Standing(q, Append(t, e), su, Append(sh, x), Append(ss, params), rt)
    <2>1. Inside(p, t, st, sh, ss, rs, sc, own, h)
        BY <1>3, <1>5 DEF Inside
    <2>. QED  BY <1>4, <2>1, BuiltEntered
<1>7. Resolution(q, Append(sh, x), gs) /\ Symbols(q)
    BY <1>0, <1>3, ResolutionMade
<1>8. /\ Append(t, e) \in Seq(Open) /\ Append(sh, x) \in Seq(Shape)
      /\ Append(ss, params) \in Seq(Seq(Ident))
    BY <1>0, <1>3, AppendIs
<1>9. q \in Seq(Instr)
    BY DEF Making
<1>10. State(q, Append(t, e), su, Append(sh, x), Append(ss, params), rt, gs)
    BY <1>0, <1>2, <1>6, <1>7, <1>8, <1>9 DEF State, Standing
<1>. QED  BY <1>6, <1>10 DEF Goes, Going, Standing

LEMMA FunBeginKeeps ==
    ASSUME IInv, NEW g \in Signatures, FunBegin(g.name, g.params, g.gather)
    PROVE  IInv'
<1>1. CASE ~Distinct(g.params)
    BY <1>1, RejectedKeeps DEF FunBegin
<1>2. CASE Distinct(g.params)
    <2>1. PICK fn, params, c, n, e, x, rt :
            /\ fn = ShapeIdx /\ params = g.params /\ c = Len(shapes) + 1 /\ n = Len(prog)
            /\ e = [New("fun", 1) EXCEPT !.name = g.name] /\ x = NewShape(params, g.gather)
            /\ rt = Finished(ranges, n + 2)
                      \o <<[scope |-> Len(scopes) + 1, begin |-> n + 2, end |-> NoPos]>>
        OBVIOUS
    <2>2. /\ Parsing /\ written' = written + 1
          /\ prog' = EmitAt(prog, <<Bare("Function", c)>>, fn, todo, NoGoal, NoLine)
          /\ shapes' = Append(shapes, x) /\ scopes' = Append(scopes, params)
          /\ ranges' = Opened(ranges, Here(prog'), Len(scopes) + 1)
          /\ stacks' = [s \in DOMAIN stacks |-> Append(stacks[s], NoPos)]
          /\ todo' = Append(todo, e) /\ UNCHANGED <<globals, status>>
        BY <1>2, <2>1 DEF FunBegin, Write, EnterFun, EmitNoLine
    <2>3. /\ Going(prog, todo, stacks, shapes, scopes, ranges, globals, fn)
          /\ fn \in Nat /\ written \in Nat /\ prog \in Seq(Instr) /\ n \in Nat
          /\ todo \in Seq(Open)
        BY <2>1, <2>2, Now
    <2>4. /\ stacks \in [Which -> Seq(Place)] /\ shapes \in Seq(Shape)
          /\ scopes \in Seq(Seq(Ident)) /\ ranges \in Seq(CodeRange) /\ globals \in Seq(Ident)
          /\ Distinct(globals) /\ Symbols(prog) /\ Resolution(prog, shapes, globals)
        BY <2>3 DEF Going, State
    <2>5. params \in Seq(Ident) /\ g.name \in Ident /\ g.name # NoName /\ Distinct(params)
        BY <1>2, <2>1, CodegenAssumption
    <2>6. Making(prog, prog', todo, fn, c)
        <3>1. c \in Int
            BY <2>1, <2>4, LenProperties
        <3>2. PICK b : b = Bare("Function", c)
            OBVIOUS
        <3>3. b \in BareInstr /\ b.op = "Function" /\ b.c = c /\ b.name = NoName
            BY <3>1, <3>2 DEF Bare, BareInstr, Ops
        <3>4. NoGoal \in Goal /\ NoLine \in Nat
            BY DEF NoGoal, Goal, NoLine
        <3>5. prog' = EmitAt(prog, <<b>>, fn, todo, NoGoal, NoLine)
            BY <2>2, <3>2
        <3>6. /\ prog' \in Seq(Instr) /\ Len(prog') = Len(prog) + 1
              /\ \A i \in 1..Len(prog) : prog'[i] = prog[i]
              /\ prog'[Len(prog) + 1].op = b.op /\ prog'[Len(prog) + 1].c = b.c
              /\ prog'[Len(prog) + 1].name = b.name /\ prog'[Len(prog) + 1].fn = fn
              /\ prog'[Len(prog) + 1].path = PathOf(todo)
            BY <2>3, <3>3, <3>4, <3>5, EmittedOne
        <3>. QED  BY <3>3, <3>6 DEF Making
    <2>7. x \in Shape /\ x.offset = 0
        BY <2>1, <2>5, NewShapeIs
    <2>8. /\ e \in Open /\ e.kind = "fun" /\ e.begin = Len(prog) + 1 /\ e.jump = NoPos
          /\ e.name # NoName
        <3>1. /\ New("fun", 1) \in Open /\ New("fun", 1).kind = "fun"
              /\ New("fun", 1).begin = n + 1 /\ New("fun", 1).jump = NoPos
            <4>1. 1 \in Nat /\ n = Len(prog) /\ n \in Nat /\ written \in Nat
                BY <2>1, <2>3
            <4>. QED  BY <4>1, NewIs
        <3>. QED  BY <2>1, <2>5, <3>1 DEF Open, Pos
    <2>9. ranges' = rt
        <3>1. Len(ranges) > 0
            BY <2>3, GoingIs
        <3>2. ranges # <<>>
            BY <3>1
        <3>3. Here(prog') = n + 2
            BY <2>1, <2>3, <2>6 DEF Making, Here
        <3>. QED  BY <2>1, <2>2, <3>2, <3>3 DEF Opened, Finished
    <2>10. /\ stacks' \in [Which -> Seq(Place)]
           /\ \A w \in Which : stacks'[w] = Append(stacks[w], NoPos)
        <3>1. \A w \in Which : Append(stacks[w], NoPos) \in Seq(Place)
            <4>. TAKE w \in Which
            <4>1. stacks[w] \in Seq(Place) /\ NoPos \in Place
                BY <2>4 DEF Place
            <4>. QED  BY <4>1, AppendIs
        <3>2. DOMAIN stacks = Which
            BY <2>4
        <3>. QED  BY <2>2, <3>1, <3>2
    <2>11. Making(prog, prog', todo, fn, Len(shapes) + 1)
        BY <2>1, <2>6
    <2>12. rt = Finished(ranges, Len(prog) + 2)
                  \o <<[scope |-> Len(scopes) + 1, begin |-> Len(prog) + 2, end |-> NoPos]>>
        BY <2>1
    <2>13. Goes(prog', Append(todo, e), stacks', Append(shapes, x), Append(scopes, params), rt,
                globals)
        <3>1. Going(prog, todo, stacks, shapes, scopes, ranges, globals, fn)
            BY <2>3
        <3>2. Entering(prog, scopes, ranges, e, x, params, rt)
            BY <2>5, <2>7, <2>8, <2>12 DEF Entering
        <3>3. Piled(stacks, stacks')
            BY <2>10 DEF Piled
        <3>. QED  BY <2>11, <3>1, <3>2, <3>3, GoingEntered
    <2>14. PICK z : Going(prog', todo', stacks', shapes', scopes', ranges', globals', z)
        BY <2>2, <2>9, <2>13 DEF Goes
    <2>15. written' \in Nat /\ UNCHANGED status
        BY <2>2, <2>3
    <2>. QED  BY <2>14, <2>15, KeptGoing
<1>. QED  BY <1>1, <1>2

(* What close_scope makes of the code, and of the globals table.             *)
ClosingAs(p, t, sh, ss, rs, gs, n, ours, f, q, w, si) ==
    /\ Last(t).kind = "fun" /\ n = Len(p) + 1
    /\ ours = Positions(Ours(Finished(rs, n), Len(ss)))
    /\ q = Walk(Last(ss), gs, p, ours).prog /\ w = Walk(Last(ss), gs, p, ours).end
    /\ Shaped(sh, si, f, Last(ss))
ClosedAs(p, rs, ss, n, ours, q, w, si) ==
    /\ q \in Seq(Instr) /\ Len(q) = Len(p) /\ w \in WalkState
    /\ Settles(p, q, ours, Last(ss), w.globals)
    /\ Resolution(q, si, w.globals) /\ Symbols(q)
    /\ Rest(Finished(rs, n), Len(ss)) \in Seq(CodeRange)

LEMMA ClosedIs ==
    ASSUME NEW p, NEW t, NEW st, NEW sh, NEW ss, NEW rs, NEW gs, NEW f,
           Going(p, t, st, sh, ss, rs, gs, f), NEW n, NEW ours, NEW q, NEW w, NEW si,
           ClosingAs(p, t, sh, ss, rs, gs, n, ours, f, q, w, si)
    PROVE  ClosedAs(p, rs, ss, n, ours, q, w, si)
<1>0. /\ Last(t).kind = "fun" /\ n = Len(p) + 1
      /\ ours = Positions(Ours(Finished(rs, n), Len(ss)))
      /\ q = Walk(Last(ss), gs, p, ours).prog /\ w = Walk(Last(ss), gs, p, ours).end
      /\ Shaped(sh, si, f, Last(ss))
    BY DEF ClosingAs
<1>1. PICK sc, own, h : Built(p, t, st, sh, ss, rs, sc, own, h) /\ own[Len(t)] = f
    BY DEF Going
<1>2. State(p, t, st, sh, ss, rs, gs)
    BY DEF Going
<1>3. /\ p \in Seq(Instr) /\ t \in Seq(Open) /\ sh \in Seq(Shape) /\ ss \in Seq(Seq(Ident))
      /\ rs \in Seq(CodeRange) /\ gs \in Seq(Ident) /\ Distinct(gs)
      /\ Symbols(p) /\ Resolution(p, sh, gs)
    BY <1>2 DEF State
<1>4. /\ Last(ss) = ss[Len(ss)] /\ Last(ss) \in Seq(Ident) /\ Distinct(Last(ss))
      /\ Last(t) = t[Len(t)]
    BY GoingIs
<1>5. PICK names : names = Last(ss)
    OBVIOUS
<1>6. /\ w \in WalkState /\ Grows(gs, w.globals) /\ q \in Seq(Instr) /\ Len(q) = Len(p)
      /\ \A i \in 1..Len(p) :
            /\ q[i].name = p[i].name /\ q[i].fn = p[i].fn /\ q[i].path = p[i].path
            /\ i \notin ours \/ p[i].op \notin Symbolic => q[i] = p[i]
            /\ q[i].op \in Symbolic => p[i].op \in Symbolic
            /\ p[i].op \in Symbolic => q[i].op # "Function"
            /\ i \in ours /\ p[i].op \in Symbolic => Settled(q[i], names, w.globals)
    <2>1. names \in Seq(Ident) /\ Distinct(names)
        BY <1>4, <1>5
    <2>2. q = Walk(names, gs, p, ours).prog /\ w = Walk(names, gs, p, ours).end
        BY <1>0, <1>5
    <2>. QED  BY <1>3, <2>1, <2>2, WalkIs
<1>7. Settles(p, q, ours, names, w.globals)
    BY <1>6 DEF Settles
<1>8. w.globals \in Seq(Ident)
    BY <1>6 DEF WalkState
<1>9. Resolution(q, si, w.globals) /\ Symbols(q)
    <2>1. t[Len(t)].kind = "fun" /\ names = ss[Len(ss)]
        BY <1>0, <1>4, <1>5
    <2>2. Shaped(sh, si, own[Len(t)], ss[Len(ss)])
        BY <1>0, <1>1, <1>4
    <2>3. Settles(p, q, ours, ss[Len(ss)], w.globals)
        BY <1>7, <2>1
    <2>4. Built(p, t, st, sh, ss, rs, sc, own, h) /\ t[Len(t)].kind = "fun"
        BY <1>1, <2>1
    <2>5. n = Len(p) + 1 /\ ours = Positions(Ours(Finished(rs, n), Len(ss)))
        BY <1>0
    <2>6. PICK hs : hs = w.globals
        OBVIOUS
    <2>7. hs \in Seq(Ident) /\ Grows(gs, hs) /\ Settles(p, q, ours, ss[Len(ss)], hs)
        BY <1>6, <1>8, <2>3, <2>6
    <2>8. Ends(p, t, sh, ss, rs, own, n, ours, si)
        BY <1>3, <2>2, <2>4, <2>5 DEF Ends
    <2>9. Resolution(q, si, hs) /\ Symbols(q)
        BY <1>3, <2>4, <2>7, <2>8, ResolutionClosed
    <2>. QED  BY <2>6, <2>9
<1>10. Rest(Finished(rs, n), Len(ss)) \in Seq(CodeRange)
    <2>1. Ranged(p, rs, t, Len(ss), sc)
        BY <1>1 DEF Built
    <2>2. n \in Nat
        BY <1>0, <1>3, InstrIs
    <2>3. PICK done, s : done = Finished(rs, n) /\ s = Len(ss)
        OBVIOUS
    <2>4. /\ done \in Seq(CodeRange) /\ Sorted(done) /\ Len(done) > 0
          /\ s = done[Len(done)].scope
        BY <1>3, <2>1, <2>2, <2>3, FinishedSorted
    <2>5. Parted(done, s, Positions(Ours(done, s)), Rest(done, s))
        BY <2>4, OursAre
    <2>. QED  BY <2>3, <2>5 DEF Parted
<1>. QED  BY <1>5, <1>6, <1>7, <1>9, <1>10 DEF ClosedAs

(* A function that is not the whole source has ended.                        *)
LEMMA GoingClosed ==
    ASSUME NEW p, NEW t, NEW st, NEW sh, NEW ss, NEW rs, NEW gs, NEW f,
           Going(p, t, st, sh, ss, rs, gs, f), NEW n, NEW ours, NEW q, NEW w, NEW si,
           ClosingAs(p, t, sh, ss, rs, gs, n, ours, f, q, w, si), Len(t) > 1,
           NEW su, Lifted(st, su),
           NEW rt, rt = Append(Rest(Finished(rs, n), Len(ss)),
                               [scope |-> Len(ss) - 1, begin |-> n, end |-> NoPos])
    PROVE  Goes(q, Front(t), su, si, Front(ss), rt, w.globals)
<1>0. /\ Last(t).kind = "fun" /\ n = Len(p) + 1
      /\ ours = Positions(Ours(Finished(rs, n), Len(ss)))
      /\ Shaped(sh, si, f, Last(ss))
      /\ su \in [Which -> Seq(Place)] /\ \A v \in Which : su[v] = Front(st[v])
    BY DEF ClosingAs, Lifted
<1>1. PICK sc, own, h : Built(p, t, st, sh, ss, rs, sc, own, h) /\ own[Len(t)] = f
    BY DEF Going
<1>2. State(p, t, st, sh, ss, rs, gs)
    BY DEF Going
<1>3. /\ p \in Seq(Instr) /\ t \in Seq(Open) /\ sh \in Seq(Shape) /\ ss \in Seq(Seq(Ident))
      /\ rs \in Seq(CodeRange) /\ \A v \in Which : st[v] \in Seq(Place)
    BY <1>2 DEF State
<1>4. /\ Last(ss) = ss[Len(ss)] /\ Last(t) = t[Len(t)] /\ Len(ss) > 0
    BY GoingIs
<1>5. ClosedAs(p, rs, ss, n, ours, q, w, si)
    BY ClosedIs
<1>6. /\ q \in Seq(Instr) /\ w \in WalkState /\ Settles(p, q, ours, Last(ss), w.globals)
      /\ Resolution(q, si, w.globals) /\ Symbols(q)
    BY <1>5 DEF ClosedAs
<1>7. Standing(q, Front(t), su, si, Front(ss), rt)
    <2>2. Settles(p, q, ours, ss[Len(ss)], w.globals)
        BY <1>4, <1>6
    <2>3. Shaped(sh, si, own[Len(t)], ss[Len(ss)])
        BY <1>0, <1>1, <1>4
    <2>4. t[Len(t)].kind = "fun"
        BY <1>0, <1>4
    <2>5. Inside(p, t, st, sh, ss, rs, sc, own, h)
        BY <1>1, <1>3 DEF Inside
    <2>6. Leaving(p, t, sh, ss, rs, own, n, ours, q, w.globals, si, rt)
        BY <1>0, <2>2, <2>3, <2>4 DEF Leaving
    <2>. QED  BY <2>5, <2>6, BuiltClosed
<1>8. Front(t) \in Seq(Open) /\ Front(ss) \in Seq(Seq(Ident)) /\ si \in Seq(Shape)
    <2>1. Len(t) > 0
        BY GoingIs
    <2>. QED  BY <1>0, <1>3, <1>4, <2>1, EndsAre DEF Shaped
<1>9. w.globals \in Seq(Ident) /\ Distinct(w.globals)
    BY <1>6 DEF WalkState
<1>10. State(q, Front(t), su, si, Front(ss), rt, w.globals)
    BY <1>0, <1>6, <1>7, <1>8, <1>9 DEF State, Standing
<1>. QED  BY <1>7, <1>10 DEF Goes, Going, Standing

LEMMA FunStarts ==
    ASSUME NEW p, NEW t, NEW st, NEW sh, NEW ss, NEW rs, NEW gs, NEW f,
           Going(p, t, st, sh, ss, rs, gs, f)
    PROVE  FunOf(t).begin \in 1..Len(p)
<1>1. PICK sc, own, h : Built(p, t, st, sh, ss, rs, sc, own, h) /\ own[Len(t)] = f
    BY DEF Going
<1>2. State(p, t, st, sh, ss, rs, gs)
    BY DEF Going
<1>3. p \in Seq(Instr) /\ t \in Seq(Open) /\ ss \in Seq(Seq(Ident)) /\ sh \in Seq(Shape)
    BY <1>2 DEF State
<1>4. Scoped(t, Len(ss), Len(sh), sc, own) /\ Owned(p, t, sh, own) /\ Placed(p, t)
    BY <1>1 DEF Built
<1>5. PICK a, c : a = Len(ss) /\ c = Len(sh)
    OBVIOUS
<1>6. a \in Nat /\ c \in Nat
    BY <1>3, <1>5, LenProperties
<1>7. Scoped(t, a, c, sc, own)
    BY <1>4, <1>5
<1>8. PICK m \in 1..Len(t) : FunOf(t) = t[m] /\ t[m].kind = "fun"
    <2>1. \E m \in 1..Len(t) :
            /\ FunOf(t) = t[m] /\ t[m].kind = "fun"
            /\ \A k \in (m + 1)..Len(t) : t[k].kind # "fun"
            /\ own[m] = own[Len(t)] /\ sc[m] = a
        <3>1. t \in Seq(Open) /\ a \in Nat /\ c \in Nat /\ Scoped(t, a, c, sc, own)
            BY <1>3, <1>6, <1>7
        <3>. QED  BY <3>1, FunNowIs
    <2>. QED  BY <2>1
<1>9. t[m].begin <= Len(p)
    BY <1>4, <1>8 DEF Owned
<1>10. t[m].begin \in 1..(Len(p) + 1) /\ Len(p) \in Nat
    BY <1>3, <1>4, InstrIs DEF Placed
<1>. QED  BY <1>8, <1>9, <1>10

LEMMA ShapedIs ==
    ASSUME NEW sh \in Seq(Shape), NEW f \in 1..Len(sh), NEW x \in Shape
    PROVE  Shaped(sh, [sh EXCEPT ![f] = x], f, x.names)
<1>1. PICK n, si : n = Len(sh) /\ si = [sh EXCEPT ![f] = x]
    OBVIOUS
<1>2. n \in Nat /\ sh \in [1..n -> Shape]
    BY <1>1, LenProperties
<1>3. si \in [1..n -> Shape] /\ si[f] = x /\ \A g \in 1..n : g # f => si[g] = sh[g]
    BY <1>1, <1>2
<1>4. si \in Seq(Shape) /\ Len(si) = n
    BY <1>2, <1>3, SeqDef, LenProperties
<1>. QED  BY <1>1, <1>3, <1>4 DEF Shaped

(* What an ending function leaves, at the end of its own code.               *)
Ending(p, n, ours, q, w) ==
    /\ p = EmitNoLine(prog, Final, todo) /\ n = Len(p) + 1
    /\ ours = Positions(Ours(Finished(ranges, n), Len(scopes)))
    /\ q = Walk(Last(scopes), globals, p, ours).prog
    /\ w = Walk(Last(scopes), globals, p, ours).end
Left(p, n, ours, q, w) ==
    /\ Closed.prog = q /\ Closed.globals = w.globals /\ Closed.maxstack = w.maxstack
    /\ Closed.ranges = Rest(Finished(ranges, n), Len(scopes))
    /\ Closed.offset \in Nat /\ n \in Nat /\ w \in WalkState /\ q \in Seq(Instr)
    /\ Len(q) = Len(p)

LEMMA ClosedNow ==
    ASSUME IInv, Parsing, Cur.kind = "fun", NEW p, NEW n, NEW ours, NEW q, NEW w,
           Ending(p, n, ours, q, w)
    PROVE  /\ Going(p, todo, stacks, shapes, scopes, ranges, globals, ShapeIdx)
           /\ Left(p, n, ours, q, w)
<1>1. PICK fn, names : fn = ShapeIdx /\ names = Last(scopes)
    OBVIOUS
<1>2. /\ p = EmitNoLine(prog, Final, todo) /\ n = Len(p) + 1
      /\ ours = Positions(Ours(Finished(ranges, n), Len(scopes)))
      /\ q = Walk(names, globals, p, ours).prog /\ w = Walk(names, globals, p, ours).end
    BY <1>1 DEF Ending
<1>3. /\ Going(prog, todo, stacks, shapes, scopes, ranges, globals, fn) /\ fn \in Nat
      /\ written \in Nat /\ prog \in Seq(Instr) /\ todo \in Seq(Open)
      /\ shapes \in Seq(Shape) /\ Len(prog) \in Nat
    BY <1>1, Now DEF State
<1>4. Continues(prog, p, fn, names) /\ p \in Seq(Instr) /\ Len(p) = Len(prog) + 2
    <2>1. PICK m : m = Len(Final)
        OBVIOUS
    <2>2. AllFit(Final, names) /\ m = 2
        BY <2>1, FinalIs
    <2>3. prog \in Seq(Instr) /\ fn \in Nat /\ todo \in Seq(Open) /\ written \in Nat /\ ShapeIdx = fn
        BY <1>1, <1>3
    <2>4. Lengthens(prog, EmitNoLine(prog, Final, todo), m, fn, names)
        BY <2>1, <2>2, <2>3, EmittedIs
    <2>. QED  BY <1>2, <2>2, <2>4 DEF Lengthens
<1>5. Going(p, todo, stacks, shapes, scopes, ranges, globals, fn)
    BY <1>1, <1>3, <1>4, GoingOn
<1>6. Here(p) = n /\ n \in Nat
    BY <1>2, <1>3, <1>4 DEF Here
<1>7. /\ Closed.prog = q /\ Closed.globals = w.globals /\ Closed.maxstack = w.maxstack
      /\ Closed.ranges = Rest(Finished(ranges, n), Len(scopes))
      /\ Closed.offset = n - FunOf(todo).begin
    BY <1>1, <1>2, <1>6 DEF Closed, Finished, FunNow, Names
<1>8. Closed.offset \in Nat
    <2>1. FunOf(todo).begin \in 1..Len(p)
        BY <1>5, FunStarts
    <2>2. Len(p) \in Nat
        BY <1>3, <1>4
    <2>. QED  BY <1>2, <1>7, <2>1, <2>2
<1>9. w \in WalkState /\ q \in Seq(Instr) /\ Len(q) = Len(p)
    <2>1. fn \in 1..Len(shapes) /\ names \in Seq(Ident)
        BY <1>1, <1>3, GoingIs
    <2>2. PICK x : x = [shapes[fn] EXCEPT !.names = names]
        OBVIOUS
    <2>3. shapes[fn] \in Shape
        BY <1>3, <2>1, ElementOfSeq
    <2>4. x \in Shape /\ x.names = names
        BY <2>1, <2>2, <2>3 DEF Shape
    <2>5. PICK si : si = [shapes EXCEPT ![fn] = x]
        OBVIOUS
    <2>6. Shaped(shapes, si, fn, names)
        BY <1>3, <2>1, <2>4, <2>5, ShapedIs
    <2>7. ClosingAs(p, todo, shapes, scopes, ranges, globals, n, ours, fn, q, w, si)
        BY <1>1, <1>2, <2>6 DEF ClosingAs, Cur
    <2>8. ClosedAs(p, ranges, scopes, n, ours, q, w, si)
        BY <1>5, <2>7, ClosedIs
    <2>. QED  BY <2>8 DEF ClosedAs
<1>. QED  BY <1>1, <1>5, <1>6, <1>7, <1>8, <1>9 DEF Left

LEMMA TooBigKeeps ==
    ASSUME IInv, Parsing, Cur.kind = "fun", TooBig
    PROVE  IInv'
<1>1. PICK p : p = EmitNoLine(prog, Final, todo)
    OBVIOUS
<1>2. PICK n : n = Len(p) + 1
    OBVIOUS
<1>3. PICK ours : ours = Positions(Ours(Finished(ranges, n), Len(scopes)))
    OBVIOUS
<1>4. PICK q, w : /\ q = Walk(Last(scopes), globals, p, ours).prog
                  /\ w = Walk(Last(scopes), globals, p, ours).end
    OBVIOUS
<1>5. Left(p, n, ours, q, w)
    <2>1. Ending(p, n, ours, q, w)
        BY <1>1, <1>2, <1>3, <1>4 DEF Ending
    <2>. QED  BY <2>1, ClosedNow
<1>6. globals' \in Seq(Ident) /\ Distinct(globals') /\ Discard("error")
    BY <1>5 DEF TooBig, Left, WalkState
<1>. QED  BY <1>6, DiscardKeeps

(* CloseFun, of a function that has ended as `Ending` says.                  *)
LEMMA CloseFunIs ==
    ASSUME IInv, Parsing, Cur.kind = "fun", CloseFun, NEW p, NEW n, NEW ours, NEW q, NEW w,
           Ending(p, n, ours, q, w)
    PROVE  /\ ClosingAs(p, todo, shapes, scopes, ranges, globals, n, ours, ShapeIdx, q, w, shapes')
           /\ Lifted(stacks, stacks')
           /\ scopes' = Front(scopes) /\ globals' = w.globals /\ written' = written
<1>1. PICK fn, names : fn = ShapeIdx /\ names = Last(scopes)
    OBVIOUS
<1>2. /\ Going(p, todo, stacks, shapes, scopes, ranges, globals, fn)
      /\ Left(p, n, ours, q, w)
    BY <1>1, ClosedNow
<1>3. PICK x : x = [nargs |-> shapes[fn].nargs, nlocals |-> Len(names),
                    maxstack |-> Closed.maxstack, offset |-> Closed.offset, names |-> names]
    OBVIOUS
<1>4. /\ shapes' = [shapes EXCEPT ![fn] = x] /\ scopes' = Front(scopes)
      /\ globals' = Closed.globals /\ written' = written
      /\ stacks' = [s \in DOMAIN stacks |-> Front(stacks[s])]
    BY <1>1, <1>3 DEF CloseFun, Names
<1>5. /\ shapes \in Seq(Shape) /\ stacks \in [Which -> Seq(Place)]
      /\ fn \in 1..Len(shapes) /\ names \in Seq(Ident)
      /\ \A v \in Which : stacks[v] \in Seq(Place) /\ Len(stacks[v]) > 0
    <2>1. Going(p, todo, stacks, shapes, scopes, ranges, globals, fn)
        BY <1>2
    <2>2. /\ fn \in 1..Len(shapes) /\ Last(scopes) \in Seq(Ident)
          /\ \A v \in Which : stacks[v] \in Seq(Place) /\ Len(stacks[v]) > 0
        BY <2>1, GoingIs
    <2>3. State(p, todo, stacks, shapes, scopes, ranges, globals)
        BY <2>1 DEF Going
    <2>4. shapes \in Seq(Shape) /\ stacks \in [Which -> Seq(Place)]
        BY <2>3 DEF State
    <2>. QED  BY <1>1, <2>2, <2>4
<1>6. x \in Shape /\ x.names = names
    <2>1. shapes[fn] \in Shape
        BY <1>5, ElementOfSeq
    <2>2. Len(names) \in Nat
        BY <1>5, LenProperties
    <2>3. Closed.maxstack \in Nat /\ Closed.offset \in Nat
        BY <1>2 DEF Left, WalkState
    <2>. QED  BY <1>3, <1>5, <2>1, <2>2, <2>3 DEF Shape
<1>7. Shaped(shapes, shapes', fn, names)
    BY <1>4, <1>5, <1>6, ShapedIs
<1>8. ClosingAs(p, todo, shapes, scopes, ranges, globals, n, ours, fn, q, w, shapes')
    BY <1>1, <1>7 DEF ClosingAs, Ending, Cur
<1>9. Lifted(stacks, stacks')
    <2>1. \A v \in Which : Front(stacks[v]) \in Seq(Place)
        BY <1>5, EndsAre
    <2>2. DOMAIN stacks = Which
        BY <1>5
    <2>. QED  BY <1>4, <2>1, <2>2 DEF Lifted
<1>. QED  BY <1>1, <1>2, <1>4, <1>8, <1>9 DEF Left

LEMMA StoreFits ==
    ASSUME NEW name \in Ident, NEW names, NEW p \in Seq(Instr), NEW fn \in Nat,
           NEW open \in Seq(Open)
    PROVE  Continues(p, EmitAt(p, <<[op |-> "StoreSymbolic", c |-> 0, name |-> name]>>,
                               fn, open, NoGoal, NoLine), fn, names)
<1>1. PICK b, code : b = [op |-> "StoreSymbolic", c |-> 0, name |-> name] /\ code = <<b>>
    OBVIOUS
<1>2. b \in BareInstr /\ b.op = "StoreSymbolic" /\ b.name # NoName
    BY <1>1, CodegenAssumption DEF BareInstr, Ops
<1>3. Fits(b, names)
    BY <1>2 DEF Fits, Symbolic
<1>4. code \in Seq(BareInstr) /\ Len(code) = 1 /\ code[1] = b
    BY <1>1, <1>2
<1>5. \A i \in 1..Len(code) : Fits(code[i], names)
    <2>1. \A i \in 1..1 : i = 1
        OBVIOUS
    <2>. QED  BY <1>3, <1>4, <2>1
<1>6. NoGoal \in Goal /\ NoLine \in Nat
    BY DEF NoGoal, Goal, NoLine
<1>7. Continues(p, EmitAt(p, code, fn, open, NoGoal, NoLine), fn, names)
    BY <1>4, <1>5, <1>6, EmitContinues
<1>. QED  BY <1>1, <1>7

LEMMA FunEndKeeps ==
    ASSUME IInv, FunEnd
    PROVE  IInv'
<1>1. CASE TooBig
    BY <1>1, TooBigKeeps DEF FunEnd
<1>2. CASE ~TooBig
    <2>1. PICK p : p = EmitNoLine(prog, Final, todo)
        OBVIOUS
    <2>2. PICK n : n = Len(p) + 1
        OBVIOUS
    <2>3. PICK ours : ours = Positions(Ours(Finished(ranges, n), Len(scopes)))
        OBVIOUS
    <2>4. PICK q, w : /\ q = Walk(Last(scopes), globals, p, ours).prog
                      /\ w = Walk(Last(scopes), globals, p, ours).end
        OBVIOUS
    <2>5. /\ Parsing /\ Cur.kind = "fun" /\ Len(todo) > 1
          /\ CloseFun /\ StoreFun(Closed.prog, Closed.ranges)
        BY <1>2 DEF FunEnd
    <2>6. Ending(p, n, ours, q, w)
        BY <2>1, <2>2, <2>3, <2>4 DEF Ending
    <2>7. /\ Going(p, todo, stacks, shapes, scopes, ranges, globals, ShapeIdx)
          /\ Left(p, n, ours, q, w)
        BY <2>5, <2>6, ClosedNow
    <2>8. /\ ClosingAs(p, todo, shapes, scopes, ranges, globals, n, ours, ShapeIdx, q, w, shapes')
          /\ Lifted(stacks, stacks')
          /\ scopes' = Front(scopes) /\ globals' = w.globals /\ written' = written
        BY <2>5, <2>6, CloseFunIs
    <2>9. /\ Closed.prog = q /\ Closed.ranges = Rest(Finished(ranges, n), Len(scopes))
          /\ q \in Seq(Instr) /\ Len(q) = Len(p)
        BY <2>7 DEF Left
    <2>10. PICK outer, z, name : /\ outer = Front(todo) /\ z = q[FunOf(outer).begin].c
                                 /\ name = Cur.name
        OBVIOUS
    <2>11. /\ prog' = EmitAt(q, <<[op |-> "StoreSymbolic", c |-> 0, name |-> name]>>, z, outer,
                             NoGoal, NoLine)
           /\ ranges' = Append(Rest(Finished(ranges, n), Len(scopes)),
                               [scope |-> Len(scopes) - 1, begin |-> n, end |-> NoPos])
           /\ todo' = outer /\ UNCHANGED status
        <3>1. Here(q) = n
            BY <2>2, <2>9 DEF Here
        <3>. QED  BY <2>5, <2>9, <2>10, <3>1 DEF StoreFun
    <2>12. Goes(q, outer, stacks', shapes', scopes', ranges', globals')
        <3>1. Goes(q, Front(todo), stacks', shapes', Front(scopes), ranges', w.globals)
            BY <2>5, <2>7, <2>8, <2>11, GoingClosed
        <3>. QED  BY <2>8, <2>10, <3>1
    <2>13. PICK f : Going(q, outer, stacks', shapes', scopes', ranges', globals', f)
        BY <2>12 DEF Goes
    <2>14. f = z /\ z \in Nat /\ outer \in Seq(Open)
        <3>1. q[FunOf(outer).begin].c = f /\ f \in Nat
            BY <2>13, GoingIs
        <3>. QED  BY <2>10, <2>13, <3>1 DEF Going, State
    <2>15. name \in Ident
        <3>1. Last(todo).name # NoName
            BY <2>5, <2>7, LastIs DEF Cur
        <3>2. Last(todo) \in Open
            BY <2>7, GoingIs
        <3>. QED  BY <2>10, <3>1, <3>2 DEF Cur, Open
    <2>16. Continues(q, prog', z, Last(scopes'))
        BY <2>9, <2>11, <2>14, <2>15, StoreFits
    <2>17. Going(prog', outer, stacks', shapes', scopes', ranges', globals', z)
        BY <2>13, <2>14, <2>16, GoingOn
    <2>18. Going(prog', todo', stacks', shapes', scopes', ranges', globals', z)
        BY <2>11, <2>17
    <2>19. written' \in Nat /\ UNCHANGED status
        BY <2>5, <2>8, <2>11, Now
    <2>. QED  BY <2>18, <2>19, KeptGoing
<1>. QED  BY <1>1, <1>2

LEMMA EndOfSourceKeeps ==
    ASSUME IInv, EndOfSource
    PROVE  IInv'
<1>0. Parsing /\ Len(todo) = 1 /\ Cur.kind = "fun"
    <2>1. Parsing /\ Len(todo) = 1
        BY DEF EndOfSource
    <2>2. Going(prog, todo, stacks, shapes, scopes, ranges, globals, ShapeIdx)
        BY <2>1, Now
    <2>3. Last(todo).kind # "fun" => Len(todo) > 1
        BY <2>2, LastIs
    <2>. QED  BY <2>1, <2>3 DEF Cur
<1>1. CASE TooBig
    BY <1>0, <1>1, TooBigKeeps
<1>2. CASE ~TooBig
    <2>1. PICK p : p = EmitNoLine(prog, Final, todo)
        OBVIOUS
    <2>2. PICK n : n = Len(p) + 1
        OBVIOUS
    <2>3. PICK ours : ours = Positions(Ours(Finished(ranges, n), Len(scopes)))
        OBVIOUS
    <2>4. PICK q, w : /\ q = Walk(Last(scopes), globals, p, ours).prog
                      /\ w = Walk(Last(scopes), globals, p, ours).end
        OBVIOUS
    <2>5. /\ CloseFun /\ prog' = Closed.prog /\ ranges' = Closed.ranges /\ todo' = <<>>
          /\ status' = "ok"
        BY <1>2 DEF EndOfSource
    <2>6. Ending(p, n, ours, q, w)
        BY <2>1, <2>2, <2>3, <2>4 DEF Ending
    <2>7. /\ Going(p, todo, stacks, shapes, scopes, ranges, globals, ShapeIdx)
          /\ Left(p, n, ours, q, w)
        BY <1>0, <2>6, ClosedNow
    <2>8. /\ ClosingAs(p, todo, shapes, scopes, ranges, globals, n, ours, ShapeIdx, q, w, shapes')
          /\ Lifted(stacks, stacks')
          /\ scopes' = Front(scopes) /\ globals' = w.globals /\ written' = written
        BY <1>0, <2>5, <2>6, CloseFunIs
    <2>9. ClosedAs(p, ranges, scopes, n, ours, q, w, shapes')
        BY <2>7, <2>8, ClosedIs
    <2>10. /\ prog' = q /\ ranges' = Rest(Finished(ranges, n), Len(scopes))
           /\ globals' \in Seq(Ident) /\ Distinct(globals')
        BY <2>5, <2>7, <2>8 DEF Left, WalkState
    <2>11. /\ prog' \in Seq(Instr) /\ ranges' \in Seq(CodeRange)
           /\ Resolution(prog', shapes', globals') /\ Symbols(prog')
        BY <2>8, <2>9, <2>10 DEF ClosedAs
    <2>12. scopes' \in Seq(Seq(Ident)) /\ shapes' \in Seq(Shape)
           /\ stacks' \in [Which -> Seq(Place)]
        <3>1. Len(scopes) > 0
            BY <2>7, GoingIs
        <3>2. scopes \in Seq(Seq(Ident))
            BY <2>7 DEF Going, State
        <3>3. Front(scopes) \in Seq(Seq(Ident))
            BY <3>1, <3>2, EndsAre
        <3>. QED  BY <2>8, <3>3 DEF ClosingAs, Shaped, Lifted
    <2>13. <<>> \in Seq(Open)
        OBVIOUS
    <2>14. State(prog', todo', stacks', shapes', scopes', ranges', globals')
        BY <2>5, <2>10, <2>11, <2>12, <2>13 DEF State
    <2>15. written' \in Nat
        BY <1>0, <2>8, Now
    <2>16. status' = "ok" /\ "ok" # "parsing"
        BY <2>5
    <2>. QED  BY <2>14, <2>15, <2>16, StateIsNext
<1>. QED  BY <1>1, <1>2

-----------------------------------------------------------------------------
(* The invariant holds of the function of the whole source, and every action
   keeps it.                                                                 *)
LEMMA Single ==
    ASSUME NEW x
    PROVE  Len(<<x>>) = 1 /\ <<x>>[1] = x /\ 1..1 = {1} /\ Len(<<>>) = 0
OBVIOUS

LEMMA OutermostIs ==
    /\ Outermost \in Seq(Instr) /\ Len(Outermost) = 1
    /\ Outermost[1].op = "Function" /\ Outermost[1].c = 1 /\ Outermost[1].name = NoName
    /\ Outermost[1].fn = 0
<1>1. PICK b, p, t, z, g, l : /\ b = Bare("Function", 1) /\ p = <<>> /\ t = <<>> /\ z = 0
                              /\ g = NoGoal /\ l = NoLine
    OBVIOUS
<1>2. b \in BareInstr /\ b.op = "Function" /\ b.c = 1 /\ b.name = NoName
    BY <1>1 DEF Bare, BareInstr, Ops
<1>3. g \in Goal /\ l \in Nat /\ z \in Nat /\ p \in Seq(Instr) /\ t \in Seq(Open) /\ Len(p) = 0
    BY <1>1 DEF NoGoal, Goal, NoLine
<1>4. PICK q : q = EmitAt(p, <<b>>, z, t, g, l)
    OBVIOUS
<1>5. q = Outermost
    BY <1>1, <1>4 DEF Outermost
<1>6. /\ q \in Seq(Instr) /\ Len(q) = Len(p) + 1
      /\ q[Len(p) + 1].op = b.op /\ q[Len(p) + 1].c = b.c
      /\ q[Len(p) + 1].name = b.name /\ q[Len(p) + 1].fn = z
    <2>1. /\ p \in Seq(Instr) /\ b \in BareInstr /\ z \in Nat /\ t \in Seq(Open)
          /\ g \in Goal /\ l \in Nat
        BY <1>2, <1>3
    <2>2. PICK r : r = EmitAt(p, <<b>>, z, t, g, l)
        OBVIOUS
    <2>3. /\ r \in Seq(Instr) /\ Len(r) = Len(p) + 1
          /\ r[Len(p) + 1].op = b.op /\ r[Len(p) + 1].c = b.c
          /\ r[Len(p) + 1].name = b.name /\ r[Len(p) + 1].fn = z
        BY <2>1, <2>2, EmittedOne
    <2>. QED  BY <1>4, <2>2, <2>3
<1>7. Len(p) + 1 = 1
    BY <1>3
<1>. QED  BY <1>1, <1>2, <1>5, <1>6, <1>7

LEMMA BuiltStarts ==
    ASSUME NEW p, p = Outermost, NEW t, NEW e \in Open, t = <<e>>, e.kind = "fun",
           e.begin = 1, e.jump = NoPos, NEW st, st = [w \in Which |-> <<NoPos>>],
           NEW x \in Shape, x.offset = 0, NEW sh, sh = <<x>>, NEW ss, ss = <<<<>>>>,
           NEW r, r = [scope |-> 1, begin |-> 2, end |-> NoPos], NEW rs, rs = <<r>>
    PROVE  \E sc, own, h : Built(p, t, st, sh, ss, rs, sc, own, h)
<1>1. PICK sc, h : sc = [k \in 1..1 |-> 1] /\ h = [w \in Which |-> [k \in 1..1 |-> 1]]
    OBVIOUS
<1>2. /\ Len(t) = 1 /\ t[1] = e /\ Len(sh) = 1 /\ sh[1] = x /\ Len(ss) = 1 /\ ss[1] = <<>>
      /\ Len(rs) = 1 /\ rs[1] = r /\ \A k \in 1..1 : k = 1
    BY Single
<1>3. /\ p \in Seq(Instr) /\ Len(p) = 1 /\ p[1].op = "Function" /\ p[1].c = 1
      /\ p[1].name = NoName /\ p[1].fn = 0
    BY OutermostIs
<1>4. sc \in [1..1 -> 1..1] /\ sc[1] = 1
    BY <1>1
<1>5. Scoped(t, 1, 1, sc, sc)
    <2>1. \A k, l \in 1..1 : ~(k < l)
        BY <1>2
    <2>2. \A k \in 2..1 : FALSE
        OBVIOUS
    <2>. QED  BY <1>2, <1>4, <2>1, <2>2 DEF Scoped
<1>6. Placed(p, t)
    <2>1. \A k, l \in 1..1 : ~(k < l)
        BY <1>2
    <2>2. 1 \in 1..(1 + 1)
        OBVIOUS
    <2>. QED  BY <1>2, <1>3, <2>1, <2>2 DEF Placed
<1>7. ASSUME NEW w \in Which
      PROVE  Stacked(p, t, w, st[w], h[w])
    <2>1. PICK s, g : s = st[w] /\ g = h[w]
        OBVIOUS
    <2>2. s = <<NoPos>> /\ g = [k \in 1..1 |-> 1]
        BY <1>1, <2>1
    <2>3. Len(s) = 1 /\ s[1] = NoPos /\ g \in [1..1 -> 0..1] /\ g[1] = 1
        BY <2>2
    <2>4. NoPos < 1 /\ ~(NoPos >= 0) /\ NoPos # Begins /\ 1 > 0 /\ ~(1 > 1)
        BY DEF NoPos, Begins
    <2>5. \A k, l \in 1..1 : ~(k < l)
        BY <1>2
    <2>6. \A j \in 1..1, k \in 1..1 : s[j] < t[k].begin
        BY <1>2, <2>3, <2>4
    <2>7. \A j \in 1..1, k \in 1..1 : ~(j > g[k])
        BY <1>2, <2>3, <2>4
    <2>8. \A j \in 1..1 : ~(s[j] >= 0) /\ s[j] # Begins
        BY <1>2, <2>3, <2>4
    <2>9. \A k \in 1..1 : t[k].kind = "fun" /\ g[k] > 0 /\ s[g[k]] = NoPos
        BY <1>2, <2>3, <2>4
    <2>10. Stacked(p, t, w, s, g)
        BY <1>2, <2>3, <2>5, <2>6, <2>7, <2>8, <2>9 DEF Stacked
    <2>. QED  BY <2>1, <2>10
<1>8. Owned(p, t, sh, sc)
    <2>1. \A i \in 1..1 : ~(i > 1) /\ p[i].fn = 0
        BY <1>2, <1>3
    <2>2. 0 <= 1 /\ 0 < 1 /\ 1 <= 1
        OBVIOUS
    <2>. QED  BY <1>2, <1>3, <1>4, <2>1, <2>2 DEF Owned
<1>9. Ranged(p, rs, t, 1, sc)
    <2>1. \A m, n \in 1..1 : ~(m < n)
        BY <1>2
    <2>2. 2 <= 1 + 1 /\ 2 > 1 /\ 1 > 0
        OBVIOUS
    <2>3. r.scope = 1 /\ r.begin = 2 /\ r.end = NoPos
        OBVIOUS
    <2>. QED  BY <1>2, <1>3, <2>1, <2>2, <2>3 DEF Ranged
<1>10. Covering(p, rs, t, sc, sc)
    <2>1. \A i \in 1..1, k \in 1..1 : p[i].fn # sc[k]
        BY <1>2, <1>3, <1>4
    <2>. QED  BY <1>2, <1>3, <2>1 DEF Covering, CoveredBy
<1>11. Looped(p, rs, t, sc, sc)
    BY <1>2 DEF Looped
<1>12. Named(p, ss, t, sc, sc)
    <2>1. \A i \in 1..1, k \in 1..1 : p[i].fn # sc[k]
        BY <1>2, <1>3, <1>4
    <2>2. Distinct(<<>>)
        BY DEF Distinct
    <2>. QED  BY <1>2, <1>3, <2>1, <2>2 DEF Named
<1>13. \A k \in 2..1 : FALSE
    OBVIOUS
<1>14. Built(p, t, st, sh, ss, rs, sc, sc, h)
    BY <1>2, <1>5, <1>6, <1>7, <1>8, <1>9, <1>10, <1>11, <1>12, <1>13 DEF Built
<1>. QED  BY <1>14

LEMMA InitIInv == Init => IInv
<1>. SUFFICES ASSUME Init PROVE IInv
    OBVIOUS
<1>1. PICK e, x, r : /\ e = [kind |-> "fun", of |-> 1, piece |-> 1, begin |-> 1,
                             jump |-> NoPos, i1 |-> 0, i2 |-> 0, name |-> NoName]
                     /\ x = NewShape(<<>>, FALSE)
                     /\ r = [scope |-> 1, begin |-> 2, end |-> NoPos]
    OBVIOUS
<1>2. /\ prog = Outermost /\ shapes = <<x>> /\ scopes = <<<<>>>> /\ ranges = <<r>>
      /\ stacks = [w \in Which |-> <<NoPos>>] /\ todo = <<e>> /\ written = 1
      /\ status = "parsing" /\ globals = <<>>
    BY <1>1 DEF Init, Start, Which
<1>3. e \in Open /\ e.kind = "fun" /\ e.begin = 1 /\ e.jump = NoPos
    BY <1>1 DEF Open, Pos
<1>4. x \in Shape /\ x.offset = 0
    <2>1. <<>> \in Seq(Ident)
        OBVIOUS
    <2>. QED  BY <1>1, <2>1, NewShapeIs
<1>5. r \in CodeRange
    BY <1>1 DEF CodeRange, Pos
<1>6. \E sc, own, h : Built(prog, todo, stacks, shapes, scopes, ranges, sc, own, h)
    BY <1>1, <1>2, <1>3, <1>4, BuiltStarts
<1>7. /\ prog \in Seq(Instr) /\ Len(prog) = 1 /\ prog[1].op = "Function"
      /\ prog[1].name = NoName
    BY <1>2, OutermostIs
<1>8. /\ todo \in Seq(Open) /\ shapes \in Seq(Shape) /\ ranges \in Seq(CodeRange)
    BY <1>2, <1>3, <1>4, <1>5
<1>9. scopes \in Seq(Seq(Ident)) /\ globals \in Seq(Ident) /\ Distinct(globals)
    BY <1>2 DEF Distinct
<1>10. stacks \in [Which -> Seq(Place)]
    <2>1. <<NoPos>> \in Seq(Place)
        BY DEF Place
    <2>. QED  BY <1>2, <2>1
<1>11. Symbols(prog)
    <2>1. \A i \in 1..1 : i = 1
        OBVIOUS
    <2>. QED  BY <1>7, <2>1 DEF Symbols, Symbolic
<1>12. Resolution(prog, shapes, globals)
    <2>1. \A f \in 1..Len(shapes) : ~(shapes[f].offset > 0)
        <3>1. Len(shapes) = 1 /\ shapes[1] = x /\ \A f \in 1..1 : f = 1
            BY <1>2, Single
        <3>. QED  BY <1>4, <3>1
    <2>. QED  BY <2>1 DEF Resolution
<1>13. State(prog, todo, stacks, shapes, scopes, ranges, globals)
    BY <1>7, <1>8, <1>9, <1>10, <1>11, <1>12 DEF State
<1>14. \E f : Going(prog, todo, stacks, shapes, scopes, ranges, globals, f)
    BY <1>6, <1>13 DEF Going
<1>15. written \in Nat /\ status \in {"parsing", "ok", "error", "more"}
    BY <1>2
<1>. QED  BY <1>13, <1>14, <1>15, StateIs

LEMMA NextIInv == IInv /\ [Next]_vars => IInv'
<1>. SUFFICES ASSUME IInv, [Next]_vars PROVE IInv'
    OBVIOUS
<1>1. ASSUME NEW s \in Stmts, Valid(s), SimpleStmt(s)
      PROVE  IInv'
    BY <1>1, SimpleKeeps
<1>2. ASSUME NEW s \in Stmts, InvalidAssignment(s)
      PROVE  IInv'
    BY <1>2, RejectedKeeps DEF InvalidAssignment
<1>3. ASSUME NEW e \in Exprs \union {NoExpr}, ReturnStmt(e)
      PROVE  IInv'
    BY <1>3, ReturnKeeps
<1>4. ASSUME NEW e \in Exprs, IfBegin(e)
      PROVE  IInv'
    BY <1>4, IfBeginKeeps
<1>5. ASSUME NEW e \in Exprs, Elif(e)
      PROVE  IInv'
    <2>1. PICK c : c = Code(e)
        OBVIOUS
    <2>2. NextClause(c)
        BY <1>5, <2>1 DEF Elif
    <2>. QED  BY <2>1, <2>2, NextClauseKeeps
<1>6. ASSUME NEW e \in Exprs, WhileBegin(e)
      PROVE  IInv'
    BY <1>6, WhileBeginKeeps
<1>7. CASE BreakStmt \/ ContinueStmt
    BY <1>7, BreaksKeep
<1>8. CASE Else
    BY <1>8, NextClauseKeeps DEF Else
<1>9. CASE IfEnd
    BY <1>9, IfEndKeeps
<1>10. CASE WhileEnd
    BY <1>10, WhileEndKeeps
<1>11. ASSUME NEW h \in Headers, ForBegin(h.init, h.cond, h.post)
       PROVE  IInv'
    BY <1>11, ForBeginKeeps
<1>12. CASE ForEnd
    BY <1>12, ForEndKeeps
<1>13. ASSUME NEW g \in Signatures, FunBegin(g.name, g.params, g.gather)
       PROVE  IInv'
    BY <1>13, FunBeginKeeps
<1>14. CASE FunEnd
    BY <1>14, FunEndKeeps
<1>15. CASE EndOfSource
    BY <1>15, EndOfSourceKeeps
<1>16. CASE Incomplete \/ SyntaxError
    BY <1>16, RejectedKeeps DEF Incomplete, SyntaxError
<1>17. CASE UNCHANGED vars
    <2>1. /\ UNCHANGED <<prog, scopes, ranges, shapes, stacks, todo, written, globals, status>>
        BY <1>17 DEF vars, parser
    <2>2. /\ written \in Nat /\ status \in {"parsing", "ok", "error", "more"}
          /\ State(prog, todo, stacks, shapes, scopes, ranges, globals)
          /\ status = "parsing" =>
               \E f : Going(prog, todo, stacks, shapes, scopes, ranges, globals, f)
        BY StateIs DEF Parsing
    <2>3. /\ written' \in Nat /\ status' \in {"parsing", "ok", "error", "more"}
          /\ State(prog', todo', stacks', shapes', scopes', ranges', globals')
          /\ status' = "parsing" =>
               \E f : Going(prog', todo', stacks', shapes', scopes', ranges', globals', f)
        BY <2>1, <2>2
    <2>. QED  BY <2>3, StateIsNext
<1>. QED  BY <1>1, <1>2, <1>3, <1>4, <1>5, <1>6, <1>7, <1>8, <1>9, <1>10, <1>11, <1>12, <1>13,
            <1>14, <1>15, <1>16, <1>17 DEF Next

LEMMA Inductive == Spec => []IInv
BY InitIInv, NextIInv, PTL DEF Spec

(* The parser's state keeps its shape, whatever source is parsed: the code and
   its ranges, the scopes and Shapes of the functions that are open, and the
   stacks of jumps that longjmp leaves to the next source.                   *)
THEOREM CodegenTypes == Spec => []TypeOK
<1>1. IInv => TypeOK
    BY DEF IInv
<1>. QED  BY <1>1, Inductive, PTL

LEMMA NamesAre == IInv => NamesResolved
<1>. SUFFICES ASSUME IInv PROVE NamesResolved
    OBVIOUS
<1>1. prog \in Seq(Instr) /\ shapes \in Seq(Shape) /\ Resolution(prog, shapes, globals)
    BY DEF IInv, TypeOK
<1>2. DOMAIN prog = 1..Len(prog) /\ DOMAIN shapes = 1..Len(shapes)
    BY <1>1, LenProperties
<1>3. ASSUME NEW f, Moved(prog, f)
      PROVE  RangesMoved(f)
    BY <1>2, <1>3 DEF Moved, InPiece, RangesMoved
<1>4. ASSUME NEW f \in DOMAIN shapes, Translated(f), NEW i \in DOMAIN prog,
             prog[i].fn = f, prog[i].name # NoName
      PROVE  Settled(prog[i], shapes[f].names, globals)
    <2>1. shapes[f].offset > 0 /\ ~Moved(prog, f)
        BY <1>3, <1>4 DEF Translated
    <2>2. f \in 1..Len(shapes) /\ i \in 1..Len(prog)
        BY <1>2
    <2>. QED  BY <1>1, <1>4, <2>1, <2>2 DEF Resolution
<1>. QED  BY <1>4 DEF Settled, NamesResolved

(* A name in a function is the local of that function which declares it or has
   it as a parameter, before or after, or else the global of that name: what
   resolve_symbolic makes of it when the function ends, except in a function
   whose code a for loop has moved (CodegenFunInFor).                        *)
THEOREM CodegenNames == Spec => []NamesResolved
BY Inductive, NamesAre, PTL

-----------------------------------------------------------------------------
(* Lines: after instruction j of p, the last quark not behind an instruction
   that has a line is of its line.                                           *)
Quark == [instr : Nat, line : Nat]
Marks(p, j, qs) ==
    /\ qs \in Seq(Quark)
    /\ \A a \in 1..Len(qs) : qs[a].instr <= j
    /\ \A i \in 1..j : p[i].line # NoLine =>
          \E a \in 1..Len(qs) :
             /\ qs[a].instr <= i /\ qs[a].line = p[i].line
             /\ \A b \in (a + 1)..Len(qs) : qs[b].instr > i
    /\ \A a, b \in 1..Len(qs) : a < b => qs[a].instr < qs[b].instr

Quarked(p, j, qs) ==
    IF p[j].line # NoLine /\ (qs = <<>> \/ Last(qs).line # p[j].line)
    THEN Append(qs, [instr |-> j, line |-> p[j].line]) ELSE qs

LEMMA QuarkedIs ==
    ASSUME NEW p, NEW j \in Nat, j > 0, p[j].line \in Nat, NEW qs \in Seq(Quark)
    PROVE  /\ Quarked(p, j, qs) \in Seq(Quark)
           /\ Marks(p, j - 1, qs) => Marks(p, j, Quarked(p, j, qs))
<1>1. PICK n : n = Len(qs)
    OBVIOUS
<1>2. n \in Nat /\ \A a \in 1..n : qs[a] \in Quark /\ qs[a].instr \in Nat
    <2>1. n \in Nat /\ \A a \in 1..n : qs[a] \in Quark
        BY <1>1, LenProperties, ElementOfSeq
    <2>. QED  BY <2>1 DEF Quark
<1>3. CASE p[j].line # NoLine /\ (qs = <<>> \/ Last(qs).line # p[j].line)
    <2>1. PICK e, rs : e = [instr |-> j, line |-> p[j].line] /\ rs = Append(qs, e)
        OBVIOUS
    <2>2. e \in Quark /\ e.instr = j /\ e.line = p[j].line
        BY <2>1 DEF Quark
    <2>3. rs = Quarked(p, j, qs)
        BY <1>3, <2>1 DEF Quarked
    <2>4. rs \in Seq(Quark) /\ Len(rs) = n + 1
        BY <1>1, <2>1, <2>2, AppendProperties
    <2>5. rs[n + 1] = e /\ \A a \in 1..n : rs[a] = qs[a]
        BY <1>1, <1>2, <2>1, <2>2, AppendProperties
    <2>6. ASSUME Marks(p, j - 1, qs)
          PROVE  Marks(p, j, rs)
        <3>1. /\ \A a \in 1..n : qs[a].instr <= j - 1
              /\ \A i \in 1..(j - 1) : p[i].line # NoLine =>
                    \E a \in 1..n :
                       /\ qs[a].instr <= i /\ qs[a].line = p[i].line
                       /\ \A b \in (a + 1)..n : qs[b].instr > i
              /\ \A a, b \in 1..n : a < b => qs[a].instr < qs[b].instr
            BY <1>1, <2>6 DEF Marks
        <3>2. \A a \in 1..(n + 1) : a = n + 1 \/ a \in 1..n
            BY <1>2
        <3>3. \A a \in 1..(n + 1) : rs[a].instr <= j
            BY <1>2, <2>2, <2>5, <3>1, <3>2
        <3>4. ASSUME NEW i \in 1..j, p[i].line # NoLine
              PROVE  \E a \in 1..(n + 1) :
                       /\ rs[a].instr <= i /\ rs[a].line = p[i].line
                       /\ \A b \in (a + 1)..(n + 1) : rs[b].instr > i
            <4>1. CASE i = j
                <5>1. n + 1 \in 1..(n + 1) /\ (n + 1 + 1)..(n + 1) = {}
                    BY <1>2
                <5>. QED  BY <2>2, <2>5, <4>1, <5>1
            <4>2. CASE i # j
                <5>1. i \in 1..(j - 1) /\ i < j
                    BY <4>2
                <5>2. PICK a \in 1..n : /\ qs[a].instr <= i /\ qs[a].line = p[i].line
                                        /\ \A b \in (a + 1)..n : qs[b].instr > i
                    BY <3>1, <3>4, <5>1
                <5>3. ASSUME NEW b \in (a + 1)..(n + 1)
                      PROVE  rs[b].instr > i
                    <6>1. CASE b = n + 1
                        BY <2>2, <2>5, <5>1, <6>1
                    <6>2. CASE b # n + 1
                        <7>1. b \in (a + 1)..n /\ b \in 1..n
                            BY <1>2, <6>2
                        <7>. QED  BY <2>5, <5>2, <7>1
                    <6>. QED  BY <6>1, <6>2
                <5>4. a \in 1..(n + 1) /\ rs[a] = qs[a]
                    BY <1>2, <2>5
                <5>. QED  BY <5>2, <5>3, <5>4
            <4>. QED  BY <4>1, <4>2
        <3>5. ASSUME NEW a \in 1..(n + 1), NEW b \in 1..(n + 1), a < b
              PROVE  rs[a].instr < rs[b].instr
            <4>1. a \in 1..n /\ rs[a] = qs[a] /\ qs[a].instr \in Nat
                BY <1>2, <2>5, <3>5
            <4>2. CASE b = n + 1
                <5>1. qs[a].instr <= j - 1
                    BY <3>1, <4>1
                <5>. QED  BY <2>2, <2>5, <4>1, <4>2, <5>1
            <4>3. CASE b # n + 1
                <5>1. b \in 1..n
                    BY <1>2, <4>3
                <5>. QED  BY <2>5, <3>1, <3>5, <4>1, <5>1
            <4>. QED  BY <4>2, <4>3
        <3>. QED  BY <2>4, <3>3, <3>4, <3>5 DEF Marks
    <2>. QED  BY <2>3, <2>4, <2>6
<1>4. CASE ~(p[j].line # NoLine /\ (qs = <<>> \/ Last(qs).line # p[j].line))
    <2>1. Quarked(p, j, qs) = qs
        BY <1>4 DEF Quarked
    <2>2. ASSUME Marks(p, j - 1, qs)
          PROVE  Marks(p, j, qs)
        <3>1. /\ \A a \in 1..n : qs[a].instr <= j - 1
              /\ \A i \in 1..(j - 1) : p[i].line # NoLine =>
                    \E a \in 1..n :
                       /\ qs[a].instr <= i /\ qs[a].line = p[i].line
                       /\ \A b \in (a + 1)..n : qs[b].instr > i
              /\ \A a, b \in 1..n : a < b => qs[a].instr < qs[b].instr
            BY <1>1, <2>2 DEF Marks
        <3>2. \A a \in 1..n : qs[a].instr <= j
            BY <1>2, <3>1
        <3>3. ASSUME NEW i \in 1..j, p[i].line # NoLine
              PROVE  \E a \in 1..n :
                       /\ qs[a].instr <= i /\ qs[a].line = p[i].line
                       /\ \A b \in (a + 1)..n : qs[b].instr > i
            <4>1. CASE i = j
                <5>1. qs # <<>> /\ Last(qs).line = p[i].line
                    BY <1>4, <3>3, <4>1
                <5>2. n > 0
                    BY <1>1, <1>2, <5>1, EmptySeq
                <5>3. n \in 1..n /\ (n + 1)..n = {} /\ qs[n].line = p[i].line
                    <6>1. Last(qs) = qs[n]
                        BY <1>1, <5>2, EndsAre
                    <6>. QED  BY <1>2, <5>1, <5>2, <6>1
                <5>. QED  BY <3>2, <4>1, <5>3
            <4>2. CASE i # j
                <5>1. i \in 1..(j - 1)
                    BY <4>2
                <5>. QED  BY <3>1, <3>3, <5>1
            <4>. QED  BY <4>1, <4>2
        <3>. QED  BY <1>1, <3>1, <3>2, <3>3 DEF Marks
    <2>. QED  BY <2>1, <2>2
<1>. QED  BY <1>3, <1>4

QuarkSteps(p) == [j \in 1..Len(p) |-> [v \in Seq(Quark) |-> Quarked(p, j, v)]]

LEMMA QuarksAre ==
    ASSUME NEW p \in Seq(Instr)
    PROVE  Marks(p, Len(p), Quarks(p))
<1>1. PICK N : N = Len(p)
    OBVIOUS
<1>2. N \in Nat /\ \A j \in 1..N : p[j].line \in Nat
    <2>1. N \in Nat /\ \A j \in 1..N : p[j] \in Instr
        BY <1>1, InstrIs
    <2>. QED  BY <2>1 DEF Instr
<1>3. PICK V, z : V = Seq(Quark) /\ z = <<>>
    OBVIOUS
<1>4. z \in V /\ Len(z) = 0
    BY <1>3, EmptySeq
<1>5. PICK F : F = QuarkSteps(p)
    OBVIOUS
<1>6. /\ F \in [1..N -> [V -> V]]
      /\ \A j \in 1..N, v \in V : F[j][v] = Quarked(p, j, v)
    <2>1. ASSUME NEW j \in 1..N, NEW v \in V
          PROVE  Quarked(p, j, v) \in V
        BY <1>2, <1>3, QuarkedIs
    <2>2. F = [j \in 1..N |-> [v \in V |-> Quarked(p, j, v)]]
        BY <1>1, <1>3, <1>5 DEF QuarkSteps
    <2>. QED  BY <2>1, <2>2
<1>7. PICK f : Stepwise(f, V, N, z, F)
    BY <1>2, <1>4, <1>6, Recursion
<1>8. /\ f \in [0..N -> V] /\ f[0] = z
      /\ \A j \in 1..N : f[j] = Quarked(p, j, f[j - 1])
    <2>1. f \in [0..N -> V] /\ f[0] = z /\ \A j \in 1..N : f[j] = F[j][f[j - 1]]
        BY <1>7 DEF Stepwise
    <2>2. \A j \in 1..N : j - 1 \in 0..N
        BY <1>2
    <2>. QED  BY <1>6, <2>1, <2>2
<1>9. f = [j \in 0..N |-> IF j = 0 THEN <<>> ELSE Quarked(p, j, f[j - 1])]
    <2>1. \A j \in 0..N : j # 0 => j \in 1..N
        BY <1>2
    <2>2. f = [j \in 0..N |-> f[j]]
        BY <1>8
    <2>. QED  BY <1>3, <1>8, <2>1, <2>2
<1>10. PICK qk : qk = CHOOSE g : g = [j \in 0..N |-> IF j = 0 THEN <<>>
                                                      ELSE Quarked(p, j, g[j - 1])]
    OBVIOUS
<1>11. qk = [j \in 0..N |-> IF j = 0 THEN <<>> ELSE Quarked(p, j, qk[j - 1])]
    BY <1>9, <1>10
<1>12. Quarks(p) = qk[N]
    BY <1>1, <1>10 DEF Quarks, Quarked
<1>13. qk[0] = z /\ \A j \in 1..N : qk[j] = Quarked(p, j, qk[j - 1])
    <2>1. 0 \in 0..N /\ \A j \in 1..N : j \in 0..N /\ j # 0
        BY <1>2
    <2>. QED  BY <1>3, <1>11, <2>1
<1>14. \A j \in 0..N : Marks(p, j, qk[j])
    <2>. DEFINE S == {j \in 0..N : ~Marks(p, j, qk[j])}
    <2>1. CASE S = {}
        BY <2>1
    <2>2. CASE S # {}
        <3>1. PICK m \in S : \A n \in S : m <= n
            <4>1. S \subseteq Nat
                OBVIOUS
            <4>. HIDE DEF S
            <4>. QED  BY <2>2, <4>1, LeastNat
        <3>2. m \in 0..N /\ ~Marks(p, m, qk[m])
            OBVIOUS
        <3>3. m \in 1..N
            <4>1. Marks(p, 0, z)
                BY <1>3, <1>4 DEF Marks
            <4>. QED  BY <1>13, <3>2, <4>1
        <3>4. Marks(p, m - 1, qk[m - 1])
            <4>1. m - 1 \in 0..N /\ ~(m <= m - 1)
                BY <1>2, <3>3
            <4>2. m - 1 \notin S
                <5>. HIDE DEF S
                <5>. QED  BY <3>1, <4>1
            <4>. QED  BY <4>1, <4>2
        <3>5. Marks(p, m, qk[m])
            <4>1. PICK v : v = qk[m - 1]
                OBVIOUS
            <4>2. v \in Seq(Quark) /\ Marks(p, m - 1, v)
                BY <3>4, <4>1 DEF Marks
            <4>3. m \in Nat /\ m > 0 /\ p[m].line \in Nat
                BY <1>2, <3>3
            <4>4. Marks(p, m, Quarked(p, m, v))
                BY <4>2, <4>3, QuarkedIs
            <4>. QED  BY <1>13, <3>3, <4>1, <4>4
        <3>. QED  BY <3>2, <3>5
    <2>. QED  BY <2>1, <2>2
<1>. QED  BY <1>1, <1>2, <1>12, <1>14

(* find_quark's window, of n quarks: all below it are at or before the
   instruction, all above it are behind it.                                  *)
Windows(n) == {w \in [left : 0..n, right : 0..n] : w.left <= w.right}
Searches(qs, i, k, w) ==
    /\ w \in Windows(Len(qs))
    /\ w.right - w.left <= Len(qs) - k
    /\ \A a \in 1..w.left : qs[a].instr <= i
    /\ \A a \in (w.right + 1)..Len(qs) : qs[a].instr > i

LEMMA Halves ==
    ASSUME NEW d \in Nat, d > 0
    PROVE  d \div 2 \in 0..(d - 1)
OBVIOUS

LEMMA BisectedIs ==
    ASSUME NEW qs \in Seq(Quark), NEW i \in Nat, NEW w \in Windows(Len(qs)),
           \A a, b \in 1..Len(qs) : a < b => qs[a].instr < qs[b].instr
    PROVE  /\ Bisected(qs, i, w) \in Windows(Len(qs))
           /\ \A k \in 1..Len(qs) :
                Searches(qs, i, k - 1, w) => Searches(qs, i, k, Bisected(qs, i, w))
<1>1. PICK n, l, r : n = Len(qs) /\ l = w.left /\ r = w.right
    OBVIOUS
<1>2. n \in Nat /\ \A a \in 1..n : qs[a].instr \in Nat
    <2>1. n \in Nat /\ \A a \in 1..n : qs[a] \in Quark
        BY <1>1, LenProperties, ElementOfSeq
    <2>. QED  BY <2>1 DEF Quark
<1>3. l \in 0..n /\ r \in 0..n /\ l <= r
    BY <1>1 DEF Windows
<1>4. CASE l = r
    <2>1. Bisected(qs, i, w) = w
        BY <1>1, <1>4 DEF Bisected
    <2>2. ASSUME NEW k \in 1..n, Searches(qs, i, k - 1, w)
          PROVE  Searches(qs, i, k, w)
        <3>1. r - l <= n - k
            BY <1>2, <1>3, <1>4
        <3>. QED  BY <1>1, <2>2, <3>1 DEF Searches
    <2>. QED  BY <1>1, <2>1, <2>2
<1>5. CASE l # r
    <2>1. PICK h : h = (r - l) \div 2
        OBVIOUS
    <2>2. PICK m : m = l + h
        OBVIOUS
    <2>3. m \in l..(r - 1)
        <3>1. PICK d : d = r - l
            OBVIOUS
        <3>2. d \in Nat /\ d > 0
            BY <1>3, <1>5, <3>1
        <3>3. h \in 0..(d - 1)
            BY <2>1, <3>1, <3>2, Halves
        <3>. QED  BY <1>3, <2>2, <3>1, <3>3
    <2>4. m \in 0..(n - 1) /\ m + 1 \in 1..n /\ qs[m + 1].instr \in Nat
        BY <1>2, <1>3, <2>3
    <2>5. CASE i >= qs[m + 1].instr
        <3>1. PICK u : u = [left |-> m + 1, right |-> r]
            OBVIOUS
        <3>2. Bisected(qs, i, w) = u
            BY <1>1, <1>5, <2>1, <2>2, <2>5, <3>1 DEF Bisected
        <3>3. u.left = m + 1 /\ u.right = r
            BY <3>1
        <3>4. u \in Windows(n)
            <4>1. m + 1 \in 0..n /\ r \in 0..n /\ m + 1 <= r
                BY <1>2, <1>3, <2>3, <2>4
            <4>. QED  BY <3>1, <4>1 DEF Windows
        <3>5. ASSUME NEW k \in 1..n, Searches(qs, i, k - 1, w)
              PROVE  Searches(qs, i, k, u)
            <4>1. /\ r - l <= n - (k - 1) /\ \A a \in 1..l : qs[a].instr <= i
                  /\ \A a \in (r + 1)..n : qs[a].instr > i
                BY <1>1, <3>5 DEF Searches
            <4>2. r - (m + 1) <= n - k
                BY <1>2, <1>3, <2>3, <4>1
            <4>3. ASSUME NEW a \in 1..(m + 1)
                  PROVE  qs[a].instr <= i
                <5>1. a \in 1..n
                    BY <1>2, <2>4
                <5>2. a = m + 1 \/ qs[a].instr < qs[m + 1].instr
                    BY <1>1, <2>4, <5>1
                <5>. QED  BY <1>2, <2>4, <2>5, <5>1, <5>2
            <4>. QED  BY <1>1, <3>3, <3>4, <4>1, <4>2, <4>3 DEF Searches
        <3>. QED  BY <1>1, <3>2, <3>4, <3>5
    <2>6. CASE ~(i >= qs[m + 1].instr)
        <3>1. PICK u : u = [left |-> l, right |-> m]
            OBVIOUS
        <3>2. Bisected(qs, i, w) = u
            BY <1>1, <1>5, <2>1, <2>2, <2>6, <3>1 DEF Bisected
        <3>3. u.left = l /\ u.right = m
            BY <3>1
        <3>4. u \in Windows(n)
            <4>1. l \in 0..n /\ m \in 0..n /\ l <= m
                BY <1>2, <1>3, <2>3, <2>4
            <4>. QED  BY <3>1, <4>1 DEF Windows
        <3>5. ASSUME NEW k \in 1..n, Searches(qs, i, k - 1, w)
              PROVE  Searches(qs, i, k, u)
            <4>1. /\ r - l <= n - (k - 1) /\ \A a \in 1..l : qs[a].instr <= i
                  /\ \A a \in (r + 1)..n : qs[a].instr > i
                BY <1>1, <3>5 DEF Searches
            <4>2. m - l <= n - k
                BY <1>2, <1>3, <2>3, <4>1
            <4>3. ASSUME NEW a \in (m + 1)..n
                  PROVE  qs[a].instr > i
                <5>1. a \in 1..n
                    BY <1>2, <2>4
                <5>2. a = m + 1 \/ qs[m + 1].instr < qs[a].instr
                    BY <1>1, <2>4, <5>1
                <5>. QED  BY <1>2, <2>4, <2>6, <5>1, <5>2
            <4>. QED  BY <1>1, <3>3, <3>4, <4>1, <4>2, <4>3 DEF Searches
        <3>. QED  BY <1>1, <3>2, <3>4, <3>5
    <2>. QED  BY <2>5, <2>6
<1>. QED  BY <1>4, <1>5

SearchSteps(qs, i) ==
    [j \in 1..Len(qs) |-> [w \in Windows(Len(qs)) |-> Bisected(qs, i, w)]]

LEMMA FindQuarkIs ==
    ASSUME NEW p, NEW j \in Nat, NEW qs, Marks(p, j, qs), NEW i \in 1..j, p[i].line # NoLine
    PROVE  FindQuark(qs, i) # 0 /\ qs[FindQuark(qs, i)].line = p[i].line
<1>1. PICK N, V, z : N = Len(qs) /\ V = Windows(N) /\ z = [left |-> 0, right |-> N]
    OBVIOUS
<1>2. /\ qs \in Seq(Quark) /\ i \in Nat
      /\ \A a, b \in 1..Len(qs) : a < b => qs[a].instr < qs[b].instr
    BY DEF Marks
<1>3. N \in Nat /\ \A a \in 1..N : qs[a].instr \in Nat
    <2>1. N \in Nat /\ \A a \in 1..N : qs[a] \in Quark
        BY <1>1, <1>2, LenProperties, ElementOfSeq
    <2>. QED  BY <2>1 DEF Quark
<1>4. z \in V /\ Searches(qs, i, 0, z)
    <2>1. 0 \in 0..N /\ N \in 0..N /\ 0 <= N /\ 1..0 = {} /\ (N + 1)..N = {}
        BY <1>3
    <2>2. z \in V
        BY <1>1, <2>1 DEF Windows
    <2>3. N - 0 <= N - 0
        BY <1>3
    <2>. QED  BY <1>1, <2>1, <2>2, <2>3 DEF Searches
<1>5. PICK F : F = SearchSteps(qs, i)
    OBVIOUS
<1>6. /\ F \in [1..N -> [V -> V]]
      /\ \A k \in 1..N, v \in V : F[k][v] = Bisected(qs, i, v)
    <2>1. ASSUME NEW v \in V
          PROVE  Bisected(qs, i, v) \in V
        BY <1>1, <1>2, BisectedIs
    <2>2. F = [k \in 1..N |-> [v \in V |-> Bisected(qs, i, v)]]
        BY <1>1, <1>5 DEF SearchSteps
    <2>. QED  BY <2>1, <2>2
<1>7. PICK f : Stepwise(f, V, N, z, F)
    BY <1>3, <1>4, <1>6, Recursion
<1>8. /\ f \in [0..N -> V] /\ f[0] = z
      /\ \A k \in 1..N : f[k] = Bisected(qs, i, f[k - 1])
    <2>1. f \in [0..N -> V] /\ f[0] = z /\ \A k \in 1..N : f[k] = F[k][f[k - 1]]
        BY <1>7 DEF Stepwise
    <2>2. \A k \in 1..N : k - 1 \in 0..N
        BY <1>3
    <2>. QED  BY <1>6, <2>1, <2>2
<1>9. f = [k \in 0..N |-> IF k = 0 THEN z ELSE Bisected(qs, i, f[k - 1])]
    <2>1. \A k \in 0..N : k # 0 => k \in 1..N
        BY <1>3
    <2>2. f = [k \in 0..N |-> f[k]]
        BY <1>8
    <2>. QED  BY <1>8, <2>1, <2>2
<1>10. PICK sk : sk = CHOOSE g : g = [k \in 0..N |-> IF k = 0 THEN z
                                                     ELSE Bisected(qs, i, g[k - 1])]
    OBVIOUS
<1>11. sk = [k \in 0..N |-> IF k = 0 THEN z ELSE Bisected(qs, i, sk[k - 1])]
    BY <1>9, <1>10
<1>12. FindQuark(qs, i) = sk[N].left
    BY <1>1, <1>10 DEF FindQuark
<1>13. sk[0] = z /\ \A k \in 1..N : sk[k] = Bisected(qs, i, sk[k - 1])
    <2>1. 0 \in 0..N /\ \A k \in 1..N : k \in 0..N /\ k # 0
        BY <1>3
    <2>. QED  BY <1>11, <2>1
<1>14. \A k \in 0..N : Searches(qs, i, k, sk[k])
    <2>. DEFINE S == {k \in 0..N : ~Searches(qs, i, k, sk[k])}
    <2>1. CASE S = {}
        BY <2>1
    <2>2. CASE S # {}
        <3>1. PICK m \in S : \A n \in S : m <= n
            <4>1. S \subseteq Nat
                OBVIOUS
            <4>. HIDE DEF S
            <4>. QED  BY <2>2, <4>1, LeastNat
        <3>2. m \in 0..N /\ ~Searches(qs, i, m, sk[m])
            OBVIOUS
        <3>3. m \in 1..N
            BY <1>4, <1>13, <3>2
        <3>4. Searches(qs, i, m - 1, sk[m - 1])
            <4>1. m - 1 \in 0..N /\ ~(m <= m - 1)
                BY <1>3, <3>3
            <4>2. m - 1 \notin S
                <5>. HIDE DEF S
                <5>. QED  BY <3>1, <4>1
            <4>. QED  BY <4>1, <4>2
        <3>5. Searches(qs, i, m, sk[m])
            <4>1. PICK w : w = sk[m - 1]
                OBVIOUS
            <4>2. w \in Windows(Len(qs)) /\ Searches(qs, i, m - 1, w)
                BY <3>4, <4>1 DEF Searches
            <4>3. Searches(qs, i, m, Bisected(qs, i, w))
                BY <1>1, <1>2, <3>3, <4>2, BisectedIs
            <4>. QED  BY <1>13, <3>3, <4>1, <4>3
        <3>. QED  BY <3>2, <3>5
    <2>. QED  BY <2>1, <2>2
<1>15. PICK l, r : l = sk[N].left /\ r = sk[N].right
    OBVIOUS
<1>16. /\ l \in 0..N /\ r \in 0..N /\ l <= r /\ r - l <= N - N
       /\ \A a \in 1..l : qs[a].instr <= i
       /\ \A a \in (r + 1)..N : qs[a].instr > i
    <2>1. N \in 0..N
        BY <1>3
    <2>2. Searches(qs, i, N, sk[N])
        BY <1>14, <2>1
    <2>. QED  BY <1>1, <1>15, <2>2 DEF Searches, Windows
<1>17. l = r
    BY <1>3, <1>16
<1>18. PICK a \in 1..N : /\ qs[a].instr <= i /\ qs[a].line = p[i].line
                         /\ \A b \in (a + 1)..N : qs[b].instr > i
    BY <1>1 DEF Marks
<1>19. l = a
    <2>1. CASE l < a
        <3>1. a \in (r + 1)..N
            BY <1>3, <1>16, <1>17, <2>1
        <3>2. qs[a].instr > i /\ qs[a].instr \in Nat
            BY <1>3, <1>16, <3>1
        <3>. QED  BY <1>2, <1>18, <3>2
    <2>2. CASE a < l
        <3>1. l \in (a + 1)..N /\ l \in 1..l /\ l \in 1..N
            BY <1>3, <1>16, <2>2
        <3>2. qs[l].instr > i /\ qs[l].instr <= i /\ qs[l].instr \in Nat
            BY <1>3, <1>16, <1>18, <3>1
        <3>. QED  BY <1>2, <3>2
    <2>. QED  BY <1>3, <1>16, <2>1, <2>2
<1>. QED  BY <1>12, <1>15, <1>18, <1>19

LEMMA LinesAre == IInv => LinesFound
<1>1. ASSUME IInv, NEW i \in DOMAIN prog, prog[i].line # NoLine
      PROVE  /\ FindQuark(Quarks(prog), i) # 0
             /\ Quarks(prog)[FindQuark(Quarks(prog), i)].line = prog[i].line
    <2>1. prog \in Seq(Instr)
        BY <1>1 DEF IInv, TypeOK
    <2>2. i \in 1..Len(prog) /\ Len(prog) \in Nat
        BY <1>1, <2>1, LenProperties
    <2>3. PICK qs : qs = Quarks(prog)
        OBVIOUS
    <2>4. Marks(prog, Len(prog), qs)
        BY <2>1, <2>3, QuarksAre
    <2>. QED  BY <1>1, <2>2, <2>3, <2>4, FindQuarkIs
<1>. QED  BY <1>1 DEF LinesFound

(* find_quark's search in the table to_chunk has made of a program's lines
   ends, for every instruction that can fail, at the one of the instruction's
   line: a traceback names the line an error is of, whatever code was moved
   since it was emitted.                                                     *)
THEOREM CodegenLines == Spec => []LinesFound
BY Inductive, LinesAre, PTL
=============================================================================
