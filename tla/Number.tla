------------------------------- MODULE Number -------------------------------
(***************************************************************************)
(* Numbers (number.c, number.h, ntp.c) under the operators and natives     *)
(* that use them (vm.c, main.c).  A number is a counted object: a sign and *)
(* words, the least significant first, the lowest `scale' of them the      *)
(* fraction.  An operation takes over references to its operands and may   *)
(* write its result into an operand that nothing else refers to.           *)
(*                                                                         *)
(* A digit counts to D and a word holds LOG of them (10 and 9 or 19 in the *)
(* code).  The spans of words that libdeci works on are taken by value.    *)
(***************************************************************************)
EXTENDS Integers, Sequences, SequencesExt

CONSTANTS
    D, LOG,         \* the base of a digit, the digits of a word
    SIZE_MAX,       \* what number_to_zu makes of a number that is too large
    Bits,           \* the width of a uint32_t
    MaxWords,       \* bound: words of the operands of an operation
    MaxDigits,      \* bound: digits of a text on either side of the point
    Precs, Bases    \* bounds: decimal places, bases of texts

VARIABLES
    heap,       \* heap[a]: the object at address a, which is alive
    vars,       \* what two variables of the program refer to, 0 for no number
    stack,      \* the operands of the next operation, or the result of the last
    call,       \* the last operation
    out         \* its result when that is not a number, or the text it read

state == <<heap, vars, stack, call, out>>

ASSUME NumberAssumption ==
    /\ D \in Nat /\ D % 4 = 2 /\ LOG \in Nat \ {0}
    /\ SIZE_MAX \in Nat /\ Bits \in Nat /\ MaxWords \in Nat /\ MaxDigits \in Nat
    /\ Precs \subseteq Nat /\ Bases \subseteq Nat \ {0, 1}

BASE == D ^ LOG
Word == 0..(BASE - 1)

-----------------------------------------------------------------------------
(* Spans of words, and what libdeci makes of them.                          *)
IntOf(ws) ==
    LET from[i \in 1..(Len(ws) + 1)] ==
            IF i > Len(ws) THEN 0 ELSE ws[i] + BASE * from[i + 1]
    IN  from[1]

Words(n, k) == [i \in 1..k |-> (n \div BASE ^ (i - 1)) % BASE]
Zeros(k)    == [i \in 1..k |-> 0]

deci_normalize(ws) ==   \* without its leading zeros
    SubSeq(ws, 1, Max({0} \union {i \in DOMAIN ws : ws[i] # 0}))
deci_skip0(ws) ==       \* how many zeros it begins with, from the lowest
    Min({Len(ws)} \union {i - 1 : i \in {j \in DOMAIN ws : ws[j] # 0}})

fancy_div(wa, wb) ==    \* the words of the quotient
    LET na == Len(deci_normalize(wa))   nb == Len(deci_normalize(wb))
    IN  Words(IntOf(wa) \div IntOf(wb), IF na < nb THEN 0 ELSE na - nb + 1)
fancy_mod(wa, wb) == Words(IntOf(wa) % IntOf(wb), Len(wa))

-----------------------------------------------------------------------------
(* A number by itself.                                                      *)
Valid(n) == /\ n.scale <= Len(n.words)
            /\ n.scale < Len(n.words) => n.words[Len(n.words)] # 0

IntPart(n)  == SubSeq(n.words, n.scale + 1, Len(n.words))
FracPart(n) == SubSeq(n.words, 1, n.scale)
IntLen(n)   == Len(n.words) - n.scale

number_is_izero(n) == IntLen(n) = 0
number_is_fzero(n) == IntOf(FracPart(n)) = 0
number_is_zero(n)  == number_is_izero(n) /\ number_is_fzero(n)

number_to_zu(n) ==
    IF n.sign THEN (IF number_is_zero(n) THEN 0 ELSE SIZE_MAX)
    ELSE IF IntOf(IntPart(n)) > SIZE_MAX THEN SIZE_MAX ELSE IntOf(IntPart(n))

number_to_u32(n) ==
    (IF n.sign THEN -IntOf(IntPart(n)) ELSE IntOf(IntPart(n))) % (2 ^ Bits)

number_abs_eq_uword(n, w) ==
    IF w = 0 THEN number_is_zero(n)
    ELSE number_is_fzero(n) /\ IntPart(n) = <<w>>

number_new_from_zu(x) ==
    [sign |-> FALSE, scale |-> 0,
     words |-> deci_normalize(Words(x, 1 + x \div BASE))]

unsafe_strip(n, nwr, sr) ==
    LET ds == n.scale - sr
    IN  [n EXCEPT !.scale = sr, !.words = SubSeq(@, ds + 1, ds + nwr)]

normalize_fraction(n) ==    \* mutant: the integer part keeps its zeros
    LET sr == n.scale - deci_skip0(FracPart(n))
    IN  unsafe_strip(n, sr + IntLen(n), sr)
unsafe_normalize_full(n) ==
    LET sr == n.scale - deci_skip0(FracPart(n))
    IN  unsafe_strip(n, sr + Len(deci_normalize(IntPart(n))), sr)

unsafe_push_word(n, w) == [n EXCEPT !.words = Append(@, w)]

Product(x, y) ==
    unsafe_normalize_full(
        [sign |-> x.sign # y.sign, scale |-> x.scale + y.scale,
         words |-> Words(IntOf(x.words) * IntOf(y.words), Len(x.words) + Len(y.words))])

(* How many decimal places to keep, as whole words and what the lowest of
   them has to be a multiple of.                                            *)
ntp_keeping_rest(prec) ==               \* mutant: the digits to cut, not to keep
    [scale |-> (prec + LOG - 1) \div LOG,
     submod |-> IF prec % LOG = 0 THEN 1 ELSE D ^ (prec % LOG)]
ntp_from_prec(prec) ==
    LET q == prec \div LOG   r == prec % LOG
    IN  IF r = 0 THEN [scale |-> q, submod |-> 1]
        ELSE [scale |-> q + 1, submod |-> D ^ (LOG - r)]

word_ctz(x) == Max({k \in 0..LOG : x % 2 ^ k = 0})
ntp_to_prec(ntp) == ntp.scale * LOG - word_ctz(ntp.submod)

unsafe_normalize_after_div(n, quotient, ntp) ==
    LET int  == SubSeq(quotient, n.scale + 1, Len(quotient))
        frac == SubSeq(quotient \o Zeros(n.scale), 1, n.scale)
        full == [n EXCEPT !.words = frac \o deci_normalize(int)]
        cut  == unsafe_strip(full, Len(full.words) - n.scale + ntp.scale, ntp.scale)
    IN  IF n.scale < ntp.scale THEN full
        ELSE IF ntp.scale = 0 THEN cut
        ELSE [cut EXCEPT !.words[1] = @ - (@ % ntp.submod)]

unsafe_normalize_after_idiv(n, ws) == [n EXCEPT !.scale = 0, !.words = deci_normalize(ws)]

(* number_compare and compare_abs.                                          *)
Less == 1
Equal == 2
Greater == 4

compare_abs(x, y) ==
    LET s      == Max({x.scale, y.scale})
        X      == Zeros(s - x.scale) \o x.words
        Y      == Zeros(s - y.scale) \o y.words
        differ == {i \in DOMAIN X : X[i] # Y[i]}
    IN  IF IntLen(x) # IntLen(y) THEN IF IntLen(x) < IntLen(y) THEN Less ELSE Greater
        ELSE IF differ = {} THEN Equal
        ELSE IF X[Max(differ)] < Y[Max(differ)] THEN Less ELSE Greater

number_compare_signs(x, y) ==           \* mutant: no thought of -0
    IF x.sign = y.sign
    THEN IF x.sign THEN compare_abs(y, x) ELSE compare_abs(x, y)
    ELSE IF x.sign THEN Less ELSE Greater

number_compare(x, y) ==
    IF x.sign = y.sign
    THEN IF x.sign THEN compare_abs(y, x) ELSE compare_abs(x, y)
    ELSE IF number_is_zero(x) /\ number_is_zero(y) THEN Equal
    ELSE IF x.sign THEN Less ELSE Greater

-----------------------------------------------------------------------------
(* References: a heap and the address in it that a reference names.         *)
At(h, a) == [heap |-> h, at |-> a]
Num(w)   == w.heap[w.at].num
Put(w, n) == [w EXCEPT !.heap[w.at].num = n]

Ref(h, a)   == [h EXCEPT ![a].nrefs = @ + 1]
Unref(h, a) == IF h[a].nrefs > 1 THEN [h EXCEPT ![a].nrefs = @ - 1]
               ELSE [x \in DOMAIN h \ {a} |-> h[x]]

allocate(h, n) ==
    LET a == CHOOSE i \in 1..(Cardinality(DOMAIN h) + 1) : i \notin DOMAIN h
    IN  At([x \in DOMAIN h \union {a} |->
               IF x = a THEN [nrefs |-> 1, num |-> n] ELSE h[x]], a)

(* The object itself when this is the only reference, else a copy, for which
   the reference is given up.  mkuniq_scale_* and mkuniq_extend copy into a
   span of another length on the way.                                       *)
mkuniq_never(w) == w        \* mutant: written in place whoever refers to it
mkuniq(w) ==
    IF w.heap[w.at].nrefs = 1 THEN w
    ELSE LET copy == allocate(w.heap, Num(w))
         IN  At(Unref(copy.heap, w.at), copy.at)

ScaledDown(n, sr) == [n EXCEPT !.scale = sr, !.words = SubSeq(@, n.scale - sr + 1, Len(@))]
ScaledUp(n, sr)   == [n EXCEPT !.scale = sr, !.words = Zeros(sr - n.scale) \o @]
Extended(n, nwords) == [n EXCEPT !.words = @ \o Zeros(nwords - Len(@))]

mkuniq_scale_down(w, sr)  == Put(mkuniq(w), ScaledDown(Num(w), sr))
mkuniq_scale_up(w, sr)    == Put(mkuniq(w), ScaledUp(Num(w), sr))
mkuniq_extend(w, nwords)  == Put(mkuniq(w), Extended(Num(w), nwords))

(* What an operation leaves when it has written n and is done with b.       *)
WrittenKeepsB(own, n, b) == At(Put(own, n).heap, own.at)    \* mutant: b leaks
Written(own, n, b) == At(Unref(Put(own, n).heap, b), own.at)

(* a gets the digits of both, aligned at the point.  Only then are the words
   of b read.                                                               *)
Aligned(h, a, b) ==
    LET x == h[a].num   y == h[b].num
    IN  IF IntLen(x) < IntLen(y) THEN mkuniq_extend(At(h, a), x.scale + IntLen(y))
        ELSE IF x.scale < y.scale THEN mkuniq_scale_up(At(h, a), y.scale)
        ELSE mkuniq(At(h, a))

(* The words of x above its lowest, under those of y.                       *)
Sum(x, low, wb) ==
    LET high  == SubSeq(x.words, low + 1, Len(x.words))
        total == IntOf(high) + IntOf(wb)
        carry == IF total < BASE ^ Len(high) THEN 0 ELSE 1
    IN  [x EXCEPT !.words = SubSeq(@, 1, low) \o Words(total, Len(high) + carry)]

DifferenceKeepsSign(x, low, wb) ==      \* mutant: no new sign after a borrow
    LET diff == IntOf(x.words) - BASE ^ low * IntOf(wb)
        ws   == Words(IF diff < 0 THEN -diff ELSE diff, Len(x.words))
    IN  [x EXCEPT !.words = SubSeq(ws, 1, x.scale)
                            \o deci_normalize(SubSeq(ws, x.scale + 1, Len(ws)))]

Difference(x, low, wb) ==
    LET len  == Len(x.words)
        diff == IntOf(x.words) - BASE ^ low * IntOf(wb)
        abs  == IF diff < 0 THEN -diff ELSE diff
        ws   == Words(abs, len)
        int  == SubSeq(ws, x.scale + 1, len)
    IN  [x EXCEPT !.sign = @ # (diff < 0),
                  !.words = SubSeq(ws, 1, x.scale) \o deci_normalize(int)]

do_add_or_sub(h, left, right, add) ==
    LET nwa  == Len(h[left].num.words)
        nwb  == Len(h[right].num.words)
        swap == nwa < nwb \/ (nwa = nwb /\ h[right].nrefs = 1)
        a    == IF swap THEN right ELSE left
        b    == IF swap THEN left ELSE right
        own  == Aligned(h, a, b)
        x    == Num(own)
        y    == own.heap[b].num
        r    == IF (x.sign = y.sign) = add THEN Sum(x, x.scale - y.scale, y.words)
                ELSE Difference(x, x.scale - y.scale, y.words)
    IN  Written(own, [r EXCEPT !.sign = @ # (swap /\ ~add)], b)

number_add(h, a, b) == do_add_or_sub(h, a, b, TRUE)
number_sub(h, a, b) == do_add_or_sub(h, a, b, FALSE)

PlusUword(n, b) ==
    LET total == IntOf(IntPart(n)) + b
        carry == IF total < BASE ^ IntLen(n) THEN 0 ELSE 1
    IN  [n EXCEPT !.words = FracPart(n) \o Words(total, IntLen(n) + carry)]

TimesUwordNoPush(n, b) ==               \* mutant: the high word is lost
    [n EXCEPT !.words = Words(IntOf(@) * b, Len(@))]

TimesUword(n, b) ==
    LET product == IntOf(n.words) * b
        hi      == product \div BASE ^ Len(n.words)
        r       == [n EXCEPT !.words = Words(product, Len(@))]
    IN  IF hi = 0 THEN r ELSE unsafe_push_word(r, hi)

number_abs_add_uword(w, b) ==
    IF b = 0 THEN w ELSE Put(mkuniq(w), PlusUword(Num(w), b))

number_mul_uword(w, b) ==
    IF b = 0 THEN allocate(Unref(w.heap, w.at), number_new_from_zu(0))
    ELSE Put(mkuniq(w), TimesUword(Num(w), b))

number_mul(h, a, b) ==
    LET r == allocate(h, Product(h[a].num, h[b].num))
    IN  At(Unref(Unref(r.heap, a), b), r.at)

(* b multiplied into its square or not, once per bit of e below the highest. *)
Power(n, e) ==
    LET b == unsafe_normalize_full(n)
        upto[k \in 1..e] ==
            IF k = 1 THEN b
            ELSE LET sqr == Product(upto[k \div 2], upto[k \div 2])
                 IN  IF k % 2 = 0 THEN sqr ELSE Product(sqr, b)
    IN  upto[e]

number_pow_zu(w, e) ==
    IF e = 0 THEN allocate(Unref(w.heap, w.at), number_new_from_zu(1))
    ELSE Put(mkuniq(w), Power(Num(w), e))

div_prepare(n, mul_base_pow, min_scale) ==
    LET sr == Max({min_scale, n.scale})
    IN  [ScaledUp(n, sr + mul_base_pow) EXCEPT !.scale = sr]

Quotient(x, y, ntp) ==
    LET n == [div_prepare(x, y.scale, ntp.scale) EXCEPT !.sign = @ # y.sign]
    IN  unsafe_normalize_after_div(n, fancy_div(n.words, y.words), ntp)

number_div(h, a, b, ntp) ==
    LET own == mkuniq(At(h, a))
    IN  Written(own, Quotient(Num(own), own.heap[b].num, ntp), b)

number_idiv(h, a, b) ==
    LET own == mkuniq_scale_down(At(h, a), 0)
        y   == own.heap[b].num
        n   == [Num(own) EXCEPT !.sign = @ # y.sign]
    IN  Written(own, unsafe_normalize_after_idiv(n, fancy_div(n.words, IntPart(y))), b)

number_imod(h, a, b) ==
    LET own == mkuniq_scale_down(At(h, a), 0)
        n   == Num(own)
        y   == own.heap[b].num
    IN  Written(own, unsafe_normalize_after_idiv(n, fancy_mod(n.words, IntPart(y))), b)

number_negate(w) ==
    LET own == mkuniq(w) IN Put(own, [Num(own) EXCEPT !.sign = ~@])

number_trunc(w) == mkuniq_scale_down(w, 0)

number_floor_always(w) ==               \* mutant: the fraction is not looked at
    mkuniq_scale_down(IF Num(w).sign THEN number_abs_add_uword(w, 1) ELSE w, 0)

number_floor(w) ==
    mkuniq_scale_down(
        IF Num(w).sign /\ ~number_is_fzero(Num(w)) THEN number_abs_add_uword(w, 1) ELSE w,
        0)

number_ceil(w) ==
    mkuniq_scale_down(
        IF ~Num(w).sign /\ ~number_is_fzero(Num(w)) THEN number_abs_add_uword(w, 1) ELSE w,
        0)

number_round(w) ==
    LET n == Num(w)
    IN  mkuniq_scale_down(
            IF n.scale > 0 /\ n.words[n.scale] >= BASE \div 2
            THEN number_abs_add_uword(w, 1) ELSE w,
            0)

number_frac(w) ==
    LET own == mkuniq(w)   n == Num(own)
    IN  Put(own, unsafe_strip(n, n.scale, n.scale))

number_scale_down(w, k) ==
    LET q    == k \div LOG   r == k % LOG
        n    == Num(w)
        own  == mkuniq_extend(w, Max({Len(n.words), n.scale + q}))
        ws   == Num(own).words
        f    == D ^ r
        m    == IntOf(ws) % f
        quot == Put(own, [n EXCEPT !.scale = @ + q,
                                   !.words = Words(IntOf(ws) \div f, Len(ws))])
        rest == mkuniq_scale_up(quot, n.scale + q + 1)
        done == IF m = 0 THEN quot
                ELSE Put(rest, [Num(rest) EXCEPT !.words[1] = m * D ^ (LOG - r)])
    IN  Put(done, unsafe_normalize_full(Num(done)))

number_scale_up(w, k) ==
    LET q    == k \div LOG   r == k % LOG
        own  == mkuniq_scale_up(w, Max({Num(w).scale, q}))
        down == [Num(own) EXCEPT !.scale = @ - q]
        done == Put(own, unsafe_normalize_full(down))
    IN  IF r = 0 THEN done ELSE number_mul_uword(done, D ^ r)

-----------------------------------------------------------------------------
(* Texts: digits before and after the point, the highest first.             *)
Digits(base, k) == UNION {[1..i -> 0..(base - 1)] : i \in 0..k}
Numeral(base)   == [neg : BOOLEAN, int : Digits(base, MaxDigits),
                                   frac : Digits(base, MaxDigits)]

DigitsValue(ds, base) ==
    LET upto[i \in 0..Len(ds)] == IF i = 0 THEN 0 ELSE base * upto[i - 1] + ds[i]
    IN  upto[Len(ds)]

NoLeading(ds)  == SubSeq(ds, Min({Len(ds) + 1} \union {i \in DOMAIN ds : ds[i] # 0}), Len(ds))
NoTrailing(ds) == SubSeq(ds, 1, Max({0} \union {i \in DOMAIN ds : ds[i] # 0}))

word2str(w)   == [j \in 1..LOG |-> (w \div D ^ (LOG - j)) % D]
write_seq(ws) ==        \* the digits of words, the highest word first
    [j \in 1..(LOG * Len(ws)) |->
        word2str(ws[Len(ws) - (j - 1) \div LOG])[((j - 1) % LOG) + 1]]

Nought(t) == t.int = <<0>> /\ t.frac = <<>>
finalize_tostring(t) == [t EXCEPT !.neg = @ /\ ~Nought(t)]

number_tostring(n) ==
    finalize_tostring(
        [neg  |-> n.sign,
         int  |-> IF IntLen(n) = 0 THEN <<0>> ELSE NoLeading(write_seq(IntPart(n))),
         frac |-> NoTrailing(write_seq(FracPart(n)))])

(* Word by word: the highest without leading zeros, the lowest that is not
   zero without trailing ones.                                              *)
number_write(n) ==
    LET int  == IntPart(n)
        rest == SubSeq(FracPart(n), deci_skip0(FracPart(n)) + 1, n.scale)
    IN  [neg  |-> n.sign /\ ~number_is_zero(n),
         int  |-> IF int = <<>> THEN <<0>>
                  ELSE NoLeading(word2str(int[Len(int)])) \o write_seq(Front(int)),
         frac |-> IF rest = <<>> THEN <<>>
                  ELSE write_seq(Tail(rest)) \o NoTrailing(word2str(rest[1]))]

(* Division and multiplication by the base, over and over.                  *)
number_tostring_base(n, base, nfrac) ==
    LET one == BASE ^ n.scale
        left[i \in 0..nfrac] ==
            IF i = 0 THEN IntOf(FracPart(n)) ELSE (left[i - 1] * base) % one
        low[i \in Nat] == IF i = 0 THEN <<>> ELSE <<i % base>> \o low[i \div base]
        int == low[IntOf(IntPart(n))]
    IN  finalize_tostring(
            [neg  |-> n.sign,
             int  |-> IF int = <<>> THEN <<0>> ELSE Reverse(int),
             frac |-> NoTrailing([i \in 1..nfrac |-> (left[i - 1] * base) \div one])])

parse_nchars_to_nwords(k) == k \div LOG + (IF k % LOG = 0 THEN 0 ELSE 1)
parse_word(ds)     == DigitsValue(ds, D)
parse_word_unpadded(ds) == parse_word(ds)       \* mutant
parse_word_pad(ds) == parse_word(ds) * D ^ (LOG - Len(ds))

(* Words are cut from the point outwards.                                   *)
parse_int_part(ds) ==
    [i \in 1..parse_nchars_to_nwords(Len(ds)) |->
        parse_word(SubSeq(ds, Max({1, Len(ds) - i * LOG + 1}), Len(ds) - (i - 1) * LOG))]
parse_frac_part(ds) ==
    LET k == parse_nchars_to_nwords(Len(ds))
    IN  [i \in 1..k |->
            parse_word_pad(SubSeq(ds, (k - i) * LOG + 1, Min({Len(ds), (k - i + 1) * LOG})))]

number_parse(t) ==
    LET frac == parse_frac_part(NoTrailing(t.frac))
    IN  [sign |-> t.neg, scale |-> Len(frac),
         words |-> frac \o parse_int_part(NoLeading(t.int))]

(* Its numbers are its own, so each is written in place.                    *)
number_parse_base(t, base, ntp) ==
    LET digits == t.int \o t.frac
        read[i \in 0..Len(digits)] ==
            IF i = 0 THEN number_new_from_zu(0)
            ELSE LET shifted == TimesUword(read[i - 1], base)
                 IN  IF digits[i] = 0 THEN shifted ELSE PlusUword(shifted, digits[i])
        a == IF t.frac = <<>> THEN read[Len(digits)]
             ELSE Quotient(read[Len(digits)],
                           Power(number_new_from_zu(base), Len(t.frac)), ntp)
    IN  [a EXCEPT !.sign = @ # t.neg]

number_nintdigits(n) ==
    IF IntLen(n) = 0 THEN 0
    ELSE (IntLen(n) - 1) * LOG + Len(NoLeading(word2str(n.words[Len(n.words)])))

number_nfracdigits(n) ==
    LET k == deci_skip0(FracPart(n))
    IN  IF k = n.scale THEN 0
        ELSE (n.scale - k - 1) * LOG + Len(NoTrailing(word2str(n.words[k + 1])))

-----------------------------------------------------------------------------
(* A program pushes the numbers of its variables, or texts it reads; an
   operator or a native takes them from the pad; meanwhile the variables may
   be assigned something else.                                              *)
Nothing == [kind |-> "nothing"]
Error   == [kind |-> "error"]
Panic   == [kind |-> "panic"]

Numbers(k) ==   \* of at most k words
    {n \in [sign : BOOLEAN, scale : 0..k, words : UNION {[1..i -> Word] : i \in 0..k}] :
        Valid(n)}
Single == Numbers(MaxWords)
Small  == Numbers(MaxWords - 1)
Pair(x, y) == Len(x.words) + Len(y.words) <= MaxWords

Init ==
    /\ call = "none" /\ out = Nothing
    /\ \/ /\ \E x, y \in Small :
                /\ Pair(x, y)
                /\ heap = <<[nrefs |-> 2, num |-> x], [nrefs |-> 2, num |-> y]>>
          /\ vars = <<1, 2>> /\ stack = <<1, 2>>
       \/ /\ \E x \in Single : heap = <<[nrefs |-> 2, num |-> x]>>
          /\ vars = <<1, 0>> /\ stack = <<1>>
       \/ heap = <<>> /\ vars = <<0, 0>> /\ stack = <<>>

Forget(v) ==
    /\ vars[v] # 0
    /\ vars' = [vars EXCEPT ![v] = 0] /\ heap' = Unref(heap, vars[v])
    /\ UNCHANGED <<stack, call, out>>

(* The program goes on with the result of an operation.                     *)
GoOn ==
    /\ call # "none" /\ Len(stack) = 1
    /\ call' = "none" /\ out' = Nothing /\ UNCHANGED <<heap, vars, stack>>

(* Bound: a result becomes an operand next to a variable if no third number
   is alive, and by itself if no other is.                                  *)
Load(v) ==
    /\ call = "none" /\ Len(stack) = 1
    /\ vars[v] # 0 /\ Cardinality(DOMAIN heap) <= 2
    /\ Pair(heap[stack[1]].num, heap[vars[v]].num)
    /\ stack' = Append(stack, vars[v]) /\ heap' = Ref(heap, vars[v])
    /\ UNCHANGED <<vars, call, out>>

One == /\ call = "none" /\ Len(stack) = 1 /\ DOMAIN heap = {stack[1]}
       /\ Len(heap[stack[1]].num.words) <= MaxWords

Two == Len(stack) = 2
lhs == stack[1]
rhs == stack[2]
Left  == heap[lhs].num
Right == heap[rhs].num

Dropped(h) == IF Two THEN Unref(Unref(h, lhs), rhs) ELSE Unref(h, lhs)

Returns(name, w) ==
    /\ heap' = w.heap /\ stack' = <<w.at>>
    /\ call' = name /\ out' = Nothing /\ UNCHANGED vars

(* Also when the pad is torn down after an error.                           *)
Yields(name, o) ==
    /\ heap' = Dropped(heap) /\ stack' = <<>>
    /\ call' = name /\ out' = o /\ UNCHANGED vars

(* A native borrows its arguments: it takes a reference of its own for what
   it calls, and the arguments go when it has returned.                     *)
NativeReturns(name, w) == Returns(name, At(Dropped(w.heap), w.at))
Argument == At(Ref(heap, lhs), lhs)

(* perform_aop, do_pow, perform_cmp_3way, perform_neg.                      *)
Add == Two /\ Returns("add", number_add(heap, lhs, rhs))
Sub == Two /\ Returns("sub", number_sub(heap, lhs, rhs))
Mul == Two /\ Returns("mul", number_mul(heap, lhs, rhs))

(* After Scale(prec).                                                       *)
Div(prec) ==
    /\ Two
    /\ IF number_is_zero(Right) THEN Yields("div", Error)
       ELSE Returns("div", number_div(heap, lhs, rhs, ntp_from_prec(prec)))

IDiv == /\ Two
        /\ IF number_is_izero(Right) THEN Yields("idiv", Error)
           ELSE Returns("idiv", number_idiv(heap, lhs, rhs))

Mod == /\ Two
       /\ IF number_is_izero(Right) THEN Yields("mod", Error)
          ELSE Returns("mod", number_imod(heap, lhs, rhs))

(* number_pow panics, which ends the process, at an exponent that is too
   large, unless it makes no difference.                                    *)
BadExponent(n) == (n.sign /\ ~number_is_zero(n)) \/ ~number_is_fzero(n)

Pow ==
    LET x     == number_to_zu(Right)
        alone == At(Unref(heap, rhs), lhs)
        kept  == number_is_zero(Left) \/ (Left.sign /\ number_to_u32(Right) % 2 = 1)
    IN  /\ Two
        /\ IF BadExponent(Right) THEN Yields("pow", Error)
           ELSE IF x # SIZE_MAX THEN Returns("pow", number_pow_zu(alone, x))
           ELSE IF ~number_is_zero(Left) /\ ~number_abs_eq_uword(Left, 1)
           THEN Yields("pow", Panic)
           ELSE Returns("pow", IF kept THEN alone
                               ELSE allocate(Dropped(heap), number_new_from_zu(1)))

BitOf(x, i) == (x \div 2 ^ i) % 2
Combined(f, p, q) ==
    CASE f = "and" -> p * q [] f = "or" -> p + q - p * q [] f = "xor" -> (p + q) % 2

BitWise(f, x, y) ==
    LET from[i \in 0..Bits] ==
            IF i = Bits THEN 0
            ELSE Combined(f, BitOf(x, i), BitOf(y, i)) * 2 ^ i + from[i + 1]
    IN  from[0]

number_bit_op(f, x, y) ==
    CASE f = "shl"  -> IF y < Bits THEN (x * 2 ^ y) % (2 ^ Bits) ELSE 0
      [] f = "lshr" -> IF y < Bits THEN x \div 2 ^ y ELSE 0
      [] OTHER      -> BitWise(f, x, y)

BitOp(f) ==
    LET z == number_bit_op(f, number_to_u32(Left), number_to_u32(Right))
    IN  Two /\ Returns(f, allocate(Dropped(heap), number_new_from_zu(z)))

Compare == Two /\ Yields("compare", [kind |-> "order", is |-> number_compare(Left, Right)])

Negate == One /\ Returns("negate", number_negate(At(heap, lhs)))

(* X_Trunc, X_Floor, X_Ceil, X_Round, X_Frac.                               *)
Trunc == One /\ NativeReturns("trunc", number_trunc(Argument))
Floor == One /\ NativeReturns("floor", number_floor(Argument))
Ceil  == One /\ NativeReturns("ceil",  number_ceil(Argument))
Round == One /\ NativeReturns("round", number_round(Argument))
Frac  == One /\ NativeReturns("frac",  number_frac(Argument))

(* X_DownScale, X_UpScale; guard_magnitude.                                 *)
DownScale ==
    LET mag == number_to_zu(Right)
    IN  /\ Two
        /\ IF mag = SIZE_MAX THEN Yields("down", Error)
           ELSE NativeReturns("down", number_scale_down(Argument, mag))
UpScale ==
    LET mag == number_to_zu(Right)
    IN  /\ Two
        /\ IF mag = SIZE_MAX THEN Yields("up", Error)
           ELSE NativeReturns("up", number_scale_up(Argument, mag))

(* X_Scale: set to a number, and read back.                                 *)
Scale ==
    LET p    == number_to_zu(Left)
        back == allocate(Dropped(heap), number_new_from_zu(ntp_to_prec(ntp_from_prec(p))))
    IN  /\ One
        /\ IF p = SIZE_MAX THEN Yields("scale", Error) ELSE Returns("scale", back)

NumDigits(what) ==
    LET i == number_nintdigits(Left)   f == number_nfracdigits(Left)
        n == CASE what = "i" -> i [] what = "f" -> f [] what = "+" -> i + f
    IN  One /\ Returns(what, allocate(Dropped(heap), number_new_from_zu(n)))

Text(t) == [kind |-> "text", text |-> t]

ToText == One /\ Yields("text", Text(number_tostring(Left)))
Write    == One /\ Yields("text", Text(number_write(Left)))
Encode(base, nfrac) ==
    One /\ Yields("encode", Text(number_tostring_base(Left, base, nfrac)))

Reading == call = "none" /\ stack = <<>>
HasDigit(t) == t.int # <<>> \/ t.frac # <<>>

Reads(name, text, w) ==
    IF HasDigit(text.text) THEN /\ heap' = w.heap /\ stack' = <<w.at>>
                                /\ call' = name /\ out' = text /\ UNCHANGED vars
    ELSE call' = name /\ out' = Error /\ UNCHANGED <<heap, vars, stack>>

(* X_ToNumber and X_Decode; number_parse_base_validate wants a digit.       *)
ToNumber(t) == Reads("tonumber", Text(t), allocate(heap, number_parse(t)))

Decode(t, base, prec) ==
    Reads("decode", [kind |-> "digits", text |-> t, base |-> base, prec |-> prec],
          allocate(heap, number_parse_base(t, base, ntp_from_prec(prec))))

Binary ==
    \/ Add \/ Sub \/ Mul \/ IDiv \/ Mod \/ Pow \/ Compare \/ UpScale \/ DownScale
    \/ \E prec \in Precs : Div(prec)
    \/ \E f \in {"and", "or", "xor", "shl", "lshr"} : BitOp(f)

Unary ==
    \/ Negate \/ Trunc \/ Floor \/ Ceil \/ Round \/ Frac \/ Scale \/ ToText \/ Write
    \/ \E what \in {"i", "f", "+"} : NumDigits(what)
    \/ \E base \in Bases, nfrac \in Precs : Encode(base, nfrac)

Read ==
    /\ Reading
    /\ \/ \E t \in Numeral(D) : ToNumber(t)
       \/ \E base \in Bases, prec \in Precs : \E t \in Numeral(base) : Decode(t, base, prec)

Next ==
    /\ out # Panic
    /\ \/ GoOn
       \/ \E v \in {1, 2} : Forget(v) \/ Load(v)
       \/ Binary
       \/ Unary
       \/ Read

Spec == Init /\ [][Next]_state

-----------------------------------------------------------------------------
(* Numbers are as number.h has it: at least as many words as the scale, no
   leading zero in the integer part.                                        *)
TypeOK ==
    /\ \A p \in DOMAIN heap :
          /\ heap[p].nrefs > 0
          /\ heap[p].num.scale \in Nat /\ heap[p].num.sign \in BOOLEAN
          /\ heap[p].num.words \in Seq(Word)
          /\ Valid(heap[p].num)
    /\ vars \in [{1, 2} -> {0} \union DOMAIN heap]
    /\ stack \in Seq(DOMAIN heap)

(* Every object lives as long as something refers to it, no longer.         *)
CountsExact ==
    \A p \in DOMAIN heap :
        heap[p].nrefs = Cardinality({v \in {1, 2} : vars[v] = p})
                        + Cardinality({i \in DOMAIN stack : stack[i] = p})

(* What a variable refers to is never written into, whatever operation has
   the same object as one of its operands, or as both.                     *)
VariablesKept ==
    [][\A v \in {1, 2} : vars'[v] # 0 => heap'[vars'[v]].num = heap[vars[v]].num]_state

-----------------------------------------------------------------------------
(* What an operation returns, in whole numbers: Scaled(n, s) is n * BASE^s. *)
Signed(n, k) == IF n.sign THEN -k ELSE k
Mag(n)       == IntOf(n.words)
Scaled(n, s) == Signed(n, Mag(n) * BASE ^ (s - n.scale))
Whole(n)     == Signed(n, Mag(n) \div BASE ^ n.scale)     \* TO_INTEGER
Integral(n)  == Mag(n) % BASE ^ n.scale = 0
Uint32(n)    == Whole(n) % (2 ^ Bits)
Abs(k)       == IF k < 0 THEN -k ELSE k
Below0(n)    == n.sign /\ Mag(n) # 0

Result  == heap'[stack'[1]].num
Is(f)   == call = "none" /\ call' = f
Fails   == stack' = <<>>
OfTwo   == Max({Left.scale, Right.scale})
OfThree == Max({OfTwo, Result.scale})

(* + and - are exact, whatever the signs and the alignment of the operands,
   and whichever of them the result is written into.                        *)
SumsExact ==
    [][/\ Is("add") => Scaled(Result, OfThree) = Scaled(Left, OfThree) + Scaled(Right, OfThree)
       /\ Is("sub") => Scaled(Result, OfThree) = Scaled(Left, OfThree) - Scaled(Right, OfThree)
      ]_state

(* *, ** and the scaling natives are exact; 0 ** 0 is 1; ** throws if the
   exponent is negative or has a fraction, and knows 0, 1 and -1 to the power
   of anything.                                                             *)
Raised(k, e) == IF e = 0 THEN 1 ELSE k ^ e
Unit(n)     == Mag(n) \in {0, BASE ^ n.scale}
Parity(n, e) == IF Mag(n) = 0 THEN 0 ELSE IF n.sign /\ e % 2 = 1 THEN -1 ELSE 1

PowExact ==
    LET e == Whole(Right)
    IN  IF e < 0 \/ ~Integral(Right) THEN Fails /\ out' = Error
        ELSE IF e < SIZE_MAX
        THEN Scaled(Result, Left.scale * e) = Raised(Signed(Left, Mag(Left)), e)
        ELSE IF ~Unit(Left) THEN Fails /\ out' = Panic
        ELSE Scaled(Result, Result.scale) = Parity(Left, e) * BASE ^ Result.scale

ScaleExact(up) ==
    LET k == Whole(Right)
    IN  IF Below0(Right) \/ k >= SIZE_MAX THEN Fails /\ out' = Error
        ELSE IF up THEN Scaled(Result, OfThree) = Scaled(Left, OfThree) * D ^ k
        ELSE Scaled(Result, OfThree) * D ^ k = Scaled(Left, OfThree)

ProductsExact ==
    [][/\ Is("mul") => Scaled(Result, Left.scale + Right.scale)
                         = Signed(Left, Mag(Left)) * Signed(Right, Mag(Right))
       /\ Is("pow")  => PowExact
       /\ Is("up")   => ScaleExact(TRUE)
       /\ Is("down") => ScaleExact(FALSE)]_state

(* / is the quotient cut to the scale, // and % are quotient and remainder of
   the integer parts, all towards zero; they throw if and only if the divisor
   they see is zero.                                                        *)
DivTruncates(prec) ==
    LET over  == Mag(Left) * BASE ^ Right.scale * D ^ prec
        under == Mag(Right) * BASE ^ Left.scale
    IN  IF under = 0 THEN Fails /\ out' = Error
        ELSE /\ Mag(Result) * D ^ prec = BASE ^ Result.scale * (over \div under)
             /\ Mag(Result) # 0 => Result.sign = (Left.sign # Right.sign)

QuotientsTruncated ==
    [][/\ Is("div") => \A prec \in Precs : Div(prec) => DivTruncates(prec)
       /\ Is("idiv") => IF Whole(Right) = 0 THEN Fails /\ out' = Error
                         ELSE LET q == Abs(Whole(Left)) \div Abs(Whole(Right))
                              IN  /\ Mag(Result) = q /\ Result.scale = 0
                                  /\ q # 0 => Result.sign = (Left.sign # Right.sign)
       /\ Is("mod") => IF Whole(Right) = 0 THEN Fails /\ out' = Error
                        ELSE LET m == Abs(Whole(Left)) % Abs(Whole(Right))
                             IN  Result.scale = 0 /\ Whole(Result) = Signed(Left, m)]_state

(* Rounding; frac of what is not negative (for the rest see FracAsDocumented);
   the bit operators, bit by bit, on the uint32_t they see; Scale keeps what
   it was given.                                                            *)
Toward(n, up) ==    \* the whole number next to n that is further out, if up
    Signed(n, Abs(Whole(n)) + (IF up THEN 1 ELSE 0))

FracOf(n) == Scaled(n, n.scale) - Whole(n) * BASE ^ n.scale     \* n - trunc(n)

Ones(k) == {i \in 0..(Bits - 1) : (k \div 2 ^ i) % 2 = 1}

OnesOf(f, k, by) ==
    LET x == Ones(k)   y == Ones(by)
    IN  CASE f = "and"  -> x \intersect y
          [] f = "or"   -> x \union y
          [] f = "xor"  -> (x \ y) \union (y \ x)
          [] f = "shl"  -> {i \in 0..(Bits - 1) : i - by \in x}
          [] f = "lshr" -> {i \in 0..(Bits - 1) : i + by \in x}

IntegersRight ==
    [][/\ Is("trunc") => Scaled(Result, 0) = Whole(Left)
       /\ Is("floor") => Scaled(Result, 0) = Toward(Left, Left.sign /\ ~Integral(Left))
       /\ Is("ceil")  => Scaled(Result, 0) = Toward(Left, ~Left.sign /\ ~Integral(Left))
       /\ Is("round") => Scaled(Result, 0)
            = Toward(Left, 2 * (Mag(Left) % BASE ^ Left.scale) >= BASE ^ Left.scale
                           /\ Left.scale > 0)
       /\ Is("frac") /\ ~Below0(Left) => Scaled(Result, Left.scale) = FracOf(Left)
       /\ \A f \in {"and", "or", "xor", "shl", "lshr"} :
            Is(f) => /\ Scaled(Result, 0) \in 0..(2 ^ Bits - 1)
                     /\ Ones(Scaled(Result, 0)) = OnesOf(f, Uint32(Left), Uint32(Right))
       /\ Is("scale") => IF Below0(Left) \/ Whole(Left) >= SIZE_MAX THEN Fails
                          ELSE Scaled(Result, 0) = Whole(Left)]_state

(* README.md: "`ceil(x)` [...] rounds `x` away from zero (towards infinity
   whose sign corresponds to the sign of `x`)".                              *)
CeilAsDocumented ==
    [][Is("ceil") => Scaled(Result, 0) = Toward(Left, ~Integral(Left))]_state

(* README.md: "for non-negative `x`, it returns `x - trunc(x)`; for negative
   `x`, it returns `x + trunc(x)`".                                          *)
FracAsDocumented ==
    [][Is("frac") => Scaled(Result, Left.scale)
                        = IF Below0(Left)
                          THEN Scaled(Left, Left.scale) + Whole(Left) * BASE ^ Left.scale
                          ELSE FracOf(Left)]_state

(* Comparison is that of the values, whatever zeros are stored.             *)
OrderRight ==
    [][Is("compare") =>
        LET d == Scaled(Left, OfTwo) - Scaled(Right, OfTwo)
        IN  out'.is = IF d < 0 THEN Less ELSE IF d > 0 THEN Greater ELSE Equal]_state

(* A text is written without zeros in front and without a sign for zero; in
   base 10 it has no zeros behind either and stands for the number, and both
   ways to write it agree; Encode's stands for as much of the number as its
   digits allow (how many of them it writes is EncodeAsDocumented's matter);
   NumDigits counts digits.  What is read is the number that the text stands
   for, up to the scale.                                                    *)
WellWritten(t) ==
    /\ t.int # <<>> /\ (t.int[1] = 0 => t.int = <<0>>)
    /\ t.neg => \E i \in DOMAIN (t.int \o t.frac) : (t.int \o t.frac)[i] # 0

Canonical(t) == WellWritten(t) /\ (t.frac # <<>> => Last(t.frac) # 0)

TextValue(t, base) == DigitsValue(t.int \o t.frac, base)   \* times base^Len(frac)

Stands(t, n) ==
    /\ TextValue(t, D) * BASE ^ n.scale = Mag(n) * D ^ Len(t.frac)
    /\ Mag(n) # 0 => t.neg = n.sign

Encodes(t, n, base, nfrac) ==
    /\ Len(t.frac) <= nfrac
    /\ TextValue(t, base) * base ^ (nfrac - Len(t.frac))
            = (Mag(n) * base ^ nfrac) \div BASE ^ n.scale
    /\ TextValue(t, base) # 0 => t.neg = n.sign

Decodes(t, n, base, prec) ==
    /\ IF t.frac = <<>> THEN Mag(n) = TextValue(t, base) /\ n.scale = 0
       ELSE Mag(n) * D ^ prec
                = BASE ^ n.scale * ((TextValue(t, base) * D ^ prec) \div base ^ Len(t.frac))
    /\ Mag(n) # 0 => n.sign = t.neg

IntDigits(n)  == Min({k \in 0..(LOG * IntLen(n)) : Abs(Whole(n)) < D ^ k})
FracDigits(n) == Min({k \in 0..(LOG * n.scale) : (Mag(n) * D ^ k) % BASE ^ n.scale = 0})

TextsRight ==
    [][/\ Is("text") => Canonical(out'.text) /\ Stands(out'.text, Left)
       /\ Is("i") => Scaled(Result, 0) = IntDigits(Left)
       /\ Is("f") => Scaled(Result, 0) = FracDigits(Left)
       /\ Is("+") => Scaled(Result, 0) = IntDigits(Left) + FracDigits(Left)
       /\ Is("encode") => WellWritten(out'.text) /\ \A base \in Bases, nfrac \in Precs :
            Encode(base, nfrac) => Encodes(out'.text, Left, base, nfrac)
       /\ Is("tonumber") /\ ~Fails => Stands(out'.text, Result)
       /\ Is("decode") /\ ~Fails => Decodes(out'.text, Result, out'.base, out'.prec)]_state

(* README.md: Encode "returns the string representation of `x` in base `b`
   with `n` digits in the fractional part".                                 *)
EncodeAsDocumented ==
    [][Is("encode") => \A base \in Bases, nfrac \in Precs :
            Encode(base, nfrac) => Len(out'.text.frac) = nfrac]_state
=============================================================================
