---------------------------- MODULE LexerProofs ----------------------------
(***************************************************************************)
(* Proofs about Lexer, for every alphabet within Char and texts of every   *)
(* length: its types, the positions it reports, the words it cuts the text *)
(* into and the semicolons it puts in.                                     *)
(***************************************************************************)
EXTENDS Lexer, FiniteSetTheorems, SequenceTheorems, WellFoundedInduction, TLAPS

-----------------------------------------------------------------------------
(* Least and greatest numbers.                                              *)

LEMMA LeastNat ==
    ASSUME NEW S, S \subseteq Nat, S # {}
    PROVE  \E n \in S : \A m \in S : n <= m
<1>1. IsWellFoundedOn(OpToRel(<, Nat), Nat)
    BY NatLessThanWellFounded
<1>2. PICK n \in S : \A m \in S : ~ (<< m, n >> \in OpToRel(<, Nat))
    BY <1>1, WFMin
<1>3. \A m \in S : ~ (m < n)
    BY <1>2 DEF OpToRel
<1>. QED  BY <1>3

LEMMA MinIs ==
    ASSUME NEW S, S \subseteq Nat, S # {}
    PROVE  Min(S) \in S /\ \A m \in S : Min(S) <= m
<1>1. \E n \in S : \A m \in S : n <= m
    BY LeastNat
<1>. QED  BY <1>1 DEF Min

LEMMA MaxIs ==
    ASSUME NEW S, S \subseteq Nat, NEW n \in S, \A m \in S : m <= n
    PROVE  Max(S) = n
<1>1. n \in S /\ \A m \in S : n >= m
    OBVIOUS
<1>2. Max(S) \in S /\ \A m \in S : Max(S) >= m
    BY <1>1 DEF Max
<1>3. Max(S) \in Nat /\ n \in Nat /\ Max(S) >= n /\ n >= Max(S)
    BY <1>1, <1>2
<1>. QED  BY <1>3

(* What First finds, from a position within the text.                       *)
LEMMA FirstIs ==
    ASSUME NEW S, S \subseteq Nat, cur \in Nat, Len(text) \in Nat, cur < End
    PROVE  /\ First(S) \in Nat /\ First(S) > cur /\ First(S) <= End
           /\ First(S) = End \/ First(S) \in S
           /\ \A q \in S : q > cur => First(S) <= q
<1>. DEFINE T == {p \in S : p > cur} \union {End}
<1>1. End \in Nat
    BY DEF End
<1>2. End \in T /\ T \subseteq Nat
    BY <1>1
<1>3. Min(T) \in T /\ \A m \in T : Min(T) <= m
    <2>. HIDE DEF T
    <2>. QED  BY <1>2, MinIs
<1>4. First(S) \in T /\ \A m \in T : First(S) <= m
    BY <1>3 DEF First
<1>. QED  BY <1>1, <1>4

-----------------------------------------------------------------------------
(* Characters and segments of the text.                                     *)

LEMMA CharFacts ==
    /\ DOMAIN Compound = {"&", ">", "+", "-", "="}
    /\ "end" \notin Char /\ "none" \notin Char
BY DEF Char, Compound, Letters, Words, Digits

LEMMA TextFacts ==
    ASSUME TypeOK
    PROVE  /\ text \in Seq(Char) /\ Len(text) \in Nat /\ End = Len(text) + 1
           /\ cur \in Nat /\ 1 <= cur /\ cur <= End
           /\ \A p \in 1..Len(text) : text[p] \in Char /\ At(p) = text[p]
           /\ \A p \in Nat : p >= End => At(p) = "end"
<1>1. text \in Seq(Char) /\ cur \in 1..End
    BY DEF TypeOK
<1>2. Len(text) \in Nat /\ \A p \in 1..Len(text) : text[p] \in Char
    BY <1>1, LenProperties, ElementOfSeq
<1>. QED  BY <1>1, <1>2 DEF End, At

LEMMA AskedFacts ==
    ASSUME TypeOK, NEW S, Asked(S), "end" \notin S
    PROVE  Started /\ ~Finished /\ cur \in 1..Len(text) /\ cur < End /\ text[cur] \in S /\ At(cur) = text[cur]
<1>1. At(cur) \in S
    BY DEF Asked
<1>2. cur < End
    BY <1>1, TextFacts
<1>. QED  BY <1>1, <1>2, TextFacts DEF Asked

LEMMA SegIs ==
    ASSUME TypeOK, NEW p \in Nat, 1 <= p, NEW n \in Nat, p + n <= End
    PROVE  /\ Seg(p, n) \in Seq(Char) /\ Len(Seg(p, n)) = n /\ DOMAIN Seg(p, n) = 1..n
           /\ \A i \in 1..n : Seg(p, n)[i] = text[p + i - 1] /\ p + i - 1 \in 1..Len(text)
<1>1. text \in Seq(Char) /\ Len(text) \in Nat /\ p + n <= Len(text) + 1
    BY TextFacts
<1>2. p \in 1..(Len(text) + 1) /\ p + n - 1 \in (p - 1)..Len(text)
    BY <1>1
<1>3. /\ SubSeq(text, p, p + n - 1) \in Seq(Char)
      /\ Len(SubSeq(text, p, p + n - 1)) = IF p <= p + n - 1 THEN p + n - 1 - p + 1 ELSE 0
      /\ \A i \in 1..(p + n - 1 - p + 1) : SubSeq(text, p, p + n - 1)[i] = text[p + i - 1]
    BY <1>1, <1>2, SubSeqProperties
<1>4. Len(Seg(p, n)) = n /\ Seg(p, n) \in Seq(Char)
    BY <1>3 DEF Seg
<1>5. DOMAIN Seg(p, n) = 1..n
    BY <1>4, LenProperties
<1>6. p + n - 1 - p + 1 = n
    OBVIOUS
<1>7. \A i \in 1..n : Seg(p, n)[i] = text[p + i - 1]
    BY <1>3, <1>6 DEF Seg
<1>8. \A i \in 1..n : p + i - 1 \in 1..Len(text)
    BY <1>1
<1>. QED  BY <1>4, <1>5, <1>7, <1>8

-----------------------------------------------------------------------------
(* Words: what LongestWords asks of a lexeme of kind k with n characters at
   position p, apart from what precedes it.                                 *)

WordOf(k, p, n) ==
    /\ Spelled(k, Seg(p, n))
    /\ ~\E m \in (n + 1)..(Len(text) + 1 - p), j \in {k, "ident"} : Spelled(j, Seg(p, m))

StringOf(p, n) ==
    /\ n > 1 /\ Seg(p, n)[1] = "quote"
    /\ {m \in 2..n : Closes(Seg(p, n), m)} = {n}

WordAt(k, p, n) ==
    /\ k \notin {"fake", "eof", "error", "string"} => WordOf(k, p, n)
    /\ k = "string" => StringOf(p, n)

(* A longer segment has the character after the shorter one.                *)
LEMMA LongerSeg ==
    ASSUME TypeOK, NEW n \in Nat, cur + n <= End, NEW m \in (n + 1)..(Len(text) + 1 - cur)
    PROVE  /\ m \in Nat /\ m > n /\ cur + m <= End /\ cur + n \in 1..Len(text)
           /\ Len(Seg(cur, m)) = m /\ DOMAIN Seg(cur, m) = 1..m
           /\ n + 1 \in 1..m
           /\ Seg(cur, m)[n + 1] = text[cur + n]
           /\ text[cur + n] \in ToSet(Seg(cur, m))
           /\ Seg(cur, m)[1] = text[cur]
           /\ \A i \in 1..m : Seg(cur, m)[i] = text[cur + i - 1]
<1>1. /\ m \in Nat /\ m > n /\ cur + m <= End /\ cur \in Nat /\ 1 <= cur
      /\ n + 1 \in 1..m /\ 1 \in 1..m
      /\ cur + n \in 1..Len(text) /\ cur + (n + 1) - 1 = cur + n /\ cur + 1 - 1 = cur
    BY TextFacts
<1>2. /\ Len(Seg(cur, m)) = m /\ DOMAIN Seg(cur, m) = 1..m
      /\ \A i \in 1..m : Seg(cur, m)[i] = text[cur + i - 1]
    BY <1>1, SegIs
<1>3. Seg(cur, m)[n + 1] = text[cur + n] /\ Seg(cur, m)[1] = text[cur]
    BY <1>1, <1>2
<1>4. text[cur + n] \in ToSet(Seg(cur, m))
    BY <1>1, <1>2, <1>3 DEF ToSet
<1>. QED  BY <1>1, <1>2, <1>3, <1>4

(* The brackets are words of one character.                                 *)
Bracket == {"(", ")", "[", "]", "{", "}"}

LEMMA BracketSpelled ==
    ASSUME NEW k \in Bracket
    PROVE  /\ k \in Char /\ k \in Kind /\ k # "ident" /\ k \notin Letters /\ k # "string" /\ k # "fake" /\ k # "eof" /\ k # "error"
           /\ \A s : Spelled(k, s) <=> s = << k >>
BY Zenon DEF Bracket, Char, Kind, Letters, Words, Spelled

LEMMA IdentSpelled ==
    ASSUME NEW s, Spelled("ident", s)
    PROVE  s[1] \in Letters /\ ToSet(s) \subseteq Letters \union Digits
BY Zenon DEF Spelled

LEMMA BracketWord ==
    ASSUME TypeOK, cur < End, text[cur] \in Bracket
    PROVE  WordAt(text[cur], cur, 1)
<1>0. cur \in Nat /\ 1 <= cur /\ Len(text) \in Nat /\ End = Len(text) + 1
    BY TextFacts
<1>1. cur + 1 <= End /\ 1 \in Nat /\ cur + 1 - 1 = cur /\ 1 \in 1..1
    BY <1>0
<1>2. Seg(cur, 1) \in Seq(Char) /\ Len(Seg(cur, 1)) = 1 /\ Seg(cur, 1)[1] = text[cur]
    <2>1. Seg(cur, 1) \in Seq(Char) /\ Len(Seg(cur, 1)) = 1 /\ \A i \in 1..1 : Seg(cur, 1)[i] = text[cur + i - 1]
        BY <1>0, <1>1, SegIs
    <2>. QED  BY <1>1, <2>1
<1>. PICK k : k = text[cur]
    OBVIOUS
<1>3. k \in Bracket /\ k # "ident" /\ k \notin Letters /\ k # "string" /\ \A s : Spelled(k, s) <=> s = << k >>
    BY BracketSpelled
<1>4. Spelled(k, Seg(cur, 1))
    <2>1. Seg(cur, 1) = << k >>
        BY <1>2
    <2>. QED  BY <1>3, <2>1
<1>5. ASSUME NEW m \in (1 + 1)..(Len(text) + 1 - cur), NEW j \in {k, "ident"}, Spelled(j, Seg(cur, m))
      PROVE  FALSE
    <2>1. Len(Seg(cur, m)) = m /\ m > 1 /\ Seg(cur, m)[1] = text[cur] /\ m \in Nat
        BY <1>0, <1>1, <1>5, LongerSeg
    <2>2. CASE j = k
        <3>1. Seg(cur, m) = << k >>
            BY <1>3, <1>5, <2>2
        <3>2. Len(<< k >>) = 1
            OBVIOUS
        <3>. QED  BY <2>1, <3>1, <3>2
    <2>3. CASE j = "ident"
        BY <1>3, <1>5, <2>1, <2>3, IdentSpelled
    <2>. QED  BY <1>5, <2>2, <2>3
<1>6. WordOf(k, cur, 1)
    BY <1>4, <1>5 DEF WordOf
<1>. QED  BY <1>3, <1>6 DEF WordAt

(* Identifiers and keywords.                                                *)
LEMMA IdentifierWord ==
    ASSUME TypeOK, cur < End, text[cur] \in Letters, NEW n, n = EndOfIdentifier - cur, NEW k,
           k = IF n = 1 /\ text[cur] \in Words THEN text[cur] ELSE "ident"
    PROVE  n \in Nat /\ n >= 1 /\ cur + n <= End /\ WordAt(k, cur, n)
<1>. DEFINE S == {p \in 1..Len(text) : text[p] \notin Letters \union Digits}
<1>1. /\ cur \in Nat /\ 1 <= cur /\ Len(text) \in Nat /\ End = Len(text) + 1
    BY TextFacts
<1>2. /\ EndOfIdentifier \in Nat /\ EndOfIdentifier > cur /\ EndOfIdentifier <= End
      /\ EndOfIdentifier = End \/ EndOfIdentifier \in S
      /\ \A q \in S : q > cur => EndOfIdentifier <= q
    <2>1. S \subseteq Nat /\ EndOfIdentifier = First(S)
        BY DEF EndOfIdentifier
    <2>. HIDE DEF S
    <2>. QED  BY <1>1, <2>1, FirstIs
<1>3. n \in Nat /\ n >= 1 /\ cur + n <= End /\ cur + n = EndOfIdentifier
    BY <1>1, <1>2
<1>4. /\ Seg(cur, n) \in Seq(Char) /\ Len(Seg(cur, n)) = n /\ DOMAIN Seg(cur, n) = 1..n
      /\ \A i \in 1..n : Seg(cur, n)[i] = text[cur + i - 1] /\ cur + i - 1 \in 1..Len(text)
    BY <1>1, <1>3, SegIs
<1>5. Seg(cur, n)[1] = text[cur]
    <2>1. 1 \in 1..n /\ cur + 1 - 1 = cur
        BY <1>1, <1>3
    <2>. QED  BY <1>4, <2>1
<1>6. ToSet(Seg(cur, n)) \subseteq Letters \union Digits
    <2>1. ASSUME NEW i \in 1..n PROVE Seg(cur, n)[i] \in Letters \union Digits
        <3>1. Seg(cur, n)[i] = text[cur + i - 1] /\ cur + i - 1 \in 1..Len(text) /\ cur + i - 1 < EndOfIdentifier
            <4>1. Seg(cur, n)[i] = text[cur + i - 1] /\ cur + i - 1 \in 1..Len(text)
                BY <1>4
            <4>2. cur + i - 1 < cur + n
                BY <1>1, <1>3
            <4>. QED  BY <1>3, <4>1, <4>2, Zenon
        <3>2. CASE i = 1
            BY <1>5, <3>2
        <3>3. CASE i # 1
            <4>1. cur + i - 1 > cur
                BY <1>1, <3>3
            <4>2. cur + i - 1 \notin S
                BY <1>1, <1>2, <3>1, <4>1
            <4>. QED  BY <3>1, <4>2
        <3>. QED  BY <3>2, <3>3
    <2>. QED  BY <1>4, <2>1 DEF ToSet
<1>7. \A w \in Words : Seg(cur, n) = << w >> <=> n = 1 /\ text[cur] = w
    <2>. TAKE w \in Words
    <2>1. CASE n = 1
        <3>1. Len(Seg(cur, n)) = 1 /\ Seg(cur, n) \in Seq(Char) /\ Seg(cur, n)[1] = text[cur]
            BY <1>4, <1>5, <2>1
        <3>2. Seg(cur, n) = << text[cur] >>
            BY <3>1
        <3>. QED  BY <2>1, <3>2
    <2>2. CASE n # 1
        BY <1>4, <2>2
    <2>. QED  BY <2>1, <2>2
<1>8. "ident" \notin Words /\ Words \subseteq Letters /\ text[cur] \in Letters
    BY DEF Words, Letters
<1>9. /\ k \in Words \/ k = "ident"
      /\ k = "ident" <=> ~ (n = 1 /\ text[cur] \in Words)
      /\ k \in Words => n = 1 /\ text[cur] = k
    BY <1>8
<1>10. Spelled(k, Seg(cur, n))
    <2>1. \A s : Spelled(k, s) <=> (/\ s[1] \in Letters /\ ToSet(s) \subseteq Letters \union Digits
                                    /\ (k # "ident") = (s \in {<< w >> : w \in Words})
                                    /\ k \in Words => s = << k >>)
        BY <1>9 DEF Spelled, Words
    <2>2. (k # "ident") <=> (Seg(cur, n) \in {<< w >> : w \in Words})
        BY <1>7, <1>9
    <2>3. (k # "ident") = (Seg(cur, n) \in {<< w >> : w \in Words})
        BY <2>2
    <2>4. k \in Words => Seg(cur, n) = << k >>
        BY <1>7, <1>9
    <2>. QED  BY <1>5, <1>6, <1>8, <2>1, <2>3, <2>4
<1>11. ASSUME NEW m \in (n + 1)..(Len(text) + 1 - cur), NEW j \in {k, "ident"}, Spelled(j, Seg(cur, m))
       PROVE  FALSE
    <2>1. ToSet(Seg(cur, m)) \subseteq Letters \union Digits
        BY <1>9, <1>11 DEF Spelled, Words
    <2>2. text[cur + n] \in ToSet(Seg(cur, m)) /\ cur + n \in 1..Len(text)
        BY <1>3, <1>11, LongerSeg
    <2>3. cur + n \in S
        BY <1>1, <1>2, <1>3, <2>2
    <2>. QED  BY <2>1, <2>2, <2>3
<1>12. WordOf(k, cur, n)
    BY <1>10, <1>11 DEF WordOf
<1>13. k # "string"
    BY <1>9 DEF Words
<1>. QED  BY <1>3, <1>12, <1>13 DEF WordAt

(* Numbers: digits, marks and at most one point.                            *)
LEMMA AtMostOne ==
    ASSUME NEW S, \A x, y \in S : x = y
    PROVE  Cardinality(S) \in Nat /\ Cardinality(S) <= 1
<1>1. CASE S = {}
    BY <1>1, FS_EmptySet
<1>2. CASE S # {}
    <2>1. PICK x : x \in S
        BY <1>2
    <2>2. S = {x}
        BY <2>1
    <2>. QED  BY <2>2, FS_Singleton
<1>. QED  BY <1>1, <1>2

LEMMA AtLeastTwo ==
    ASSUME NEW S, IsFiniteSet(S), NEW x \in S, NEW y \in S, x # y
    PROVE  Cardinality(S) \in Nat /\ Cardinality(S) > 1
<1>1. IsFiniteSet({x}) /\ Cardinality({x}) = 1 /\ y \notin {x}
    BY FS_Singleton
<1>2. IsFiniteSet({x} \union {y}) /\ Cardinality({x} \union {y}) = 1 + 1
    <2>1. Cardinality({x} \union {y}) = IF y \in {x} THEN Cardinality({x}) ELSE Cardinality({x}) + 1
        BY <1>1, FS_AddElement
    <2>2. IsFiniteSet({x} \union {y})
        BY <1>1, FS_AddElement
    <2>. QED  BY <1>1, <2>1, <2>2
<1>3. {x} \union {y} \subseteq S
    OBVIOUS
<1>4. Cardinality({x} \union {y}) <= Cardinality(S) /\ Cardinality(S) \in Nat
    BY <1>3, FS_Subset, FS_CardinalityType
<1>. QED  BY <1>2, <1>4

NumberChars == Digits \union {"'", "."}

Points(s) == {i \in DOMAIN s : s[i] = "."}

LEMMA NumberSpelled ==
    ASSUME NEW s
    PROVE  Spelled("number", s) <=> (s[1] \in Digits /\ ToSet(s) \subseteq NumberChars /\ Cardinality(Points(s)) <= 1)
BY Zenon DEF Spelled, NumberChars, Points

NumberStops(p) ==
    \/ text[p] \notin NumberChars
    \/ text[p] = "." /\ \E q \in (cur + 1)..(p - 1) : text[q] = "."

LEMMA NumberWord ==
    ASSUME TypeOK, cur < End, text[cur] \in Digits, NEW n, n = EndOfNumber - cur
    PROVE  n \in Nat /\ n >= 1 /\ cur + n <= End /\ WordAt("number", cur, n)
<1>. DEFINE S == {p \in 1..Len(text) : NumberStops(p)}
<1>1. /\ cur \in Nat /\ 1 <= cur /\ Len(text) \in Nat /\ End = Len(text) + 1
    BY TextFacts
<1>2. /\ EndOfNumber \in Nat /\ EndOfNumber > cur /\ EndOfNumber <= End
      /\ EndOfNumber = End \/ EndOfNumber \in S
      /\ \A q \in S : q > cur => EndOfNumber <= q
    <2>1. S \subseteq Nat /\ EndOfNumber = First(S)
        BY DEF EndOfNumber, NumberStops, NumberChars
    <2>. HIDE DEF S
    <2>. QED  BY <1>1, <2>1, FirstIs
<1>3. n \in Nat /\ n >= 1 /\ cur + n <= End /\ cur + n = EndOfNumber
    BY <1>1, <1>2
<1>4. /\ Seg(cur, n) \in Seq(Char) /\ Len(Seg(cur, n)) = n /\ DOMAIN Seg(cur, n) = 1..n
      /\ \A i \in 1..n : Seg(cur, n)[i] = text[cur + i - 1] /\ cur + i - 1 \in 1..Len(text)
    BY <1>1, <1>3, SegIs
<1>5. Seg(cur, n)[1] = text[cur]
    <2>1. 1 \in 1..n /\ cur + 1 - 1 = cur
        BY <1>1, <1>3
    <2>. QED  BY <1>4, <2>1
<1>6. "." \notin Digits /\ text[cur] # "."
    BY DEF Digits
<1>7. ASSUME NEW i \in 2..n
      PROVE  cur + i - 1 \in 1..Len(text) /\ cur + i - 1 \notin S
    <2>1. cur + i - 1 > cur /\ cur + i - 1 < EndOfNumber /\ i \in 1..n
        BY <1>1, <1>3
    <2>. QED  BY <1>1, <1>2, <1>4, <2>1
<1>8. ToSet(Seg(cur, n)) \subseteq NumberChars
    <2>1. ASSUME NEW i \in 1..n PROVE Seg(cur, n)[i] \in NumberChars
        <3>1. CASE i = 1
            BY <1>5, <3>1 DEF NumberChars
        <3>2. CASE i # 1
            <4>1. cur + i - 1 \in 1..Len(text) /\ cur + i - 1 \notin S
                BY <1>7, <3>2
            <4>2. Seg(cur, n)[i] = text[cur + i - 1] /\ ~ NumberStops(cur + i - 1)
                BY <1>4, <4>1
            <4>. QED  BY <4>2 DEF NumberStops
        <3>. QED  BY <3>1, <3>2
    <2>. QED  BY <1>4, <2>1 DEF ToSet
<1>9. Cardinality(Points(Seg(cur, n))) <= 1
    <2>1. ASSUME NEW i \in Points(Seg(cur, n)), NEW j \in Points(Seg(cur, n)), i < j PROVE FALSE
        <3>1. i \in 1..n /\ j \in 1..n /\ text[cur + i - 1] = "." /\ text[cur + j - 1] = "."
            BY <1>4, <2>1 DEF Points
        <3>2. i # 1 /\ j # 1
            <4>1. cur + 1 - 1 = cur
                BY <1>1
            <4>. QED  BY <1>6, <3>1, <4>1
        <3>3. cur + j - 1 \in 1..Len(text) /\ cur + j - 1 \notin S
            BY <1>7, <3>1, <3>2
        <3>. PICK p, q : p = cur + j - 1 /\ q = cur + i - 1
            OBVIOUS
        <3>4. q \in (cur + 1)..(p - 1)
            BY <1>1, <2>1, <3>1, <3>2
        <3>5. text[p] = "." /\ text[q] = "."
            BY <3>1
        <3>6. NumberStops(p)
            BY <3>4, <3>5 DEF NumberStops
        <3>. QED  BY <3>3, <3>6
    <2>2. Points(Seg(cur, n)) \subseteq Nat
        BY <1>4 DEF Points
    <2>3. \A i, j \in Points(Seg(cur, n)) : i = j
        BY <2>1, <2>2
    <2>. QED  BY <2>3, AtMostOne
<1>10. Spelled("number", Seg(cur, n))
    BY <1>5, <1>8, <1>9, NumberSpelled
<1>11. ASSUME NEW m \in (n + 1)..(Len(text) + 1 - cur), NEW j \in {"number", "ident"}, Spelled(j, Seg(cur, m))
       PROVE  FALSE
    <2>1. /\ m \in Nat /\ m > n /\ DOMAIN Seg(cur, m) = 1..m /\ n + 1 \in 1..m
          /\ text[cur + n] \in ToSet(Seg(cur, m)) /\ cur + n \in 1..Len(text)
          /\ Seg(cur, m)[n + 1] = text[cur + n] /\ Seg(cur, m)[1] = text[cur]
          /\ \A i \in 1..m : Seg(cur, m)[i] = text[cur + i - 1]
        BY <1>3, <1>11, LongerSeg
    <2>2. j = "number"
        <3>1. CASE j = "ident"
            <4>1. text[cur] \in Letters
                BY <1>11, <2>1, <3>1, IdentSpelled
            <4>. QED  BY <4>1 DEF Letters, Words, Digits
        <3>. QED  BY <3>1
    <2>3. ToSet(Seg(cur, m)) \subseteq NumberChars /\ Cardinality(Points(Seg(cur, m))) <= 1
        BY <1>11, <2>2, NumberSpelled
    <2>4. cur + n \in S
        BY <1>1, <1>2, <1>3, <2>1
    <2>. PICK p : p = cur + n
        OBVIOUS
    <2>5. text[p] = "." /\ \E q \in (cur + 1)..(p - 1) : text[q] = "."
        <3>1. text[p] \in NumberChars
            BY <2>1, <2>3
        <3>2. NumberStops(p)
            BY <2>4
        <3>. QED  BY <3>1, <3>2 DEF NumberStops
    <2>6. PICK q \in (cur + 1)..(p - 1) : text[q] = "."
        BY <2>5
    <2>7. q - cur + 1 \in 1..m /\ cur + (q - cur + 1) - 1 = q /\ q - cur + 1 # n + 1
        <3>1. q \in Int /\ cur + 1 <= q /\ q <= cur + n - 1 /\ cur \in Int /\ n \in Int /\ m \in Int /\ n < m
            BY <1>1, <1>3, <2>1, <2>6
        <3>. QED  BY <3>1
    <2>8. q - cur + 1 \in Points(Seg(cur, m)) /\ n + 1 \in Points(Seg(cur, m))
        BY <2>1, <2>5, <2>6, <2>7 DEF Points
    <2>9. IsFiniteSet(Points(Seg(cur, m)))
        <3>1. IsFiniteSet(1..m)
            <4>1. 1 \in Int /\ m \in Int
                BY <2>1
            <4>. QED  BY <4>1, FS_Interval
        <3>2. Points(Seg(cur, m)) \subseteq 1..m
            BY <2>1 DEF Points
        <3>. QED  BY <3>1, <3>2, FS_Subset
    <2>10. Cardinality(Points(Seg(cur, m))) \in Nat /\ Cardinality(Points(Seg(cur, m))) > 1
        BY <2>7, <2>8, <2>9, AtLeastTwo
    <2>. QED  BY <2>3, <2>10
<1>12. WordOf("number", cur, n)
    BY <1>10, <1>11 DEF WordOf
<1>. QED  BY <1>3, <1>12 DEF WordAt

(* Operators.                                                               *)
Single   == {",", "."}
Doubled  == {"&", ">"}

Pair(c, d) == d = "=" \/ (c = "-" /\ d = ">") \/ (c \in Doubled /\ d = c)

LEMMA OpSpelled ==
    ASSUME NEW s
    PROVE  Spelled("op", s) <=>
              \/ \E c \in DOMAIN Compound \union Single : s = << c >>
              \/ \E c \in DOMAIN Compound, d \in {"=", ">", "&"} : s = << c, d >> /\ Pair(c, d)
              \/ \E c \in Doubled : s = << c, c, "=" >>
<1>1. DOMAIN Compound = {"&", ">", "+", "-", "="}
    BY CharFacts
<1>2. Spelled("op", s) <=>
         s \in {<< "=" >>, << "=", "=" >>, << "," >>, << "." >>, << "+" >>, << "+", "=" >>,
                << "-" >>, << "-", "=" >>, << "-", ">" >>}
               \union UNION {{<< c >>, << c, "=" >>, << c, c >>, << c, c, "=" >>} :
                             c \in {"&", ">"}}
    BY Zenon DEF Spelled
<1>3. s \in UNION {{<< c >>, << c, "=" >>, << c, c >>, << c, c, "=" >>} : c \in {"&", ">"}}
      <=> \E c \in Doubled : s \in {<< c >>, << c, "=" >>, << c, c >>, << c, c, "=" >>}
    BY DEF Doubled
<1>4. s \in {<< "," >>, << "." >>} <=> \E c \in Single : s = << c >>
    BY Zenon DEF Single
<1>5. Spelled("op", s) <=>
         \/ \E c \in Single : s = << c >>
         \/ s \in {<< "=" >>, << "=", "=" >>, << "+" >>, << "+", "=" >>, << "-" >>, << "-", "=" >>, << "-", ">" >>}
         \/ \E c \in Doubled : s \in {<< c >>, << c, "=" >>, << c, c >>, << c, c, "=" >>}
    BY <1>2, <1>3, <1>4, Zenon
<1>. QED  BY <1>1, <1>5 DEF Doubled, Pair

LEMMA OperatorSize ==
    ASSUME TypeOK, cur < End, text[cur] \in DOMAIN Compound, NEW n, n = SizeOfOperator
    PROVE  /\ n \in 1..3 /\ cur + n <= End
           /\ n = 1 => ~ (cur + 1 < End /\ Pair(text[cur], text[cur + 1]))
           /\ n >= 2 => Pair(text[cur], text[cur + 1])
           /\ n = 2 => ~ (cur + 2 < End /\ text[cur] \in Doubled /\ text[cur + 1] = text[cur] /\ text[cur + 2] = "=")
           /\ n = 3 => text[cur] \in Doubled /\ text[cur + 1] = text[cur] /\ text[cur + 2] = "="
<1>1. /\ cur \in Nat /\ 1 <= cur /\ Len(text) \in Nat /\ End = Len(text) + 1
      /\ \A p \in 1..Len(text) : text[p] \in Char /\ At(p) = text[p]
      /\ \A p \in Nat : p >= End => At(p) = "end"
    BY TextFacts
<1>2. PICK f : f = Compound[text[cur]]
    OBVIOUS
<1>3. PICK c : c = text[cur]
    OBVIOUS
<1>4. /\ f.b = "="
      /\ c \in Doubled => f.c = c /\ f.d = "="
      /\ c = "-" => f.c = ">" /\ f.d = "none"
      /\ c \notin Doubled /\ c # "-" => f.c = "none" /\ f.d = "none"
      /\ c # "none" /\ c # "end"
    BY <1>2, <1>3 DEF Compound, Doubled
<1>5. /\ At(cur + 1) # "none" /\ (At(cur + 1) # "end" => cur + 1 < End /\ At(cur + 1) = text[cur + 1])
      /\ At(cur + 2) # "none" /\ (At(cur + 2) # "end" => cur + 2 < End /\ At(cur + 2) = text[cur + 2])
      /\ cur + 1 < End => At(cur + 1) = text[cur + 1]
      /\ cur + 2 < End => At(cur + 2) = text[cur + 2]
    <2>1. ASSUME NEW p \in Nat, 1 <= p
          PROVE  At(p) # "none" /\ (At(p) # "end" => p < End /\ At(p) = text[p]) /\ (p < End => At(p) = text[p])
        <3>1. CASE p < End
            BY <1>1, <2>1, <3>1, CharFacts
        <3>2. CASE p >= End
            BY <1>1, <2>1, <3>2
        <3>. QED  BY <1>1, <2>1, <3>1, <3>2
    <2>2. cur + 1 \in Nat /\ 1 <= cur + 1 /\ cur + 2 \in Nat /\ 1 <= cur + 2
        BY <1>1
    <2>. QED  BY <2>1, <2>2
<1>6. n = IF At(cur + 1) = f.b THEN 2
          ELSE IF At(cur + 1) # f.c THEN 1
          ELSE IF At(cur + 2) = f.d THEN 3 ELSE 2
    BY <1>2 DEF SizeOfOperator
<1>7. CASE At(cur + 1) = "="
    <2>1. n = 2 /\ cur + 1 < End /\ text[cur + 1] = "="
        BY <1>4, <1>5, <1>6, <1>7
    <2>2. c \in Doubled => c # "="
        BY DEF Doubled
    <2>. QED  BY <1>1, <1>3, <2>1, <2>2 DEF Pair
<1>8. CASE At(cur + 1) # "=" /\ At(cur + 1) # f.c
    <2>1. n = 1
        BY <1>4, <1>6, <1>8
    <2>2. cur + 1 < End => ~ Pair(c, text[cur + 1])
        BY <1>4, <1>5, <1>8 DEF Pair, Doubled
    <2>. QED  BY <1>1, <1>3, <2>1, <2>2
<1>9. CASE At(cur + 1) # "=" /\ At(cur + 1) = f.c
    <2>1. n = IF At(cur + 2) = f.d THEN 3 ELSE 2
        BY <1>4, <1>6, <1>9
    <2>2. c \in Doubled \/ c = "-"
        BY <1>4, <1>5, <1>9
    <2>3. cur + 1 < End /\ text[cur + 1] = f.c /\ Pair(c, text[cur + 1])
        BY <1>4, <1>5, <1>9, <2>2 DEF Pair, Doubled
    <2>4. CASE At(cur + 2) = f.d
        <3>1. c \in Doubled /\ n = 3 /\ text[cur + 1] = c
            BY <1>4, <1>5, <2>1, <2>2, <2>3, <2>4
        <3>2. cur + 2 < End /\ text[cur + 2] = "="
            BY <1>4, <1>5, <2>4, <3>1
        <3>. QED  BY <1>1, <1>3, <2>3, <3>1, <3>2
    <2>5. CASE At(cur + 2) # f.d
        <3>1. n = 2
            BY <2>1, <2>5
        <3>2. ~ (cur + 2 < End /\ c \in Doubled /\ text[cur + 1] = c /\ text[cur + 2] = "=")
            BY <1>4, <1>5, <2>5
        <3>. QED  BY <1>1, <1>3, <2>3, <3>1, <3>2
    <2>. QED  BY <2>4, <2>5
<1>. QED  BY <1>7, <1>8, <1>9

(* What the characters of a spelled operator are, by its length.            *)
LEMMA OpByLength ==
    ASSUME NEW s \in Seq(Char)
    PROVE  /\ Len(s) = 1 => (Spelled("op", s) <=> s[1] \in DOMAIN Compound \union Single)
           /\ Len(s) = 2 => (Spelled("op", s) <=> s[1] \in DOMAIN Compound /\ Pair(s[1], s[2]))
           /\ Len(s) = 3 => (Spelled("op", s) <=> s[1] \in Doubled /\ s[2] = s[1] /\ s[3] = "=")
           /\ Spelled("op", s) => Len(s) \in 1..3
<1>1. Spelled("op", s) <=>
              \/ \E c \in DOMAIN Compound \union Single : s = << c >>
              \/ \E c \in DOMAIN Compound, d \in {"=", ">", "&"} : s = << c, d >> /\ Pair(c, d)
              \/ \E c \in Doubled : s = << c, c, "=" >>
    BY OpSpelled
<1>2. \A c, d, e : Len(<< c >>) = 1 /\ Len(<< c, d >>) = 2 /\ Len(<< c, d, e >>) = 3
    OBVIOUS
<1>3. CASE Len(s) = 1
    <2>1. s = << s[1] >>
        BY <1>3
    <2>2. \A c : s = << c >> <=> s[1] = c
        BY <2>1
    <2>. QED  BY <1>1, <1>2, <1>3, <2>2
<1>4. CASE Len(s) = 2
    <2>1. s = << s[1], s[2] >>
        BY <1>4
    <2>2. \A c, d : s = << c, d >> <=> s[1] = c /\ s[2] = d
        BY <2>1
    <2>3. \A c \in DOMAIN Compound : \A d : Pair(c, d) => d \in {"=", ">", "&"}
        BY DEF Pair, Doubled
    <2>4. ~ \E c \in DOMAIN Compound \union Single : s = << c >>
        BY <1>2, <1>4
    <2>5. ~ \E c \in Doubled : s = << c, c, "=" >>
        BY <1>2, <1>4
    <2>. QED  BY <1>1, <1>4, <2>2, <2>3, <2>4, <2>5
<1>5. CASE Len(s) = 3
    <2>1. s = << s[1], s[2], s[3] >>
        BY <1>5
    <2>2. \A c, d, e : s = << c, d, e >> <=> s[1] = c /\ s[2] = d /\ s[3] = e
        BY <2>1
    <2>3. ~ \E c \in DOMAIN Compound \union Single : s = << c >>
        BY <1>2, <1>5
    <2>4. ~ \E c \in DOMAIN Compound, d \in {"=", ">", "&"} : s = << c, d >> /\ Pair(c, d)
        <3>1. \A c, d : s # << c, d >>
            BY <1>2, <1>5
        <3>. QED  BY <3>1
    <2>5. Spelled("op", s) <=> \E c \in Doubled : s[1] = c /\ s[2] = c /\ s[3] = "="
        BY <1>1, <2>2, <2>3, <2>4, Zenon
    <2>6. Spelled("op", s) <=> s[1] \in Doubled /\ s[2] = s[1] /\ s[3] = "="
        BY <2>5
    <2>7. Len(s) # 1 /\ Len(s) # 2 /\ Len(s) \in 1..3
        BY <1>5
    <2>. QED  BY <2>6, <2>7
<1>6. CASE Len(s) \notin 1..3
    BY <1>1, <1>2, <1>6
<1>7. Len(s) = 1 \/ Len(s) = 2 \/ Len(s) = 3 \/ Len(s) \notin 1..3
    OBVIOUS
<1>. QED  BY <1>3, <1>4, <1>5, <1>6, <1>7

LEMMA OperatorWord ==
    ASSUME TypeOK, cur < End, text[cur] \in DOMAIN Compound \union Single, NEW n,
           n = IF text[cur] \in DOMAIN Compound THEN SizeOfOperator ELSE 1
    PROVE  n \in Nat /\ n >= 1 /\ cur + n <= End /\ WordAt("op", cur, n)
<1>1. /\ cur \in Nat /\ 1 <= cur /\ Len(text) \in Nat /\ End = Len(text) + 1
    BY TextFacts
<1>2. PICK c : c = text[cur]
    OBVIOUS
<1>3. c \notin Letters
    BY <1>2, Zenon, CharFacts DEF Single, Letters, Words
<1>4. /\ n \in 1..3 /\ cur + n <= End
      /\ n = 1 => ~ (c \in DOMAIN Compound /\ cur + 1 < End /\ Pair(c, text[cur + 1]))
      /\ n >= 2 => c \in DOMAIN Compound /\ Pair(c, text[cur + 1])
      /\ n = 2 => ~ (cur + 2 < End /\ c \in Doubled /\ text[cur + 1] = c /\ text[cur + 2] = "=")
      /\ n = 3 => c \in Doubled /\ text[cur + 1] = c /\ text[cur + 2] = "="
    <2>1. CASE c \in DOMAIN Compound
        <3>1. n = SizeOfOperator
            BY <1>2, <2>1
        <3>. QED  BY <1>2, <2>1, <3>1, OperatorSize
    <2>2. CASE c \notin DOMAIN Compound
        BY <1>1, <1>2, <2>2
    <2>. QED  BY <2>1, <2>2
<1>5. \A d, e : Doubled \subseteq DOMAIN Compound
    BY CharFacts DEF Doubled
<1>6. ASSUME NEW m \in Nat, 1 <= m, cur + m <= End
      PROVE  /\ Seg(cur, m) \in Seq(Char) /\ Len(Seg(cur, m)) = m
             /\ Seg(cur, m)[1] = c
             /\ m >= 2 => Seg(cur, m)[2] = text[cur + 1]
             /\ m >= 3 => Seg(cur, m)[3] = text[cur + 2]
    <2>1. /\ Seg(cur, m) \in Seq(Char) /\ Len(Seg(cur, m)) = m
          /\ \A i \in 1..m : Seg(cur, m)[i] = text[cur + i - 1]
        BY <1>1, <1>6, SegIs
    <2>2. 1 \in 1..m /\ (m >= 2 => 2 \in 1..m) /\ (m >= 3 => 3 \in 1..m)
        BY <1>6
    <2>3. cur + 1 - 1 = cur /\ cur + 2 - 1 = cur + 1 /\ cur + 3 - 1 = cur + 2
        BY <1>1
    <2>. QED  BY <1>2, <2>1, <2>2, <2>3
<1>7. Spelled("op", Seg(cur, n))
    <2>1. /\ Seg(cur, n) \in Seq(Char) /\ Len(Seg(cur, n)) = n
          /\ Seg(cur, n)[1] = c
          /\ n >= 2 => Seg(cur, n)[2] = text[cur + 1]
          /\ n >= 3 => Seg(cur, n)[3] = text[cur + 2]
        BY <1>4, <1>6
    <2>. PICK s : s = Seg(cur, n)
        OBVIOUS
    <2>2. /\ Len(s) = 1 => (Spelled("op", s) <=> s[1] \in DOMAIN Compound \union Single)
          /\ Len(s) = 2 => (Spelled("op", s) <=> s[1] \in DOMAIN Compound /\ Pair(s[1], s[2]))
          /\ Len(s) = 3 => (Spelled("op", s) <=> s[1] \in Doubled /\ s[2] = s[1] /\ s[3] = "=")
        BY <2>1, OpByLength
    <2>3. n = 1 \/ n = 2 \/ n = 3
        BY <1>4
    <2>4. CASE n = 1
        BY <1>2, <2>1, <2>2, <2>4
    <2>5. CASE n = 2
        BY <1>4, <2>1, <2>2, <2>5
    <2>6. CASE n = 3
        <3>0. n >= 3 /\ n >= 2
            BY <2>6
        <3>1. n >= 3 /\ n >= 2 /\ Len(s) = 3
            BY <2>1, <2>6, <3>0
        <3>2. s[1] \in Doubled /\ s[2] = s[1] /\ s[3] = "="
            BY <1>4, <2>1, <2>6, <3>1
        <3>. QED  BY <2>2, <3>1, <3>2
    <2>. QED  BY <2>3, <2>4, <2>5, <2>6
<1>8. ASSUME NEW m \in (n + 1)..(Len(text) + 1 - cur), NEW j \in {"op", "ident"}, Spelled(j, Seg(cur, m))
      PROVE  FALSE
    <2>1. m \in Nat /\ m > n /\ 1 <= m /\ cur + m <= End
        BY <1>1, <1>4, <1>8
    <2>2. /\ Seg(cur, m) \in Seq(Char) /\ Len(Seg(cur, m)) = m
          /\ Seg(cur, m)[1] = c
          /\ m >= 2 => Seg(cur, m)[2] = text[cur + 1]
          /\ m >= 3 => Seg(cur, m)[3] = text[cur + 2]
        BY <1>6, <2>1
    <2>3. j = "op"
        <3>1. CASE j = "ident"
            BY <1>3, <1>8, <2>2, <3>1, IdentSpelled
        <3>. QED  BY <3>1
    <2>4. Spelled("op", Seg(cur, m)) /\ m \in 1..3
        BY <1>8, <2>2, <2>3, OpByLength
    <2>5. CASE m = 2
        <3>1. c \in DOMAIN Compound /\ Pair(c, text[cur + 1])
            BY <2>2, <2>4, <2>5, OpByLength
        <3>2. n = 1 /\ cur + 1 < End
            BY <1>1, <1>4, <2>1, <2>5
        <3>. QED  BY <1>4, <3>1, <3>2
    <2>6. CASE m = 3
        <3>1. c \in Doubled /\ text[cur + 1] = c /\ text[cur + 2] = "="
            BY <2>2, <2>4, <2>6, OpByLength
        <3>2. n \in {1, 2} /\ cur + 1 < End /\ cur + 2 < End
            BY <1>1, <1>4, <2>1, <2>6
        <3>3. c \in DOMAIN Compound /\ Pair(c, text[cur + 1])
            BY <1>5, <3>1 DEF Pair
        <3>. QED  BY <1>4, <3>1, <3>2, <3>3
    <2>. QED  BY <1>4, <2>1, <2>4, <2>5, <2>6
<1>9. WordOf("op", cur, n)
    BY <1>7, <1>8 DEF WordOf
<1>. QED  BY <1>4, <1>9 DEF WordAt

(* Strings.  StringStop is what a recursive function says: it exists, since
   a value of it only depends on those further on.                          *)
StopStep(f, p) ==
    IF p >= End THEN End
    ELSE IF text[p] \in {"quote", "\n"} THEN p
    ELSE IF text[p] = "\\" THEN f[p + 2]
    ELSE f[p + 1]

StopsFrom(f, k) == f = [p \in k..(End + 1) |-> StopStep(f, p)]

LEMMA StopsExist ==
    ASSUME End \in Nat, NEW j \in 0..End
    PROVE  \E f : StopsFrom(f, End + 1 - j)
<1>. DEFINE S == {n \in 0..End : ~ \E f : StopsFrom(f, End + 1 - n)}
<1>. SUFFICES ASSUME S # {} PROVE FALSE
    OBVIOUS
<1>1. PICK m \in S : \A n \in S : m <= n
    <2>1. S \subseteq Nat
        OBVIOUS
    <2>. HIDE DEF S
    <2>. QED  BY <2>1, LeastNat
<1>2. m \in 0..End /\ ~ \E f : StopsFrom(f, End + 1 - m)
    BY <1>1
<1>3. PICK k \in Nat : k = End + 1 - m
    BY <1>2
<1>4. k >= 1 /\ k <= End + 1 /\ ~ \E f : StopsFrom(f, k)
    BY <1>2, <1>3
<1>5. CASE m = 0
    <2>1. k = End + 1
        BY <1>3, <1>5
    <2>2. PICK f : f = [p \in k..(End + 1) |-> End]
        OBVIOUS
    <2>3. \A p \in k..(End + 1) : StopStep(f, p) = End
        BY <2>1 DEF StopStep
    <2>4. f = [p \in k..(End + 1) |-> StopStep(f, p)]
        BY <2>2, <2>3
    <2>. QED  BY <1>4, <2>4 DEF StopsFrom
<1>6. CASE m # 0
    <2>1. m - 1 \in 0..End /\ m - 1 \notin S /\ End + 1 - (m - 1) = k + 1 /\ k <= End
        BY <1>1, <1>2, <1>3, <1>6
    <2>2. PICK g : StopsFrom(g, k + 1)
        BY <2>1
    <2>3. PICK x : x = StopStep(g, k)
        OBVIOUS
    <2>4. PICK f : f = [p \in k..(End + 1) |-> IF p = k THEN x ELSE g[p]]
        OBVIOUS
    <2>5. f[k] = x /\ \A p \in (k + 1)..(End + 1) : f[p] = g[p]
        BY <1>4, <2>1, <2>4
    <2>6. \A p \in k..(End + 1) : StopStep(f, p) = StopStep(g, p)
        <3>. TAKE p \in k..(End + 1)
        <3>1. CASE p >= End
            BY <3>1 DEF StopStep
        <3>2. CASE p < End
            <4>1. p + 1 \in (k + 1)..(End + 1) /\ p + 2 \in (k + 1)..(End + 1)
                BY <3>2
            <4>. QED  BY <2>5, <4>1 DEF StopStep
        <3>. QED  BY <3>1, <3>2
    <2>7. \A p \in (k + 1)..(End + 1) : g[p] = StopStep(g, p)
        BY <2>2, Zenon DEF StopsFrom
    <2>8. \A p \in k..(End + 1) : f[p] = StopStep(f, p)
        <3>. TAKE p \in k..(End + 1)
        <3>1. CASE p = k
            BY <2>3, <2>5, <2>6, <3>1
        <3>2. CASE p # k
            <4>1. p \in (k + 1)..(End + 1)
                BY <3>2
            <4>. QED  BY <2>5, <2>6, <2>7, <4>1
        <3>. QED  BY <3>1, <3>2
    <2>9. f = [p \in k..(End + 1) |-> f[p]]
        BY <2>4
    <2>10. f = [p \in k..(End + 1) |-> StopStep(f, p)]
        BY <2>8, <2>9
    <2>. QED  BY <1>4, <2>10 DEF StopsFrom
<1>. QED  BY <1>5, <1>6

LEMMA StringStopIs ==
    ASSUME TypeOK, cur < End
    PROVE  \E f : StringStop = f[cur + 1] /\ \A p \in 1..(End + 1) : f[p] = StopStep(f, p)
<1>1. End \in Nat /\ End >= 1
    BY TextFacts
<1>2. \E f : StopsFrom(f, 1)
    <2>1. End \in 0..End /\ End + 1 - End = 1
        BY <1>1
    <2>2. \E f : StopsFrom(f, End + 1 - End)
        BY <1>1, <2>1, StopsExist
    <2>. QED  BY <2>1, <2>2
<1>. DEFINE stop == CHOOSE f : StopsFrom(f, 1)
<1>3. StopsFrom(stop, 1)
    BY <1>2
<1>4. StringStop = stop[cur + 1]
    BY DEF StringStop, StopsFrom, StopStep
<1>5. \A p \in 1..(End + 1) : stop[p] = StopStep(stop, p)
    <2>. HIDE DEF stop
    <2>. QED  BY <1>3, Zenon DEF StopsFrom
<1>. QED  BY <1>4, <1>5

(* r backslashes stand before p, counted from after the opening quote.       *)
RunIs(p, r) ==
    /\ r \in Nat /\ cur + 1 <= p - r
    /\ \A k \in (p - r)..(p - 1) : text[k] = "\\"
    /\ p - r = cur + 1 \/ text[p - r - 1] # "\\"

LEMMA RunGrows ==
    ASSUME cur \in Nat, NEW p \in Nat, NEW r, RunIs(p, r), text[p] = "\\"
    PROVE  RunIs(p + 1, r + 1)
<1>1. r \in Nat /\ cur + 1 <= p - r /\ p + 1 - (r + 1) = p - r /\ p + 1 - 1 = p
    BY DEF RunIs
<1>2. ASSUME NEW k \in (p - r)..p PROVE text[k] = "\\"
    <2>1. k = p \/ k \in (p - r)..(p - 1)
        BY <1>1
    <2>. QED  BY <2>1 DEF RunIs
<1>3. p - r = cur + 1 \/ text[p - r - 1] # "\\"
    BY DEF RunIs
<1>. PICK a, b, c : a = p + 1 /\ b = r + 1 /\ c = p - r
    OBVIOUS
<1>4. a - b = c /\ a - 1 = p /\ b \in Nat /\ c - 1 = p - r - 1
    BY <1>1
<1>5. RunIs(a, b)
    BY <1>1, <1>2, <1>3, <1>4 DEF RunIs
<1>. QED  BY <1>5

LEMMA RunEnds ==
    ASSUME cur \in Nat, NEW p \in Nat, p > cur, text[p] # "\\"
    PROVE  RunIs(p + 1, 0)
<1>. PICK a : a = p + 1
    OBVIOUS
<1>1. a - 0 = a /\ cur + 1 <= a /\ a - 0 - 1 = p /\ \A k \in (a - 0)..(a - 1) : FALSE
    OBVIOUS
<1>2. RunIs(a, 0)
    BY <1>1 DEF RunIs
<1>. QED  BY <1>2

EvenRun(p) == \E q \in Nat : RunIs(p, 2 * q)
OddRun(p)  == \E q \in Nat : RunIs(p, 2 * q + 1)

LEMMA EvenGrows ==
    ASSUME cur \in Nat, NEW p \in Nat, text[p] = "\\", EvenRun(p)
    PROVE  OddRun(p + 1)
<1>1. PICK q \in Nat : RunIs(p, 2 * q)
    BY DEF EvenRun
<1>2. RunIs(p + 1, 2 * q + 1)
    BY <1>1, RunGrows
<1>. QED  BY <1>2 DEF OddRun

LEMMA OddGrows ==
    ASSUME cur \in Nat, NEW p \in Nat, text[p] = "\\", OddRun(p)
    PROVE  EvenRun(p + 1)
<1>1. PICK q \in Nat : RunIs(p, 2 * q + 1)
    BY DEF OddRun
<1>2. RunIs(p + 1, 2 * q + 1 + 1)
    BY <1>1, RunGrows
<1>3. 2 * q + 1 + 1 = 2 * (q + 1) /\ q + 1 \in Nat
    BY <1>1
<1>. QED  BY <1>2, <1>3 DEF EvenRun

LEMMA EvenEnds ==
    ASSUME cur \in Nat, NEW p \in Nat, p > cur, text[p] # "\\"
    PROVE  EvenRun(p + 1)
<1>1. RunIs(p + 1, 2 * 0)
    <2>1. RunIs(p + 1, 0) /\ 2 * 0 = 0
        BY RunEnds
    <2>. QED  BY <2>1
<1>. QED  BY <1>1 DEF EvenRun

(* Where the scan that goes on at p stops, if the run before p is even.      *)
StopsAt(s, p) ==
    /\ s \in Nat /\ s <= End /\ (p <= End => p <= s)
    /\ s # End => text[s] \in {"quote", "\n"} /\ EvenRun(s)
    /\ \A n \in p..(s - 1) : text[n] = "quote" => OddRun(n)

LEMMA StopRuns ==
    ASSUME TypeOK, cur < End, NEW f, \A p \in 1..(End + 1) : f[p] = StopStep(f, p),
           NEW p \in (cur + 1)..(End + 1), EvenRun(p)
    PROVE  StopsAt(f[p], p)
<1>0. cur \in Nat /\ 1 <= cur /\ End \in Nat
    BY TextFacts
<1>. DEFINE S == {j \in 0..End : \E q \in (cur + 1)..(End + 1) : j = End + 1 - q /\ EvenRun(q) /\ ~ StopsAt(f[q], q)}
<1>. SUFFICES ASSUME ~ StopsAt(f[p], p) PROVE FALSE
    OBVIOUS
<1>1. PICK j \in S : \A i \in S : j <= i
    <2>1. End + 1 - p \in S
        BY <1>0
    <2>2. S \subseteq Nat /\ S # {}
        BY <2>1
    <2>. HIDE DEF S
    <2>. QED  BY <2>2, LeastNat
<1>2. PICK q \in (cur + 1)..(End + 1) : j = End + 1 - q /\ EvenRun(q) /\ ~ StopsAt(f[q], q)
    BY <1>1
<1>3. q \in Nat /\ q > cur /\ q <= End + 1 /\ q \in 1..(End + 1)
    BY <1>0
<1>4. ASSUME NEW m \in (q + 1)..(End + 1), EvenRun(m) PROVE StopsAt(f[m], m)
    <2>1. End + 1 - m \in 0..End /\ End + 1 - m < j /\ m \in (cur + 1)..(End + 1)
        BY <1>0, <1>2, <1>3
    <2>2. End + 1 - m \notin S
        BY <1>1, <2>1
    <2>. QED  BY <1>4, <2>1, <2>2
<1>. HIDE DEF S
<1>5. f[q] = StopStep(f, q)
    BY <1>3
<1>6. CASE q >= End
    <2>1. f[q] = End
        BY <1>5, <1>6 DEF StopStep
    <2>2. \A n \in q..(End - 1) : FALSE
        BY <1>0, <1>3, <1>6
    <2>3. q <= End => q <= End
        OBVIOUS
    <2>4. StopsAt(End, q)
        BY <1>0, <1>3, <2>2 DEF StopsAt
    <2>. QED  BY <1>2, <2>1, <2>4
<1>7. CASE q < End /\ text[q] \in {"quote", "\n"}
    <2>1. f[q] = q
        BY <1>0, <1>3, <1>5, <1>7 DEF StopStep
    <2>2. \A n \in q..(q - 1) : FALSE
        BY <1>3
    <2>3. StopsAt(q, q)
        BY <1>0, <1>2, <1>3, <1>7, <2>2 DEF StopsAt
    <2>. QED  BY <1>2, <2>1, <2>3
<1>8. CASE q < End /\ text[q] = "\\"
    <2>1. f[q] = f[q + 2] /\ q + 2 \in (q + 1)..(End + 1) /\ q + 2 \in 1..(End + 1)
        <3>1. ~ (q >= End) /\ text[q] \notin {"quote", "\n"}
            BY <1>0, <1>3, <1>8
        <3>2. f[q] = f[q + 2]
            BY <1>5, <1>8, <3>1 DEF StopStep
        <3>. QED  BY <1>0, <1>3, <1>8, <3>2
    <2>2. OddRun(q + 1)
        BY <1>0, <1>2, <1>3, <1>8, EvenGrows
    <2>3. CASE q + 1 = End
        <3>1. f[q + 2] = End
            <4>1. f[q + 2] = StopStep(f, q + 2) /\ q + 2 >= End
                BY <1>0, <1>3, <2>1, <2>3
            <4>. QED  BY <4>1 DEF StopStep
        <3>2. \A n \in q..(End - 1) : n = q
            BY <1>3, <2>3
        <3>3. \A n \in q..(End - 1) : text[n] # "quote"
            BY <1>8, <3>2
        <3>4. StopsAt(End, q)
            BY <1>0, <1>3, <1>8, <3>3 DEF StopsAt
        <3>. QED  BY <1>2, <2>1, <3>1, <3>4
    <2>4. CASE q + 1 # End
        <3>0. q + 1 \in Nat /\ q + 1 > cur /\ q + 1 + 1 = q + 2 /\ q + 2 <= End
            BY <1>0, <1>3, <1>8, <2>4
        <3>1. EvenRun(q + 2)
            <4>1. CASE text[q + 1] = "\\"
                <5>1. EvenRun(q + 1 + 1)
                    BY <1>0, <2>2, <3>0, <4>1, OddGrows
                <5>. QED  BY <3>0, <5>1
            <4>2. CASE text[q + 1] # "\\"
                <5>1. EvenRun(q + 1 + 1)
                    BY <1>0, <3>0, <4>2, EvenEnds
                <5>. QED  BY <3>0, <5>1
            <4>. QED  BY <4>1, <4>2
        <3>2. StopsAt(f[q + 2], q + 2)
            BY <1>4, <2>1, <3>1
        <3>. PICK s : s = f[q + 2]
            OBVIOUS
        <3>3. /\ s \in Nat /\ s <= End /\ q + 2 <= s
              /\ s # End => text[s] \in {"quote", "\n"} /\ EvenRun(s)
              /\ \A n \in (q + 2)..(s - 1) : text[n] = "quote" => OddRun(n)
            BY <3>0, <3>2 DEF StopsAt
        <3>4. ASSUME NEW n \in q..(s - 1), text[n] = "quote" PROVE OddRun(n)
            <4>1. n # q
                BY <1>8, <3>4
            <4>2. n = q + 1 \/ n \in (q + 2)..(s - 1)
                BY <1>3, <3>3, <4>1
            <4>. QED  BY <2>2, <3>3, <3>4, <4>2
        <3>5. q <= s
            BY <1>3, <3>3
        <3>6. StopsAt(s, q)
            BY <3>3, <3>4, <3>5 DEF StopsAt
        <3>. QED  BY <1>2, <2>1, <3>6
    <2>. QED  BY <2>3, <2>4
<1>9. CASE q < End /\ text[q] \notin {"quote", "\n", "\\"}
    <2>1. f[q] = f[q + 1] /\ q + 1 \in (q + 1)..(End + 1)
        <3>1. ~ (q >= End) /\ text[q] \notin {"quote", "\n"} /\ text[q] # "\\"
            BY <1>0, <1>3, <1>9
        <3>2. f[q] = f[q + 1]
            BY <1>5, <3>1 DEF StopStep
        <3>. QED  BY <1>0, <1>3, <1>9, <3>2
    <2>2. EvenRun(q + 1)
        BY <1>0, <1>3, <1>9, EvenEnds
    <2>3. StopsAt(f[q + 1], q + 1)
        BY <1>4, <2>1, <2>2
    <2>. PICK s : s = f[q + 1]
        OBVIOUS
    <2>4. /\ s \in Nat /\ s <= End /\ q + 1 <= s
          /\ s # End => text[s] \in {"quote", "\n"} /\ EvenRun(s)
          /\ \A n \in (q + 1)..(s - 1) : text[n] = "quote" => OddRun(n)
        <3>1. q + 1 <= End
            BY <1>0, <1>3, <1>9
        <3>. QED  BY <2>3, <3>1 DEF StopsAt
    <2>5. ASSUME NEW n \in q..(s - 1), text[n] = "quote" PROVE OddRun(n)
        <3>1. n # q
            BY <1>9, <2>5
        <3>2. n \in (q + 1)..(s - 1)
            BY <1>3, <2>4, <3>1
        <3>. QED  BY <2>4, <2>5, <3>2
    <2>6. q <= s
        BY <1>3, <2>4
    <2>7. StopsAt(s, q)
        BY <2>4, <2>5, <2>6 DEF StopsAt
    <2>. QED  BY <1>2, <2>1, <2>7
<1>. QED  BY <1>0, <1>3, <1>6, <1>7, <1>8, <1>9

LEMMA StringStopAt ==
    ASSUME TypeOK, cur < End
    PROVE  StopsAt(StringStop, cur + 1) /\ cur + 1 <= End
<1>1. cur \in Nat /\ 1 <= cur /\ End \in Nat /\ cur + 1 \in (cur + 1)..(End + 1) /\ cur + 1 <= End
    BY TextFacts
<1>2. EvenRun(cur + 1)
    <2>. PICK a : a = cur + 1
        OBVIOUS
    <2>1. a - 0 = cur + 1 /\ cur + 1 <= a /\ \A k \in (a - 0)..(a - 1) : FALSE
        BY <1>1
    <2>2. RunIs(a, 0) /\ 0 = 2 * 0
        BY <2>1 DEF RunIs
    <2>. QED  BY <2>2 DEF EvenRun
<1>3. PICK f : StringStop = f[cur + 1] /\ \A p \in 1..(End + 1) : f[p] = StopStep(f, p)
    BY StringStopIs
<1>4. StopsAt(f[cur + 1], cur + 1)
    BY <1>1, <1>2, <1>3, StopRuns
<1>. QED  BY <1>1, <1>3, <1>4

(* The backslashes that Closes counts are the run before the quote.          *)
Slashes(s, n) == {m \in 2..(n - 1) : \A k \in m..(n - 1) : s[k] = "\\"}

LEMMA RunCount ==
    ASSUME cur \in Nat, NEW s, NEW n \in Nat, 2 <= n, \A k \in 2..n : s[k] = text[cur + k - 1],
           NEW r, RunIs(cur + n - 1, r)
    PROVE  Cardinality(Slashes(s, n)) = r
<1>. PICK p : p = cur + n - 1
    OBVIOUS
<1>1. /\ r \in Nat /\ cur + 1 <= p - r /\ p \in Nat
      /\ \A k \in (p - r)..(p - 1) : text[k] = "\\"
      /\ p - r = cur + 1 \/ text[p - r - 1] # "\\"
    BY DEF RunIs
<1>2. n - r >= 2
    BY <1>1
<1>3. \A m \in 2..(n - 1) : (\A k \in m..(n - 1) : s[k] = "\\") <=> m >= n - r
    <2>. TAKE m \in 2..(n - 1)
    <2>1. CASE m >= n - r
        <3>1. ASSUME NEW k \in m..(n - 1) PROVE s[k] = "\\"
            <4>1. k \in 2..n /\ cur + k - 1 \in (p - r)..(p - 1)
                BY <1>1, <2>1
            <4>. QED  BY <1>1, <4>1
        <3>. QED  BY <2>1, <3>1
    <2>2. CASE m < n - r
        <3>1. n - r - 1 \in m..(n - 1) /\ n - r - 1 \in 2..n /\ cur + (n - r - 1) - 1 = p - r - 1 /\ p - r # cur + 1
            BY <1>1, <2>2
        <3>2. s[n - r - 1] # "\\"
            BY <1>1, <3>1
        <3>3. ~ (m >= n - r)
            BY <1>1, <2>2
        <3>. QED  BY <3>1, <3>2, <3>3
    <2>. QED  BY <1>1, <2>1, <2>2
<1>4. Slashes(s, n) = (n - r)..(n - 1)
    <2>1. Slashes(s, n) = {m \in 2..(n - 1) : m >= n - r}
        BY <1>3, Zenon DEF Slashes
    <2>2. {m \in 2..(n - 1) : m >= n - r} = (n - r)..(n - 1)
        BY <1>1, <1>2
    <2>. QED  BY <2>1, <2>2
<1>5. Cardinality((n - r)..(n - 1)) = IF n - r > n - 1 THEN 0 ELSE n - 1 - (n - r) + 1
    <2>1. n - r \in Int /\ n - 1 \in Int
        BY <1>1
    <2>. QED  BY <2>1, FS_Interval
<1>. QED  BY <1>1, <1>4, <1>5

LEMMA StringWord ==
    ASSUME TypeOK, cur < End, text[cur] = "quote", At(StringStop) = "quote", NEW n, n = StringStop + 1 - cur
    PROVE  n \in Nat /\ n >= 1 /\ cur + n <= End /\ WordAt("string", cur, n)
<1>0. cur \in Nat /\ 1 <= cur /\ Len(text) \in Nat /\ End = Len(text) + 1
    BY TextFacts
<1>. PICK e : e = StringStop
    OBVIOUS
<1>1. /\ e \in Nat /\ e <= End /\ cur + 1 <= e
      /\ e # End => EvenRun(e)
      /\ \A p \in (cur + 1)..(e - 1) : text[p] = "quote" => OddRun(p)
    BY StringStopAt DEF StopsAt
<1>2. e < End /\ text[e] = "quote" /\ EvenRun(e)
    <2>1. e # End
        <3>1. At(End) = "end"
            BY <1>0, TextFacts
        <3>. QED  BY <3>1
    <2>2. e < End /\ e \in 1..Len(text)
        BY <1>0, <1>1, <2>1
    <2>3. At(e) = text[e]
        BY <2>2, TextFacts
    <2>. QED  BY <1>1, <2>1, <2>2, <2>3
<1>3. n \in Nat /\ n >= 2 /\ cur + n <= End /\ cur + n - 1 = e /\ n = e + 1 - cur
    BY <1>0, <1>1, <1>2
<1>4. Len(Seg(cur, n)) = n /\ \A i \in 1..n : Seg(cur, n)[i] = text[cur + i - 1]
    BY <1>0, <1>3, SegIs
<1>. PICK s : s = Seg(cur, n)
    OBVIOUS
<1>5. s[1] = "quote"
    <2>1. 1 \in 1..n /\ cur + 1 - 1 = cur
        BY <1>0, <1>3
    <2>. QED  BY <1>4, <2>1
<1>6. \A m : Closes(s, m) <=> s[m] = "quote" /\ Cardinality(Slashes(s, m)) % 2 = 0
    BY DEF Closes, Slashes
<1>7. ASSUME NEW m \in 2..n, NEW r, RunIs(cur + m - 1, r)
      PROVE  Cardinality(Slashes(s, m)) = r /\ s[m] = text[cur + m - 1]
    <2>1. \A k \in 1..n : s[k] = text[cur + k - 1]
        BY <1>4
    <2>2. m \in Nat /\ 2 <= m /\ m \in 1..n /\ \A k \in 2..m : s[k] = text[cur + k - 1]
        BY <1>3, <2>1
    <2>3. Cardinality(Slashes(s, m)) = r
        BY <1>0, <1>7, <2>2, RunCount
    <2>. QED  BY <2>1, <2>2, <2>3
<1>8. Closes(s, n)
    <2>1. PICK q \in Nat : RunIs(e, 2 * q)
        BY <1>2 DEF EvenRun
    <2>2. n \in 2..n /\ RunIs(cur + n - 1, 2 * q)
        BY <1>3, <2>1
    <2>3. Cardinality(Slashes(s, n)) = 2 * q /\ s[n] = text[cur + n - 1]
        BY <1>7, <2>2
    <2>4. s[n] = "quote"
        BY <1>2, <1>3, <2>3
    <2>5. (2 * q) % 2 = 0
        BY <2>1
    <2>. QED  BY <1>6, <2>3, <2>4, <2>5
<1>9. ASSUME NEW m \in 2..n, m # n, Closes(s, m) PROVE FALSE
    <2>1. s[m] = "quote" /\ Cardinality(Slashes(s, m)) % 2 = 0
        BY <1>6, <1>9
    <2>2. cur + m - 1 \in (cur + 1)..(e - 1) /\ m \in 1..n
        BY <1>0, <1>3, <1>9
    <2>3. text[cur + m - 1] = "quote"
        BY <1>4, <2>1, <2>2
    <2>4. PICK q \in Nat : RunIs(cur + m - 1, 2 * q + 1)
        <3>1. OddRun(cur + m - 1)
            BY <1>1, <2>2, <2>3
        <3>. QED  BY <3>1 DEF OddRun
    <2>5. Cardinality(Slashes(s, m)) = 2 * q + 1
        BY <1>7, <1>9, <2>4
    <2>6. (2 * q + 1) % 2 = 1
        BY <2>4
    <2>. QED  BY <2>1, <2>5, <2>6
<1>10. {m \in 2..n : Closes(s, m)} = {n}
    <2>1. n \in 2..n
        BY <1>3
    <2>. QED  BY <1>8, <1>9, <2>1
<1>11. StringOf(cur, n)
    BY <1>3, <1>5, <1>10 DEF StringOf
<1>. QED  BY <1>3, <1>11 DEF WordAt

-----------------------------------------------------------------------------
(* What a step does, in one of four shapes: the text is typed in, something
   between the words is skipped, a lexeme is handed out, or a string without
   an end fails.                                                            *)

Breaks == {"\n", "}", "end"}

TextOK ==
    /\ text \in Seq(Char) /\ cur \in 1..End
    /\ line \in Nat \ {0} /\ lineStart \in 0..cur
    /\ out \in Seq(Lexeme)

LayoutOK ==
    /\ levels \in Seq({"expr", "stmt"}) /\ blocky \in {-1} \union Nat
    /\ exprContext = (levels # <<>> /\ Last(levels) = "expr")
    /\ flag \in BOOLEAN

FlagOK == flag => Last(out).kind = "fake" /\ Last(out).start = cur /\ At(cur) \in Breaks /\ ~exprContext

LEMMA TypeParts == TypeOK <=> TextOK /\ LayoutOK /\ FlagOK
BY Zenon DEF TypeOK, TextOK, LayoutOK, FlagOK, Breaks

(* Nothing has been handed out while the text is typed in.                  *)
Fresh ==
    ~Started => /\ cur = 1 /\ line = 1 /\ out = <<>>
                /\ levels = <<>> /\ blocky = -1 /\ exprContext = FALSE /\ flag = FALSE

Typed == TypeOK /\ Fresh

(* What may be between two lexemes.                                         *)
Skipped(p) ==
    \/ At(p) \in {" ", "\n"}
    \/ \E q \in 1..p : At(q) = "#" /\ "\n" \notin ToSet(SubSeq(text, q, p))

Prepares ==
    /\ ~Started /\ out' = out /\ cur' = cur /\ line' = line
    /\ text' \in Seq(Char) /\ lineStart' \in {0, 1}
    /\ UNCHANGED layout

Skips ==
    /\ Started /\ ~Finished /\ out' = out /\ text' = text
    /\ cur' \in (cur + 1)..End
    /\ \A p \in cur..(cur' - 1) : Skipped(p)
    /\ \/ At(cur) = "\n" /\ cur' = cur + 1 /\ line' = line + 1 /\ lineStart' = cur + 1
       \/ (\A p \in cur..(cur' - 1) : text[p] # "\n") /\ line' = line /\ lineStart' = lineStart

Emits(k, n) ==
    /\ Started /\ ~Finished /\ Emit(k, n)
    /\ k \in Kind /\ n \in Nat /\ cur + n <= End /\ WordAt(k, cur, n)
    /\ n = 0 <=> k \in {"fake", "eof"}

Fails ==
    /\ Started /\ ~Finished /\ UNCHANGED <<text, line, lineStart>>
    /\ cur' \in Nat /\ cur <= cur' /\ cur' <= End
    /\ out' = Append(out, [kind |-> "error", start |-> cur', size |-> 0,
                           line |-> line, column |-> cur' - lineStart + 1])

LEMMA TypePrepares ==
    ASSUME LexerAssumption, TypeOK, Type
    PROVE  Prepares
<1>1. PICK c \in Chars : text' = Append(text, c)
    BY DEF Type
<1>2. ~Started /\ UNCHANGED <<cur, line, lineStart, layout, out>>
    BY DEF Type
<1>3. c \in Char /\ text \in Seq(Char)
    BY TypeParts DEF LexerAssumption, TextOK
<1>4. text' \in Seq(Char)
    BY <1>1, <1>3, AppendProperties
<1>5. lineStart' = 0
    BY <1>2 DEF Started
<1>. QED  BY <1>2, <1>4, <1>5 DEF Prepares

LEMMA BeginPrepares ==
    ASSUME TypeOK, Begin
    PROVE  Prepares
<1>1. text \in Seq(Char)
    BY TypeParts DEF TextOK
<1>. QED  BY <1>1 DEF Begin, Prepares

LEMMA LineBreakSkips ==
    ASSUME TypeOK, LineBreak
    PROVE  Skips /\ text[cur] = "\n"
<1>1. Asked({"\n"}) /\ cur' = cur + 1 /\ line' = line + 1 /\ lineStart' = cur + 1 /\ out' = out /\ text' = text
    BY DEF LineBreak
<1>2. Started /\ ~Finished /\ cur \in 1..Len(text) /\ cur < End /\ At(cur) = "\n" /\ text[cur] = "\n"
    <2>1. "end" \notin {"\n"}
        OBVIOUS
    <2>. QED  BY <1>1, <2>1, AskedFacts
<1>3. Skipped(cur)
    BY <1>2, Zenon DEF Skipped
<1>4. cur \in Nat /\ End \in Nat
    BY TextFacts
<1>5. cur' \in (cur + 1)..End /\ \A p \in cur..(cur' - 1) : p = cur
    BY <1>1, <1>2, <1>4
<1>. QED  BY <1>1, <1>2, <1>3, <1>5 DEF Skips

LEMMA BlankSkips ==
    ASSUME TypeOK, Blank
    PROVE  Skips /\ text[cur] # "\n"
<1>. DEFINE B == {" "}
<1>1. Asked(B) /\ cur' = cur + 1 /\ line' = line /\ lineStart' = lineStart /\ out' = out /\ text' = text
    BY Zenon DEF Blank
<1>2. "end" \notin B /\ "\n" \notin B /\ \A p : At(p) \in B => Skipped(p)
    BY Zenon DEF Skipped
<1>. HIDE DEF B
<1>3. Started /\ ~Finished /\ cur < End /\ At(cur) \in B /\ text[cur] = At(cur)
    BY <1>1, <1>2, AskedFacts
<1>4. cur \in Nat /\ End \in Nat
    BY TextFacts
<1>5. cur' \in (cur + 1)..End /\ \A p \in cur..(cur' - 1) : p = cur
    BY <1>1, <1>3, <1>4
<1>. QED  BY <1>1, <1>2, <1>3, <1>5 DEF Skips

LEMMA CommentSkips ==
    ASSUME TypeOK, Comment
    PROVE  Skips /\ text[cur] # "\n"
<1>. DEFINE S == {p \in 1..Len(text) : text[p] = "\n"}
<1>0. /\ cur \in Nat /\ 1 <= cur /\ Len(text) \in Nat /\ End = Len(text) + 1
    BY TextFacts
<1>0a. \A q \in 1..Len(text) : text[q] \in Char
    BY TextFacts
<1>1. Asked({"#"}) /\ cur' = First(S) /\ line' = line /\ lineStart' = lineStart /\ out' = out /\ text' = text
    BY DEF Comment
<1>2. Started /\ ~Finished /\ cur < End /\ At(cur) = "#" /\ text[cur] = "#"
    <2>1. "end" \notin {"#"}
        OBVIOUS
    <2>. QED  BY <1>1, <2>1, AskedFacts
<1>3. /\ cur' \in Nat /\ cur' > cur /\ cur' <= End
      /\ \A q \in S : q > cur => cur' <= q
    <2>1. S \subseteq Nat
        OBVIOUS
    <2>. HIDE DEF S
    <2>. QED  BY <1>0, <1>1, <1>2, <2>1, FirstIs
<1>3b. PICK e \in Nat : e = cur'
    BY <1>3
<1>3a. e > cur /\ e <= End
    BY <1>3, <1>3b
<1>3c. \A q \in S : q > cur => e <= q
    BY <1>3, <1>3b
<1>4. ASSUME NEW p \in cur..(e - 1) PROVE text[p] # "\n"
    <2>1. p \in 1..Len(text) /\ p < e
        BY <1>0, <1>3a
    <2>2. CASE p = cur
        BY <1>2, <2>2
    <2>3. CASE p # cur
        <3>1. p > cur
            BY <1>0, <2>3
        <3>. QED  BY <1>3c, <2>1, <3>1
    <2>. QED  BY <2>2, <2>3
<1>5. ASSUME NEW p \in cur..(e - 1) PROVE Skipped(p)
    <2>1. p \in Nat /\ cur <= p /\ p < e /\ p <= Len(text) /\ cur \in 1..p
        BY <1>0, <1>3a
    <2>2. \A i \in cur..p : text[i] \in Char /\ text[i] # "\n"
        <3>. TAKE i \in cur..p
        <3>1. i \in cur..(e - 1) /\ i \in 1..Len(text)
            BY <1>0, <1>3a, <2>1
        <3>. QED  BY <1>0a, <1>4, <3>1
    <2>. PICK s : s = SubSeq(text, cur, p)
        OBVIOUS
    <2>3. s \in Seq(Char) /\ Len(s) = p - cur + 1 /\ \A i \in 1..(p - cur + 1) : s[i] = text[cur + i - 1]
        <3>1. cur \in Int /\ p \in Int /\ cur <= p /\ \A i \in cur..p : text[i] \in Char
            BY <1>0, <2>1, <2>2
        <3>. QED  BY <3>1, SubSeqProperties
    <2>4. DOMAIN s = 1..(p - cur + 1)
        BY <2>3, LenProperties
    <2>5. \A i \in 1..(p - cur + 1) : cur + i - 1 \in cur..p
        BY <1>0, <2>1
    <2>6. "\n" \notin ToSet(s)
        BY <2>2, <2>3, <2>4, <2>5 DEF ToSet
    <2>. QED  BY <1>2, <2>1, <2>6, Zenon DEF Skipped
<1>. HIDE DEF S
<1>6. cur' \in (cur + 1)..End
    BY <1>0, <1>3
<1>7. /\ \A p \in cur..(cur' - 1) : Skipped(p)
      /\ \A p \in cur..(cur' - 1) : text[p] # "\n"
    BY <1>3b, <1>4, <1>5
<1>. QED  BY <1>1, <1>2, <1>6, <1>7 DEF Skips

LEMMA AtEnd ==
    ASSUME TypeOK
    PROVE  cur \in Nat /\ cur + 0 <= End /\ 0 \in Nat
<1>1. cur \in Nat /\ cur <= End /\ End \in Nat
    BY TextFacts
<1>. QED  BY <1>1

LEMMA FakeEmits ==
    ASSUME TypeOK, FakeSemicolon
    PROVE  Emits("fake", 0)
<1>1. Started /\ ~Finished /\ Emit("fake", 0)
    BY Zenon DEF FakeSemicolon, Asked
<1>. QED  BY <1>1, AtEnd DEF Emits, WordAt, Kind

LEMMA EndsEmits ==
    ASSUME TypeOK, Ends
    PROVE  Emits("eof", 0)
<1>1. Started /\ ~Finished /\ Emit("eof", 0)
    BY Zenon DEF Ends, Asked
<1>. QED  BY <1>1, AtEnd DEF Emits, WordAt, Kind

LEMMA NumberEmits ==
    ASSUME TypeOK, Number
    PROVE  \E n : Emits("number", n)
<1>1. Asked(Digits) /\ Emit("number", EndOfNumber - cur)
    BY Zenon DEF Number
<1>2. "end" \notin Digits
    BY DEF Digits
<1>3. Started /\ ~Finished /\ cur < End /\ text[cur] \in Digits
    BY <1>1, <1>2, AskedFacts
<1>. PICK n : n = EndOfNumber - cur
    OBVIOUS
<1>4. n \in Nat /\ n >= 1 /\ cur + n <= End /\ WordAt("number", cur, n)
    BY <1>3, NumberWord
<1>5. "number" \in Kind /\ (n = 0 <=> "number" \in {"fake", "eof"})
    <2>1. "number" \in Kind
        BY Zenon DEF Kind
    <2>2. n # 0 /\ "number" \notin {"fake", "eof"}
        BY <1>4
    <2>. QED  BY <2>1, <2>2
<1>. QED  BY <1>1, <1>3, <1>4, <1>5 DEF Emits

LEMMA IdentifierEmits ==
    ASSUME TypeOK, Identifier
    PROVE  \E k, n : Emits(k, n) /\ k = (IF n = 1 /\ text[cur] \in Words THEN text[cur] ELSE "ident")
<1>. PICK n : n = EndOfIdentifier - cur
    OBVIOUS
<1>. PICK k : k = IF n = 1 /\ text[cur] \in Words THEN text[cur] ELSE "ident"
    OBVIOUS
<1>1. Asked(Letters) /\ Emit(k, n)
    BY Zenon DEF Identifier
<1>2. "end" \notin Letters
    BY DEF Letters, Words
<1>3. Started /\ ~Finished /\ cur < End /\ text[cur] \in Letters
    BY <1>1, <1>2, AskedFacts
<1>4. n \in Nat /\ n >= 1 /\ cur + n <= End /\ WordAt(k, cur, n)
    BY <1>3, IdentifierWord
<1>5. k \in Words \/ k = "ident"
    OBVIOUS
<1>6. k \in Kind /\ k # "fake" /\ k # "eof"
    BY <1>5, Zenon DEF Kind, Words
<1>7. n = 0 <=> k \in {"fake", "eof"}
    BY <1>4, <1>6
<1>8. Emits(k, n)
    BY <1>1, <1>3, <1>4, <1>6, <1>7 DEF Emits
<1>. QED  BY <1>8

LEMMA StringEmits ==
    ASSUME TypeOK, String
    PROVE  Fails \/ \E n : Emits("string", n)
<1>1. Asked({"quote"})
    BY Zenon DEF String
<1>2. "end" \notin {"quote"}
    OBVIOUS
<1>3. Started /\ ~Finished /\ cur < End /\ text[cur] = "quote"
    BY <1>1, <1>2, AskedFacts
<1>4. CASE At(StringStop) = "quote"
    <2>. PICK n : n = StringStop + 1 - cur
        OBVIOUS
    <2>1. Emit("string", n)
        BY <1>4, Zenon DEF String
    <2>2. n \in Nat /\ n >= 1 /\ cur + n <= End /\ WordAt("string", cur, n)
        BY <1>3, <1>4, StringWord
    <2>3. "string" \in Kind /\ (n = 0 <=> "string" \in {"fake", "eof"})
        <3>1. "string" \in Kind
            BY Zenon DEF Kind
        <3>2. n # 0 /\ "string" \notin {"fake", "eof"}
            BY <2>2
        <3>. QED  BY <3>1, <3>2
    <2>. QED  BY <1>3, <2>1, <2>2, <2>3 DEF Emits
<1>5. CASE At(StringStop) # "quote"
    <2>1. /\ cur' = StringStop /\ UNCHANGED <<text, line, lineStart>>
          /\ out' = Append(out, [kind |-> "error", start |-> StringStop, size |-> 0,
                                 line |-> line, column |-> StringStop - lineStart + 1])
        BY <1>5, Zenon DEF String
    <2>2. StringStop \in Nat /\ StringStop <= End /\ cur <= StringStop
        <3>1. StringStop \in Nat /\ StringStop <= End /\ cur + 1 <= StringStop /\ cur \in Nat
            BY <1>3, StringStopAt, TextFacts DEF StopsAt
        <3>. QED  BY <3>1
    <2>. QED  BY <1>3, <2>1, <2>2 DEF Fails
<1>. QED  BY <1>4, <1>5

LEMMA OperatorEmits ==
    ASSUME TypeOK, Operator
    PROVE  \E n : Emits("op", n)
<1>. PICK n : n = IF At(cur) \in DOMAIN Compound THEN SizeOfOperator ELSE 1
    OBVIOUS
<1>1. Asked(DOMAIN Compound \union Single) /\ Emit("op", n)
    BY Zenon DEF Operator, Single
<1>2. "end" \notin DOMAIN Compound \union Single
    BY CharFacts, Zenon DEF Single
<1>3. Started /\ ~Finished /\ cur < End /\ text[cur] \in DOMAIN Compound \union Single /\ At(cur) = text[cur]
    BY <1>1, <1>2, AskedFacts
<1>4. n = IF text[cur] \in DOMAIN Compound THEN SizeOfOperator ELSE 1
    BY <1>3
<1>5. n \in Nat /\ n >= 1 /\ cur + n <= End /\ WordAt("op", cur, n)
    BY <1>3, <1>4, OperatorWord
<1>6. "op" \in Kind /\ (n = 0 <=> "op" \in {"fake", "eof"})
    <2>1. "op" \in Kind
        BY Zenon DEF Kind
    <2>2. n # 0 /\ "op" \notin {"fake", "eof"}
        BY <1>5
    <2>. QED  BY <2>1, <2>2
<1>. QED  BY <1>1, <1>3, <1>5, <1>6 DEF Emits

LEMMA BracketEmits ==
    ASSUME TypeOK, NEW S \in SUBSET Bracket, Asked(S), NEW k, k = At(cur), Emit(k, 1)
    PROVE  Emits(k, 1) /\ k \in Bracket
<1>1. "end" \notin S
    <2>1. "end" \notin Bracket
        BY Zenon DEF Bracket
    <2>. QED  BY <2>1
<1>2. Started /\ ~Finished /\ cur < End /\ text[cur] \in S /\ k = text[cur]
    BY <1>1, AskedFacts
<1>3. k \in Bracket /\ WordAt(k, cur, 1)
    BY <1>2, BracketWord
<1>4. k \in Kind /\ k # "fake" /\ k # "eof"
    BY <1>3, BracketSpelled
<1>5. 1 \in Nat /\ cur + 1 <= End /\ (1 = 0 <=> k \in {"fake", "eof"})
    <2>1. cur \in Nat /\ End \in Nat
        BY TextFacts
    <2>. QED  BY <1>2, <1>4, <2>1
<1>. QED  BY <1>2, <1>3, <1>4, <1>5 DEF Emits

LEMMA OpenEmits ==
    ASSUME TypeOK, Open
    PROVE  Emits(At(cur), 1) /\ At(cur) \in {"(", "["}
<1>1. Asked({"(", "["}) /\ Emit(At(cur), 1)
    BY Zenon DEF Open
<1>2. {"(", "["} \in SUBSET Bracket
    BY Zenon DEF Bracket
<1>3. At(cur) \in {"(", "["}
    BY <1>1, Zenon DEF Asked
<1>. QED  BY <1>1, <1>2, <1>3, BracketEmits

LEMMA CloseEmits ==
    ASSUME TypeOK, Close
    PROVE  Emits(At(cur), 1) /\ At(cur) \in {")", "]"}
<1>1. Asked({")", "]"}) /\ Emit(At(cur), 1)
    BY Zenon DEF Close
<1>2. {")", "]"} \in SUBSET Bracket
    BY Zenon DEF Bracket
<1>3. At(cur) \in {")", "]"}
    BY <1>1, Zenon DEF Asked
<1>. QED  BY <1>1, <1>2, <1>3, BracketEmits

(* The braces, named since they stand for themselves in Asked.              *)
OpeningBrace == "{"
ClosingBrace == "}"

LEMMA OpenBraceEmits ==
    ASSUME TypeOK, OpenBrace
    PROVE  Emits(OpeningBrace, 1) /\ At(cur) = OpeningBrace
<1>1. Asked({OpeningBrace}) /\ Emit(OpeningBrace, 1)
    BY Zenon DEF OpenBrace, OpeningBrace
<1>2. {OpeningBrace} \in SUBSET Bracket
    BY Zenon DEF Bracket, OpeningBrace
<1>3. At(cur) = OpeningBrace
    BY <1>1, Zenon DEF Asked
<1>. QED  BY <1>1, <1>2, <1>3, BracketEmits

LEMMA BreaksAre ==
    {"\n", "}", "end"} = Breaks /\ ClosingBrace \in Breaks /\ "\n" \in Breaks /\ "end" \in Breaks
BY Zenon DEF Breaks, ClosingBrace

LEMMA CloseBraceEmits ==
    ASSUME TypeOK, CloseBrace
    PROVE  Emits(ClosingBrace, 1) /\ At(cur) = ClosingBrace
<1>1. Asked({ClosingBrace}) /\ Emit(ClosingBrace, 1)
    BY Zenon DEF CloseBrace, ClosingBrace
<1>2. {ClosingBrace} \in SUBSET Bracket
    BY Zenon DEF Bracket, ClosingBrace
<1>3. At(cur) = ClosingBrace
    BY <1>1, Zenon DEF Asked
<1>. QED  BY <1>1, <1>2, <1>3, BracketEmits

LEMMA UnexpectedEmits ==
    ASSUME TypeOK, Unexpected
    PROVE  Emits("error", 1)
<1>. DEFINE S == {"?", "'", "\\"}
<1>1. Asked(S) /\ Emit("error", 1)
    BY Zenon DEF Unexpected
<1>2. "end" \notin S
    OBVIOUS
<1>. HIDE DEF S
<1>3. Started /\ ~Finished /\ cur < End
    BY <1>1, <1>2, AskedFacts
<1>4. 1 \in Nat /\ cur + 1 <= End
    <2>1. cur \in Nat /\ End \in Nat
        BY TextFacts
    <2>. QED  BY <1>3, <2>1
<1>5. "error" \in Kind /\ (1 = 0 <=> "error" \in {"fake", "eof"}) /\ WordAt("error", cur, 1)
    BY DEF Kind, WordAt
<1>. QED  BY <1>1, <1>3, <1>4, <1>5 DEF Emits

LEMMA Shapes ==
    ASSUME LexerAssumption, TypeOK, Next
    PROVE  Prepares \/ Skips \/ Fails \/ \E k, n : Emits(k, n)
<1>1. CASE Type
    BY <1>1, TypePrepares
<1>2. CASE Begin
    BY <1>2, BeginPrepares
<1>3. CASE FakeSemicolon
    BY <1>3, FakeEmits
<1>4. CASE Ends
    BY <1>4, EndsEmits
<1>5. CASE LineBreak
    BY <1>5, LineBreakSkips
<1>6. CASE Blank
    BY <1>6, BlankSkips
<1>7. CASE Comment
    BY <1>7, CommentSkips
<1>8. CASE Number
    BY <1>8, NumberEmits
<1>9. CASE Identifier
    BY <1>9, IdentifierEmits
<1>10. CASE String
    BY <1>10, StringEmits
<1>11. CASE Operator
    BY <1>11, OperatorEmits
<1>12. CASE Unexpected
    BY <1>12, UnexpectedEmits
<1>13. CASE Open
    BY <1>13, OpenEmits
<1>14. CASE OpenBrace
    BY <1>14, OpenBraceEmits
<1>15. CASE Close
    BY <1>15, CloseEmits
<1>16. CASE CloseBrace
    BY <1>16, CloseBraceEmits
<1>. QED  BY <1>1, <1>2, <1>3, <1>4, <1>5, <1>6, <1>7, <1>8, <1>9, <1>10,
             <1>11, <1>12, <1>13, <1>14, <1>15, <1>16 DEF Next

-----------------------------------------------------------------------------
(* The stack of levels, and the flag.                                       *)

SameLevels == UNCHANGED <<levels, blocky, exprContext>>

LEMMA PushKept ==
    ASSUME LayoutOK, NEW l \in {"expr", "stmt"}, Push(l), blocky' \in {-1} \union Nat, flag' \in BOOLEAN
    PROVE  LayoutOK'
<1>1. levels \in Seq({"expr", "stmt"}) /\ levels' = Append(levels, l) /\ exprContext' = (l = "expr")
    BY DEF LayoutOK, Push
<1>2. levels' \in Seq({"expr", "stmt"}) /\ Len(levels') = Len(levels) + 1 /\ levels'[Len(levels) + 1] = l /\ Len(levels) \in Nat
    BY <1>1, AppendProperties
<1>3. levels' # <<>> /\ Last(levels') = l
    BY <1>2 DEF Last
<1>4. exprContext' = (levels' # <<>> /\ Last(levels') = "expr")
    BY <1>1, <1>3
<1>. QED  BY <1>2, <1>4 DEF LayoutOK

LEMMA PopKept ==
    ASSUME LayoutOK, Pop, flag' \in BOOLEAN
    PROVE  LayoutOK' /\ blocky' = blocky /\ levels' = IF levels = <<>> THEN <<>> ELSE Front(levels)
<1>1. CASE levels = <<>>
    BY <1>1 DEF LayoutOK, Pop
<1>2. CASE levels # <<>>
    <2>1. levels' = Front(levels) /\ exprContext' = (levels' # <<>> /\ Last(levels') = "expr") /\ blocky' = blocky
        BY <1>2 DEF Pop
    <2>2. levels' \in Seq({"expr", "stmt"})
        <3>1. levels \in Seq({"expr", "stmt"}) /\ Len(levels) \in Nat /\ \A i \in 1..Len(levels) : levels[i] \in {"expr", "stmt"}
            BY LenProperties, ElementOfSeq DEF LayoutOK
        <3>2. 1 \in Int /\ Len(levels) - 1 \in Int /\ \A i \in 1..(Len(levels) - 1) : levels[i] \in {"expr", "stmt"}
            BY <3>1
        <3>3. SubSeq(levels, 1, Len(levels) - 1) \in Seq({"expr", "stmt"})
            BY <3>2, SubSeqProperties
        <3>. QED  BY <2>1, <3>3 DEF Front
    <2>. QED  BY <1>2, <2>1, <2>2 DEF LayoutOK
<1>. QED  BY <1>1, <1>2

LEMMA FlagOff ==
    ASSUME TypeOK, NEW S, Asked(S), S \cap Breaks = {}
    PROVE  flag = FALSE
<1>1. At(cur) \in S
    BY DEF Asked
<1>2. At(cur) \notin Breaks
    BY <1>1
<1>. QED  BY <1>2, TypeParts DEF FlagOK, LayoutOK

LEMMA FlagReset ==
    ASSUME TypeOK, Resets
    PROVE  flag' = FALSE
BY TypeParts DEF Resets, FlagOK, LayoutOK

(* What a step may do to the stack of levels, by what it hands out, and
   whether a semicolon may be due before it.                                *)
Moves ==
    \/ SameLevels /\ flag' = FALSE /\ out' = out /\ ~Started
    \/ SameLevels /\ flag' = FALSE /\ Skips /\ text[cur] = "\n" /\ ~Inserts
    \/ SameLevels /\ flag' = FALSE /\ Skips /\ text[cur] # "\n" /\ flag = FALSE
    \/ SameLevels /\ flag' = FALSE /\ flag = FALSE
       /\ \E k, n : Emits(k, n) /\ k \in {"number", "string", "op", "error", "ident", "nil"}
    \/ SameLevels /\ flag' = FALSE /\ ~Inserts /\ At(cur) = "end" /\ \E n : Emits("eof", n)
    \/ SameLevels /\ flag' = FALSE /\ Fails
    \/ FakeSemicolon
    \/ levels' = levels /\ exprContext' = exprContext /\ SetBlocky /\ flag' = FALSE /\ flag = FALSE /\ \E n : Emits("if", n)
    \/ Push("expr") /\ blocky' = blocky /\ flag' = FALSE /\ flag = FALSE /\ \E k, n : Emits(k, n) /\ k \in {"(", "["}
    \/ PushBlocky /\ flag' = FALSE /\ flag = FALSE /\ \E n : Emits(OpeningBrace, n)
    \/ Pop /\ flag' = FALSE /\ flag = FALSE /\ \E k, n : Emits(k, n) /\ k \in {")", "]"}
    \/ Pop /\ flag' = FALSE /\ ~Inserts /\ \E n : Emits(ClosingBrace, n)

LEMMA IdentifierMoves ==
    ASSUME TypeOK, Identifier
    PROVE  Moves
<1>1. PICK k, n : Emits(k, n) /\ k = (IF n = 1 /\ text[cur] \in Words THEN text[cur] ELSE "ident")
    BY IdentifierEmits
<1>2. Asked(Letters) /\ UNCHANGED <<levels, exprContext, flag>>
    BY Zenon DEF Identifier
<1>3. flag' = FALSE /\ flag = FALSE
    <2>1. Letters \cap Breaks = {}
        BY Zenon DEF Letters, Words, Breaks
    <2>. QED  BY <1>2, <2>1, FlagOff
<1>4. LET m == EndOfIdentifier - cur
          keyword == m = 1 /\ text[cur] \in Words
      IN  /\ Emit(IF keyword THEN text[cur] ELSE "ident", m)
          /\ IF keyword /\ text[cur] = "if" THEN SetBlocky ELSE UNCHANGED blocky
    BY Zenon DEF Identifier
<1>5. n = EndOfIdentifier - cur
    <2>1. cur' = cur + n /\ cur' = cur + (EndOfIdentifier - cur)
        BY <1>1, <1>4 DEF Emits, Emit
    <2>2. n \in Nat /\ cur \in Nat /\ EndOfIdentifier \in Nat
        <3>1. text[cur] \in Letters /\ cur < End
            <4>1. "end" \notin Letters
                BY DEF Letters, Words
            <4>. QED  BY <1>2, <4>1, AskedFacts
        <3>2. {p \in 1..Len(text) : text[p] \notin Letters \union Digits} \subseteq Nat
            OBVIOUS
        <3>3. EndOfIdentifier \in Nat
            BY <3>1, <3>2, FirstIs, TextFacts DEF EndOfIdentifier
        <3>. QED  BY <1>1, <3>3, TextFacts DEF Emits
    <2>. QED  BY <2>1, <2>2
<1>6. k = "if" \/ k = "nil" \/ k = "ident"
    BY <1>1 DEF Words
<1>7. CASE k = "if"
    <2>1. SetBlocky
        BY <1>1, <1>4, <1>5, <1>7
    <2>. QED  BY <1>1, <1>2, <1>3, <1>7, <2>1 DEF Moves
<1>8. CASE k = "nil" \/ k = "ident"
    <2>1. UNCHANGED blocky
        BY <1>1, <1>4, <1>5, <1>8 DEF Words
    <2>. QED  BY <1>1, <1>2, <1>3, <1>8, <2>1 DEF Moves, SameLevels
<1>. QED  BY <1>6, <1>7, <1>8

LEMMA MovesAll ==
    ASSUME Typed, Next
    PROVE  Moves
<1>0. TypeOK /\ Fresh
    BY DEF Typed
<1>1. CASE Type \/ Begin
    <2>1. ~Started /\ UNCHANGED <<levels, blocky, exprContext, flag>> /\ out' = out
        BY <1>1, Zenon DEF Type, Begin, layout
    <2>2. flag' = FALSE
        BY <1>0, <2>1 DEF Fresh
    <2>. QED  BY <2>1, <2>2 DEF Moves, SameLevels
<1>2. CASE FakeSemicolon
    BY <1>2 DEF Moves
<1>3. CASE Ends
    <2>1. SameLevels /\ Resets /\ ~Inserts /\ At(cur) = "end"
        BY <1>3, Zenon DEF Ends, SameLevels, Asked
    <2>2. flag' = FALSE /\ Emits("eof", 0)
        BY <1>0, <1>3, <2>1, FlagReset, EndsEmits
    <2>. QED  BY <2>1, <2>2 DEF Moves
<1>4. CASE LineBreak
    <2>1. SameLevels /\ Resets /\ ~Inserts
        BY <1>4, Zenon DEF LineBreak, SameLevels
    <2>2. flag' = FALSE
        BY <1>0, <2>1, FlagReset
    <2>3. Skips /\ text[cur] = "\n"
        BY <1>0, <1>4, LineBreakSkips
    <2>. QED  BY <2>1, <2>2, <2>3, Zenon DEF Moves
<1>5. CASE Blank
    <2>1. {" "} \cap Breaks = {}
        BY Zenon DEF Breaks
    <2>2. SameLevels /\ flag' = flag /\ Asked({" "})
        BY <1>5, Zenon DEF Blank, SameLevels, layout
    <2>3. flag = FALSE
        BY <1>0, <2>1, <2>2, FlagOff, Zenon
    <2>4. Skips /\ text[cur] # "\n"
        BY <1>0, <1>5, BlankSkips, Zenon
    <2>. QED  BY <2>2, <2>3, <2>4, Zenon DEF Moves
<1>6. CASE Comment
    <2>1. {"#"} \cap Breaks = {}
        BY Zenon DEF Breaks
    <2>2. SameLevels /\ flag' = flag /\ Asked({"#"})
        BY <1>6, Zenon DEF Comment, SameLevels, layout
    <2>3. flag = FALSE
        BY <1>0, <2>1, <2>2, FlagOff, Zenon
    <2>4. Skips /\ text[cur] # "\n"
        BY <1>0, <1>6, CommentSkips, Zenon
    <2>. QED  BY <2>2, <2>3, <2>4, Zenon DEF Moves
<1>7. CASE Number
    <2>1. Digits \cap Breaks = {}
        BY Zenon DEF Breaks, Digits
    <2>2. SameLevels /\ flag' = flag /\ Asked(Digits)
        BY <1>7, Zenon DEF Number, SameLevels, layout
    <2>3. flag = FALSE /\ \E n : Emits("number", n)
        BY <1>0, <1>7, <2>1, <2>2, FlagOff, NumberEmits, Zenon
    <2>. QED  BY <2>2, <2>3 DEF Moves
<1>8. CASE Identifier
    BY <1>0, <1>8, IdentifierMoves
<1>9. CASE String
    <2>1. {"quote"} \cap Breaks = {}
        BY Zenon DEF Breaks
    <2>2. SameLevels /\ flag' = flag /\ Asked({"quote"})
        BY <1>9, Zenon DEF String, SameLevels, layout
    <2>3. flag = FALSE /\ (Fails \/ \E n : Emits("string", n))
        BY <1>0, <1>9, <2>1, <2>2, FlagOff, StringEmits, Zenon
    <2>. QED  BY <2>2, <2>3 DEF Moves
<1>10. CASE Operator
    <2>1. (DOMAIN Compound \union Single) \cap Breaks = {}
        BY CharFacts, Zenon DEF Breaks, Single
    <2>2. SameLevels /\ flag' = flag /\ Asked(DOMAIN Compound \union Single)
        BY <1>10, Zenon DEF Operator, SameLevels, layout, Single
    <2>3. flag = FALSE /\ \E n : Emits("op", n)
        BY <1>0, <1>10, <2>1, <2>2, FlagOff, OperatorEmits, Zenon
    <2>. QED  BY <2>2, <2>3 DEF Moves
<1>11. CASE Unexpected
    <2>1. {"?", "'", "\\"} \cap Breaks = {}
        BY Zenon DEF Breaks
    <2>2. SameLevels /\ flag' = flag /\ Asked({"?", "'", "\\"})
        BY <1>11, Zenon DEF Unexpected, SameLevels, layout
    <2>3. flag = FALSE /\ Emits("error", 1)
        BY <1>0, <1>11, <2>1, <2>2, FlagOff, UnexpectedEmits, Zenon
    <2>. QED  BY <2>2, <2>3 DEF Moves
<1>12. CASE Open
    <2>1. {"(", "["} \cap Breaks = {}
        BY Zenon DEF Breaks
    <2>2. Push("expr") /\ UNCHANGED <<blocky, flag>> /\ Asked({"(", "["})
        BY <1>12, Zenon DEF Open
    <2>3. flag = FALSE /\ Emits(At(cur), 1) /\ At(cur) \in {"(", "["}
        BY <1>0, <1>12, <2>1, <2>2, FlagOff, OpenEmits, Zenon
    <2>. QED  BY <2>2, <2>3 DEF Moves
<1>13. CASE OpenBrace
    <2>1. {OpeningBrace} \cap Breaks = {}
        BY Zenon DEF Breaks, OpeningBrace
    <2>2. PushBlocky /\ flag' = flag /\ Asked({OpeningBrace})
        BY <1>13, Zenon DEF OpenBrace, OpeningBrace
    <2>3. flag = FALSE /\ Emits(OpeningBrace, 1)
        BY <1>0, <1>13, <2>1, <2>2, FlagOff, OpenBraceEmits, Zenon
    <2>. QED  BY <2>2, <2>3 DEF Moves
<1>14. CASE Close
    <2>1. {")", "]"} \cap Breaks = {}
        BY Zenon DEF Breaks
    <2>2. Pop /\ flag' = flag /\ Asked({")", "]"})
        BY <1>14, Zenon DEF Close
    <2>3. flag = FALSE /\ Emits(At(cur), 1) /\ At(cur) \in {")", "]"}
        BY <1>0, <1>14, <2>1, <2>2, FlagOff, CloseEmits, Zenon
    <2>. QED  BY <2>2, <2>3 DEF Moves
<1>15. CASE CloseBrace
    <2>1. Pop /\ Resets /\ ~Inserts
        BY <1>15, Zenon DEF CloseBrace
    <2>2. flag' = FALSE /\ Emits(ClosingBrace, 1)
        BY <1>0, <1>15, <2>1, FlagReset, CloseBraceEmits
    <2>. QED  BY <2>1, <2>2 DEF Moves
<1>. QED  BY <1>1, <1>2, <1>3, <1>4, <1>5, <1>6, <1>7, <1>8, <1>9, <1>10,
             <1>11, <1>12, <1>13, <1>14, <1>15 DEF Next

LEMMA LayoutKept ==
    ASSUME Typed, Next
    PROVE  LayoutOK'
<1>1. LayoutOK /\ blocky \in {-1} \union Nat /\ Len(levels) \in Nat
    <2>1. LayoutOK
        BY TypeParts DEF Typed
    <2>. QED  BY <2>1, LenProperties DEF LayoutOK
<1>2. Moves
    BY MovesAll
<1>3. flag' \in BOOLEAN
    <2>1. FakeSemicolon => flag' = TRUE
        BY Zenon DEF FakeSemicolon
    <2>. QED  BY <1>2, <2>1 DEF Moves
<1>4. CASE SameLevels
    BY <1>1, <1>3, <1>4 DEF LayoutOK, SameLevels
<1>5. CASE FakeSemicolon
    <2>1. SameLevels
        BY <1>5, Zenon DEF FakeSemicolon, SameLevels
    <2>. QED  BY <1>4, <2>1
<1>6. CASE levels' = levels /\ exprContext' = exprContext /\ SetBlocky
    BY <1>1, <1>3, <1>6 DEF LayoutOK, SetBlocky
<1>7. CASE Push("expr") /\ blocky' = blocky
    BY <1>1, <1>3, <1>7, PushKept
<1>8. CASE PushBlocky
    <2>1. PICK l \in {"expr", "stmt"} : Push(l)
        BY <1>8 DEF PushBlocky
    <2>2. blocky' \in {-1} \union Nat
        BY <1>1, <1>8 DEF PushBlocky
    <2>. QED  BY <1>1, <1>3, <2>1, <2>2, PushKept
<1>9. CASE Pop
    BY <1>1, <1>3, <1>9, PopKept
<1>. QED  BY <1>2, <1>4, <1>5, <1>6, <1>7, <1>8, <1>9 DEF Moves

-----------------------------------------------------------------------------
(* The types.                                                               *)

LEMMA EndSame ==
    ASSUME text' = text
    PROVE  End' = End
BY DEF End

(* A lexeme handed out is one, and where it ends is in the text.             *)
LEMMA EmitKept ==
    ASSUME TextOK, NEW k \in Kind, NEW n \in Nat, cur + n <= End, Emit(k, n)
    PROVE  TextOK' /\ Len(out') = Len(out) + 1 /\ Last(out').kind = k /\ Last(out').start = cur
<1>1. /\ text \in Seq(Char) /\ cur \in 1..End /\ out \in Seq(Lexeme)
      /\ line \in Nat \ {0} /\ lineStart \in 0..cur
    BY DEF TextOK
<1>2. End \in Nat /\ cur \in Nat /\ 1 <= cur
    <2>1. Len(text) \in Nat
        BY <1>1, LenProperties
    <2>. QED  BY <1>1, <2>1 DEF End
<1>. DEFINE l == [kind |-> k, start |-> cur, size |-> n, line |-> line, column |-> cur - lineStart + 1]
<1>3. l \in Lexeme
    <2>1. cur - lineStart + 1 \in Nat \ {0} /\ cur \in Nat \ {0}
        BY <1>1, <1>2
    <2>. QED  BY <1>1, <2>1 DEF Lexeme
<1>4. l.kind = k /\ l.start = cur
    OBVIOUS
<1>5. cur' = cur + n /\ out' = Append(out, l) /\ text' = text /\ line' = line /\ lineStart' = lineStart
    BY DEF Emit
<1>. HIDE DEF l
<1>6. out' \in Seq(Lexeme) /\ Len(out') = Len(out) + 1 /\ out'[Len(out) + 1] = l
    BY <1>1, <1>3, <1>5, AppendProperties
<1>7. Last(out') = l
    BY <1>6 DEF Last
<1>8. cur' \in 1..End /\ lineStart' \in 0..cur'
    BY <1>1, <1>2, <1>5
<1>9. TextOK'
    BY <1>1, <1>5, <1>6, <1>8, EndSame DEF TextOK
<1>. QED  BY <1>4, <1>6, <1>7, <1>9

LEMMA TextKept ==
    ASSUME LexerAssumption, Typed, Next
    PROVE  TextOK'
<1>1. TypeOK /\ TextOK /\ Fresh
    BY TypeParts DEF Typed
<1>2. /\ text \in Seq(Char) /\ cur \in Nat /\ 1 <= cur /\ cur <= End /\ End \in Nat /\ out \in Seq(Lexeme)
      /\ line \in Nat \ {0} /\ lineStart \in Nat /\ lineStart <= cur
    <2>1. cur \in Nat /\ 1 <= cur /\ cur <= End /\ End \in Nat
        BY <1>1, TextFacts
    <2>. QED  BY <1>1, <2>1 DEF TextOK
<1>3. CASE Prepares
    <2>1. cur' = 1 /\ line' = 1 /\ out' = out /\ text' \in Seq(Char) /\ lineStart' \in {0, 1}
        BY <1>1, <1>3 DEF Prepares, Fresh
    <2>2. End' \in Nat /\ 1 <= End'
        <3>1. Len(text') \in Nat
            BY <2>1, LenProperties
        <3>. QED  BY <3>1 DEF End
    <2>3. cur' \in 1..End' /\ lineStart' \in 0..cur'
        BY <2>1, <2>2
    <2>. QED  BY <1>2, <2>1, <2>3 DEF TextOK
<1>4. CASE Skips
    <2>1. out' = out /\ text' = text /\ End' = End
        BY <1>4, EndSame DEF Skips
    <2>2. cur' \in 1..End /\ cur' \in Nat /\ cur' > cur
        BY <1>2, <1>4 DEF Skips
    <2>3. line' \in Nat \ {0} /\ lineStart' \in 0..cur'
        <3>1. (line' = line + 1 /\ lineStart' = cur + 1) \/ (line' = line /\ lineStart' = lineStart)
            BY <1>4 DEF Skips
        <3>. QED  BY <1>2, <2>2, <3>1
    <2>. QED  BY <1>2, <2>1, <2>2, <2>3 DEF TextOK
<1>5. CASE Fails
    <2>1. /\ text' = text /\ End' = End /\ line' = line /\ lineStart' = lineStart
          /\ cur' \in Nat /\ cur <= cur' /\ cur' <= End
          /\ out' = Append(out, [kind |-> "error", start |-> cur', size |-> 0,
                                 line |-> line, column |-> cur' - lineStart + 1])
        BY <1>5, EndSame DEF Fails
    <2>2. cur' - lineStart + 1 \in Nat \ {0} /\ cur' \in Nat \ {0} /\ cur' \in 1..End /\ lineStart \in 0..cur'
        <3>1. PICK e \in Nat : e = cur'
            BY <2>1
        <3>2. cur \in Nat /\ 1 <= cur /\ End \in Nat /\ lineStart \in Nat /\ lineStart <= cur
            BY <1>2
        <3>3. cur <= e /\ e <= End
            BY <2>1, <3>1
        <3>4. e - lineStart + 1 \in Nat \ {0} /\ e \in Nat \ {0} /\ e \in 1..End /\ lineStart \in 0..e
            BY <3>2, <3>3
        <3>. QED  BY <3>1, <3>4, Zenon
    <2>3. [kind |-> "error", start |-> cur', size |-> 0,
           line |-> line, column |-> cur' - lineStart + 1] \in Lexeme
        <3>1. "error" \in Kind
            BY Zenon DEF Kind
        <3>. QED  BY <1>2, <2>2, <3>1 DEF Lexeme
    <2>4. out' \in Seq(Lexeme)
        BY <1>2, <2>1, <2>3, AppendProperties
    <2>. QED  BY <1>2, <2>1, <2>2, <2>4 DEF TextOK
<1>6. ASSUME NEW k, NEW n, Emits(k, n) PROVE TextOK'
    BY <1>1, <1>6, EmitKept DEF Emits
<1>. QED  BY <1>1, <1>3, <1>4, <1>5, <1>6, Shapes

LEMMA TypedKept ==
    ASSUME LexerAssumption, Typed, [Next]_vars
    PROVE  Typed'
<1>1. TypeOK /\ TextOK /\ LayoutOK /\ FlagOK /\ Fresh
    BY TypeParts DEF Typed
<1>2. CASE UNCHANGED vars
    BY <1>1, <1>2, Zenon DEF Typed, TypeOK, Fresh, vars, layout, Started, At, End
<1>3. CASE Next
    <2>1. TextOK' /\ LayoutOK'
        BY <1>3, TextKept, LayoutKept
    <2>2. FlagOK'
        <3>1. CASE FakeSemicolon
            <4>1. Emits("fake", 0) /\ At(cur) \in Breaks /\ exprContext' = FALSE
                <5>1. At(cur) \in Breaks /\ ~exprContext /\ UNCHANGED exprContext
                    BY <3>1, Zenon DEF FakeSemicolon, Asked, Breaks, Inserts
                <5>2. exprContext = FALSE
                    BY <1>1, <5>1 DEF LayoutOK
                <5>. QED  BY <1>1, <3>1, <5>1, <5>2, FakeEmits
            <4>2. Last(out').kind = "fake" /\ Last(out').start = cur
                BY <1>1, <4>1, EmitKept DEF Emits
            <4>3. cur' = cur + 0 /\ text' = text
                BY <4>1 DEF Emits, Emit
            <4>4. cur' = cur
                BY <1>1, <4>3, TextFacts
            <4>5. At(cur)' = At(cur)
                BY <4>3, <4>4, EndSame DEF At
            <4>. QED  BY <4>1, <4>2, <4>4, <4>5 DEF FlagOK
        <3>2. CASE ~ FakeSemicolon
            <4>1. flag' = FALSE
                BY <1>3, <3>2, MovesAll DEF Moves
            <4>. QED  BY <4>1 DEF FlagOK
        <3>. QED  BY <3>1, <3>2
    <2>3. TypeOK'
        <3>1. (TypeOK <=> TextOK /\ LayoutOK /\ FlagOK)'
            BY Zenon DEF TypeOK, TextOK, LayoutOK, FlagOK, Breaks
        <3>. QED  BY <2>1, <2>2, <3>1
    <2>4. Fresh'
        <3>1. CASE Prepares
            BY <1>1, <3>1 DEF Prepares, Fresh, layout, Started
        <3>2. CASE Started
            <4>1. lineStart' # 0
                <5>1. lineStart # 0 /\ cur \in Nat
                    BY <1>1, <3>2, TextFacts DEF Started
                <5>2. CASE Skips
                    <6>1. lineStart' = cur + 1 \/ lineStart' = lineStart
                        BY <5>2, Zenon DEF Skips
                    <6>. QED  BY <5>1, <6>1
                <5>3. CASE Fails
                    BY <5>1, <5>3 DEF Fails
                <5>4. ASSUME NEW k, NEW n, Emits(k, n) PROVE lineStart' # 0
                    <6>1. lineStart' = lineStart
                        BY <5>4, Zenon DEF Emits, Emit
                    <6>. QED  BY <5>1, <6>1
                <5>5. ~ Prepares
                    BY <3>2 DEF Prepares
                <5>. QED  BY <1>1, <1>3, <5>2, <5>3, <5>4, <5>5, Shapes
            <4>. QED  BY <4>1 DEF Fresh, Started
        <3>3. Prepares \/ Started
            BY <1>1, <1>3, Shapes DEF Skips, Fails, Emits
        <3>. QED  BY <3>1, <3>2, <3>3
    <2>. QED  BY <2>3, <2>4 DEF Typed
<1>. QED  BY <1>2, <1>3

LEMMA TypedAtFirst ==
    ASSUME Init
    PROVE  Typed
<1>1. /\ text = <<>> /\ cur = 1 /\ line = 1 /\ lineStart = 0 /\ levels = <<>> /\ blocky = -1
      /\ exprContext = FALSE /\ flag = FALSE /\ out = <<>>
    BY DEF Init
<1>2. End = 1
    BY <1>1 DEF End
<1>3. TextOK /\ LayoutOK /\ FlagOK
    <2>1. TextOK
        BY <1>1, <1>2 DEF TextOK
    <2>2. LayoutOK
        <3>1. exprContext = (levels # <<>> /\ Last(levels) = "expr")
            BY <1>1, Zenon
        <3>2. levels \in Seq({"expr", "stmt"}) /\ blocky \in {-1} \union Nat /\ flag \in BOOLEAN
            <4>1. <<>> \in Seq({"expr", "stmt"})
                OBVIOUS
            <4>2. flag \in BOOLEAN /\ blocky \in {-1} \union Nat
                BY <1>1
            <4>. QED  BY <1>1, <4>1, <4>2, Zenon
        <3>. QED  BY <3>1, <3>2, Zenon DEF LayoutOK
    <2>. QED  BY <1>1, <2>1, <2>2 DEF FlagOK
<1>4. Fresh
    BY <1>1 DEF Fresh
<1>. QED  BY <1>3, <1>4, TypeParts DEF Typed

(* Every state of the lexer has the types TypeOK says, whatever the alphabet
   and the lengths of the texts: the position stays within the text, the
   cached is_expr_context agrees with the stack of levels, and a semicolon put
   in still stands before what it was put in for (lexer_next,
   insert_semicolon, push_level, pop_level).                                *)
THEOREM LexerTypes == Spec => []TypeOK
<1>1. Init => Typed
    BY TypedAtFirst
<1>2. Typed /\ [Next]_vars => Typed'
    BY LexerAssumption, TypedKept
<1>3. Typed => TypeOK
    BY DEF Typed
<1>. QED  BY <1>1, <1>2, <1>3, PTL DEF Spec

-----------------------------------------------------------------------------
(* The lines and columns that are handed out.                               *)

(* The line breaks of t before p, and whether no lexeme of o has one of them.*)
BreaksBefore(t, p) == {q \in 1..(p - 1) : t[q] = "\n"}
InLexeme(o, q, j)  == q \in o[j].start..(o[j].start + o[j].size - 1)
Clean(t, o, p)     == \A q \in BreaksBefore(t, p), j \in DOMAIN o : ~InLexeme(o, q, j)

RightAt(t, p, l, c) ==
    /\ l = Cardinality(BreaksBefore(t, p)) + 1
    /\ c = p - Max(BreaksBefore(t, p) \union {0})

(* PositionsRight, of one lexeme.                                           *)
Placed(t, o, i) ==
    Clean(t, o, o[i].start) /\ o[i].kind # "error" => RightAt(t, o[i].start, o[i].line, o[i].column)

LEMMA PositionsParts ==
    /\ PositionsRight <=> \A i \in DOMAIN out : Placed(text, out, i)
    /\ PositionsRight' <=> \A i \in DOMAIN out' : Placed(text', out', i)
BY DEF PositionsRight, Placed, Clean, RightAt, BreaksBefore, InLexeme, Within

Failed == out # <<>> /\ Last(out).kind = "error"

(* What lexer_next would report for a lexeme at the current position.       *)
PositionsInv ==
    /\ Typed
    /\ PositionsRight
    /\ Started /\ ~Failed /\ Clean(text, out, cur) => RightAt(text, cur, line, cur - lineStart + 1)

LEMMA BreaksFinite ==
    ASSUME NEW t, NEW p \in Nat
    PROVE  /\ IsFiniteSet(BreaksBefore(t, p)) /\ Cardinality(BreaksBefore(t, p)) \in Nat
           /\ BreaksBefore(t, p) \subseteq Nat /\ \A q \in BreaksBefore(t, p) : q >= 1 /\ q < p
<1>1. BreaksBefore(t, p) \subseteq 1..(p - 1)
    BY DEF BreaksBefore
<1>2. IsFiniteSet(1..(p - 1))
    <2>1. 1 \in Int /\ p - 1 \in Int
        OBVIOUS
    <2>. QED  BY <2>1, FS_Interval
<1>3. IsFiniteSet(BreaksBefore(t, p)) /\ Cardinality(BreaksBefore(t, p)) \in Nat
    BY <1>1, <1>2, FS_Subset, FS_CardinalityType
<1>. QED  BY <1>1, <1>3

LEMMA BreakCounts ==
    ASSUME NEW t, NEW p \in Nat, p >= 1, t[p] = "\n"
    PROVE  RightAt(t, p + 1, Cardinality(BreaksBefore(t, p)) + 1 + 1, 1)
<1>1. BreaksBefore(t, p + 1) = BreaksBefore(t, p) \union {p} /\ p \notin BreaksBefore(t, p)
    BY DEF BreaksBefore
<1>2. Cardinality(BreaksBefore(t, p) \union {p}) = Cardinality(BreaksBefore(t, p)) + 1
    BY <1>1, BreaksFinite, FS_AddElement
<1>3. Max(BreaksBefore(t, p + 1) \union {0}) = p
    <2>. PICK S : S = BreaksBefore(t, p + 1) \union {0}
        OBVIOUS
    <2>1. S \subseteq Nat /\ p \in S /\ \A q \in S : q <= p
        BY <1>1, BreaksFinite
    <2>2. Max(S) = p
        BY <2>1, MaxIs
    <2>. QED  BY <2>2
<1>. QED  BY <1>1, <1>2, <1>3 DEF RightAt

LEMMA NoBreaks ==
    ASSUME NEW t, NEW p \in Nat, NEW r \in Nat, 1 <= p, p <= r, \A q \in p..(r - 1) : t[q] # "\n"
    PROVE  BreaksBefore(t, r) = BreaksBefore(t, p)
<1>1. \A q \in 1..(r - 1) : q \in 1..(p - 1) \/ q \in p..(r - 1)
    OBVIOUS
<1>2. \A q \in 1..(p - 1) : q \in 1..(r - 1)
    OBVIOUS
<1>. QED  BY <1>1, <1>2, Zenon DEF BreaksBefore

(* The same lines, further on in the same line.                             *)
LEMMA SameLine ==
    ASSUME NEW t, NEW p \in Nat, NEW r \in Nat, 1 <= p, p <= r, \A q \in p..(r - 1) : t[q] # "\n",
           NEW l, NEW s \in Nat, RightAt(t, p, l, p - s + 1)
    PROVE  RightAt(t, r, l, r - s + 1)
<1>1. BreaksBefore(t, r) = BreaksBefore(t, p)
    BY NoBreaks
<1>. PICK m : m = Max(BreaksBefore(t, p) \union {0})
    OBVIOUS
<1>2. p - s + 1 = p - m /\ l = Cardinality(BreaksBefore(t, p)) + 1
    BY DEF RightAt
<1>3. m \in Nat
    <2>1. BreaksBefore(t, p) \union {0} \subseteq Nat /\ IsFiniteSet(BreaksBefore(t, p) \union {0})
        BY BreaksFinite, FS_AddElement
    <2>. PICK S : S = BreaksBefore(t, p) \union {0}
        OBVIOUS
    <2>2. \E n \in S : \A q \in S : q <= n
        <3>. DEFINE T == {p - q : q \in S}
        <3>1. \A q \in S : q \in Nat /\ q <= p
            BY BreaksFinite
        <3>2. T \subseteq Nat /\ T # {}
            BY <3>1
        <3>3. PICK d \in T : \A e \in T : d <= e
            <4>. HIDE DEF T
            <4>. QED  BY <3>2, LeastNat
        <3>4. PICK n \in S : d = p - n
            BY <3>3
        <3>5. \A q \in S : p - n <= p - q
            BY <3>3, <3>4
        <3>. QED  BY <3>1, <3>5
    <2>3. PICK n \in S : \A q \in S : q <= n
        BY <2>2
    <2>4. Max(S) = n /\ n \in Nat
        BY <2>1, <2>3, MaxIs
    <2>. QED  BY <2>4
<1>4. r - s + 1 = r - m
    BY <1>2, <1>3
<1>. QED  BY <1>1, <1>2, <1>4 DEF RightAt

(* What a lexeme adds to those handed out.                                  *)
LEMMA EmitsFacts ==
    ASSUME Typed, NEW k, NEW n, Emits(k, n)
    PROVE  \E l \in Lexeme :
              /\ l.kind = k /\ l.start = cur /\ l.size = n /\ l.line = line /\ l.column = cur - lineStart + 1
              /\ out' = Append(out, l)
              /\ text' = text /\ cur' = cur + n /\ line' = line /\ lineStart' = lineStart
<1>1. /\ cur \in Nat /\ 1 <= cur /\ line \in Nat \ {0} /\ lineStart \in Nat /\ lineStart <= cur
      /\ k \in Kind /\ n \in Nat
    <2>1. TypeOK /\ TextOK
        BY TypeParts DEF Typed
    <2>2. cur \in Nat /\ 1 <= cur
        BY <2>1, TextFacts
    <2>3. line \in Nat \ {0} /\ lineStart \in 0..cur
        BY <2>1 DEF TextOK
    <2>4. k \in Kind /\ n \in Nat
        BY Zenon DEF Emits
    <2>. QED  BY <2>2, <2>3, <2>4
<1>. DEFINE l == [kind |-> k, start |-> cur, size |-> n, line |-> line, column |-> cur - lineStart + 1]
<1>2. l \in Lexeme
    <2>1. cur - lineStart + 1 \in Nat \ {0} /\ cur \in Nat \ {0}
        BY <1>1
    <2>. QED  BY <1>1, <2>1 DEF Lexeme
<1>3. l.kind = k /\ l.start = cur /\ l.size = n /\ l.line = line /\ l.column = cur - lineStart + 1
    OBVIOUS
<1>4. /\ out' = Append(out, l)
      /\ text' = text /\ cur' = cur + n /\ line' = line /\ lineStart' = lineStart
    BY Zenon DEF Emits, Emit
<1>. QED  BY <1>2, <1>3, <1>4

Grown(o, l, r) ==
    /\ Len(o) \in Nat /\ DOMAIN o = 1..Len(o) /\ DOMAIN r = 1..(Len(o) + 1) /\ r # <<>> /\ Last(r) = l
    /\ \A i \in 1..Len(o) : r[i] = o[i] /\ i \in 1..(Len(o) + 1)
    /\ r[Len(o) + 1] = l /\ Len(o) + 1 \in 1..(Len(o) + 1) /\ Len(r) = Len(o) + 1
    /\ \A i \in 1..(Len(o) + 1) : i \in 1..Len(o) \/ i = Len(o) + 1

LEMMA Appended ==
    ASSUME NEW o \in Seq(Lexeme), NEW l \in Lexeme, NEW r, r = Append(o, l)
    PROVE  Grown(o, l, r)
<1>1. Len(o) \in Nat /\ DOMAIN o = 1..Len(o)
    BY LenProperties
<1>2. r \in Seq(Lexeme) /\ Len(r) = Len(o) + 1 /\ (\A i \in 1..Len(o) : r[i] = o[i]) /\ r[Len(o) + 1] = l
    BY AppendProperties
<1>3. DOMAIN r = 1..(Len(o) + 1) /\ r # <<>>
    BY <1>1, <1>2, LenProperties
<1>. QED  BY <1>1, <1>2, <1>3 DEF Grown, Last

(* A lexeme does not move those before it.                                  *)
LEMMA CleanGrows ==
    ASSUME NEW t, NEW o \in Seq(Lexeme), NEW l \in Lexeme, NEW r, r = Append(o, l), NEW p, Clean(t, r, p)
    PROVE  Clean(t, o, p)
<1>1. /\ DOMAIN o = 1..Len(o) /\ DOMAIN r = 1..(Len(o) + 1)
      /\ \A i \in 1..Len(o) : r[i] = o[i] /\ i \in 1..(Len(o) + 1)
    BY Appended DEF Grown
<1>. QED  BY <1>1, Zenon DEF Clean, InLexeme

LEMMA PlacedGrows ==
    ASSUME NEW t, NEW o \in Seq(Lexeme), NEW l \in Lexeme, NEW r, r = Append(o, l),
           \A i \in DOMAIN o : Placed(t, o, i),
           Clean(t, o, l.start) /\ l.kind # "error" => RightAt(t, l.start, l.line, l.column)
    PROVE  \A i \in DOMAIN r : Placed(t, r, i)
<1>. TAKE i \in DOMAIN r
<1>1. /\ DOMAIN o = 1..Len(o) /\ DOMAIN r = 1..(Len(o) + 1)
      /\ \A j \in 1..Len(o) : r[j] = o[j] /\ j \in 1..(Len(o) + 1)
      /\ r[Len(o) + 1] = l
      /\ \A j \in 1..(Len(o) + 1) : j \in 1..Len(o) \/ j = Len(o) + 1
    BY Appended DEF Grown
<1>2. \A p : Clean(t, r, p) => Clean(t, o, p)
    BY CleanGrows
<1>3. CASE i \in 1..Len(o)
    BY <1>1, <1>2, <1>3, Zenon DEF Placed
<1>4. CASE i = Len(o) + 1
    BY <1>1, <1>2, <1>4, Zenon DEF Placed
<1>. QED  BY <1>1, <1>3, <1>4

LEMMA PositionsEmit ==
    ASSUME PositionsInv, NEW k, NEW n, Emits(k, n)
    PROVE  /\ \A i \in DOMAIN out' : Placed(text', out', i)
           /\ ~Failed' /\ Clean(text', out', cur') => RightAt(text', cur', line', cur' - lineStart' + 1)
<1>1. /\ TextOK /\ out \in Seq(Lexeme) /\ Started /\ ~Finished /\ ~Failed /\ n \in Nat
      /\ cur \in Nat /\ 1 <= cur /\ lineStart \in Nat
    <2>1. Typed /\ TypeOK /\ TextOK
        BY TypeParts DEF Typed, PositionsInv
    <2>2. Started /\ ~Finished /\ ~Failed /\ n \in Nat
        BY Zenon DEF Emits, Finished, Failed
    <2>3. cur \in Nat /\ 1 <= cur
        BY <2>1, TextFacts
    <2>4. lineStart \in Nat /\ out \in Seq(Lexeme)
        BY <2>1, <2>3 DEF TextOK
    <2>. QED  BY <2>1, <2>2, <2>3, <2>4
<1>2. PICK l \in Lexeme :
              /\ l.kind = k /\ l.start = cur /\ l.size = n /\ l.line = line /\ l.column = cur - lineStart + 1
              /\ out' = Append(out, l)
              /\ text' = text /\ cur' = cur + n /\ line' = line /\ lineStart' = lineStart
    BY EmitsFacts DEF PositionsInv
<1>3. Clean(text, out, cur) => RightAt(text, cur, line, cur - lineStart + 1)
    BY <1>1 DEF PositionsInv
<1>4. \A i \in DOMAIN out : Placed(text, out, i)
    BY PositionsParts DEF PositionsInv
<1>5. \A i \in DOMAIN out' : Placed(text, out', i)
    <2>1. Clean(text, out, l.start) => RightAt(text, l.start, l.line, l.column)
        BY <1>2, <1>3, Zenon
    <2>. QED  BY <1>1, <1>2, <1>4, <2>1, PlacedGrows
<1>5r. PICK r : r = cur + n
    OBVIOUS
<1>6. ASSUME Clean(text, out', r) PROVE RightAt(text, r, line, r - lineStart + 1)
    <2>1. \A q \in cur..(r - 1) : text[q] # "\n"
        <3>. SUFFICES ASSUME NEW q \in cur..(r - 1), text[q] = "\n" PROVE FALSE
            OBVIOUS
        <3>1. q \in BreaksBefore(text, r)
            BY <1>1, <1>5r DEF BreaksBefore
        <3>2. Len(out) + 1 \in DOMAIN out' /\ out'[Len(out) + 1] = l
            BY <1>1, <1>2, Appended DEF Grown
        <3>3. InLexeme(out', q, Len(out) + 1)
            <4>1. out'[Len(out) + 1].start = cur /\ out'[Len(out) + 1].size = n
                BY <1>2, <3>2
            <4>2. q \in cur..(cur + n - 1)
                BY <1>1, <1>5r
            <4>. QED  BY <4>1, <4>2 DEF InLexeme
        <3>. QED  BY <1>6, <3>1, <3>2, <3>3, Zenon DEF Clean
    <2>2. Clean(text, out', cur)
        <3>1. BreaksBefore(text, cur) \subseteq BreaksBefore(text, r)
            BY <1>1, <1>5r DEF BreaksBefore
        <3>. QED  BY <1>6, <3>1, Zenon DEF Clean
    <2>3. Clean(text, out, cur)
        BY <1>1, <1>2, <2>2, CleanGrows
    <2>4. RightAt(text, cur, line, cur - lineStart + 1)
        BY <1>3, <2>3
    <2>5. r \in Nat /\ cur <= r
        BY <1>1, <1>5r
    <2>. QED  BY <1>1, <2>1, <2>4, <2>5, SameLine
<1>7. text' = text /\ cur' = r /\ line' = line /\ lineStart' = lineStart
    BY <1>2, <1>5r
<1>. QED  BY <1>5, <1>6, <1>7

LEMMA FailsFacts ==
    ASSUME Typed, Fails
    PROVE  \E l \in Lexeme :
              /\ l.kind = "error" /\ l.size = 0 /\ l.start = cur'
              /\ out' = Append(out, l) /\ text' = text
<1>1. /\ cur \in Nat /\ 1 <= cur /\ line \in Nat \ {0} /\ lineStart \in Nat /\ lineStart <= cur
    <2>1. TypeOK /\ TextOK
        BY TypeParts DEF Typed
    <2>2. cur \in Nat /\ 1 <= cur
        BY <2>1, TextFacts
    <2>3. line \in Nat \ {0} /\ lineStart \in 0..cur
        BY <2>1 DEF TextOK
    <2>. QED  BY <2>2, <2>3
<1>2. PICK e \in Nat : e = cur' /\ cur <= e
    BY DEF Fails
<1>. DEFINE l == [kind |-> "error", start |-> e, size |-> 0, line |-> line, column |-> e - lineStart + 1]
<1>3. out' = Append(out, l) /\ text' = text
    BY <1>2, Zenon DEF Fails
<1>4. l \in Lexeme
    <2>1. e - lineStart + 1 \in Nat \ {0} /\ e \in Nat \ {0}
        <3>1. cur <= e
            BY <1>2
        <3>. QED  BY <1>1, <3>1
    <2>2. "error" \in Kind
        BY Zenon DEF Kind
    <2>. QED  BY <1>1, <2>1, <2>2 DEF Lexeme
<1>5. l.kind = "error" /\ l.size = 0 /\ l.start = e
    OBVIOUS
<1>. HIDE DEF l
<1>. QED  BY <1>2, <1>3, <1>4, <1>5

LEMMA PositionsFail ==
    ASSUME PositionsInv, Fails
    PROVE  (\A i \in DOMAIN out' : Placed(text', out', i)) /\ Failed'
<1>1. out \in Seq(Lexeme) /\ Typed
    BY TypeParts DEF Typed, PositionsInv, TextOK
<1>2. PICK l \in Lexeme : l.kind = "error" /\ out' = Append(out, l) /\ text' = text
    BY <1>1, FailsFacts
<1>3. \A i \in DOMAIN out : Placed(text, out, i)
    BY PositionsParts DEF PositionsInv
<1>4. \A i \in DOMAIN out' : Placed(text', out', i)
    BY <1>1, <1>2, <1>3, PlacedGrows
<1>5. Failed'
    <2>1. out' # <<>> /\ Last(out') = l
        BY <1>1, <1>2, Appended DEF Grown
    <2>. QED  BY <1>2, <2>1 DEF Failed
<1>. QED  BY <1>4, <1>5, Zenon

LEMMA PositionsSkip ==
    ASSUME PositionsInv, Skips
    PROVE  Clean(text', out', cur') => RightAt(text', cur', line', cur' - lineStart' + 1)
<1>1. /\ Started /\ ~Failed /\ out' = out /\ text' = text
    BY Zenon DEF Skips, Finished, Failed
<1>2. cur \in Nat /\ 1 <= cur /\ lineStart \in Nat /\ End \in Nat
    <2>1. TypeOK /\ TextOK
        BY TypeParts DEF PositionsInv, Typed
    <2>2. cur \in Nat /\ 1 <= cur /\ End \in Nat
        BY <2>1, TextFacts
    <2>3. lineStart \in 0..cur
        BY <2>1 DEF TextOK
    <2>. QED  BY <2>2, <2>3
<1>3. Clean(text, out, cur) => RightAt(text, cur, line, cur - lineStart + 1)
    BY <1>1, Zenon DEF PositionsInv
<1>4. PICK e \in Nat : e = cur'
    BY <1>2 DEF Skips
<1>5. e > cur
    BY <1>2, <1>4 DEF Skips
<1>6. Clean(text, out, e) => Clean(text, out, cur)
    <2>1. BreaksBefore(text, cur) \subseteq BreaksBefore(text, e)
        BY <1>2, <1>5 DEF BreaksBefore
    <2>. QED  BY <2>1, Zenon DEF Clean
<1>7. Clean(text, out, e) => RightAt(text, e, line', e - lineStart' + 1)
    <2>1. SUFFICES ASSUME Clean(text, out, e)
                   PROVE  RightAt(text, e, line', e - lineStart' + 1)
        OBVIOUS
    <2>2. RightAt(text, cur, line, cur - lineStart + 1)
        BY <1>3, <1>6, <2>1
    <2>3. CASE At(cur) = "\n" /\ cur' = cur + 1 /\ line' = line + 1 /\ lineStart' = cur + 1
        <3>1. text[cur] = "\n"
            <4>1. TypeOK
                BY DEF PositionsInv, Typed
            <4>2. cur < End \/ cur >= End
                BY <1>2
            <4>. QED  BY <1>2, <2>3, <4>1, <4>2, TextFacts
        <3>2. RightAt(text, cur + 1, Cardinality(BreaksBefore(text, cur)) + 1 + 1, 1)
            BY <1>2, <3>1, BreakCounts
        <3>3. line = Cardinality(BreaksBefore(text, cur)) + 1
            BY <2>2, Zenon DEF RightAt
        <3>4. RightAt(text, cur + 1, line + 1, 1)
            BY <3>2, <3>3, Zenon
        <3>5. e = cur + 1 /\ line' = line + 1
            BY <1>4, <2>3, Zenon
        <3>6. e - lineStart' + 1 = 1
            BY <1>2, <2>3, <3>5
        <3>. QED  BY <3>4, <3>5, <3>6, Zenon
    <2>4. CASE (\A p \in cur..(cur' - 1) : text[p] # "\n") /\ line' = line /\ lineStart' = lineStart
        <3>1. \A q \in cur..(e - 1) : text[q] # "\n"
            BY <1>4, <2>4, Zenon
        <3>2. RightAt(text, e, line, e - lineStart + 1)
            BY <1>2, <1>5, <2>2, <3>1, SameLine
        <3>. QED  BY <2>4, <3>2, Zenon
    <2>. QED  BY <2>3, <2>4, Zenon DEF Skips
<1>. QED  BY <1>1, <1>4, <1>7, Zenon

LEMMA PositionsKept ==
    ASSUME LexerAssumption, PositionsInv, [Next]_vars
    PROVE  PositionsInv'
<1>1. Typed /\ TypeOK /\ Fresh /\ PositionsRight
    BY DEF PositionsInv, Typed
<1>2. Typed'
    BY <1>1, TypedKept
<1>3. CASE UNCHANGED vars
    <2>1. text' = text /\ out' = out /\ cur' = cur /\ line' = line /\ lineStart' = lineStart
        BY <1>3 DEF vars
    <2>2. PositionsRight'
        BY <1>1, <2>1, PositionsParts, Zenon
    <2>. QED  BY <1>2, <2>1, <2>2, Zenon DEF PositionsInv, Started, Failed
<1>4. CASE Next
    <2>1. CASE Prepares
        <3>1. out' = out /\ cur' = 1 /\ line' = 1 /\ out = <<>> /\ lineStart' \in {0, 1}
            BY <1>1, <2>1 DEF Prepares, Fresh
        <3>2. PositionsRight'
            <4>1. DOMAIN out' = {}
                BY <3>1
            <4>. QED  BY <4>1, PositionsParts, Zenon
        <3>3. Started' => RightAt(text', cur', line', cur' - lineStart' + 1)
            <4>1. \A t : RightAt(t, 1, 1, 1)
                <5>. TAKE t
                <5>1. BreaksBefore(t, 1) = {}
                    BY DEF BreaksBefore
                <5>2. Cardinality({}) = 0
                    BY FS_EmptySet
                <5>3. Max({0}) = 0
                    BY MaxIs
                <5>4. {} \union {0} = {0}
                    OBVIOUS
                <5>5. Cardinality(BreaksBefore(t, 1)) + 1 = 1 /\ 1 - Max(BreaksBefore(t, 1) \union {0}) = 1
                    <6>1. Cardinality(BreaksBefore(t, 1)) = 0 /\ Max(BreaksBefore(t, 1) \union {0}) = 0
                        BY <5>1, <5>2, <5>3, <5>4, Zenon
                    <6>. QED  BY <6>1
                <5>. QED  BY <5>5, Zenon DEF RightAt
            <4>2. Started' => lineStart' = 1
                BY <3>1 DEF Started
            <4>3. 1 - 1 + 1 = 1
                OBVIOUS
            <4>. QED  BY <3>1, <4>1, <4>2, <4>3, Zenon
        <3>. QED  BY <1>2, <3>2, <3>3, Zenon DEF PositionsInv
    <2>2. CASE Skips
        <3>1. out' = out /\ text' = text
            BY <2>2, Zenon DEF Skips
        <3>2. PositionsRight'
            BY <1>1, <3>1, PositionsParts, Zenon
        <3>. QED  BY <1>2, <2>2, <3>2, PositionsSkip, Zenon DEF PositionsInv
    <2>3. CASE Fails
        <3>1. PositionsRight' /\ Failed'
            BY <2>3, PositionsFail, PositionsParts, Zenon
        <3>. QED  BY <1>2, <3>1, Zenon DEF PositionsInv
    <2>4. ASSUME NEW k, NEW n, Emits(k, n) PROVE PositionsInv'
        <3>1. /\ PositionsRight'
              /\ ~Failed' /\ Clean(text', out', cur') => RightAt(text', cur', line', cur' - lineStart' + 1)
            BY <2>4, PositionsEmit, PositionsParts, Zenon
        <3>. QED  BY <1>2, <3>1, Zenon DEF PositionsInv
    <2>. QED  BY <1>1, <1>4, <2>1, <2>2, <2>3, <2>4, Shapes
<1>. QED  BY <1>3, <1>4

(* A lexeme's line is one more than the line breaks before it, and its column
   is counted from the last of them, whatever the text: through comments,
   escaped quotes and the semicolons put in, up to a string with a line break
   in it (make_lexeme, the "\n" case of lexer_next).                        *)
THEOREM LexerPositions == Spec => []PositionsRight
<1>1. Init => PositionsInv
    <2>. SUFFICES ASSUME Init PROVE PositionsInv
        OBVIOUS
    <2>1. Typed
        BY TypedAtFirst
    <2>2. out = <<>> /\ ~Started
        BY DEF Init, Started
    <2>3. PositionsRight
        <3>1. DOMAIN out = {}
            BY <2>2
        <3>. QED  BY <3>1, PositionsParts, Zenon
    <2>. QED  BY <2>1, <2>2, <2>3 DEF PositionsInv
<1>2. PositionsInv /\ [Next]_vars => PositionsInv'
    BY LexerAssumption, PositionsKept
<1>3. PositionsInv => PositionsRight
    BY DEF PositionsInv
<1>. QED  BY <1>1, <1>2, <1>3, PTL DEF Spec

-----------------------------------------------------------------------------
(* The words that are cut out, and what is left out between them.           *)

After(o)     == IF o = <<>> THEN 1 ELSE Last(o).start + Last(o).size
Before(o, i) == IF i = 1 THEN 1 ELSE o[i - 1].start + o[i - 1].size

SkippedIn(p, q) == \A r \in p..(q - 1) : Skipped(r)

(* LongestWords, of one lexeme.                                             *)
CutOut(o, i) ==
    /\ WordAt(o[i].kind, o[i].start, o[i].size)
    /\ o[i].kind # "error" => SkippedIn(Before(o, i), o[i].start)

LEMMA WordsParts == LongestWords <=> \A i \in DOMAIN out : CutOut(out, i)
BY Zenon DEF LongestWords, CutOut, WordAt, WordOf, StringOf, Ignored, SkippedIn, Skipped, Before

(* What has been read does not change any more.                             *)
LEMMA WordsStay ==
    ASSUME text' = text
    PROVE  /\ \A k, p, n : WordAt(k, p, n)' <=> WordAt(k, p, n)
           /\ \A p : Skipped(p)' <=> Skipped(p)
<1>1. \A p, n : Seg(p, n)' = Seg(p, n)
    BY Zenon DEF Seg
<1>2. \A k, p, n : WordAt(k, p, n)' <=> WordAt(k, p, n)
    <2>1. \A p, n : StringOf(p, n)' <=> StringOf(p, n)
        BY <1>1, Zenon DEF StringOf
    <2>2. \A k, p, n : WordOf(k, p, n)' <=> WordOf(k, p, n)
        BY <1>1, Zenon DEF WordOf
    <2>. QED  BY <2>1, <2>2, Zenon DEF WordAt
<1>3. \A p : At(p)' = At(p)
    BY EndSame, Zenon DEF At
<1>4. \A p : Skipped(p)' <=> Skipped(p)
    BY <1>3, Zenon DEF Skipped
<1>. QED  BY <1>2, <1>4

WordsInv ==
    /\ Typed
    /\ LongestWords
    /\ Started /\ ~Failed => SkippedIn(After(out), cur)

(* One more lexeme, cut out at the position After(o) or further on.          *)
LEMMA CutOutGrows ==
    ASSUME NEW o \in Seq(Lexeme), NEW l \in Lexeme, NEW r, r = Append(o, l),
           \A i \in DOMAIN o : CutOut(o, i),
           WordAt(l.kind, l.start, l.size),
           l.kind # "error" => SkippedIn(After(o), l.start)
    PROVE  (\A i \in DOMAIN r : CutOut(r, i)) /\ After(r) = l.start + l.size
<1>1. /\ DOMAIN o = 1..Len(o) /\ DOMAIN r = 1..(Len(o) + 1) /\ Len(o) \in Nat
      /\ \A j \in 1..Len(o) : r[j] = o[j] /\ j \in 1..(Len(o) + 1)
      /\ r[Len(o) + 1] = l /\ r # <<>> /\ Last(r) = l
      /\ \A j \in 1..(Len(o) + 1) : j \in 1..Len(o) \/ j = Len(o) + 1
    <2>1. Grown(o, l, r)
        BY Appended
    <2>. QED  BY <2>1, Zenon DEF Grown
<1>2. After(r) = l.start + l.size
    BY <1>1, Zenon DEF After
<1>3. \A i \in 1..Len(o) : Before(r, i) = Before(o, i)
    <2>. TAKE i \in 1..Len(o)
    <2>1. i = 1 \/ i - 1 \in 1..Len(o)
        BY <1>1
    <2>. QED  BY <1>1, <2>1, Zenon DEF Before
<1>4. Before(r, Len(o) + 1) = After(o)
    <2>1. CASE o = <<>>
        <3>1. Len(o) + 1 = 1
            BY <2>1
        <3>2. Before(r, 1) = 1 /\ After(o) = 1
            BY <2>1 DEF Before, After
        <3>. QED  BY <3>1, <3>2, Zenon
    <2>2. CASE o # <<>>
        <3>1. Len(o) + 1 # 1 /\ Len(o) + 1 - 1 = Len(o) /\ Len(o) \in 1..Len(o)
            BY <1>1, <2>2, EmptySeq
        <3>2. r[Len(o) + 1 - 1] = o[Len(o)]
            BY <1>1, <3>1, Zenon
        <3>3. Last(o) = o[Len(o)]
            BY DEF Last
        <3>4. After(o) = o[Len(o)].start + o[Len(o)].size
            BY <2>2, <3>3, Zenon DEF After
        <3>5. Before(r, Len(o) + 1) = r[Len(o) + 1 - 1].start + r[Len(o) + 1 - 1].size
            BY <3>1 DEF Before
        <3>. QED  BY <3>2, <3>4, <3>5, Zenon
    <2>. QED  BY <2>1, <2>2
<1>5. \A i \in 1..Len(o) : CutOut(r, i)
    BY <1>1, <1>3, Zenon DEF CutOut
<1>6. CutOut(r, Len(o) + 1)
    BY <1>1, <1>4, Zenon DEF CutOut
<1>. QED  BY <1>1, <1>2, <1>5, <1>6, Zenon

LEMMA WordsEmit ==
    ASSUME WordsInv, NEW k, NEW n, Emits(k, n)
    PROVE  (\A i \in DOMAIN out' : CutOut(out, i)') /\ SkippedIn(After(out), cur)'
<1>1. Typed /\ TypeOK /\ TextOK /\ out \in Seq(Lexeme) /\ Started /\ ~Failed /\ cur \in Nat /\ n \in Nat
    <2>1. Typed /\ TypeOK /\ TextOK
        BY TypeParts DEF Typed, WordsInv
    <2>2. Started /\ ~Failed /\ n \in Nat
        BY Zenon DEF Emits, Finished, Failed
    <2>. QED  BY <2>1, <2>2, TextFacts DEF TextOK
<1>2. PICK l \in Lexeme :
              /\ l.kind = k /\ l.start = cur /\ l.size = n /\ l.line = line /\ l.column = cur - lineStart + 1
              /\ out' = Append(out, l)
              /\ text' = text /\ cur' = cur + n /\ line' = line /\ lineStart' = lineStart
    BY <1>1, EmitsFacts
<1>3. (\A i \in DOMAIN out : CutOut(out, i)) /\ SkippedIn(After(out), cur)
    BY <1>1, WordsParts, Zenon DEF WordsInv
<1>4. WordAt(l.kind, l.start, l.size)
    BY <1>2, Zenon DEF Emits
<1>5. (\A i \in DOMAIN out' : CutOut(out', i)) /\ After(out') = cur + n
    BY <1>1, <1>2, <1>3, <1>4, CutOutGrows
<1>6. \A i \in DOMAIN out' : CutOut(out, i)'
    BY <1>2, <1>5, WordsStay, Zenon DEF CutOut, SkippedIn, Before
<1>7. After(out)' = cur' /\ cur' \in Nat
    BY <1>1, <1>2, <1>5
<1>8. \A e \in Nat : e..(e - 1) = {}
    OBVIOUS
<1>9. SkippedIn(After(out), cur)'
    BY <1>7, <1>8, Zenon DEF SkippedIn, After
<1>. QED  BY <1>6, <1>9

LEMMA WordsFail ==
    ASSUME WordsInv, Fails
    PROVE  (\A i \in DOMAIN out' : CutOut(out, i)') /\ Failed'
<1>1. Typed /\ TypeOK /\ out \in Seq(Lexeme)
    BY TypeParts DEF Typed, WordsInv, TextOK
<1>2. PICK l \in Lexeme : out' = Append(out, l) /\ l.kind = "error"
    BY <1>1, FailsFacts
<1>3. \A i \in DOMAIN out : CutOut(out, i)
    BY WordsParts, Zenon DEF WordsInv
<1>4. WordAt(l.kind, l.start, l.size)
    BY <1>2, Zenon DEF WordAt
<1>5. \A i \in DOMAIN out' : CutOut(out', i)
    BY <1>1, <1>2, <1>3, <1>4, CutOutGrows
<1>6. text' = text
    BY DEF Fails
<1>7. \A i \in DOMAIN out' : CutOut(out, i)'
    BY <1>5, <1>6, WordsStay, Zenon DEF CutOut, SkippedIn, Before
<1>8. Failed'
    <2>1. out' # <<>> /\ Last(out') = l
        BY <1>1, <1>2, Appended DEF Grown
    <2>. QED  BY <1>2, <2>1 DEF Failed
<1>. QED  BY <1>7, <1>8, Zenon

LEMMA WordsSkip ==
    ASSUME WordsInv, Skips
    PROVE  SkippedIn(After(out), cur)'
<1>1. Typed /\ TypeOK /\ Started /\ ~Failed /\ out' = out /\ text' = text
    <2>1. Started /\ ~Failed /\ out' = out /\ text' = text
        BY Zenon DEF Skips, Finished, Failed
    <2>. QED  BY <2>1 DEF Typed, WordsInv
<1>2. SkippedIn(After(out), cur) /\ SkippedIn(cur, cur')
    BY <1>1, Zenon DEF WordsInv, Skips, SkippedIn
<1>3. PICK a : a = After(out)
    OBVIOUS
<1>4. \A p \in a..(cur' - 1) : p \in a..(cur - 1) \/ p \in cur..(cur' - 1)
    <2>1. cur \in Nat /\ cur' \in Nat
        BY <1>1, TextFacts DEF Skips
    <2>2. PICK e \in Nat : e = cur'
        BY <2>1
    <2>3. \A p \in a..(e - 1) : p \in a..(cur - 1) \/ p \in cur..(e - 1)
        BY <2>1
    <2>. QED  BY <2>2, <2>3, Zenon
<1>5. SkippedIn(a, cur')
    BY <1>2, <1>3, <1>4, Zenon DEF SkippedIn
<1>. QED  BY <1>1, <1>3, <1>5, WordsStay, Zenon DEF SkippedIn, After

LEMMA WordsKept ==
    ASSUME LexerAssumption, WordsInv, [Next]_vars
    PROVE  WordsInv'
<1>1. Typed /\ TypeOK /\ Fresh /\ (\A i \in DOMAIN out : CutOut(out, i))
    BY WordsParts, Zenon DEF WordsInv, Typed
<1>2. Typed'
    BY <1>1, TypedKept
<1>3. LongestWords' <=> \A i \in DOMAIN out' : CutOut(out, i)'
    BY Zenon DEF LongestWords, CutOut, WordAt, WordOf, StringOf, Ignored, SkippedIn, Skipped, Before
<1>4. CASE UNCHANGED vars
    <2>1. text' = text /\ out' = out /\ cur' = cur /\ lineStart' = lineStart
        BY <1>4 DEF vars
    <2>2. \A i \in DOMAIN out' : CutOut(out, i)'
        BY <1>1, <2>1, WordsStay, Zenon DEF CutOut, SkippedIn, Before
    <2>3. Started /\ ~Failed => SkippedIn(After(out), cur)'
        BY <2>1, WordsStay, Zenon DEF WordsInv, SkippedIn, After
    <2>. QED  BY <1>2, <1>3, <2>1, <2>2, <2>3, Zenon DEF WordsInv, Started, Failed
<1>5. CASE Next
    <2>1. CASE Prepares
        <3>1. out' = out /\ cur' = 1 /\ out = <<>>
            BY <1>1, <2>1 DEF Prepares, Fresh
        <3>2. \A i \in DOMAIN out' : CutOut(out, i)'
            <4>1. DOMAIN out' = {}
                BY <3>1
            <4>. QED  BY <4>1, Zenon
        <3>3. SkippedIn(After(out), cur)'
            <4>1. 1..(1 - 1) = {}
                OBVIOUS
            <4>2. After(out)' = 1
                BY <3>1 DEF After
            <4>. QED  BY <3>1, <4>1, <4>2, Zenon DEF SkippedIn
        <3>. QED  BY <1>2, <1>3, <3>2, <3>3, Zenon DEF WordsInv
    <2>2. CASE Skips
        <3>1. out' = out /\ text' = text
            BY <2>2, Zenon DEF Skips
        <3>2. \A i \in DOMAIN out' : CutOut(out, i)'
            BY <1>1, <3>1, WordsStay, Zenon DEF CutOut, SkippedIn, Before
        <3>. QED  BY <1>2, <1>3, <2>2, <3>2, WordsSkip, Zenon DEF WordsInv
    <2>3. CASE Fails
        BY <1>2, <1>3, <2>3, WordsFail, Zenon DEF WordsInv
    <2>4. ASSUME NEW k, NEW n, Emits(k, n) PROVE WordsInv'
        BY <1>2, <1>3, <2>4, WordsEmit, Zenon DEF WordsInv
    <2>. QED  BY <1>1, <1>5, <2>1, <2>2, <2>3, <2>4, Shapes
<1>. QED  BY <1>4, <1>5

(* Every text is cut into the longest words of the language, a string ends at
   its first quote that is not escaped, and only blanks and comments are left
   out between two lexemes (number, identifier, string, choice1223, the loop
   of lexer_next), whatever the text.                                       *)
THEOREM LexerWords == Spec => []LongestWords
<1>1. Init => WordsInv
    <2>. SUFFICES ASSUME Init PROVE WordsInv
        OBVIOUS
    <2>1. Typed
        BY TypedAtFirst
    <2>2. out = <<>> /\ ~Started
        BY DEF Init, Started
    <2>3. LongestWords
        <3>1. DOMAIN out = {}
            BY <2>2
        <3>. QED  BY <3>1, WordsParts, Zenon
    <2>. QED  BY <2>1, <2>2, <2>3 DEF WordsInv
<1>2. WordsInv /\ [Next]_vars => WordsInv'
    BY LexerAssumption, WordsKept
<1>3. WordsInv => LongestWords
    BY DEF WordsInv
<1>. QED  BY <1>1, <1>2, <1>3, PTL DEF Spec

-----------------------------------------------------------------------------
(* What is open before each lexeme: Opens is what its recursive function
   says, and a lexeme more does not change what was open before.            *)

OpenStep(f, o, n) == IF n = 1 THEN <<>> ELSE Opened(f[n - 1], o[n - 1].kind)
OpensUpTo(f, o, j) == f = [n \in 1..(j + 1) |-> OpenStep(f, o, n)]

LEMMA OpensExist ==
    ASSUME NEW o, NEW len \in Nat
    PROVE  \E f : OpensUpTo(f, o, len)
<1>. DEFINE S == {n \in Nat : ~ \E f : OpensUpTo(f, o, n)}
<1>. SUFFICES ASSUME S # {} PROVE FALSE
    OBVIOUS
<1>1. PICK j \in S : \A n \in S : j <= n
    <2>1. S \subseteq Nat
        OBVIOUS
    <2>. HIDE DEF S
    <2>. QED  BY <2>1, LeastNat
<1>2. j \in Nat /\ ~ \E f : OpensUpTo(f, o, j)
    BY <1>1
<1>3. CASE j = 0
    <2>1. PICK f : f = [n \in 1..(j + 1) |-> <<>>]
        OBVIOUS
    <2>2. \A n \in 1..(j + 1) : OpenStep(f, o, n) = <<>>
        BY <1>3 DEF OpenStep
    <2>. QED  BY <1>2, <2>1, <2>2 DEF OpensUpTo
<1>4. CASE j # 0
    <2>1. j - 1 \in Nat /\ j - 1 + 1 = j
        BY <1>2, <1>4
    <2>2. PICK g : OpensUpTo(g, o, j - 1)
        BY <1>1, <2>1
    <2>3. \A n \in 1..j : g[n] = OpenStep(g, o, n)
        BY <2>1, <2>2, Zenon DEF OpensUpTo
    <2>4. PICK x : x = OpenStep(g, o, j + 1)
        OBVIOUS
    <2>5. PICK f : f = [n \in 1..(j + 1) |-> IF n = j + 1 THEN x ELSE g[n]]
        OBVIOUS
    <2>6. f[j + 1] = x /\ (\A n \in 1..j : f[n] = g[n]) /\ f = [n \in 1..(j + 1) |-> f[n]]
        BY <1>2, <2>5
    <2>7. \A n \in 1..(j + 1) : OpenStep(f, o, n) = OpenStep(g, o, n)
        <3>. TAKE n \in 1..(j + 1)
        <3>1. n = 1 \/ n - 1 \in 1..j
            BY <1>2
        <3>. QED  BY <2>6, <3>1, Zenon DEF OpenStep
    <2>8. \A n \in 1..(j + 1) : f[n] = OpenStep(f, o, n)
        <3>. TAKE n \in 1..(j + 1)
        <3>1. n = j + 1 \/ n \in 1..j
            BY <1>2
        <3>. QED  BY <2>3, <2>4, <2>6, <2>7, <3>1, Zenon
    <2>. QED  BY <1>2, <2>6, <2>8, Zenon DEF OpensUpTo
<1>. QED  BY <1>3, <1>4

LEMMA OpensIs ==
    ASSUME NEW o, Len(o) \in Nat
    PROVE  \A n \in 1..(Len(o) + 1) : Opens(o)[n] = OpenStep(Opens(o), o, n)
<1>1. Opens(o) = CHOOSE f : OpensUpTo(f, o, Len(o))
    BY Zenon DEF Opens, OpensUpTo, OpenStep
<1>2. \E f : OpensUpTo(f, o, Len(o))
    BY OpensExist
<1>3. OpensUpTo(Opens(o), o, Len(o))
    BY <1>1, <1>2, Zenon
<1>. QED  BY <1>3, Zenon DEF OpensUpTo

LEMMA OpensGrow ==
    ASSUME NEW o \in Seq(Lexeme), NEW l \in Lexeme, NEW r, r = Append(o, l)
    PROVE  /\ \A n \in 1..(Len(o) + 1) : Opens(r)[n] = Opens(o)[n]
           /\ Opens(r)[Len(o) + 1 + 1] = Opened(Opens(o)[Len(o) + 1], l.kind)
<1>1. Grown(o, l, r)
    BY Appended
<1>2. Len(o) \in Nat /\ Len(r) = Len(o) + 1 /\ (\A i \in 1..Len(o) : r[i] = o[i]) /\ r[Len(o) + 1] = l
    BY <1>1, Zenon DEF Grown
<1>. PICK k \in Nat : k = Len(o)
    BY <1>2
<1>. PICK f : f = Opens(o)
    OBVIOUS
<1>. PICK g : g = Opens(r)
    OBVIOUS
<1>3. /\ \A n \in 1..(k + 1) : f[n] = OpenStep(f, o, n)
      /\ \A n \in 1..(k + 1 + 1) : g[n] = OpenStep(g, r, n)
    <2>1. Len(r) \in Nat /\ Len(r) = k + 1
        BY <1>2
    <2>. QED  BY <1>2, <2>1, OpensIs
<1>4. \A n \in 1..(k + 1) : g[n] = f[n]
    <2>. DEFINE S == {n \in 1..(k + 1) : g[n] # f[n]}
    <2>. SUFFICES ASSUME S # {} PROVE FALSE
        OBVIOUS
    <2>1. PICK j \in S : \A n \in S : j <= n
        <3>1. S \subseteq Nat
            OBVIOUS
        <3>. HIDE DEF S
        <3>. QED  BY <3>1, LeastNat
    <2>2. j \in 1..(k + 1) /\ g[j] # f[j]
        BY <2>1
    <2>3. g[j] = OpenStep(g, r, j) /\ f[j] = OpenStep(f, o, j)
        <3>1. j \in 1..(k + 1 + 1)
            BY <2>2
        <3>. QED  BY <1>3, <2>2, <3>1
    <2>4. CASE j = 1
        BY <2>2, <2>3, <2>4 DEF OpenStep
    <2>5. CASE j # 1
        <3>1. j - 1 \in 1..k /\ j - 1 \in 1..(k + 1) /\ j - 1 \notin S
            BY <2>1, <2>2, <2>5
        <3>2. g[j - 1] = f[j - 1] /\ r[j - 1] = o[j - 1]
            BY <1>2, <3>1
        <3>. QED  BY <2>2, <2>3, <2>5, <3>2, Zenon DEF OpenStep
    <2>. QED  BY <2>4, <2>5
<1>5. g[k + 1 + 1] = Opened(f[k + 1], l.kind)
    <2>1. k + 1 + 1 \in 1..(k + 1 + 1) /\ k + 1 + 1 - 1 = k + 1 /\ k + 1 + 1 # 1 /\ k + 1 \in 1..(k + 1)
        OBVIOUS
    <2>2. g[k + 1 + 1] = Opened(g[k + 1], r[k + 1].kind)
        <3>1. g[k + 1 + 1] = OpenStep(g, r, k + 1 + 1)
            BY <1>3, <2>1
        <3>2. OpenStep(g, r, k + 1 + 1) = Opened(g[k + 1 + 1 - 1], r[k + 1 + 1 - 1].kind)
            BY <2>1 DEF OpenStep
        <3>. QED  BY <2>1, <3>1, <3>2, Zenon
    <2>3. g[k + 1] = f[k + 1] /\ r[k + 1] = l
        BY <1>2, <1>4, <2>1
    <2>. QED  BY <2>2, <2>3, Zenon
<1>. QED  BY <1>4, <1>5, Zenon

-----------------------------------------------------------------------------
(* The brackets that are open and the levels of the lexer.  Without the head
   of a block to come, which is no level, they are the same: k blocks, and
   within them m brackets that hold an expression.                          *)
Bad   == << "bad" >>
Exprs == {"(", "[", "dict"}
Tops  == {"block", "head"} \union Exprs

Top(S)   == IF S = <<>> THEN "block" ELSE Last(S)
Strip(S) == IF S # <<>> /\ Last(S) = "head" THEN Front(S) ELSE S

Shape(S, L, b, k, h, m) ==
    /\ k \in Nat /\ m \in Nat /\ h \in {0, 1}
    /\ S \in Seq(Tops) /\ L \in Seq({"expr", "stmt"})
    /\ Len(S) = k + h + m /\ Len(L) = k + m
    /\ \A i \in 1..k : S[i] = "block" /\ L[i] = "stmt"
    /\ \A j \in 1..m : S[k + h + j] \in Exprs /\ L[k + j] = "expr"
    /\ h = 1 => S[k + 1] = "head" /\ b = k
    /\ h = 0 => b = -1

Matched(S, L, b) == S = Bad \/ \E k, h, m : Shape(S, L, b, k, h, m)

LEMMA ExprsAre == "block" \notin Exprs /\ "head" \notin Exprs /\ "block" \in Tops /\ "head" \in Tops /\ Exprs \subseteq Tops
BY Zenon DEF Exprs, Tops

LEMMA OpenedIs ==
    ASSUME NEW S
    PROVE  /\ \A c : Opened(Bad, c) = Bad
           /\ \A c \in {"number", "string", "op", "error", "ident", "nil", "fake", "eof"} : Opened(S, c) = S
           /\ S # Bad => /\ Opened(S, "if") = IF Top(S) = "block" THEN Append(S, "head") ELSE Bad
                         /\ \A c \in {"(", "["} : Opened(S, c) = Append(S, c)
                         /\ Opened(S, OpeningBrace) = IF Top(S) = "head" THEN Append(Front(S), "block")
                                                      ELSE Append(S, "dict")
           /\ S # Bad => \A c \in {")", "]", ClosingBrace} :
                            Opened(S, c) = Bad \/ (S # <<>> /\ Last(S) # "head" /\ Opened(S, c) = Front(S))
<1>1. \A c : Opened(Bad, c) = Bad
    BY Zenon DEF Opened, Bad
<1>2. \A c \in {"number", "string", "op", "error", "ident", "nil", "fake", "eof"} : Opened(S, c) = S
    BY Zenon DEF Opened
<1>3. S # Bad => Opened(S, "if") = IF Top(S) = "block" THEN Append(S, "head") ELSE Bad
    BY Zenon DEF Opened, Top, Bad
<1>4. S # Bad => \A c \in {"(", "["} : Opened(S, c) = Append(S, c)
    BY Zenon DEF Opened, Bad
<1>5. S # Bad => Opened(S, OpeningBrace) = IF Top(S) = "head" THEN Append(Front(S), "block") ELSE Append(S, "dict")
    BY Zenon DEF Opened, Top, Bad, OpeningBrace
<1>6. S # Bad => \A c \in {")", "]", ClosingBrace} :
                    Opened(S, c) = Bad \/ (S # <<>> /\ Last(S) # "head" /\ Opened(S, c) = Front(S))
    BY Zenon DEF Opened, Bad, ClosingBrace
<1>. QED  BY <1>1, <1>2, <1>3, <1>4, <1>5, <1>6, Zenon

(* What the top of the brackets says.                                       *)
LEMMA ShapeTop ==
    ASSUME NEW S, NEW L, NEW b, NEW k, NEW h, NEW m, Shape(S, L, b, k, h, m)
    PROVE  /\ m > 0 => S # <<>> /\ Last(S) \in Exprs /\ L # <<>> /\ Last(L) = "expr"
           /\ m = 0 /\ h = 1 => S # <<>> /\ Last(S) = "head" /\ b = Len(L)
           /\ m = 0 /\ h = 0 /\ k > 0 => S # <<>> /\ Last(S) = "block"
           /\ m = 0 /\ h = 0 /\ k = 0 => S = <<>>
           /\ m = 0 => (L = <<>> \/ Last(L) = "stmt")
           /\ m > 0 \/ h = 0 => b # Len(L)
<1>1. /\ k \in Nat /\ m \in Nat /\ h \in {0, 1} /\ Len(S) = k + h + m /\ Len(L) = k + m
      /\ S \in Seq(Tops) /\ L \in Seq({"expr", "stmt"})
    BY DEF Shape
<1>2. m > 0 => S # <<>> /\ Last(S) \in Exprs /\ L # <<>> /\ Last(L) = "expr"
    <2>. SUFFICES ASSUME m > 0 PROVE S # <<>> /\ Last(S) \in Exprs /\ L # <<>> /\ Last(L) = "expr"
        OBVIOUS
    <2>1. m \in 1..m
        BY <1>1
    <2>2. S[k + h + m] \in Exprs /\ L[k + m] = "expr"
        BY <2>1 DEF Shape
    <2>3. S # <<>> /\ L # <<>>
        <3>1. Len(S) # 0 /\ Len(L) # 0
            BY <1>1
        <3>. QED  BY <3>1
    <2>. QED  BY <1>1, <2>2, <2>3 DEF Last
<1>3. m = 0 /\ h = 1 => S # <<>> /\ Last(S) = "head" /\ b = Len(L)
    <2>. SUFFICES ASSUME m = 0, h = 1 PROVE S # <<>> /\ Last(S) = "head" /\ b = Len(L)
        OBVIOUS
    <2>1. S[k + 1] = "head" /\ b = k
        BY DEF Shape
    <2>2. Len(S) = k + 1 /\ Len(L) = k /\ Len(S) # 0
        BY <1>1
    <2>3. S # <<>>
        BY <2>2
    <2>. QED  BY <2>1, <2>2, <2>3 DEF Last
<1>4. m = 0 /\ h = 0 /\ k > 0 => S # <<>> /\ Last(S) = "block"
    <2>. SUFFICES ASSUME m = 0, h = 0, k > 0 PROVE S # <<>> /\ Last(S) = "block"
        OBVIOUS
    <2>1. k \in 1..k
        BY <1>1
    <2>2. S[k] = "block"
        BY <2>1 DEF Shape
    <2>3. Len(S) = k /\ Len(S) # 0
        BY <1>1
    <2>4. S # <<>>
        BY <2>3
    <2>. QED  BY <2>2, <2>3, <2>4 DEF Last
<1>5. m = 0 /\ h = 0 /\ k = 0 => S = <<>>
    BY <1>1, EmptySeq
<1>6. m = 0 => (L = <<>> \/ Last(L) = "stmt")
    <2>. SUFFICES ASSUME m = 0 PROVE L = <<>> \/ Last(L) = "stmt"
        OBVIOUS
    <2>1. CASE k = 0
        BY <1>1, <2>1, EmptySeq
    <2>2. CASE k # 0
        <3>1. k \in 1..k
            BY <1>1, <2>2
        <3>2. L[k] = "stmt"
            BY <3>1 DEF Shape
        <3>3. Len(L) = k
            BY <1>1
        <3>. QED  BY <3>2, <3>3 DEF Last
    <2>. QED  BY <2>1, <2>2
<1>7. m > 0 \/ h = 0 => b # Len(L)
    <2>1. (h = 1 => b = k) /\ (h = 0 => b = -1)
        BY DEF Shape
    <2>. QED  BY <1>1, <2>1
<1>. QED  BY <1>2, <1>3, <1>4, <1>5, <1>6, <1>7

LEMMA LongerShape ==
    ASSUME NEW S \in Seq(Tops), NEW x \in Tops
    PROVE  /\ Append(S, x) \in Seq(Tops) /\ Len(Append(S, x)) = Len(S) + 1 /\ Len(S) \in Nat
           /\ \A i \in 1..Len(S) : Append(S, x)[i] = S[i]
           /\ Append(S, x)[Len(S) + 1] = x
BY AppendProperties, LenProperties

LEMMA LongerLevels ==
    ASSUME NEW S \in Seq({"expr", "stmt"}), NEW x \in {"expr", "stmt"}
    PROVE  /\ Append(S, x) \in Seq({"expr", "stmt"}) /\ Len(Append(S, x)) = Len(S) + 1 /\ Len(S) \in Nat
           /\ \A i \in 1..Len(S) : Append(S, x)[i] = S[i]
           /\ Append(S, x)[Len(S) + 1] = x
BY AppendProperties, LenProperties

LEMMA ShorterIs ==
    ASSUME NEW T, NEW S \in Seq(T), S # <<>>, NEW F, F = Front(S), NEW n, n = Len(S) - 1
    PROVE  F \in Seq(T) /\ Len(F) = n /\ n \in Nat /\ \A i \in 1..n : F[i] = S[i]
<1>1. Len(S) \in Nat /\ Len(S) # 0 /\ \A i \in 1..Len(S) : S[i] \in T
    BY LenProperties, ElementOfSeq, EmptySeq
<1>2. n \in Nat /\ n <= Len(S)
    BY <1>1
<1>3. \A i \in 1..n : S[i] \in T
    BY <1>1, <1>2
<1>4. F = SubSeq(S, 1, n)
    BY DEF Front
<1>5. /\ F \in Seq(T)
      /\ Len(F) = IF 1 <= n THEN n - 1 + 1 ELSE 0
      /\ \A i \in 1..(n - 1 + 1) : F[i] = S[1 + i - 1]
    <2>1. 1 \in Int /\ n \in Int
        BY <1>2
    <2>. QED  BY <1>3, <1>4, <2>1, SubSeqProperties
<1>6. Len(F) = n
    BY <1>2, <1>5
<1>7. \A i \in 1..n : F[i] = S[i]
    BY <1>2, <1>5
<1>. QED  BY <1>2, <1>5, <1>6, <1>7

LEMMA ShapePush ==
    ASSUME NEW S, NEW L, NEW b, NEW k, NEW h, NEW m, Shape(S, L, b, k, h, m), NEW x \in Exprs
    PROVE  Shape(Append(S, x), Append(L, "expr"), b, k, h, m + 1)
<1>1. /\ k \in Nat /\ m \in Nat /\ h \in {0, 1} /\ Len(S) = k + h + m /\ Len(L) = k + m
      /\ S \in Seq(Tops) /\ L \in Seq({"expr", "stmt"})
      /\ \A i \in 1..k : S[i] = "block" /\ L[i] = "stmt"
      /\ \A j \in 1..m : S[k + h + j] \in Exprs /\ L[k + j] = "expr"
      /\ h = 1 => S[k + 1] = "head" /\ b = k
      /\ h = 0 => b = -1
    BY DEF Shape
<1>2. PICK R : R = Append(S, x)
    OBVIOUS
<1>3. PICK M : M = Append(L, "expr")
    OBVIOUS
<1>4. R \in Seq(Tops) /\ Len(R) = k + h + m + 1 /\ (\A i \in 1..(k + h + m) : R[i] = S[i]) /\ R[k + h + m + 1] = x
    BY <1>1, <1>2, LongerShape, ExprsAre
<1>5. M \in Seq({"expr", "stmt"}) /\ Len(M) = k + m + 1 /\ (\A i \in 1..(k + m) : M[i] = L[i]) /\ M[k + m + 1] = "expr"
    BY <1>1, <1>3, LongerLevels
<1>6. \A i \in 1..k : R[i] = "block" /\ M[i] = "stmt"
    BY <1>1, <1>4, <1>5
<1>7. \A j \in 1..(m + 1) : R[k + h + j] \in Exprs /\ M[k + j] = "expr"
    <2>. TAKE j \in 1..(m + 1)
    <2>1. CASE j = m + 1
        <3>1. k + h + j = k + h + m + 1 /\ k + j = k + m + 1
            BY <1>1, <2>1
        <3>. QED  BY <1>4, <1>5, <3>1
    <2>2. CASE j # m + 1
        <3>1. j \in 1..m /\ k + h + j \in 1..(k + h + m) /\ k + j \in 1..(k + m)
            BY <1>1, <2>2
        <3>. QED  BY <1>1, <1>4, <1>5, <3>1
    <2>. QED  BY <2>1, <2>2
<1>8. h = 1 => R[k + 1] = "head" /\ b = k
    BY <1>1, <1>4
<1>9. Len(R) = k + h + (m + 1) /\ Len(M) = k + (m + 1) /\ m + 1 \in Nat
    BY <1>1, <1>4, <1>5
<1>10. Shape(R, M, b, k, h, m + 1)
    BY <1>1, <1>4, <1>5, <1>6, <1>7, <1>8, <1>9, Zenon DEF Shape
<1>. QED  BY <1>2, <1>3, <1>10, Zenon

LEMMA ShapeHead ==
    ASSUME NEW S, NEW L, NEW b, NEW k, NEW h, NEW m, Shape(S, L, b, k, h, m), Top(S) = "block"
    PROVE  Shape(Append(S, "head"), L, Len(L), k, 1, 0)
<1>1. /\ k \in Nat /\ m \in Nat /\ h \in {0, 1} /\ Len(S) = k + h + m /\ Len(L) = k + m
      /\ S \in Seq(Tops) /\ L \in Seq({"expr", "stmt"})
      /\ \A i \in 1..k : S[i] = "block" /\ L[i] = "stmt"
    BY DEF Shape
<1>2. m = 0 /\ h = 0
    <2>1. m > 0 => FALSE
        BY ShapeTop, ExprsAre DEF Top
    <2>2. m = 0 /\ h = 1 => FALSE
        BY ShapeTop DEF Top
    <2>. QED  BY <1>1, <2>1, <2>2
<1>3. PICK R : R = Append(S, "head")
    OBVIOUS
<1>4. R \in Seq(Tops) /\ Len(R) = k + 1 /\ (\A i \in 1..k : R[i] = S[i]) /\ R[k + 1] = "head"
    <2>1. Len(S) = k
        BY <1>1, <1>2
    <2>. QED  BY <1>1, <1>3, <2>1, LongerShape, ExprsAre
<1>5. Len(R) = k + 1 + 0 /\ Len(L) = k + 0 /\ Len(L) = k /\ 1..0 = {}
    BY <1>1, <1>2, <1>4
<1>6. Shape(R, L, Len(L), k, 1, 0)
    BY <1>1, <1>4, <1>5 DEF Shape
<1>. QED  BY <1>3, <1>6, Zenon

LEMMA ShapeBlock ==
    ASSUME NEW S, NEW L, NEW b, NEW k, NEW h, NEW m, Shape(S, L, b, k, h, m), Top(S) = "head"
    PROVE  b = Len(L) /\ Shape(Append(Front(S), "block"), Append(L, "stmt"), -1, k + 1, 0, 0)
<1>1. /\ k \in Nat /\ m \in Nat /\ h \in {0, 1} /\ Len(S) = k + h + m /\ Len(L) = k + m
      /\ S \in Seq(Tops) /\ L \in Seq({"expr", "stmt"})
      /\ \A i \in 1..k : S[i] = "block" /\ L[i] = "stmt"
    BY DEF Shape
<1>2. m = 0 /\ h = 1 /\ S # <<>> /\ b = Len(L)
    <2>1. m > 0 => FALSE
        BY ShapeTop, ExprsAre DEF Top
    <2>2. m = 0 /\ h = 0 /\ k > 0 => FALSE
        BY ShapeTop DEF Top
    <2>3. m = 0 /\ h = 0 /\ k = 0 => FALSE
        BY ShapeTop DEF Top
    <2>4. m = 0 /\ h = 1
        BY <1>1, <2>1, <2>2, <2>3
    <2>. QED  BY <2>4, ShapeTop
<1>3. PICK F : F = Front(S)
    OBVIOUS
<1>4. F \in Seq(Tops) /\ Len(F) = k /\ \A i \in 1..k : F[i] = S[i]
    <2>1. k = Len(S) - 1
        BY <1>1, <1>2
    <2>. QED  BY <1>1, <1>2, <1>3, <2>1, ShorterIs
<1>5. PICK R : R = Append(F, "block")
    OBVIOUS
<1>6. PICK M : M = Append(L, "stmt")
    OBVIOUS
<1>7. R \in Seq(Tops) /\ Len(R) = k + 1 /\ (\A i \in 1..k : R[i] = F[i]) /\ R[k + 1] = "block"
    BY <1>4, <1>5, LongerShape, ExprsAre
<1>8. M \in Seq({"expr", "stmt"}) /\ Len(M) = k + 1 /\ (\A i \in 1..k : M[i] = L[i]) /\ M[k + 1] = "stmt"
    <2>1. Len(L) = k
        BY <1>1, <1>2
    <2>. QED  BY <1>1, <1>6, <2>1, LongerLevels
<1>9. \A i \in 1..(k + 1) : R[i] = "block" /\ M[i] = "stmt"
    <2>. TAKE i \in 1..(k + 1)
    <2>1. i = k + 1 \/ i \in 1..k
        BY <1>1
    <2>. QED  BY <1>1, <1>4, <1>7, <1>8, <2>1
<1>10. Len(R) = k + 1 + 0 + 0 /\ Len(M) = k + 1 + 0 /\ k + 1 \in Nat /\ 1..0 = {}
    BY <1>1, <1>7, <1>8
<1>11. Shape(R, M, -1, k + 1, 0, 0)
    BY <1>7, <1>8, <1>9, <1>10 DEF Shape
<1>. QED  BY <1>2, <1>3, <1>5, <1>6, <1>11, Zenon

LEMMA ShapePop ==
    ASSUME NEW S, NEW L, NEW b, NEW k, NEW h, NEW m, Shape(S, L, b, k, h, m), S # <<>>, Last(S) # "head"
    PROVE  L # <<>> /\ \E j, n : Shape(Front(S), Front(L), b, j, h, n)
<1>1. /\ k \in Nat /\ m \in Nat /\ h \in {0, 1} /\ Len(S) = k + h + m /\ Len(L) = k + m
      /\ S \in Seq(Tops) /\ L \in Seq({"expr", "stmt"})
      /\ \A i \in 1..k : S[i] = "block" /\ L[i] = "stmt"
      /\ \A j \in 1..m : S[k + h + j] \in Exprs /\ L[k + j] = "expr"
      /\ h = 1 => S[k + 1] = "head" /\ b = k
      /\ h = 0 => b = -1
    BY DEF Shape
<1>2. Len(S) # 0
    BY <1>1, EmptySeq
<1>3. m = 0 => h = 0
    BY <1>1, ShapeTop
<1>4. Len(L) # 0 /\ L # <<>>
    <2>1. Len(L) # 0
        BY <1>1, <1>2, <1>3
    <2>. QED  BY <2>1
<1>5. PICK F : F = Front(S)
    OBVIOUS
<1>6. PICK G : G = Front(L)
    OBVIOUS
<1>7. F \in Seq(Tops) /\ Len(F) = k + h + m - 1 /\ \A i \in 1..(k + h + m - 1) : F[i] = S[i]
    <2>1. PICK p : p = k + h + m - 1
        OBVIOUS
    <2>2. p = Len(S) - 1
        BY <1>1, <2>1
    <2>3. S \in Seq(Tops)
        BY <1>1
    <2>4. F \in Seq(Tops) /\ Len(F) = p /\ \A i \in 1..p : F[i] = S[i]
        BY <1>5, <2>2, <2>3, ShorterIs
    <2>. QED  BY <2>1, <2>4, Zenon
<1>8. G \in Seq({"expr", "stmt"}) /\ Len(G) = k + m - 1 /\ \A i \in 1..(k + m - 1) : G[i] = L[i]
    <2>1. PICK p : p = k + m - 1
        OBVIOUS
    <2>2. p = Len(L) - 1
        BY <1>1, <2>1
    <2>3. L \in Seq({"expr", "stmt"}) /\ L # <<>>
        BY <1>1, <1>4
    <2>4. G \in Seq({"expr", "stmt"}) /\ Len(G) = p /\ \A i \in 1..p : G[i] = L[i]
        BY <1>6, <2>2, <2>3, ShorterIs
    <2>. QED  BY <2>1, <2>4, Zenon
<1>9. CASE m > 0
    <2>1. m - 1 \in Nat /\ Len(F) = k + h + (m - 1) /\ Len(G) = k + (m - 1)
        BY <1>1, <1>7, <1>8, <1>9
    <2>2. \A i \in 1..k : F[i] = "block" /\ G[i] = "stmt"
        BY <1>1, <1>7, <1>8, <1>9
    <2>3. \A j \in 1..(m - 1) : F[k + h + j] \in Exprs /\ G[k + j] = "expr"
        <3>. TAKE j \in 1..(m - 1)
        <3>1. j \in 1..m /\ k + h + j \in 1..(k + h + m - 1) /\ k + j \in 1..(k + m - 1)
            BY <1>1
        <3>. QED  BY <1>1, <1>7, <1>8, <3>1
    <2>4. h = 1 => F[k + 1] = "head" /\ b = k
        BY <1>1, <1>7, <1>9
    <2>5. Shape(F, G, b, k, h, m - 1)
        BY <1>1, <1>7, <1>8, <2>1, <2>2, <2>3, <2>4, Zenon DEF Shape
    <2>. QED  BY <1>4, <1>5, <1>6, <2>5, Zenon
<1>10. CASE m = 0
    <2>1. h = 0 /\ k > 0 /\ k - 1 \in Nat /\ Len(F) = k - 1 + 0 + 0 /\ Len(G) = k - 1 + 0
        BY <1>1, <1>2, <1>3, <1>7, <1>8, <1>10
    <2>2. \A i \in 1..(k - 1) : F[i] = "block" /\ G[i] = "stmt"
        BY <1>1, <1>7, <1>8, <1>10, <2>1
    <2>3. Shape(F, G, b, k - 1, 0, 0)
        <3>1. 1..0 = {} /\ 0 \in Nat /\ 0 \in {0, 1} /\ 0 # 1
            OBVIOUS
        <3>. QED  BY <1>1, <1>7, <1>8, <2>1, <2>2, <3>1, Zenon DEF Shape
    <2>. QED  BY <1>4, <1>5, <1>6, <2>1, <2>3, Zenon
<1>. QED  BY <1>1, <1>9, <1>10

(* The levels and the brackets change together.                             *)
Plain == {"number", "string", "op", "error", "ident", "nil", "fake", "eof"}

LEMMA MatchedBad ==
    ASSUME NEW L, NEW b, NEW c
    PROVE  Matched(Opened(Bad, c), L, b)
BY OpenedIs, Zenon DEF Matched

LEMMA MatchedStays ==
    ASSUME NEW S, Matched(S, levels, blocky), SameLevels, NEW c \in Plain
    PROVE  Matched(Opened(S, c), levels', blocky')
<1>1. Opened(S, c) = S
    BY OpenedIs, Zenon DEF Plain
<1>2. levels' = levels /\ blocky' = blocky
    BY Zenon DEF SameLevels
<1>. QED  BY <1>1, <1>2, Zenon

LEMMA MatchedIf ==
    ASSUME NEW S, Matched(S, levels, blocky), levels' = levels, SetBlocky
    PROVE  Matched(Opened(S, "if"), levels', blocky')
<1>1. blocky' = Len(levels)
    BY Zenon DEF SetBlocky
<1>2. CASE S = Bad
    BY <1>2, MatchedBad, Zenon
<1>3. CASE S # Bad
    <2>1. PICK k, h, m : Shape(S, levels, blocky, k, h, m)
        BY <1>3, Zenon DEF Matched
    <2>2. CASE Top(S) = "block"
        <3>1. Opened(S, "if") = Append(S, "head")
            BY <1>3, <2>2, OpenedIs, Zenon
        <3>2. Shape(Append(S, "head"), levels, Len(levels), k, 1, 0)
            BY <2>1, <2>2, ShapeHead, Zenon
        <3>. QED  BY <1>1, <3>1, <3>2, Zenon DEF Matched
    <2>3. CASE Top(S) # "block"
        <3>1. Opened(S, "if") = Bad
            BY <1>3, <2>3, OpenedIs, Zenon
        <3>. QED  BY <3>1, Zenon DEF Matched
    <2>. QED  BY <2>2, <2>3
<1>. QED  BY <1>2, <1>3

LEMMA MatchedOpen ==
    ASSUME NEW S, Matched(S, levels, blocky), Push("expr"), blocky' = blocky, NEW c \in {"(", "["}
    PROVE  Matched(Opened(S, c), levels', blocky')
<1>1. levels' = Append(levels, "expr")
    BY Zenon DEF Push
<1>2. CASE S = Bad
    BY <1>2, MatchedBad, Zenon
<1>3. CASE S # Bad
    <2>1. PICK k, h, m : Shape(S, levels, blocky, k, h, m)
        BY <1>3, Zenon DEF Matched
    <2>2. Opened(S, c) = Append(S, c)
        BY <1>3, OpenedIs, Zenon
    <2>3. c \in Exprs
        BY Zenon DEF Exprs
    <2>4. Shape(Append(S, c), Append(levels, "expr"), blocky, k, h, m + 1)
        BY <2>1, <2>3, ShapePush
    <2>. QED  BY <1>1, <2>2, <2>4, Zenon DEF Matched
<1>. QED  BY <1>2, <1>3

LEMMA MatchedBrace ==
    ASSUME NEW S, Matched(S, levels, blocky), PushBlocky
    PROVE  Matched(Opened(S, OpeningBrace), levels', blocky')
<1>1. CASE S = Bad
    BY <1>1, MatchedBad, Zenon
<1>2. CASE S # Bad
    <2>1. PICK k, h, m : Shape(S, levels, blocky, k, h, m)
        BY <1>2, Zenon DEF Matched
    <2>2. CASE Top(S) = "head"
        <3>1. Opened(S, OpeningBrace) = Append(Front(S), "block")
            BY <1>2, <2>2, OpenedIs, Zenon
        <3>2. blocky = Len(levels) /\ Shape(Append(Front(S), "block"), Append(levels, "stmt"), -1, k + 1, 0, 0)
            BY <2>1, <2>2, ShapeBlock
        <3>3. levels' = Append(levels, "stmt") /\ blocky' = -1
            BY <3>2, Zenon DEF PushBlocky, Push
        <3>. QED  BY <3>1, <3>2, <3>3, Zenon DEF Matched
    <2>3. CASE Top(S) # "head"
        <3>1. Opened(S, OpeningBrace) = Append(S, "dict")
            BY <1>2, <2>3, OpenedIs, Zenon
        <3>2. blocky # Len(levels)
            <4>1. k \in Nat /\ m \in Nat /\ h \in {0, 1}
                BY <2>1 DEF Shape
            <4>2. m > 0 \/ h = 0
                <5>1. m = 0 /\ h = 1 => FALSE
                    BY <2>1, <2>3, ShapeTop DEF Top
                <5>. QED  BY <4>1, <5>1
            <4>. QED  BY <2>1, <4>2, ShapeTop
        <3>3. levels' = Append(levels, "expr") /\ blocky' = blocky
            BY <3>2, Zenon DEF PushBlocky, Push
        <3>4. "dict" \in Exprs
            BY Zenon DEF Exprs
        <3>5. Shape(Append(S, "dict"), Append(levels, "expr"), blocky, k, h, m + 1)
            BY <2>1, <3>4, ShapePush
        <3>. QED  BY <3>1, <3>3, <3>5, Zenon DEF Matched
    <2>. QED  BY <2>2, <2>3
<1>. QED  BY <1>1, <1>2

LEMMA MatchedClose ==
    ASSUME NEW S, Matched(S, levels, blocky), Pop, NEW c \in {")", "]", ClosingBrace}
    PROVE  Matched(Opened(S, c), levels', blocky')
<1>1. CASE S = Bad
    BY <1>1, MatchedBad, Zenon
<1>2. CASE S # Bad /\ Opened(S, c) = Bad
    BY <1>2, Zenon DEF Matched
<1>3. CASE S # Bad /\ Opened(S, c) # Bad
    <2>1. PICK k, h, m : Shape(S, levels, blocky, k, h, m)
        BY <1>3, Zenon DEF Matched
    <2>2. S # <<>> /\ Last(S) # "head" /\ Opened(S, c) = Front(S)
        BY <1>3, OpenedIs, Zenon
    <2>3. levels # <<>> /\ \E j, n : Shape(Front(S), Front(levels), blocky, j, h, n)
        BY <2>1, <2>2, ShapePop
    <2>4. levels' = Front(levels) /\ blocky' = blocky
        BY <2>3, Zenon DEF Pop
    <2>. QED  BY <2>2, <2>3, <2>4, Zenon DEF Matched
<1>. QED  BY <1>1, <1>2, <1>3

(* What is open and is_expr_context.                                        *)
OutsideOf(S) == S = <<>> \/ Last(S) = "block"
InsideOf(S)  == S # <<>> /\ Last(S) \in Exprs

LEMMA ContextOf ==
    ASSUME LayoutOK, NEW S, Matched(S, levels, blocky)
    PROVE  /\ OutsideOf(Strip(S)) => exprContext = FALSE
           /\ InsideOf(Strip(S)) => exprContext = TRUE
<1>1. exprContext = (levels # <<>> /\ Last(levels) = "expr")
    BY Zenon DEF LayoutOK
<1>2. CASE S = Bad
    <2>1. Bad # <<>> /\ Last(Bad) = "bad"
        BY DEF Bad, Last
    <2>2. "bad" # "head" /\ "bad" # "block" /\ "bad" \notin Exprs
        BY Zenon DEF Exprs
    <2>. QED  BY <1>2, <2>1, <2>2, Zenon DEF Strip, OutsideOf, InsideOf
<1>3. CASE S # Bad
    <2>1. PICK k, h, m : Shape(S, levels, blocky, k, h, m)
        BY <1>3, Zenon DEF Matched
    <2>2. /\ k \in Nat /\ m \in Nat /\ h \in {0, 1} /\ Len(S) = k + h + m /\ S \in Seq(Tops)
          /\ \A i \in 1..k : S[i] = "block"
        BY <2>1 DEF Shape
    <2>3. CASE m > 0
        <3>1. S # <<>> /\ Last(S) \in Exprs /\ levels # <<>> /\ Last(levels) = "expr"
            BY <2>1, <2>3, ShapeTop
        <3>2. Strip(S) = S
            BY <3>1, ExprsAre, Zenon DEF Strip
        <3>3. exprContext = TRUE
            BY <1>1, <3>1
        <3>4. ~OutsideOf(Strip(S))
            BY <3>1, <3>2, ExprsAre, Zenon DEF OutsideOf
        <3>. QED  BY <3>3, <3>4
    <2>4. CASE m = 0
        <3>1. levels = <<>> \/ Last(levels) = "stmt"
            BY <2>1, <2>4, ShapeTop
        <3>2. exprContext = FALSE
            BY <1>1, <3>1
        <3>3. Strip(S) = <<>> \/ Last(Strip(S)) = "block"
            <4>1. CASE h = 0
                <5>1. S = <<>> \/ (S # <<>> /\ Last(S) = "block")
                    BY <2>1, <2>2, <2>4, <4>1, ShapeTop
                <5>. QED  BY <5>1, Zenon DEF Strip
            <4>2. CASE h = 1
                <5>1. S # <<>> /\ Last(S) = "head"
                    BY <2>1, <2>4, <4>2, ShapeTop
                <5>2. PICK F : F = Front(S)
                    OBVIOUS
                <5>3. k = Len(S) - 1
                    BY <2>2, <2>4, <4>2
                <5>4. F \in Seq(Tops) /\ Len(F) = k /\ \A i \in 1..k : F[i] = S[i]
                    BY <2>2, <5>1, <5>2, <5>3, ShorterIs
                <5>5. F = <<>> \/ Last(F) = "block"
                    <6>1. CASE k = 0
                        BY <5>4, <6>1, EmptySeq
                    <6>2. CASE k # 0
                        <7>1. k \in 1..k
                            BY <2>2, <6>2
                        <7>2. F[k] = "block"
                            BY <2>2, <5>4, <7>1
                        <7>. QED  BY <5>4, <7>2 DEF Last
                    <6>. QED  BY <6>1, <6>2
                <5>6. Strip(S) = F
                    BY <5>1, <5>2, Zenon DEF Strip
                <5>. QED  BY <5>5, <5>6, Zenon
            <4>. QED  BY <2>2, <4>1, <4>2
        <3>4. ~InsideOf(Strip(S))
            BY <3>3, ExprsAre, Zenon DEF InsideOf
        <3>. QED  BY <3>2, <3>4, Zenon
    <2>5. m > 0 \/ m = 0
        BY <2>2
    <2>. QED  BY <2>3, <2>4, <2>5, Zenon
<1>. QED  BY <1>2, <1>3, Zenon

-----------------------------------------------------------------------------
(* What the property says of a position, from the lexemes o handed out.      *)

Earlier(o, p) == {i \in DOMAIN o : o[i].start < p}
StackAt(o, p)  == Strip(Opens(o)[1 + Cardinality(Earlier(o, p))])
FakesOf(o, p)  == {i \in DOMAIN o : o[i].kind = "fake" /\ o[i].start = p}
Covered(o, p)  == \E i \in DOMAIN o : InLexeme(o, p, i)
ClosedAt(o, p) == \E i \in DOMAIN o : o[i].kind = ClosingBrace /\ o[i].start = p

Spot(o, p) == At(p) = "end" \/ (At(p) = "\n" /\ ~Covered(o, p)) \/ ClosedAt(o, p)

Good(o, p) ==
    /\ Spot(o, p) /\ OutsideOf(StackAt(o, p)) => Cardinality(FakesOf(o, p)) = 1
    /\ Spot(o, p) /\ InsideOf(StackAt(o, p)) => FakesOf(o, p) = {}
    /\ ~Spot(o, p) => FakesOf(o, p) = {}

LEMMA GoodIs ==
    ASSUME \A p \in 1..cur : Passed(p) => Good(out, p)
    PROVE  SemicolonsAsDocumented
<1>1. \A p : OpenAt(p) = StackAt(out, p)
    BY Zenon DEF OpenAt, StackAt, Strip, Earlier
<1>2. \A p : Place(p) <=> Passed(p) /\ Spot(out, p)
    BY Zenon DEF Place, Spot, Covered, ClosedAt, InLexeme, Within, ClosingBrace
<1>3. \A p : FakesAt(p) = FakesOf(out, p)
    BY Zenon DEF FakesAt, FakesOf
<1>4. \A p : (Outside(p) <=> OutsideOf(StackAt(out, p))) /\ (Inside(p) <=> InsideOf(StackAt(out, p)))
    BY <1>1, Zenon DEF Outside, Inside, OutsideOf, InsideOf, Exprs
<1>. QED  BY <1>2, <1>3, <1>4, Zenon DEF SemicolonsAsDocumented, Good

LEMMA GoodSame ==
    ASSUME text' = text
    PROVE  \A p : Good(out, p)' <=> Good(out', p)
<1>1. \A p : At(p)' = At(p)
    BY EndSame, Zenon DEF At
<1>. QED  BY <1>1, Zenon DEF Good, Spot, StackAt, FakesOf, Covered, ClosedAt, InLexeme, Earlier

LEMMA IntervalCount ==
    ASSUME NEW n \in Nat
    PROVE  IsFiniteSet(1..n) /\ Cardinality(1..n) = n
<1>1. 1 \in Int /\ n \in Int
    OBVIOUS
<1>. QED  BY <1>1, FS_Interval

(* A lexeme that begins at p or after it does not change what is open at p;  *)
LEMMA StackStays ==
    ASSUME NEW o \in Seq(Lexeme), NEW l \in Lexeme, NEW r, r = Append(o, l),
           NEW p \in Nat, p <= l.start
    PROVE  StackAt(r, p) = StackAt(o, p)
<1>1. Grown(o, l, r)
    BY Appended
<1>2. /\ Len(o) \in Nat /\ DOMAIN o = 1..Len(o) /\ DOMAIN r = 1..(Len(o) + 1)
      /\ \A i \in 1..Len(o) : r[i] = o[i] /\ i \in 1..(Len(o) + 1)
      /\ r[Len(o) + 1] = l
      /\ \A i \in 1..(Len(o) + 1) : i \in 1..Len(o) \/ i = Len(o) + 1
    BY <1>1, Zenon DEF Grown
<1>3. ~(l.start < p)
    <2>1. l.start \in Nat
        BY DEF Lexeme
    <2>. QED  BY <2>1
<1>4. Earlier(r, p) = Earlier(o, p)
    <2>1. \A i : i \in Earlier(r, p) <=> i \in Earlier(o, p)
        BY <1>2, <1>3, Zenon DEF Earlier
    <2>. QED  BY <2>1, Zenon
<1>5. 1 + Cardinality(Earlier(o, p)) \in 1..(Len(o) + 1)
    <2>1. Earlier(o, p) \subseteq 1..Len(o)
        BY <1>2, Zenon DEF Earlier
    <2>2. IsFiniteSet(1..Len(o)) /\ Cardinality(1..Len(o)) = Len(o)
        BY <1>2, IntervalCount
    <2>3. Cardinality(Earlier(o, p)) \in Nat /\ Cardinality(Earlier(o, p)) <= Len(o)
        BY <2>1, <2>2, FS_Subset, FS_CardinalityType
    <2>. QED  BY <1>2, <2>3
<1>6. \A n \in 1..(Len(o) + 1) : Opens(r)[n] = Opens(o)[n]
    BY OpensGrow
<1>. QED  BY <1>4, <1>5, <1>6, Zenon DEF StackAt

(* and one that begins after p changes nothing that concerns p.             *)
LEMMA GoodStays ==
    ASSUME NEW o \in Seq(Lexeme), NEW l \in Lexeme, NEW r, r = Append(o, l),
           NEW p \in Nat, p < l.start, Good(o, p)
    PROVE  Good(r, p)
<1>1. Grown(o, l, r)
    BY Appended
<1>2. /\ DOMAIN o = 1..Len(o) /\ DOMAIN r = 1..(Len(o) + 1)
      /\ \A i \in 1..Len(o) : r[i] = o[i] /\ i \in 1..(Len(o) + 1)
      /\ r[Len(o) + 1] = l
      /\ \A i \in 1..(Len(o) + 1) : i \in 1..Len(o) \/ i = Len(o) + 1
    BY <1>1, Zenon DEF Grown
<1>3. l.start # p /\ p <= l.start /\ p \notin l.start..(l.start + l.size - 1)
    <2>1. l.start \in Nat
        BY DEF Lexeme
    <2>. QED  BY <2>1
<1>4. StackAt(r, p) = StackAt(o, p)
    BY <1>3, StackStays
<1>5. FakesOf(r, p) = FakesOf(o, p)
    <2>1. \A i : i \in FakesOf(r, p) <=> i \in FakesOf(o, p)
        BY <1>2, <1>3, Zenon DEF FakesOf
    <2>. QED  BY <2>1, Zenon
<1>6. Covered(r, p) <=> Covered(o, p)
    BY <1>2, <1>3, Zenon DEF Covered, InLexeme
<1>7. ClosedAt(r, p) <=> ClosedAt(o, p)
    BY <1>2, <1>3, Zenon DEF ClosedAt
<1>. QED  BY <1>4, <1>5, <1>6, <1>7, Zenon DEF Good, Spot

-----------------------------------------------------------------------------
(* What holds while lexemes are asked for: those handed out end at the current
   position, only a semicolon put in begins there, and that one is the last
   lexeme exactly if the flag is set; the levels are the brackets that are
   open; and of what has been passed all is as documented.                  *)

Read(o, c, f) ==
    \A i \in DOMAIN o :
        /\ o[i].start + o[i].size <= c
        /\ o[i].kind # "fake" => o[i].start < c
        /\ o[i].kind = "fake" /\ o[i].start = c => i = Len(o) /\ f

Reading ==
    /\ Read(out, cur, flag) /\ (flag => out # <<>>)
    /\ Matched(Opens(out)[Len(out) + 1], levels, blocky)
    /\ \A p \in 1..(cur - 1) : Good(out, p)

SemicolonInv ==
    /\ Typed
    /\ Started /\ ~Finished => Reading
    /\ out # <<>> /\ Last(out).kind = "eof" => \A p \in 1..cur : Good(out, p)

LEMMA ReadingFacts ==
    ASSUME Typed
    PROVE  /\ out \in Seq(Lexeme) /\ Len(out) \in Nat /\ DOMAIN out = 1..Len(out)
           /\ \A i \in 1..Len(out) : out[i].start \in Nat /\ out[i].size \in Nat
           /\ cur \in Nat /\ 1 <= cur /\ cur <= End /\ End \in Nat
           /\ flag \in BOOLEAN /\ LayoutOK
           /\ flag = TRUE => Last(out).kind = "fake" /\ Last(out).start = cur
           /\ flag = TRUE => exprContext = FALSE
<1>1. TypeOK /\ TextOK /\ LayoutOK /\ FlagOK /\ Fresh
    BY TypeParts DEF Typed
<1>2. out \in Seq(Lexeme) /\ Len(out) \in Nat /\ DOMAIN out = 1..Len(out) /\ \A i \in 1..Len(out) : out[i] \in Lexeme
    <2>1. out \in Seq(Lexeme)
        BY <1>1 DEF TextOK
    <2>. QED  BY <2>1, LenProperties, ElementOfSeq
<1>3. \A i \in 1..Len(out) : out[i].start \in Nat /\ out[i].size \in Nat
    BY <1>2 DEF Lexeme
<1>4. cur \in Nat /\ 1 <= cur /\ cur <= End /\ End \in Nat
    BY <1>1, TextFacts
<1>5. flag \in BOOLEAN /\ (flag = TRUE => Last(out).kind = "fake" /\ Last(out).start = cur)
    BY <1>1, Zenon DEF LayoutOK, FlagOK
<1>6. flag = TRUE => exprContext = FALSE
    BY <1>1, Zenon DEF LayoutOK, FlagOK
<1>. QED  BY <1>1, <1>2, <1>3, <1>4, <1>5, <1>6

(* Nothing that has been handed out covers what is still to be read,        *)
LEMMA NothingAhead ==
    ASSUME Typed, Reading, NEW p \in Nat, p >= cur
    PROVE  ~Covered(out, p) /\ ~ClosedAt(out, p)
<1>1. /\ DOMAIN out = 1..Len(out) /\ cur \in Nat
      /\ \A i \in 1..Len(out) : out[i].start \in Nat /\ out[i].size \in Nat
    BY ReadingFacts
<1>2. \A i \in 1..Len(out) : out[i].start + out[i].size <= cur /\ (out[i].kind # "fake" => out[i].start < cur)
    BY <1>1, Zenon DEF Reading, Read
<1>3. \A i \in 1..Len(out) : p \notin out[i].start..(out[i].start + out[i].size - 1)
    BY <1>1, <1>2
<1>4. \A i \in 1..Len(out) : out[i].kind # "fake" => out[i].start # p
    BY <1>1, <1>2
<1>5. ClosingBrace # "fake"
    BY Zenon DEF ClosingBrace
<1>. QED  BY <1>1, <1>3, <1>4, <1>5, Zenon DEF Covered, ClosedAt, InLexeme

(* and the only semicolon there is the one the flag stands for.              *)
LEMMA FakesAhead ==
    ASSUME Typed, Reading, NEW p \in Nat, p >= cur
    PROVE  /\ p = cur /\ flag => FakesOf(out, p) = {Len(out)}
           /\ p # cur \/ ~flag => FakesOf(out, p) = {}
<1>1. /\ DOMAIN out = 1..Len(out) /\ cur \in Nat /\ Len(out) \in Nat
      /\ \A i \in 1..Len(out) : out[i].start \in Nat /\ out[i].size \in Nat
      /\ flag = TRUE => Last(out).kind = "fake" /\ Last(out).start = cur
      /\ flag \in BOOLEAN
    BY ReadingFacts
<1>2. \A i \in 1..Len(out) : /\ out[i].start + out[i].size <= cur
                             /\ out[i].kind = "fake" /\ out[i].start = cur => i = Len(out) /\ flag
    BY <1>1, Zenon DEF Reading, Read
<1>3. \A i \in 1..Len(out) : out[i].start <= cur
    <2>. TAKE i \in 1..Len(out)
    <2>1. out[i].start + out[i].size <= cur
        BY <1>2
    <2>2. \A s, z, c \in Nat : s + z <= c => s <= c
        OBVIOUS
    <2>. QED  BY <1>1, <2>1, <2>2, Zenon
<1>4. p # cur => FakesOf(out, p) = {}
    <2>. SUFFICES ASSUME p # cur PROVE FakesOf(out, p) = {}
        OBVIOUS
    <2>1. \A i \in 1..Len(out) : out[i].start # p
        BY <1>1, <1>3
    <2>. QED  BY <1>1, <2>1, Zenon DEF FakesOf
<1>5. p = cur /\ ~flag => FakesOf(out, p) = {}
    BY <1>1, <1>2, Zenon DEF FakesOf
<1>6. p = cur /\ flag => FakesOf(out, p) = {Len(out)}
    <2>. SUFFICES ASSUME p = cur, flag PROVE FakesOf(out, p) = {Len(out)}
        OBVIOUS
    <2>1. out # <<>> /\ flag = TRUE
        BY <1>1, Zenon DEF Reading
    <2>2. Len(out) \in 1..Len(out)
        <3>1. Len(out) # 0
            BY <2>1, ReadingFacts, EmptySeq
        <3>. QED  BY <1>1, <3>1
    <2>3. out[Len(out)].kind = "fake" /\ out[Len(out)].start = cur
        BY <1>1, <2>1, Zenon DEF Last
    <2>4. \A i : i \in FakesOf(out, p) <=> i = Len(out)
        BY <1>1, <1>2, <2>2, <2>3, Zenon DEF FakesOf
    <2>. QED  BY <2>4, Zenon
<1>. QED  BY <1>4, <1>5, <1>6, Zenon

(* What is open where the lexer stands.                                      *)
LEMMA StackHere ==
    ASSUME Typed, Reading
    PROVE  StackAt(out, cur) = Strip(Opens(out)[Len(out) + 1])
<1>1. /\ DOMAIN out = 1..Len(out) /\ cur \in Nat /\ Len(out) \in Nat
      /\ \A i \in 1..Len(out) : out[i].start \in Nat /\ out[i].size \in Nat
      /\ flag \in BOOLEAN /\ cur >= cur
    BY ReadingFacts
<1>2. \A i \in 1..Len(out) : out[i].start <= cur
    <2>. TAKE i \in 1..Len(out)
    <2>1. out[i].start + out[i].size <= cur
        BY <1>1, Zenon DEF Reading, Read
    <2>2. \A s, z, c \in Nat : s + z <= c => s <= c
        OBVIOUS
    <2>. QED  BY <1>1, <2>1, <2>2, Zenon
<1>3. \A i \in 1..Len(out) : out[i].start < cur \/ i \in FakesOf(out, cur)
    <2>. TAKE i \in 1..Len(out)
    <2>1. out[i].kind = "fake" \/ out[i].start < cur
        BY <1>1, Zenon DEF Reading, Read
    <2>2. out[i].start = cur \/ out[i].start < cur
        BY <1>1, <1>2
    <2>. QED  BY <1>1, <2>1, <2>2, Zenon DEF FakesOf
<1>4. CASE ~flag
    <2>1. FakesOf(out, cur) = {}
        BY <1>1, <1>4, FakesAhead
    <2>2. \A i : i \in Earlier(out, cur) <=> i \in 1..Len(out)
        BY <1>1, <1>3, <2>1, Zenon DEF Earlier
    <2>3. Earlier(out, cur) = 1..Len(out)
        BY <2>2, Zenon
    <2>4. 1 + Cardinality(Earlier(out, cur)) = Len(out) + 1
        BY <1>1, <2>3, IntervalCount
    <2>. QED  BY <2>4, Zenon DEF StackAt
<1>5. CASE flag
    <2>1. FakesOf(out, cur) = {Len(out)}
        BY <1>1, <1>5, FakesAhead
    <2>2. PICK n : n = Len(out) - 1
        OBVIOUS
    <2>3. Len(out) \in 1..Len(out) /\ out[Len(out)].kind = "fake" /\ out[Len(out)].start = cur
        BY <1>1, <2>1, Zenon DEF FakesOf
    <2>4. n \in Nat /\ Len(out) = n + 1 /\ \A i \in 1..Len(out) : i \in 1..n <=> i # Len(out)
        <3>1. \A m \in Nat : m \in 1..m => /\ m - 1 \in Nat /\ m = m - 1 + 1
                                          /\ \A i \in 1..m : i \in 1..(m - 1) <=> i # m
            OBVIOUS
        <3>. QED  BY <1>1, <2>2, <2>3, <3>1, Zenon
    <2>5. ~(cur < cur) /\ \A i \in 1..n : i \in 1..Len(out)
        BY <1>1, <2>4
    <2>6. \A i : i \in Earlier(out, cur) <=> i \in 1..n
        BY <1>1, <1>3, <2>1, <2>3, <2>4, <2>5, Zenon DEF Earlier
    <2>7. Earlier(out, cur) = 1..n
        BY <2>6, Zenon
    <2>8. 1 + Cardinality(Earlier(out, cur)) = Len(out)
        BY <2>4, <2>7, IntervalCount
    <2>9. Opens(out)[Len(out) + 1] = Opens(out)[Len(out)]
        <3>1. Opens(out)[Len(out) + 1] = OpenStep(Opens(out), out, Len(out) + 1)
            <4>1. Len(out) + 1 \in 1..(Len(out) + 1)
                BY <1>1
            <4>. QED  BY <1>1, <4>1, OpensIs
        <3>2. Len(out) + 1 # 1 /\ Len(out) + 1 - 1 = Len(out)
            BY <1>1, <2>3
        <3>3. OpenStep(Opens(out), out, Len(out) + 1) = Opened(Opens(out)[Len(out)], out[Len(out)].kind)
            BY <3>2 DEF OpenStep
        <3>4. Opened(Opens(out)[Len(out)], "fake") = Opens(out)[Len(out)]
            BY OpenedIs, Zenon
        <3>. QED  BY <2>3, <3>1, <3>3, <3>4, Zenon
    <2>. QED  BY <2>8, <2>9, Zenon DEF StackAt
<1>. QED  BY <1>4, <1>5

(* Where the lexer answers no, there is a semicolon already, or an expression
   is open: this is insert_semicolon against the documented rule.            *)
LEMMA DueHere ==
    ASSUME Typed, Reading, ~Inserts
    PROVE  /\ OutsideOf(StackAt(out, cur)) => Cardinality(FakesOf(out, cur)) = 1
           /\ InsideOf(StackAt(out, cur)) => FakesOf(out, cur) = {}
<1>1. /\ cur \in Nat /\ cur >= cur /\ flag \in BOOLEAN /\ LayoutOK
      /\ flag = TRUE => exprContext = FALSE
    <2>1. cur \in Nat /\ flag \in BOOLEAN /\ LayoutOK
        BY ReadingFacts
    <2>2. flag = TRUE => exprContext = FALSE
        BY ReadingFacts
    <2>3. cur >= cur
        BY <2>1
    <2>. QED  BY <2>1, <2>2, <2>3, Zenon
<1>2. exprContext \/ flag
    BY Zenon DEF Inserts
<1>3. PICK S : S = Opens(out)[Len(out) + 1]
    OBVIOUS
<1>4. Matched(S, levels, blocky) /\ StackAt(out, cur) = Strip(S)
    BY <1>3, StackHere, Zenon DEF Reading
<1>5. /\ OutsideOf(Strip(S)) => exprContext = FALSE
      /\ InsideOf(Strip(S)) => exprContext = TRUE
    BY <1>1, <1>4, ContextOf
<1>6. /\ flag => FakesOf(out, cur) = {Len(out)}
      /\ ~flag => FakesOf(out, cur) = {}
    BY <1>1, FakesAhead
<1>7. \A x : Cardinality({x}) = 1
    BY FS_Singleton
<1>8. OutsideOf(Strip(S)) => flag
    BY <1>2, <1>5, Zenon
<1>9. InsideOf(Strip(S)) => ~flag
    BY <1>1, <1>5
<1>. QED  BY <1>4, <1>6, <1>7, <1>8, <1>9, Zenon

-----------------------------------------------------------------------------
(* One more lexeme, and one more character passed over.                      *)

LEMMA FakesSame ==
    ASSUME NEW o \in Seq(Lexeme), NEW l \in Lexeme, NEW r, r = Append(o, l), NEW p,
           l.kind # "fake"
    PROVE  FakesOf(r, p) = FakesOf(o, p)
<1>1. Grown(o, l, r)
    BY Appended
<1>2. /\ DOMAIN o = 1..Len(o) /\ DOMAIN r = 1..(Len(o) + 1)
      /\ \A i \in 1..Len(o) : r[i] = o[i] /\ i \in 1..(Len(o) + 1)
      /\ r[Len(o) + 1] = l
      /\ \A i \in 1..(Len(o) + 1) : i \in 1..Len(o) \/ i = Len(o) + 1
    BY <1>1, Zenon DEF Grown
<1>3. \A i : i \in FakesOf(r, p) <=> i \in FakesOf(o, p)
    BY <1>2, Zenon DEF FakesOf
<1>. QED  BY <1>3, Zenon

(* The lexemes handed out after one more, which is no semicolon put in,      *)
LEMMA ReadWord ==
    ASSUME NEW o \in Seq(Lexeme), NEW l \in Lexeme, NEW r, r = Append(o, l),
           NEW c \in Nat, NEW f, Read(o, c, f), \A i \in 1..Len(o) : o[i].start <= c,
           l.start = c, l.size >= 1, l.kind # "fake", NEW d \in Nat, d = c + l.size, NEW g
    PROVE  Read(r, d, g)
<1>1. Grown(o, l, r)
    BY Appended
<1>2. /\ DOMAIN o = 1..Len(o) /\ DOMAIN r = 1..(Len(o) + 1)
      /\ \A i \in 1..Len(o) : r[i] = o[i]
      /\ r[Len(o) + 1] = l
      /\ \A i \in 1..(Len(o) + 1) : i \in 1..Len(o) \/ i = Len(o) + 1
    BY <1>1, Zenon DEF Grown
<1>3. l.size \in Nat /\ c < d
    <2>1. l.size \in Nat
        BY DEF Lexeme
    <2>. QED  BY <2>1
<1>4. \A i \in 1..Len(o) : o[i] \in Lexeme
    BY ElementOfSeq
<1>5. ASSUME NEW i \in 1..Len(o)
      PROVE  o[i].start + o[i].size <= d /\ o[i].start < d
    <2>1. o[i].start \in Nat /\ o[i].size \in Nat
        BY <1>4 DEF Lexeme
    <2>2. o[i].start + o[i].size <= c /\ o[i].start <= c
        BY <1>2, Zenon DEF Read
    <2>3. \A s, z \in Nat : s + z <= c /\ s <= c => s + z <= d /\ s < d
        BY <1>3
    <2>. QED  BY <2>1, <2>2, <2>3, Zenon
<1>6. l.start + l.size <= d /\ l.start < d /\ (\A s \in Nat : s < d => s # d)
    BY <1>3
<1>7. \A i \in 1..Len(o) : o[i].start # d
    <2>. TAKE i \in 1..Len(o)
    <2>1. o[i].start \in Nat
        BY <1>4 DEF Lexeme
    <2>. QED  BY <1>5, <1>6, <2>1, Zenon
<1>. QED  BY <1>2, <1>5, <1>6, <1>7, Zenon DEF Read

(* and what is open then.                                                    *)
LEMMA StackNext ==
    ASSUME Typed, NEW k, NEW n, Emits(k, n)
    PROVE  Opens(out')[Len(out') + 1] = Opened(Opens(out)[Len(out) + 1], k)
<1>1. out \in Seq(Lexeme) /\ Len(out) \in Nat
    BY ReadingFacts
<1>2. PICK l \in Lexeme : l.kind = k /\ out' = Append(out, l)
    BY EmitsFacts
<1>3. Len(out') = Len(out) + 1
    BY <1>1, <1>2, Appended DEF Grown
<1>4. Opens(out')[Len(out) + 1 + 1] = Opened(Opens(out)[Len(out) + 1], l.kind)
    BY <1>1, <1>2, OpensGrow
<1>. QED  BY <1>2, <1>3, <1>4, Zenon

LEMMA StartsBehind ==
    ASSUME Typed, Reading
    PROVE  \A i \in 1..Len(out) : out[i].start <= cur
<1>1. /\ DOMAIN out = 1..Len(out) /\ cur \in Nat
      /\ \A i \in 1..Len(out) : out[i].start \in Nat /\ out[i].size \in Nat
    BY ReadingFacts
<1>. TAKE i \in 1..Len(out)
<1>2. out[i].start + out[i].size <= cur
    BY <1>1, Zenon DEF Reading, Read
<1>3. \A s, z, c \in Nat : s + z <= c => s <= c
    OBVIOUS
<1>. QED  BY <1>1, <1>2, <1>3, Zenon

LEMMA PassedStays ==
    ASSUME Typed, Reading, NEW k, NEW n, Emits(k, n), NEW p \in 1..(cur - 1)
    PROVE  Good(out', p)
<1>1. out \in Seq(Lexeme) /\ cur \in Nat
    BY ReadingFacts
<1>2. PICK l \in Lexeme : l.start = cur /\ out' = Append(out, l)
    BY EmitsFacts
<1>3. Good(out, p)
    BY Zenon DEF Reading
<1>4. p \in Nat /\ p < l.start
    BY <1>1, <1>2
<1>. QED  BY <1>1, <1>2, <1>3, <1>4, GoodStays

LEMMA PassedWord ==
    ASSUME Typed, Reading, NEW k, NEW n, Emits(k, n), k \notin {"fake", "eof"},
           k # ClosingBrace => flag = FALSE, k = ClosingBrace => ~Inserts,
           NEW p \in cur..(cur + n - 1)
    PROVE  Good(out', p)
<1>1. out \in Seq(Lexeme) /\ cur \in Nat /\ End \in Nat /\ n \in Nat /\ cur + n <= End /\ 1 <= cur /\ cur >= cur
    <2>1. out \in Seq(Lexeme) /\ cur \in Nat /\ End \in Nat /\ 1 <= cur
        BY ReadingFacts
    <2>2. n \in Nat /\ cur + n <= End
        BY Zenon DEF Emits
    <2>. QED  BY <2>1, <2>2
<1>2. PICK l \in Lexeme : l.kind = k /\ l.start = cur /\ l.size = n /\ out' = Append(out, l)
    BY EmitsFacts
<1>3. p \in Nat /\ p >= cur /\ p < End
    BY <1>1
<1>4. At(p) # "end"
    <2>1. TypeOK
        BY DEF Typed
    <2>2. p \in 1..Len(text) /\ End = Len(text) + 1
        BY <1>1, <1>3, <2>1, TextFacts
    <2>3. At(p) \in Char
        BY <2>1, <2>2, TextFacts
    <2>. QED  BY <2>3, CharFacts
<1>5. Grown(out, l, out')
    BY <1>1, <1>2, Appended
<1>6. /\ DOMAIN out = 1..Len(out) /\ DOMAIN out' = 1..(Len(out) + 1)
      /\ \A i \in 1..Len(out) : out'[i] = out[i] /\ i \in 1..(Len(out) + 1)
      /\ out'[Len(out) + 1] = l /\ Len(out) + 1 \in 1..(Len(out) + 1)
      /\ \A i \in 1..(Len(out) + 1) : i \in 1..Len(out) \/ i = Len(out) + 1
    BY <1>5, Zenon DEF Grown
<1>7. Covered(out', p)
    BY <1>2, <1>6, Zenon DEF Covered, InLexeme
<1>8. FakesOf(out', p) = FakesOf(out, p)
    <2>1. k # "fake"
        OBVIOUS
    <2>2. l.kind # "fake"
        BY <1>2, <2>1, Zenon
    <2>3. \A i : i \in FakesOf(out', p) <=> i \in FakesOf(out, p)
        BY <1>6, <2>2, Zenon DEF FakesOf
    <2>. QED  BY <2>3, Zenon
<1>9. CASE p = cur /\ k = ClosingBrace
    <2>1. ClosedAt(out', p)
        BY <1>2, <1>6, <1>9, Zenon DEF ClosedAt
    <2>2. StackAt(out', p) = StackAt(out, p)
        <3>1. p <= l.start
            BY <1>1, <1>2, <1>9
        <3>2. out \in Seq(Lexeme) /\ out' = Append(out, l) /\ p \in Nat
            BY <1>1, <1>2, <1>3, Zenon
        <3>. QED  BY <3>1, <3>2, StackStays
    <2>3. /\ OutsideOf(StackAt(out, p)) => Cardinality(FakesOf(out, p)) = 1
          /\ InsideOf(StackAt(out, p)) => FakesOf(out, p) = {}
        BY <1>9, DueHere, Zenon
    <2>. QED  BY <1>8, <2>1, <2>2, <2>3, Zenon DEF Good, Spot
<1>10. CASE ~(p = cur /\ k = ClosingBrace)
    <2>1. ~ClosedAt(out', p)
        <3>1. ~ClosedAt(out, p)
            BY <1>3, NothingAhead
        <3>. QED  BY <1>2, <1>6, <1>10, <3>1, Zenon DEF ClosedAt
    <2>2. FakesOf(out, p) = {}
        <3>1. p # cur \/ ~flag
            BY <1>10
        <3>. QED  BY <1>3, <3>1, FakesAhead
    <2>. QED  BY <1>4, <1>7, <1>8, <2>1, <2>2, Zenon DEF Good, Spot
<1>. QED  BY <1>9, <1>10

(* A word that is handed out, whatever it does to the levels.                *)
LEMMA AfterWord ==
    ASSUME Typed, Reading, NEW k, NEW n, Emits(k, n), k \notin {"fake", "eof"},
           k # ClosingBrace => flag = FALSE, k = ClosingBrace => ~Inserts, flag' = FALSE,
           Matched(Opened(Opens(out)[Len(out) + 1], k), levels', blocky')
    PROVE  Reading' /\ Last(out').kind = k
<1>1. out \in Seq(Lexeme) /\ cur \in Nat /\ Len(out) \in Nat /\ DOMAIN out = 1..Len(out)
    BY ReadingFacts
<1>2. n \in Nat /\ n >= 1
    <2>1. n \in Nat /\ (n = 0 <=> k \in {"fake", "eof"})
        BY Zenon DEF Emits
    <2>. QED  BY <2>1
<1>3. PICK l \in Lexeme :
          /\ l.kind = k /\ l.start = cur /\ l.size = n
          /\ out' = Append(out, l) /\ text' = text /\ cur' = cur + n
    BY EmitsFacts
<1>4. PICK d \in Nat : d = cur' /\ d = cur + n
    BY <1>1, <1>2, <1>3
<1>5. Read(out', d, flag')
    <2>1. \A i \in 1..Len(out) : out[i].start <= cur
        BY StartsBehind
    <2>2. Read(out, cur, flag)
        BY Zenon DEF Reading
    <2>. QED  BY <1>1, <1>2, <1>3, <1>4, <2>1, <2>2, ReadWord
<1>6. Opens(out')[Len(out') + 1] = Opened(Opens(out)[Len(out) + 1], k)
    BY StackNext
<1>7. \A p \in 1..(d - 1) : Good(out', p)
    <2>. TAKE p \in 1..(d - 1)
    <2>1. p \in 1..(cur - 1) \/ p \in cur..(cur + n - 1)
        BY <1>1, <1>2, <1>4
    <2>. QED  BY <2>1, PassedStays, PassedWord
<1>8. \A p \in 1..(d - 1) : Good(out, p)'
    BY <1>3, <1>7, GoodSame, Zenon
<1>9. Reading'
    BY <1>4, <1>5, <1>6, <1>8, Zenon DEF Reading
<1>10. Last(out').kind = k
    <2>1. Grown(out, l, out')
        BY <1>1, <1>3, Appended
    <2>. QED  BY <1>3, <2>1, Zenon DEF Grown
<1>. QED  BY <1>9, <1>10

(* The end: what has been passed is everything.                              *)
LEMMA AfterEnd ==
    ASSUME Typed, Reading, NEW n, Emits("eof", n), ~Inserts, At(cur) = "end"
    PROVE  Last(out').kind = "eof" /\ \A p \in 1..cur' : Good(out, p)'
<1>1. out \in Seq(Lexeme) /\ cur \in Nat /\ Len(out) \in Nat /\ DOMAIN out = 1..Len(out)
    BY ReadingFacts
<1>2. n = 0
    BY Zenon DEF Emits
<1>3. PICK l \in Lexeme :
          /\ l.kind = "eof" /\ l.start = cur /\ l.size = n
          /\ out' = Append(out, l) /\ text' = text /\ cur' = cur + n
    BY EmitsFacts
<1>4. cur' = cur
    BY <1>1, <1>2, <1>3
<1>5. Good(out', cur)
    <2>1. "eof" # "fake"
        OBVIOUS
    <2>2. FakesOf(out', cur) = FakesOf(out, cur)
        BY <1>1, <1>3, <2>1, FakesSame
    <2>3. StackAt(out', cur) = StackAt(out, cur)
        <3>1. cur <= l.start
            BY <1>1, <1>3
        <3>. QED  BY <1>1, <1>3, <3>1, StackStays
    <2>. QED  BY <2>2, <2>3, DueHere, Zenon DEF Good, Spot
<1>6. \A p \in 1..cur : Good(out', p)
    <2>. TAKE p \in 1..cur
    <2>1. p = cur \/ p \in 1..(cur - 1)
        BY <1>1
    <2>. QED  BY <1>5, <2>1, PassedStays
<1>7. Last(out').kind = "eof"
    <2>1. Grown(out, l, out')
        BY <1>1, <1>3, Appended
    <2>. QED  BY <1>3, <2>1, Zenon DEF Grown
<1>. QED  BY <1>3, <1>4, <1>6, <1>7, GoodSame, Zenon

(* A semicolon that is put in.                                               *)
LEMMA AfterFake ==
    ASSUME Typed, Reading, FakeSemicolon
    PROVE  Reading' /\ Last(out').kind = "fake"
<1>1. out \in Seq(Lexeme) /\ cur \in Nat /\ Len(out) \in Nat /\ DOMAIN out = 1..Len(out) /\ flag \in BOOLEAN
    BY ReadingFacts
<1>2. Emits("fake", 0) /\ flag' = TRUE /\ ~flag /\ levels' = levels /\ blocky' = blocky
    <2>1. TypeOK
        BY DEF Typed
    <2>2. Emits("fake", 0)
        BY <2>1, FakeEmits
    <2>. QED  BY <2>2, Zenon DEF FakeSemicolon, Inserts
<1>3. PICK l \in Lexeme :
          /\ l.kind = "fake" /\ l.start = cur /\ l.size = 0
          /\ out' = Append(out, l) /\ text' = text /\ cur' = cur + 0
    BY <1>2, EmitsFacts
<1>4. cur' = cur
    BY <1>1, <1>3
<1>5. Grown(out, l, out')
    BY <1>1, <1>3, Appended
<1>6. /\ DOMAIN out' = 1..(Len(out) + 1) /\ out' # <<>> /\ Last(out') = l /\ Len(out') = Len(out) + 1
      /\ \A i \in 1..Len(out) : out'[i] = out[i]
      /\ out'[Len(out) + 1] = l
      /\ \A i \in 1..(Len(out) + 1) : i \in 1..Len(out) \/ i = Len(out) + 1
    BY <1>5, Zenon DEF Grown
<1>7. Read(out, cur, flag)
    BY Zenon DEF Reading
<1>8. Read(out', cur, TRUE)
    <2>1. cur + 0 <= cur
        BY <1>1
    <2>. QED  BY <1>1, <1>2, <1>3, <1>6, <1>7, <2>1, Zenon DEF Read
<1>9. Matched(Opens(out')[Len(out') + 1], levels', blocky')
    <2>1. Opens(out')[Len(out') + 1] = Opened(Opens(out)[Len(out) + 1], "fake")
        BY <1>2, StackNext
    <2>2. Opened(Opens(out)[Len(out) + 1], "fake") = Opens(out)[Len(out) + 1]
        BY OpenedIs, Zenon
    <2>. QED  BY <1>2, <2>1, <2>2, Zenon DEF Reading
<1>10. \A p \in 1..(cur - 1) : Good(out', p)
    BY <1>2, PassedStays
<1>11. \A p \in 1..(cur - 1) : Good(out, p)'
    BY <1>3, <1>10, GoodSame, Zenon
<1>12. Reading'
    BY <1>2, <1>4, <1>6, <1>8, <1>9, <1>11, Zenon DEF Reading
<1>. QED  BY <1>3, <1>6, <1>12

(* A line break that is passed over, a blank or a comment.                   *)
LEMMA AfterSkip ==
    ASSUME Typed, Reading, Skips, SameLevels, flag' = FALSE,
           \/ text[cur] = "\n" /\ ~Inserts
           \/ text[cur] # "\n" /\ flag = FALSE
    PROVE  Reading'
<1>1. cur \in Nat /\ 1 <= cur /\ End \in Nat
    BY ReadingFacts
<1>2. PICK d \in Nat : d = cur' /\ cur < d /\ d <= End
    BY <1>1 DEF Skips
<1>3. d \in Nat /\ cur < d /\ d <= End
    BY <1>2, Zenon
<1>4. cur \in cur..(d - 1)
    BY <1>1, <1>3
<1>5. out' = out /\ text' = text /\ levels' = levels /\ blocky' = blocky
    BY Zenon DEF Skips, SameLevels
<1>6. \A p \in cur..(d - 1) : p \in Nat /\ p >= cur /\ At(p) = text[p] /\ At(p) # "end"
    <2>. TAKE p \in cur..(d - 1)
    <2>0. TypeOK
        BY DEF Typed
    <2>1. p \in 1..Len(text)
        <3>1. End = Len(text) + 1 /\ Len(text) \in Nat
            BY <2>0, TextFacts
        <3>. QED  BY <1>1, <1>3, <3>1
    <2>2. text[p] \in Char /\ At(p) = text[p]
        BY <2>0, <2>1, TextFacts
    <2>3. At(p) # "end"
        BY <2>2, CharFacts
    <2>. QED  BY <1>1, <2>2, <2>3
<1>7. \A p \in cur..(d - 1) : ~Covered(out, p) /\ ~ClosedAt(out, p)
    BY <1>6, NothingAhead
<1>8. \A p \in cur..(d - 1) : Good(out, p)
    <2>1. CASE text[cur] = "\n" /\ ~Inserts
        <3>1. d = cur + 1
            <4>1. cur' = cur + 1
                BY <1>2, <1>4, <2>1, Zenon DEF Skips
            <4>. QED  BY <1>2, <4>1, Zenon
        <3>2. Good(out, cur)
            <4>1. Spot(out, cur)
                BY <1>4, <1>6, <1>7, <2>1, Zenon DEF Spot
            <4>. QED  BY <2>1, <4>1, DueHere, Zenon DEF Good
        <3>3. \A p \in cur..(d - 1) : p = cur
            BY <1>1, <3>1
        <3>. QED  BY <3>2, <3>3, Zenon
    <2>2. CASE text[cur] # "\n" /\ flag = FALSE
        <3>1. \A p \in cur..(d - 1) : text[p] # "\n"
            <4>1. At(cur) # "\n"
                BY <1>4, <1>6, <2>2
            <4>. QED  BY <1>2, <4>1, Zenon DEF Skips
        <3>. TAKE p \in cur..(d - 1)
        <3>2. ~Spot(out, p)
            BY <1>6, <1>7, <3>1, Zenon DEF Spot
        <3>3. FakesOf(out, p) = {}
            BY <1>6, <2>2, FakesAhead
        <3>. QED  BY <3>2, <3>3, Zenon DEF Good
    <2>. QED  BY <2>1, <2>2
<1>9. \A p \in 1..(d - 1) : Good(out, p)
    <2>. TAKE p \in 1..(d - 1)
    <2>1. p \in 1..(cur - 1) \/ p \in cur..(d - 1)
        BY <1>1, <1>3
    <2>. QED  BY <1>8, <2>1, Zenon DEF Reading
<1>10. \A p \in 1..(d - 1) : Good(out, p)'
    BY <1>5, <1>9, GoodSame, Zenon
<1>11. Read(out, d, FALSE)
    <2>1. \A i \in 1..Len(out) : out[i].start <= cur
        BY StartsBehind
    <2>2. DOMAIN out = 1..Len(out) /\ \A i \in 1..Len(out) : out[i].start \in Nat /\ out[i].size \in Nat
        BY ReadingFacts
    <2>3. \A i \in 1..Len(out) : out[i].start + out[i].size <= cur
        BY <2>2, Zenon DEF Reading, Read
    <2>4. \A s, z \in Nat : s <= cur /\ s + z <= cur => s + z <= d /\ s < d /\ s # d
        BY <1>1, <1>3
    <2>. QED  BY <2>1, <2>2, <2>3, <2>4, Zenon DEF Read
<1>. QED  BY <1>2, <1>5, <1>10, <1>11, Zenon DEF Reading

LEMMA ReadingFirst ==
    ASSUME out' = <<>>, cur' = 1, flag' = FALSE, levels' = <<>>, blocky' = -1
    PROVE  Reading'
<1>1. Len(<<>>) = 0 /\ DOMAIN <<>> = {} /\ 0 \in Nat
    OBVIOUS
<1>2. Read(out', 1, FALSE)
    BY <1>1, Zenon DEF Read
<1>3. Opens(<<>>)[Len(<<>>) + 1] = <<>>
    <2>1. Len(<<>>) \in Nat /\ Len(<<>>) + 1 \in 1..(Len(<<>>) + 1) /\ Len(<<>>) + 1 = 1
        BY <1>1
    <2>2. Opens(<<>>)[Len(<<>>) + 1] = OpenStep(Opens(<<>>), <<>>, Len(<<>>) + 1)
        BY <2>1, OpensIs
    <2>. QED  BY <2>1, <2>2 DEF OpenStep
<1>4. Shape(<<>>, <<>>, -1, 0, 0, 0)
    BY <1>1 DEF Shape
<1>5. Matched(Opens(out')[Len(out') + 1], levels', blocky')
    BY <1>3, <1>4, Zenon DEF Matched
<1>6. 1..(1 - 1) = {}
    OBVIOUS
<1>. QED  BY <1>2, <1>5, <1>6, Zenon DEF Reading

LEMMA SemicolonKept ==
    ASSUME LexerAssumption, SemicolonInv, [Next]_vars
    PROVE  SemicolonInv'
<1>1. Typed /\ Typed' /\ TypeOK /\ Fresh
    <2>1. Typed
        BY Zenon DEF SemicolonInv
    <2>. QED  BY <2>1, TypedKept DEF Typed
<1>2. CASE UNCHANGED vars
    <2>1. /\ text' = text /\ out' = out /\ cur' = cur /\ lineStart' = lineStart
          /\ levels' = levels /\ blocky' = blocky /\ flag' = flag
        BY <1>2, Zenon DEF vars, layout
    <2>2. \A p : Good(out, p)' <=> Good(out, p)
        BY <2>1, GoodSame, Zenon
    <2>3. (Reading' <=> Reading) /\ (Started' <=> Started) /\ (Finished' <=> Finished)
        BY <2>1, <2>2, Zenon DEF Reading, Started, Finished
    <2>. QED  BY <1>1, <2>1, <2>2, <2>3, Zenon DEF SemicolonInv
<1>3. CASE Next /\ ~Started
    <2>1. Prepares
        <3>1. ~Skips /\ ~Fails /\ \A k, n : ~Emits(k, n)
            BY <1>3, Zenon DEF Skips, Fails, Emits
        <3>. QED  BY <1>1, <1>3, <3>1, Shapes
    <2>2. out = <<>> /\ cur = 1 /\ flag = FALSE /\ levels = <<>> /\ blocky = -1
        BY <1>1, <1>3, Zenon DEF Fresh
    <2>3. out' = <<>> /\ cur' = 1 /\ flag' = FALSE /\ levels' = <<>> /\ blocky' = -1
        BY <2>1, <2>2, Zenon DEF Prepares, layout
    <2>4. Reading'
        BY <2>3, ReadingFirst
    <2>. QED  BY <1>1, <2>3, <2>4, Zenon DEF SemicolonInv
<1>4. CASE Next /\ Started
    <2>1. Reading
        <3>1. ~Finished
            <4>1. ~Prepares
                BY <1>4, Zenon DEF Prepares
            <4>. QED  BY <1>1, <1>4, <4>1, Shapes DEF Skips, Fails, Emits
        <3>. QED  BY <1>4, <3>1, Zenon DEF SemicolonInv
    <2>2. PICK S : S = Opens(out)[Len(out) + 1]
        OBVIOUS
    <2>3. Matched(S, levels, blocky)
        BY <2>1, <2>2, Zenon DEF Reading
    <2>4. ASSUME NEW k, NEW n, Emits(k, n), k \notin {"fake", "eof"},
                 k # ClosingBrace => flag = FALSE, k = ClosingBrace => ~Inserts, flag' = FALSE,
                 Matched(Opened(S, k), levels', blocky')
          PROVE  SemicolonInv'
        <3>1. Reading' /\ Last(out').kind = k
            BY <1>1, <2>1, <2>2, <2>4, AfterWord
        <3>. QED  BY <1>1, <2>4, <3>1, Zenon DEF SemicolonInv
    <2>5. CASE SameLevels /\ flag' = FALSE /\ Skips /\ text[cur] = "\n" /\ ~Inserts
        <3>1. Reading'
            BY <1>1, <2>1, <2>5, AfterSkip
        <3>2. out' = out /\ ~Finished
            BY <2>5, Zenon DEF Skips
        <3>. QED  BY <1>1, <3>1, <3>2, Zenon DEF SemicolonInv, Finished
    <2>6. CASE SameLevels /\ flag' = FALSE /\ Skips /\ text[cur] # "\n" /\ flag = FALSE
        <3>1. Reading'
            BY <1>1, <2>1, <2>6, AfterSkip
        <3>2. out' = out /\ ~Finished
            BY <2>6, Zenon DEF Skips
        <3>. QED  BY <1>1, <3>1, <3>2, Zenon DEF SemicolonInv, Finished
    <2>7. CASE SameLevels /\ flag' = FALSE /\ flag = FALSE
               /\ \E k, n : Emits(k, n) /\ k \in {"number", "string", "op", "error", "ident", "nil"}
        <3>1. PICK k, n : Emits(k, n) /\ k \in {"number", "string", "op", "error", "ident", "nil"}
            BY <2>7, Zenon
        <3>2. k \in Plain /\ k \notin {"fake", "eof"} /\ k # ClosingBrace
            BY <3>1, Zenon DEF Plain, ClosingBrace
        <3>3. Matched(Opened(S, k), levels', blocky')
            BY <2>3, <2>7, <3>2, MatchedStays
        <3>. QED  BY <2>4, <2>7, <3>1, <3>2, <3>3, Zenon
    <2>8. CASE SameLevels /\ flag' = FALSE /\ ~Inserts /\ At(cur) = "end" /\ \E n : Emits("eof", n)
        <3>1. PICK n : Emits("eof", n)
            BY <2>8, Zenon
        <3>2. Last(out').kind = "eof" /\ \A p \in 1..cur' : Good(out, p)'
            BY <1>1, <2>1, <2>8, <3>1, AfterEnd
        <3>3. out' # <<>>
            <4>1. out \in Seq(Lexeme)
                BY <1>1, ReadingFacts
            <4>2. PICK l \in Lexeme : out' = Append(out, l)
                BY <1>1, <3>1, EmitsFacts
            <4>. QED  BY <4>1, <4>2, Appended DEF Grown
        <3>4. Finished'
            BY <3>2, <3>3, Zenon DEF Finished
        <3>. QED  BY <1>1, <3>2, <3>4, Zenon DEF SemicolonInv
    <2>9. CASE Fails
        <3>1. PICK l \in Lexeme : l.kind = "error" /\ out' = Append(out, l)
            BY <1>1, <2>9, FailsFacts
        <3>2. out \in Seq(Lexeme)
            BY <1>1, ReadingFacts
        <3>3. Grown(out, l, out')
            BY <3>1, <3>2, Appended
        <3>4. out' # <<>> /\ Last(out').kind = "error"
            BY <3>1, <3>3, Zenon DEF Grown
        <3>5. Finished' /\ Last(out').kind # "eof"
            BY <3>4, Zenon DEF Finished
        <3>. QED  BY <1>1, <3>5, Zenon DEF SemicolonInv
    <2>10. CASE FakeSemicolon
        <3>1. Reading' /\ Last(out').kind = "fake"
            BY <1>1, <2>1, <2>10, AfterFake
        <3>. QED  BY <1>1, <3>1, Zenon DEF SemicolonInv
    <2>11. CASE levels' = levels /\ exprContext' = exprContext /\ SetBlocky /\ flag' = FALSE /\ flag = FALSE
                /\ \E n : Emits("if", n)
        <3>1. Matched(Opened(S, "if"), levels', blocky')
            BY <2>3, <2>11, MatchedIf
        <3>2. "if" \notin {"fake", "eof"} /\ "if" # ClosingBrace
            BY Zenon DEF ClosingBrace
        <3>. QED  BY <2>4, <2>11, <3>1, <3>2, Zenon
    <2>12. CASE Push("expr") /\ blocky' = blocky /\ flag' = FALSE /\ flag = FALSE
                /\ \E k, n : Emits(k, n) /\ k \in {"(", "["}
        <3>1. PICK k, n : Emits(k, n) /\ k \in {"(", "["}
            BY <2>12, Zenon
        <3>2. Matched(Opened(S, k), levels', blocky')
            BY <2>3, <2>12, <3>1, MatchedOpen
        <3>3. k \notin {"fake", "eof"} /\ k # ClosingBrace
            BY <3>1, Zenon DEF ClosingBrace
        <3>. QED  BY <2>4, <2>12, <3>1, <3>2, <3>3, Zenon
    <2>13. CASE PushBlocky /\ flag' = FALSE /\ flag = FALSE /\ \E n : Emits(OpeningBrace, n)
        <3>1. Matched(Opened(S, OpeningBrace), levels', blocky')
            BY <2>3, <2>13, MatchedBrace
        <3>2. OpeningBrace \notin {"fake", "eof"} /\ OpeningBrace # ClosingBrace
            BY Zenon DEF OpeningBrace, ClosingBrace
        <3>. QED  BY <2>4, <2>13, <3>1, <3>2, Zenon
    <2>14. CASE Pop /\ flag' = FALSE /\ flag = FALSE /\ \E k, n : Emits(k, n) /\ k \in {")", "]"}
        <3>1. PICK k, n : Emits(k, n) /\ k \in {")", "]"}
            BY <2>14, Zenon
        <3>2. k \in {")", "]", ClosingBrace} /\ k \notin {"fake", "eof"} /\ k # ClosingBrace
            BY <3>1, Zenon DEF ClosingBrace
        <3>3. Matched(Opened(S, k), levels', blocky')
            BY <2>3, <2>14, <3>2, MatchedClose
        <3>. QED  BY <2>4, <2>14, <3>1, <3>2, <3>3, Zenon
    <2>15. CASE Pop /\ flag' = FALSE /\ ~Inserts /\ \E n : Emits(ClosingBrace, n)
        <3>1. Matched(Opened(S, ClosingBrace), levels', blocky')
            BY <2>3, <2>15, MatchedClose
        <3>2. ClosingBrace \notin {"fake", "eof"}
            BY Zenon DEF ClosingBrace
        <3>. QED  BY <2>4, <2>15, <3>1, <3>2, Zenon
    <2>16. Moves
        BY <1>1, <1>4, MovesAll
    <2>. QED  BY <1>4, <2>5, <2>6, <2>7, <2>8, <2>9, <2>10, <2>11, <2>12, <2>13, <2>14, <2>15, <2>16, Zenon DEF Moves
<1>. QED  BY <1>2, <1>3, <1>4, Zenon

(* A semicolon is put in before every line break, `}` and end of the source
   that is outside of an expression, told from the brackets that are open and
   not from the levels of the lexer, and nowhere else, whatever the text
   (insert_semicolon, push_blocky_level, pop_level and lexer_next against
   README.md:602-607).                                                      *)
THEOREM LexerSemicolons == Spec => []SemicolonsAsDocumented
<1>1. Init => SemicolonInv
    <2>. SUFFICES ASSUME Init PROVE SemicolonInv
        OBVIOUS
    <2>1. Typed
        BY TypedAtFirst
    <2>2. out = <<>> /\ ~Started
        BY DEF Init, Started
    <2>. QED  BY <2>1, <2>2, Zenon DEF SemicolonInv
<1>2. SemicolonInv /\ [Next]_vars => SemicolonInv'
    BY LexerAssumption, SemicolonKept
<1>3. SemicolonInv => SemicolonsAsDocumented
    <2>. SUFFICES ASSUME SemicolonInv PROVE SemicolonsAsDocumented
        OBVIOUS
    <2>1. Typed /\ Fresh /\ cur \in Nat
        <3>1. Typed
            BY Zenon DEF SemicolonInv
        <3>. QED  BY <3>1, ReadingFacts DEF Typed
    <2>2. ASSUME NEW p \in 1..cur, Passed(p) PROVE Good(out, p)
        <3>1. CASE Finished
            BY <2>2, <3>1, Zenon DEF Passed, Finished, SemicolonInv
        <3>2. CASE ~Finished
            <4>1. p < cur
                BY <2>2, <3>2, Zenon DEF Passed
            <4>2. p \in 1..(cur - 1)
                BY <2>1, <4>1
            <4>3. Started
                <5>1. cur # 1
                    BY <2>1, <4>1
                <5>. QED  BY <2>1, <5>1, Zenon DEF Fresh
            <4>. QED  BY <3>2, <4>2, <4>3, Zenon DEF SemicolonInv, Reading
        <3>. QED  BY <3>1, <3>2
    <2>. QED  BY <2>2, GoodIs
<1>. QED  BY <1>1, <1>2, <1>3, PTL DEF Spec
=============================================================================
