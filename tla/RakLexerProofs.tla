---------------------------- MODULE RakLexerProofs ----------------------------
(***************************************************************************)
(* Proofs about RakLexer: its types, the place of every token, that tokens *)
(* and silent text make up the source, that every token is the longest at  *)
(* its place and every fault where none can be, and that reading a string  *)
(* constant stays within its token.                                        *)
(***************************************************************************)
EXTENDS RakLexer, FiniteSetTheorems, SequenceTheorems, WellFoundedInduction, TLAPS

-----------------------------------------------------------------------------
(***************************************************************************)
(* Numbers.                                                                *)
(***************************************************************************)
\* The least element of a set of numbers.
LEMMA MinFacts ==
  ASSUME NEW S, S \subseteq Nat, S # {}
  PROVE  Min(S) \in S /\ \A y \in S : Min(S) <= y
<1> DEFINE R == {ss \in Nat \X Nat : ss[1] < ss[2]}
<1>1. IsWellFoundedOn(R, Nat) BY NatLessThanWellFounded DEF OpToRel
<1>2. \E x \in S : \A y \in S : ~ (<<y, x>> \in R)
  <2> HIDE DEF R
  <2> QED BY <1>1, WFMin
<1>3. PICK x \in S : \A y \in S : ~ (<<y, x>> \in R) BY <1>2
<1>4. ASSUME NEW y \in S PROVE x <= y
  <2>1. <<y, x>> \in Nat \X Nat BY <1>3
  <2>2. ~ (y < x) BY <1>3, <2>1
  <2> QED BY <1>3, <2>2
<1> QED BY <1>3, <1>4 DEF Min

\* The greatest element of a bounded set of numbers.
LEMMA MaxFacts ==
  ASSUME NEW n \in Nat, NEW S, S \subseteq 0..n, S # {}
  PROVE  Max(S) \in S /\ \A y \in S : Max(S) >= y
<1> DEFINE T == {n - x : x \in S}
<1>0. \A x \in S : x \in 0..n /\ n - x \in Nat OBVIOUS
<1>1. T \subseteq Nat /\ T # {} BY <1>0
<1>2. Min(T) \in T /\ \A y \in T : Min(T) <= y
  <2> HIDE DEF T
  <2> QED BY <1>1, MinFacts
<1>3. PICK x \in S : Min(T) = n - x BY <1>2
<1>4. ASSUME NEW y \in S PROVE x >= y
  <2>1. n - y \in T OBVIOUS
  <2>2. n - x <= n - y BY <1>2, <1>3, <2>1
  <2> QED BY <1>3, <2>2
<1> QED BY <1>3, <1>4 DEF Max

\* A set with 0 and the successor of each of its elements has every number.
LEMMA Induction ==
  ASSUME NEW S, 0 \in S, \A n \in Nat : n \in S => n + 1 \in S
  PROVE  Nat \subseteq S
<1> SUFFICES ASSUME Nat \ S # {} PROVE FALSE OBVIOUS
<1> DEFINE m == Min(Nat \ S)
<1>1. m \in Nat \ S /\ \A y \in Nat \ S : m <= y BY MinFacts
<1> HIDE DEF m
<1>2. m # 0 BY <1>1
<1>3. m - 1 \in Nat /\ m - 1 \in S BY <1>1, <1>2
<1>4. (m - 1) + 1 \in S BY <1>3
<1> QED BY <1>1, <1>4

-----------------------------------------------------------------------------
(***************************************************************************)
(* Characters.                                                             *)
(***************************************************************************)
End == Len(source) + 1

LEMMA EndFacts ==
  ASSUME source \in Sources
  PROVE  /\ source \in Seq(Char) /\ Len(source) \in Nat /\ End \in Nat /\ End >= 1
         /\ \A i \in 1..Len(source) : CharAt(i) = source[i] /\ CharAt(i) \in Char
         /\ \A i : CharAt(i) \in Char \/ CharAt(i) = NUL
         /\ \A i : i \notin 1..Len(source) => CharAt(i) = NUL
         /\ \A i : CharAt(i) # NUL => i \in 1..Len(source)
         /\ \A i \in 1..Len(source) : CharAt(i) # NUL
<1>1. source \in Seq(Char) BY SourcesAssumption
<1>2. Len(source) \in Nat /\ \A i \in 1..Len(source) : source[i] \in Char
  BY <1>1
<1>3. \A i \in 1..Len(source) : CharAt(i) = source[i] BY DEF CharAt
<1>4. \A i : i \notin 1..Len(source) => CharAt(i) = NUL BY DEF CharAt
<1>5. NUL \notin Char BY AsciiAssumption
<1> QED BY <1>1, <1>2, <1>3, <1>4, <1>5 DEF End

\* What the classes of characters are made of.
LEMMA ClassFacts ==
  /\ Space \subseteq Char /\ Digit \subseteq Char /\ WordStart \subseteq Char /\ Hex \subseteq Char
  /\ NUL \notin Space \cup Digit \cup WordStart \cup WordPart
  /\ "\n" \notin Digit \cup WordStart \cup WordPart
  /\ "\n" \in Char => "\n" \in Space
  /\ Quote \notin Space \cup Digit \cup WordStart
  /\ Digit \subseteq WordPart /\ WordStart \subseteq WordPart /\ Digit \cap WordStart = {}
<1>1. /\ Ascii \in [Char -> 1..127] /\ NUL \notin Char
      /\ \A c \in Char : c = "\n" <=> Ascii[c] = 10
      /\ \A c \in Char : c = Quote <=> Ascii[c] = 34
  BY AsciiAssumption
<1>0. /\ \A c : c \in Space <=> c \in Char /\ (Ascii[c] \in 9..13 \/ Ascii[c] = 32)
      /\ \A c : c \in Digit <=> c \in Char /\ Ascii[c] \in 48..57
      /\ \A c : c \in WordStart <=> c \in Char /\ (\/ Ascii[c] \in 65..90 \/ Ascii[c] \in 97..122
                                                  \/ Ascii[c] = 95)
  BY DEF Space, Digit, Letter, WordStart, InAscii
<1>2. /\ Space \subseteq Char /\ Digit \subseteq Char /\ WordStart \subseteq Char /\ Hex \subseteq Char
  BY <1>0 DEF Hex, InAscii
<1>3. "\n" \notin Digit \cup WordStart /\ ("\n" \in Char => "\n" \in Space)
  BY <1>0, <1>1
<1>4. Quote \notin Space \cup Digit \cup WordStart
  BY <1>0, <1>1
<1>5. Digit \cap WordStart = {}
  <2>1. \A c \in Char : Ascii[c] \in Int BY <1>1
  <2> QED BY <1>0, <2>1
<1> QED BY <1>1, <1>2, <1>3, <1>4, <1>5 DEF WordPart

\* A run ends at a character outside the set, and not before.
LEMMA RunEndFacts ==
  ASSUME source \in Sources, NEW i \in 1..End, NEW S, NUL \notin S
  PROVE  /\ RunEnd(S, i) \in i..End
         /\ CharAt(RunEnd(S, i)) \notin S
         /\ \A j \in i..(RunEnd(S, i) - 1) : CharAt(j) \in S
<1> DEFINE T == {j \in i..(Len(source) + 1) : CharAt(j) \notin S}
<1>1. End \in Nat /\ CharAt(End) = NUL /\ End = Len(source) + 1 /\ Len(source) \in Nat
  BY EndFacts DEF End
<1>2. End \in T /\ T \subseteq Nat BY <1>1
<1>3. Min(T) \in T /\ \A y \in T : Min(T) <= y BY <1>2, MinFacts
<1>4. RunEnd(S, i) = Min(T) BY DEF RunEnd
<1> HIDE DEF T
<1>5. RunEnd(S, i) \in T /\ \A y \in T : RunEnd(S, i) <= y BY <1>3, <1>4
<1> QED BY <1>1, <1>5 DEF T

LEMMA LineEndFacts ==
  ASSUME source \in Sources, NEW i \in 1..End
  PROVE  /\ LineEnd(i) \in i..End
         /\ CharAt(i) \notin {"\n", NUL} => LineEnd(i) > i
         /\ \/ CharAt(LineEnd(i)) = NUL /\ LineEnd(i) = End
               /\ \A j \in i..(LineEnd(i) - 1) : CharAt(j) \notin {"\n", NUL}
            \/ LineEnd(i) > i /\ CharAt(LineEnd(i) - 1) = "\n"
               /\ \A j \in i..(LineEnd(i) - 2) : CharAt(j) \notin {"\n", NUL}
<1> DEFINE T == {j \in i..(Len(source) + 1) : CharAt(j) \in {"\n", NUL}}
           eol == Min(T)
<1>1. End \in Nat /\ CharAt(End) = NUL /\ End = Len(source) + 1 /\ Len(source) \in Nat
  BY EndFacts DEF End
<1>2. End \in T /\ T \subseteq Nat BY <1>1
<1>3. Min(T) \in T /\ \A y \in T : Min(T) <= y BY <1>2, MinFacts
<1>4. LineEnd(i) = IF CharAt(eol) = "\n" THEN eol + 1 ELSE eol BY DEF LineEnd
<1> HIDE DEF T
<1>5. eol \in T /\ \A y \in T : eol <= y BY <1>3
<1> HIDE DEF eol
<1>6. eol \in i..End /\ CharAt(eol) \in {"\n", NUL} BY <1>1, <1>5 DEF T
<1>7. \A j \in i..(eol - 1) : CharAt(j) \notin {"\n", NUL} BY <1>1, <1>5, <1>6 DEF T
<1>8. CASE CharAt(eol) = "\n"
  <2>1. "\n" # NUL BY DEF NUL
  <2>2. eol # End BY <1>1, <1>8, <2>1
  <2>3. LineEnd(i) = eol + 1 BY <1>4, <1>8
  <2> QED BY <1>1, <1>6, <1>7, <1>8, <2>2, <2>3
<1>9. CASE CharAt(eol) # "\n"
  <2>1. CharAt(eol) = NUL /\ LineEnd(i) = eol BY <1>4, <1>6, <1>9
  <2>2. eol = End
    <3>1. eol \notin 1..Len(source) BY <2>1, EndFacts
    <3> QED BY <1>1, <1>6, <3>1
  <2> QED BY <1>1, <1>6, <1>7, <2>1, <2>2
<1> QED BY <1>8, <1>9

\* A text that stands at i lies in the source, on one line.
LEMMA LooksFacts ==
  ASSUME source \in Sources, NEW i \in 1..End,
         NEW t \in Range(Marks) \cup Keywords \cup {"//", "#!"}, LooksAt(i, t)
  PROVE  /\ Len(t) \in Nat \ {0} /\ i + Len(t) <= End
         /\ \A j \in i..(i + Len(t) - 1) : CharAt(j) \notin {"\n", NUL}
<1>1. /\ Len(t) \in Nat \ {0}
      /\ \A k \in 1..Len(t) : SubSeq(t, k, k) \notin {"\n", NUL}
  BY TextsAssumption
<1>2. \A k \in 1..Len(t) : CharAt(i + k - 1) = SubSeq(t, k, k) BY DEF LooksAt
<1>3. End \in Nat /\ End = Len(source) + 1 /\ Len(source) \in Nat BY EndFacts DEF End
<1>4. \A j \in i..(i + Len(t) - 1) : CharAt(j) \notin {"\n", NUL}
  <2> SUFFICES ASSUME NEW j \in i..(i + Len(t) - 1) PROVE CharAt(j) \notin {"\n", NUL}
    OBVIOUS
  <2>1. j - i + 1 \in 1..Len(t) /\ i + (j - i + 1) - 1 = j BY <1>1, <1>3
  <2> QED BY <1>1, <1>2, <2>1
<1>5. CharAt(i + Len(t) - 1) # NUL BY <1>1, <1>3, <1>4
<1>6. i + Len(t) - 1 \in 1..Len(source) BY <1>5, EndFacts
<1> QED BY <1>1, <1>3, <1>4, <1>6

-----------------------------------------------------------------------------
(***************************************************************************)
(* Places.                                                                 *)
(***************************************************************************)
\* A place that is the line and column of its position.
Exact(p) == p \in Place /\ p.at >= 1 /\ p.ln >= 1 /\ p.col >= 1 /\ IsAt(p.ln, p.col, p.at)

LEMMA NewlineFacts ==
  ASSUME source \in Sources, NEW i \in Nat, i >= 1
  PROVE  /\ IsFiniteSet(NewlinesBefore(i)) /\ Cardinality(NewlinesBefore(i)) \in Nat
         /\ {0} \cup NewlinesBefore(i) \subseteq 0..(i - 1)
         /\ Max({0} \cup NewlinesBefore(i)) \in 0..(i - 1)
<1>1. Len(source) \in Nat /\ 1 \in Int BY EndFacts
<1>2. IsFiniteSet(1..Len(source)) BY <1>1, FS_Interval
<1>3. NewlinesBefore(i) \subseteq 1..Len(source) BY DEF NewlinesBefore, Positions
<1>4. IsFiniteSet(NewlinesBefore(i)) BY <1>2, <1>3, FS_Subset
<1>5. Cardinality(NewlinesBefore(i)) \in Nat BY <1>4, FS_CardinalityType
<1> DEFINE S == {0} \cup NewlinesBefore(i)
<1>6. i - 1 \in Nat BY <1>1
<1>7. S \subseteq 0..(i - 1) /\ S # {} BY <1>1 DEF NewlinesBefore, Positions
<1> HIDE DEF S
<1>8. Max(S) \in S BY <1>6, <1>7, MaxFacts
<1> QED BY <1>4, <1>5, <1>7, <1>8 DEF S

LEMMA NewlineStep ==
  ASSUME source \in Sources, NEW i \in Nat, i >= 1
  PROVE  /\ CharAt(i) # "\n" => NewlinesBefore(i + 1) = NewlinesBefore(i)
         /\ CharAt(i) = "\n" =>
              /\ Cardinality(NewlinesBefore(i + 1)) = Cardinality(NewlinesBefore(i)) + 1
              /\ Max({0} \cup NewlinesBefore(i + 1)) = i
<1>1. Len(source) \in Nat BY EndFacts
<1>2. CASE CharAt(i) # "\n"
  <2>1. NewlinesBefore(i + 1) = NewlinesBefore(i)
    BY <1>1, <1>2 DEF NewlinesBefore, Positions
  <2> QED BY <1>2, <2>1
<1>3. CASE CharAt(i) = "\n"
  <2>1. i \in Positions
    <3>1. "\n" # NUL BY DEF NUL
    <3> QED BY <1>3, <3>1, EndFacts DEF Positions
  <2>2. NewlinesBefore(i + 1) = NewlinesBefore(i) \cup {i}
    BY <1>1, <1>3, <2>1 DEF NewlinesBefore, Positions
  <2>3. i \notin NewlinesBefore(i) BY DEF NewlinesBefore
  <2>4. IsFiniteSet(NewlinesBefore(i)) BY NewlineFacts
  <2>5. Cardinality(NewlinesBefore(i) \cup {i}) = Cardinality(NewlinesBefore(i)) + 1
    BY <2>3, <2>4, FS_AddElement
  <2> DEFINE S == {0} \cup NewlinesBefore(i + 1)
  <2>6. i + 1 \in Nat /\ i + 1 >= 1 OBVIOUS
  <2>7. S \subseteq 0..((i + 1) - 1) BY <2>6, NewlineFacts
  <2>8. i \in S BY <2>2
  <2>9. S \subseteq 0..i
    <3>1. (i + 1) - 1 = i OBVIOUS
    <3> QED BY <2>7, <3>1
  <2> HIDE DEF S
  <2>10. Max(S) \in S /\ \A y \in S : Max(S) >= y BY <2>8, <2>9, MaxFacts
  <2>11. Max(S) = i
    <3>1. Max(S) \in 0..i BY <2>9, <2>10
    <3>2. Max(S) >= i BY <2>8, <2>10
    <3> QED BY <3>1, <3>2
  <2> QED BY <1>3, <2>2, <2>5, <2>11 DEF S
<1> QED BY <1>2, <1>3

LEMMA NextExact ==
  ASSUME source \in Sources, NEW p, Exact(p)
  PROVE  Exact(NextChar(p)) /\ NextChar(p).at = p.at + 1
<1>1. /\ p \in Place /\ p.at \in Nat /\ p.ln \in Nat /\ p.col \in Nat
      /\ p.at >= 1 /\ p.ln >= 1 /\ p.col >= 1
  BY DEF Exact, Place
<1>2. /\ p.ln = 1 + Cardinality(NewlinesBefore(p.at))
      /\ p.col = p.at - Max({0} \cup NewlinesBefore(p.at))
  BY DEF Exact, IsAt
<1>3. /\ Cardinality(NewlinesBefore(p.at)) \in Nat
      /\ Max({0} \cup NewlinesBefore(p.at)) \in 0..(p.at - 1)
  BY <1>1, NewlineFacts
<1>4. CASE CharAt(p.at) = "\n"
  <2> DEFINE q == [at |-> p.at + 1, ln |-> p.ln + 1, col |-> 1]
  <2>1. NextChar(p) = q BY <1>4 DEF NextChar
  <2>2. q \in Place /\ q.at = p.at + 1 /\ q.ln = p.ln + 1 /\ q.col = 1 BY <1>1 DEF Place
  <2>3. /\ Cardinality(NewlinesBefore(p.at + 1)) = Cardinality(NewlinesBefore(p.at)) + 1
        /\ Max({0} \cup NewlinesBefore(p.at + 1)) = p.at
    BY <1>1, <1>4, NewlineStep
  <2> HIDE DEF q
  <2>4. IsAt(q.ln, q.col, q.at)
    <3>1. q.ln = 1 + Cardinality(NewlinesBefore(p.at + 1)) BY <1>1, <1>2, <1>3, <2>2, <2>3
    <3>2. q.col = (p.at + 1) - Max({0} \cup NewlinesBefore(p.at + 1)) BY <1>1, <2>2, <2>3
    <3> QED BY <2>2, <3>1, <3>2 DEF IsAt
  <2> QED BY <1>1, <2>1, <2>2, <2>4 DEF Exact
<1>5. CASE CharAt(p.at) # "\n"
  <2> DEFINE q == [at |-> p.at + 1, ln |-> p.ln, col |-> p.col + 1]
  <2>1. NextChar(p) = q BY <1>5 DEF NextChar
  <2>2. q \in Place /\ q.at = p.at + 1 /\ q.ln = p.ln /\ q.col = p.col + 1 BY <1>1 DEF Place
  <2>3. NewlinesBefore(p.at + 1) = NewlinesBefore(p.at)
    BY <1>1, <1>5, NewlineStep
  <2> HIDE DEF q
  <2>4. IsAt(q.ln, q.col, q.at)
    <3>1. q.ln = 1 + Cardinality(NewlinesBefore(p.at + 1)) BY <1>2, <2>2, <2>3
    <3>2. q.col = (p.at + 1) - Max({0} \cup NewlinesBefore(p.at + 1))
      <4>1. p.col + 1 = (p.at + 1) - Max({0} \cup NewlinesBefore(p.at)) BY <1>1, <1>2, <1>3
      <4> QED BY <2>2, <2>3, <4>1
    <3> QED BY <2>2, <3>1, <3>2 DEF IsAt
  <2> QED BY <1>1, <2>1, <2>2, <2>4 DEF Exact
<1> QED BY <1>4, <1>5

\* On one line the column moves with the position.
LEMMA SameLine ==
  ASSUME source \in Sources, NEW p, Exact(p), NEW j \in Nat, j >= p.at,
         \A k \in p.at..(j - 1) : CharAt(k) # "\n"
  PROVE  Exact([at |-> j, ln |-> p.ln, col |-> p.col + (j - p.at)])
<1>1. /\ p \in Place /\ p.at \in Nat /\ p.ln \in Nat /\ p.col \in Nat
      /\ p.at >= 1 /\ p.ln >= 1 /\ p.col >= 1
  BY DEF Exact, Place
<1>2. /\ p.ln = 1 + Cardinality(NewlinesBefore(p.at))
      /\ p.col = p.at - Max({0} \cup NewlinesBefore(p.at))
  BY DEF Exact, IsAt
<1>3. Max({0} \cup NewlinesBefore(p.at)) \in 0..(p.at - 1)
  BY <1>1, NewlineFacts
<1>4. Len(source) \in Nat BY EndFacts
<1>5. NewlinesBefore(j) = NewlinesBefore(p.at)
  BY <1>1, <1>4 DEF NewlinesBefore, Positions
<1> DEFINE q == [at |-> j, ln |-> p.ln, col |-> p.col + (j - p.at)]
<1>6. q \in Place /\ q.at = j /\ q.ln = p.ln /\ q.col = p.col + (j - p.at) BY <1>1 DEF Place
<1> HIDE DEF q
<1>7. IsAt(q.ln, q.col, q.at)
  <2>1. q.ln = 1 + Cardinality(NewlinesBefore(j)) BY <1>2, <1>5, <1>6
  <2>2. q.col = j - Max({0} \cup NewlinesBefore(j)) BY <1>1, <1>2, <1>3, <1>5, <1>6
  <2> QED BY <1>6, <2>1, <2>2 DEF IsAt
<1>8. q.at >= 1 /\ q.ln >= 1 /\ q.col >= 1 BY <1>1, <1>6
<1>9. Exact(q) BY <1>6, <1>7, <1>8 DEF Exact
<1> QED BY <1>9 DEF q

\* The places next_char comes to in n calls.
Walk(f, p, n) == f = [k \in 0..n |-> IF k = 0 THEN p ELSE NextChar(f[k - 1])]

LEMMA WalkExists == ASSUME NEW p, NEW n \in Nat PROVE \E f : Walk(f, p, n)
<1> DEFINE S == {m \in Nat : \E f : Walk(f, p, m)}
<1>1. 0 \in S
  <2> DEFINE f == [k \in 0..0 |-> p]
  <2>1. f = [k \in 0..0 |-> IF k = 0 THEN p ELSE NextChar(f[k - 1])] OBVIOUS
  <2>2. Walk(f, p, 0) BY <2>1 DEF Walk
  <2> QED BY <2>2
<1>2. ASSUME NEW m \in Nat, m \in S PROVE m + 1 \in S
  <2>1. PICK g : Walk(g, p, m) BY <1>2
  <2>2. g = [k \in 0..m |-> IF k = 0 THEN p ELSE NextChar(g[k - 1])] BY <2>1 DEF Walk
  <2> DEFINE f == [k \in 0..(m + 1) |-> IF k = m + 1 THEN NextChar(g[m]) ELSE g[k]]
  <2>3. \A k \in 0..(m + 1) : f[k] = IF k = 0 THEN p ELSE NextChar(f[k - 1])
    <3> SUFFICES ASSUME NEW k \in 0..(m + 1)
                 PROVE  f[k] = IF k = 0 THEN p ELSE NextChar(f[k - 1])
      OBVIOUS
    <3>1. CASE k = 0
      <4>1. k \in 0..m /\ k # m + 1 BY <3>1
      <4>2. f[k] = g[k] BY <4>1
      <4>3. g[k] = p BY <2>2, <3>1, <4>1
      <4> QED BY <3>1, <4>2, <4>3
    <3>2. CASE k = m + 1
      <4>1. k # 0 /\ k - 1 = m /\ m \in 0..(m + 1) /\ m # m + 1 BY <3>2
      <4>2. f[m] = g[m] BY <4>1
      <4>3. f[k] = NextChar(g[m]) BY <3>2
      <4> QED BY <4>1, <4>2, <4>3
    <3>3. CASE k # 0 /\ k # m + 1
      <4>1. k \in 0..m /\ k - 1 \in 0..(m + 1) /\ k - 1 # m + 1 BY <3>3
      <4>2. f[k] = g[k] /\ f[k - 1] = g[k - 1] BY <3>3, <4>1
      <4>3. g[k] = NextChar(g[k - 1]) BY <2>2, <3>3, <4>1
      <4> QED BY <3>3, <4>2, <4>3
    <3> QED BY <3>1, <3>2, <3>3
  <2>4. f = [k \in 0..(m + 1) |-> f[k]] OBVIOUS
  <2> HIDE DEF f
  <2>5. f = [k \in 0..(m + 1) |-> IF k = 0 THEN p ELSE NextChar(f[k - 1])]
    BY <2>3, <2>4
  <2>6. Walk(f, p, m + 1) BY <2>5 DEF Walk
  <2> QED BY <2>6
<1> HIDE DEF S
<1>3. Nat \subseteq S BY <1>1, <1>2, Induction
<1> QED BY <1>3 DEF S

LEMMA ReachFacts ==
  ASSUME source \in Sources, NEW p, Exact(p), NEW i \in Nat, i >= p.at
  PROVE  Exact(Reach(p, i)) /\ Reach(p, i).at = i
<1> DEFINE n == i - p.at
<1>1. p.at \in Nat /\ n \in Nat BY DEF Exact, Place
<1>2. PICK f : Walk(f, p, n) /\ Reach(p, i) = f[n]
  <2> DEFINE g == CHOOSE h : Walk(h, p, n)
  <2>1. \E h : Walk(h, p, n)
    <3> HIDE DEF n
    <3> QED BY <1>1, WalkExists
  <2>2. Walk(g, p, n) BY <2>1
  <2>3. Reach(p, i) = g[n] BY DEF Reach, Walk
  <2> QED BY <2>2, <2>3
<1> HIDE DEF n
<1>3. f = [k \in 0..n |-> IF k = 0 THEN p ELSE NextChar(f[k - 1])] BY <1>2 DEF Walk
<1> DEFINE S == {m \in Nat : m <= n => Exact(f[m]) /\ f[m].at = p.at + m}
<1>4. 0 \in S
  <2>1. 0 \in 0..n BY <1>1
  <2>2. f[0] = p BY <1>3, <2>1
  <2> QED BY <1>1, <2>2
<1>5. ASSUME NEW m \in Nat, m \in S PROVE m + 1 \in S
  <2> SUFFICES ASSUME m + 1 <= n PROVE Exact(f[m + 1]) /\ f[m + 1].at = p.at + (m + 1)
    OBVIOUS
  <2>1. m + 1 \in 0..n /\ m + 1 # 0 /\ (m + 1) - 1 = m /\ m <= n BY <1>1
  <2>2. f[m + 1] = NextChar(f[m]) BY <1>3, <2>1
  <2>3. Exact(f[m]) /\ f[m].at = p.at + m BY <1>5, <2>1
  <2>4. Exact(NextChar(f[m])) /\ NextChar(f[m]).at = f[m].at + 1 BY <2>3, NextExact
  <2> QED BY <1>1, <2>2, <2>3, <2>4
<1> HIDE DEF S
<1>6. n \in S BY <1>1, <1>4, <1>5, Induction
<1>7. Exact(f[n]) /\ f[n].at = p.at + n BY <1>1, <1>6 DEF S
<1> QED BY <1>1, <1>2, <1>7 DEF n

-----------------------------------------------------------------------------
(***************************************************************************)
(* What comes before a token.                                              *)
(***************************************************************************)
\* A function on 1..N defined from its values further on.  At the indices in D
\* it is given; at those in E something is put before the value it has later.
Climbs(f, a, N, D, E, V, G) ==
  f = [i \in a..N |-> IF i \in D THEN V[i] ELSE IF i \in E THEN V[i] \o f[G[i]] ELSE f[G[i]]]

LEMMA ClimbStep ==
  ASSUME NEW N \in Nat, NEW D, NEW E, NEW V, NEW G, NEW a \in 1..N,
         a \notin D => G[a] \in (a + 1)..N,
         NEW g, Climbs(g, a + 1, N, D, E, V, G),
         \A i \in (a + 1)..N : i \notin D => G[i] \in (i + 1)..N
  PROVE  \E f : Climbs(f, a, N, D, E, V, G)
<1> DEFINE Body(h, i) == IF i \in D THEN V[i] ELSE IF i \in E THEN V[i] \o h[G[i]] ELSE h[G[i]]
           f == [i \in a..N |-> IF i = a THEN Body(g, a) ELSE g[i]]
<1>1. \A i \in (a + 1)..N : f[i] = g[i] OBVIOUS
<1>2. \A i \in a..N : i \notin D => G[i] \in (a + 1)..N OBVIOUS
<1>3. \A i \in (a + 1)..N : g[i] = Body(g, i) BY DEF Climbs
<1>4. ASSUME NEW i \in a..N PROVE f[i] = Body(f, i)
  <2>1. i \notin D => f[G[i]] = g[G[i]] BY <1>1, <1>2
  <2>2. Body(f, i) = Body(g, i) BY <2>1
  <2>3. CASE i = a BY <2>2, <2>3
  <2>4. CASE i # a
    <3>1. i \in (a + 1)..N BY <2>4
    <3> QED BY <1>1, <1>3, <2>2, <3>1
  <2> QED BY <2>3, <2>4
<1>5. f = [i \in a..N |-> f[i]] OBVIOUS
<1> HIDE DEF f
<1>6. f = [i \in a..N |-> Body(f, i)] BY <1>4, <1>5
<1>7. Climbs(f, a, N, D, E, V, G) BY <1>6 DEF Climbs
<1> QED BY <1>7

LEMMA ClimbExists ==
  ASSUME NEW N \in Nat, NEW D, NEW E, NEW V, NEW G,
         \A i \in 1..N : i \notin D => G[i] \in (i + 1)..N
  PROVE  \E f : Climbs(f, 1, N, D, E, V, G)
<1> DEFINE S == {m \in Nat : m <= N => \E f : Climbs(f, N + 1 - m, N, D, E, V, G)}
<1>1. 0 \in S
  <2> DEFINE a == N + 1 - 0
             f == [i \in a..N |-> 0]
  <2>1. a..N = {} OBVIOUS
  <2>2. Climbs(f, a, N, D, E, V, G) BY <2>1 DEF Climbs
  <2> QED BY <2>2
<1>2. ASSUME NEW m \in Nat, m \in S PROVE m + 1 \in S
  <2> SUFFICES ASSUME m + 1 <= N PROVE \E f : Climbs(f, N + 1 - (m + 1), N, D, E, V, G)
    OBVIOUS
  <2> DEFINE a == N - m
  <2>1. a \in 1..N /\ a + 1 = N + 1 - m /\ a = N + 1 - (m + 1) OBVIOUS
  <2>2. PICK g : Climbs(g, N + 1 - m, N, D, E, V, G) BY <1>2
  <2>3. Climbs(g, a + 1, N, D, E, V, G) BY <2>1, <2>2
  <2> HIDE DEF a
  <2>4. \A i \in (a + 1)..N : i \notin D => G[i] \in (i + 1)..N BY <2>1
  <2>5. a \notin D => G[a] \in (a + 1)..N BY <2>1
  <2>6. \E f : Climbs(f, a, N, D, E, V, G) BY <2>1, <2>3, <2>4, <2>5, ClimbStep
  <2> QED BY <2>1, <2>6
<1> HIDE DEF S
<1>3. N \in S BY <1>1, <1>2, Induction
<1>4. N + 1 - N = 1 OBVIOUS
<1> QED BY <1>3, <1>4 DEF S

Comments == {m \in 1..End : LooksAt(m, "//")}

\* k, in a gap from i, is blank or on a line after a position of O.
Quiet(O, i, k) ==
  \/ CharAt(k) \in Space
  \/ \E m \in i..k : m \in O /\ \A l \in m..k : CharAt(l) \notin {"\n", NUL}

\* A gap from i lasts up to n and not longer.
Gap(O, i, n) ==
  n \in i..End /\ (\A k \in i..(n - 1) : Quiet(O, i, k)) /\ ~Quiet(O, i, n)

LEMMA CommentFacts ==
  ASSUME source \in Sources, NEW j \in Comments
  PROVE  j \in 1..End /\ CharAt(j) \notin Space /\ CharAt(j) \notin {"\n", NUL}
<1>1. j \in 1..End /\ LooksAt(j, "//") BY DEF Comments
<1>2. Len("//") \in Nat \ {0} BY TextsAssumption
<1>3. j \in Nat /\ \A k \in j..(j + Len("//") - 1) : CharAt(k) \notin {"\n", NUL}
  BY <1>1, LooksFacts, EndFacts
<1>4. CharAt(j) \notin {"\n", NUL} BY <1>2, <1>3
<1>5. CharAt(j + 1 - 1) = SubSeq("//", 1, 1) BY <1>1, <1>2 DEF LooksAt
<1>6. j + 1 - 1 = j BY <1>3
<1>7. CharAt(j) \notin Space BY <1>5, <1>6, TextsAssumption
<1> QED BY <1>1, <1>4, <1>7

LEMMA BlankStep ==
  ASSUME source \in Sources, NEW i \in 1..End, RunEnd(Space, i) \notin Comments
  PROVE  Gap(Comments, i, RunEnd(Space, i))
<1> DEFINE j == RunEnd(Space, i)
<1>0. End \in Nat BY EndFacts
<1>1. j \in i..End /\ CharAt(j) \notin Space /\ \A k \in i..(j - 1) : CharAt(k) \in Space
  BY ClassFacts, RunEndFacts
<1>2. j \notin Comments OBVIOUS
<1> HIDE DEF j
<1>3. \A k \in i..(j - 1) : Quiet(Comments, i, k) BY <1>1 DEF Quiet
<1>4. ASSUME Quiet(Comments, i, j) PROVE FALSE
  <2>1. PICK m \in i..j : m \in Comments BY <1>1, <1>4 DEF Quiet
  <2>2. m \in i..(j - 1) BY <1>0, <1>1, <1>2, <2>1
  <2>3. CharAt(m) \in Space BY <1>1, <2>2
  <2> QED BY <2>1, <2>3, CommentFacts
<1>5. Gap(Comments, i, j) BY <1>1, <1>3, <1>4 DEF Gap
<1> QED BY <1>5 DEF j

LEMMA LineStep ==
  ASSUME source \in Sources, NEW O, NEW i \in 1..End, NEW j \in i..End,
         \A k \in i..(j - 1) : CharAt(k) \in Space,
         j \in O, CharAt(j) \notin {"\n", NUL},
         NEW n, Gap(O, LineEnd(j), n)
  PROVE  Gap(O, i, n)
<1> DEFINE e == LineEnd(j)
<1>0. End \in Nat /\ Len(source) \in Nat /\ End = Len(source) + 1 BY EndFacts DEF End
<1>1. j \in 1..End BY <1>0
<1>2. /\ e \in j..End /\ e > j
      /\ \/ /\ CharAt(e) = NUL /\ e = End
            /\ \A k \in j..(e - 1) : CharAt(k) \notin {"\n", NUL}
         \/ /\ CharAt(e - 1) = "\n"
            /\ \A k \in j..(e - 2) : CharAt(k) \notin {"\n", NUL}
  BY <1>1, LineEndFacts
<1>3. Gap(O, e, n) OBVIOUS
<1> HIDE DEF e
<1>4. n \in e..End /\ (\A k \in e..(n - 1) : Quiet(O, e, k)) /\ ~Quiet(O, e, n)
  BY <1>3 DEF Gap
<1>5. ASSUME NEW k \in i..(n - 1) PROVE Quiet(O, i, k)
  <2>1. CASE k < j BY <2>1 DEF Quiet
  <2>2. CASE k >= e
    <3>1. k \in e..(n - 1) BY <1>0, <1>2, <1>4, <2>2
    <3>2. Quiet(O, e, k) BY <1>4, <3>1
    <3>3. e..k \subseteq i..k BY <1>0, <1>2
    <3> QED BY <3>2, <3>3 DEF Quiet
  <2>3. CASE j <= k /\ k < e /\ \A l \in j..k : CharAt(l) \notin {"\n", NUL}
    <3>1. j \in i..k BY <1>0, <2>3
    <3> QED BY <2>3, <3>1 DEF Quiet
  <2>4. CASE j <= k /\ k < e /\ ~(\A l \in j..k : CharAt(l) \notin {"\n", NUL})
    <3>1. \A l \in j..k : l \in j..(e - 1) BY <1>0, <1>2, <2>4
    <3>2. CharAt(e - 1) = "\n" /\ \A l \in j..(e - 2) : CharAt(l) \notin {"\n", NUL}
      BY <1>2, <2>4, <3>1
    <3>3. k = e - 1
      <4>1. CASE k <= e - 2
        <5>1. \A l \in j..k : l \in j..(e - 2) BY <1>0, <1>2, <2>4, <4>1
        <5> QED BY <2>4, <3>2, <5>1
      <4>2. CASE ~(k <= e - 2) BY <1>0, <1>2, <2>4, <4>2
      <4> QED BY <4>1, <4>2
    <3>4. CharAt(k) = "\n" BY <3>2, <3>3
    <3>5. "\n" # NUL BY DEF NUL
    <3>6. CharAt(k) \in Char BY <3>4, <3>5, EndFacts
    <3>7. CharAt(k) \in Space BY <3>4, <3>6, ClassFacts
    <3> QED BY <3>7 DEF Quiet
  <2> QED BY <1>0, <1>2, <2>1, <2>2, <2>3, <2>4
<1>6. ASSUME Quiet(O, i, n) PROVE FALSE
  <2>1. CharAt(n) \notin Space BY <1>4 DEF Quiet
  <2>2. PICK m \in i..n : m \in O /\ \A l \in m..n : CharAt(l) \notin {"\n", NUL}
    BY <1>6, <2>1 DEF Quiet
  <2>3. ~(m >= e)
    <3> SUFFICES ASSUME m >= e PROVE FALSE OBVIOUS
    <3>1. m \in e..n BY <1>0, <1>2, <1>4, <2>2
    <3> QED BY <1>4, <2>2, <3>1 DEF Quiet
  <2>4. CASE CharAt(e) = NUL /\ e = End
    <3>1. e \in m..n BY <1>0, <1>2, <1>4, <2>2, <2>3
    <3> QED BY <2>2, <2>4, <3>1
  <2>5. CASE CharAt(e - 1) = "\n"
    <3>1. e - 1 \in m..n BY <1>0, <1>2, <1>4, <2>2, <2>3
    <3> QED BY <2>2, <2>5, <3>1
  <2> QED BY <1>2, <2>4, <2>5
<1>7. n \in i..End BY <1>0, <1>2, <1>4
<1> QED BY <1>5, <1>6, <1>7 DEF Gap

\* Where skip_whitespace_comments ends.
Skips(f) ==
  f = [i \in 1..(Len(source) + 1) |->
         LET j == RunEnd(Space, i)
         IN  IF LooksAt(j, "//") THEN f[LineEnd(j)] ELSE j]

LEMMA SkipsExist == ASSUME source \in Sources PROVE \E f : Skips(f)
<1> DEFINE N == Len(source) + 1
           D == {i \in 1..N : ~LooksAt(RunEnd(Space, i), "//")}
           V == [i \in 1..N |-> RunEnd(Space, i)]
           G == [i \in 1..N |-> LineEnd(RunEnd(Space, i))]
<1>1. N \in Nat /\ N = End BY EndFacts DEF End
<1>2. ASSUME NEW i \in 1..N, i \notin D PROVE G[i] \in (i + 1)..N
  <2> DEFINE j == RunEnd(Space, i)
  <2>1. j \in i..End BY <1>1, ClassFacts, RunEndFacts
  <2>2. G[i] = LineEnd(j) OBVIOUS
  <2>3. LooksAt(j, "//") BY <1>2
  <2> HIDE DEF j, G, D, N
  <2>4. j \in Comments BY <1>1, <2>1, <2>3 DEF Comments
  <2>5. CharAt(j) \notin {"\n", NUL} /\ j \in 1..End BY <2>4, CommentFacts
  <2>6. LineEnd(j) \in j..End /\ LineEnd(j) > j BY <2>5, LineEndFacts
  <2> QED BY <1>1, <2>1, <2>2, <2>6
<1>3. \E f : Climbs(f, 1, N, D, {}, V, G)
  <2> HIDE DEF N, D, V, G
  <2> QED BY <1>1, <1>2, ClimbExists
<1>4. PICK f : Climbs(f, 1, N, D, {}, V, G) BY <1>3
<1>5. f = [i \in 1..N |-> IF i \in D THEN V[i] ELSE f[G[i]]]
  <2> HIDE DEF N, D, V, G
  <2> QED BY <1>4 DEF Climbs
<1>6. f = [i \in 1..N |-> LET j == RunEnd(Space, i)
                          IN  IF LooksAt(j, "//") THEN f[LineEnd(j)] ELSE j]
  <2>1. \A i \in 1..N : f[i] = IF LooksAt(RunEnd(Space, i), "//")
                               THEN f[LineEnd(RunEnd(Space, i))] ELSE RunEnd(Space, i)
    <3> SUFFICES ASSUME NEW i \in 1..N
                 PROVE  f[i] = IF LooksAt(RunEnd(Space, i), "//")
                               THEN f[LineEnd(RunEnd(Space, i))] ELSE RunEnd(Space, i)
      OBVIOUS
    <3>1. f[i] = IF i \in D THEN V[i] ELSE f[G[i]]
      <4> HIDE DEF D, V, G, N
      <4> QED BY <1>5
    <3>2. V[i] = RunEnd(Space, i) /\ G[i] = LineEnd(RunEnd(Space, i)) OBVIOUS
    <3>3. i \in D <=> ~LooksAt(RunEnd(Space, i), "//") OBVIOUS
    <3> HIDE DEF D, V, G, N
    <3> QED BY <3>1, <3>2, <3>3
  <2>2. f = [i \in 1..N |-> f[i]]
    <3> HIDE DEF D, V, G, N
    <3> QED BY <1>5
  <2> HIDE DEF N
  <2> QED BY <2>1, <2>2
<1> QED BY <1>6 DEF Skips

LEMMA SkipGap ==
  ASSUME source \in Sources, NEW f, Skips(f), NEW i \in 1..End
  PROVE  Gap(Comments, i, f[i])
<1>0. End \in Nat /\ End = Len(source) + 1 /\ Len(source) \in Nat BY EndFacts DEF End
<1>1. \A k \in 1..End : f[k] = IF LooksAt(RunEnd(Space, k), "//")
                               THEN f[LineEnd(RunEnd(Space, k))] ELSE RunEnd(Space, k)
  BY <1>0 DEF Skips
<1> DEFINE S == {m \in Nat : \A k \in 1..End : k >= End - m => Gap(Comments, k, f[k])}
<1>2. ASSUME NEW k \in 1..End, \A l \in 1..End : l > k => Gap(Comments, l, f[l])
      PROVE  Gap(Comments, k, f[k])
  <2> DEFINE j == RunEnd(Space, k)
  <2>1. j \in k..End /\ \A l \in k..(j - 1) : CharAt(l) \in Space
    BY ClassFacts, RunEndFacts
  <2>2. j \in 1..End BY <1>0, <2>1
  <2>3. CASE j \notin Comments
    <3>1. ~LooksAt(j, "//") BY <2>2, <2>3 DEF Comments
    <3>2. f[k] = j BY <1>1, <3>1
    <3>3. Gap(Comments, k, j) BY <2>3, BlankStep
    <3> QED BY <3>2, <3>3
  <2>4. CASE j \in Comments
    <3>1. LooksAt(j, "//") BY <2>4 DEF Comments
    <3>2. f[k] = f[LineEnd(j)] BY <1>1, <3>1
    <3> HIDE DEF j
    <3>3. CharAt(j) \notin {"\n", NUL} BY <2>4, CommentFacts
    <3>4. LineEnd(j) \in j..End /\ LineEnd(j) > j BY <2>2, <3>3, LineEndFacts
    <3>5. LineEnd(j) \in 1..End /\ LineEnd(j) > k BY <1>0, <2>1, <3>4
    <3>6. Gap(Comments, LineEnd(j), f[LineEnd(j)]) BY <1>2, <3>5
    <3>7. Gap(Comments, k, f[LineEnd(j)]) BY <2>1, <2>4, <3>3, <3>6, LineStep
    <3> QED BY <3>2, <3>7
  <2> QED BY <2>3, <2>4
<1>3. 0 \in S
  <2> SUFFICES ASSUME NEW k \in 1..End, k >= End - 0 PROVE Gap(Comments, k, f[k])
    OBVIOUS
  <2>1. \A l \in 1..End : ~(l > k) BY <1>0
  <2> QED BY <1>2, <2>1
<1>4. ASSUME NEW m \in Nat, m \in S PROVE m + 1 \in S
  <2> SUFFICES ASSUME NEW k \in 1..End, k >= End - (m + 1) PROVE Gap(Comments, k, f[k])
    OBVIOUS
  <2>1. \A l \in 1..End : l > k => l >= End - m BY <1>0
  <2>2. \A l \in 1..End : l > k => Gap(Comments, l, f[l]) BY <1>4, <2>1
  <2> QED BY <1>2, <2>2
<1>5. End \in S
  <2> HIDE DEF S
  <2> QED BY <1>0, <1>3, <1>4, Induction
<1> QED BY <1>0, <1>5

\* What is skipped before a token: a gap, counted right.
LEMMA SkipFacts ==
  ASSUME source \in Sources, NEW p, Exact(p), p.at \in 1..End
  PROVE  /\ Exact(Skip(p)) /\ Skip(p).at \in p.at..End
         /\ Gap(Comments, p.at, Skip(p).at)
<1>1. PICK f : Skips(f) /\ Skip(p) = Reach(p, f[p.at])
  <2> DEFINE g == CHOOSE h : Skips(h)
  <2>1. Skips(g) BY SkipsExist
  <2>2. Skip(p) = Reach(p, g[p.at]) BY DEF Skip, Skips
  <2> QED BY <2>1, <2>2
<1>2. Gap(Comments, p.at, f[p.at]) BY <1>1, SkipGap
<1>3. f[p.at] \in p.at..End BY <1>2 DEF Gap
<1>4. f[p.at] \in Nat /\ f[p.at] >= p.at BY <1>3, EndFacts
<1>5. Exact(Reach(p, f[p.at])) /\ Reach(p, f[p.at]).at = f[p.at] BY <1>4, ReachFacts
<1> QED BY <1>1, <1>2, <1>3, <1>5

\* The gap the definition of the language leaves is the one that is skipped.
LEMMA GapStart ==
  ASSUME source \in Sources, NEW O, NEW i \in 1..End, NEW n, Gap(O, i, n),
         \A m \in i..End : Opener(i, m) <=> m \in O
  PROVE  StartAfter(i) = n
<1> DEFINE T == {k \in i..(Len(source) + 1) : ~Silent(i, k)}
<1>0. End \in Nat /\ End = Len(source) + 1 /\ Len(source) \in Nat BY EndFacts DEF End
<1>1. \A k \in i..End : Silent(i, k) <=> Quiet(O, i, k)
  <2> SUFFICES ASSUME NEW k \in i..End PROVE Silent(i, k) <=> Quiet(O, i, k) OBVIOUS
  <2>1. \A m \in i..k : Opener(i, m) <=> m \in O BY <1>0
  <2> QED BY <2>1 DEF Silent, Quiet
<1>2. n \in i..End /\ (\A k \in i..(n - 1) : Quiet(O, i, k)) /\ ~Quiet(O, i, n)
  BY DEF Gap
<1>3. n \in T BY <1>0, <1>1, <1>2
<1>4. \A k \in T : n <= k
  <2> SUFFICES ASSUME NEW k \in T, ~(n <= k) PROVE FALSE OBVIOUS
  <2>1. k \in i..(n - 1) /\ k \in i..End BY <1>0, <1>2
  <2> QED BY <1>1, <1>2, <2>1
<1>5. T \subseteq Nat BY <1>0
<1>6. StartAfter(i) = Min(T) BY DEF StartAfter
<1> HIDE DEF T
<1>7. Min(T) \in T /\ \A k \in T : Min(T) <= k BY <1>3, <1>5, MinFacts
<1>8. Min(T) <= n /\ n <= Min(T) BY <1>3, <1>4, <1>7
<1>9. Min(T) \in Nat /\ n \in Nat BY <1>3, <1>5, <1>7
<1>10. Min(T) = n BY <1>8, <1>9
<1> QED BY <1>6, <1>10

LEMMA FirstPlace ==
  ASSUME source \in Sources, curr = 1, ln = 1, col = 1
  PROVE  Exact(Here) /\ Here.at = 1
<1>1. NewlinesBefore(1) = {}
  BY EndFacts DEF NewlinesBefore, Positions
<1>2. Cardinality(NewlinesBefore(1)) = 0 BY <1>1, FS_EmptySet
<1>3. Max({0} \cup NewlinesBefore(1)) = 0
  <2> DEFINE S == {0} \cup NewlinesBefore(1)
  <2>1. S \subseteq 0..0 /\ S # {} /\ 0 \in Nat BY <1>1
  <2> HIDE DEF S
  <2>2. Max(S) \in S BY <2>1, MaxFacts
  <2>3. Max(S) \in 0..0 BY <2>1, <2>2
  <2>4. Max(S) = 0 BY <2>3
  <2> QED BY <2>4 DEF S
<1>4. Here \in Place /\ Here.at = 1 /\ Here.ln = 1 /\ Here.col = 1 BY DEF Here, Place
<1>5. IsAt(1, 1, 1) BY <1>2, <1>3 DEF IsAt
<1> QED BY <1>4, <1>5 DEF Exact

\* The first token: a line #! is skipped like a comment.
LEMMA FirstSkip ==
  ASSUME source \in Sources, curr = 1, ln = 1, col = 1
  PROVE  LET p == Skip(SkipShebang(Here))
         IN  Exact(p) /\ p.at \in 1..End /\ p.at = StartAfter(1)
<1> DEFINE q == SkipShebang(Here)
<1>0. End \in Nat /\ End >= 1 BY EndFacts
<1>1. Exact(Here) /\ Here.at = 1 BY FirstPlace
<1>2. 1 \in 1..End BY <1>0
<1>3. CASE ~LooksAt(1, "#!")
  <2>1. q = Here BY <1>1, <1>3 DEF SkipShebang
  <2>2. /\ Exact(Skip(Here)) /\ Skip(Here).at \in 1..End
        /\ Gap(Comments, 1, Skip(Here).at)
    BY <1>1, <1>2, SkipFacts
  <2>3. \A m \in 1..End : Opener(1, m) <=> m \in Comments
    BY <1>3 DEF Opener, Comments
  <2>4. StartAfter(1) = Skip(Here).at BY <1>2, <2>2, <2>3, GapStart
  <2> QED BY <2>1, <2>2, <2>4
<1>4. CASE LooksAt(1, "#!")
  <2> DEFINE e == LineEnd(1)
  <2>1. q = Reach(Here, e) BY <1>1, <1>4 DEF SkipShebang
  <2>2. Len("#!") \in Nat \ {0} /\ \A k \in 1..(1 + Len("#!") - 1) : CharAt(k) \notin {"\n", NUL}
    BY <1>2, <1>4, LooksFacts
  <2>3. CharAt(1) \notin {"\n", NUL} BY <2>2
  <2>4. e \in 1..End /\ e > 1 BY <1>2, <2>3, LineEndFacts
  <2>5. e \in Nat /\ e >= Here.at BY <1>1, <2>4
  <2> HIDE DEF e
  <2>6. Exact(Reach(Here, e)) /\ Reach(Here, e).at = e BY <1>1, <2>5, ReachFacts
  <2> HIDE DEF q
  <2>7. Exact(q) /\ q.at \in 1..End /\ q.at = e BY <2>1, <2>4, <2>6
  <2>8. /\ Exact(Skip(q)) /\ Skip(q).at \in e..End
        /\ Gap(Comments, e, Skip(q).at)
    BY <2>7, SkipFacts
  <2> DEFINE n == Skip(q).at
             O == Comments \cup {1}
  <2>9. Gap(Comments, e, n) BY <2>8
  <2>10. n \in e..End BY <2>8
  <2> HIDE DEF n
  <2>11. Gap(O, e, n)
    <3>1. \A m : m >= e => (m \in O <=> m \in Comments) BY <2>4
    <3>2. \A k \in e..n : Quiet(O, e, k) <=> Quiet(Comments, e, k)
      <4> HIDE DEF O
      <4> SUFFICES ASSUME NEW k \in e..n
                   PROVE  Quiet(O, e, k) <=> Quiet(Comments, e, k)
        OBVIOUS
      <4>1. \A m \in e..k : m \in O <=> m \in Comments BY <2>4, <3>1
      <4> QED BY <4>1 DEF Quiet
    <3> HIDE DEF O
    <3>3. n \in e..n /\ \A k \in e..(n - 1) : k \in e..n BY <2>4, <2>10
    <3> QED BY <2>9, <3>2, <3>3 DEF Gap
  <2>12. Gap(O, LineEnd(1), n) BY <2>11 DEF e
  <2>13. 1 \in O /\ 1 \in 1..End /\ \A k \in 1..(1 - 1) : CharAt(k) \in Space BY <1>2
  <2> HIDE DEF O
  <2>14. Gap(O, 1, n) BY <1>2, <2>3, <2>12, <2>13, LineStep
  <2>15. \A m \in 1..End : Opener(1, m) <=> m \in O
    BY <1>4 DEF Opener, Comments, O
  <2>16. StartAfter(1) = n BY <1>2, <2>14, <2>15, GapStart
  <2>17. n \in 1..End BY <1>0, <2>4, <2>10
  <2> QED BY <2>8, <2>16, <2>17 DEF n, q
<1> QED BY <1>3, <1>4

\* The tokens after it.
LEMMA NextSkip ==
  ASSUME source \in Sources, Exact(Here), curr \in 2..End
  PROVE  LET p == Skip(Here)
         IN  Exact(p) /\ p.at \in curr..End /\ p.at = StartAfter(curr)
<1>0. End \in Nat BY EndFacts
<1>1. Here.at = curr /\ curr \in 1..End BY <1>0 DEF Here
<1>2. /\ Exact(Skip(Here)) /\ Skip(Here).at \in curr..End
      /\ Gap(Comments, curr, Skip(Here).at)
  BY <1>1, SkipFacts
<1>3. \A m \in curr..End : Opener(curr, m) <=> m \in Comments
  BY <1>0, <1>1 DEF Opener, Comments
<1>4. StartAfter(curr) = Skip(Here).at BY <1>1, <1>2, <1>3, GapStart
<1> QED BY <1>2, <1>4

-----------------------------------------------------------------------------
(***************************************************************************)
(* Tokens.                                                                 *)
(***************************************************************************)
Kinds == Range(Marks) \cup Keywords \cup {"number", "string", "ident", "eof"}

\* A token of the text from p on, at its place, and the position after it.
Right(t, p, end) ==
  /\ t \in [kind : Kinds, ln : Nat, col : Nat, first : 1..End, last : 0..End]
  /\ From(t) = p.at /\ To(t) = end - 1
  /\ t.kind = "eof" <=> p.at = End
  /\ p.at = End => end = End + 1
  /\ p.at # End => end \in (p.at + 1)..End
  /\ IsAt(t.ln, t.col, IF t.kind = "string" THEN To(t) ELSE t.first)
  /\ t.kind = "string" => t.last < Len(source) /\ CharAt(t.last) # "\\"

\* A match finds such a token, or the place of a fault.
Read(m, p) ==
  /\ Exact(m.after) /\ m.fault = NoFault
  /\ \E t : m.tok = <<t>> /\ Right(t, p, m.after.at)

Refused(m, p) ==
  /\ m.tok = <<>> /\ Exact(m.fault)
  /\ Exact(m.after) /\ m.after.at \in 1..End

LEMMA KindFacts ==
  /\ Range(Marks) \cup Keywords \subseteq Kinds
  /\ "number" \in Kinds /\ "string" \in Kinds /\ "ident" \in Kinds /\ "eof" \in Kinds
  /\ \A k \in Range(Marks) \cup Keywords : k # "string" /\ k # "eof"
  /\ "number" # "string" /\ "number" # "eof" /\ "ident" # "string" /\ "ident" # "eof"
  /\ "eof" # "string"
  BY TextsAssumption DEF Kinds

LEMMA QuoteFacts == Quote # NUL /\ Quote # "\n" /\ "\n" # NUL
  BY Zenon DEF Quote, NUL

LEMMA FoundFacts ==
  ASSUME source \in Sources, NEW p, Exact(p), p.at \in 1..End,
         NEW kind \in Kinds, kind # "string", NEW end \in Nat,
         kind = "eof" <=> p.at = End,
         p.at = End => end = End + 1,
         p.at # End => end \in (p.at + 1)..End
  PROVE  Read(Found(p, kind, end), p)
<1> DEFINE t == Token(p, kind, p.at, end - 1)
           m == Found(p, kind, end)
<1>0. End \in Nat BY EndFacts
<1>1. p.at \in Nat /\ p.ln \in Nat /\ p.col \in Nat /\ IsAt(p.ln, p.col, p.at)
  BY DEF Exact, Place
<1>2. /\ t.kind = kind /\ t.ln = p.ln /\ t.col = p.col
      /\ t.first = p.at /\ t.last = end - 1
  BY DEF Token
<1>3. end - 1 \in 0..End /\ end >= p.at BY <1>0, <1>1
<1>4. t \in [kind : Kinds, ln : Nat, col : Nat, first : 1..End, last : 0..End]
  BY <1>1, <1>3 DEF Token
<1>5. m.tok = <<t>> /\ m.after = Reach(p, end) /\ m.fault = NoFault BY DEF Found
<1>6. Exact(Reach(p, end)) /\ Reach(p, end).at = end BY <1>3, ReachFacts
<1> HIDE DEF t, m
<1>7. From(t) = p.at /\ To(t) = end - 1 BY <1>2 DEF From, To
<1>8. IsAt(t.ln, t.col, IF t.kind = "string" THEN To(t) ELSE t.first) BY <1>1, <1>2
<1>9. Right(t, p, end) BY <1>2, <1>4, <1>7, <1>8 DEF Right
<1>10. Read(m, p) BY <1>5, <1>6, <1>9 DEF Read
<1> QED BY <1>10 DEF m

LEMMA MatchMarkFacts ==
  ASSUME source \in Sources, NEW p, Exact(p), p.at \in 1..End, IsMark(p)
  PROVE  Read(MatchMark(p), p)
<1> DEFINE S == {k \in 1..Len(Marks) : LooksAt(p.at, Marks[k])}
<1>0. End \in Nat /\ CharAt(End) = NUL /\ p.at \in Nat BY EndFacts DEF End
<1>1. S \subseteq Nat /\ S # {} BY DEF IsMark
<1>2. FirstMark(p) = Min(S) BY DEF FirstMark
<1>3. Min(S) \in S
  <2> HIDE DEF S
  <2> QED BY <1>1, MinFacts
<1>4. FirstMark(p) \in 1..Len(Marks) /\ LooksAt(p.at, Marks[FirstMark(p)])
  BY <1>2, <1>3
<1> DEFINE mark == Marks[FirstMark(p)]
<1>5. mark \in Range(Marks)
  <2>1. DOMAIN Marks = 1..Len(Marks) BY DEF Marks
  <2> QED BY <1>4, <2>1 DEF Range
<1>6. LooksAt(p.at, mark) BY <1>4
<1>7. MatchMark(p) = Found(p, mark, p.at + Len(mark)) BY DEF MatchMark
<1> HIDE DEF mark
<1>8. Len(mark) \in Nat \ {0} /\ p.at + Len(mark) <= End BY <1>5, <1>6, LooksFacts
<1>9. mark \in Kinds /\ mark # "string" /\ mark # "eof" BY <1>5, KindFacts
<1>10. p.at # End BY <1>0, <1>8
<1>11. p.at + Len(mark) \in (p.at + 1)..End /\ p.at + Len(mark) \in Nat BY <1>0, <1>8
<1>12. Read(Found(p, mark, p.at + Len(mark)), p)
  BY <1>9, <1>10, <1>11, FoundFacts
<1> QED BY <1>7, <1>12

LEMMA MatchWordFacts ==
  ASSUME source \in Sources, NEW p, Exact(p), p.at \in 1..End,
         CharAt(p.at) \in WordStart
  PROVE  Read(MatchWord(p), p)
<1> DEFINE kws == {kw \in Keywords : KeywordAt(p, kw)}
           kw  == CHOOSE k \in kws : TRUE
<1>0. End \in Nat /\ CharAt(End) = NUL /\ p.at \in Nat BY EndFacts DEF End
<1>1. CharAt(p.at) # NUL /\ CharAt(p.at) \in WordPart BY ClassFacts
<1>2. p.at # End BY <1>0, <1>1
<1>3. MatchWord(p) = IF kws # {} THEN Found(p, kw, p.at + Len(kw))
                     ELSE Found(p, "ident", RunEnd(WordPart, p.at))
  BY DEF MatchWord
<1>4. CASE kws # {}
  <2>1. kw \in Keywords /\ LooksAt(p.at, kw) BY <1>4 DEF KeywordAt
  <2>2. MatchWord(p) = Found(p, kw, p.at + Len(kw)) BY <1>3, <1>4
  <2> HIDE DEF kw
  <2>3. Len(kw) \in Nat \ {0} /\ p.at + Len(kw) <= End BY <2>1, LooksFacts
  <2>4. kw \in Kinds /\ kw # "string" /\ kw # "eof" BY <2>1, KindFacts
  <2>5. p.at + Len(kw) \in (p.at + 1)..End /\ p.at + Len(kw) \in Nat BY <1>0, <2>3
  <2>6. Read(Found(p, kw, p.at + Len(kw)), p)
    BY <1>2, <2>4, <2>5, FoundFacts
  <2> QED BY <2>2, <2>6
<1>5. CASE kws = {}
  <2> DEFINE e == RunEnd(WordPart, p.at)
  <2>1. MatchWord(p) = Found(p, "ident", e) BY <1>3, <1>5
  <2>2. e \in p.at..End /\ CharAt(e) \notin WordPart BY ClassFacts, RunEndFacts
  <2> HIDE DEF e
  <2>3. e # p.at BY <1>1, <2>2
  <2>4. e \in (p.at + 1)..End /\ e \in Nat BY <1>0, <2>2, <2>3
  <2>5. "ident" \in Kinds /\ "ident" # "string" /\ "ident" # "eof" BY KindFacts
  <2>6. Read(Found(p, "ident", e), p) BY <1>2, <2>4, <2>5, FoundFacts
  <2> QED BY <2>1, <2>6
<1> QED BY <1>4, <1>5

\* Where the parts of a number end.  Nothing in them ends a line.
LEMMA NumberFacts ==
  ASSUME source \in Sources, NEW i \in 1..End, NEW p, p.at = i, CharAt(i) \in Digit
  PROVE  LET n == NumberParts(p)
         IN  /\ n.whole \in (i + 1)..End /\ n.cut \in BOOLEAN /\ n.bad \in BOOLEAN
             /\ ~n.cut => n.end \in (i + 1)..End
             /\ ~n.cut => \A k \in i..(n.end - 1) : CharAt(k) # "\n"
<1> DEFINE whole == RunEnd(Digit, p.at)
           point == CharAt(whole) = "."
           cut   == point /\ CharAt(whole + 1) \notin Digit
           frac  == IF point THEN RunEnd(Digit, whole + 1) ELSE whole
           exp   == CharAt(frac) \in {"e", "E"}
           sign  == IF CharAt(frac + 1) \in {"+", "-"} THEN frac + 2 ELSE frac + 1
           bad   == exp /\ CharAt(sign) \notin Digit
           end   == IF bad THEN sign ELSE IF exp THEN RunEnd(Digit, sign) ELSE frac
<1>1. /\ NumberParts(p).whole = whole /\ NumberParts(p).cut = cut
      /\ NumberParts(p).end = end /\ NumberParts(p).bad = bad
  BY DEF NumberParts
<1>b. cut \in BOOLEAN /\ bad \in BOOLEAN OBVIOUS
<1>2. End \in Nat /\ CharAt(End) = NUL /\ i \in Nat /\ End = Len(source) + 1
  BY EndFacts DEF End
<1>3. /\ "." # NUL /\ "." # "\n" /\ "e" # NUL /\ "e" # "\n" /\ "E" # NUL /\ "E" # "\n"
      /\ "+" # NUL /\ "+" # "\n" /\ "-" # NUL /\ "-" # "\n"
  BY DEF NUL
<1>4. NUL \notin Digit /\ "\n" \notin Digit BY ClassFacts
<1>5. \A k \in 1..End : CharAt(k) # NUL => k + 1 \in 1..End
  BY <1>2
<1>6. /\ whole \in (i + 1)..End
      /\ \A k \in i..(whole - 1) : CharAt(k) # "\n"
  <2>1. whole \in i..End /\ CharAt(whole) \notin Digit /\ \A k \in i..(whole - 1) : CharAt(k) \in Digit
    BY <1>4, RunEndFacts
  <2> HIDE DEF whole
  <2>2. whole # i BY <2>1
  <2> QED BY <1>2, <1>4, <2>1, <2>2
<1>7. CASE ~cut
  <2>1. /\ frac \in whole..End
        /\ \A k \in whole..(frac - 1) : CharAt(k) # "\n"
    <3>1. CASE point
      <4>1. whole + 1 \in 1..End BY <1>2, <1>3, <1>5, <1>6, <3>1
      <4>2. /\ RunEnd(Digit, whole + 1) \in (whole + 1)..End
            /\ \A k \in (whole + 1)..(RunEnd(Digit, whole + 1) - 1) : CharAt(k) \in Digit
        BY <1>4, <4>1, RunEndFacts
      <4>3. frac = RunEnd(Digit, whole + 1) BY <3>1
      <4>4. CharAt(whole) # "\n" BY <1>3, <3>1
      <4> HIDE DEF whole, frac
      <4> QED BY <1>2, <1>4, <1>6, <4>2, <4>3, <4>4
    <3>2. CASE ~point
      <4>1. frac = whole BY <3>2
      <4> HIDE DEF whole, frac
      <4> QED BY <1>2, <1>6, <4>1
    <3> QED BY <3>1, <3>2
  <2>2. /\ end \in frac..End
        /\ \A k \in frac..(end - 1) : CharAt(k) # "\n"
    <3>0. frac \in 1..End
      <4> HIDE DEF whole, frac
      <4> QED BY <1>2, <1>6, <2>1
    <3>1. CASE ~exp
      <4>1. end = frac BY <3>1
      <4> HIDE DEF end, frac
      <4> QED BY <1>2, <3>0, <4>1
    <3>2. CASE exp
      <4>1. CharAt(frac) # NUL /\ CharAt(frac) # "\n" BY <1>3, <3>2
      <4>2. frac + 1 \in 1..End BY <1>5, <3>0, <4>1
      <4>3. /\ sign \in (frac + 1)..End
            /\ \A k \in frac..(sign - 1) : CharAt(k) # "\n"
        <5>1. CASE CharAt(frac + 1) \in {"+", "-"}
          <6>1. CharAt(frac + 1) # NUL /\ CharAt(frac + 1) # "\n" BY <1>3, <5>1
          <6>2. (frac + 1) + 1 \in 1..End BY <1>5, <4>2, <6>1
          <6>3. sign = frac + 2 BY <5>1
          <6> HIDE DEF sign, frac
          <6> QED BY <1>2, <3>0, <4>1, <6>1, <6>2, <6>3
        <5>2. CASE CharAt(frac + 1) \notin {"+", "-"}
          <6>1. sign = frac + 1 BY <5>2
          <6> HIDE DEF sign, frac
          <6> QED BY <1>2, <3>0, <4>1, <4>2, <6>1
        <5> QED BY <5>1, <5>2
      <4>4. CASE bad
        <5>1. end = sign BY <4>4
        <5> HIDE DEF sign, frac, end
        <5> QED BY <1>2, <3>0, <4>3, <5>1
      <4>5. CASE ~bad
        <5>1. end = RunEnd(Digit, sign) BY <3>2, <4>5
        <5>2. sign \in 1..End
          <6> HIDE DEF sign, frac
          <6> QED BY <1>2, <3>0, <4>3
        <5>3. /\ RunEnd(Digit, sign) \in sign..End
              /\ \A k \in sign..(RunEnd(Digit, sign) - 1) : CharAt(k) \in Digit
          BY <1>4, <5>2, RunEndFacts
        <5> HIDE DEF sign, frac, end
        <5> QED BY <1>2, <1>4, <3>0, <4>3, <5>1, <5>3
      <4> QED BY <4>4, <4>5
    <3> QED BY <3>1, <3>2
  <2> HIDE DEF whole, frac, end, cut, bad
  <2>3. end \in (i + 1)..End BY <1>2, <1>6, <2>1, <2>2
  <2>4. \A k \in i..(end - 1) : CharAt(k) # "\n" BY <1>2, <1>6, <2>1, <2>2
  <2> QED BY <1>1, <1>b, <1>6, <1>7, <2>3, <2>4
<1>8. CASE cut
  <2> HIDE DEF whole, frac, end, cut, bad
  <2> QED BY <1>1, <1>b, <1>6, <1>8
<1> QED BY <1>7, <1>8

LEMMA MatchNumberFacts ==
  ASSUME source \in Sources, NEW p, Exact(p), p.at \in 1..End,
         CharAt(p.at) \in Digit
  PROVE  Read(MatchNumber(p), p) \/ Refused(MatchNumber(p), p)
<1> DEFINE n == NumberParts(p)
<1>0. End \in Nat /\ CharAt(End) = NUL /\ p.at \in Nat BY EndFacts DEF End
<1>1. /\ n.whole \in (p.at + 1)..End
      /\ ~n.cut => n.end \in (p.at + 1)..End
      /\ ~n.cut => \A k \in p.at..(n.end - 1) : CharAt(k) # "\n"
  BY NumberFacts
<1>2. p.at # End BY <1>0, ClassFacts
<1>3. "number" \in Kinds /\ "number" # "string" /\ "number" # "eof" BY KindFacts
<1>4. MatchNumber(p) =
        IF n.cut THEN Found(p, "number", n.whole)
        ELSE IF n.bad \/ CharAt(n.end) \in WordStart
             THEN FaultAt([at |-> n.end, ln |-> p.ln, col |-> p.col + (n.end - p.at)], p)
             ELSE Found(p, "number", n.end)
  BY DEF MatchNumber
<1> HIDE DEF n
<1>5. CASE n.cut
  <2>1. n.whole \in Nat BY <1>0, <1>1
  <2>2. Read(Found(p, "number", n.whole), p) BY <1>1, <1>2, <1>3, <2>1, FoundFacts
  <2> QED BY <1>4, <1>5, <2>2
<1>6. CASE ~n.cut /\ ~(n.bad \/ CharAt(n.end) \in WordStart)
  <2>1. n.end \in Nat BY <1>0, <1>1, <1>6
  <2>2. Read(Found(p, "number", n.end), p) BY <1>1, <1>2, <1>3, <1>6, <2>1, FoundFacts
  <2> QED BY <1>4, <1>6, <2>2
<1>7. CASE ~n.cut /\ (n.bad \/ CharAt(n.end) \in WordStart)
  <2> DEFINE q == [at |-> n.end, ln |-> p.ln, col |-> p.col + (n.end - p.at)]
  <2>1. n.end \in Nat /\ n.end >= p.at BY <1>0, <1>1, <1>7
  <2>2. Exact(q) BY <1>1, <1>7, <2>1, SameLine
  <2>3. MatchNumber(p) = FaultAt(q, p) BY <1>4, <1>7
  <2> HIDE DEF q
  <2>4. FaultAt(q, p).tok = <<>> /\ FaultAt(q, p).after = p /\ FaultAt(q, p).fault = q
    BY DEF FaultAt
  <2>5. Refused(FaultAt(q, p), p) BY <2>2, <2>4 DEF Refused
  <2> QED BY <2>3, <2>5
<1> QED BY <1>5, <1>6, <1>7

LEMMA MatchStringFacts ==
  ASSUME source \in Sources, NEW p, Exact(p), p.at \in 1..End,
         CharAt(p.at) = Quote
  PROVE  Read(MatchString(p), p) \/ Refused(MatchString(p), p)
<1> DEFINE S == {i \in (p.at + 1)..(Len(source) + 1) : Stops(i)}
           stop == Min(S)
           q    == Reach(p, stop)
<1>0. End \in Nat /\ CharAt(End) = NUL /\ p.at \in Nat /\ End = Len(source) + 1
      /\ Len(source) \in Nat
  BY EndFacts DEF End
<1>1. p.at # End /\ p.at + 1 \in 1..End BY <1>0, QuoteFacts
<1>2. End \in S /\ S \subseteq Nat BY <1>0, <1>1 DEF Stops
<1>3. stop \in S
  <2> HIDE DEF S
  <2> QED BY <1>2, MinFacts
<1>4. MatchString(p) = IF CharAt(stop) # Quote THEN FaultAt(q, q)
                       ELSE [tok |-> <<Token(q, "string", p.at + 1, stop - 1)>>,
                             after |-> NextChar(q), fault |-> NoFault]
  BY DEF MatchString
<1>5. stop \in (p.at + 1)..End /\ Stops(stop)
  <2>1. \A i \in S : i \in (p.at + 1)..End /\ Stops(i) BY <1>0
  <2> HIDE DEF S, stop
  <2> QED BY <1>3, <2>1
<1> HIDE DEF S, stop
<1>6. stop \in Nat /\ stop >= p.at BY <1>0, <1>5
<1>7. Exact(q) /\ q.at = stop BY <1>6, ReachFacts
<1> HIDE DEF q
<1>8. CASE CharAt(stop) # Quote
  <2>1. FaultAt(q, q).tok = <<>> /\ FaultAt(q, q).after = q /\ FaultAt(q, q).fault = q
    BY DEF FaultAt
  <2>2. q.at \in 1..End BY <1>0, <1>5, <1>7
  <2>3. Refused(FaultAt(q, q), p) BY <1>7, <2>1, <2>2 DEF Refused
  <2> QED BY <1>4, <1>8, <2>3
<1>9. CASE CharAt(stop) = Quote
  <2> DEFINE t == Token(q, "string", p.at + 1, stop - 1)
             m == [tok |-> <<t>>, after |-> NextChar(q), fault |-> NoFault]
  <2>1. /\ t.kind = "string" /\ t.ln = q.ln /\ t.col = q.col
        /\ t.first = p.at + 1 /\ t.last = stop - 1
    BY DEF Token
  <2>2. MatchString(p) = m BY <1>4, <1>9
  <2>3. m.tok = <<t>> /\ m.after = NextChar(q) /\ m.fault = NoFault OBVIOUS
  <2>4. Exact(NextChar(q)) /\ NextChar(q).at = stop + 1 BY <1>7, NextExact
  <2>5. stop # End BY <1>0, <1>9, QuoteFacts
  <2>6. stop + 1 \in (p.at + 1)..End /\ stop - 1 \in 0..End /\ stop - 1 < Len(source)
    BY <1>0, <1>5, <2>5
  <2>7. CharAt(stop - 1) # "\\" BY <1>5, <1>9, QuoteFacts DEF Stops
  <2>8. q.ln \in Nat /\ q.col \in Nat /\ IsAt(q.ln, q.col, stop)
    BY <1>7 DEF Exact, Place
  <2>9. t \in [kind : Kinds, ln : Nat, col : Nat, first : 1..End, last : 0..End]
    BY <1>1, <2>6, <2>8, KindFacts DEF Token
  <2> HIDE DEF t, m
  <2>10. From(t) = p.at /\ To(t) = (stop + 1) - 1
    <3>1. (p.at + 1) - 1 = p.at /\ (stop - 1) + 1 = (stop + 1) - 1 BY <1>0, <1>6
    <3> QED BY <2>1, <3>1 DEF From, To
  <2>11. IsAt(t.ln, t.col, IF t.kind = "string" THEN To(t) ELSE t.first)
    <3>1. (stop + 1) - 1 = stop BY <1>6
    <3> QED BY <2>1, <2>8, <2>10, <3>1
  <2>12. t.kind # "eof" BY <2>1, KindFacts
  <2>13. Right(t, p, stop + 1)
    BY <1>1, <2>1, <2>6, <2>7, <2>9, <2>10, <2>11, <2>12 DEF Right
  <2>14. Read(m, p) BY <2>3, <2>4, <2>13 DEF Read
  <2> QED BY <2>2, <2>14
<1> QED BY <1>8, <1>9

\* A call of rak_lexer_next, once blanks and comments are skipped.
LEMMA MatchFacts ==
  ASSUME source \in Sources, NEW p, Exact(p), p.at \in 1..End
  PROVE  Read(Match(p), p) \/ Refused(Match(p), p)
<1> DEFINE c == CharAt(p.at)
<1>0. End \in Nat /\ CharAt(End) = NUL /\ p.at \in Nat /\ End = Len(source) + 1
      /\ Len(source) \in Nat
  BY EndFacts DEF End
<1>1. CASE c = NUL /\ Match(p) = Found(p, "eof", p.at + 1)
  <2>1. p.at = End
    <3>1. p.at \notin 1..Len(source) BY <1>1, EndFacts
    <3> QED BY <1>0, <3>1
  <2>2. p.at + 1 \in Nat /\ p.at + 1 = End + 1 BY <1>0, <2>1
  <2>3. Read(Found(p, "eof", p.at + 1), p) BY <2>1, <2>2, KindFacts, FoundFacts
  <2> QED BY <1>1, <2>3
<1>2. CASE IsMark(p) /\ Match(p) = MatchMark(p)
  BY <1>2, MatchMarkFacts
<1>3. CASE c \in Digit /\ Match(p) = MatchNumber(p)
  BY <1>3, MatchNumberFacts
<1>4. CASE c = Quote /\ Match(p) = MatchString(p)
  BY <1>4, MatchStringFacts
<1>5. CASE c \in WordStart /\ Match(p) = MatchWord(p)
  BY <1>5, MatchWordFacts
<1>6. CASE Match(p) = FaultAt(p, p)
  <2>1. FaultAt(p, p).tok = <<>> /\ FaultAt(p, p).after = p /\ FaultAt(p, p).fault = p
    BY DEF FaultAt
  <2>2. Refused(FaultAt(p, p), p) BY <2>1 DEF Refused
  <2> QED BY <1>6, <2>2
<1>7. \/ c = NUL /\ Match(p) = Found(p, "eof", p.at + 1)
      \/ IsMark(p) /\ Match(p) = MatchMark(p)
      \/ c \in Digit /\ Match(p) = MatchNumber(p)
      \/ c = Quote /\ Match(p) = MatchString(p)
      \/ c \in WordStart /\ Match(p) = MatchWord(p)
      \/ Match(p) = FaultAt(p, p)
  BY DEF Match
<1> QED BY <1>1, <1>2, <1>3, <1>4, <1>5, <1>6, <1>7

-----------------------------------------------------------------------------
(***************************************************************************)
(* Reading a string literal.                                               *)
(***************************************************************************)
\* What a climbing function is given stays within the sequences over T.
LEMMA ClimbSeq ==
  ASSUME NEW N \in Nat, NEW D, NEW E, NEW V, NEW G, NEW f, Climbs(f, 1, N, D, E, V, G),
         NEW T, \A i \in 1..N : V[i] \in Seq(T),
         \A i \in 1..N : i \notin D => G[i] \in (i + 1)..N
  PROVE  \A i \in 1..N : f[i] \in Seq(T)
<1> DEFINE S == {m \in Nat : \A k \in 1..N : k >= N + 1 - m => f[k] \in Seq(T)}
<1>1. \A i \in 1..N : f[i] = IF i \in D THEN V[i]
                             ELSE IF i \in E THEN V[i] \o f[G[i]] ELSE f[G[i]]
  BY DEF Climbs
<1>2. 0 \in S OBVIOUS
<1>3. ASSUME NEW m \in Nat, m \in S PROVE m + 1 \in S
  <2> SUFFICES ASSUME NEW k \in 1..N, k >= N + 1 - (m + 1) PROVE f[k] \in Seq(T)
    OBVIOUS
  <2>1. k \notin D => f[G[k]] \in Seq(T)
    <3> SUFFICES ASSUME k \notin D PROVE f[G[k]] \in Seq(T) OBVIOUS
    <3>1. G[k] \in (k + 1)..N OBVIOUS
    <3>2. G[k] \in 1..N /\ G[k] >= N + 1 - m BY <3>1
    <3> QED BY <1>3, <3>2
  <2>2. k \notin D => V[k] \o f[G[k]] \in Seq(T) BY <2>1, ConcatProperties
  <2> QED BY <1>1, <2>1, <2>2
<1> HIDE DEF S
<1>4. N \in S BY <1>2, <1>3, Induction
<1> QED BY <1>4 DEF S

Codes == Int \ {Overrun}

LEMMA CodeFacts ==
  /\ Invalid \in Codes
  /\ \A c \in Char : Ascii[c] \in Codes
  /\ \A c \in OneChar : Escape(c) \in Codes
  /\ \A c, d \in Hex : HexCode(c, d) \in Codes
<1>1. Invalid \in Codes BY DEF Invalid, Codes, Overrun
<1>2. \A c \in Char : Ascii[c] \in 1..127 BY AsciiAssumption
<1>3. \A n \in Nat : n \in Codes BY DEF Codes, Overrun
<1>4. \A c \in Char : Ascii[c] \in Codes BY <1>2, <1>3
<1>5. ASSUME NEW c \in OneChar PROVE Escape(c) \in Codes
  <2>1. Escape(c) \in {10, 13, 9, 0, Ascii[c]} BY Zenon DEF Escape
  <2>2. c \in Char BY DEF OneChar, InAscii
  <2>3. 10 \in Codes /\ 13 \in Codes /\ 9 \in Codes /\ 0 \in Codes BY <1>3
  <2> QED BY <1>4, <2>1, <2>2, <2>3
<1>6. ASSUME NEW c \in Hex PROVE HexValue(c) \in 0..15
  <2>1. c \in Char /\ (Ascii[c] \in 48..57 \/ Ascii[c] \in 65..70 \/ Ascii[c] \in 97..102)
    BY DEF Hex, InAscii
  <2>2. Ascii[c] \in 48..57 => HexValue(c) = Ascii[c] - 48 BY DEF HexValue
  <2>3. Ascii[c] \in 65..70 => HexValue(c) = Ascii[c] - 65 + 10 BY DEF HexValue
  <2>4. Ascii[c] \in 97..102 => HexValue(c) = Ascii[c] - 97 + 10 BY DEF HexValue
  <2> QED BY <2>1, <2>2, <2>3, <2>4
<1>7. ASSUME NEW c \in Hex, NEW d \in Hex PROVE HexCode(c, d) \in Codes
  <2>1. HexValue(c) \in 0..15 /\ HexValue(d) \in 0..15 BY <1>6
  <2>2. 16 * HexValue(c) + HexValue(d) \in Nat BY <2>1
  <2> QED BY <1>3, <2>2 DEF HexCode
<1> QED BY <1>1, <1>4, <1>5, <1>7

\* A text that does not end in a backslash is read without a look behind it.
LEMMA UnescapeFacts ==
  ASSUME NEW s \in Seq(Char), Len(s) > 0 => s[Len(s)] # "\\"
  PROVE  Unescape(s) \in Seq(Codes)
<1> DEFINE N == Len(s) + 1
           Short(i) == s[i + 1] \in OneChar
           Hexed(i) == s[i + 1] = "x" /\ HexAt(s, i + 2)
           Body(h, i) ==
             IF i > Len(s) THEN <<>>
             ELSE IF s[i] # "\\" THEN <<Ascii[s[i]]>> \o h[i + 1]
             ELSE IF i = Len(s) THEN <<Overrun>>
             ELSE IF Short(i) THEN <<Escape(s[i + 1])>> \o h[i + 2]
             ELSE IF Hexed(i) THEN <<HexCode(s[i + 2], s[i + 3])>> \o h[i + 4]
             ELSE <<Invalid>>
           V == [i \in 1..N |->
                   IF i > Len(s) THEN <<>>
                   ELSE IF s[i] # "\\" THEN <<Ascii[s[i]]>>
                   ELSE IF Short(i) THEN <<Escape(s[i + 1])>>
                   ELSE IF Hexed(i) THEN <<HexCode(s[i + 2], s[i + 3])>>
                   ELSE <<Invalid>>]
           G == [i \in 1..N |-> IF s[i] # "\\" THEN i + 1 ELSE IF Short(i) THEN i + 2 ELSE i + 4]
           D == {i \in 1..N : i > Len(s) \/ (s[i] = "\\" /\ ~Short(i) /\ ~Hexed(i))}
           E == 1..N
<1>0. Len(s) \in Nat /\ N \in Nat /\ \A i \in 1..Len(s) : s[i] \in Char BY ElementOfSeq
<1>1. \A i \in 1..N : i = Len(s) => s[i] # "\\" BY <1>0
<1>2. \A i \in 1..N : i \notin D => G[i] \in (i + 1)..N
  <2> SUFFICES ASSUME NEW i \in 1..N, i \notin D PROVE G[i] \in (i + 1)..N OBVIOUS
  <2>1. i <= Len(s) /\ (s[i] # "\\" \/ Short(i) \/ Hexed(i)) BY <1>0
  <2>2. G[i] = IF s[i] # "\\" THEN i + 1 ELSE IF Short(i) THEN i + 2 ELSE i + 4 OBVIOUS
  <2>3. Hexed(i) => i + 3 <= Len(s)
    <3>1. Hexed(i) => (i + 2) + 1 <= Len(s) BY DEF HexAt
    <3> QED BY <1>0, <3>1
  <2> HIDE DEF G, D, Short, Hexed
  <2>4. CASE s[i] # "\\" BY <1>0, <2>1, <2>2, <2>4
  <2>5. CASE s[i] = "\\"
    <3>1. i # Len(s) BY <1>1, <2>5
    <3> QED BY <1>0, <2>1, <2>2, <2>3, <2>5, <3>1
  <2> QED BY <2>4, <2>5
<1>3. PICK f : Climbs(f, 1, N, D, E, V, G)
  <2>1. \E f : Climbs(f, 1, N, D, E, V, G)
    <3> HIDE DEF N, D, E, V, G
    <3> QED BY <1>0, <1>2, ClimbExists
  <2> QED BY <2>1
<1>4. ASSUME NEW h, NEW i \in 1..N
      PROVE  Body(h, i) = IF i \in D THEN V[i] ELSE IF i \in E THEN V[i] \o h[G[i]] ELSE h[G[i]]
  <2>1. i \in D <=> i > Len(s) \/ (s[i] = "\\" /\ ~Short(i) /\ ~Hexed(i)) OBVIOUS
  <2>2. V[i] = IF i > Len(s) THEN <<>>
               ELSE IF s[i] # "\\" THEN <<Ascii[s[i]]>>
               ELSE IF Short(i) THEN <<Escape(s[i + 1])>>
               ELSE IF Hexed(i) THEN <<HexCode(s[i + 2], s[i + 3])>>
               ELSE <<Invalid>>
    OBVIOUS
  <2>3. G[i] = IF s[i] # "\\" THEN i + 1 ELSE IF Short(i) THEN i + 2 ELSE i + 4 OBVIOUS
  <2>4. i = Len(s) => s[i] # "\\" BY <1>1
  <2>5. i \in E OBVIOUS
  <2> HIDE DEF N, D, E, V, G, Short, Hexed
  <2> QED BY <2>1, <2>2, <2>3, <2>4, <2>5, Zenon
<1>5. ASSUME NEW h PROVE h = [i \in 1..N |-> Body(h, i)] <=> Climbs(h, 1, N, D, E, V, G)
  <2> HIDE DEF N, D, E, V, G, Body
  <2>1. [i \in 1..N |-> Body(h, i)]
          = [i \in 1..N |-> IF i \in D THEN V[i] ELSE IF i \in E THEN V[i] \o h[G[i]] ELSE h[G[i]]]
    BY <1>4
  <2> QED BY <2>1, Zenon DEF Climbs
<1> DEFINE g == CHOOSE h : h = [i \in 1..N |-> Body(h, i)]
<1>6. Unescape(s) = g[1] BY Zenon DEF Unescape
<1>7. g = [i \in 1..N |-> Body(g, i)]
  <2>1. \E h : h = [i \in 1..N |-> Body(h, i)]
    <3> HIDE DEF N, D, E, V, G, Body
    <3> QED BY <1>3, <1>5
  <2> HIDE DEF N, Body
  <2> QED BY <2>1, Zenon
<1> HIDE DEF g
<1>8. Climbs(g, 1, N, D, E, V, G)
  <2> HIDE DEF N, D, E, V, G, Body
  <2> QED BY <1>5, <1>7
<1>9. \A i \in 1..N : V[i] \in Seq(Codes)
  <2> SUFFICES ASSUME NEW i \in 1..N PROVE V[i] \in Seq(Codes) OBVIOUS
  <2>1. V[i] = IF i > Len(s) THEN <<>>
               ELSE IF s[i] # "\\" THEN <<Ascii[s[i]]>>
               ELSE IF Short(i) THEN <<Escape(s[i + 1])>>
               ELSE IF Hexed(i) THEN <<HexCode(s[i + 2], s[i + 3])>>
               ELSE <<Invalid>>
    OBVIOUS
  <2>2. ~(i > Len(s)) => Ascii[s[i]] \in Codes BY <1>0, CodeFacts
  <2>3. Short(i) => Escape(s[i + 1]) \in Codes BY CodeFacts
  <2>4. Hexed(i) => HexCode(s[i + 2], s[i + 3]) \in Codes
    <3> SUFFICES ASSUME Hexed(i) PROVE HexCode(s[i + 2], s[i + 3]) \in Codes OBVIOUS
    <3>1. s[i + 2] \in Hex /\ s[(i + 2) + 1] \in Hex BY DEF HexAt
    <3>2. (i + 2) + 1 = i + 3 BY <1>0
    <3>3. s[i + 3] \in Hex BY <3>1, <3>2
    <3> QED BY <3>1, <3>3, CodeFacts
  <2>5. Invalid \in Codes BY CodeFacts
  <2>6. <<>> \in Seq(Codes) /\ \A c \in Codes : <<c>> \in Seq(Codes) OBVIOUS
  <2> HIDE DEF V, Short, Hexed
  <2> QED BY <2>1, <2>2, <2>3, <2>4, <2>5, <2>6
<1>10. g[1] \in Seq(Codes)
  <2>1. \A i \in 1..N : g[i] \in Seq(Codes)
    <3> HIDE DEF N, D, E, V, G, Body
    <3> QED BY <1>0, <1>2, <1>8, <1>9, ClimbSeq
  <2>2. 1 \in 1..N BY <1>0
  <2> QED BY <2>1, <2>2
<1> QED BY <1>6, <1>10

-----------------------------------------------------------------------------
(***************************************************************************)
(* The invariant.                                                          *)
(***************************************************************************)
TokenType == [kind : Kinds, ln : Nat, col : Nat, first : 1..End, last : 0..End]

\* The text of a string ends before the closing quote, not with a backslash.
Closed(t) == t.kind = "string" => t.last < Len(source) /\ CharAt(t.last) # "\\"
AllClosed == \A n \in 1..Len(toks) : Closed(toks[n])

LexerInv ==
  /\ source \in Sources
  /\ Exact(Here) /\ curr <= End + 1
  /\ toks \in Seq(TokenType) /\ AllClosed
  /\ consts \in Seq(Seq(Codes))
  /\ fault \in Place
  /\ status \in {"init", "running", "eof", "error", "invalid", "stopped"}
  /\ status = "init" => curr = 1 /\ ln = 1 /\ col = 1 /\ toks = <<>>
  /\ status = "running" => curr \in 2..End /\ toks # <<>> /\ curr = EndOf(Len(toks)) + 1
  /\ PositionsRight /\ Tiled

LEMMA Appended ==
  ASSUME NEW T, toks \in Seq(T), NEW t \in T, toks' = toks \o <<t>>
  PROVE  /\ toks' \in Seq(T) /\ toks' # <<>> /\ Len(toks') = Len(toks) + 1
         /\ toks'[Len(toks) + 1] = t
         /\ \A n \in 1..Len(toks) : toks'[n] = toks[n]
<1>1. <<t>> \in Seq(T) /\ Len(<<t>>) = 1 /\ <<t>>[1] = t OBVIOUS
<1>2. Len(toks) \in Nat OBVIOUS
<1>3. /\ toks' \in Seq(T) /\ Len(toks') = Len(toks) + 1
      /\ \A i \in 1..(Len(toks) + 1) : toks'[i] = IF i <= Len(toks) THEN toks[i] ELSE <<t>>[i - Len(toks)]
  BY <1>1, ConcatProperties
<1>4. toks'[Len(toks) + 1] = t
  <2>1. Len(toks) + 1 \in 1..(Len(toks) + 1) /\ ~(Len(toks) + 1 <= Len(toks))
        /\ (Len(toks) + 1) - Len(toks) = 1
    BY <1>2
  <2> QED BY <1>1, <1>3, <2>1
<1>5. \A n \in 1..Len(toks) : toks'[n] = toks[n] BY <1>2, <1>3
<1>6. toks' # <<>> BY <1>2, <1>3
<1> QED BY <1>3, <1>4, <1>5, <1>6

LEMMA InitInv == Init => LexerInv
<1> SUFFICES ASSUME Init PROVE LexerInv OBVIOUS
<1>1. source \in Sources /\ curr = 1 /\ ln = 1 /\ col = 1 BY DEF Init
<1>2. toks = <<>> /\ consts = <<>> /\ fault = NoFault /\ status = "init" BY DEF Init
<1>3. Exact(Here) /\ curr <= End + 1
  <2>1. End \in Nat BY <1>1, EndFacts
  <2> QED BY <1>1, <2>1, FirstPlace
<1>4. toks \in Seq(TokenType) /\ consts \in Seq(Seq(Codes)) /\ Len(toks) = 0 BY <1>2
<1>5. AllClosed BY <1>4 DEF AllClosed
<1>6. fault \in Place BY <1>2 DEF NoFault, Place
<1>7. PositionsRight /\ Tiled BY <1>2 DEF PositionsRight, Tiled
<1> QED BY <1>1, <1>2, <1>3, <1>4, <1>5, <1>6, <1>7 DEF LexerInv

\* A call that gives token t, found at p, and leaves the lexer at r.
LEMMA TokenKeeps ==
  ASSUME LexerInv, NEW p, NEW r, NEW t, NEW start,
         source' = source, consts' = consts, toks' = toks \o <<t>>,
         r = [at |-> curr', ln |-> ln', col |-> col'], fault' = NoFault,
         status' = IF t.kind = "eof" THEN "eof" ELSE "running",
         Exact(p), p.at \in 1..End, p.at = StartAfter(start), start = EndOf(Len(toks)) + 1,
         Exact(r), Right(t, p, r.at)
  PROVE  LexerInv'
<1>0. /\ source \in Sources /\ toks \in Seq(TokenType) /\ consts \in Seq(Seq(Codes))
      /\ AllClosed
  BY DEF LexerInv
<1>1. End \in Nat /\ End = Len(source) + 1 /\ Len(source) \in Nat BY <1>0, EndFacts DEF End
<1>2. /\ t \in TokenType /\ From(t) = p.at /\ To(t) = r.at - 1
      /\ t.kind = "eof" <=> p.at = End
      /\ p.at = End => r.at = End + 1
      /\ p.at # End => r.at \in (p.at + 1)..End
      /\ IsAt(t.ln, t.col, IF t.kind = "string" THEN To(t) ELSE t.first)
      /\ Closed(t)
  BY DEF Right, TokenType, Closed
<1>3. /\ toks' \in Seq(TokenType) /\ toks' # <<>> /\ Len(toks') = Len(toks) + 1
      /\ toks'[Len(toks) + 1] = t
      /\ \A n \in 1..Len(toks) : toks'[n] = toks[n]
  BY <1>0, <1>2, Appended
<1>4. Len(toks) \in Nat BY <1>0
<1>5. TokenType' = TokenType BY DEF TokenType, End
<1>6. AllClosed'
  <2>1. \A n \in 1..Len(toks') : toks'[n].kind = "string" =>
             toks'[n].last < Len(source) /\ CharAt(toks'[n].last) # "\\"
    <3> SUFFICES ASSUME NEW n \in 1..Len(toks') PROVE Closed(toks'[n]) BY DEF Closed
    <3>1. n = Len(toks) + 1 \/ n \in 1..Len(toks) BY <1>3, <1>4
    <3> QED BY <1>0, <1>2, <1>3, <3>1 DEF AllClosed
  <2> QED BY <2>1 DEF AllClosed, Closed, CharAt
<1>7. curr' = r.at /\ curr' \in Nat /\ curr' <= (End + 1)'
  <2>1. r.at \in Nat /\ r.at <= End + 1 BY <1>1, <1>2
  <2>2. (End + 1)' = End + 1 BY DEF End
  <2> QED BY <2>1, <2>2
<1>8. Exact(Here)'
  <2>1. Here' = r BY DEF Here
  <2> QED BY <2>1 DEF Exact, Place, IsAt, NewlinesBefore, Positions, CharAt
<1>9. fault' \in Place BY DEF NoFault, Place
<1>10. EndOf(Len(toks))' = To(t) /\ toks'[Len(toks')] = t
  <2>1. Len(toks') # 0 /\ toks'[Len(toks')] = t BY <1>3, <1>4
  <2> QED BY <2>1 DEF EndOf, To
<1>11. status' = "running" => /\ curr' \in 2..End' /\ toks' # <<>>
                              /\ curr' = EndOf(Len(toks))' + 1
  <2> SUFFICES ASSUME status' = "running"
               PROVE  curr' \in 2..End' /\ toks' # <<>> /\ curr' = EndOf(Len(toks))' + 1
    OBVIOUS
  <2>1. p.at # End BY <1>2
  <2>2. r.at \in (p.at + 1)..End /\ p.at >= 1 /\ p.at \in Nat BY <1>1, <1>2, <2>1
  <2>3. r.at \in 2..End /\ r.at = To(t) + 1 BY <1>1, <1>2, <2>2
  <2>4. End' = End BY DEF End
  <2> QED BY <1>3, <1>7, <1>10, <2>3, <2>4
<1>12. PositionsRight'
  <2>1. toks'[Len(toks')] = t BY <1>10
  <2>2. status' # "error" OBVIOUS
  <2>3. IsAt(t.ln, t.col, IF t.kind = "string" THEN To(t) ELSE t.first)'
    BY <1>2 DEF IsAt, NewlinesBefore, Positions, CharAt, To
  <2> QED BY <2>1, <2>2, <2>3 DEF PositionsRight, Last, To, IsAt
<1>13. Tiled'
  <2>1. start = EndOf(Len(toks) - 1)' + 1
    <3> DEFINE n == Len(toks) 
               e == IF n = 0 THEN 0 ELSE To(toks[n])
    <3>1. Len(toks') - 1 = n BY <1>3, <1>4
    <3>2. n # 0 => toks'[n] = toks[n] BY <1>3, <1>4
    <3>3. (IF n = 0 THEN 0 ELSE To(toks'[n])) = e BY <3>2
    <3>4. EndOf(Len(toks) - 1)' = IF n = 0 THEN 0 ELSE To(toks'[n]) BY <3>1, Zenon DEF EndOf, To
    <3>5. start = e + 1 BY DEF EndOf
    <3> HIDE DEF e, n
    <3> QED BY <3>3, <3>4, <3>5
  <2>2. p.at = StartAfter(start)' BY DEF StartAfter, Silent, Opener, LooksAt, CharAt
  <2>3. From(toks[Len(toks)])' = p.at BY <1>2, <1>10 DEF From
  <2>4. t.kind = "eof" <=> p.at = Len(source') + 1 BY <1>1, <1>2
  <2> QED BY <1>10, <2>1, <2>2, <2>3, <2>4 DEF Tiled, StartAfter, Silent, Opener
<1>14. status' \in {"running", "eof"} BY DEF LexerInv
<1> QED BY <1>0, <1>3, <1>5, <1>6, <1>7, <1>8, <1>9, <1>11, <1>12, <1>13, <1>14 DEF LexerInv


LEMMA SameTiled ==
  ASSUME Tiled, source' = source, toks' = toks
  PROVE  Tiled'
BY DEF Tiled, EndOf, From, To, StartAfter, Silent, Opener, LooksAt, CharAt

\* A call that gives no token, and leaves the lexer at r with fault q.
LEMMA FaultKeeps ==
  ASSUME LexerInv, NEW r, NEW q,
         source' = source, consts' = consts, toks' = toks,
         r = [at |-> curr', ln |-> ln', col |-> col'], fault' = q, status' = "error",
         Exact(r), r.at \in 1..End, Exact(q)
  PROVE  LexerInv'
<1>0. /\ source \in Sources /\ toks \in Seq(TokenType) /\ consts \in Seq(Seq(Codes))
      /\ AllClosed /\ PositionsRight /\ Tiled
  BY DEF LexerInv
<1>1. End \in Nat BY <1>0, EndFacts
<1>2. TokenType' = TokenType BY DEF TokenType, End
<1>3. AllClosed' BY <1>0 DEF AllClosed, Closed, CharAt
<1>4. curr' <= (End + 1)'
  <2>1. curr' = r.at /\ r.at \in Nat /\ r.at <= End + 1 BY <1>1
  <2>2. (End + 1)' = End + 1 BY DEF End
  <2> QED BY <2>1, <2>2
<1>5. Exact(Here)'
  <2>1. Here' = r BY DEF Here
  <2> QED BY <2>1 DEF Exact, Place, IsAt, NewlinesBefore, Positions, CharAt
<1>6. fault' \in Place BY DEF Exact
<1>7. PositionsRight'
  <2>1. IsAt(q.ln, q.col, q.at)' BY DEF Exact, IsAt, NewlinesBefore, Positions, CharAt
  <2>2. PICK t : t = Last(toks) OBVIOUS
  <2>3. Last(toks)' = t BY <2>2 DEF Last
  <2>4. toks # <<>> => IsAt(t.ln, t.col, IF t.kind = "string" THEN To(t) ELSE t.first)'
    BY <1>0, <2>2 DEF PositionsRight, IsAt, NewlinesBefore, Positions, CharAt, To
  <2> QED BY <2>1, <2>3, <2>4 DEF PositionsRight, To, IsAt
<1>8. Tiled' BY <1>0, SameTiled
<1>9. status' \notin {"init", "running"} OBVIOUS
<1> QED BY <1>0, <1>2, <1>3, <1>4, <1>5, <1>6, <1>7, <1>8, <1>9 DEF LexerInv

\* A call of rak_lexer_next from q, with what it skips.
LEMMA NextTokenKeeps ==
  ASSUME LexerInv, NEW q, NextTokenFrom(q), Exact(Skip(q)), Skip(q).at \in 1..End,
         Skip(q).at = StartAfter(EndOf(Len(toks)) + 1)
  PROVE  LexerInv'
<1>1. source \in Sources BY DEF LexerInv
<1>2. PICK p : p = Skip(q) OBVIOUS
<1>3. PICK m : m = Match(p) OBVIOUS
<1>4. PICK start : start = EndOf(Len(toks)) + 1 OBVIOUS
<1>5. /\ curr' = m.after.at /\ ln' = m.after.ln /\ col' = m.after.col
      /\ toks' = toks \o m.tok /\ fault' = m.fault
      /\ status' = IF m.tok = <<>> THEN "error"
                   ELSE IF m.tok[1].kind = "eof" THEN "eof" ELSE "running"
      /\ source' = source /\ consts' = consts
  BY <1>2, <1>3 DEF NextTokenFrom
<1>6. Exact(p) /\ p.at \in 1..End /\ p.at = StartAfter(start) BY <1>2, <1>4
<1>7. Read(m, p) \/ Refused(m, p) BY <1>1, <1>3, <1>6, MatchFacts
<1>8. PICK r : r = m.after OBVIOUS
<1>9. Exact(r) BY <1>7, <1>8 DEF Read, Refused
<1>10. r = [at |-> curr', ln |-> ln', col |-> col'] BY <1>5, <1>8, <1>9 DEF Exact, Place
<1>11. CASE Read(m, p)
  <2>1. PICK t : m.tok = <<t>> /\ Right(t, p, m.after.at) BY <1>11 DEF Read
  <2>2. /\ toks' = toks \o <<t>> /\ fault' = NoFault
        /\ status' = IF t.kind = "eof" THEN "eof" ELSE "running"
    BY <1>5, <1>11, <2>1 DEF Read
  <2> QED BY <1>4, <1>5, <1>6, <1>8, <1>9, <1>10, <2>1, <2>2, TokenKeeps
<1>12. CASE Refused(m, p)
  <2>1. m.tok = <<>> /\ Exact(m.fault) /\ m.after.at \in 1..End BY <1>12 DEF Refused
  <2>2. toks \o <<>> = toks BY DEF LexerInv
  <2>3. toks' = toks /\ status' = "error" BY <1>5, <2>1, <2>2
  <2>4. PICK f : f = m.fault OBVIOUS
  <2> QED BY <1>5, <1>8, <1>9, <1>10, <2>1, <2>3, <2>4, FaultKeeps
<1> QED BY <1>7, <1>11, <1>12

\* A step that leaves the place, the tokens and the fault as they are.
LEMMA SameKeeps ==
  ASSUME LexerInv, source' = source, curr' = curr, ln' = ln, col' = col,
         toks' = toks, fault' = fault, consts' \in Seq(Seq(Codes)),
         status' \in {status, "invalid", "stopped"}
  PROVE  LexerInv'
<1>1. TokenType' = TokenType BY DEF TokenType, End
<1>2. Exact(Here)'
  BY DEF LexerInv, Exact, Place, Here, IsAt, NewlinesBefore, Positions, CharAt
<1>3. AllClosed' BY DEF LexerInv, AllClosed, Closed, CharAt
<1>4. PositionsRight'
  <2>1. PositionsRight /\ (status' = "error" => status = "error") BY DEF LexerInv
  <2> QED BY <2>1 DEF PositionsRight, Last, To, IsAt, NewlinesBefore, Positions, CharAt
<1>5. Tiled'
  <2>1. Tiled BY DEF LexerInv
  <2> QED BY <2>1, SameTiled
<1>6. (curr <= End + 1)' BY DEF LexerInv, End
<1>7. status' = "running" => (curr \in 2..End /\ toks # <<>> /\ curr = EndOf(Len(toks)) + 1)'
  BY DEF LexerInv, End, EndOf, To
<1> QED BY <1>1, <1>2, <1>3, <1>4, <1>5, <1>6, <1>7 DEF LexerInv

LEMMA ReadStringKeeps == LexerInv /\ ReadString => LexerInv'
<1> SUFFICES ASSUME LexerInv, ReadString PROVE LexerInv' OBVIOUS
<1>0. /\ source \in Sources /\ toks \in Seq(TokenType) /\ consts \in Seq(Seq(Codes))
      /\ AllClosed
  BY DEF LexerInv
<1>1. End \in Nat /\ End = Len(source) + 1 /\ Len(source) \in Nat BY <1>0, EndFacts DEF End
<1>2. /\ Unread /\ status \in {"running", "eof"}
      /\ source' = source /\ curr' = curr /\ ln' = ln /\ col' = col
      /\ toks' = toks /\ fault' = fault
  BY DEF ReadString
<1>3. Strings # {} /\ Len(toks) \in Nat
  <2>1. Len(consts) \in Nat /\ Len(consts) < Cardinality(Strings) BY <1>0, <1>2 DEF Unread
  <2>2. Strings = {} => Cardinality(Strings) = 0 BY FS_EmptySet
  <2>3. Strings # {}
    <3> HIDE DEF Strings
    <3> QED BY <2>1, <2>2
  <2>4. Len(toks) \in Nat BY <1>0
  <2> QED BY <2>3, <2>4
<1>4. PICK n : n = Max(Strings) OBVIOUS
<1>5. n \in Strings
  <2>1. Strings \subseteq 0..Len(toks) BY <1>3 DEF Strings
  <2> QED BY <1>3, <1>4, <2>1, MaxFacts
<1>6. n \in 1..Len(toks) /\ toks[n].kind = "string" BY <1>3, <1>5 DEF Strings
<1>7. PICK t : t = toks[n] OBVIOUS
<1>8. /\ t.first \in 1..End /\ t.last \in 0..End /\ t.last < Len(source)
      /\ CharAt(t.last) # "\\"
  <2>1. t \in TokenType BY <1>0, <1>6, <1>7, ElementOfSeq
  <2>2. Closed(t) BY <1>0, <1>6, <1>7 DEF AllClosed
  <2>3. t.kind = "string" BY <1>6, <1>7
  <2> QED BY <2>1, <2>2, <2>3 DEF TokenType, Closed
<1>9. PICK s : s = TextOf(t) OBVIOUS
<1>10. s \in Seq(Char) /\ (Len(s) > 0 => s[Len(s)] # "\\")
  <2>1. source \in Seq(Char) BY <1>0, SourcesAssumption
  <2>2. s = SubSeq(source, t.first, t.last) BY <1>9 DEF TextOf
  <2>3. CASE t.first <= t.last
    <3>1. /\ t.first \in Int /\ t.last \in Int
          /\ \A i \in t.first..t.last : source[i] \in Char
      BY <1>1, <1>8, <2>1
    <3>2. /\ s \in Seq(Char) /\ Len(s) = t.last - t.first + 1
          /\ \A i \in 1..(t.last - t.first + 1) : s[i] = source[t.first + i - 1]
      <4> DEFINE a == t.first
                 b == t.last
                 u == SubSeq(source, a, b)
      <4>1. a \in Int /\ b \in Int /\ \A i \in a..b : source[i] \in Char BY <3>1
      <4>2. s = u /\ a <= b BY <2>2, <2>3
      <4> HIDE DEF a, b
      <4>3. /\ u \in Seq(Char) /\ Len(u) = IF a <= b THEN b - a + 1 ELSE 0
            /\ \A i \in 1..(b - a + 1) : u[i] = source[a + i - 1]
        BY <4>1, SubSeqProperties
      <4> HIDE DEF u
      <4>4. s \in Seq(Char) /\ Len(s) = b - a + 1 BY <4>2, <4>3
      <4>5. \A i \in 1..(b - a + 1) : s[i] = source[a + i - 1] BY <4>2, <4>3
      <4> QED BY <4>4, <4>5 DEF a, b
    <3>3. t.last - t.first + 1 \in 1..(t.last - t.first + 1)
          /\ t.first + (t.last - t.first + 1) - 1 = t.last
      BY <1>1, <1>8, <2>3
    <3>4. s[Len(s)] = source[t.last] BY <3>2, <3>3
    <3>5. t.last \in 1..Len(source) BY <1>1, <1>8, <2>3
    <3> QED BY <1>8, <3>2, <3>4, <3>5 DEF CharAt
  <2>4. CASE t.first > t.last
    <3>1. s = <<>> BY <1>1, <1>8, <2>1, <2>2, <2>4
    <3> QED BY <3>1
  <2> QED BY <1>1, <1>8, <2>3, <2>4
<1>11. PICK codes : codes = Unescape(s) OBVIOUS
<1>12. codes \in Seq(Codes) BY <1>10, <1>11, UnescapeFacts
<1>13. consts' = Append(consts, codes)
       /\ status' = CASE Invalid \in Range(codes) -> "invalid"
                      [] Overrun \in Range(codes) -> "overrun"
                      [] OTHER                    -> status
  BY <1>4, <1>7, <1>9, <1>11 DEF ReadString
<1>14. Overrun \notin Range(codes)
  <2>1. Overrun \notin Codes BY DEF Codes
  <2>2. \A i \in DOMAIN codes : codes[i] \in Codes BY <1>12
  <2> QED BY <2>1, <2>2 DEF Range
<1>15. status' \in {"invalid", status} BY <1>13, <1>14, Zenon
<1>16. consts' \in Seq(Seq(Codes)) BY <1>0, <1>12, <1>13
<1> QED BY <1>0, <1>2, <1>15, <1>16, SameKeeps

\* A call of rak_lexer_next starts where the gap after the last token ends.
LEMMA CallFacts ==
  ASSUME LexerInv, InitLexer \/ NextToken
  PROVE  \E q : /\ NextTokenFrom(q) /\ Exact(Skip(q)) /\ Skip(q).at \in 1..End
               /\ Skip(q).at = StartAfter(EndOf(Len(toks)) + 1)
<1>0. source \in Sources /\ Exact(Here) BY DEF LexerInv
<1>1. CASE InitLexer
  <2>1. curr = 1 /\ ln = 1 /\ col = 1 /\ toks = <<>> BY <1>1 DEF InitLexer, LexerInv
  <2>2. NextTokenFrom(SkipShebang(Here)) BY <1>1 DEF InitLexer
  <2>3. EndOf(Len(toks)) + 1 = 1 BY <2>1 DEF EndOf
  <2>4. /\ Exact(Skip(SkipShebang(Here))) /\ Skip(SkipShebang(Here)).at \in 1..End
        /\ Skip(SkipShebang(Here)).at = StartAfter(1)
    BY <1>0, <2>1, FirstSkip
  <2> QED BY <2>2, <2>3, <2>4
<1>2. CASE NextToken
  <2>1. curr \in 2..End /\ curr = EndOf(Len(toks)) + 1 BY <1>2 DEF NextToken, LexerInv
  <2>2. NextTokenFrom(Here) BY <1>2 DEF NextToken
  <2>3. /\ Exact(Skip(Here)) /\ Skip(Here).at \in curr..End
        /\ Skip(Here).at = StartAfter(curr)
    BY <1>0, <2>1, NextSkip
  <2>4. End \in Nat BY <1>0, EndFacts
  <2>5. Skip(Here).at \in 1..End BY <2>1, <2>3, <2>4
  <2> QED BY <2>1, <2>2, <2>3, <2>5
<1> QED BY <1>1, <1>2

LEMMA StepKeeps == LexerInv /\ [Next]_vars => LexerInv'
<1> SUFFICES ASSUME LexerInv, [Next]_vars PROVE LexerInv' OBVIOUS
<1>1. CASE InitLexer \/ NextToken BY <1>1, CallFacts, NextTokenKeeps
<1>2. CASE ReadString BY <1>2, ReadStringKeeps
<1>3. CASE SyntaxError
  <2>1. /\ source' = source /\ curr' = curr /\ ln' = ln /\ col' = col
        /\ toks' = toks /\ consts' = consts /\ fault' = fault /\ status' = "stopped"
    BY <1>3 DEF SyntaxError
  <2>2. consts' \in Seq(Seq(Codes)) BY <2>1 DEF LexerInv
  <2> QED BY <2>1, <2>2, SameKeeps
<1>4. CASE UNCHANGED vars
  <2>1. /\ source' = source /\ curr' = curr /\ ln' = ln /\ col' = col
        /\ toks' = toks /\ consts' = consts /\ fault' = fault /\ status' = status
    BY <1>4 DEF vars
  <2>2. consts' \in Seq(Seq(Codes)) BY <2>1 DEF LexerInv
  <2> QED BY <2>1, <2>2, SameKeeps
<1> QED BY <1>1, <1>2, <1>3, <1>4 DEF Next

LEMMA Invariance == Spec => []LexerInv
<1>1. Init => LexerInv BY InitInv
<1>2. LexerInv /\ [Next]_vars => LexerInv' BY StepKeeps
<1> QED BY <1>1, <1>2, PTL DEF Spec

-----------------------------------------------------------------------------
(***************************************************************************)
(* Faults.                                                                 *)
(***************************************************************************)
\* No token can be at i: the number that starts there goes on after its end.
Stuck(i) ==
  /\ i \in Positions
  /\ \A j \in i..Len(source) : Lexeme(i, j) => CharAt(i) \in Digit /\ ~Bounded(i, j)

LEMMA MarkFacts ==
  /\ DOMAIN Marks = 1..Len(Marks) /\ Len(Marks) \in Nat
  /\ \A k \in 1..Len(Marks) : Marks[k] \in Range(Marks)
  /\ \A m \in Range(Marks) : \E k \in 1..Len(Marks) : m = Marks[k]
<1>1. DOMAIN Marks = 1..Len(Marks) BY DEF Marks
<1>2. Len(Marks) \in Nat BY DEF Marks
<1> QED BY <1>1, <1>2 DEF Range

\* Texts with the same characters begin each other.
LEMMA CharsFacts ==
  ASSUME NEW s, NEW t, Len(s) \in Nat \ {0}, Len(t) \in Nat \ {0}, Chars(s) = Chars(t)
  PROVE  Len(s) = Len(t) /\ Begins(s, t) /\ Begins(t, s)
<1> DEFINE a == Len(s)
           b == Len(t)
           f == Chars(s)
<1>1. /\ DOMAIN f = 1..a /\ \A k \in 1..a : f[k] = SubSeq(s, k, k)
      /\ DOMAIN f = 1..b /\ \A k \in 1..b : f[k] = SubSeq(t, k, k)
  <2>1. DOMAIN f = 1..a /\ \A k \in 1..a : f[k] = SubSeq(s, k, k) BY DEF Chars
  <2>2. f = [k \in 1..b |-> SubSeq(t, k, k)] BY DEF Chars
  <2> HIDE DEF f
  <2>3. DOMAIN f = 1..b /\ \A k \in 1..b : f[k] = SubSeq(t, k, k) BY <2>2
  <2> QED BY <2>1, <2>3
<1>2. a \in Nat \ {0} /\ b \in Nat \ {0} OBVIOUS
<1>3. Begins(s, t) <=> b <= a /\ \A k \in 1..b : SubSeq(s, k, k) = SubSeq(t, k, k)
  BY DEF Begins
<1>4. Begins(t, s) <=> a <= b /\ \A k \in 1..a : SubSeq(t, k, k) = SubSeq(s, k, k)
  BY DEF Begins
<1> HIDE DEF a, b, f
<1>5. a = b
  <2>1. a \in 1..b /\ b \in 1..a BY <1>1, <1>2
  <2> QED BY <1>2, <2>1
<1>6. \A k \in 1..a : SubSeq(s, k, k) = SubSeq(t, k, k) BY <1>1, <1>5
<1> QED BY <1>2, <1>3, <1>4, <1>5, <1>6 DEF a, b

\* A text stands where its characters are.
LEMMA TextLexeme ==
  ASSUME source \in Sources, NEW i \in Positions, NEW j \in i..Len(source),
         NEW t \in Range(Marks) \cup Keywords, Chars(t) = SubSeq(source, i, j)
  PROVE  LooksAt(i, t) /\ Len(t) = j - i + 1
<1>0. /\ source \in Seq(Char) /\ Len(source) \in Nat
      /\ \A m \in 1..Len(source) : CharAt(m) = source[m]
  BY EndFacts
<1> DEFINE s == SubSeq(source, i, j)
           a == Len(t)
           b == j - i + 1
<1>1. a \in Nat \ {0} BY TextsAssumption
<1>2. i \in 1..Len(source) /\ i <= j /\ j <= Len(source) /\ i \in Int /\ j \in Int
  BY <1>0 DEF Positions
<1>3. Len(s) = b /\ \A m \in 1..b : s[m] = source[i + m - 1]
  <2>1. \A m \in i..j : source[m] \in Char BY <1>0, <1>2
  <2>2. /\ Len(s) = IF i <= j THEN j - i + 1 ELSE 0
        /\ \A m \in 1..(j - i + 1) : s[m] = source[i + m - 1]
    BY <1>2, <2>1, SubSeqProperties
  <2> QED BY <1>2, <2>2
<1>4. DOMAIN s = 1..b
  <2>1. s \in Seq(Char) BY <1>0, <1>2
  <2> QED BY <1>3, <2>1
<1>5. DOMAIN s = 1..a /\ \A m \in 1..a : s[m] = SubSeq(t, m, m)
  <2>1. s = [m \in 1..a |-> SubSeq(t, m, m)] BY DEF Chars
  <2> HIDE DEF s
  <2> QED BY <2>1
<1> HIDE DEF s, a
<1>6. a = b
  <2>1. b \in Nat \ {0} BY <1>2
  <2> HIDE DEF b
  <2>2. a \in 1..b /\ b \in 1..a BY <1>1, <1>4, <1>5, <2>1
  <2> QED BY <1>1, <2>1, <2>2
<1>7. \A m \in 1..a : CharAt(i + m - 1) = SubSeq(t, m, m)
  <2> SUFFICES ASSUME NEW m \in 1..a PROVE CharAt(i + m - 1) = SubSeq(t, m, m)
    OBVIOUS
  <2>1. i + m - 1 \in 1..Len(source) BY <1>1, <1>2, <1>6
  <2>2. s[m] = source[i + m - 1] BY <1>3, <1>6
  <2> QED BY <1>0, <1>5, <2>1, <2>2
<1> QED BY <1>6, <1>7 DEF LooksAt, a

\* And has its characters where it stands.
LEMMA LexemeText ==
  ASSUME source \in Sources, NEW i \in Positions, NEW t \in Range(Marks) \cup Keywords,
         LooksAt(i, t)
  PROVE  /\ Len(t) \in Nat \ {0} /\ i + Len(t) - 1 \in i..Len(source)
         /\ Chars(t) = SubSeq(source, i, i + Len(t) - 1)
<1>0. /\ source \in Seq(Char) /\ Len(source) \in Nat /\ End = Len(source) + 1
      /\ \A m \in 1..Len(source) : CharAt(m) = source[m]
  BY EndFacts DEF End
<1> DEFINE a == Len(t)
           j == i + a - 1
           s == SubSeq(source, i, j)
<1>1. i \in 1..Len(source) /\ i \in 1..End BY <1>0 DEF Positions
<1>2. a \in Nat \ {0} /\ i + a <= End BY <1>1, LooksFacts
<1>3. j \in i..Len(source) /\ j \in Int /\ i \in Int BY <1>0, <1>1, <1>2
<1>4. s \in Seq(Char) /\ Len(s) = a /\ \A m \in 1..a : s[m] = source[i + m - 1]
  <2>1. \A m \in i..j : source[m] \in Char BY <1>0, <1>1, <1>3
  <2>2. j - i + 1 = a /\ i <= j BY <1>1, <1>2
  <2> HIDE DEF j
  <2>3. /\ Len(s) = IF i <= j THEN j - i + 1 ELSE 0
        /\ \A m \in 1..(j - i + 1) : s[m] = source[i + m - 1]
    BY <1>3, <2>1, SubSeqProperties
  <2>4. s \in Seq(Char) BY <1>0, <1>1, <1>3
  <2> QED BY <2>2, <2>3, <2>4
<1>5. \A m \in 1..a : s[m] = SubSeq(t, m, m)
  <2> SUFFICES ASSUME NEW m \in 1..a PROVE s[m] = SubSeq(t, m, m) OBVIOUS
  <2>1. CharAt(i + m - 1) = SubSeq(t, m, m) BY DEF LooksAt
  <2>2. i + m - 1 \in 1..Len(source) BY <1>0, <1>1, <1>2
  <2> QED BY <1>0, <1>4, <2>1, <2>2
<1>6. s = [m \in 1..a |-> SubSeq(t, m, m)]
  <2> HIDE DEF s, a
  <2>1. s = [m \in 1..a |-> s[m]] BY <1>4
  <2> QED BY <1>5, <2>1
<1> QED BY <1>2, <1>3, <1>6 DEF Chars

\* What begins with a mark begins nothing else.
LEMMA MarkStart ==
  ASSUME source \in Sources, NEW i \in Positions, NEW mark \in Range(Marks), LooksAt(i, mark)
  PROVE  CharAt(i) \notin Digit \cup WordStart \cup {Quote}
<1>1. /\ Len(mark) \in Nat \ {0}
      /\ SubSeq(mark, 1, 1) \notin Space \cup Digit \cup WordStart \cup {Quote}
  BY TextsAssumption
<1>2. i \in Nat /\ i + 1 - 1 = i BY EndFacts DEF Positions
<1>3. CharAt(i) = SubSeq(mark, 1, 1)
  <2>1. 1 \in 1..Len(mark) BY <1>1
  <2>2. CharAt(i + 1 - 1) = SubSeq(mark, 1, 1) BY <2>1 DEF LooksAt
  <2> QED BY <1>2, <2>2
<1> QED BY <1>1, <1>3

\* A lexeme begins with a mark, a digit, a quote or the start of a word.
LEMMA LexemeStart ==
  ASSUME source \in Sources, NEW i \in Positions, NEW j \in i..Len(source), Lexeme(i, j)
  PROVE  \/ /\ \E k \in 1..Len(Marks) : LooksAt(i, Marks[k]) /\ Len(Marks[k]) = j - i + 1
            /\ CharAt(i) \notin Digit \cup WordStart \cup {Quote}
         \/ IsNumber(i, j) /\ CharAt(i) \in Digit
         \/ IsString(i, j) /\ CharAt(i) = Quote
         \/ IsWord(i, j) /\ CharAt(i) \in WordStart
<1>0. i \in Nat /\ j \in Nat BY EndFacts DEF Positions
<1>1. CASE \E k \in 1..Len(Marks) : Chars(Marks[k]) = SubSeq(source, i, j)
  <2>1. PICK k \in 1..Len(Marks) : Chars(Marks[k]) = SubSeq(source, i, j) BY <1>1
  <2>2. PICK mark : mark = Marks[k] OBVIOUS
  <2>3. mark \in Range(Marks) /\ Chars(mark) = SubSeq(source, i, j) BY <2>1, <2>2, MarkFacts
  <2>4. LooksAt(i, mark) /\ Len(mark) = j - i + 1 BY <2>3, TextLexeme
  <2>5. CharAt(i) \notin Digit \cup WordStart \cup {Quote} BY <2>3, <2>4, MarkStart
  <2> QED BY <2>2, <2>4, <2>5
<1>2. CASE IsNumber(i, j)
  <2>1. PICK p \in i..j : Over(Digit, i, p) BY <1>2 DEF IsNumber
  <2>2. i \in i..p BY <1>0
  <2> QED BY <1>2, <2>1, <2>2 DEF Over
<1>3. CASE IsString(i, j) BY <1>3 DEF IsString
<1>4. CASE IsWord(i, j) BY <1>4 DEF IsWord
<1> QED BY <1>1, <1>2, <1>3, <1>4 DEF Lexeme

\* The signs of a number are no digits, and its exponent is written with a letter.
LEMMA SignFacts ==
  /\ "." \notin Digit /\ "+" \notin Digit /\ "-" \notin Digit
  /\ "e" \notin Digit /\ "E" \notin Digit /\ "." \notin WordPart
  /\ "e" \in Char => "e" \in WordPart
  /\ "E" \in Char => "E" \in WordPart
<1>1. /\ \A c : c \in Digit <=> c \in Char /\ Ascii[c] \in 48..57
      /\ \A c : c \in Letter <=> c \in Char /\ (Ascii[c] \in 65..90 \/ Ascii[c] \in 97..122)
  BY DEF Digit, Letter, InAscii
<1>2. \A c \in Char : /\ c = "+" => Ascii[c] = 43
                      /\ c = "-" => Ascii[c] = 45
                      /\ c = "." => Ascii[c] = 46
                      /\ c = "E" => Ascii[c] = 69
                      /\ c = "e" => Ascii[c] = 101
  BY AsciiAssumption
<1>3. "." \notin Digit /\ "+" \notin Digit /\ "-" \notin Digit BY <1>1, <1>2
<1>4. "e" \notin Digit /\ "E" \notin Digit BY <1>1, <1>2
<1>5. ("e" \in Char => "e" \in Letter) /\ ("E" \in Char => "E" \in Letter) BY <1>1, <1>2
<1>6. Letter \subseteq WordPart BY DEF WordPart, WordStart
<1>7. "." \notin WordPart
  <2>1. \A c \in Char : c = "." => Ascii[c] = 46 BY <1>2
  <2>2. WordPart = Letter \cup InAscii({95}) \cup Digit BY DEF WordPart, WordStart
  <2> QED BY <1>1, <2>1, <2>2 DEF InAscii
<1> QED BY <1>3, <1>4, <1>5, <1>6, <1>7

\* Where no two backslashes stand side by side, what follows one is escaped.
LEMMA EscapedFacts ==
  ASSUME source \in Sources, NoDoubledBackslash, NEW i \in Positions, NEW j \in Positions,
         CharAt(i) = Quote, i < j
  PROVE  Escaped(i, j) <=> CharAt(j - 1) = "\\"
<1>0. Len(source) \in Nat /\ i \in Nat /\ j \in Nat /\ i \in 1..Len(source) /\ j \in 1..Len(source)
  BY EndFacts DEF Positions
<1>1. Quote # "\\" BY Zenon DEF Quote
<1> DEFINE T == {m \in i..(j - 1) : CharAt(m) # "\\"}
<1>2. Escaped(i, j) <=> (j - 1 - Max(T)) % 2 = 1 BY DEF Escaped
<1>3. CASE CharAt(j - 1) = "\\"
  <2>1. j - 1 # i /\ j - 2 \in i..(j - 1) /\ j - 2 \in Positions /\ (j - 2) + 1 = j - 1
    <3>1. j - 1 # i BY <1>1, <1>3
    <3> QED BY <1>0, <3>1 DEF Positions
  <2>2. CharAt(j - 2) # "\\" BY <1>3, <2>1 DEF NoDoubledBackslash
  <2>3. T \subseteq 0..(j - 1) /\ j - 1 \in Nat /\ j - 2 \in T /\ j - 1 \notin T
    BY <1>0, <1>3, <2>1, <2>2
  <2> HIDE DEF T
  <2>4. Max(T) \in T /\ \A y \in T : Max(T) >= y BY <2>3, MaxFacts
  <2> DEFINE w == Max(T)
  <2>5. w \in 0..(j - 1) /\ w # j - 1 /\ w >= j - 2 BY <2>3, <2>4
  <2>6. Escaped(i, j) <=> (j - 1 - w) % 2 = 1 BY <1>2
  <2> HIDE DEF w
  <2>7. j - 1 - w = 1 BY <1>0, <2>3, <2>5
  <2>8. 1 % 2 = 1 OBVIOUS
  <2> QED BY <1>3, <2>6, <2>7, <2>8
<1>4. CASE CharAt(j - 1) # "\\"
  <2>1. T \subseteq 0..(j - 1) /\ j - 1 \in Nat /\ j - 1 \in T BY <1>0, <1>4
  <2> HIDE DEF T
  <2>2. Max(T) \in T /\ \A y \in T : Max(T) >= y BY <2>1, MaxFacts
  <2> DEFINE w == Max(T)
  <2>3. w \in 0..(j - 1) /\ w >= j - 1 BY <2>1, <2>2
  <2>4. Escaped(i, j) <=> (j - 1 - w) % 2 = 1 BY <1>2
  <2> HIDE DEF w
  <2>5. j - 1 - w = 0 BY <1>0, <2>1, <2>3
  <2>6. 0 % 2 = 0 OBVIOUS
  <2> QED BY <1>4, <2>4, <2>5, <2>6
<1> QED BY <1>3, <1>4

\* Where match_string stops.
StringEnd(i) == Min({k \in (i + 1)..(Len(source) + 1) : Stops(k)})

LEMMA StringEndFacts ==
  ASSUME source \in Sources, NEW i \in Positions
  PROVE  /\ StringEnd(i) \in (i + 1)..End /\ Stops(StringEnd(i))
         /\ \A k \in (i + 1)..(StringEnd(i) - 1) : ~Stops(k)
<1> DEFINE S == {k \in (i + 1)..(Len(source) + 1) : Stops(k)}
<1>0. /\ End \in Nat /\ CharAt(End) = NUL /\ i \in Nat /\ End = Len(source) + 1
      /\ Len(source) \in Nat /\ i \in 1..Len(source)
  BY EndFacts DEF End, Positions
<1>1. End \in S /\ S \subseteq Nat BY <1>0 DEF Stops
<1>2. \A k : k \in S <=> k \in (i + 1)..End /\ Stops(k) BY <1>0
<1>3. StringEnd(i) = Min(S) BY DEF StringEnd
<1> HIDE DEF S
<1>4. StringEnd(i) \in S /\ \A k \in S : StringEnd(i) <= k BY <1>1, <1>3, MinFacts
<1>5. StringEnd(i) \in (i + 1)..End /\ Stops(StringEnd(i)) BY <1>2, <1>4
<1>6. \A k \in (i + 1)..(StringEnd(i) - 1) : k \in (i + 1)..End /\ ~(StringEnd(i) <= k)
  BY <1>0, <1>5
<1> QED BY <1>2, <1>4, <1>5, <1>6

\* Where match_string fails there is no string: the newline or NUL it stops at is
\* in none, and the quotes it passes are escaped.
LEMMA StringStuck ==
  ASSUME source \in Sources, NoDoubledBackslash, NEW p, p.at \in Positions,
         CharAt(p.at) = Quote, MatchString(p).tok = <<>>
  PROVE  \A j \in p.at..Len(source) : ~IsString(p.at, j)
<1>1. PICK i : i = p.at OBVIOUS
<1>2. PICK stop : stop = StringEnd(i) OBVIOUS
<1>3. PICK q : q = Reach(p, stop) OBVIOUS
<1>4. CharAt(stop) # Quote
  <2>1. MatchString(p) = IF CharAt(stop) # Quote THEN FaultAt(q, q)
                         ELSE [tok |-> <<Token(q, "string", p.at + 1, stop - 1)>>,
                               after |-> NextChar(q), fault |-> NoFault]
    BY <1>1, <1>2, <1>3 DEF MatchString, StringEnd
  <2> QED BY <2>1
<1>5. /\ stop \in (i + 1)..End /\ Stops(stop)
      /\ \A k \in (i + 1)..(stop - 1) : ~Stops(k)
  BY <1>1, <1>2, StringEndFacts
<1>6. CharAt(stop) \in {"\n", NUL} BY <1>4, <1>5 DEF Stops
<1> SUFFICES ASSUME NEW j \in i..Len(source), IsString(i, j) PROVE FALSE BY <1>1
<1>7. /\ i < j /\ CharAt(i) = Quote /\ CharAt(j) = Quote /\ ~Escaped(i, j)
      /\ \A k \in (i + 1)..(j - 1) : CharAt(k) # "\n"
  BY DEF IsString
<1>8. /\ End = Len(source) + 1 /\ Len(source) \in Nat /\ i \in 1..Len(source)
      /\ j \in 1..Len(source) /\ i \in Nat /\ j \in Nat /\ stop \in Nat
  BY <1>1, <1>5, EndFacts DEF End, Positions
<1>9. j < stop
  <2>1. stop # j BY <1>6, <1>7, QuoteFacts
  <2>2. ASSUME stop < j PROVE FALSE
    <3>1. stop \in (i + 1)..(j - 1) /\ stop \in 1..Len(source) BY <1>5, <1>8, <2>2
    <3>2. CharAt(stop) # "\n" BY <1>7, <3>1
    <3>3. CharAt(stop) # NUL BY <1>1, <3>1, EndFacts
    <3> QED BY <1>6, <3>2, <3>3
  <2> QED BY <1>8, <2>1, <2>2
<1>10. CharAt(j - 1) = "\\"
  <2>1. j \in (i + 1)..(stop - 1) BY <1>7, <1>8, <1>9
  <2>2. ~Stops(j) BY <1>5, <2>1
  <2> QED BY <1>7, <2>2 DEF Stops
<1>11. Escaped(i, j) <=> CharAt(j - 1) = "\\"
  BY <1>1, <1>7, <1>8, EscapedFacts DEF Positions
<1> QED BY <1>7, <1>10, <1>11

\* The numbers that start at i: where the digits end, where those after a point do,
\* where the digits of an exponent begin and end.
Whole(i) == RunEnd(Digit, i)
Point(i) == CharAt(Whole(i)) = "." /\ CharAt(Whole(i) + 1) \in Digit
Frac(i)  == IF Point(i) THEN RunEnd(Digit, Whole(i) + 1) ELSE Whole(i)
Sign(i)  == IF CharAt(Frac(i) + 1) \in {"+", "-"} THEN Frac(i) + 2 ELSE Frac(i) + 1
Exp(i)   == CharAt(Frac(i)) \in {"e", "E"} /\ CharAt(Sign(i)) \in Digit
Power(i) == RunEnd(Digit, Sign(i))

LEMMA NumberRuns ==
  ASSUME source \in Sources, NEW i \in Positions, CharAt(i) \in Digit
  PROVE  /\ Whole(i) \in (i + 1)..End /\ CharAt(Whole(i)) \notin Digit
         /\ \A k \in i..(Whole(i) - 1) : CharAt(k) \in Digit
         /\ Point(i) => /\ Frac(i) \in (Whole(i) + 2)..End
                        /\ \A k \in (Whole(i) + 1)..(Frac(i) - 1) : CharAt(k) \in Digit
         /\ ~Point(i) => Frac(i) = Whole(i)
         /\ Frac(i) \in Whole(i)..End /\ CharAt(Frac(i)) \notin Digit
         /\ Exp(i) => /\ Sign(i) \in (Frac(i) + 1)..End /\ Power(i) \in (Sign(i) + 1)..End
                      /\ CharAt(Power(i)) \notin Digit
                      /\ \A k \in Sign(i)..(Power(i) - 1) : CharAt(k) \in Digit
<1>0. /\ End \in Nat /\ i \in Nat /\ End = Len(source) + 1
      /\ Len(source) \in Nat /\ i \in 1..End
  BY EndFacts DEF End, Positions
<1>1. NUL \notin Digit /\ \A k : CharAt(k) \in Digit => k \in 1..End
  <2>1. NUL \notin Digit BY ClassFacts
  <2>2. \A k : CharAt(k) \in Digit => k \in 1..Len(source) BY <2>1, EndFacts
  <2> QED BY <1>0, <2>1, <2>2
<1>2. \A k \in 1..End : CharAt(k) \in Digit =>
        /\ RunEnd(Digit, k) \in (k + 1)..End /\ CharAt(RunEnd(Digit, k)) \notin Digit
        /\ \A l \in k..(RunEnd(Digit, k) - 1) : CharAt(l) \in Digit
  <2> SUFFICES ASSUME NEW k \in 1..End, CharAt(k) \in Digit
               PROVE  /\ RunEnd(Digit, k) \in (k + 1)..End
                      /\ CharAt(RunEnd(Digit, k)) \notin Digit
                      /\ \A l \in k..(RunEnd(Digit, k) - 1) : CharAt(l) \in Digit
    OBVIOUS
  <2>1. /\ RunEnd(Digit, k) \in k..End /\ CharAt(RunEnd(Digit, k)) \notin Digit
        /\ \A l \in k..(RunEnd(Digit, k) - 1) : CharAt(l) \in Digit
    BY <1>1, RunEndFacts
  <2>2. RunEnd(Digit, k) # k BY <2>1
  <2> QED BY <1>0, <2>1, <2>2
<1>3. /\ Whole(i) \in (i + 1)..End /\ CharAt(Whole(i)) \notin Digit
      /\ \A k \in i..(Whole(i) - 1) : CharAt(k) \in Digit
  BY <1>0, <1>2 DEF Whole
<1>4. Point(i) => /\ Frac(i) \in (Whole(i) + 2)..End /\ CharAt(Frac(i)) \notin Digit
                  /\ \A k \in (Whole(i) + 1)..(Frac(i) - 1) : CharAt(k) \in Digit
  <2> SUFFICES ASSUME Point(i)
               PROVE  /\ Frac(i) \in (Whole(i) + 2)..End /\ CharAt(Frac(i)) \notin Digit
                      /\ \A k \in (Whole(i) + 1)..(Frac(i) - 1) : CharAt(k) \in Digit
    OBVIOUS
  <2>1. Frac(i) = RunEnd(Digit, Whole(i) + 1) BY DEF Frac
  <2>2. CharAt(Whole(i) + 1) \in Digit BY DEF Point
  <2>3. Whole(i) + 1 \in 1..End BY <1>1, <2>2
  <2>4. (Whole(i) + 1) + 1 = Whole(i) + 2 BY <1>0, <1>3
  <2> QED BY <1>2, <2>1, <2>2, <2>3, <2>4
<1>5. ~Point(i) => Frac(i) = Whole(i) BY DEF Frac
<1>6. Frac(i) \in Whole(i)..End /\ CharAt(Frac(i)) \notin Digit
  BY <1>0, <1>3, <1>4, <1>5
<1>7. Exp(i) => /\ Sign(i) \in (Frac(i) + 1)..End /\ Power(i) \in (Sign(i) + 1)..End
                /\ CharAt(Power(i)) \notin Digit
                /\ \A k \in Sign(i)..(Power(i) - 1) : CharAt(k) \in Digit
  <2> SUFFICES ASSUME Exp(i)
               PROVE  /\ Sign(i) \in (Frac(i) + 1)..End /\ Power(i) \in (Sign(i) + 1)..End
                      /\ CharAt(Power(i)) \notin Digit
                      /\ \A k \in Sign(i)..(Power(i) - 1) : CharAt(k) \in Digit
    OBVIOUS
  <2>1. CharAt(Sign(i)) \in Digit BY DEF Exp
  <2>2. Sign(i) \in 1..End BY <1>1, <2>1
  <2>3. Sign(i) = Frac(i) + 1 \/ Sign(i) = Frac(i) + 2 BY DEF Sign
  <2>4. Sign(i) \in (Frac(i) + 1)..End BY <1>0, <1>3, <1>6, <2>2, <2>3
  <2> QED BY <1>2, <2>1, <2>2, <2>4 DEF Power
<1> QED BY <1>3, <1>4, <1>5, <1>6, <1>7

\* Every number ends among its digits, those of its fraction or of its exponent.
LEMMA NumberEnds ==
  ASSUME source \in Sources, NEW i \in Positions, CharAt(i) \in Digit,
         NEW j \in i..Len(source), IsNumber(i, j)
  PROVE  \/ j \in i..(Whole(i) - 1)
         \/ Point(i) /\ j \in (Whole(i) + 1)..(Frac(i) - 1)
         \/ Exp(i) /\ j \in Sign(i)..(Power(i) - 1)
<1>0. /\ End \in Nat /\ i \in Nat /\ j \in Nat /\ End = Len(source) + 1 /\ Len(source) \in Nat
  BY EndFacts DEF End, Positions
<1>1. /\ Whole(i) \in (i + 1)..End /\ CharAt(Whole(i)) \notin Digit
      /\ \A k \in i..(Whole(i) - 1) : CharAt(k) \in Digit
      /\ Point(i) => /\ Frac(i) \in (Whole(i) + 2)..End
                     /\ \A k \in (Whole(i) + 1)..(Frac(i) - 1) : CharAt(k) \in Digit
      /\ ~Point(i) => Frac(i) = Whole(i)
      /\ Frac(i) \in Whole(i)..End /\ CharAt(Frac(i)) \notin Digit
  BY NumberRuns
<1>2. PICK n \in i..j, q \in i..j :
        /\ n <= q /\ Over(Digit, i, n)
        /\ q = n \/ (CharAt(n + 1) = "." /\ n + 2 <= q /\ Over(Digit, n + 2, q))
        /\ \/ q = j
           \/ /\ CharAt(q + 1) \in {"e", "E"}
              /\ \E r \in {q + 2} \cup {k \in {q + 3} : CharAt(q + 2) \in {"+", "-"}} :
                   r <= j /\ Over(Digit, r, j)
  BY DEF IsNumber
<1>3. Whole(i) \in Nat /\ Frac(i) \in Nat /\ n \in Nat /\ q \in Nat BY <1>0, <1>1
<1>4. n < Whole(i)
  <2> SUFFICES ASSUME Whole(i) <= n PROVE FALSE BY <1>3
  <2>1. Whole(i) \in i..n BY <1>0, <1>1, <1>3
  <2> QED BY <1>1, <1>2, <2>1 DEF Over
<1>5. q = n \/ (Point(i) /\ q \in (Whole(i) + 1)..(Frac(i) - 1))
  <2> SUFFICES ASSUME q # n
               PROVE  Point(i) /\ q \in (Whole(i) + 1)..(Frac(i) - 1)
    OBVIOUS
  <2>1. CharAt(n + 1) = "." /\ n + 2 <= q /\ Over(Digit, n + 2, q) BY <1>2
  <2>2. CharAt(n + 1) \notin Digit BY <2>1, SignFacts
  <2>3. n + 1 \notin i..(Whole(i) - 1) BY <1>1, <2>2
  <2>4. n + 1 = Whole(i) BY <1>0, <1>2, <1>3, <1>4, <2>3
  <2>5. Point(i)
    <3>1. n + 2 \in (n + 2)..q /\ n + 2 = Whole(i) + 1 BY <1>3, <2>1, <2>4
    <3>2. CharAt(Whole(i) + 1) \in Digit BY <2>1, <3>1 DEF Over
    <3> QED BY <2>1, <2>4, <3>2 DEF Point
  <2>6. q < Frac(i)
    <3> SUFFICES ASSUME Frac(i) <= q PROVE FALSE BY <1>3
    <3>1. Frac(i) \in (n + 2)..q BY <1>1, <1>3, <2>4, <2>5
    <3> QED BY <1>1, <2>1, <3>1 DEF Over
  <2> QED BY <1>3, <2>1, <2>4, <2>5, <2>6
<1>6. CASE q = j
  <2>1. q = n => j \in i..(Whole(i) - 1) BY <1>0, <1>3, <1>4, <1>6
  <2> QED BY <1>5, <1>6, <2>1
<1>7. CASE q # j
  <2>1. CharAt(q + 1) \in {"e", "E"} BY <1>2, <1>7
  <2>2. PICK r \in {q + 2} \cup {k \in {q + 3} : CharAt(q + 2) \in {"+", "-"}} :
          r <= j /\ Over(Digit, r, j)
    BY <1>2, <1>7
  <2>3. CharAt(q + 1) \notin Digit BY <2>1, SignFacts
  <2>4. q + 1 = Frac(i)
    <3>1. CASE q = n
      <4>1. q + 1 \notin i..(Whole(i) - 1) BY <1>1, <2>3
      <4>2. q + 1 = Whole(i) BY <1>0, <1>3, <1>4, <3>1, <4>1
      <4>3. "." # "e" /\ "." # "E" OBVIOUS
      <4>4. ~Point(i) BY <2>1, <4>2, <4>3 DEF Point
      <4> QED BY <1>1, <4>2, <4>4
    <3>2. CASE Point(i) /\ q \in (Whole(i) + 1)..(Frac(i) - 1)
      <4>1. q + 1 \notin (Whole(i) + 1)..(Frac(i) - 1) BY <1>1, <2>3, <3>2
      <4> QED BY <1>3, <3>2, <4>1
    <3> QED BY <1>5, <3>1, <3>2
  <2>5. r \in Nat /\ r <= j /\ CharAt(r) \in Digit
    <3>1. r = q + 2 \/ r = q + 3 BY <2>2
    <3>2. r \in Nat BY <1>3, <3>1
    <3>3. r \in r..j BY <1>0, <2>2, <3>2
    <3> QED BY <2>2, <3>2, <3>3 DEF Over
  <2>6. r = Sign(i)
    <3>1. q + 2 = Frac(i) + 1 /\ q + 3 = Frac(i) + 2 BY <1>3, <2>4
    <3>2. CASE r = q + 2
      <4>1. CharAt(Frac(i) + 1) \in Digit BY <2>5, <3>1, <3>2
      <4>2. CharAt(Frac(i) + 1) \notin {"+", "-"} BY <4>1, SignFacts
      <4> QED BY <3>1, <3>2, <4>2 DEF Sign
    <3>3. CASE r = q + 3 /\ CharAt(q + 2) \in {"+", "-"}
      <4>1. CharAt(Frac(i) + 1) \in {"+", "-"} BY <3>1, <3>3
      <4> QED BY <3>1, <3>3, <4>1 DEF Sign
    <3> QED BY <2>2, <3>2, <3>3
  <2>7. Exp(i) BY <2>1, <2>4, <2>5, <2>6 DEF Exp
  <2>8. /\ Sign(i) \in (Frac(i) + 1)..End /\ Power(i) \in (Sign(i) + 1)..End
        /\ CharAt(Power(i)) \notin Digit
    BY <2>7, NumberRuns
  <2>9. Sign(i) \in Nat /\ Power(i) \in Nat /\ Sign(i) <= j BY <1>0, <1>3, <2>5, <2>6, <2>8
  <2>10. j < Power(i)
    <3> SUFFICES ASSUME Power(i) <= j PROVE FALSE BY <1>0, <2>9
    <3>1. Power(i) \in r..j BY <1>0, <2>6, <2>8, <2>9
    <3> QED BY <2>2, <2>8, <3>1 DEF Over
  <2>11. j \in Sign(i)..(Power(i) - 1) BY <1>0, <2>9, <2>10
  <2> QED BY <2>7, <2>11
<1> QED BY <1>6, <1>7

\* What match_number makes of it.
LEMMA PartsFacts ==
  ASSUME source \in Sources, NEW p, p.at \in Positions, CharAt(p.at) \in Digit
  PROVE  LET n == NumberParts(p)
             i == p.at
         IN  /\ n.whole = Whole(i)
             /\ n.cut => CharAt(Whole(i)) = "." /\ ~Point(i) /\ ~Exp(i)
             /\ ~n.cut => (CharAt(Whole(i)) = "." => Point(i))
             /\ ~n.cut /\ n.bad => CharAt(Frac(i)) \in {"e", "E"} /\ ~Exp(i)
             /\ ~n.cut /\ ~n.bad =>
                  /\ n.end = IF Exp(i) THEN Power(i) ELSE Frac(i)
                  /\ ~Exp(i) => CharAt(Frac(i)) \notin {"e", "E"}
<1> DEFINE i     == p.at
           whole == RunEnd(Digit, p.at)
           point == CharAt(whole) = "."
           cut   == point /\ CharAt(whole + 1) \notin Digit
           frac  == IF point THEN RunEnd(Digit, whole + 1) ELSE whole
           exp   == CharAt(frac) \in {"e", "E"}
           sign  == IF CharAt(frac + 1) \in {"+", "-"} THEN frac + 2 ELSE frac + 1
           bad   == exp /\ CharAt(sign) \notin Digit
           end   == IF bad THEN sign ELSE IF exp THEN RunEnd(Digit, sign) ELSE frac
           n     == NumberParts(p)
<1>1. n.whole = whole /\ n.cut = cut /\ n.end = end /\ n.bad = bad BY DEF NumberParts
<1>2. whole = Whole(i) BY DEF Whole
<1>3. Point(i) <=> point /\ CharAt(whole + 1) \in Digit BY <1>2 DEF Point
<1>4. ~cut => frac = Frac(i) BY <1>2, <1>3 DEF Frac
<1>5. frac = Frac(i) => sign = Sign(i) BY DEF Sign
<1>6. cut => CharAt(Whole(i)) = "." /\ ~Point(i) BY <1>2, <1>3
<1>7. cut => ~Exp(i)
  <2>1. "." # "e" /\ "." # "E" OBVIOUS
  <2>2. ~Point(i) => Frac(i) = Whole(i) BY DEF Frac
  <2> HIDE DEF cut
  <2> QED BY <1>6, <2>1, <2>2 DEF Exp
<1>8. ~cut => (CharAt(Whole(i)) = "." => Point(i)) BY <1>2, <1>3
<1>9. frac = Frac(i) => /\ exp <=> CharAt(Frac(i)) \in {"e", "E"}
                        /\ bad <=> CharAt(Frac(i)) \in {"e", "E"} /\ ~Exp(i)
  BY <1>5 DEF Exp
<1>10. frac = Frac(i) /\ ~bad => end = IF Exp(i) THEN Power(i) ELSE Frac(i)
  <2>1. end = IF bad THEN sign ELSE IF exp THEN RunEnd(Digit, sign) ELSE frac OBVIOUS
  <2>2. Power(i) = RunEnd(Digit, Sign(i)) BY DEF Power
  <2>3. Exp(i) => CharAt(Frac(i)) \in {"e", "E"} BY DEF Exp
  <2> HIDE DEF whole, point, cut, frac, exp, sign, bad, end, i
  <2> SUFFICES ASSUME frac = Frac(i), ~bad
               PROVE  end = IF Exp(i) THEN Power(i) ELSE Frac(i)
    OBVIOUS
  <2>4. sign = Sign(i) /\ (exp <=> Exp(i)) BY <1>5, <1>9, <2>3
  <2>5. end = IF Exp(i) THEN RunEnd(Digit, sign) ELSE frac BY <2>1, <2>4
  <2> QED BY <2>2, <2>4, <2>5
<1> HIDE DEF whole, point, cut, frac, exp, sign, bad, end
<1>11. ~cut /\ bad => CharAt(Frac(i)) \in {"e", "E"} /\ ~Exp(i) BY <1>4, <1>9
<1>12. ~cut /\ ~bad => /\ end = IF Exp(i) THEN Power(i) ELSE Frac(i)
                       /\ ~Exp(i) => CharAt(Frac(i)) \notin {"e", "E"}
  BY <1>4, <1>9, <1>10
<1> HIDE DEF n, i
<1>13. /\ n.whole = Whole(i)
       /\ n.cut => CharAt(Whole(i)) = "." /\ ~Point(i) /\ ~Exp(i)
       /\ ~n.cut => (CharAt(Whole(i)) = "." => Point(i))
       /\ ~n.cut /\ n.bad => CharAt(Frac(i)) \in {"e", "E"} /\ ~Exp(i)
       /\ ~n.cut /\ ~n.bad =>
            /\ n.end = IF Exp(i) THEN Power(i) ELSE Frac(i)
            /\ ~Exp(i) => CharAt(Frac(i)) \notin {"e", "E"}
  BY <1>1, <1>2, <1>6, <1>7, <1>8, <1>11, <1>12, Zenon
<1> QED BY <1>13 DEF n, i

\* Where match_number fails, every number there goes on: with a digit, with the
\* point and a digit, or with a letter.
LEMMA NumberStuck ==
  ASSUME source \in Sources, NEW p, p.at \in Positions, CharAt(p.at) \in Digit,
         MatchNumber(p).tok = <<>>
  PROVE  \A j \in p.at..Len(source) : IsNumber(p.at, j) => ~Bounded(p.at, j)
<1> DEFINE n == NumberParts(p)
<1>1. ~n.cut /\ (n.bad \/ CharAt(n.end) \in WordStart)
  <2>1. MatchNumber(p) =
          IF n.cut THEN Found(p, "number", n.whole)
          ELSE IF n.bad \/ CharAt(n.end) \in WordStart
               THEN FaultAt([at |-> n.end, ln |-> p.ln, col |-> p.col + (n.end - p.at)], p)
               ELSE Found(p, "number", n.end)
    BY DEF MatchNumber
  <2>2. \A e : Found(p, "number", e).tok # <<>> BY DEF Found
  <2> HIDE DEF n
  <2> QED BY <2>1, <2>2
<1>2. PICK i : i = p.at OBVIOUS
<1>3. /\ CharAt(Whole(i)) = "." => Point(i)
      /\ n.bad => CharAt(Frac(i)) \in {"e", "E"} /\ ~Exp(i)
      /\ ~n.bad => n.end = IF Exp(i) THEN Power(i) ELSE Frac(i)
  BY <1>1, <1>2, PartsFacts
<1> HIDE DEF n
<1>4. /\ Digit \subseteq WordPart /\ WordStart \subseteq WordPart /\ i \in Positions
      /\ CharAt(i) \in Digit
  BY <1>2, ClassFacts
<1>5. ~Exp(i) => CharAt(Frac(i)) \in WordPart
  <2>1. CharAt(Frac(i)) \in {"e", "E"} => CharAt(Frac(i)) \in WordPart
    <3>1. "e" # NUL /\ "E" # NUL BY DEF NUL
    <3> SUFFICES ASSUME CharAt(Frac(i)) \in {"e", "E"} PROVE CharAt(Frac(i)) \in WordPart
      OBVIOUS
    <3>2. CharAt(Frac(i)) \in Char BY <3>1, EndFacts
    <3> QED BY <3>2, SignFacts
  <2> QED BY <1>1, <1>3, <1>4, <2>1
<1>6. Exp(i) => CharAt(Power(i)) \in WordPart /\ CharAt(Frac(i)) \in WordPart
  <2>1. "e" # NUL /\ "E" # NUL BY DEF NUL
  <2> SUFFICES ASSUME Exp(i)
               PROVE  CharAt(Power(i)) \in WordPart /\ CharAt(Frac(i)) \in WordPart
    OBVIOUS
  <2>2. CharAt(Power(i)) \in WordPart BY <1>1, <1>3, <1>4
  <2>3. CharAt(Frac(i)) \in {"e", "E"} BY DEF Exp
  <2>4. CharAt(Frac(i)) \in Char BY <2>1, <2>3, EndFacts
  <2> QED BY <2>2, <2>3, <2>4, SignFacts
<1>7. CharAt(Frac(i)) \in WordPart BY <1>5, <1>6
<1>8. /\ End \in Nat /\ i \in Nat /\ Len(source) \in Nat
      /\ Whole(i) \in (i + 1)..End /\ Frac(i) \in Whole(i)..End
      /\ \A k \in i..(Whole(i) - 1) : CharAt(k) \in Digit
      /\ Point(i) => /\ Frac(i) \in (Whole(i) + 2)..End
                     /\ \A k \in (Whole(i) + 1)..(Frac(i) - 1) : CharAt(k) \in Digit
      /\ ~Point(i) => Frac(i) = Whole(i)
  BY <1>4, NumberRuns, EndFacts DEF Positions
<1> SUFFICES ASSUME NEW j \in i..Len(source), IsNumber(i, j) PROVE ~Bounded(i, j)
  BY <1>2
<1>9. j \in Nat /\ Whole(i) \in Nat /\ Frac(i) \in Nat BY <1>8
<1>10. CASE j \in i..(Whole(i) - 1)
  <2>1. CASE j + 1 = Whole(i) /\ Point(i)
    <3>1. j + 2 = Whole(i) + 1 BY <1>9, <2>1
    <3>2. CharAt(j + 1) = "." /\ CharAt(j + 2) \in Digit BY <2>1, <3>1 DEF Point
    <3>3. Over(Digit, i, j) BY <1>8, <1>9, <1>10 DEF Over
    <3> QED BY <3>2, <3>3 DEF Bounded
  <2>2. CASE j + 1 = Whole(i) /\ ~Point(i)
    <3>1. CharAt(j + 1) \in WordPart BY <1>7, <1>8, <2>2
    <3> QED BY <3>1 DEF Bounded
  <2>3. CASE j + 1 # Whole(i)
    <3>1. j + 1 \in i..(Whole(i) - 1) BY <1>8, <1>9, <1>10, <2>3
    <3>2. CharAt(j + 1) \in WordPart BY <1>4, <1>8, <3>1
    <3> QED BY <3>2 DEF Bounded
  <2> QED BY <2>1, <2>2, <2>3
<1>11. CASE Point(i) /\ j \in (Whole(i) + 1)..(Frac(i) - 1)
  <2>1. j + 1 = Frac(i) \/ j + 1 \in (Whole(i) + 1)..(Frac(i) - 1) BY <1>9, <1>11
  <2>2. CharAt(j + 1) \in WordPart BY <1>4, <1>7, <1>8, <1>11, <2>1
  <2> QED BY <2>2 DEF Bounded
<1>12. CASE Exp(i) /\ j \in Sign(i)..(Power(i) - 1)
  <2>1. /\ Sign(i) \in (Frac(i) + 1)..End /\ Power(i) \in (Sign(i) + 1)..End
        /\ \A k \in Sign(i)..(Power(i) - 1) : CharAt(k) \in Digit
    BY <1>4, <1>12, NumberRuns
  <2>2. j + 1 = Power(i) \/ j + 1 \in Sign(i)..(Power(i) - 1)
    <3>1. Sign(i) \in Nat /\ Power(i) \in Nat BY <1>8, <1>9, <2>1
    <3> QED BY <1>9, <1>12, <3>1
  <2>3. CharAt(j + 1) \in WordPart BY <1>4, <1>6, <1>12, <2>1, <2>2
  <2> QED BY <2>3 DEF Bounded
<1> QED BY <1>4, <1>10, <1>11, <1>12, NumberEnds

\* A match finds nothing only where nothing can be found.
LEMMA RefusedStuck ==
  ASSUME source \in Sources, NoDoubledBackslash, NEW p, Exact(p), p.at \in 1..End,
         Match(p).tok = <<>>
  PROVE  Stuck(p.at)
<1> DEFINE c == CharAt(p.at)
<1>0. Len(source) \in Nat /\ End = Len(source) + 1 BY EndFacts DEF End
<1>1. /\ \A kind, end : Found(p, kind, end).tok # <<>>
      /\ IsMark(p) => MatchMark(p).tok # <<>>
      /\ MatchWord(p).tok # <<>>
  BY DEF Found, MatchMark, MatchWord
<1>2. \/ c \in Digit /\ MatchNumber(p).tok = <<>>
      \/ c = Quote /\ MatchString(p).tok = <<>>
      \/ c # NUL /\ ~IsMark(p) /\ c \notin Digit \cup WordStart \cup {Quote}
  <2>1. \/ Match(p) = Found(p, "eof", p.at + 1)
        \/ IsMark(p) /\ Match(p) = MatchMark(p)
        \/ c \in Digit /\ Match(p) = MatchNumber(p)
        \/ c = Quote /\ Match(p) = MatchString(p)
        \/ c \in WordStart /\ Match(p) = MatchWord(p)
        \/ c # NUL /\ ~IsMark(p) /\ c \notin Digit \cup WordStart \cup {Quote}
    BY DEF Match
  <2> QED BY <1>1, <2>1
<1>3. p.at \in Positions
  <2>1. c # NUL BY <1>2, ClassFacts, QuoteFacts
  <2> QED BY <2>1, EndFacts DEF Positions
<1> SUFFICES ASSUME NEW j \in p.at..Len(source), Lexeme(p.at, j)
             PROVE  c \in Digit /\ ~Bounded(p.at, j)
  BY <1>3 DEF Stuck
<1>4. \/ c \notin Digit \cup WordStart \cup {Quote} /\ IsMark(p)
      \/ IsNumber(p.at, j) /\ c \in Digit
      \/ IsString(p.at, j) /\ c = Quote
      \/ IsWord(p.at, j) /\ c \in WordStart
  <2>1. (\E k \in 1..Len(Marks) : LooksAt(p.at, Marks[k]) /\ Len(Marks[k]) = j - p.at + 1)
        => IsMark(p)
    BY DEF IsMark
  <2> QED BY <1>3, <2>1, LexemeStart
<1>5. Quote \notin Digit \cup WordStart /\ Digit \cap WordStart = {} BY ClassFacts
<1>6. c = Quote /\ MatchString(p).tok = <<>> => ~IsString(p.at, j)
  BY <1>3, StringStuck
<1>7. c \in Digit /\ MatchNumber(p).tok = <<>> /\ IsNumber(p.at, j) => ~Bounded(p.at, j)
  BY <1>3, NumberStuck
<1> HIDE DEF c
<1> QED BY <1>2, <1>4, <1>5, <1>6, <1>7

LEMMA SameText ==
  ASSUME source' = source
  PROVE  /\ \A k : CharAt(k)' = CharAt(k)
         /\ \A i, j : /\ Lexeme(i, j)' <=> Lexeme(i, j)
                      /\ Bounded(i, j)' <=> Bounded(i, j)
                      /\ KindOf(i, j)' = KindOf(i, j)
<1>1. \A k : CharAt(k)' = CharAt(k) BY DEF CharAt
<1>2. \A i, j : IsNumber(i, j)' <=> IsNumber(i, j) BY <1>1 DEF IsNumber, Over
<1>3. \A i, k : Escaped(i, k)' <=> Escaped(i, k) BY <1>1 DEF Escaped
<1>4. \A i, j : IsString(i, j)' <=> IsString(i, j) BY <1>1, <1>3 DEF IsString
<1>5. \A i, j : IsWord(i, j)' <=> IsWord(i, j) BY <1>1 DEF IsWord, Over
<1>6. \A i, j : Lexeme(i, j)' <=> Lexeme(i, j) BY <1>2, <1>4, <1>5 DEF Lexeme
<1>7. \A i, j : Bounded(i, j)' <=> Bounded(i, j) BY <1>1 DEF Bounded, Over
<1>8. \A i, j : KindOf(i, j)' = KindOf(i, j) BY <1>1 DEF KindOf
<1> QED BY <1>1, <1>6, <1>7, <1>8

LEMMA SameStuck ==
  ASSUME source' = source, NEW i, Stuck(i)
  PROVE  Stuck(i)'
BY SameText DEF Stuck, Positions

\* A call of rak_lexer_next from q that gives no token.
LEMMA FaultStuck ==
  ASSUME LexerInv, NEW q, NextTokenFrom(q), Exact(Skip(q)), Skip(q).at \in 1..End,
         Skip(q).at = StartAfter(EndOf(Len(toks)) + 1)
  PROVE  FaultsRight'
<1>1. source \in Sources /\ toks \o <<>> = toks BY DEF LexerInv
<1>2. PICK p : p = Skip(q) OBVIOUS
<1>3. PICK m : m = Match(p) OBVIOUS
<1>4. PICK start : start = EndOf(Len(toks)) + 1 OBVIOUS
<1>5. /\ toks' = toks \o m.tok /\ source' = source
      /\ status' = IF m.tok = <<>> THEN "error"
                   ELSE IF m.tok[1].kind = "eof" THEN "eof" ELSE "running"
  BY <1>2, <1>3 DEF NextTokenFrom
<1>6. p.at = StartAfter(start) /\ p.at \in 1..End /\ Exact(p) BY <1>2, <1>4
<1> SUFFICES ASSUME status' = "error", NoDoubledBackslash'
             PROVE  Stuck(StartAfter(EndOf(Len(toks)) + 1))'
  BY DEF FaultsRight, Stuck
<1>7. m.tok = <<>> BY <1>5
<1>8. toks' = toks BY <1>1, <1>5, <1>7
<1>9. NoDoubledBackslash BY <1>5 DEF NoDoubledBackslash, Positions, CharAt
<1>10. Stuck(p.at) BY <1>1, <1>3, <1>6, <1>7, <1>9, RefusedStuck
<1>11. StartAfter(EndOf(Len(toks)) + 1)' = p.at
  <2>1. (EndOf(Len(toks)) + 1)' = start BY <1>4, <1>8 DEF EndOf, To
  <2>2. StartAfter(start)' = p.at
    BY <1>5, <1>6 DEF StartAfter, Silent, Opener, LooksAt, CharAt
  <2> QED BY <2>1, <2>2 DEF StartAfter, Silent, Opener
<1>12. PICK i : i = p.at OBVIOUS
<1>13. Stuck(i)' BY <1>5, <1>10, <1>12, SameStuck
<1> QED BY <1>11, <1>12, <1>13 DEF Stuck

-----------------------------------------------------------------------------
(***************************************************************************)
(* The longest token.                                                      *)
(***************************************************************************)
\* From i to e there is a token of its kind, and none that is longer.
Fits(i, e, kind) ==
  /\ Lexeme(i, e)
  /\ \A j \in Positions : j > e => ~Lexeme(i, j)
  /\ kind = "number" => Bounded(i, e)
  /\ kind = KindOf(i, e)

\* Marks with the same characters are one mark.
LEMMA MarkUnique ==
  ASSUME NEW s \in Range(Marks), NEW t \in Range(Marks), Chars(s) = Chars(t)
  PROVE  s = t
<1>1. Len(Marks) \in Nat BY MarkFacts
<1>2. PICK k \in 1..Len(Marks) : s = Marks[k] BY MarkFacts
<1>3. PICK l \in 1..Len(Marks) : t = Marks[l] BY MarkFacts
<1>4. Len(s) \in Nat \ {0} /\ Len(t) \in Nat \ {0} BY TextsAssumption
<1>5. Begins(s, t) /\ Begins(t, s) BY <1>4, CharsFacts
<1>6. ~(k < l) /\ ~(l < k)
  <2>1. k < l => ~Begins(t, s) BY <1>2, <1>3, OrderAssumption
  <2>2. l < k => ~Begins(s, t) BY <1>2, <1>3, OrderAssumption
  <2> QED BY <1>5, <2>1, <2>2
<1>7. k = l BY <1>1, <1>6
<1> QED BY <1>2, <1>3, <1>7

LEMMA MarkFits ==
  ASSUME source \in Sources, NEW p, p.at \in Positions, IsMark(p)
  PROVE  LET mark == Marks[FirstMark(p)]
         IN  /\ p.at + Len(mark) - 1 \in p.at..Len(source)
             /\ Fits(p.at, p.at + Len(mark) - 1, mark)
<1> DEFINE S == {k \in 1..Len(Marks) : LooksAt(p.at, Marks[k])}
<1>1. PICK i : i = p.at OBVIOUS
<1>2. PICK first : first = FirstMark(p) OBVIOUS
<1>3. first \in S /\ \A k \in S : first <= k
  <2>1. S \subseteq Nat /\ S # {} BY DEF IsMark
  <2>2. first = Min(S) BY <1>2 DEF FirstMark
  <2> HIDE DEF S
  <2> QED BY <2>1, <2>2, MinFacts
<1>4. /\ first \in 1..Len(Marks) /\ LooksAt(i, Marks[first])
      /\ \A k \in 1..Len(Marks) : LooksAt(i, Marks[k]) => first <= k
  BY <1>1, <1>3
<1> HIDE DEF S
<1>5. PICK mark : mark = Marks[first] OBVIOUS
<1>6. mark \in Range(Marks) /\ LooksAt(i, mark) BY <1>4, <1>5, MarkFacts
<1>7. PICK e : e = i + Len(mark) - 1 OBVIOUS
<1>8. Len(mark) \in Nat \ {0} /\ e \in i..Len(source) /\ Chars(mark) = SubSeq(source, i, e)
  BY <1>1, <1>6, <1>7, LexemeText
<1>9. CharAt(i) \notin Digit \cup WordStart \cup {Quote} BY <1>1, <1>6, MarkStart
<1>10. Lexeme(i, e) BY <1>4, <1>5, <1>8 DEF Lexeme
<1>11. ASSUME NEW j \in Positions, j > e, Lexeme(i, j) PROVE FALSE
  <2>1. /\ i \in Nat /\ j \in Nat /\ e \in Nat /\ i <= e /\ j \in i..Len(source)
        /\ Len(source) \in Nat
    BY <1>1, <1>8, <1>11, EndFacts DEF Positions
  <2>2. PICK k \in 1..Len(Marks) : LooksAt(i, Marks[k]) /\ Len(Marks[k]) = j - i + 1
    BY <1>1, <1>9, <1>11, <2>1, LexemeStart
  <2>3. Len(mark) < Len(Marks[k]) /\ Len(Marks[k]) \in Nat BY <1>7, <1>8, <1>11, <2>1, <2>2
  <2>4. first < k
    <3>1. first <= k BY <1>4, <2>2
    <3>2. first # k BY <1>5, <1>8, <2>3
    <3>3. Len(Marks) \in Nat BY MarkFacts
    <3> QED BY <1>4, <3>1, <3>2, <3>3
  <2>5. ~Begins(Marks[k], mark) BY <1>4, <1>5, <2>4, OrderAssumption
  <2>6. Begins(Marks[k], mark)
    <3> DEFINE t == Marks[k]
    <3>1. LooksAt(i, t) /\ Len(mark) < Len(t) /\ Len(t) \in Nat BY <2>2, <2>3
    <3> HIDE DEF t
    <3>2. \A m \in 1..Len(mark) : m \in 1..Len(t) BY <1>8, <3>1
    <3>3. \A m \in 1..Len(mark) : SubSeq(t, m, m) = SubSeq(mark, m, m)
      BY <1>6, <3>1, <3>2 DEF LooksAt
    <3>4. Begins(t, mark) BY <1>8, <3>1, <3>3 DEF Begins
    <3> QED BY <3>4 DEF t
  <2> QED BY <2>5, <2>6
<1>12. mark = KindOf(i, e)
  <2> DEFINE m == CHOOSE m \in Range(Marks) : Chars(m) = SubSeq(source, i, e)
  <2>1. m \in Range(Marks) /\ Chars(m) = SubSeq(source, i, e) BY <1>6, <1>8
  <2>2. KindOf(i, e) = m BY <1>9 DEF KindOf
  <2> HIDE DEF m
  <2> QED BY <1>6, <1>8, <2>1, <2>2, MarkUnique
<1>13. mark # "number" BY <1>6, TextsAssumption
<1>14. Fits(i, e, mark) BY <1>10, <1>11, <1>12, <1>13 DEF Fits
<1> QED BY <1>1, <1>2, <1>5, <1>7, <1>8, <1>14

\* A word ends where no letter, digit or underscore follows.
LEMMA WordFits ==
  ASSUME source \in Sources, NEW i \in Positions, CharAt(i) \in WordStart,
         NEW e \in i..Len(source), Over(WordPart, i, e), CharAt(e + 1) \notin WordPart,
         NEW kind, kind # "number", kind = KindOf(i, e)
  PROVE  Fits(i, e, kind)
<1>1. IsWord(i, e) BY DEF IsWord
<1>2. Lexeme(i, e) BY <1>1 DEF Lexeme
<1>3. ASSUME NEW j \in Positions, j > e, Lexeme(i, j) PROVE FALSE
  <2>1. /\ i \in Nat /\ j \in Nat /\ e \in Nat /\ j \in i..Len(source) /\ e + 1 \in i..j
    BY <1>3, EndFacts DEF Positions
  <2>2. CharAt(i) \notin Digit /\ CharAt(i) # Quote BY ClassFacts
  <2>3. IsWord(i, j) BY <1>3, <2>1, <2>2, LexemeStart
  <2>4. CharAt(e + 1) \in WordPart BY <2>1, <2>3 DEF IsWord, Over
  <2> QED BY <2>4
<1> QED BY <1>2, <1>3 DEF Fits

LEMMA NumberFits ==
  ASSUME source \in Sources, NEW i \in Positions, CharAt(i) \in Digit,
         NEW e \in i..Len(source),
         e + 1 = IF Exp(i) THEN Power(i) ELSE Frac(i),
         CharAt(e + 1) \notin WordPart
  PROVE  Fits(i, e, "number")
<1>1. /\ Whole(i) \in (i + 1)..End /\ CharAt(Whole(i)) \notin Digit
      /\ \A k \in i..(Whole(i) - 1) : CharAt(k) \in Digit
      /\ Point(i) => /\ Frac(i) \in (Whole(i) + 2)..End
                     /\ \A k \in (Whole(i) + 1)..(Frac(i) - 1) : CharAt(k) \in Digit
      /\ ~Point(i) => Frac(i) = Whole(i)
      /\ Frac(i) \in Whole(i)..End
      /\ Exp(i) => /\ Sign(i) \in (Frac(i) + 1)..End /\ Power(i) \in (Sign(i) + 1)..End
                   /\ \A k \in Sign(i)..(Power(i) - 1) : CharAt(k) \in Digit
  BY NumberRuns
<1>2. /\ End \in Nat /\ i \in Nat /\ e \in Nat /\ Len(source) \in Nat
      /\ Whole(i) \in Nat /\ Frac(i) \in Nat /\ i <= e
  BY <1>1, EndFacts DEF Positions
<1>3. e + 1 >= Frac(i) /\ (Exp(i) => Sign(i) \in Nat /\ Power(i) \in Nat /\ e + 1 > Frac(i))
  BY <1>1, <1>2
<1>4. IsNumber(i, e)
  <2> DEFINE n == Whole(i) - 1
             q == Frac(i) - 1
  <2>1. n \in i..e /\ q \in i..e /\ n <= q
    <3>1. i < Whole(i) /\ Whole(i) <= Frac(i) /\ Frac(i) <= e + 1 BY <1>1, <1>2, <1>3
    <3> QED BY <1>2, <3>1
  <2>2. Over(Digit, i, n) BY <1>1 DEF Over
  <2>3. q = n \/ (CharAt(n + 1) = "." /\ n + 2 <= q /\ Over(Digit, n + 2, q))
    <3>1. n + 1 = Whole(i) /\ n + 2 = Whole(i) + 1 BY <1>2
    <3>2. CASE Point(i)
      <4>1. CharAt(Whole(i)) = "." BY <3>2 DEF Point
      <4>2. n + 2 <= q BY <1>1, <1>2, <3>2
      <4>3. Over(Digit, Whole(i) + 1, q) BY <1>1, <3>2 DEF Over
      <4> HIDE DEF n, q
      <4> QED BY <3>1, <4>1, <4>2, <4>3
    <3>3. CASE ~Point(i) BY <1>1, <3>3
    <3> QED BY <3>2, <3>3
  <2>4. \/ q = e
        \/ /\ CharAt(q + 1) \in {"e", "E"}
           /\ \E r \in {q + 2} \cup {k \in {q + 3} : CharAt(q + 2) \in {"+", "-"}} :
                r <= e /\ Over(Digit, r, e)
    <3>1. CASE ~Exp(i) BY <1>2, <3>1
    <3>2. CASE Exp(i)
      <4>1. q + 1 = Frac(i) /\ q + 2 = Frac(i) + 1 /\ q + 3 = Frac(i) + 2 BY <1>2
      <4>2. CharAt(Frac(i)) \in {"e", "E"} BY <3>2 DEF Exp
      <4>3. Sign(i) <= e BY <1>1, <1>2, <1>3, <3>2
      <4>4. e = Power(i) - 1 BY <1>2, <1>3, <3>2
      <4>5. Over(Digit, Sign(i), e) BY <1>1, <3>2, <4>4 DEF Over
      <4>6. \/ Sign(i) = Frac(i) + 1
            \/ Sign(i) = Frac(i) + 2 /\ CharAt(Frac(i) + 1) \in {"+", "-"}
        BY DEF Sign
      <4> HIDE DEF n, q
      <4>7. Sign(i) \in {q + 2} \cup {k \in {q + 3} : CharAt(q + 2) \in {"+", "-"}}
        BY <4>1, <4>6
      <4>8. CharAt(q + 1) \in {"e", "E"} BY <4>1, <4>2
      <4> QED BY <4>3, <4>5, <4>7, <4>8
    <3> QED BY <3>1, <3>2
  <2> HIDE DEF n, q
  <2> QED BY <2>1, <2>2, <2>3, <2>4 DEF IsNumber
<1>5. Lexeme(i, e) BY <1>4 DEF Lexeme
<1>6. CharAt(i) \notin WordStart /\ CharAt(i) # Quote BY ClassFacts
<1>7. ASSUME NEW j \in Positions, j > e, Lexeme(i, j) PROVE FALSE
  <2>1. j \in Nat /\ j \in i..Len(source) BY <1>2, <1>7 DEF Positions
  <2>2. IsNumber(i, j) BY <1>6, <1>7, <2>1, LexemeStart
  <2>3. \/ j \in i..(Whole(i) - 1)
        \/ Point(i) /\ j \in (Whole(i) + 1)..(Frac(i) - 1)
        \/ Exp(i) /\ j \in Sign(i)..(Power(i) - 1)
    BY <2>1, <2>2, NumberEnds
  <2>4. j < Frac(i) \/ (Exp(i) /\ j < Power(i)) BY <1>1, <1>2, <1>3, <2>1, <2>3
  <2> QED BY <1>2, <1>3, <1>7, <2>1, <2>4
<1>8. Bounded(i, e)
  <2> SUFFICES ASSUME Over(Digit, i, e), CharAt(e + 1) = ".", CharAt(e + 2) \in Digit
               PROVE  FALSE
    BY DEF Bounded
  <2>1. e < Whole(i)
    <3> SUFFICES ASSUME Whole(i) <= e PROVE FALSE BY <1>2
    <3>1. Whole(i) \in i..e BY <1>1, <1>2
    <3> QED BY <1>1, <3>1 DEF Over
  <2>2. e + 1 = Whole(i) /\ Frac(i) = Whole(i) /\ ~Exp(i) BY <1>1, <1>2, <1>3, <2>1
  <2>3. ~Point(i) BY <1>1, <1>2, <2>2
  <2>4. e + 2 = Whole(i) + 1 BY <1>2, <2>2
  <2> QED BY <2>2, <2>3, <2>4 DEF Point
<1>9. "number" = KindOf(i, e) BY <1>6 DEF KindOf
<1> QED BY <1>5, <1>7, <1>8, <1>9 DEF Fits

LEMMA StringFits ==
  ASSUME source \in Sources, NoDoubledBackslash, NEW i \in Positions, CharAt(i) = Quote,
         CharAt(StringEnd(i)) = Quote
  PROVE  Fits(i, StringEnd(i), "string")
<1>1. PICK stop : stop = StringEnd(i) OBVIOUS
<1>2. /\ stop \in (i + 1)..End /\ Stops(stop)
      /\ \A k \in (i + 1)..(stop - 1) : ~Stops(k)
  BY <1>1, StringEndFacts
<1>3. stop \in Positions BY <1>1, EndFacts, QuoteFacts DEF Positions
<1>4. /\ Len(source) \in Nat /\ i \in Nat /\ i >= 1 /\ stop \in Nat /\ i < stop
      /\ stop <= Len(source)
  BY <1>2, <1>3, EndFacts DEF Positions
<1>5. ~Escaped(i, stop)
  <2>1. CharAt(stop - 1) # "\\" BY <1>1, <1>2, QuoteFacts DEF Stops
  <2> QED BY <1>3, <1>4, <2>1, EscapedFacts, <1>1
<1>6. ASSUME NEW k \in (i + 1)..(stop - 1)
      PROVE  CharAt(k) # "\n" /\ (CharAt(k) = Quote => Escaped(i, k))
  <2>1. CharAt(k) # "\n" /\ (CharAt(k) = Quote => CharAt(k - 1) = "\\") BY <1>2 DEF Stops
  <2>2. k \in Positions /\ i < k BY <1>4 DEF Positions
  <2>3. Escaped(i, k) <=> CharAt(k - 1) = "\\" BY <2>2, EscapedFacts
  <2> QED BY <2>1, <2>3
<1>7. IsString(i, stop) BY <1>1, <1>4, <1>5, <1>6 DEF IsString
<1>8. Lexeme(i, stop) BY <1>7 DEF Lexeme
<1>9. CharAt(i) \notin WordStart /\ CharAt(i) \notin Digit BY ClassFacts
<1>10. ASSUME NEW j \in Positions, j > stop, Lexeme(i, j) PROVE FALSE
  <2>1. j \in Nat /\ j \in i..Len(source) /\ stop \in (i + 1)..(j - 1)
    BY <1>2, <1>4, <1>10 DEF Positions
  <2>2. IsString(i, j) BY <1>9, <1>10, <2>1, LexemeStart
  <2>3. CharAt(stop) = Quote => Escaped(i, stop) BY <2>1, <2>2 DEF IsString
  <2> QED BY <1>1, <1>5, <2>3
<1>11. "string" = KindOf(i, stop) BY <1>9 DEF KindOf
<1>12. "string" # "number" OBVIOUS
<1> QED BY <1>1, <1>8, <1>10, <1>11, <1>12 DEF Fits

\* A token that is the end of the text, or the longest there is at its place.
Greatest(t) == t.kind # "eof" => Fits(From(t), To(t), t.kind)

LEMMA FoundGreatest ==
  ASSUME NEW p, p.at \in Nat, NEW kind, kind # "string", NEW end \in Nat,
         Fits(p.at, end - 1, kind), NEW t, Found(p, kind, end).tok = <<t>>
  PROVE  Greatest(t)
<1>1. t = Token(p, kind, p.at, end - 1) BY DEF Found
<1>2. t.kind = kind /\ t.first = p.at /\ t.last = end - 1 BY <1>1 DEF Token
<1>3. From(t) = p.at /\ To(t) = end - 1 BY <1>2 DEF From, To
<1> QED BY <1>2, <1>3 DEF Greatest

LEMMA NumberGreatest ==
  ASSUME source \in Sources, NEW p, p.at \in Positions, CharAt(p.at) \in Digit,
         NEW t, MatchNumber(p).tok = <<t>>
  PROVE  Greatest(t)
<1> DEFINE n == NumberParts(p)
<1>1. PICK i : i = p.at OBVIOUS
<1>2. /\ End = Len(source) + 1 /\ Len(source) \in Nat /\ i \in Nat /\ i \in 1..End
      /\ i \in Positions /\ CharAt(i) \in Digit
  BY <1>1, EndFacts DEF End, Positions
<1>3. /\ n.whole \in (i + 1)..End
      /\ ~n.cut => n.end \in (i + 1)..End
  BY <1>1, <1>2, NumberFacts
<1>4. /\ n.whole = Whole(i)
      /\ n.cut => CharAt(Whole(i)) = "." /\ ~Point(i) /\ ~Exp(i)
      /\ ~n.cut /\ ~n.bad =>
           /\ n.end = IF Exp(i) THEN Power(i) ELSE Frac(i)
           /\ ~Exp(i) => CharAt(Frac(i)) \notin {"e", "E"}
  BY <1>1, PartsFacts
<1>5. /\ ~Point(i) => Frac(i) = Whole(i)
      /\ CharAt(Frac(i)) \notin Digit
      /\ Exp(i) => CharAt(Power(i)) \notin Digit
  BY <1>2, NumberRuns
<1>6. MatchNumber(p) =
        IF n.cut THEN Found(p, "number", n.whole)
        ELSE IF n.bad \/ CharAt(n.end) \in WordStart
             THEN FaultAt([at |-> n.end, ln |-> p.ln, col |-> p.col + (n.end - p.at)], p)
             ELSE Found(p, "number", n.end)
  BY DEF MatchNumber
<1> HIDE DEF n
<1>7. "number" # "string" OBVIOUS
<1>8. CASE n.cut
  <2>1. PICK e : e = n.whole - 1 OBVIOUS
  <2>2. e \in i..Len(source) /\ e + 1 = n.whole /\ n.whole \in Nat BY <1>2, <1>3, <2>1
  <2>3. e + 1 = IF Exp(i) THEN Power(i) ELSE Frac(i) BY <1>4, <1>5, <1>8, <2>2
  <2>4. CharAt(e + 1) \notin WordPart BY <1>4, <1>8, <2>2, SignFacts
  <2>5. Fits(i, e, "number") BY <1>2, <2>2, <2>3, <2>4, NumberFits
  <2>6. Found(p, "number", n.whole).tok = <<t>> BY <1>6, <1>8
  <2> QED BY <1>1, <1>2, <1>7, <2>1, <2>2, <2>5, <2>6, FoundGreatest
<1>9. CASE ~n.cut /\ ~(n.bad \/ CharAt(n.end) \in WordStart)
  <2>1. PICK e : e = n.end - 1 OBVIOUS
  <2>2. e \in i..Len(source) /\ e + 1 = n.end /\ n.end \in Nat BY <1>2, <1>3, <1>9, <2>1
  <2>3. e + 1 = IF Exp(i) THEN Power(i) ELSE Frac(i) BY <1>4, <1>9, <2>2
  <2>4. CharAt(e + 1) \notin Digit BY <1>5, <2>3
  <2>5. CharAt(e + 1) \notin WordPart BY <1>9, <2>2, <2>4 DEF WordPart
  <2>6. Fits(i, e, "number") BY <1>2, <2>2, <2>3, <2>5, NumberFits
  <2>7. Found(p, "number", n.end).tok = <<t>> BY <1>6, <1>9
  <2> QED BY <1>1, <1>2, <1>7, <2>1, <2>2, <2>6, <2>7, FoundGreatest
<1>10. CASE ~n.cut /\ (n.bad \/ CharAt(n.end) \in WordStart)
  <2>1. \A q : FaultAt(q, p).tok = <<>> BY DEF FaultAt
  <2>2. MatchNumber(p).tok = <<>> BY <1>6, <1>10, <2>1
  <2>3. <<t>> # <<>> OBVIOUS
  <2> QED BY <2>2, <2>3
<1> QED BY <1>8, <1>9, <1>10

LEMMA StringGreatest ==
  ASSUME source \in Sources, NoDoubledBackslash, NEW p, Exact(p), p.at \in Positions,
         CharAt(p.at) = Quote, NEW t, MatchString(p).tok = <<t>>
  PROVE  Greatest(t)
<1>1. PICK i : i = p.at OBVIOUS
<1>2. PICK stop : stop = StringEnd(i) OBVIOUS
<1>3. PICK q : q = Reach(p, stop) OBVIOUS
<1>4. MatchString(p) = IF CharAt(stop) # Quote THEN FaultAt(q, q)
                       ELSE [tok |-> <<Token(q, "string", p.at + 1, stop - 1)>>,
                             after |-> NextChar(q), fault |-> NoFault]
  BY <1>1, <1>2, <1>3 DEF MatchString, StringEnd
<1>5. CharAt(stop) = Quote
  <2>1. FaultAt(q, q).tok = <<>> BY DEF FaultAt
  <2> QED BY <1>4, <2>1
<1>6. t = Token(q, "string", i + 1, stop - 1) BY <1>1, <1>4, <1>5
<1>7. t.kind = "string" /\ t.first = i + 1 /\ t.last = stop - 1 BY <1>6 DEF Token
<1>8. stop \in (i + 1)..End /\ i \in Nat /\ stop \in Nat
  BY <1>1, <1>2, StringEndFacts, EndFacts DEF Positions
<1>9. From(t) = i /\ To(t) = stop
  <2>1. (i + 1) - 1 = i /\ (stop - 1) + 1 = stop BY <1>8
  <2> QED BY <1>7, <2>1 DEF From, To
<1>10. Fits(i, stop, "string") BY <1>1, <1>2, <1>5, StringFits
<1> QED BY <1>7, <1>9, <1>10 DEF Greatest

LEMMA WordGreatest ==
  ASSUME source \in Sources, NEW p, p.at \in Positions, CharAt(p.at) \in WordStart,
         NEW t, MatchWord(p).tok = <<t>>
  PROVE  Greatest(t)
<1> DEFINE kws == {kw \in Keywords : KeywordAt(p, kw)}
           kw  == CHOOSE k \in kws : TRUE
<1>1. PICK i : i = p.at OBVIOUS
<1>2. /\ End = Len(source) + 1 /\ Len(source) \in Nat /\ i \in Nat /\ i \in 1..End
      /\ i \in Positions /\ CharAt(i) \in WordStart
  BY <1>1, EndFacts DEF End, Positions
<1>3. CharAt(i) \notin Digit /\ CharAt(i) # Quote /\ WordStart \subseteq WordPart
  BY <1>2, ClassFacts
<1>4. MatchWord(p) = IF kws # {} THEN Found(p, kw, p.at + Len(kw))
                     ELSE Found(p, "ident", RunEnd(WordPart, p.at))
  BY DEF MatchWord
<1>5. \A e : LET word == {k \in Keywords : Chars(k) = SubSeq(source, i, e)}
             IN  /\ word = {} => KindOf(i, e) = "ident"
                 /\ word # {} => KindOf(i, e) = CHOOSE k \in word : TRUE
  BY <1>2, <1>3 DEF KindOf
<1>6. CASE kws # {}
  <2>1. kw \in Keywords /\ KeywordAt(p, kw) BY <1>6
  <2>2. MatchWord(p) = Found(p, kw, p.at + Len(kw)) BY <1>4, <1>6
  <2> HIDE DEF kw, kws
  <2>3. PICK w : w = kw OBVIOUS
  <2>4. /\ w \in Keywords /\ LooksAt(i, w) /\ CharAt(i + Len(w)) \notin WordPart
    BY <1>1, <2>1, <2>3 DEF KeywordAt
  <2>5. PICK e : e = i + Len(w) - 1 OBVIOUS
  <2>6. Len(w) \in Nat \ {0} /\ e \in i..Len(source) /\ Chars(w) = SubSeq(source, i, e)
    BY <1>2, <2>4, <2>5, LexemeText
  <2>7. e + 1 = i + Len(w) /\ e \in Nat BY <1>2, <2>5, <2>6
  <2>8. Over(WordPart, i, e)
    <3> SUFFICES ASSUME NEW m \in i..e PROVE CharAt(m) \in WordPart BY DEF Over
    <3>1. m - i + 1 \in 1..Len(w) /\ i + (m - i + 1) - 1 = m
      <4> DEFINE a == Len(w)
      <4>1. i \in Nat /\ a \in Nat /\ e = i + a - 1 BY <1>2, <2>5, <2>6
      <4> HIDE DEF a
      <4>2. m - i + 1 \in 1..a /\ i + (m - i + 1) - 1 = m BY <4>1
      <4> QED BY <4>2 DEF a
    <3>2. CharAt(m) = SubSeq(w, m - i + 1, m - i + 1)
      <4>1. CharAt(i + (m - i + 1) - 1) = SubSeq(w, m - i + 1, m - i + 1)
        BY <2>4, <3>1 DEF LooksAt
      <4> QED BY <3>1, <4>1
    <3>3. CharAt(m) \in Char
      <4>1. m \in 1..Len(source) BY <1>2, <2>6
      <4> QED BY <4>1, EndFacts
    <3>4. SubSeq(w, m - i + 1, m - i + 1) \in Char
          => SubSeq(w, m - i + 1, m - i + 1) \in Letter
      BY <2>4, <3>1, TextsAssumption
    <3> QED BY <3>2, <3>3, <3>4 DEF WordPart, WordStart
  <2>9. w = KindOf(i, e)
    <3> DEFINE word == {k \in Keywords : Chars(k) = SubSeq(source, i, e)}
    <3>1. PICK k : k = KindOf(i, e) OBVIOUS
    <3>2. k \in word
      <4>1. word # {} BY <2>4, <2>6
      <4>2. k = CHOOSE x \in word : TRUE BY <1>5, <3>1, <4>1
      <4> HIDE DEF word
      <4> QED BY <4>1, <4>2
    <3>3. k \in Keywords /\ Chars(k) = Chars(w) BY <2>6, <3>2
    <3>4. Len(k) \in Nat \ {0} /\ Len(w) \in Nat \ {0} BY <2>6, <3>3, TextsAssumption
    <3>5. Begins(k, w) /\ Begins(w, k) BY <3>3, <3>4, CharsFacts
    <3>6. k = w BY <2>4, <3>3, <3>5, OrderAssumption
    <3> QED BY <3>1, <3>6
  <2>10. w # "number" /\ w # "string" BY <2>4, TextsAssumption
  <2>11. CharAt(e + 1) \notin WordPart BY <2>4, <2>7
  <2>12. Fits(i, e, w) BY <1>2, <2>6, <2>8, <2>9, <2>10, <2>11, WordFits
  <2>13. PICK end : end = i + Len(w) OBVIOUS
  <2>14. Found(p, w, end).tok = <<t>> /\ end \in Nat /\ e = end - 1
    BY <1>1, <1>2, <2>2, <2>3, <2>5, <2>6, <2>13
  <2> QED BY <1>1, <1>2, <2>10, <2>12, <2>14, FoundGreatest
<1>7. CASE kws = {}
  <2>1. PICK end : end = RunEnd(WordPart, i) OBVIOUS
  <2>2. Found(p, "ident", end).tok = <<t>> BY <1>1, <1>4, <1>7, <2>1
  <2>3. \A k \in Keywords : ~KeywordAt(p, k) BY <1>7
  <2> HIDE DEF kw, kws
  <2>4. /\ end \in i..End /\ CharAt(end) \notin WordPart
        /\ \A m \in i..(end - 1) : CharAt(m) \in WordPart
    BY <1>2, <2>1, RunEndFacts, ClassFacts
  <2>5. end # i BY <1>2, <1>3, <2>4
  <2>6. PICK e : e = end - 1 OBVIOUS
  <2>7. e \in i..Len(source) /\ e + 1 = end /\ end \in Nat /\ e \in Nat
    BY <1>2, <2>4, <2>5, <2>6
  <2>8. Over(WordPart, i, e) BY <2>4, <2>6 DEF Over
  <2>9. "ident" = KindOf(i, e)
    <3> SUFFICES ASSUME NEW k \in Keywords, Chars(k) = SubSeq(source, i, e) PROVE FALSE
      BY <1>5
    <3>1. LooksAt(i, k) /\ Len(k) = e - i + 1 BY <1>2, <2>7, TextLexeme
    <3>2. i + Len(k) = end BY <1>2, <2>7, <3>1
    <3>3. KeywordAt(p, k) BY <1>1, <2>4, <3>1, <3>2 DEF KeywordAt
    <3> QED BY <2>3, <3>3
  <2>10. "ident" # "number" /\ "ident" # "string" OBVIOUS
  <2>11. CharAt(e + 1) \notin WordPart BY <2>4, <2>7
  <2>12. Fits(i, e, "ident") BY <1>2, <2>7, <2>8, <2>9, <2>10, <2>11, WordFits
  <2> QED BY <1>1, <1>2, <2>2, <2>6, <2>7, <2>10, <2>12, FoundGreatest
<1> QED BY <1>6, <1>7

LEMMA MatchGreatest ==
  ASSUME source \in Sources, NoDoubledBackslash, NEW p, Exact(p), p.at \in 1..End,
         NEW t, Match(p).tok = <<t>>
  PROVE  Greatest(t)
<1> DEFINE c == CharAt(p.at)
<1>0. End \in Nat /\ p.at \in Nat /\ (c # NUL => p.at \in Positions)
  BY EndFacts DEF Positions
<1>1. CASE Match(p) = Found(p, "eof", p.at + 1)
  <2>1. t = Token(p, "eof", p.at, (p.at + 1) - 1) BY <1>1 DEF Found
  <2>2. t.kind = "eof" BY <2>1 DEF Token
  <2> QED BY <2>2 DEF Greatest
<1>2. CASE c # NUL /\ IsMark(p) /\ Match(p) = MatchMark(p)
  <2>1. PICK mark : mark = Marks[FirstMark(p)] OBVIOUS
  <2>2. Found(p, mark, p.at + Len(mark)).tok = <<t>> BY <1>2, <2>1 DEF MatchMark
  <2>3. /\ p.at + Len(mark) - 1 \in p.at..Len(source)
        /\ Fits(p.at, p.at + Len(mark) - 1, mark)
    BY <1>0, <1>2, <2>1, MarkFits
  <2>4. mark \in Range(Marks)
    <3>1. FirstMark(p) \in 1..Len(Marks)
      <4> DEFINE S == {k \in 1..Len(Marks) : LooksAt(p.at, Marks[k])}
      <4>1. S \subseteq Nat /\ S # {} BY <1>2 DEF IsMark
      <4>2. FirstMark(p) = Min(S) BY DEF FirstMark
      <4>3. Min(S) \in S
        <5> HIDE DEF S
        <5> QED BY <4>1, MinFacts
      <4> QED BY <4>2, <4>3
    <3> QED BY <2>1, <3>1, MarkFacts
  <2>5. mark # "string" /\ p.at + Len(mark) \in Nat BY <1>0, <2>4, TextsAssumption
  <2> QED BY <1>0, <2>2, <2>3, <2>5, FoundGreatest
<1>3. CASE c \in Digit /\ Match(p) = MatchNumber(p)
  <2>1. p.at \in Positions BY <1>0, <1>3, ClassFacts
  <2> QED BY <1>3, <2>1, NumberGreatest
<1>4. CASE c = Quote /\ Match(p) = MatchString(p)
  <2>1. p.at \in Positions BY <1>0, <1>4, QuoteFacts
  <2> QED BY <1>4, <2>1, StringGreatest
<1>5. CASE c \in WordStart /\ Match(p) = MatchWord(p)
  <2>1. p.at \in Positions BY <1>0, <1>5, ClassFacts
  <2> QED BY <1>5, <2>1, WordGreatest
<1>6. CASE Match(p) = FaultAt(p, p)
  <2>1. FaultAt(p, p).tok = <<>> BY DEF FaultAt
  <2> QED BY <1>6, <2>1
<1>7. IsMark(p) => c # NUL
  <2> SUFFICES ASSUME NEW k \in 1..Len(Marks), LooksAt(p.at, Marks[k]) PROVE c # NUL
    BY DEF IsMark
  <2>1. PICK mark : mark = Marks[k] OBVIOUS
  <2>2. mark \in Range(Marks) /\ LooksAt(p.at, mark) BY <2>1, MarkFacts
  <2>3. /\ Len(mark) \in Nat \ {0}
        /\ \A j \in p.at..(p.at + Len(mark) - 1) : CharAt(j) # NUL
    BY <2>2, LooksFacts
  <2>4. p.at \in p.at..(p.at + Len(mark) - 1) BY <1>0, <2>3
  <2> QED BY <2>3, <2>4
<1>8. \/ Match(p) = Found(p, "eof", p.at + 1)
      \/ IsMark(p) /\ Match(p) = MatchMark(p)
      \/ c \in Digit /\ Match(p) = MatchNumber(p)
      \/ c = Quote /\ Match(p) = MatchString(p)
      \/ c \in WordStart /\ Match(p) = MatchWord(p)
      \/ Match(p) = FaultAt(p, p)
  BY DEF Match
<1> QED BY <1>1, <1>2, <1>3, <1>4, <1>5, <1>6, <1>7, <1>8

LEMMA LongestFacts ==
  Longest <=> (toks # <<>> /\ NoDoubledBackslash => Greatest(toks[Len(toks)]))
BY DEF Longest, Greatest, Fits, Last

LEMMA SameGreatest ==
  ASSUME source' = source, NEW t
  PROVE  Greatest(t)' <=> Greatest(t)
BY SameText DEF Greatest, Fits, Positions, From, To

LEMMA SameLongest ==
  ASSUME Longest, source' = source, toks' = toks
  PROVE  Longest'
<1>1. NoDoubledBackslash' <=> NoDoubledBackslash
  BY DEF NoDoubledBackslash, Positions, CharAt
<1>2. PICK t : t = toks[Len(toks)] OBVIOUS
<1>3. toks # <<>> /\ NoDoubledBackslash => Greatest(t) BY <1>2, LongestFacts
<1>4. Greatest(t)' <=> Greatest(t) BY SameGreatest
<1>5. toks' # <<>> /\ NoDoubledBackslash' => Greatest(t)' BY <1>1, <1>3, <1>4
<1>6. PICK u : u = Last(toks') OBVIOUS
<1>7. u = t BY <1>2, <1>6 DEF Last
<1>8. toks' # <<>> /\ NoDoubledBackslash' => Greatest(u)' BY <1>5, <1>7
<1> QED BY <1>6, <1>8 DEF Longest, Greatest, Fits, From, To

LEMMA StepLongest == LexerInv /\ Longest /\ [Next]_vars => Longest'
<1> SUFFICES ASSUME LexerInv, Longest, [Next]_vars PROVE Longest' OBVIOUS
<1>1. CASE InitLexer \/ NextToken
  <2>1. PICK q : /\ NextTokenFrom(q) /\ Exact(Skip(q)) /\ Skip(q).at \in 1..End
                 /\ Skip(q).at = StartAfter(EndOf(Len(toks)) + 1)
    BY <1>1, CallFacts
  <2>2. PICK p : p = Skip(q) OBVIOUS
  <2>3. PICK m : m = Match(p) OBVIOUS
  <2>4. source' = source /\ toks' = toks \o m.tok BY <2>1, <2>2, <2>3 DEF NextTokenFrom
  <2>5. /\ source \in Sources /\ toks \in Seq(TokenType) /\ toks \o <<>> = toks
        /\ Exact(p) /\ p.at \in 1..End
    BY <2>1, <2>2 DEF LexerInv
  <2>6. Read(m, p) \/ Refused(m, p) BY <2>3, <2>5, MatchFacts
  <2>7. CASE Refused(m, p)
    <3>1. toks' = toks BY <2>4, <2>5, <2>7 DEF Refused
    <3> QED BY <2>4, <3>1, SameLongest
  <2>8. CASE Read(m, p)
    <3>1. PICK t : m.tok = <<t>> /\ Right(t, p, m.after.at) BY <2>8 DEF Read
    <3>2. t \in TokenType BY <3>1 DEF Right, TokenType
    <3>3. toks' = toks \o <<t>> BY <2>4, <3>1
    <3>4. toks' \in Seq(TokenType) /\ Len(toks') = Len(toks) + 1 /\ toks'[Len(toks) + 1] = t
      BY <2>5, <3>2, <3>3, Appended
    <3>5. toks'[Len(toks')] = t BY <3>4
    <3>6. NoDoubledBackslash' <=> NoDoubledBackslash
      BY <2>4 DEF NoDoubledBackslash, Positions, CharAt
    <3>7. NoDoubledBackslash => Greatest(t) BY <2>3, <2>5, <3>1, MatchGreatest
    <3>8. Greatest(t)' <=> Greatest(t) BY <2>4, SameGreatest
    <3>9. NoDoubledBackslash' => Greatest(t)' BY <3>6, <3>7, <3>8
    <3> QED BY <3>5, <3>9 DEF Longest, Last, Greatest, Fits, From, To, KindOf
  <2> QED BY <2>6, <2>7, <2>8
<1>2. CASE ReadString \/ SyntaxError \/ UNCHANGED vars
  <2>1. source' = source /\ toks' = toks BY <1>2 DEF ReadString, SyntaxError, vars
  <2> QED BY <2>1, SameLongest
<1> QED BY <1>1, <1>2 DEF Next

LEMMA StepFaults == LexerInv /\ FaultsRight /\ [Next]_vars => FaultsRight'
<1> SUFFICES ASSUME LexerInv, FaultsRight, [Next]_vars PROVE FaultsRight' OBVIOUS
<1>1. CASE InitLexer \/ NextToken BY <1>1, CallFacts, FaultStuck
<1>2. CASE ReadString \/ SyntaxError
  <2>1. status # "error" /\ status' \in {"invalid", "overrun", "stopped", status}
    <3>1. CASE ReadString
      <4>1. \E codes : status' = CASE Invalid \in Range(codes) -> "invalid"
                                   [] Overrun \in Range(codes) -> "overrun"
                                   [] OTHER                    -> status
        BY <3>1 DEF ReadString
      <4>2. status \in {"running", "eof"} BY <3>1 DEF ReadString
      <4> QED BY <4>1, <4>2, Zenon
    <3>2. CASE SyntaxError BY <3>2 DEF SyntaxError
    <3> QED BY <1>2, <3>1, <3>2
  <2>2. status' # "error" BY <2>1
  <2> QED BY <2>2 DEF FaultsRight
<1>3. CASE UNCHANGED vars
  <2>1. source' = source /\ toks' = toks /\ status' = status BY <1>3 DEF vars
  <2> SUFFICES ASSUME status' = "error", NoDoubledBackslash'
               PROVE  Stuck(StartAfter(EndOf(Len(toks)) + 1))'
    BY DEF FaultsRight, Stuck
  <2>2. NoDoubledBackslash BY <2>1 DEF NoDoubledBackslash, Positions, CharAt
  <2>3. PICK i : i = StartAfter(EndOf(Len(toks)) + 1) OBVIOUS
  <2>4. Stuck(i) BY <2>1, <2>2, <2>3 DEF FaultsRight, Stuck
  <2>5. Stuck(i)' BY <2>1, <2>4, SameStuck
  <2>6. StartAfter(EndOf(Len(toks)) + 1)' = i
    BY <2>1, <2>3 DEF EndOf, To, StartAfter, Silent, Opener, LooksAt, CharAt
  <2> QED BY <2>5, <2>6 DEF Stuck
<1> QED BY <1>1, <1>2, <1>3 DEF Next

-----------------------------------------------------------------------------
\* Whatever text is compiled, the place the lexer holds and the tokens it gave
\* lie in the text or at its NUL (rak_lexer_next, src/src/lexer.c).
THEOREM LexerTypes == Spec => []TypeOK
<1>1. LexerInv => TypeOK
  <2> SUFFICES ASSUME LexerInv PROVE TypeOK OBVIOUS
  <2>1. source \in Sources /\ Exact(Here) /\ curr <= End + 1 /\ toks \in Seq(TokenType)
    BY DEF LexerInv
  <2>2. End \in Nat /\ End = Len(source) + 1 BY <2>1, EndFacts DEF End
  <2>3. curr \in 1..(Len(source) + 2) /\ ln \in Nat \ {0} /\ col \in Nat \ {0}
    BY <2>1, <2>2 DEF Exact, Place, Here
  <2>4. \A i \in 1..Len(toks) : toks[i] \in TokenType BY <2>1, ElementOfSeq
  <2>5. \A i \in 1..Len(toks) :
          /\ toks[i].first \in 1..(Len(source) + 1)
          /\ toks[i].last \in 0..(Len(source) + 1)
          /\ toks[i].kind \in Range(Marks) \cup Keywords
                                \cup {"number", "string", "ident", "eof"}
    BY <2>2, <2>4 DEF TokenType, Kinds
  <2> QED BY <2>1, <2>3, <2>5 DEF TypeOK, LexerInv
<1> QED BY <1>1, Invariance, PTL

\* Nothing that could be a token is skipped and nothing is read twice: every
\* token starts at the first position after the one before it that is neither
\* blank nor comment (skip_whitespace_comments and next_char).
THEOREM TextTiled == Spec => []Tiled
<1>1. LexerInv => Tiled BY DEF LexerInv
<1> QED BY <1>1, Invariance, PTL

\* The line and column of every token and of every error are those of the text
\* (next_char and next_chars keep them, token and unexpected_character_error
\* hand them out).
THEOREM PlacesRight == Spec => []PositionsRight
<1>1. LexerInv => PositionsRight BY DEF LexerInv
<1> QED BY <1>1, Invariance, PTL

\* parse_escaped_string never reads past the token it is given: match_string ends
\* no token after a backslash.
THEOREM ReaderStaysInside == Spec => []ReadsInside
<1>1. LexerInv => ReadsInside BY DEF LexerInv, ReadsInside
<1> QED BY <1>1, Invariance, PTL

\* rak_lexer_next raises an error only where no token can be: no mark, word or
\* string begins there, and a number that does runs into what follows it
\* (match_number, match_string and unexpected_character_error).
THEOREM FaultsAreFaults == Spec => []FaultsRight
<1>1. Init => LexerInv /\ FaultsRight
  <2>1. Init => FaultsRight BY DEF Init, FaultsRight
  <2> QED BY <2>1, InitInv
<1>2. LexerInv /\ FaultsRight /\ [Next]_vars => LexerInv' /\ FaultsRight'
  BY StepKeeps, StepFaults
<1> QED BY <1>1, <1>2, PTL DEF Spec

\* Every token is the longest there is where it starts, of the kind its text has
\* (the order of the matches in rak_lexer_next, match_number, match_keyword).
THEOREM TokensLongest == Spec => []Longest
<1>1. Init => LexerInv /\ Longest
  <2>1. Init => Longest BY DEF Init, Longest
  <2> QED BY <2>1, InitInv
<1>2. LexerInv /\ Longest /\ [Next]_vars => LexerInv' /\ Longest'
  BY StepKeeps, StepLongest
<1> QED BY <1>1, <1>2, PTL DEF Spec
==============================================================================
