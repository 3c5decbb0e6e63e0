---------------------------- MODULE RakFiberProofs ----------------------------
(***************************************************************************)
(* The inductive invariant of RakFiber, and what its proof needs of        *)
(* stacks, of counting over the stacks of all fibers, and of frames.       *)
(***************************************************************************)
EXTENDS RakFiber, RakCounting, SequenceTheorems

\* A value names an object of its kind, in the classes cl.
Agrees(cl, v) ==
  IsObject(v) => \/ v = Closure(v.data) /\ cl[v.data] \in Fun
                 \/ v = Fiber(v.data) /\ cl[v.data] = "fiber"

\* The stack t holds, where the frames c say it, the closures they run; the
\* frames lie one above the other.
Anchored(t, c, cl) ==
  /\ \A i \in 1..Len(c) :
       /\ c[i].base \in 1..Len(t)
       /\ t[c[i].base] = Closure(c[i].cl)
       /\ cl[c[i].cl] = c[i].fn
  /\ \A i, j \in 1..Len(c) : i < j => c[i].base < c[j].base

\* How many holders o has, in fibers F with the stacks s.
Holders(F, s, cl, o) ==
  OnStacks(F, s, o) + (IF cl[GlobalsObj] = "array" THEN OnStack(GlobalsHeld, o) ELSE 0)
                    + (IF o = GlobalsObj THEN Cardinality(F) ELSE 0)

\* Exact while the script runs; after an error a count may be too high.
Counts == \A o \in Obj : IF err THEN rc[o] >= Holders(Fibers, stk, class, o)
                                ELSE rc[o] = Holders(Fibers, stk, class, o)

WellTyped ==
  /\ \A f \in FiberId : \A i \in 1..Len(stk[f]) : Agrees(class, stk[f][i])
  /\ class[GlobalsObj] = "array" => \A i \in DOMAIN Globals : class[Globals[i]] \in Fun
  /\ \A o \in Obj : class[o] = "array" => o = GlobalsObj
  /\ Fibers # {} => class[GlobalsObj] = "array"

FramesAnchored == \A f \in FiberId : Anchored(stk[f], cstk[f], class)

\* A native called from the frame on top of c has its first argument on s.
HasArgument(s, c) == c # <<>> /\ LastOf(c).base + 1 <= Len(s)

\* The fibers of the chain, and those that are not in it.
Standing ==
  /\ ChainSound
  /\ chain # <<>> => chain[1] = Root
  /\ \A i \in 1..(Len(chain) - 1) : HasArgument(stk[chain[i]], cstk[chain[i]])
  /\ \A i \in 1..Len(chain) : cstk[chain[i]] # <<>> \/ stk[chain[i]] # <<>>
  /\ \A f \in Obj : status[f] = "suspended" => cstk[f] # <<>>
  /\ chain # <<>> /\ ~err /\ status[Me] = "suspended" =>
       cstk[Me] # <<>> /\ Len(Stack) > Top.base

FiberInv ==
  /\ TypeOK /\ WellTyped /\ Counts /\ AtZero(Mem) /\ FramesAnchored /\ Standing

-----------------------------------------------------------------------------
(***************************************************************************)
(* Stacks as sequences.                                                    *)
(***************************************************************************)
LEMMA LastFacts ==
  ASSUME NEW S, NEW s \in Seq(S), s # <<>>
  PROVE  /\ Len(s) \in Nat /\ Len(s) >= 1
         /\ LastOf(s) \in S /\ LastOf(s) = s[Len(s)]
         /\ ButLast(s) \in Seq(S) /\ Len(ButLast(s)) = Len(s) - 1
         /\ \A i \in 1..(Len(s) - 1) : ButLast(s)[i] = s[i]
<1>1. Len(s) \in Nat /\ Len(s) >= 1 BY EmptySeq
<1>2. LastOf(s) \in S /\ LastOf(s) = s[Len(s)] BY <1>1, ElementOfSeq DEF LastOf
<1>3. \A i \in 1..(Len(s) - 1) : s[i] \in S BY <1>1, ElementOfSeq
<1>4. Len(s) - 1 \in Int /\ 1 \in Int BY <1>1
<1>5. /\ ButLast(s) \in Seq(S)
      /\ Len(ButLast(s)) = IF 1 <= Len(s) - 1 THEN (Len(s) - 1) - 1 + 1 ELSE 0
      /\ \A i \in 1..((Len(s) - 1) - 1 + 1) : ButLast(s)[i] = s[1 + i - 1]
  <2> DEFINE n == Len(s) - 1
  <2>1. n \in Int /\ 1 \in Int /\ \A i \in 1..n : s[i] \in S BY <1>3, <1>4
  <2> HIDE DEF n
  <2>2. /\ SubSeq(s, 1, n) \in Seq(S)
        /\ Len(SubSeq(s, 1, n)) = IF 1 <= n THEN n - 1 + 1 ELSE 0
        /\ \A i \in 1..(n - 1 + 1) : SubSeq(s, 1, n)[i] = s[1 + i - 1]
    BY <2>1, SubSeqProperties
  <2> QED BY <2>2 DEF n, ButLast
<1>6. \A i \in 1..(Len(s) - 1) : ButLast(s)[i] = s[i] BY <1>1, <1>5
<1>7. Len(ButLast(s)) = Len(s) - 1
  <2> DEFINE n == Len(s)
             k == Len(ButLast(s))
  <2>1. n \in Nat /\ n >= 1 /\ k = IF 1 <= n - 1 THEN (n - 1) - 1 + 1 ELSE 0 BY <1>1, <1>5
  <2> HIDE DEF n, k
  <2>2. k = n - 1 BY <2>1
  <2> QED BY <2>2 DEF n, k
<1> QED BY <1>1, <1>2, <1>5, <1>6, <1>7

\* The stack below b with res on it.
LEMMA CutFacts ==
  ASSUME NEW S, NEW s \in Seq(S), NEW b \in 1..Len(s), NEW res \in S
  PROVE  /\ Append(SubSeq(s, 1, b - 1), res) \in Seq(S)
         /\ Len(Append(SubSeq(s, 1, b - 1), res)) = b
         /\ \A i \in 1..(b - 1) : Append(SubSeq(s, 1, b - 1), res)[i] = s[i]
         /\ Append(SubSeq(s, 1, b - 1), res)[b] = res
<1> DEFINE n == b - 1
           t == SubSeq(s, 1, n)
<1>1. Len(s) \in Nat /\ b \in Int /\ b >= 1 /\ b <= Len(s) BY LenProperties
<1>2. n \in Int /\ 1 \in Int /\ n >= 0 /\ b = n + 1 BY <1>1
<1>3. \A i \in 1..n : s[i] \in S BY <1>1, ElementOfSeq
<1> HIDE DEF n
<1>4. /\ t \in Seq(S)
      /\ Len(t) = IF 1 <= n THEN n - 1 + 1 ELSE 0
      /\ \A i \in 1..(n - 1 + 1) : t[i] = s[1 + i - 1]
  BY <1>2, <1>3, SubSeqProperties
<1>5. Len(t) = n /\ \A i \in 1..n : t[i] = s[i] BY <1>2, <1>4
<1> HIDE DEF t
<1>6. /\ Append(t, res) \in Seq(S) /\ Len(Append(t, res)) = n + 1
      /\ \A i \in 1..n : Append(t, res)[i] = s[i]
      /\ Append(t, res)[n + 1] = res
  BY <1>4, <1>5, AppendProperties
<1> QED BY <1>2, <1>6 DEF t, n

LEMMA AdjustedFacts ==
  ASSUME NEW s \in Seq(Value), NEW c \in Nat, NEW k \in Nat
  PROVE  /\ Adjusted(s, c, k) \in Seq(Value)
         /\ Len(Adjusted(s, c, k)) = c + k
         /\ \A i \in 1..(c + k) :
              Adjusted(s, c, k)[i] = IF i <= Len(s) THEN s[i] ELSE Nil
<1> DEFINE n == c + k
           t == [i \in 1..n |-> IF i <= Len(s) THEN s[i] ELSE Nil]
<1>1. n \in Nat OBVIOUS
<1>2. \A i \in 1..n : i <= Len(s) => s[i] \in Value BY LenProperties, ElementOfSeq
<1> HIDE DEF n
<1>3. t \in [1..n -> Value] BY <1>2, NilType
<1>4. t \in Seq(Value) BY <1>1, <1>3, SeqDef
<1>5. Len(t) = n
  <2>1. DOMAIN t = 1..n OBVIOUS
  <2>2. DOMAIN t = 1..Len(t) /\ Len(t) \in Nat BY <1>4, LenProperties
  <2> HIDE DEF t
  <2> QED BY <1>1, <2>1, <2>2
<1>6. \A i \in 1..n : t[i] = IF i <= Len(s) THEN s[i] ELSE Nil OBVIOUS
<1> HIDE DEF t
<1>7. Adjusted(s, c, k) = t BY DEF Adjusted, t, n
<1> QED BY <1>4, <1>5, <1>6, <1>7 DEF n

-----------------------------------------------------------------------------
(***************************************************************************)
(* Counting on one stack.                                                  *)
(***************************************************************************)
LEMMA OnStackPop ==
  ASSUME NEW s \in Seq(Value), s # <<>>, NEW o
  PROVE  OnStack(ButLast(s), o) = OnStack(s, o) - Count(LastOf(s), o)
<1> DEFINE t == ButLast(s)
           n == Len(s) - 1
<1>1. /\ t \in Seq(Value) /\ Len(t) = n /\ n \in Nat /\ Len(s) = n + 1
      /\ \A i \in 1..n : t[i] = s[i]
      /\ s[n + 1] = LastOf(s)
  <2>1. n + 1 = Len(s) /\ n \in Nat BY LastFacts
  <2> QED BY <2>1, LastFacts
<1> HIDE DEF t, n
<1>2. /\ Occ(s, 1..(n + 1), o) = Occ(s, 1..n, o) + Count(s[n + 1], o)
      /\ Occ(s, 1..n, o) \in Nat
  BY <1>1, OccOneMore
<1>3. Occ(t, 1..n, o) = Occ(s, 1..n, o) BY <1>1, PartSame
<1>4. OnStack(t, o) = Occ(t, 1..n, o) BY <1>1, OnStackInterval
<1>5. OnStack(s, o) = Occ(s, 1..(n + 1), o) BY <1>1, OnStackInterval
<1> QED BY <1>1, <1>2, <1>3, <1>4, <1>5, CountType DEF t

\* What is cut off from b on is what OnStack loses.
LEMMA OnStackCut ==
  ASSUME NEW s \in Seq(Value), NEW b \in 1..Len(s), NEW res \in Value, NEW o
  PROVE  /\ OnStack(Append(SubSeq(s, 1, b - 1), res), o)
              = OnStack(s, o) - Count(s[b], o) - Occ(s, (b + 1)..Len(s), o) + Count(res, o)
         /\ Occ(s, (b + 1)..Len(s), o) \in Nat
<1> DEFINE t == Append(SubSeq(s, 1, b - 1), res)
           n == b - 1
           e == Len(s)
<1>1. e \in Nat /\ n \in Nat /\ b = n + 1 /\ b <= e /\ b \in Int BY LenProperties
<1>2. /\ t \in Seq(Value) /\ Len(t) = n + 1
      /\ \A i \in 1..n : t[i] = s[i]
      /\ t[n + 1] = res
  BY <1>1, CutFacts
<1>3. OnStack(s, o) = Occ(s, 1..e, o) BY OnStackInterval
<1> HIDE DEF t, n, e
<1>4. OnStack(t, o) = Occ(t, 1..(n + 1), o) BY <1>2, OnStackInterval
<1>5. Occ(t, 1..(n + 1), o) = Occ(t, 1..n, o) + Count(t[n + 1], o) BY <1>1, OccOneMore
<1>6. Occ(t, 1..n, o) = Occ(s, 1..n, o) BY <1>1, <1>2, PartSame
<1>7. /\ Occ(s, 1..(n + 1), o) = Occ(s, 1..n, o) + Count(s[n + 1], o)
      /\ Occ(s, 1..n, o) \in Nat
  BY <1>1, OccOneMore
<1>8. /\ Occ(s, 1..e, o) = Occ(s, 1..b, o) + Occ(s, (b + 1)..e, o)
      /\ Occ(s, (b + 1)..e, o) \in Nat
  <2> DEFINE d == b + 1
  <2>1. b \in Int /\ d \in Int /\ e \in Int /\ b < d /\ d <= b + 1 /\ 0 <= b /\ b <= e
    BY <1>1
  <2> HIDE DEF d
  <2>2. Occ(s, 1..e, o) = Occ(s, 1..b, o) + Occ(s, d..e, o) /\ Occ(s, d..e, o) \in Nat
    BY <2>1, PartCut
  <2> QED BY <2>2 DEF d
<1>9. 1..b = 1..(n + 1) /\ s[n + 1] = s[b] BY <1>1
<1>10. OnStack(t, o) = OnStack(s, o) - Count(s[b], o) - Occ(s, (b + 1)..e, o) + Count(res, o)
  BY <1>2, <1>3, <1>4, <1>5, <1>6, <1>7, <1>8, <1>9, CountType
<1> QED BY <1>8, <1>10 DEF t, e, n

\* Padding adds no holder, and what is cut off is what lies above.
LEMMA OnStackAdjusted ==
  ASSUME NEW s \in Seq(Value), NEW c \in Nat, NEW k \in Nat, NEW o
  PROVE  OnStack(Adjusted(s, c, k), o) = OnStack(s, o) - Occ(s, (c + k + 1)..Len(s), o)
<1> DEFINE t == Adjusted(s, c, k)
           n == c + k
           e == Len(s)
           d == n + 1
<1>1. e \in Nat /\ n \in Nat BY LenProperties
<1>2. /\ t \in Seq(Value) /\ Len(t) = n
      /\ \A i \in 1..n : t[i] = IF i <= e THEN s[i] ELSE Nil
  BY AdjustedFacts
<1>3. OnStack(s, o) = Occ(s, 1..e, o) BY OnStackInterval
<1>4. d \in Int /\ d = n + 1 BY <1>1
<1> HIDE DEF t, n, e, d
<1>5. OnStack(t, o) = Occ(t, 1..n, o) BY <1>2, OnStackInterval
<1>6. CASE n <= e
  <2>1. Occ(t, 1..n, o) = Occ(s, 1..n, o) BY <1>1, <1>2, <1>6, PartSame
  <2>2. n \in Int /\ d \in Int /\ e \in Int /\ n < d /\ d <= n + 1 /\ 0 <= n /\ n <= e
    BY <1>1, <1>4, <1>6
  <2>3. /\ Occ(s, 1..e, o) = Occ(s, 1..n, o) + Occ(s, d..e, o)
        /\ Occ(s, 1..n, o) \in Nat /\ Occ(s, d..e, o) \in Nat
    BY <2>2, PartCut
  <2>4. Occ(t, 1..n, o) = Occ(s, 1..e, o) - Occ(s, d..e, o) BY <2>1, <2>3
  <2> QED BY <1>3, <1>5, <2>4 DEF t, e, d, n
<1>7. CASE n > e
  <2> DEFINE a == e + 1
  <2>1. e \in Int /\ a \in Int /\ n \in Int /\ e < a /\ a <= e + 1 /\ 0 <= e /\ e <= n
    BY <1>1, <1>7
  <2>2. \A i \in Int : a <= i /\ i <= n => t[i] = Nil BY <1>1, <1>2, <1>7
  <2>3. \A i \in Int : 1 <= i /\ i <= e => t[i] = s[i] BY <1>1, <1>2, <1>7
  <2> HIDE DEF a
  <2>4. Occ(t, 1..n, o) = Occ(t, 1..e, o) + Occ(t, a..n, o) BY <2>1, PartCut
  <2>5. Occ(t, 1..e, o) = Occ(s, 1..e, o) /\ Occ(s, 1..e, o) \in Nat
    BY <2>1, <2>3, PartSame, PartType
  <2>6. Occ(t, a..n, o) = 0
    <3> DEFINE S == a..n
    <3>1. \A l \in S : Count(t[l], o) = 0 BY <2>1, <2>2, CountNil
    <3> HIDE DEF S
    <3>2. Occ(t, S, o) = 0 BY <3>1, OccNone
    <3> QED BY <3>2 DEF S
  <2>7. Occ(s, d..e, o) = 0
    <3>1. d..e = {} BY <1>1, <1>4, <1>7
    <3>2. \A l \in {} : Count(s[l], o) = 0 OBVIOUS
    <3> QED BY <3>1, <3>2, OccNone
  <2>8. Occ(t, 1..n, o) = Occ(s, 1..e, o) - Occ(s, d..e, o) BY <2>4, <2>5, <2>6, <2>7
  <2> QED BY <1>3, <1>5, <2>8 DEF t, e, d, n
<1> QED BY <1>1, <1>6, <1>7

\* The top is moved down to k, whose content is lost.
Stored(t, s, k) ==
  /\ t \in Seq(Value) /\ Len(t) = Len(s) - 1
  /\ \A i \in 1..(Len(s) - 1) : t[i] = IF i = k THEN LastOf(s) ELSE s[i]
  /\ \A o : OnStack(t, o) = OnStack(s, o) - Count(s[k], o)

LEMMA OnStackStore ==
  ASSUME NEW s \in Seq(Value), NEW k \in 1..(Len(s) - 1)
  PROVE  Stored(ButLast([s EXCEPT ![k] = LastOf(s)]), s, k)
<1> DEFINE g == [s EXCEPT ![k] = LastOf(s)]
           t == ButLast(g)
           n == Len(s)
<1>1. n \in Nat /\ k \in 1..n /\ k < n /\ s # <<>> BY LenProperties, EmptySeq
<1>2. LastOf(s) \in Value /\ LastOf(s) = s[n] BY <1>1, LastFacts
<1>3. /\ g \in Seq(Value) /\ Len(g) = n
      /\ \A j \in 1..n : g[j] = IF j = k THEN LastOf(s) ELSE s[j]
  BY <1>1, <1>2, ExceptSeq
<1> HIDE DEF g
<1>4. g # <<>> BY <1>1, <1>3, EmptySeq
<1>5. /\ t \in Seq(Value) /\ Len(t) = n - 1
      /\ \A i \in 1..(n - 1) : t[i] = g[i]
      /\ LastOf(g) = g[n]
  BY <1>3, <1>4, LastFacts
<1>6. ASSUME NEW o PROVE OnStack(t, o) = OnStack(g, o) - Count(LastOf(g), o)
  BY <1>3, <1>4, OnStackPop
<1>7. ASSUME NEW o PROVE OnStack(g, o) = OnStack(s, o) - Count(s[k], o) + Count(g[k], o)
  <2> DEFINE S == 1..n
  <2>1. k \in S /\ \A l \in S \ {k} : Count(g[l], o) = Count(s[l], o) BY <1>1, <1>3
  <2>2. OnStack(g, o) = Occ(g, S, o) /\ OnStack(s, o) = Occ(s, S, o) /\ IsFiniteSet(S)
    BY <1>3, OnStackInterval
  <2> HIDE DEF S
  <2> QED BY <2>1, <2>2, OccWrite
<1>8. g[k] = LastOf(s) /\ LastOf(g) = LastOf(s) BY <1>1, <1>2, <1>3, <1>5
<1>9. ASSUME NEW o PROVE OnStack(t, o) = OnStack(s, o) - Count(s[k], o)
  <2>1. OnStack(s, o) \in Nat BY OnStackInterval
  <2>2. OnStack(t, o) = OnStack(g, o) - Count(LastOf(s), o) BY <1>6, <1>8
  <2>3. OnStack(g, o) = OnStack(s, o) - Count(s[k], o) + Count(LastOf(s), o) BY <1>7, <1>8
  <2> QED BY <2>1, <2>2, <2>3, CountType
<1>10. \A i \in 1..(n - 1) : t[i] = IF i = k THEN LastOf(s) ELSE s[i] BY <1>1, <1>3, <1>5
<1>11. Stored(t, s, k) BY <1>5, <1>9, <1>10 DEF Stored, n
<1> QED BY <1>11 DEF g

-----------------------------------------------------------------------------
(***************************************************************************)
(* Frames.                                                                 *)
(***************************************************************************)
LEMMA AnchoredTop ==
  ASSUME NEW t, NEW c \in Seq(Frame), c # <<>>, NEW cl, Anchored(t, c, cl)
  PROVE  /\ Len(c) \in Nat /\ Len(c) >= 1 /\ LastOf(c) = c[Len(c)] /\ LastOf(c) \in Frame
         /\ LastOf(c).base \in 1..Len(t) /\ t[LastOf(c).base] = Closure(LastOf(c).cl)
         /\ cl[LastOf(c).cl] = LastOf(c).fn
         /\ \A i \in 1..Len(c) : /\ c[i] \in Frame /\ c[i].base <= LastOf(c).base
                                 /\ i # Len(c) => c[i].base < LastOf(c).base
<1>1. Len(c) \in Nat /\ Len(c) >= 1 /\ LastOf(c) = c[Len(c)] /\ LastOf(c) \in Frame
  BY LastFacts
<1>2. Len(c) \in 1..Len(c) BY <1>1
<1>3. /\ LastOf(c).base \in 1..Len(t) /\ t[LastOf(c).base] = Closure(LastOf(c).cl)
      /\ cl[LastOf(c).cl] = LastOf(c).fn
  BY <1>1, <1>2 DEF Anchored
<1>4. ASSUME NEW i \in 1..Len(c)
      PROVE  /\ c[i] \in Frame /\ c[i].base <= LastOf(c).base
             /\ i # Len(c) => c[i].base < LastOf(c).base
  <2>1. c[i] \in Frame /\ c[i].base \in Nat /\ LastOf(c).base \in Nat
    <3>1. c[i] \in Frame BY ElementOfSeq
    <3> QED BY <1>1, <3>1 DEF Frame
  <2>2. CASE i = Len(c) BY <1>1, <2>1, <2>2
  <2>3. CASE i # Len(c)
    <3>1. i < Len(c) BY <1>1, <2>3
    <3>2. c[i].base < c[Len(c)].base BY <1>2, <3>1 DEF Anchored
    <3> QED BY <1>1, <2>1, <2>3, <3>2
  <2> QED BY <2>2, <2>3
<1> QED BY <1>1, <1>3, <1>4

\* A stack that differs only above the base of the top frame.
LEMMA AnchoredAbove ==
  ASSUME NEW t, NEW c \in Seq(Frame), c # <<>>, NEW cl, Anchored(t, c, cl),
         NEW u, Len(u) \in Nat, LastOf(c).base <= Len(u),
         \A i \in 1..Len(u) : i <= LastOf(c).base => u[i] = t[i]
  PROVE  Anchored(u, c, cl)
<1> DEFINE b == LastOf(c).base
<1>1. ASSUME NEW i \in 1..Len(c)
      PROVE  /\ c[i].base \in 1..Len(u) /\ u[c[i].base] = Closure(c[i].cl)
             /\ cl[c[i].cl] = c[i].fn
  <2>1. c[i].base \in Nat /\ b \in Nat /\ c[i].base <= b BY AnchoredTop DEF Frame
  <2>2. c[i].base \in 1..Len(t) /\ t[c[i].base] = Closure(c[i].cl) /\ cl[c[i].cl] = c[i].fn
    BY DEF Anchored
  <2>3. c[i].base >= 1 BY <2>1, <2>2
  <2>4. c[i].base \in 1..Len(u) BY <2>1, <2>3
  <2> QED BY <2>1, <2>2, <2>4
<1>2. \A i, j \in 1..Len(c) : i < j => c[i].base < c[j].base BY DEF Anchored
<1> QED BY <1>1, <1>2 DEF Anchored

\* A frame goes on to other instructions.
SameFrames(c, d) ==
  /\ Len(d) = Len(c)
  /\ \A i \in 1..Len(c) : d[i].base = c[i].base /\ d[i].cl = c[i].cl /\ d[i].fn = c[i].fn

LEMMA AnchoredSame ==
  ASSUME NEW t, NEW c, NEW d, NEW cl, Anchored(t, c, cl), SameFrames(c, d)
  PROVE  Anchored(t, d, cl)
  BY DEF Anchored, SameFrames

LEMMA AnchoredCall ==
  ASSUME NEW t, NEW c \in Seq(Frame), NEW cl, Anchored(t, c, cl),
         NEW fr \in Frame, fr.base \in 1..Len(t), t[fr.base] = Closure(fr.cl),
         cl[fr.cl] = fr.fn, c # <<>> => LastOf(c).base < fr.base
  PROVE  Anchored(t, Append(c, fr), cl)
<1> DEFINE d == Append(c, fr)
           n == Len(c)
<1>1. /\ n \in Nat /\ Len(d) = n + 1
      /\ \A i \in 1..n : d[i] = c[i]
      /\ d[n + 1] = fr
  BY AppendProperties, LenProperties
<1>2. \A i \in 1..n : c[i].base < fr.base
  <2>1. CASE n = 0 BY <2>1
  <2>2. CASE n # 0
    <3>1. c # <<>>
      <4>1. Len(<<>>) = 0 BY EmptySeq
      <4> QED BY <2>2, <4>1
    <3>2. \A i \in 1..n : c[i].base \in Nat /\ c[i].base <= LastOf(c).base
      BY <3>1, AnchoredTop DEF Frame
    <3>3. LastOf(c).base \in Nat /\ fr.base \in Nat BY <3>1, AnchoredTop DEF Frame
    <3> QED BY <3>1, <3>2, <3>3
  <2> QED BY <2>1, <2>2
<1> HIDE DEF d
<1>3. ASSUME NEW i \in 1..(n + 1)
      PROVE  /\ d[i].base \in 1..Len(t) /\ t[d[i].base] = Closure(d[i].cl)
             /\ cl[d[i].cl] = d[i].fn
  <2>1. CASE i = n + 1 BY <1>1, <2>1
  <2>2. CASE i # n + 1
    <3>1. i \in 1..n BY <1>1, <2>2
    <3> QED BY <1>1, <3>1 DEF Anchored
  <2> QED BY <2>1, <2>2
<1>4. ASSUME NEW i \in 1..(n + 1), NEW j \in 1..(n + 1), i < j
      PROVE  d[i].base < d[j].base
  <2>1. i \in 1..n BY <1>1, <1>4
  <2>2. CASE j = n + 1 BY <1>1, <1>2, <2>1, <2>2
  <2>3. CASE j # n + 1
    <3>1. j \in 1..n BY <1>1, <2>3
    <3> QED BY <1>1, <1>4, <2>1, <3>1 DEF Anchored
  <2> QED BY <2>2, <2>3
<1>5. \A i \in 1..Len(d) : /\ d[i].base \in 1..Len(t) /\ t[d[i].base] = Closure(d[i].cl)
                           /\ cl[d[i].cl] = d[i].fn
  BY <1>1, <1>3
<1>6. \A i, j \in 1..Len(d) : i < j => d[i].base < d[j].base BY <1>1, <1>4
<1> QED BY <1>5, <1>6 DEF Anchored, d

\* The top frame is left, and the stack differs only from its base on.
LEMMA AnchoredReturn ==
  ASSUME NEW t, NEW c \in Seq(Frame), c # <<>>, NEW cl, Anchored(t, c, cl),
         NEW u, Len(u) \in Nat, LastOf(c).base <= Len(u),
         \A i \in 1..Len(u) : i < LastOf(c).base => u[i] = t[i]
  PROVE  Anchored(u, ButLast(c), cl)
<1> DEFINE d == ButLast(c)
           n == Len(c) - 1
           b == LastOf(c).base
<1>1. /\ Len(d) = n /\ n \in Nat /\ \A i \in 1..n : d[i] = c[i] /\ i \in 1..Len(c) /\ i # Len(c)
  <2>1. Len(c) \in Nat /\ Len(c) >= 1 /\ Len(d) = Len(c) - 1
        /\ \A i \in 1..(Len(c) - 1) : d[i] = c[i]
    BY LastFacts
  <2> QED BY <2>1
<1> HIDE DEF d
<1>2. ASSUME NEW i \in 1..n
      PROVE  /\ d[i].base \in 1..Len(u) /\ u[d[i].base] = Closure(d[i].cl)
             /\ cl[d[i].cl] = d[i].fn
  <2>1. d[i] = c[i] /\ i \in 1..Len(c) /\ i # Len(c) BY <1>1
  <2>2. c[i].base \in Nat /\ b \in Nat /\ c[i].base < b BY <2>1, AnchoredTop DEF Frame
  <2>3. c[i].base \in 1..Len(t) /\ t[c[i].base] = Closure(c[i].cl) /\ cl[c[i].cl] = c[i].fn
    BY <2>1 DEF Anchored
  <2>4. c[i].base >= 1 BY <2>2, <2>3
  <2>5. c[i].base \in 1..Len(u) BY <2>2, <2>4
  <2> QED BY <2>1, <2>2, <2>3, <2>5
<1>3. \A i, j \in 1..n : i < j => d[i].base < d[j].base BY <1>1 DEF Anchored
<1> QED BY <1>1, <1>2, <1>3 DEF Anchored, d
==============================================================================
