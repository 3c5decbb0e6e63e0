----------------------------- MODULE RakCounting -----------------------------
(***************************************************************************)
(* Lemmas about RakMemory: how many locations hold an object, and what the *)
(* retains and releases of a handler do to the count of it.                *)
(***************************************************************************)
EXTENDS RakMemory, FiniteSetTheorems, SequenceTheorems, TLAPS

\* What one value adds to the number of holders of o.
Count(v, o) == IF Holds(v, o) THEN 1 ELSE 0

LEMMA CountType == \A v, o : Count(v, o) \in {0, 1}
  BY DEF Count

LEMMA CountScalar ==
  ASSUME NEW v, ~IsObject(v), NEW o
  PROVE  Count(v, o) = 0
  BY DEF Count, Holds

LEMMA CountNil == \A o : Count(Nil, o) = 0
<1>1. ~IsObject(Nil) BY DEF Nil, IsObject, ObjectType
<1> QED BY <1>1, CountScalar

\* The flag is not part of what a value holds.
LEMMA CountSame ==
  ASSUME NEW v, NEW w, v.type = w.type, v.data = w.data, NEW o
  PROVE  Count(v, o) = Count(w, o)
  BY DEF Count, Holds, IsObject

LEMMA CountAsShared ==
  ASSUME NEW v \in Value, NEW o
  PROVE  Count(AsShared(v), o) = Count(v, o)
<1>1. AsShared(v).type = v.type /\ AsShared(v).data = v.data BY DEF AsShared, Value
<1> QED BY <1>1, CountSame

-----------------------------------------------------------------------------
(***************************************************************************)
(* Counting the locations that hold an object.                             *)
(***************************************************************************)
\* The number of locations that hold an object is a natural number.
LEMMA OccType ==
  ASSUME NEW S, IsFiniteSet(S), NEW f, NEW o
  PROVE  Occ(f, S, o) \in Nat
<1>1. {l \in S : Holds(f[l], o)} \subseteq S OBVIOUS
<1> QED BY <1>1, FS_Subset, FS_CardinalityType DEF Occ

LEMMA OccNone ==
  ASSUME NEW S, NEW f, NEW o, \A l \in S : Count(f[l], o) = 0
  PROVE  Occ(f, S, o) = 0
<1>1. {l \in S : Holds(f[l], o)} = {} BY DEF Count
<1> QED BY <1>1, FS_EmptySet DEF Occ

LEMMA OccZero ==
  ASSUME NEW S, IsFiniteSet(S), NEW f, NEW o, Occ(f, S, o) = 0
  PROVE  \A l \in S : ~Holds(f[l], o)
<1> DEFINE H == {l \in S : Holds(f[l], o)}
<1>1. H \subseteq S OBVIOUS
<1>2. IsFiniteSet(H) BY <1>1, FS_Subset
<1>3. H = {} BY <1>2, FS_EmptySet DEF Occ
<1> QED BY <1>3

LEMMA OccSame ==
  ASSUME NEW S, NEW f, NEW g, NEW o,
         \A l \in S : Count(f[l], o) = Count(g[l], o)
  PROVE  Occ(f, S, o) = Occ(g, S, o)
<1>1. \A l \in S : Holds(f[l], o) <=> Holds(g[l], o) BY DEF Count
<1>2. {l \in S : Holds(f[l], o)} = {l \in S : Holds(g[l], o)} BY <1>1
<1> QED BY <1>2 DEF Occ

LEMMA OccSplit ==
  ASSUME NEW S, NEW T, NEW f, NEW o, IsFiniteSet(S), IsFiniteSet(T), S \cap T = {}
  PROVE  Occ(f, S \cup T, o) = Occ(f, S, o) + Occ(f, T, o)
<1> DEFINE HS == {l \in S : Holds(f[l], o)}
           HT == {l \in T : Holds(f[l], o)}
<1>1. HS \subseteq S /\ HT \subseteq T OBVIOUS
<1>2. IsFiniteSet(HS) /\ IsFiniteSet(HT) BY <1>1, FS_Subset
<1>3. {l \in S \cup T : Holds(f[l], o)} = HS \cup HT OBVIOUS
<1>4. HS \cap HT = {} BY <1>1
<1> HIDE DEF HS, HT
<1>5. Cardinality(HS \cup HT) = Cardinality(HS) + Cardinality(HT) - 0
  BY <1>2, <1>4, FS_Union, FS_EmptySet
<1>6. Cardinality(HS) \in Nat /\ Cardinality(HT) \in Nat
  BY <1>2, FS_CardinalityType
<1>7. /\ Occ(f, S, o) = Cardinality(HS) /\ Occ(f, T, o) = Cardinality(HT)
      /\ Occ(f, S \cup T, o) = Cardinality(HS \cup HT)
  BY <1>3 DEF Occ, HS, HT
<1> QED BY <1>5, <1>6, <1>7

LEMMA OccSingle ==
  ASSUME NEW x, NEW f, NEW o
  PROVE  Occ(f, {x}, o) = Count(f[x], o)
<1>1. CASE Holds(f[x], o)
  <2>1. {l \in {x} : Holds(f[l], o)} = {x} BY <1>1
  <2> QED BY <1>1, <2>1, FS_Singleton DEF Occ, Count
<1>2. CASE ~Holds(f[x], o)
  <2>1. {l \in {x} : Holds(f[l], o)} = {} BY <1>2
  <2> QED BY <1>2, <2>1, FS_EmptySet DEF Occ, Count
<1> QED BY <1>1, <1>2

\* One location apart from the others.
LEMMA OccRemove ==
  ASSUME NEW S, NEW x, NEW f, NEW o, IsFiniteSet(S), x \in S
  PROVE  Occ(f, S, o) = Occ(f, S \ {x}, o) + Count(f[x], o)
<1>1. S = (S \ {x}) \cup {x} /\ (S \ {x}) \cap {x} = {} OBVIOUS
<1>2. IsFiniteSet(S \ {x}) /\ IsFiniteSet({x}) BY FS_RemoveElement, FS_Singleton
<1>3. Occ(f, (S \ {x}) \cup {x}, o) = Occ(f, S \ {x}, o) + Occ(f, {x}, o)
  BY <1>1, <1>2, OccSplit
<1> QED BY <1>1, <1>3, OccSingle

\* A subset apart from the others.
LEMMA OccWithout ==
  ASSUME NEW S, NEW T, NEW f, NEW o, IsFiniteSet(S), T \subseteq S
  PROVE  Occ(f, S, o) = Occ(f, S \ T, o) + Occ(f, T, o)
<1>1. S = (S \ T) \cup T /\ (S \ T) \cap T = {} OBVIOUS
<1>2. IsFiniteSet(S \ T) /\ IsFiniteSet(T) BY FS_Difference, FS_Subset
<1> QED BY <1>1, <1>2, OccSplit

\* What a write to the location x does.
LEMMA OccWrite ==
  ASSUME NEW S, NEW x, NEW f, NEW g, NEW o, IsFiniteSet(S), x \in S,
         \A l \in S \ {x} : Count(g[l], o) = Count(f[l], o)
  PROVE  Occ(g, S, o) = Occ(f, S, o) - Count(f[x], o) + Count(g[x], o)
<1>1. Occ(f, S, o) = Occ(f, S \ {x}, o) + Count(f[x], o) BY OccRemove
<1>2. Occ(g, S, o) = Occ(g, S \ {x}, o) + Count(g[x], o) BY OccRemove
<1>3. Occ(g, S \ {x}, o) = Occ(f, S \ {x}, o) BY OccSame
<1>4. Occ(f, S \ {x}, o) \in Nat BY FS_RemoveElement, OccType
<1> QED BY <1>1, <1>2, <1>3, <1>4, CountType

\* Moving the contents of the locations of S one by one to those of T.
LEMMA OccMove ==
  ASSUME NEW S, NEW T, NEW h, NEW f, NEW g, NEW o,
         IsFiniteSet(S), h \in Bijection(S, T),
         \A l \in S : Count(f[l], o) = Count(g[h[l]], o)
  PROVE  Occ(f, S, o) = Occ(g, T, o)
<1> DEFINE HS == {l \in S : Holds(f[l], o)}
           HT == {l \in T : Holds(g[l], o)}
           k == [l \in HS |-> h[l]]
<1>1. \A l \in S : Holds(f[l], o) <=> Holds(g[h[l]], o) BY DEF Count
<1>2. h \in [S -> T] /\ (\A l1, l2 \in S : h[l1] = h[l2] => l1 = l2)
      /\ \A t \in T : \E l \in S : h[l] = t
  BY DEF Bijection, Injection, IsInjective, Surjection
<1>3. k \in [HS -> HT] BY <1>1, <1>2
<1>4. \A l1, l2 \in HS : k[l1] = k[l2] => l1 = l2 BY <1>2
<1>5. \A t \in HT : \E l \in HS : k[l] = t BY <1>1, <1>2
<1>6. HS \subseteq S OBVIOUS
<1>7. IsFiniteSet(HS) BY <1>6, FS_Subset
<1> HIDE DEF HS, HT, k
<1>8. k \in Bijection(HS, HT)
  BY <1>3, <1>4, <1>5 DEF Bijection, Injection, IsInjective, Surjection
<1>9. ExistsBijection(HS, HT) BY <1>8 DEF ExistsBijection
<1>10. Cardinality(HT) = Cardinality(HS) BY <1>7, <1>9, FS_Bijection
<1> QED BY <1>10 DEF Occ, HS, HT

\* The slot h, on top of those below it.
LEMMA OccTop ==
  ASSUME NEW f, NEW h, NEW x, h \in Int, h >= 0
  PROVE  /\ Occ(f, 0..h, x) = Occ(f, 0..(h - 1), x) + Count(f[h], x)
         /\ Occ(f, 0..(h - 1), x) \in Nat
<1> DEFINE S == 0..h
<1>1. S \ {h} = 0..(h - 1) /\ h \in S OBVIOUS
<1>2. IsFiniteSet(S) /\ IsFiniteSet(0..(h - 1)) BY FS_Interval
<1> HIDE DEF S
<1>3. Occ(f, S, x) = Occ(f, S \ {h}, x) + Count(f[h], x) BY <1>1, <1>2, OccRemove
<1>4. Occ(f, 0..(h - 1), x) \in Nat BY <1>2, OccType
<1> QED BY <1>1, <1>3, <1>4 DEF S

\* Two intervals one after the other.
LEMMA OccCut ==
  ASSUME NEW f, NEW x, NEW a, NEW h, NEW b, NEW e,
         a \in Int, h \in Int, b \in Int, e \in Int, h < b, b <= h + 1, a <= b, h <= e
  PROVE  /\ Occ(f, a..e, x) = Occ(f, a..h, x) + Occ(f, b..e, x)
         /\ Occ(f, a..h, x) \in Nat
         /\ Occ(f, b..e, x) \in Nat
<1> DEFINE S == a..h
           T == b..e
           U == a..e
<1>1. U = S \cup T /\ S \cap T = {} OBVIOUS
<1>2. IsFiniteSet(S) BY FS_Interval
<1>4. IsFiniteSet(T) BY FS_Interval
<1> HIDE DEF S, T, U
<1>5. Occ(f, U, x) = Occ(f, S, x) + Occ(f, T, x) BY <1>1, <1>2, <1>4, OccSplit
<1>6. Occ(f, S, x) \in Nat /\ Occ(f, T, x) \in Nat BY <1>2, <1>4, OccType
<1> QED BY <1>5, <1>6 DEF S, T, U

\* The contents of an interval, moved from a to b.
LEMMA OccShift ==
  ASSUME NEW f, NEW g, NEW x, NEW a, NEW e, NEW b, NEW d,
         a \in Int, e \in Int, b \in Int, d \in Int, e - a = d - b,
         \A i \in Int : a <= i /\ i <= e => Count(f[i], x) = Count(g[i - a + b], x)
  PROVE  Occ(f, a..e, x) = Occ(g, b..d, x)
<1> DEFINE S == a..e
           T == b..d
           h == [s \in S |-> s - a + b]
<1>2. IsFiniteSet(S) BY FS_Interval
<1>3. h \in Bijection(S, T)
  <2>1. h \in [S -> T] OBVIOUS
  <2>2. \A k, l \in S : h[k] = h[l] => k = l OBVIOUS
  <2>3. \A t \in T : t - b + a \in S /\ h[t - b + a] = t OBVIOUS
  <2> HIDE DEF S, T, h
  <2> QED BY <2>1, <2>2, <2>3 DEF Bijection, Injection, IsInjective, Surjection
<1>4. \A l \in S : Count(f[l], x) = Count(g[h[l]], x) OBVIOUS
<1> HIDE DEF S, T, h
<1>5. Occ(f, S, x) = Occ(g, T, x) BY <1>2, <1>3, <1>4, OccMove
<1> QED BY <1>5 DEF S, T

\* One more element at the end of an array.
LEMMA OccOneMore ==
  ASSUME NEW f, NEW x, NEW n, n \in Nat
  PROVE  /\ Occ(f, 1..(n + 1), x) = Occ(f, 1..n, x) + Count(f[n + 1], x)
         /\ Occ(f, 1..n, x) \in Nat
<1> DEFINE S == 1..(n + 1)
           T == 1..n
<1>1. S \ {n + 1} = T /\ n + 1 \in S OBVIOUS
<1>2. IsFiniteSet(S) /\ IsFiniteSet(T) BY FS_Interval
<1> HIDE DEF S, T
<1>3. Occ(f, S, x) = Occ(f, S \ {n + 1}, x) + Count(f[n + 1], x)
  BY <1>1, <1>2, OccRemove
<1>4. Occ(f, T, x) \in Nat BY <1>2, OccType
<1>5. Occ(f, S, x) = Occ(f, T, x) + Count(f[n + 1], x) BY <1>1, <1>3
<1> QED BY <1>4, <1>5 DEF S, T

\* The cells of an array at the indices of T.
CellsAt(o, T) == {o} \X T

\* They hold what a function of these indices holds.
LEMMA OccElements ==
  ASSUME NEW f, NEW g, NEW o, NEW T, NEW x, IsFiniteSet(T),
         \A i \in T : Count(f[<<o, i>>], x) = Count(g[i], x)
  PROVE  Occ(f, CellsAt(o, T), x) = Occ(g, T, x)
<1> DEFINE S == {o} \X T
           h == [l \in S |-> l[2]]
<1>2. IsFiniteSet(S) BY FS_Singleton, FS_Product
<1>3. h \in Bijection(S, T)
  <2>1. h \in [S -> T] OBVIOUS
  <2>2. \A k, l \in S : h[k] = h[l] => k = l OBVIOUS
  <2>3. \A t \in T : <<o, t>> \in S /\ h[<<o, t>>] = t OBVIOUS
  <2> HIDE DEF S, h
  <2> QED BY <2>1, <2>2, <2>3 DEF Bijection, Injection, IsInjective, Surjection
<1>4. \A l \in S : Count(f[l], x) = Count(g[h[l]], x)
  <2>1. \A l \in S : l = <<o, l[2]>> /\ l[2] \in T /\ h[l] = l[2] OBVIOUS
  <2> HIDE DEF S, h
  <2> QED BY <2>1
<1> HIDE DEF S, h
<1>5. Occ(f, S, x) = Occ(g, T, x) BY <1>2, <1>3, <1>4, OccMove
<1> QED BY <1>5 DEF S, CellsAt

-----------------------------------------------------------------------------
(***************************************************************************)
(* Counting on sequences of values: a stack, the fields of a record.       *)
(***************************************************************************)
OnStack(t, o) == Occ(t, DOMAIN t, o)

LEMMA NilType == Nil \in Value
  BY DEF Nil, Value, ScalarType

LEMMA OnStackInterval ==
  ASSUME NEW s \in Seq(Value), NEW o
  PROVE  /\ OnStack(s, o) = Occ(s, 1..Len(s), o) /\ OnStack(s, o) \in Nat
         /\ IsFiniteSet(DOMAIN s) /\ DOMAIN s = 1..Len(s) /\ Len(s) \in Nat
<1>1. DOMAIN s = 1..Len(s) /\ Len(s) \in Nat BY LenProperties
<1>2. IsFiniteSet(1..Len(s)) BY <1>1, FS_Interval
<1> QED BY <1>1, <1>2, OccType DEF OnStack

\* The part from a to e of a stack.
LEMMA PartType ==
  ASSUME NEW f, NEW a \in Int, NEW e \in Int, NEW o
  PROVE  Occ(f, a..e, o) \in Nat /\ IsFiniteSet(a..e)
<1>1. IsFiniteSet(a..e) BY FS_Interval
<1> QED BY <1>1, OccType

LEMMA PartSame ==
  ASSUME NEW f, NEW g, NEW a \in Int, NEW e \in Int, NEW o,
         \A i \in Int : a <= i /\ i <= e => f[i] = g[i]
  PROVE  Occ(f, a..e, o) = Occ(g, a..e, o)
<1> DEFINE S == a..e
<1>1. \A l \in S : Count(f[l], o) = Count(g[l], o) OBVIOUS
<1> HIDE DEF S
<1>2. Occ(f, S, o) = Occ(g, S, o) BY <1>1, OccSame
<1> QED BY <1>2 DEF S

LEMMA PartCut ==
  ASSUME NEW f, NEW h \in Int, NEW d \in Int, NEW e \in Int, NEW o,
         h < d, d <= h + 1, 0 <= h, h <= e
  PROVE  /\ Occ(f, 1..e, o) = Occ(f, 1..h, o) + Occ(f, d..e, o)
         /\ Occ(f, 1..h, o) \in Nat /\ Occ(f, d..e, o) \in Nat
<1> DEFINE z == 1
<1>1. z \in Int /\ z <= d OBVIOUS
<1> HIDE DEF z
<1>2. /\ Occ(f, z..e, o) = Occ(f, z..h, o) + Occ(f, d..e, o)
      /\ Occ(f, z..h, o) \in Nat /\ Occ(f, d..e, o) \in Nat
  BY <1>1, OccCut
<1> QED BY <1>2 DEF z

LEMMA OnStackPush ==
  ASSUME NEW s \in Seq(Value), NEW v \in Value, NEW o
  PROVE  OnStack(Append(s, v), o) = OnStack(s, o) + Count(v, o)
<1> DEFINE t == Append(s, v)
           n == Len(s)
<1>1. /\ t \in Seq(Value) /\ Len(t) = n + 1 /\ n \in Nat
      /\ \A i \in 1..n : t[i] = s[i]
      /\ t[n + 1] = v
  BY AppendProperties, LenProperties
<1> HIDE DEF t, n
<1>2. Occ(t, 1..(n + 1), o) = Occ(t, 1..n, o) + Count(t[n + 1], o) BY <1>1, OccOneMore
<1>3. Occ(t, 1..n, o) = Occ(s, 1..n, o) BY <1>1, PartSame
<1>4. OnStack(t, o) = Occ(t, 1..(n + 1), o) BY <1>1, OnStackInterval
<1>5. OnStack(s, o) = Occ(s, 1..n, o) BY OnStackInterval DEF n
<1> QED BY <1>1, <1>2, <1>3, <1>4, <1>5 DEF t

-----------------------------------------------------------------------------
(***************************************************************************)
(* Counting over the sequences s[f] of all f in F.                         *)
(***************************************************************************)
PlacesOf(F, s) == UNION {{f} \X DOMAIN s[f] : f \in F}

\* How many locations in them hold o.
OnStacks(F, s, o) ==
  Occ([p \in PlacesOf(F, s) |-> s[p[1]][p[2]]], PlacesOf(F, s), o)

Stacks(F, s) == \A f \in F : s[f] \in Seq(Value)

LEMMA PlacesFinite ==
  ASSUME NEW F, IsFiniteSet(F), NEW s, Stacks(F, s), NEW o
  PROVE  IsFiniteSet(PlacesOf(F, s)) /\ OnStacks(F, s, o) \in Nat
<1> DEFINE Rows == {{f} \X DOMAIN s[f] : f \in F}
           row == [f \in F |-> {f} \X DOMAIN s[f]]
<1>1. IsFiniteSet(Rows)
  <2>1. row \in Surjection(F, Rows) BY DEF Surjection
  <2> HIDE DEF Rows, row
  <2> QED BY <2>1, FS_Surjection
<1>2. ASSUME NEW f \in F PROVE IsFiniteSet({f} \X DOMAIN s[f])
  <2>1. s[f] \in Seq(Value) BY DEF Stacks
  <2>2. IsFiniteSet(DOMAIN s[f]) BY <2>1, OnStackInterval
  <2>3. IsFiniteSet({f}) BY FS_Singleton
  <2> QED BY <2>2, <2>3, FS_Product
<1>3. \A T \in Rows : IsFiniteSet(T) BY <1>2
<1> HIDE DEF Rows
<1>4. IsFiniteSet(UNION Rows) BY <1>1, <1>3, FS_UNION
<1>5. IsFiniteSet(PlacesOf(F, s)) BY <1>4 DEF Rows, PlacesOf
<1> QED BY <1>5, OccType DEF OnStacks

LEMMA OnStacksSplit ==
  ASSUME NEW F, IsFiniteSet(F), NEW s, Stacks(F, s), NEW f \in F, NEW o
  PROVE  /\ OnStacks(F, s, o) = OnStacks(F \ {f}, s, o) + OnStack(s[f], o)
         /\ OnStacks(F \ {f}, s, o) \in Nat /\ OnStack(s[f], o) \in Nat
<1> DEFINE P == PlacesOf(F, s)
           P0 == PlacesOf(F \ {f}, s)
           D == DOMAIN s[f]
           Q == CellsAt(f, D)
           g == [p \in P |-> s[p[1]][p[2]]]
           g0 == [p \in P0 |-> s[p[1]][p[2]]]
<1>1. s[f] \in Seq(Value) BY DEF Stacks
<1>2. IsFiniteSet(D) /\ OnStack(s[f], o) \in Nat BY <1>1, OnStackInterval
<1>3. IsFiniteSet(F \ {f}) /\ Stacks(F \ {f}, s) BY FS_RemoveElement DEF Stacks
<1>4. IsFiniteSet(P) /\ IsFiniteSet(P0) /\ OnStacks(F \ {f}, s, o) \in Nat
  BY <1>3, PlacesFinite
<1>5. P = P0 \cup Q /\ P0 \cap Q = {} BY DEF PlacesOf, CellsAt
<1>6. IsFiniteSet(Q)
  <2>1. Q \subseteq P BY <1>5
  <2> QED BY <1>4, <2>1, FS_Subset
<1>7. \A p \in P0 : Count(g[p], o) = Count(g0[p], o)
  <2>1. \A p \in P0 : g[p] = g0[p] BY <1>5
  <2> QED BY <2>1
<1>8. \A i \in D : Count(g[<<f, i>>], o) = Count(s[f][i], o)
  <2>1. \A i \in D : <<f, i>> \in P BY <1>5 DEF CellsAt
  <2>2. \A i \in D : g[<<f, i>>] = s[f][i] BY <2>1
  <2> QED BY <2>2
<1>9. OnStacks(F, s, o) = Occ(g, P, o) /\ OnStacks(F \ {f}, s, o) = Occ(g0, P0, o)
      /\ OnStack(s[f], o) = Occ(s[f], D, o)
  BY DEF OnStacks, OnStack
<1> HIDE DEF P, P0, D, Q, g, g0
<1>10. Occ(g, P, o) = Occ(g, P0, o) + Occ(g, Q, o) BY <1>4, <1>5, <1>6, OccSplit
<1>11. Occ(g, P0, o) = Occ(g0, P0, o) BY <1>7, OccSame
<1>12. Occ(g, Q, o) = Occ(s[f], D, o) BY <1>2, <1>8, OccElements DEF Q
<1> QED BY <1>2, <1>4, <1>9, <1>10, <1>11, <1>12

LEMMA OnStacksSame ==
  ASSUME NEW F, NEW s, NEW t, \A f \in F : s[f] = t[f], NEW o
  PROVE  OnStacks(F, s, o) = OnStacks(F, t, o)
<1> DEFINE P == PlacesOf(F, s)
           gs == [p \in P |-> s[p[1]][p[2]]]
           gt == [p \in P |-> t[p[1]][p[2]]]
<1>1. P = PlacesOf(F, t)
  <2>1. \A f \in F : {f} \X DOMAIN s[f] = {f} \X DOMAIN t[f] OBVIOUS
  <2> QED BY <2>1 DEF PlacesOf
<1>2. \A p \in P : p[1] \in F BY DEF PlacesOf
<1>3. \A p \in P : Count(gs[p], o) = Count(gt[p], o) BY <1>2
<1> HIDE DEF P, gs, gt
<1>4. Occ(gs, P, o) = Occ(gt, P, o) BY <1>3, OccSame
<1> QED BY <1>1, <1>4 DEF OnStacks, P, gs, gt

\* One of them is written.
LEMMA OnStacksWrite ==
  ASSUME NEW F, IsFiniteSet(F), NEW s, Stacks(F, s), NEW t, Stacks(F, t),
         NEW f \in F, \A g \in F \ {f} : s[g] = t[g], NEW o
  PROVE  OnStacks(F, t, o) = OnStacks(F, s, o) - OnStack(s[f], o) + OnStack(t[f], o)
<1>1. OnStacks(F \ {f}, s, o) = OnStacks(F \ {f}, t, o) BY OnStacksSame
<1>2. OnStacks(F, s, o) = OnStacks(F \ {f}, s, o) + OnStack(s[f], o)
      /\ OnStacks(F \ {f}, s, o) \in Nat /\ OnStack(s[f], o) \in Nat
  BY OnStacksSplit
<1>3. OnStacks(F, t, o) = OnStacks(F \ {f}, t, o) + OnStack(t[f], o)
      /\ OnStack(t[f], o) \in Nat
  BY OnStacksSplit
<1> QED BY <1>1, <1>2, <1>3

-----------------------------------------------------------------------------
(***************************************************************************)
(* The memory record keeps its type.                                       *)
(***************************************************************************)
MemType == [rc : [Obj -> Int], dying : SUBSET Obj]

LEMMA RetainType ==
  ASSUME NEW m \in MemType, NEW v
  PROVE  Retain(m, v) \in MemType
  BY DEF MemType, Retain

LEMMA ReleaseType ==
  ASSUME NEW m \in MemType, NEW v
  PROVE  Release(m, v) \in MemType
  BY DEF MemType, Release

LEMMA DropType ==
  ASSUME NEW m \in MemType, NEW v
  PROVE  Drop(m, v) \in MemType
  BY DEF MemType, Drop

LEMMA RetainAllType ==
  ASSUME NEW m \in MemType, NEW S, IsFiniteSet(S), NEW f
  PROVE  RetainAll(m, f, S) \in MemType
<1>1. \A o \in Obj : Occ(f, S, o) \in Nat BY OccType
<1> QED BY <1>1 DEF MemType, RetainAll

LEMMA ReleaseAllType ==
  ASSUME NEW m \in MemType, NEW S, IsFiniteSet(S), NEW f
  PROVE  ReleaseAll(m, f, S) \in MemType
<1>1. \A o \in Obj : Occ(f, S, o) \in Nat BY OccType
<1> QED BY <1>1 DEF MemType, ReleaseAll

-----------------------------------------------------------------------------
(***************************************************************************)
(* What retains and releases do to the count of an object.                 *)
(***************************************************************************)
LEMMA RetainCount ==
  ASSUME NEW m \in MemType, NEW v, NEW o \in Obj
  PROVE  Retain(m, v).rc[o] = m.rc[o] + Count(v, o)
  BY DEF MemType, Retain, Count

LEMMA ReleaseCount ==
  ASSUME NEW m \in MemType, NEW v, NEW o \in Obj
  PROVE  Release(m, v).rc[o] = m.rc[o] - Count(v, o)
  BY DEF MemType, Release, Count

LEMMA DropCount ==
  ASSUME NEW m \in MemType, NEW v, NEW o \in Obj
  PROVE  Drop(m, v).rc[o] = m.rc[o] - Count(v, o)
  BY DEF MemType, Drop, Count

LEMMA RetainAllCount ==
  ASSUME NEW m, NEW S, NEW f, NEW o \in Obj
  PROVE  RetainAll(m, f, S).rc[o] = m.rc[o] + Occ(f, S, o)
  BY DEF RetainAll

LEMMA ReleaseAllCount ==
  ASSUME NEW m, NEW S, NEW f, NEW o \in Obj
  PROVE  ReleaseAll(m, f, S).rc[o] = m.rc[o] - Occ(f, S, o)
  BY DEF ReleaseAll

-----------------------------------------------------------------------------
(***************************************************************************)
(* A condemned object is not brought back: its count stays at zero.        *)
(***************************************************************************)
AtZero(m) == \A o \in m.dying : m.rc[o] <= 0

LEMMA RetainAtZero ==
  ASSUME NEW m \in MemType, AtZero(m), NEW v, \A o \in m.dying : ~Holds(v, o)
  PROVE  AtZero(Retain(m, v))
  BY DEF MemType, AtZero, Retain

LEMMA ReleaseAtZero ==
  ASSUME NEW m \in MemType, AtZero(m), NEW v
  PROVE  AtZero(Release(m, v))
  BY DEF MemType, AtZero, Release

LEMMA DropAtZero ==
  ASSUME NEW m \in MemType, AtZero(m), NEW v
  PROVE  AtZero(Drop(m, v))
  BY DEF MemType, AtZero, Drop

LEMMA ReleaseAllAtZero ==
  ASSUME NEW m \in MemType, AtZero(m), NEW S, IsFiniteSet(S), NEW f
  PROVE  AtZero(ReleaseAll(m, f, S))
<1>1. \A o \in Obj : Occ(f, S, o) \in Nat /\ m.rc[o] \in Int BY OccType DEF MemType
<1>2. m.dying \subseteq Obj BY DEF MemType
<1> QED BY <1>1, <1>2 DEF AtZero, ReleaseAll

\* Nothing is condemned by a retain.
LEMMA RetainsSpare ==
  ASSUME NEW m, NEW v, NEW f, NEW S
  PROVE  Retain(m, v).dying = m.dying /\ RetainAll(m, f, S).dying = m.dying
  BY DEF Retain, RetainAll

-----------------------------------------------------------------------------
(***************************************************************************)
(* An object whose count is used up is condemned, unless it is in U, the   *)
(* free memory.  A bare decrement is right only where a count is left.     *)
(***************************************************************************)
Caught(m, U) == \A o \in Obj : m.rc[o] <= 0 => o \in m.dying \cup U

LEMMA RetainCaught ==
  ASSUME NEW m \in MemType, NEW U, Caught(m, U), NEW v
  PROVE  Caught(Retain(m, v), U)
  BY DEF MemType, Caught, Retain

LEMMA ReleaseCaught ==
  ASSUME NEW m \in MemType, NEW U, Caught(m, U), NEW v
  PROVE  Caught(Release(m, v), U)
  BY DEF MemType, Caught, Release

LEMMA DropCaught ==
  ASSUME NEW m \in MemType, NEW U, Caught(m, U), NEW v,
         \A o \in Obj : Holds(v, o) => m.rc[o] >= 2
  PROVE  Caught(Drop(m, v), U)
  BY DEF MemType, Caught, Drop

LEMMA RetainAllCaught ==
  ASSUME NEW m \in MemType, NEW U, Caught(m, U), NEW S, IsFiniteSet(S), NEW f
  PROVE  Caught(RetainAll(m, f, S), U)
<1>1. \A o \in Obj : Occ(f, S, o) \in Nat /\ m.rc[o] \in Int BY OccType DEF MemType
<1> QED BY <1>1 DEF Caught, RetainAll

LEMMA ReleaseAllCaught ==
  ASSUME NEW m \in MemType, NEW U, Caught(m, U), NEW S, IsFiniteSet(S), NEW f
  PROVE  Caught(ReleaseAll(m, f, S), U)
<1>1. \A o \in Obj : Occ(f, S, o) \in Nat /\ m.rc[o] \in Int BY OccType DEF MemType
<1> QED BY <1>1 DEF Caught, ReleaseAll
==============================================================================
