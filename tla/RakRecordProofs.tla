---------------------------- MODULE RakRecordProofs ----------------------------
(***************************************************************************)
(* Proofs about RakRecord: type correctness, exact counts up to what is    *)
(* forgotten, nothing dangles, and the keys of a record stay distinct.     *)
(***************************************************************************)
EXTENDS RakRecordForgotten, RakCounting, WellFoundedInduction

\* The fields of an object, and what is counted for them.
FieldsIn(b)       == IF b.class = "record" THEN b.fields ELSE <<>>
FieldCount(fs, o) == OnStack(Names(fs), o) + OnStack(Vals(fs), o)

NamesIn(hp) == [p \in Obj |-> Names(FieldsIn(hp[p]))]
ValsIn(hp)  == [p \in Obj |-> Vals(FieldsIn(hp[p]))]

\* How many fields of the heap hp hold o.
RecordCount(hp, o) == OnStacks(Obj, NamesIn(hp), o) + OnStacks(Obj, ValsIn(hp), o)

\* A value names an object of its kind.
Agrees(hp, v) == IsObject(v) => hp[v.data].class = v.type

\* Fields that a record may have: their keys are strings, no two alike.
Legal(hp, fs) ==
  /\ fs \in Seq(Field)
  /\ \A i \in 1..Len(fs) : hp[fs[i].name].class = "string" /\ Agrees(hp, fs[i].val)
  /\ \A i, j \in 1..Len(fs) : i # j => hp[fs[i].name].text # hp[fs[j].name].text

\* The slots of the frame.
FrameSound(st, n, hp) ==
  /\ st \in [Slot -> Value] /\ n \in 0..MaxSlots
  /\ \A s \in Slot : s > n => st[s] = Nil
  /\ \A s \in Slot : Agrees(hp, st[s])

\* The heap, with what the constants are.
HeapSound(hp) ==
  /\ hp \in [Obj -> Body]
  /\ \A p \in Obj : Legal(hp, FieldsIn(hp[p]))

ConstsSound(hp) == \A i \in 1..Len(Consts) : hp[Consts[i]].class = "string"

\* What the chunk holds.
ConstCount(e, o) == IF IsConst(o) /\ e # "ended" THEN 1 ELSE 0

\* Each count is exact up to what was forgotten.
Exact(st, hp, m, e, fg) ==
  \A o \in Obj :
    m.rc[o] = Occ(st, Slot, o) + RecordCount(hp, o) + ConstCount(e, o) + fg[o]

\* What was forgotten is not free memory.
ForgottenSound(hp, fg) ==
  /\ fg \in [Obj -> Nat]
  /\ \A o \in Obj : hp[o].class = "free" => fg[o] = 0

RecordInv ==
  /\ FrameSound(stk, sp, heap)
  /\ HeapSound(heap)
  /\ status # "ended" => ConstsSound(heap)
  /\ Mem \in MemType /\ AtZero(Mem)
  /\ Exact(stk, heap, Mem, status, forgotten)
  /\ ForgottenSound(heap, forgotten)
  /\ code \in Seq(Instr)
  /\ status \in {"running", "error", "done", "crashed", "ended"}

-----------------------------------------------------------------------------
(***************************************************************************)
(* The least and the greatest element of a set of numbers.                 *)
(***************************************************************************)
LEMMA MinFacts ==
  ASSUME NEW S, S \subseteq Nat, S # {}
  PROVE  Min(S) \in S /\ \A y \in S : Min(S) <= y
<1> DEFINE R == {ss \in Nat \X Nat : ss[1] < ss[2]}
<1>1. IsWellFoundedOn(R, Nat) BY NatLessThanWellFounded DEF OpToRel
<1>2. \E x \in S : \A y \in S : ~ (<<y, x>> \in R)
  <2> HIDE DEF R
  <2> QED BY <1>1, WFMin
<1>3. PICK x \in S : \A y \in S : ~ (<<y, x>> \in R) BY <1>2
<1>4. ASSUME NEW y \in S PROVE x <= y
  <2>1. <<y, x>> \in Nat \X Nat BY <1>3
  <2>2. ~ (y < x) BY <1>3, <2>1
  <2> QED BY <1>3, <2>2
<1> QED BY <1>3, <1>4 DEF Min

LEMMA MaxFacts ==
  ASSUME NEW n \in Nat, NEW S, S \subseteq 0..n, S # {}
  PROVE  Max(S) \in S /\ \A y \in S : Max(S) >= y
<1> DEFINE T == {n - x : x \in S}
<1>0. \A x \in S : x \in 0..n /\ n - x \in Nat OBVIOUS
<1>1. T \subseteq Nat /\ T # {} BY <1>0
<1>2. Min(T) \in T /\ \A y \in T : Min(T) <= y
  <2> HIDE DEF T
  <2> QED BY <1>1, MinFacts
<1>3. PICK x \in S : Min(T) = n - x BY <1>2
<1>4. ASSUME NEW y \in S PROVE x >= y
  <2>1. n - y \in T OBVIOUS
  <2>2. n - x <= n - y BY <1>2, <1>3, <2>1
  <2> QED BY <1>3, <2>2
<1> QED BY <1>3, <1>4 DEF Max

-----------------------------------------------------------------------------
(***************************************************************************)
(* The fields of records.                                                  *)
(***************************************************************************)
LEMMA StrFacts ==
  ASSUME NEW x \in Obj
  PROVE  /\ Str(x) \in Value /\ RangeOf(x) \in Value /\ Record(x) \in Value
         /\ IsObject(Str(x)) /\ IsObject(RangeOf(x)) /\ IsObject(Record(x))
  BY DEF Str, RangeOf, Record, Value, ObjectType, IsObject

LEMMA PartsType ==
  ASSUME NEW fs \in Seq(Field)
  PROVE  /\ Names(fs) \in Seq(Value) /\ Len(Names(fs)) = Len(fs)
         /\ Vals(fs) \in Seq(Value) /\ Len(Vals(fs)) = Len(fs)
         /\ \A i \in 1..Len(fs) : /\ fs[i] \in Field /\ fs[i].name \in Obj /\ fs[i].val \in Value
                                  /\ Names(fs)[i] = Str(fs[i].name) /\ Vals(fs)[i] = fs[i].val
<1> DEFINE n == Len(fs)
<1>1. n \in Nat BY LenProperties
<1>2. \A i \in 1..n : fs[i] \in Field BY ElementOfSeq
<1>3. \A i \in 1..n : fs[i].name \in Obj /\ fs[i].val \in Value BY <1>2 DEF Field
<1>4. \A i \in 1..n : Str(fs[i].name) \in Value BY <1>3, StrFacts
<1>5. Names(fs) = [i \in 1..n |-> Str(fs[i].name)] /\ Vals(fs) = [i \in 1..n |-> fs[i].val]
  BY DEF Names, Vals
<1> HIDE DEF n
<1>6. Names(fs) \in [1..n -> Value] /\ Vals(fs) \in [1..n -> Value] BY <1>3, <1>4, <1>5
<1>7. Names(fs) \in Seq(Value) /\ Vals(fs) \in Seq(Value) BY <1>1, <1>6, SeqDef
<1>8. Len(Names(fs)) = n /\ Len(Vals(fs)) = n
  <2>1. DOMAIN Names(fs) = 1..n /\ DOMAIN Vals(fs) = 1..n BY <1>6
  <2>2. /\ DOMAIN Names(fs) = 1..Len(Names(fs)) /\ Len(Names(fs)) \in Nat
        /\ DOMAIN Vals(fs) = 1..Len(Vals(fs)) /\ Len(Vals(fs)) \in Nat
    BY <1>7, LenProperties
  <2> QED BY <1>1, <2>1, <2>2
<1> QED BY <1>2, <1>3, <1>5, <1>7, <1>8 DEF n

LEMMA FieldCountType ==
  ASSUME NEW fs \in Seq(Field), NEW o
  PROVE  /\ OnStack(Names(fs), o) \in Nat /\ OnStack(Vals(fs), o) \in Nat
         /\ FieldCount(fs, o) \in Nat
         /\ OnStack(Names(fs), o) = Occ(Names(fs), 1..Len(fs), o)
         /\ OnStack(Vals(fs), o) = Occ(Vals(fs), 1..Len(fs), o)
<1>1. /\ Names(fs) \in Seq(Value) /\ Len(Names(fs)) = Len(fs)
      /\ Vals(fs) \in Seq(Value) /\ Len(Vals(fs)) = Len(fs)
  BY PartsType
<1>2. OnStack(Names(fs), o) = Occ(Names(fs), 1..Len(fs), o) /\ OnStack(Names(fs), o) \in Nat
  BY <1>1, OnStackInterval
<1>3. OnStack(Vals(fs), o) = Occ(Vals(fs), 1..Len(fs), o) /\ OnStack(Vals(fs), o) \in Nat
  BY <1>1, OnStackInterval
<1> QED BY <1>2, <1>3 DEF FieldCount

LEMMA NoFields ==
  ASSUME NEW o
  PROVE  <<>> \in Seq(Field) /\ Len(<<>>) = 0 /\ FieldCount(<<>>, o) = 0
<1>1. <<>> \in Seq(Field) /\ Len(<<>>) = 0 BY EmptySeq
<1>2. 1..Len(<<>>) = {} BY <1>1
<1>3. \A f : Occ(f, {}, o) = 0 BY OccNone
<1>4. OnStack(Names(<<>>), o) = 0 /\ OnStack(Vals(<<>>), o) = 0
  BY <1>1, <1>2, <1>3, FieldCountType
<1> QED BY <1>1, <1>4 DEF FieldCount

-----------------------------------------------------------------------------
(***************************************************************************)
(* The fields of one record change.                                        *)
(***************************************************************************)
LEMMA NamesInSound ==
  ASSUME NEW hp, HeapSound(hp)
  PROVE  /\ Stacks(Obj, NamesIn(hp)) /\ Stacks(Obj, ValsIn(hp))
         /\ IsFiniteSet(Obj)
         /\ \A p \in Obj : FieldsIn(hp[p]) \in Seq(Field)
         /\ \A o : RecordCount(hp, o) \in Nat
<1>1. \A p \in Obj : FieldsIn(hp[p]) \in Seq(Field) BY DEF HeapSound, Legal
<1>2. Stacks(Obj, NamesIn(hp)) /\ Stacks(Obj, ValsIn(hp))
  BY <1>1, PartsType DEF Stacks, NamesIn, ValsIn
<1>3. IsFiniteSet(Obj) BY ObjAssumption
<1>4. ASSUME NEW o PROVE RecordCount(hp, o) \in Nat
  <2>1. OnStacks(Obj, NamesIn(hp), o) \in Nat /\ OnStacks(Obj, ValsIn(hp), o) \in Nat
    BY <1>2, <1>3, PlacesFinite
  <2> QED BY <2>1 DEF RecordCount
<1> QED BY <1>1, <1>2, <1>3, <1>4

\* What a heap keeps when a free object comes into use or a record is written.
Keeps(hp, hq) ==
  \A o \in Obj : hp[o].class # "free" =>
    hq[o].class = hp[o].class /\ (hp[o].class = "string" => hq[o] = hp[o])

LEMMA AgreesKept ==
  ASSUME NEW hp, NEW hq, Keeps(hp, hq), NEW v \in Value, Agrees(hp, v)
  PROVE  Agrees(hq, v)
<1>1. CASE IsObject(v)
  <2>1. v.data \in Obj /\ v.type # "free"
    BY <1>1 DEF IsObject, Value, ScalarType, ObjectType
  <2> QED BY <1>1, <2>1 DEF Agrees, Keeps
<1>2. CASE ~IsObject(v) BY <1>2 DEF Agrees
<1> QED BY <1>1, <1>2

LEMMA LegalKept ==
  ASSUME NEW hp, NEW hq, Keeps(hp, hq), NEW fs, Legal(hp, fs)
  PROVE  Legal(hq, fs)
<1>1. fs \in Seq(Field) BY DEF Legal
<1>2. \A i \in 1..Len(fs) : fs[i].name \in Obj /\ fs[i].val \in Value BY <1>1, PartsType
<1>3. \A i \in 1..Len(fs) : hq[fs[i].name] = hp[fs[i].name] BY <1>2 DEF Legal, Keeps
<1>4. \A i \in 1..Len(fs) : Agrees(hq, fs[i].val) BY <1>2, AgreesKept DEF Legal
<1> QED BY <1>1, <1>3, <1>4 DEF Legal

\* The object x gets the content b.
Rewritten(hp, hq, x, b) == x \in Obj /\ hq = [hp EXCEPT ![x] = b]

HeapWritten(hp, hq, x, b) ==
  /\ b \in Body /\ Rewritten(hp, hq, x, b)
  /\ \/ hp[x].class = "free"
     \/ hp[x].class = "record" /\ b.class = "record"
  /\ Legal(hp, FieldsIn(b))

LEMMA RecordWrite ==
  ASSUME NEW hp, HeapSound(hp), NEW x, NEW b, FieldsIn(b) \in Seq(Field),
         NEW hq, Rewritten(hp, hq, x, b), NEW o
  PROVE  RecordCount(hq, o) =
           RecordCount(hp, o) - FieldCount(FieldsIn(hp[x]), o) + FieldCount(FieldsIn(b), o)
<1> DEFINE ns == NamesIn(hp)
           vs == ValsIn(hp)
           nt == NamesIn(hq)
           vt == ValsIn(hq)
<1>0. x \in Obj /\ hq = [hp EXCEPT ![x] = b] BY DEF Rewritten
<1>1. Stacks(Obj, ns) /\ Stacks(Obj, vs) /\ IsFiniteSet(Obj)
      /\ \A p \in Obj : FieldsIn(hp[p]) \in Seq(Field)
  BY NamesInSound
<1>2. DOMAIN hp = Obj /\ x \in Obj BY <1>0 DEF HeapSound
<1>3. \A p \in Obj \ {x} : ns[p] = nt[p] /\ vs[p] = vt[p] BY <1>0, <1>2 DEF NamesIn, ValsIn
<1>4. /\ ns[x] = Names(FieldsIn(hp[x])) /\ vs[x] = Vals(FieldsIn(hp[x]))
      /\ nt[x] = Names(FieldsIn(b)) /\ vt[x] = Vals(FieldsIn(b))
  BY <1>0, <1>2 DEF NamesIn, ValsIn
<1>5. nt[x] \in Seq(Value) /\ vt[x] \in Seq(Value) BY <1>4, PartsType
<1>6. Stacks(Obj, nt) /\ Stacks(Obj, vt)
  <2>1. ASSUME NEW p \in Obj PROVE nt[p] \in Seq(Value) /\ vt[p] \in Seq(Value)
    <3>1. CASE p = x BY <1>5, <3>1
    <3>2. CASE p # x BY <1>1, <1>3, <3>2 DEF Stacks
    <3> QED BY <3>1, <3>2
  <2> QED BY <2>1 DEF Stacks
<1>7. OnStacks(Obj, ns, o) \in Nat /\ OnStacks(Obj, vs, o) \in Nat BY <1>1, PlacesFinite
<1>8. /\ OnStack(ns[x], o) \in Nat /\ OnStack(vs[x], o) \in Nat
      /\ OnStack(nt[x], o) \in Nat /\ OnStack(vt[x], o) \in Nat
  BY <1>1, <1>2, <1>5, OnStackInterval DEF Stacks
<1>9. RecordCount(hp, o) = OnStacks(Obj, ns, o) + OnStacks(Obj, vs, o)
      /\ RecordCount(hq, o) = OnStacks(Obj, nt, o) + OnStacks(Obj, vt, o)
  BY DEF RecordCount
<1>10. /\ FieldCount(FieldsIn(hp[x]), o) = OnStack(ns[x], o) + OnStack(vs[x], o)
       /\ FieldCount(FieldsIn(b), o) = OnStack(nt[x], o) + OnStack(vt[x], o)
  BY <1>4 DEF FieldCount
<1> HIDE DEF ns, vs, nt, vt
<1>11. OnStacks(Obj, nt, o) = OnStacks(Obj, ns, o) - OnStack(ns[x], o) + OnStack(nt[x], o)
  BY <1>1, <1>2, <1>3, <1>6, OnStacksWrite
<1>12. OnStacks(Obj, vt, o) = OnStacks(Obj, vs, o) - OnStack(vs[x], o) + OnStack(vt[x], o)
  BY <1>1, <1>2, <1>3, <1>6, OnStacksWrite
<1> QED BY <1>7, <1>8, <1>9, <1>10, <1>11, <1>12

LEMMA HeapWriteFacts ==
  ASSUME NEW hp, HeapSound(hp), NEW hq, NEW x, NEW b, HeapWritten(hp, hq, x, b)
  PROVE  HeapSound(hq) /\ Keeps(hp, hq)
<1>1. hp \in [Obj -> Body] BY DEF HeapSound
<1>2. x \in Obj /\ b \in Body /\ hq = [hp EXCEPT ![x] = b] BY DEF HeapWritten, Rewritten
<1>3. hq \in [Obj -> Body] BY <1>1, <1>2
<1>4. hq[x] = b /\ \A p \in Obj \ {x} : hq[p] = hp[p] BY <1>1, <1>2
<1>5. Keeps(hp, hq) BY <1>4 DEF Keeps, HeapWritten
<1>6. ASSUME NEW p \in Obj PROVE Legal(hq, FieldsIn(hq[p]))
  <2>1. Legal(hp, FieldsIn(hq[p])) BY <1>4 DEF HeapSound, HeapWritten
  <2> QED BY <1>5, <2>1, LegalKept
<1> QED BY <1>3, <1>5, <1>6 DEF HeapSound

\* The values that are retained or released for the fields fs.
LEMMA PartsCount ==
  ASSUME NEW m \in MemType, NEW fs \in Seq(Field)
  PROVE  /\ RetainParts(m, fs) \in MemType /\ ReleaseParts(m, fs) \in MemType
         /\ RetainParts(m, fs).dying = m.dying
         /\ AtZero(m) => AtZero(ReleaseParts(m, fs))
         /\ \A o \in Obj : /\ RetainParts(m, fs).rc[o] = m.rc[o] + FieldCount(fs, o)
                           /\ ReleaseParts(m, fs).rc[o] = m.rc[o] - FieldCount(fs, o)
<1> DEFINE S == 1..Len(fs)
           r1 == RetainAll(m, Names(fs), S)
           l1 == ReleaseAll(m, Names(fs), S)
<1>1. IsFiniteSet(S) BY LenProperties, FS_Interval
<1>2. \A o : /\ OnStack(Names(fs), o) = Occ(Names(fs), S, o)
             /\ OnStack(Vals(fs), o) = Occ(Vals(fs), S, o)
             /\ OnStack(Names(fs), o) \in Nat /\ OnStack(Vals(fs), o) \in Nat
  BY FieldCountType
<1>3. RetainParts(m, fs) = RetainAll(r1, Vals(fs), S)
      /\ ReleaseParts(m, fs) = ReleaseAll(l1, Vals(fs), S)
  BY DEF RetainParts, ReleaseParts
<1> HIDE DEF S
<1>4. r1 \in MemType /\ l1 \in MemType BY <1>1, RetainAllType, ReleaseAllType
<1>5. RetainParts(m, fs) \in MemType /\ ReleaseParts(m, fs) \in MemType
  BY <1>1, <1>3, <1>4, RetainAllType, ReleaseAllType
<1>6. RetainParts(m, fs).dying = m.dying BY <1>3, RetainsSpare
<1>7. AtZero(m) => AtZero(ReleaseParts(m, fs)) BY <1>1, <1>3, <1>4, ReleaseAllAtZero
<1>8. ASSUME NEW o \in Obj
      PROVE  /\ RetainParts(m, fs).rc[o] = m.rc[o] + FieldCount(fs, o)
             /\ ReleaseParts(m, fs).rc[o] = m.rc[o] - FieldCount(fs, o)
  <2>1. r1.rc[o] = m.rc[o] + Occ(Names(fs), S, o) /\ l1.rc[o] = m.rc[o] - Occ(Names(fs), S, o)
    BY RetainAllCount, ReleaseAllCount
  <2>2. /\ RetainParts(m, fs).rc[o] = r1.rc[o] + Occ(Vals(fs), S, o)
        /\ ReleaseParts(m, fs).rc[o] = l1.rc[o] - Occ(Vals(fs), S, o)
    BY <1>3, RetainAllCount, ReleaseAllCount
  <2>3. m.rc[o] \in Int BY DEF MemType
  <2> QED BY <1>2, <2>1, <2>2, <2>3 DEF FieldCount
<1> QED BY <1>5, <1>6, <1>7, <1>8

-----------------------------------------------------------------------------
(***************************************************************************)
(* One field is overwritten, or added.                                     *)
(***************************************************************************)
FieldSet(fs, i, v, ft) == i \in 1..Len(fs) /\ ft = [fs EXCEPT ![i].val = v]

LEMMA SetFacts ==
  ASSUME NEW hp, NEW fs, NEW i, NEW v, NEW ft,
         Legal(hp, fs), v \in Value, Agrees(hp, v), FieldSet(fs, i, v, ft)
  PROVE  /\ Legal(hp, ft) /\ Len(ft) = Len(fs)
         /\ \A o : FieldCount(ft, o) = FieldCount(fs, o) - Count(fs[i].val, o) + Count(v, o)
<1> DEFINE n == Len(fs)
           new == [fs[i] EXCEPT !.val = v]
<1>1. fs \in Seq(Field) /\ n \in Nat /\ i \in 1..n BY LenProperties DEF Legal, FieldSet
<1>2. \A j \in 1..n : fs[j] \in Field /\ fs[j].name \in Obj /\ fs[j].val \in Value
  BY <1>1, PartsType
<1>3. new \in Field /\ new.name = fs[i].name /\ new.val = v BY <1>1, <1>2 DEF Field
<1>4. ft = [fs EXCEPT ![i] = new] BY DEF FieldSet
<1> HIDE DEF new
<1>5. /\ ft \in Seq(Field) /\ Len(ft) = n
      /\ \A j \in 1..n : ft[j] = IF j = i THEN new ELSE fs[j]
  BY <1>1, <1>3, <1>4, ExceptSeq
<1>6. \A j \in 1..n : ft[j].name = fs[j].name /\ ft[j].val = IF j = i THEN v ELSE fs[j].val
  BY <1>3, <1>5
<1>7. Legal(hp, ft) BY <1>5, <1>6 DEF Legal
<1>8. ASSUME NEW o
      PROVE  FieldCount(ft, o) = FieldCount(fs, o) - Count(fs[i].val, o) + Count(v, o)
  <2> DEFINE S == 1..n
             ns == Names(fs)
             vs == Vals(fs)
             nt == Names(ft)
             vt == Vals(ft)
  <2>1. IsFiniteSet(S) /\ i \in S BY <1>1, FS_Interval
  <2>2. \A j \in S : ns[j] = Str(fs[j].name) /\ vs[j] = fs[j].val BY <1>1, PartsType
  <2>3. \A j \in S : nt[j] = Str(ft[j].name) /\ vt[j] = ft[j].val BY <1>5, PartsType
  <2>4. \A j \in S : nt[j] = ns[j] /\ vt[j] = IF j = i THEN v ELSE vs[j]
    BY <1>6, <2>2, <2>3
  <2>5. vs[i] = fs[i].val /\ vt[i] = v BY <2>1, <2>2, <2>4
  <2>6. /\ OnStack(ns, o) = Occ(ns, S, o) /\ OnStack(vs, o) = Occ(vs, S, o)
        /\ OnStack(ns, o) \in Nat /\ OnStack(vs, o) \in Nat
    BY <1>1, FieldCountType
  <2>7. OnStack(nt, o) = Occ(nt, S, o) /\ OnStack(vt, o) = Occ(vt, S, o)
    BY <1>5, FieldCountType
  <2>8. FieldCount(fs, o) = OnStack(ns, o) + OnStack(vs, o)
        /\ FieldCount(ft, o) = OnStack(nt, o) + OnStack(vt, o)
    BY DEF FieldCount
  <2> HIDE DEF S, ns, vs, nt, vt
  <2>9. Occ(nt, S, o) = Occ(ns, S, o) BY <2>4, OccSame
  <2>10. Occ(vt, S, o) = Occ(vs, S, o) - Count(vs[i], o) + Count(vt[i], o)
    <3> DEFINE k == i
    <3>1. k \in S /\ \A l \in S \ {k} : Count(vt[l], o) = Count(vs[l], o) BY <2>1, <2>4
    <3> HIDE DEF k
    <3>2. Occ(vt, S, o) = Occ(vs, S, o) - Count(vs[k], o) + Count(vt[k], o)
      BY <2>1, <3>1, OccWrite
    <3> QED BY <3>2 DEF k
  <2> QED BY <2>5, <2>6, <2>7, <2>8, <2>9, <2>10, CountType
<1> QED BY <1>5, <1>7, <1>8 DEF n

FieldAdded(fs, name, v, ft) == ft = Append(fs, [name |-> name, val |-> v])
NewName(hp, fs, name) ==
  /\ name \in Obj /\ hp[name].class = "string"
  /\ \A i \in 1..Len(fs) : hp[fs[i].name].text # hp[name].text

LEMMA AddFacts ==
  ASSUME NEW hp, NEW fs, NEW name, NEW v, NEW ft,
         Legal(hp, fs), NewName(hp, fs, name), v \in Value, Agrees(hp, v),
         FieldAdded(fs, name, v, ft)
  PROVE  /\ Legal(hp, ft) /\ Len(ft) = Len(fs) + 1
         /\ \A o : FieldCount(ft, o) = FieldCount(fs, o) + Count(Str(name), o) + Count(v, o)
<1> DEFINE n == Len(fs)
           new == [name |-> name, val |-> v]
<1>1. fs \in Seq(Field) /\ n \in Nat BY LenProperties DEF Legal
<1>2. new \in Field /\ new.name = name /\ new.val = v BY DEF Field, NewName
<1> HIDE DEF new
<1>3. /\ ft \in Seq(Field) /\ Len(ft) = n + 1
      /\ \A j \in 1..n : ft[j] = fs[j]
      /\ ft[n + 1] = new
  BY <1>1, <1>2, AppendProperties DEF new, FieldAdded
<1>4. Legal(hp, ft)
  <2>1. ASSUME NEW i \in 1..(n + 1)
        PROVE  hp[ft[i].name].class = "string" /\ Agrees(hp, ft[i].val)
    <3>1. CASE i = n + 1 BY <1>2, <1>3, <3>1 DEF NewName
    <3>2. CASE i # n + 1
      <4>1. i \in 1..n BY <1>1, <3>2
      <4> QED BY <1>3, <4>1 DEF Legal
    <3> QED BY <3>1, <3>2
  <2>2. ASSUME NEW i \in 1..(n + 1), NEW j \in 1..(n + 1), i # j
        PROVE  hp[ft[i].name].text # hp[ft[j].name].text
    <3>1. CASE i = n + 1
      <4>1. j \in 1..n BY <1>1, <2>2, <3>1
      <4> QED BY <1>2, <1>3, <3>1, <4>1 DEF NewName
    <3>2. CASE j = n + 1
      <4>1. i \in 1..n BY <1>1, <2>2, <3>2
      <4> QED BY <1>2, <1>3, <3>2, <4>1 DEF NewName
    <3>3. CASE i # n + 1 /\ j # n + 1
      <4>1. i \in 1..n /\ j \in 1..n BY <1>1, <3>3
      <4> QED BY <1>3, <2>2, <4>1 DEF Legal
    <3> QED BY <3>1, <3>2, <3>3
  <2> QED BY <1>3, <2>1, <2>2 DEF Legal
<1>5. ASSUME NEW o
      PROVE  FieldCount(ft, o) = FieldCount(fs, o) + Count(Str(name), o) + Count(v, o)
  <2> DEFINE ns == Names(fs)
             vs == Vals(fs)
             nt == Names(ft)
             vt == Vals(ft)
  <2>1. \A j \in 1..n : ns[j] = Str(fs[j].name) /\ vs[j] = fs[j].val BY <1>1, PartsType
  <2>2. \A j \in 1..(n + 1) : nt[j] = Str(ft[j].name) /\ vt[j] = ft[j].val
    BY <1>3, PartsType
  <2>3. /\ \A j \in 1..n : nt[j] = ns[j] /\ vt[j] = vs[j]
        /\ nt[n + 1] = Str(name) /\ vt[n + 1] = v
    <3>1. n + 1 \in 1..(n + 1) /\ \A j \in 1..n : j \in 1..(n + 1) BY <1>1
    <3> HIDE DEF n, ns, vs, nt, vt
    <3> QED BY <1>2, <1>3, <2>1, <2>2, <3>1
  <2>4. /\ OnStack(ns, o) = Occ(ns, 1..n, o) /\ OnStack(vs, o) = Occ(vs, 1..n, o)
        /\ OnStack(ns, o) \in Nat /\ OnStack(vs, o) \in Nat
    BY <1>1, FieldCountType
  <2>5. /\ OnStack(nt, o) = Occ(nt, 1..(n + 1), o) /\ OnStack(vt, o) = Occ(vt, 1..(n + 1), o)
    BY <1>3, FieldCountType
  <2>6. FieldCount(fs, o) = OnStack(ns, o) + OnStack(vs, o)
        /\ FieldCount(ft, o) = OnStack(nt, o) + OnStack(vt, o)
    BY DEF FieldCount
  <2> HIDE DEF ns, vs, nt, vt, n
  <2>7. Occ(nt, 1..(n + 1), o) = Occ(nt, 1..n, o) + Count(nt[n + 1], o) BY <1>1, OccOneMore
  <2>8. Occ(vt, 1..(n + 1), o) = Occ(vt, 1..n, o) + Count(vt[n + 1], o) BY <1>1, OccOneMore
  <2>9. Occ(nt, 1..n, o) = Occ(ns, 1..n, o) BY <1>1, <2>3, PartSame
  <2>10. Occ(vt, 1..n, o) = Occ(vs, 1..n, o) BY <1>1, <2>3, PartSame
  <2> QED BY <2>3, <2>4, <2>5, <2>6, <2>7, <2>8, <2>9, <2>10, CountType
<1> QED BY <1>3, <1>4, <1>5 DEF n

\* A field that is found.
LEMMA NamedFacts ==
  ASSUME NEW fs \in Seq(Field), NEW name \in Obj
  PROVE  /\ Named(fs, name) # {} =>
              /\ Min(Named(fs, name)) \in 1..Len(fs)
              /\ Text(fs[Min(Named(fs, name))].name) = Text(name)
         /\ Named(fs, name) = {} => \A i \in 1..Len(fs) : Text(fs[i].name) # Text(name)
<1>1. Len(fs) \in Nat BY LenProperties
<1>2. Named(fs, name) \subseteq Nat BY <1>1 DEF Named
<1>3. Named(fs, name) # {} => Min(Named(fs, name)) \in Named(fs, name) BY <1>2, MinFacts
<1>4. \A i \in Named(fs, name) : i \in 1..Len(fs) /\ Text(fs[i].name) = Text(name)
  BY DEF Named, SameText, Text
<1>5. \A i \in 1..Len(fs) : Text(fs[i].name) = Text(name) => i \in Named(fs, name)
  BY DEF Named, SameText
<1> QED BY <1>3, <1>4, <1>5

-----------------------------------------------------------------------------
(***************************************************************************)
(* The slots of the frame.                                                 *)
(***************************************************************************)
LEMMA SlotFacts ==
  /\ MaxSlots \in Nat /\ IsFiniteSet(Slot)
  /\ \A i : i \in Slot <=> i \in Int /\ 1 <= i /\ i <= MaxSlots
  /\ \A f, o : Occ(f, Slot, o) \in Nat
<1>1. MaxSlots \in Nat BY LimitAssumption
<1>2. IsFiniteSet(Slot) BY <1>1, FS_Interval DEF Slot
<1>3. \A i : i \in Slot <=> i \in Int /\ 1 <= i /\ i <= MaxSlots BY <1>1 DEF Slot
<1>4. \A f, o : Occ(f, Slot, o) \in Nat BY <1>2, OccType
<1> QED BY <1>1, <1>2, <1>3, <1>4

LEMMA AgreesScalar ==
  ASSUME NEW hp, NEW v, ~IsObject(v)
  PROVE  Agrees(hp, v)
  BY DEF Agrees

LEMMA ScalarFacts ==
  /\ Nil \in Value /\ ~IsObject(Nil)
  /\ \A n \in Nat : Number(n) \in Value /\ ~IsObject(Number(n))
  BY DEF Nil, Number, Value, ScalarType, ObjectType, IsObject

\* The slot i of a stack is overwritten.
SlotWritten(st, g, i, v) == i \in Slot /\ g = [st EXCEPT ![i] = v]

LEMMA SlotWrite ==
  ASSUME NEW st, NEW g, NEW i, NEW v, NEW o, st \in [Slot -> Value], SlotWritten(st, g, i, v)
  PROVE  Occ(g, Slot, o) = Occ(st, Slot, o) - Count(st[i], o) + Count(v, o)
<1>0. i \in Slot /\ g = [st EXCEPT ![i] = v] BY DEF SlotWritten
<1> DEFINE k == i
<1>1. IsFiniteSet(Slot) BY SlotFacts
<1>2. g[k] = v /\ k \in Slot /\ \A l \in Slot \ {k} : g[l] = st[l] BY <1>0
<1>3. \A l \in Slot \ {k} : Count(g[l], o) = Count(st[l], o) BY <1>2
<1> HIDE DEF k
<1>4. Occ(g, Slot, o) = Occ(st, Slot, o) - Count(st[k], o) + Count(g[k], o)
  BY <1>1, <1>2, <1>3, OccWrite
<1> QED BY <1>2, <1>4 DEF k

\* The stack below the slot d, with v in it and nothing above.
CutAt(st, d, v) ==
  [s \in Slot |-> IF s < d THEN st[s] ELSE IF s = d THEN v ELSE Nil]

LEMMA PartCutFrom ==
  ASSUME NEW f, NEW a \in Int, NEW h \in Int, NEW d \in Int, NEW e \in Int, NEW o,
         h < d, d <= h + 1, a <= d, h <= e
  PROVE  /\ Occ(f, a..e, o) = Occ(f, a..h, o) + Occ(f, d..e, o)
         /\ Occ(f, a..h, o) \in Nat /\ Occ(f, d..e, o) \in Nat
  BY OccCut

LEMMA SlotCut ==
  ASSUME NEW hp, NEW st, NEW n, FrameSound(st, n, hp), NEW d \in 1..n, NEW v, NEW o
  PROVE  /\ Occ(CutAt(st, d, v), Slot, o) = Occ(st, Slot, o) - Occ(st, d..n, o) + Count(v, o)
         /\ Occ(st, d..n, o) \in Nat
<1> DEFINE g == CutAt(st, d, v)
           a == d - 1
           b == d
           e == d + 1
           q == n + 1
           z == MaxSlots
<1>1. n \in 0..MaxSlots /\ MaxSlots \in Nat BY SlotFacts DEF FrameSound
<1>2. /\ n \in Nat /\ z \in Nat /\ n <= z /\ d \in Int /\ 1 <= d /\ d <= n
      /\ a \in Nat /\ a = d - 1 /\ b = d /\ e = d + 1 /\ q = n + 1 /\ Slot = 1..z
  BY <1>1 DEF Slot
<1>3. \A s \in Int : 1 <= s /\ s <= z =>
         /\ s < d => g[s] = st[s]
         /\ s = d => g[s] = v
         /\ s > d => g[s] = Nil
         /\ s > n => st[s] = Nil
  BY <1>2 DEF CutAt, FrameSound
<1> HIDE DEF g, a, b, e, q, z
<1>4. /\ Occ(st, 1..z, o) = Occ(st, 1..a, o) + Occ(st, b..z, o)
      /\ Occ(st, 1..a, o) \in Nat /\ Occ(st, b..z, o) \in Nat
  BY <1>2, PartCut
<1>5. Occ(st, b..z, o) = Occ(st, b..n, o) + Occ(st, q..z, o) /\ Occ(st, b..n, o) \in Nat
  <2>1. b \in Int /\ n \in Int /\ q \in Int /\ z \in Int
        /\ n < q /\ q <= n + 1 /\ b <= q /\ n <= z
    BY <1>2
  <2> QED BY <2>1, PartCutFrom
<1>6. /\ Occ(g, 1..z, o) = Occ(g, 1..a, o) + Occ(g, b..z, o)
      /\ Occ(g, 1..a, o) \in Nat /\ Occ(g, b..z, o) \in Nat
  BY <1>2, PartCut
<1>7. Occ(g, b..z, o) = Occ(g, b..b, o) + Occ(g, e..z, o) /\ Occ(g, e..z, o) \in Nat
  <2> DEFINE h == b
  <2>1. b \in Int /\ h \in Int /\ e \in Int /\ z \in Int
        /\ h < e /\ e <= h + 1 /\ b <= e /\ h <= z
    BY <1>2
  <2> HIDE DEF h
  <2>2. Occ(g, b..z, o) = Occ(g, b..h, o) + Occ(g, e..z, o) /\ Occ(g, e..z, o) \in Nat
    BY <2>1, PartCutFrom
  <2> QED BY <2>2 DEF h
<1>8. Occ(st, q..z, o) = 0
  <2> DEFINE S == q..z
  <2>1. \A l \in S : Count(st[l], o) = 0 BY <1>2, <1>3, CountNil
  <2> HIDE DEF S
  <2>2. Occ(st, S, o) = 0 BY <2>1, OccNone
  <2> QED BY <2>2 DEF S
<1>9. Occ(g, e..z, o) = 0
  <2> DEFINE S == e..z
  <2>1. \A l \in S : Count(g[l], o) = 0 BY <1>2, <1>3, CountNil
  <2> HIDE DEF S
  <2>2. Occ(g, S, o) = 0 BY <2>1, OccNone
  <2> QED BY <2>2 DEF S
<1>10. Occ(g, 1..a, o) = Occ(st, 1..a, o)
  <2>1. \A i \in Int : 1 <= i /\ i <= a => g[i] = st[i] BY <1>2, <1>3
  <2> QED BY <1>2, <2>1, PartSame
<1>11. Occ(g, b..b, o) = Count(v, o)
  <2>1. b..b = {b} /\ g[b] = v BY <1>2, <1>3
  <2> QED BY <2>1, OccSingle
<1>12. Occ(st, 1..z, o) = Occ(st, 1..a, o) + Occ(st, b..n, o) BY <1>4, <1>5, <1>8
<1>13. Occ(g, 1..z, o) = Occ(st, 1..a, o) + Count(v, o)
  BY <1>6, <1>7, <1>9, <1>10, <1>11, CountType
<1>14. Occ(g, 1..z, o) = Occ(st, 1..z, o) - Occ(st, b..n, o) + Count(v, o)
  BY <1>4, <1>5, <1>12, <1>13, CountType
<1> QED BY <1>2, <1>5, <1>14 DEF g

LEMMA FrameCut ==
  ASSUME NEW hp, NEW st, NEW n, FrameSound(st, n, hp), NEW d \in 1..n,
         NEW v \in Value, Agrees(hp, v)
  PROVE  FrameSound(CutAt(st, d, v), d, hp)
<1>1. n \in 0..MaxSlots /\ MaxSlots \in Nat BY SlotFacts DEF FrameSound
<1>2. d \in 0..MaxSlots /\ d \in Int BY <1>1
<1>3. Agrees(hp, Nil) /\ Nil \in Value BY AgreesScalar, ScalarFacts
<1>4. \A s \in Slot : s \in Int BY SlotFacts
<1>5. \A s \in Slot : CutAt(st, d, v)[s] = IF s < d THEN st[s] ELSE IF s = d THEN v ELSE Nil
  BY DEF CutAt
<1>6. CutAt(st, d, v) \in [Slot -> Value] BY <1>3 DEF CutAt, FrameSound
<1>7. \A s \in Slot : s > d => CutAt(st, d, v)[s] = Nil BY <1>2, <1>4, <1>5
<1>8. \A s \in Slot : Agrees(hp, CutAt(st, d, v)[s]) BY <1>3, <1>5 DEF FrameSound
<1> QED BY <1>2, <1>6, <1>7, <1>8 DEF FrameSound

\* A slot is written, and k slots are live then.
LEMMA FrameWrite ==
  ASSUME NEW hp, NEW st, NEW n, FrameSound(st, n, hp), NEW i \in Slot,
         NEW v \in Value, Agrees(hp, v), NEW k \in 0..MaxSlots,
         \A s \in Slot : s > k => [st EXCEPT ![i] = v][s] = Nil
  PROVE  FrameSound([st EXCEPT ![i] = v], k, hp)
<1>1. [st EXCEPT ![i] = v] \in [Slot -> Value] BY DEF FrameSound
<1>2. \A s \in Slot : Agrees(hp, [st EXCEPT ![i] = v][s]) BY DEF FrameSound
<1> QED BY <1>1, <1>2 DEF FrameSound

LEMMA FrameSet ==
  ASSUME NEW hp, NEW st, NEW n, FrameSound(st, n, hp), NEW i \in 1..n,
         NEW v \in Value, Agrees(hp, v)
  PROVE  FrameSound([st EXCEPT ![i] = v], n, hp) /\ i \in Slot
<1>1. n \in 0..MaxSlots /\ MaxSlots \in Nat BY SlotFacts DEF FrameSound
<1>2. i \in Slot /\ i <= n /\ i \in Int BY <1>1, SlotFacts
<1>3. \A s \in Slot : s > n => [st EXCEPT ![i] = v][s] = Nil BY <1>1, <1>2 DEF FrameSound
<1> QED BY <1>1, <1>2, <1>3, FrameWrite

LEMMA FramePush ==
  ASSUME NEW hp, NEW st, NEW n, FrameSound(st, n, hp), n < MaxSlots,
         NEW v \in Value, Agrees(hp, v)
  PROVE  FrameSound([st EXCEPT ![n + 1] = v], n + 1, hp) /\ n + 1 \in Slot /\ st[n + 1] = Nil
<1>1. n \in 0..MaxSlots /\ MaxSlots \in Nat BY SlotFacts DEF FrameSound
<1>2. n + 1 \in Slot /\ n + 1 \in 0..MaxSlots BY <1>1, SlotFacts
<1>3. \A s \in Slot : s \in Int /\ (s > n + 1 => s > n /\ s # n + 1) BY <1>1, SlotFacts
<1>4. \A s \in Slot : s > n + 1 => [st EXCEPT ![n + 1] = v][s] = Nil
  BY <1>2, <1>3 DEF FrameSound
<1>5. st[n + 1] = Nil BY <1>1, <1>2 DEF FrameSound
<1> QED BY <1>2, <1>4, <1>5, FrameWrite

LEMMA FramePop ==
  ASSUME NEW hp, NEW st, NEW n, FrameSound(st, n, hp), n >= 1
  PROVE  FrameSound([st EXCEPT ![n] = Nil], n - 1, hp) /\ n \in Slot
<1>1. n \in 0..MaxSlots /\ MaxSlots \in Nat BY SlotFacts DEF FrameSound
<1>2. n \in Slot /\ n - 1 \in 0..MaxSlots BY <1>1, SlotFacts
<1>3. \A s \in Slot : s > n - 1 => [st EXCEPT ![n] = Nil][s] = Nil
  <2>1. \A s \in Slot : s \in Int /\ (s > n - 1 => s = n \/ s > n) BY <1>1, SlotFacts
  <2> QED BY <1>2, <2>1 DEF FrameSound
<1>4. Agrees(hp, Nil) /\ Nil \in Value BY AgreesScalar, ScalarFacts
<1> QED BY <1>2, <1>3, <1>4, FrameWrite

LEMMA FrameKept ==
  ASSUME NEW hp, NEW hq, Keeps(hp, hq), NEW st, NEW n, FrameSound(st, n, hp)
  PROVE  FrameSound(st, n, hq)
<1>1. \A s \in Slot : st[s] \in Value /\ Agrees(hp, st[s]) BY DEF FrameSound
<1>2. \A s \in Slot : Agrees(hq, st[s]) BY <1>1, AgreesKept
<1> QED BY <1>2 DEF FrameSound

-----------------------------------------------------------------------------
(***************************************************************************)
(* Steps.                                                                  *)
(***************************************************************************)
LEMMA HeldFacts ==
  ASSUME RecordInv
  PROVE  /\ \A o \in Obj : /\ Occ(stk, Slot, o) \in Nat /\ RecordCount(heap, o) \in Nat
                           /\ ConstCount(status, o) \in {0, 1} /\ forgotten[o] \in Nat
                           /\ rc[o] \in Int
                           /\ rc[o] = Occ(stk, Slot, o) + RecordCount(heap, o)
                                        + ConstCount(status, o) + forgotten[o]
         /\ Mem \in MemType /\ Mem.rc = rc /\ Mem.dying = dying
<1>1. Mem.rc = rc /\ Mem.dying = dying BY DEF Mem
<1>2. \A o \in Obj : Occ(stk, Slot, o) \in Nat BY SlotFacts
<1>3. \A o \in Obj : RecordCount(heap, o) \in Nat BY NamesInSound DEF RecordInv
<1>4. \A o \in Obj : ConstCount(status, o) \in {0, 1} BY DEF ConstCount
<1>5. \A o \in Obj : forgotten[o] \in Nat BY DEF RecordInv, ForgottenSound
<1>6. \A o \in Obj : rc[o] \in Int BY <1>1 DEF RecordInv, MemType
<1> QED BY <1>1, <1>2, <1>3, <1>4, <1>5, <1>6 DEF RecordInv, Exact

\* The values an invariant state has.
LEMMA StateFacts ==
  ASSUME RecordInv
  PROVE  /\ FrameSound(stk, sp, heap) /\ HeapSound(heap)
         /\ stk \in [Slot -> Value] /\ sp \in 0..MaxSlots /\ sp \in Int
         /\ \A s \in Slot : stk[s] \in Value /\ Agrees(heap, stk[s])
         /\ \A i \in Int : 1 <= i /\ i <= sp => i \in Slot
         /\ heap \in [Obj -> Body]
         /\ \A p \in Obj : Fields(p) = FieldsIn(heap[p]) /\ Legal(heap, Fields(p))
                           /\ Fields(p) \in Seq(Field)
<1>1. FrameSound(stk, sp, heap) /\ HeapSound(heap) BY DEF RecordInv
<1>2. /\ stk \in [Slot -> Value] /\ sp \in 0..MaxSlots
      /\ \A s \in Slot : stk[s] \in Value /\ Agrees(heap, stk[s])
  BY <1>1 DEF FrameSound
<1>3. MaxSlots \in Nat BY SlotFacts
<1>4. \A i \in Int : 1 <= i /\ i <= sp => i \in Slot BY <1>2, <1>3, SlotFacts
<1>5. \A p \in Obj : Fields(p) = FieldsIn(heap[p]) BY DEF Fields, FieldsIn
<1>6. \A p \in Obj : Legal(heap, Fields(p)) BY <1>1, <1>5 DEF HeapSound
<1>7. \A p \in Obj : Fields(p) \in Seq(Field) BY <1>6 DEF Legal
<1>8. heap \in [Obj -> Body] /\ sp \in Int BY <1>1, <1>2 DEF HeapSound
<1> QED BY <1>1, <1>2, <1>4, <1>5, <1>6, <1>7, <1>8

\* What a handler may rely on.
LEMMA AtFacts ==
  ASSUME RecordInv, NEW op, At(op)
  PROVE  /\ status = "running" /\ dying = {} /\ Mem.dying = {} /\ AtZero(Mem)
         /\ code # <<>> /\ Head(code).op = op /\ A \in Nat /\ B \in Nat
         /\ Tail(code) \in Seq(Instr) /\ Tail(code) # code /\ code \in Seq(Instr)
<1>1. code \in Seq(Instr) /\ code # <<>> BY DEF RecordInv, At
<1>2. Head(code) \in Instr /\ Tail(code) \in Seq(Instr) /\ Len(Tail(code)) = Len(code) - 1
      /\ Len(code) \in Nat
  BY <1>1, HeadTailProperties
<1>3. Head(code).a \in Nat /\ Head(code).b \in Nat BY <1>2, ScriptAssumption
<1>4. Tail(code) # code
  <2> DEFINE t == Tail(code)
  <2>1. Len(t) = Len(code) - 1 /\ Len(code) \in Nat BY <1>2
  <2> HIDE DEF t
  <2>2. t # code BY <2>1
  <2> QED BY <2>2 DEF t
<1>5. status = "running" /\ dying = {} /\ Head(code).op = op BY DEF At
<1>6. Mem.dying = {} /\ AtZero(Mem) BY <1>5 DEF Mem, AtZero
<1> QED BY <1>1, <1>2, <1>3, <1>4, <1>5, <1>6 DEF A, B

Quiet == \A o \in Obj : Forgotten(o) = 0

LEMMA QuietOp ==
  ASSUME NEW op, At(op), op # "SET_ELEMENT", op # "NEW_RECORD"
  PROVE  Quiet
  BY DEF Quiet, Forgotten, Done, At

LEMMA QuietFail ==
  ASSUME RecordInv, code' = code
  PROVE  Quiet
<1>1. \A op : ~Done(op) BY AtFacts DEF Done
<1> QED BY <1>1 DEF Quiet, Forgotten

LEMMA StepDone ==
  ASSUME RecordInv, NEW m, m \in MemType, AtZero(m), Becomes(m),
         status # "ended", status' \in {"running", "error", "done", "crashed"},
         code' \in Seq(Instr),
         FrameSound(stk', sp', heap'), HeapSound(heap'), Keeps(heap, heap'), Forget,
         \A o \in Obj : Forgotten(o) \in Nat /\ (heap[o].class = "free" => Forgotten(o) = 0),
         \A o \in Obj : m.rc[o] = rc[o] + Occ(stk', Slot, o) - Occ(stk, Slot, o)
                                  + RecordCount(heap', o) - RecordCount(heap, o) + Forgotten(o)
  PROVE  RecordInv'
<1>1. Mem' = m
  <2>1. Mem' = [rc |-> m.rc, dying |-> m.dying] BY DEF Mem, Becomes
  <2> QED BY <2>1 DEF MemType
<1>2. status' # "ended" OBVIOUS
<1>3. ConstsSound(heap')
  <2>1. ConstsSound(heap) BY DEF RecordInv
  <2>2. \A i \in 1..Len(Consts) : Consts[i] \in Obj BY ConstsAssumption, ElementOfSeq
  <2> QED BY <2>1, <2>2 DEF ConstsSound, Keeps
<1>4. forgotten' = [o \in Obj |-> forgotten[o] + Forgotten(o)] BY DEF Forget
<1>5. Exact(stk', heap', m, status', forgotten')
  <2>1. ASSUME NEW o \in Obj
        PROVE  m.rc[o] = Occ(stk', Slot, o) + RecordCount(heap', o) + ConstCount(status', o)
                           + forgotten'[o]
    <3>1. /\ Occ(stk, Slot, o) \in Nat /\ RecordCount(heap, o) \in Nat
          /\ ConstCount(status, o) \in {0, 1} /\ forgotten[o] \in Nat
          /\ rc[o] \in Int
          /\ rc[o] = Occ(stk, Slot, o) + RecordCount(heap, o) + ConstCount(status, o) + forgotten[o]
      BY HeldFacts
    <3>2. ConstCount(status', o) = ConstCount(status, o) BY <1>2 DEF ConstCount
    <3>3. Occ(stk', Slot, o) \in Nat /\ RecordCount(heap', o) \in Nat
      BY SlotFacts, NamesInSound
    <3>4. forgotten'[o] = forgotten[o] + Forgotten(o) /\ Forgotten(o) \in Nat BY <1>4
    <3> DEFINE w1 == Occ(stk, Slot, o)
               w2 == Occ(stk', Slot, o)
               r1 == RecordCount(heap, o)
               r2 == RecordCount(heap', o)
               c == ConstCount(status, o)
               f == Forgotten(o)
    <3>5. m.rc[o] = rc[o] + w2 - w1 + r2 - r1 + f OBVIOUS
    <3>6. rc[o] = w1 + r1 + c + forgotten[o] BY <3>1
    <3>7. w1 \in Nat /\ w2 \in Nat /\ r1 \in Nat /\ r2 \in Nat /\ c \in Nat /\ f \in Nat
          /\ forgotten[o] \in Nat
      <4>1. w2 \in Nat /\ r2 \in Nat BY <3>3
      <4>2. w1 \in Nat /\ r1 \in Nat /\ forgotten[o] \in Nat BY <3>1
      <4>3. c \in Nat BY <3>1
      <4>4. f \in Nat BY <3>4
      <4> QED BY <4>1, <4>2, <4>3, <4>4
    <3> HIDE DEF w1, w2, r1, r2, c, f
    <3>8. m.rc[o] = w2 + r2 + c + (forgotten[o] + f) BY <3>5, <3>6, <3>7
    <3> QED BY <3>2, <3>4, <3>8 DEF w2, r2, c, f
  <2> QED BY <2>1 DEF Exact
<1>6. ForgottenSound(heap', forgotten')
  <2>1. forgotten' \in [Obj -> Nat] BY <1>4 DEF RecordInv, ForgottenSound
  <2>2. \A o \in Obj : heap'[o].class = "free" => heap[o].class = "free" BY DEF Keeps
  <2>3. \A o \in Obj : heap[o].class = "free" => forgotten'[o] = 0
    BY <1>4 DEF RecordInv, ForgottenSound
  <2> QED BY <2>1, <2>2, <2>3 DEF ForgottenSound
<1> QED BY <1>1, <1>2, <1>3, <1>5, <1>6 DEF RecordInv

LEMMA KeepsSame == \A hp : Keeps(hp, hp)
  BY DEF Keeps

\* A step that writes the frame only.
LEMMA FrameStep ==
  ASSUME RecordInv, NEW m, m \in MemType, AtZero(m), Becomes(m), UNCHANGED heap,
         status # "ended", status' \in {"running", "error", "done", "crashed"},
         code' \in Seq(Instr), FrameSound(stk', sp', heap), Forget, Quiet,
         \A o \in Obj : m.rc[o] = rc[o] + Occ(stk', Slot, o) - Occ(stk, Slot, o)
  PROVE  RecordInv'
<1>1. HeapSound(heap') /\ FrameSound(stk', sp', heap') /\ Keeps(heap, heap')
  BY KeepsSame DEF RecordInv
<1>2. \A o \in Obj : Forgotten(o) \in Nat /\ Forgotten(o) = 0 BY DEF Quiet
<1>3. ASSUME NEW o \in Obj
      PROVE  m.rc[o] = rc[o] + Occ(stk', Slot, o) - Occ(stk, Slot, o)
                       + RecordCount(heap', o) - RecordCount(heap, o) + Forgotten(o)
  <2>1. RecordCount(heap', o) = RecordCount(heap, o) /\ RecordCount(heap, o) \in Nat
        /\ rc[o] \in Int /\ Occ(stk, Slot, o) \in Nat /\ Occ(stk', Slot, o) \in Nat
    BY HeldFacts, SlotFacts
  <2> QED BY <1>2, <2>1
<1> QED BY <1>1, <1>2, <1>3, StepDone

\* A step that also writes the object x.
LEMMA HeapStep ==
  ASSUME RecordInv, NEW m, m \in MemType, AtZero(m), Becomes(m),
         status # "ended", status' \in {"running", "error", "done", "crashed"},
         code' \in Seq(Instr), FrameSound(stk', sp', heap'),
         NEW x, NEW b, HeapWritten(heap, heap', x, b), Forget,
         \A o \in Obj : Forgotten(o) \in Nat /\ (heap[o].class = "free" => Forgotten(o) = 0),
         \A o \in Obj : m.rc[o] = rc[o] + Occ(stk', Slot, o) - Occ(stk, Slot, o)
                                  + FieldCount(FieldsIn(b), o) - FieldCount(Fields(x), o)
                                  + Forgotten(o)
  PROVE  RecordInv'
<1>1. HeapSound(heap) /\ x \in Obj /\ Rewritten(heap, heap', x, b)
      /\ FieldsIn(b) \in Seq(Field)
  BY DEF RecordInv, HeapWritten, Rewritten, Legal
<1>2. HeapSound(heap') /\ Keeps(heap, heap') BY <1>1, HeapWriteFacts
<1>3. Fields(x) = FieldsIn(heap[x]) /\ Fields(x) \in Seq(Field) BY <1>1, StateFacts
<1>4. ASSUME NEW o \in Obj
      PROVE  m.rc[o] = rc[o] + Occ(stk', Slot, o) - Occ(stk, Slot, o)
                       + RecordCount(heap', o) - RecordCount(heap, o) + Forgotten(o)
  <2>1. RecordCount(heap', o) = RecordCount(heap, o) - FieldCount(Fields(x), o)
                                  + FieldCount(FieldsIn(b), o)
    <3> DEFINE hq == heap'
    <3>1. Rewritten(heap, hq, x, b) BY <1>1
    <3> HIDE DEF hq
    <3>2. RecordCount(hq, o) = RecordCount(heap, o) - FieldCount(FieldsIn(heap[x]), o)
                                 + FieldCount(FieldsIn(b), o)
      BY <1>1, <3>1, RecordWrite
    <3> QED BY <1>3, <3>2 DEF hq
  <2>2. /\ RecordCount(heap, o) \in Nat /\ rc[o] \in Int
        /\ Occ(stk, Slot, o) \in Nat /\ Occ(stk', Slot, o) \in Nat
        /\ FieldCount(FieldsIn(b), o) \in Nat /\ FieldCount(Fields(x), o) \in Nat
    BY <1>1, <1>3, HeldFacts, SlotFacts, FieldCountType
  <2> QED BY <2>1, <2>2
<1> QED BY <1>2, <1>4, StepDone

-----------------------------------------------------------------------------
(***************************************************************************)
(* What handlers read and write.                                           *)
(***************************************************************************)
LEMMA GetFacts ==
  ASSUME RecordInv, NEW n \in Nat, Operands(n), NEW i \in Int, 0 <= i, i < n
  PROVE  /\ sp - i \in Slot /\ sp - i \in 1..sp /\ Get(i) = stk[sp - i]
         /\ Get(i) \in Value /\ Agrees(heap, Get(i))
<1>1. sp \in Int /\ n <= sp BY StateFacts DEF Operands
<1>2. sp - i \in Int /\ 1 <= sp - i /\ sp - i <= sp BY <1>1
<1>3. sp - i \in Slot BY <1>2, StateFacts
<1>4. stk[sp - i] \in Value /\ Agrees(heap, stk[sp - i]) BY <1>3, StateFacts
<1> QED BY <1>1, <1>2, <1>3, <1>4 DEF Get

LEMMA CollapseFacts ==
  ASSUME RecordInv, NEW n \in Nat, n < sp, NEW v, Collapse(n, v)
  PROVE  /\ stk' = CutAt(stk, sp - n, v) /\ sp' = sp - n
         /\ sp - n \in 1..sp
         /\ \A o : /\ Occ(stk', Slot, o) = Occ(stk, Slot, o) - Occ(stk, (sp - n)..sp, o) + Count(v, o)
                   /\ Occ(stk, (sp - n)..sp, o) \in Nat
<1>1. sp \in Int /\ FrameSound(stk, sp, heap) BY StateFacts
<1>2. stk' = CutAt(stk, sp - n, v) /\ sp' = sp - n BY DEF Collapse, CutAt
<1> DEFINE d == sp - n
<1>3. d \in 1..sp BY <1>1
<1> HIDE DEF d
<1>4. \A o : /\ Occ(CutAt(stk, d, v), Slot, o) = Occ(stk, Slot, o) - Occ(stk, d..sp, o) + Count(v, o)
             /\ Occ(stk, d..sp, o) \in Nat
  BY <1>1, <1>3, SlotCut
<1> QED BY <1>2, <1>3, <1>4 DEF d

\* The slots from d up, of which d is one.
LEMMA OccFirst ==
  ASSUME NEW f, NEW d, NEW b, NEW e, NEW o, d \in Int, b \in Int, e \in Int,
         d < b, b <= d + 1, d <= e
  PROVE  /\ Occ(f, d..e, o) = Count(f[d], o) + Occ(f, b..e, o)
         /\ Occ(f, b..e, o) \in Nat
<1> DEFINE h == d
<1>1. h \in Int /\ b \in Int /\ h < b /\ b <= h + 1 /\ d <= b /\ h <= e OBVIOUS
<1>2. d..h = {d} OBVIOUS
<1> HIDE DEF h
<1>3. Occ(f, d..e, o) = Occ(f, d..h, o) + Occ(f, b..e, o) /\ Occ(f, b..e, o) \in Nat
  BY <1>1, PartCutFrom
<1>4. Occ(f, d..h, o) = Count(f[d], o) BY <1>2, OccSingle
<1> QED BY <1>3, <1>4

LEMMA OccTopOne ==
  ASSUME NEW f, NEW e \in Int, NEW o
  PROVE  Occ(f, (e - 0)..e, o) = Count(f[e - 0], o)
<1> DEFINE S == (e - 0)..e
<1>1. S = {e - 0} OBVIOUS
<1>2. Occ(f, {e - 0}, o) = Count(f[e - 0], o) BY OccSingle
<1> QED BY <1>1, <1>2

LEMMA OccTopTwo ==
  ASSUME NEW f, NEW e \in Int, NEW o
  PROVE  Occ(f, (e - 1)..e, o) = Count(f[e - 1], o) + Count(f[e - 0], o)
<1> DEFINE d == e - 1
           b == e - 0
<1>1. d \in Int /\ b \in Int /\ d <= e /\ d < b /\ b <= d + 1 OBVIOUS
<1> HIDE DEF d, b
<1>2. Occ(f, d..e, o) = Count(f[d], o) + Occ(f, b..e, o) BY <1>1, OccFirst
<1>3. Occ(f, (e - 0)..e, o) = Count(f[e - 0], o) BY OccTopOne
<1>4. Occ(f, d..e, o) = Count(f[d], o) + Count(f[e - 0], o) BY <1>2, <1>3 DEF b
<1> QED BY <1>4 DEF d

LEMMA OccTopThree ==
  ASSUME NEW f, NEW e \in Int, NEW o
  PROVE  Occ(f, (e - 2)..e, o) = Count(f[e - 2], o) + Count(f[e - 1], o) + Count(f[e - 0], o)
<1> DEFINE d == e - 2
           b == e - 1
<1>1. d \in Int /\ b \in Int /\ d <= e /\ d < b /\ b <= d + 1 OBVIOUS
<1> HIDE DEF d, b
<1>2. Occ(f, d..e, o) = Count(f[d], o) + Occ(f, b..e, o) BY <1>1, OccFirst
<1>3. Occ(f, (e - 1)..e, o) = Count(f[e - 1], o) + Count(f[e - 0], o) BY OccTopTwo
<1>4. Occ(f, d..e, o) = Count(f[d], o) + (Count(f[e - 1], o) + Count(f[e - 0], o))
  BY <1>2, <1>3 DEF b
<1>5. Occ(f, d..e, o) = Count(f[d], o) + Count(f[e - 1], o) + Count(f[e - 0], o)
  BY <1>4, CountType
<1> QED BY <1>5 DEF d

LEMMA FailStep ==
  ASSUME RecordInv, NEW op, At(op), Fail, Forget
  PROVE  RecordInv'
<1>1. /\ status = "running" /\ AtZero(Mem) /\ code \in Seq(Instr) /\ Mem \in MemType
  BY AtFacts, HeldFacts
<1>2. /\ Becomes(Mem) /\ UNCHANGED <<stk, sp, heap, code>> /\ status' = "error"
  BY DEF Fail, Raise, Becomes, Mem
<1>3. Quiet BY <1>2, QuietFail
<1>4. FrameSound(stk', sp', heap) BY <1>2, StateFacts
<1>5. \A o \in Obj : Mem.rc[o] = rc[o] + Occ(stk', Slot, o) - Occ(stk, Slot, o)
  BY <1>2, HeldFacts
<1> QED BY <1>1, <1>2, <1>3, <1>4, <1>5, FrameStep

LEMMA PushStep ==
  ASSUME RecordInv, NEW op, At(op), op # "SET_ELEMENT", op # "NEW_RECORD", Forget,
         NEW s0, FrameSound(s0, sp, heap), NEW m, m \in MemType, AtZero(m),
         NEW v \in Value, Agrees(heap, v), \A o \in m.dying : ~Holds(v, o),
         \A o \in Obj : m.rc[o] = rc[o] + Occ(s0, Slot, o) - Occ(stk, Slot, o),
         PushOver(s0, m, v)
  PROVE  RecordInv'
<1>1. /\ status = "running" /\ code \in Seq(Instr) /\ Tail(code) \in Seq(Instr) /\ Quiet
  BY AtFacts, QuietOp
<1>2. CASE /\ sp < MaxSlots
           /\ stk' = [s0 EXCEPT ![sp + 1] = v]
           /\ sp' = sp + 1
           /\ Becomes(Retain(m, v))
           /\ Continue
           /\ UNCHANGED heap
  <2> DEFINE n == Retain(m, v)
  <2>1. FrameSound(stk', sp', heap) /\ sp + 1 \in Slot /\ s0[sp + 1] = Nil
    BY <1>2, FramePush
  <2>2. n \in MemType /\ AtZero(n) BY RetainType, RetainAtZero
  <2>3. \A o \in Obj : n.rc[o] = rc[o] + Occ(stk', Slot, o) - Occ(stk, Slot, o)
    <3>1. TAKE o \in Obj
    <3>2. n.rc[o] = m.rc[o] + Count(v, o) BY RetainCount
    <3>3. Occ(stk', Slot, o) = Occ(s0, Slot, o) - Count(Nil, o) + Count(v, o)
      <4>1. s0 \in [Slot -> Value] BY DEF FrameSound
      <4> DEFINE k == sp + 1
                 g == stk'
      <4>2. SlotWritten(s0, g, k, v) BY <1>2, <2>1 DEF SlotWritten
      <4>3. s0[k] = Nil BY <2>1
      <4> HIDE DEF k, g
      <4>4. Occ(g, Slot, o) = Occ(s0, Slot, o) - Count(s0[k], o) + Count(v, o)
        BY <4>1, <4>2, SlotWrite
      <4> QED BY <4>3, <4>4 DEF g
    <3>4. Count(Nil, o) = 0 /\ Count(v, o) \in {0, 1} BY CountNil, CountType
    <3>5. /\ Occ(stk', Slot, o) \in Nat /\ Occ(s0, Slot, o) \in Nat
          /\ Occ(stk, Slot, o) \in Nat /\ rc[o] \in Int
      BY SlotFacts, HeldFacts
    <3> HIDE DEF n
    <3>6. m.rc[o] = rc[o] + Occ(s0, Slot, o) - Occ(stk, Slot, o) OBVIOUS
    <3> QED BY <3>2, <3>3, <3>4, <3>5, <3>6
  <2>4. status' = status /\ code' = Tail(code) /\ heap' = heap /\ Becomes(n)
    BY <1>2 DEF Continue
  <2> HIDE DEF n
  <2> QED BY <1>1, <2>1, <2>2, <2>3, <2>4, FrameStep
<1>3. CASE /\ sp = MaxSlots
           /\ stk' = s0
           /\ Becomes(m)
           /\ Raise
           /\ UNCHANGED <<sp, heap>>
  <2>1. status' = "error" /\ code' = code /\ heap' = heap /\ sp' = sp BY <1>3 DEF Raise
  <2>2. FrameSound(stk', sp', heap) BY <1>3, <2>1
  <2>3. \A o \in Obj : m.rc[o] = rc[o] + Occ(stk', Slot, o) - Occ(stk, Slot, o) BY <1>3
  <2> QED BY <1>1, <1>3, <2>1, <2>2, <2>3, FrameStep
<1> QED BY <1>2, <1>3 DEF PushOver

-----------------------------------------------------------------------------
(***************************************************************************)
(* Pushing, popping and arithmetic.                                        *)
(***************************************************************************)
LEMMA OccOne ==
  ASSUME NEW S, IsFiniteSet(S), NEW f, NEW o, NEW x, x \in S, Holds(f[x], o)
  PROVE  Occ(f, S, o) >= 1
<1>1. Occ(f, S, o) \in Nat BY OccType
<1>2. Occ(f, S, o) # 0 BY OccZero
<1> QED BY <1>1, <1>2

LEMMA OccTwo ==
  ASSUME NEW S, IsFiniteSet(S), NEW f, NEW o, NEW x, x \in S, NEW y, y \in S, x # y,
         Holds(f[x], o), Holds(f[y], o)
  PROVE  Occ(f, S, o) >= 2
<1> DEFINE T == S \ {x}
<1>1. IsFiniteSet(T) /\ y \in T BY FS_RemoveElement
<1>2. Occ(f, S, o) = Occ(f, T, o) + Count(f[x], o) BY OccRemove
<1> HIDE DEF T
<1>3. Occ(f, T, o) >= 1 /\ Occ(f, T, o) \in Nat BY <1>1, OccOne, OccType
<1>4. Count(f[x], o) = 1 BY DEF Count
<1> QED BY <1>2, <1>3, <1>4

\* The flag of a value does not change what it is.
LEMMA SharedFacts ==
  ASSUME NEW hp, NEW v \in Value, Agrees(hp, v)
  PROVE  /\ AsShared(v) \in Value /\ Agrees(hp, AsShared(v))
         /\ \A o : Holds(AsShared(v), o) <=> Holds(v, o)
         /\ Flagged(v) \in Value /\ Agrees(hp, Flagged(v))
         /\ \A o : Holds(Flagged(v), o) <=> Holds(v, o)
<1>1. AsShared(v) \in Value BY DEF AsShared, Value
<1>2. AsShared(v).type = v.type /\ AsShared(v).data = v.data BY DEF AsShared, Value
<1>3. Agrees(hp, AsShared(v)) BY <1>2 DEF Agrees, IsObject
<1>4. \A o : Holds(AsShared(v), o) <=> Holds(v, o) BY <1>2 DEF Holds, IsObject
<1>5. Flagged(v) = v \/ Flagged(v) = AsShared(v) BY DEF Flagged
<1> QED BY <1>1, <1>3, <1>4, <1>5

LEMMA PushValueStep ==
  ASSUME RecordInv, NEW op, At(op), op # "SET_ELEMENT", op # "NEW_RECORD", Forget,
         NEW v \in Value, Agrees(heap, v), PushValue(v)
  PROVE  RecordInv'
<1>1. FrameSound(stk, sp, heap) /\ Mem \in MemType /\ AtZero(Mem) BY StateFacts, HeldFacts, AtFacts
<1>2. \A o \in Mem.dying : ~Holds(v, o) BY AtFacts
<1>3. \A o \in Obj : Mem.rc[o] = rc[o] + Occ(stk, Slot, o) - Occ(stk, Slot, o) BY HeldFacts
<1>4. PushOver(stk, Mem, v) BY DEF PushValue
<1> QED BY <1>1, <1>2, <1>3, <1>4, PushStep

LEMMA PushIntKeeps == ASSUME RecordInv, PushInt, Forget PROVE RecordInv'
<1>1. At("PUSH_INT") /\ PushValue(Number(A)) BY DEF PushInt
<1>2. A \in Nat BY <1>1, AtFacts
<1>3. Number(A) \in Value /\ Agrees(heap, Number(A)) BY <1>2, ScalarFacts, AgreesScalar
<1> QED BY <1>1, <1>3, PushValueStep

\* The constant an instruction names.
LEMMA NameFacts ==
  ASSUME RecordInv, NEW op, At(op), HasConst
  PROVE  /\ Name \in Obj /\ heap[Name].class = "string"
         /\ Str(Name) \in Value /\ Agrees(heap, Str(Name))
<1>1. Consts \in Seq(Obj) /\ A \in 1..Len(Consts) BY ConstsAssumption DEF HasConst
<1>2. Name \in Obj BY <1>1, ElementOfSeq DEF Name
<1>3. ConstsSound(heap) BY AtFacts DEF RecordInv
<1>4. heap[Name].class = "string" BY <1>1, <1>3 DEF ConstsSound, Name
<1>5. Str(Name) \in Value BY <1>2, StrFacts
<1>6. Agrees(heap, Str(Name)) BY <1>4 DEF Agrees, Str
<1> QED BY <1>2, <1>4, <1>5, <1>6

LEMMA LoadConstKeeps == ASSUME RecordInv, LoadConst, Forget PROVE RecordInv'
<1>1. At("LOAD_CONST") /\ HasConst /\ PushValue(Str(Name)) BY DEF LoadConst
<1>2. Str(Name) \in Value /\ Agrees(heap, Str(Name)) BY <1>1, NameFacts
<1> QED BY <1>1, <1>2, PushValueStep

\* A live slot.
LEMMA LiveFacts ==
  ASSUME RecordInv, NEW i, i \in 1..sp
  PROVE  i \in Slot /\ stk[i] \in Value /\ Agrees(heap, stk[i])
<1>1. i \in Int /\ 1 <= i /\ i <= sp BY StateFacts
<1>2. i \in Slot BY <1>1, StateFacts
<1> QED BY <1>2, StateFacts

LEMMA LoadLocalKeeps == ASSUME RecordInv, LoadLocal, Forget PROVE RecordInv'
<1>1. At("LOAD_LOCAL") /\ A \in 1..sp /\ PushValue(stk[A]) BY DEF LoadLocal
<1>2. stk[A] \in Value /\ Agrees(heap, stk[A]) BY <1>1, LiveFacts
<1> QED BY <1>1, <1>2, PushValueStep

LEMMA FetchLocalKeeps == ASSUME RecordInv, FetchLocal, Forget PROVE RecordInv'
<1>1. At("FETCH_LOCAL") /\ A \in 1..sp /\ PushValue(Flagged(stk[A])) BY DEF FetchLocal
<1>2. stk[A] \in Value /\ Agrees(heap, stk[A]) BY <1>1, LiveFacts
<1>3. Flagged(stk[A]) \in Value /\ Agrees(heap, Flagged(stk[A])) BY <1>2, SharedFacts
<1> QED BY <1>1, <1>3, PushValueStep

LEMMA PopKeeps == ASSUME RecordInv, Pop, Forget PROVE RecordInv'
<1> DEFINE m == Release(Mem, Get(0))
           k == sp
           g == stk'
<1>1. /\ At("POP") /\ Operands(1) /\ g = [stk EXCEPT ![sp] = Nil] /\ sp' = sp - 1
      /\ Becomes(m) /\ Continue /\ heap' = heap
  BY DEF Pop
<1>2. sp - 0 \in Slot /\ Get(0) = stk[sp - 0] /\ sp \in Int /\ sp >= 1
  BY <1>1, GetFacts, StateFacts DEF Operands
<1>3. sp - 0 = sp BY <1>2
<1>4. SlotWritten(stk, g, k, Nil) /\ stk[k] = Get(0) /\ stk \in [Slot -> Value]
  BY <1>1, <1>2, <1>3, StateFacts DEF SlotWritten
<1>5. FrameSound(stk', sp', heap) BY <1>1, <1>2, StateFacts, FramePop
<1>6. m \in MemType /\ AtZero(m)
      /\ \A o \in Obj : m.rc[o] = rc[o] - Count(Get(0), o)
  BY <1>1, AtFacts, HeldFacts, ReleaseType, ReleaseAtZero, ReleaseCount
<1> HIDE DEF m, k, g
<1>7. \A o : Occ(g, Slot, o) = Occ(stk, Slot, o) - Count(stk[k], o) + Count(Nil, o)
  BY <1>4, SlotWrite
<1>8. \A o \in Obj : m.rc[o] = rc[o] + Occ(g, Slot, o) - Occ(stk, Slot, o)
  <2> TAKE o \in Obj
  <2>1. Occ(stk, Slot, o) \in Nat /\ rc[o] \in Int /\ Count(Get(0), o) \in {0, 1}
        /\ Count(Nil, o) = 0
    BY HeldFacts, CountType, CountNil
  <2>2. Occ(g, Slot, o) = Occ(stk, Slot, o) - Count(Get(0), o) + 0 BY <1>4, <1>7, <2>1
  <2> QED BY <1>6, <2>1, <2>2
<1>9. status' = status /\ code' = Tail(code) BY <1>1 DEF Continue
<1> QED BY <1>1, <1>5, <1>6, <1>8, <1>9, AtFacts, QuietOp, FrameStep DEF g

LEMMA StoreLocalKeeps == ASSUME RecordInv, StoreLocal, Forget PROVE RecordInv'
<1> DEFINE m == Release(Mem, stk[A])
           k == sp
           i == A
           v == Get(0)
           g == [stk EXCEPT ![A] = Get(0)]
           h == stk'
<1>1. /\ At("STORE_LOCAL") /\ A \in 1..(sp - 1)
      /\ h = [stk EXCEPT ![A] = Get(0), ![sp] = Nil] /\ sp' = sp - 1
      /\ Becomes(m) /\ Continue /\ heap' = heap
  BY DEF StoreLocal
<1>2. sp \in Int /\ A \in Nat /\ A \in 1..sp /\ A < sp /\ sp >= 1
  BY <1>1, StateFacts, AtFacts
<1>3. sp - 0 \in Slot /\ v = stk[sp - 0] /\ v \in Value /\ Agrees(heap, v)
  BY <1>2, GetFacts DEF Operands
<1>4. sp - 0 = sp /\ A \in Slot /\ stk \in [Slot -> Value] BY <1>1, <1>2, StateFacts, LiveFacts
<1>5. FrameSound(g, sp, heap) BY <1>2, <1>3, StateFacts, FrameSet
<1>6. h = [g EXCEPT ![sp] = Nil] BY <1>1, <1>2, <1>4
<1>7. g[sp] = v BY <1>2, <1>3, <1>4
<1>8. SlotWritten(stk, g, i, v) /\ SlotWritten(g, h, k, Nil)
  BY <1>3, <1>4, <1>6 DEF SlotWritten
<1>9. g \in [Slot -> Value] /\ FrameSound(h, sp - 1, heap)
  <2> HIDE DEF g
  <2>1. FrameSound([g EXCEPT ![sp] = Nil], sp - 1, heap) BY <1>2, <1>5, FramePop
  <2> QED BY <1>5, <1>6, <2>1 DEF FrameSound
<1>10. m \in MemType /\ AtZero(m) /\ \A o \in Obj : m.rc[o] = rc[o] - Count(stk[i], o)
  BY <1>1, AtFacts, HeldFacts, ReleaseType, ReleaseAtZero, ReleaseCount
<1>11. g[k] = v BY <1>7
<1> HIDE DEF m, k, g, h, v, i
<1>12. \A o : Occ(g, Slot, o) = Occ(stk, Slot, o) - Count(stk[i], o) + Count(v, o)
  BY <1>4, <1>8, SlotWrite
<1>13. \A o : Occ(h, Slot, o) = Occ(g, Slot, o) - Count(g[k], o) + Count(Nil, o)
  BY <1>8, <1>9, SlotWrite
<1>14. \A o \in Obj : m.rc[o] = rc[o] + Occ(h, Slot, o) - Occ(stk, Slot, o)
  <2> TAKE o \in Obj
  <2>1. Occ(stk, Slot, o) \in Nat /\ rc[o] \in Int /\ Count(v, o) \in {0, 1}
        /\ Count(stk[i], o) \in {0, 1} /\ Count(Nil, o) = 0
    BY HeldFacts, CountType, CountNil
  <2>2. Occ(h, Slot, o) = Occ(stk, Slot, o) - Count(stk[i], o)
    BY <1>11, <1>12, <1>13, <2>1
  <2>3. m.rc[o] = rc[o] - Count(stk[i], o) BY <1>10
  <2> QED BY <2>1, <2>2, <2>3
<1>15. status' = status /\ code' = Tail(code) BY <1>1 DEF Continue
<1> QED BY <1>1, <1>9, <1>10, <1>14, <1>15, AtFacts, QuietOp, FrameStep DEF h

LEMMA MoveKeeps ==
  ASSUME RecordInv, Move, Disciplined, Forget
  PROVE  RecordInv'
<1> DEFINE i == A
           w == stk[A]
           v == stk[B]
           n == Release(Mem, w)
           m == Retain(n, v)
           g == stk'
<1>1. /\ At("MOVE") /\ A \in 1..sp /\ B \in 1..sp /\ g = [stk EXCEPT ![A] = stk[B]]
      /\ Becomes(m) /\ Continue /\ heap' = heap /\ sp' = sp
  BY DEF Move
<1>2. A # B BY <1>1 DEF Disciplined
<1>3. A \in Slot /\ B \in Slot /\ v \in Value /\ Agrees(heap, v) BY <1>1, LiveFacts
<1>4. SlotWritten(stk, g, i, v) /\ stk \in [Slot -> Value] /\ w = stk[i]
  BY <1>1, <1>3, StateFacts DEF SlotWritten
<1>5. FrameSound(g, sp, heap) BY <1>1, <1>3, StateFacts, FrameSet
<1>6. Mem \in MemType /\ AtZero(Mem) /\ Mem.rc = rc /\ Mem.dying = {}
  BY <1>1, AtFacts, HeldFacts
<1>7. \A o \in n.dying : ~Holds(v, o)
  <2> SUFFICES ASSUME NEW o \in n.dying, Holds(v, o) PROVE FALSE OBVIOUS
  <2>1. o \in Obj /\ Holds(w, o) /\ rc[o] = 1 BY <1>6 DEF Release
  <2>2. Occ(stk, Slot, o) >= 2 BY <1>2, <1>3, <2>1, SlotFacts, OccTwo
  <2>3. rc[o] >= 2
    <3>1. /\ Occ(stk, Slot, o) \in Nat /\ RecordCount(heap, o) \in Nat
          /\ ConstCount(status, o) \in Nat /\ forgotten[o] \in Nat
          /\ rc[o] = Occ(stk, Slot, o) + RecordCount(heap, o)
                       + ConstCount(status, o) + forgotten[o]
      <4>1. ConstCount(status, o) \in {0, 1} BY <2>1, HeldFacts
      <4> QED BY <2>1, <4>1, HeldFacts
    <3> QED BY <2>2, <3>1
  <2> QED BY <2>1, <2>3
<1> HIDE DEF w, v
<1>8. n \in MemType /\ AtZero(n) BY <1>6, ReleaseType, ReleaseAtZero
<1>9. m \in MemType /\ AtZero(m)
  <2> HIDE DEF n
  <2> QED BY <1>7, <1>8, RetainType, RetainAtZero
<1>10. \A o \in Obj : m.rc[o] = rc[o] - Count(w, o) + Count(v, o)
  <2> TAKE o \in Obj
  <2>1. n.rc[o] = rc[o] - Count(w, o) BY <1>6, ReleaseCount
  <2> HIDE DEF n
  <2>2. m.rc[o] = n.rc[o] + Count(v, o) BY <1>8, RetainCount
  <2> QED BY <2>1, <2>2
<1> HIDE DEF m, n, g, i
<1>11. \A o : Occ(g, Slot, o) = Occ(stk, Slot, o) - Count(stk[i], o) + Count(v, o)
  BY <1>4, SlotWrite
<1>12. \A o \in Obj : m.rc[o] = rc[o] + Occ(g, Slot, o) - Occ(stk, Slot, o)
  <2> TAKE o \in Obj
  <2>1. Occ(stk, Slot, o) \in Nat /\ rc[o] \in Int /\ Count(v, o) \in {0, 1}
        /\ Count(w, o) \in {0, 1}
    BY HeldFacts, CountType
  <2>2. Occ(g, Slot, o) = Occ(stk, Slot, o) - Count(w, o) + Count(v, o) BY <1>4, <1>11
  <2> QED BY <1>10, <2>1, <2>2
<1>13. status' = status /\ code' = Tail(code) BY <1>1 DEF Continue
<1> QED BY <1>1, <1>5, <1>9, <1>12, <1>13, AtFacts, QuietOp, FrameStep DEF g

-----------------------------------------------------------------------------
(***************************************************************************)
(* Operands become one value, and an object may be written.                *)
(***************************************************************************)
LEMMA CollapseStep ==
  ASSUME RecordInv, NEW op, At(op), op # "SET_ELEMENT", op # "NEW_RECORD", Forget,
         NEW n, n \in Nat, n < sp, NEW v, v \in Value, Agrees(heap, v), Collapse(n, v),
         NEW m, m \in MemType, AtZero(m), Becomes(m), Continue, UNCHANGED heap,
         \A o \in Obj : m.rc[o] = rc[o] + Count(v, o) - Occ(stk, (sp - n)..sp, o)
  PROVE  RecordInv'
<1>1. /\ stk' = CutAt(stk, sp - n, v) /\ sp' = sp - n /\ sp - n \in 1..sp
      /\ \A o : /\ Occ(stk', Slot, o) = Occ(stk, Slot, o) - Occ(stk, (sp - n)..sp, o) + Count(v, o)
                /\ Occ(stk, (sp - n)..sp, o) \in Nat
  BY CollapseFacts
<1>2. FrameSound(stk', sp', heap) BY <1>1, StateFacts, FrameCut
<1>3. \A o \in Obj : m.rc[o] = rc[o] + Occ(stk', Slot, o) - Occ(stk, Slot, o)
  <2> TAKE o \in Obj
  <2> DEFINE d == Occ(stk, (sp - n)..sp, o)
             w == Occ(stk', Slot, o)
  <2>1. /\ d \in Nat /\ w = Occ(stk, Slot, o) - d + Count(v, o)
        /\ m.rc[o] = rc[o] + Count(v, o) - d
    BY <1>1
  <2>2. Occ(stk, Slot, o) \in Nat /\ rc[o] \in Int /\ Count(v, o) \in {0, 1}
    BY HeldFacts, CountType
  <2> HIDE DEF d, w
  <2>3. m.rc[o] = rc[o] + w - Occ(stk, Slot, o) BY <2>1, <2>2
  <2> QED BY <2>3 DEF w
<1>4. status' = status /\ code' = Tail(code) BY DEF Continue
<1> QED BY <1>2, <1>3, <1>4, AtFacts, QuietOp, FrameStep

LEMMA CollapseHeapStep ==
  ASSUME RecordInv, NEW op, At(op), Forget,
         NEW n, n \in Nat, n < sp, NEW v, v \in Value, Agrees(heap', v), Collapse(n, v),
         NEW m, m \in MemType, AtZero(m), Becomes(m), Continue,
         NEW x, NEW b, HeapWritten(heap, heap', x, b),
         \A o \in Obj : Forgotten(o) \in Nat /\ (heap[o].class = "free" => Forgotten(o) = 0),
         \A o \in Obj : m.rc[o] = rc[o] + Count(v, o) - Occ(stk, (sp - n)..sp, o)
                                  + FieldCount(FieldsIn(b), o) - FieldCount(Fields(x), o)
                                  + Forgotten(o)
  PROVE  RecordInv'
<1>1. /\ stk' = CutAt(stk, sp - n, v) /\ sp' = sp - n /\ sp - n \in 1..sp
      /\ \A o : /\ Occ(stk', Slot, o) = Occ(stk, Slot, o) - Occ(stk, (sp - n)..sp, o) + Count(v, o)
                /\ Occ(stk, (sp - n)..sp, o) \in Nat
  BY CollapseFacts
<1>2. FrameSound(stk', sp', heap')
  <2> DEFINE hq == heap'
  <2>1. FrameSound(stk, sp, heap) /\ HeapSound(heap) BY StateFacts
  <2>2. HeapWritten(heap, hq, x, b) /\ Agrees(hq, v) OBVIOUS
  <2> HIDE DEF hq
  <2>3. Keeps(heap, hq) BY <2>1, <2>2, HeapWriteFacts
  <2>4. FrameSound(stk, sp, hq) BY <2>1, <2>3, FrameKept
  <2>5. FrameSound(CutAt(stk, sp - n, v), sp - n, hq) BY <1>1, <2>2, <2>4, FrameCut
  <2> QED BY <1>1, <2>5 DEF hq
<1>3. \A o \in Obj : m.rc[o] = rc[o] + Occ(stk', Slot, o) - Occ(stk, Slot, o)
                               + FieldCount(FieldsIn(b), o) - FieldCount(Fields(x), o)
                               + Forgotten(o)
  <2> TAKE o \in Obj
  <2> DEFINE d == Occ(stk, (sp - n)..sp, o)
             w == Occ(stk', Slot, o)
             s == Occ(stk, Slot, o)
             c == Count(v, o)
             e == FieldCount(FieldsIn(b), o)
             k == FieldCount(Fields(x), o)
             f == Forgotten(o)
  <2>1. m.rc[o] = rc[o] + c - d + e - k + f OBVIOUS
  <2>2. d \in Nat /\ w = s - d + c BY <1>1
  <2>3. s \in Nat /\ rc[o] \in Int BY HeldFacts
  <2>4. c \in Int BY CountType
  <2>5. e \in Nat /\ k \in Nat
    <3>1. FieldsIn(b) \in Seq(Field) /\ x \in Obj BY DEF HeapWritten, Rewritten, Legal
    <3>2. Fields(x) \in Seq(Field) BY <3>1, StateFacts
    <3> QED BY <3>1, <3>2, FieldCountType
  <2>6. f \in Nat OBVIOUS
  <2> HIDE DEF d, w, s, c, e, k, f
  <2>7. m.rc[o] = rc[o] + w - s + e - k + f BY <2>1, <2>2, <2>3, <2>4, <2>5, <2>6
  <2> QED BY <2>7 DEF w, s, e, k, f
<1>4. status' = status /\ code' = Tail(code) BY DEF Continue
<1>5. status' \in {"running", "error", "done", "crashed"} /\ status # "ended"
      /\ code' \in Seq(Instr)
  BY <1>4, AtFacts
<1> QED BY <1>2, <1>3, <1>5, HeapStep

\* The contents of objects.
LEMMA BodyFacts ==
  ASSUME NEW b \in Body
  PROVE  /\ b.class = "string" => b.text \in Seq(Char)
         /\ b.class = "range" => b.start \in Nat /\ b.end \in Nat
         /\ b.class = "record" => b.fields \in Seq(Field)
  BY DEF Body

LEMMA NoFieldsLegal == \A hp : Legal(hp, <<>>)
  BY NoFields DEF Legal

LEMMA NewBodyFacts ==
  /\ \A t \in Seq(Char) : StringBody(t) \in Body /\ StringBody(t).class = "string"
                          /\ FieldsIn(StringBody(t)) = <<>>
  /\ \A i, j \in Nat : RangeBody(i, j) \in Body /\ RangeBody(i, j).class = "range"
                       /\ FieldsIn(RangeBody(i, j)) = <<>>
  /\ \A fs \in Seq(Field) : RecordBody(fs) \in Body /\ RecordBody(fs).class = "record"
                            /\ FieldsIn(RecordBody(fs)) = fs
  BY DEF StringBody, RangeBody, RecordBody, Body, FieldsIn

\* An object is allocated with the content b.
Allocated(hp, hq, x, b) == x \in Free /\ hq = [hp EXCEPT ![x] = b]

LEMMA AllocFacts ==
  ASSUME RecordInv, NEW hq, NEW x, NEW b, Allocated(heap, hq, x, b), b \in Body,
         Legal(heap, FieldsIn(b))
  PROVE  /\ HeapWritten(heap, hq, x, b) /\ x \in Obj /\ Fields(x) = <<>>
         /\ \A o : FieldCount(Fields(x), o) = 0
         /\ \A v : v.type = b.class /\ v.data = x => Agrees(hq, v)
<1>1. x \in Obj /\ heap[x].class = "free" /\ hq = [heap EXCEPT ![x] = b]
  BY DEF Allocated, Free
<1>2. HeapWritten(heap, hq, x, b)
  <2>1. Rewritten(heap, hq, x, b) BY <1>1 DEF Rewritten
  <2>2. heap[x].class = "free" BY <1>1
  <2> QED BY <2>1, <2>2 DEF HeapWritten
<1>3. Fields(x) = <<>> BY <1>1 DEF Fields
<1>4. hq[x] = b BY <1>1, StateFacts
<1> QED BY <1>1, <1>2, <1>3, <1>4, NoFields DEF Agrees

\* The two operands on top are released under the result.
LEMMA CombineCount ==
  ASSUME RecordInv, NEW op, At(op), Operands(2), NEW v
  PROVE  /\ Release(Release(Retain(Mem, v), Get(1)), Get(0)) \in MemType
         /\ AtZero(Release(Release(Retain(Mem, v), Get(1)), Get(0)))
         /\ \A o \in Obj : Release(Release(Retain(Mem, v), Get(1)), Get(0)).rc[o]
                             = rc[o] + Count(v, o) - Occ(stk, (sp - 1)..sp, o)
<1> DEFINE m1 == Retain(Mem, v)
           m2 == Release(m1, Get(1))
           m3 == Release(m2, Get(0))
<1>1. Mem \in MemType /\ AtZero(Mem) /\ Mem.dying = {} /\ Mem.rc = rc BY AtFacts, HeldFacts
<1>2. m1 \in MemType /\ AtZero(m1) /\ \A o \in Obj : m1.rc[o] = rc[o] + Count(v, o)
  BY <1>1, RetainType, RetainAtZero, RetainCount
<1> HIDE DEF m1
<1>3. m2 \in MemType /\ AtZero(m2) /\ \A o \in Obj : m2.rc[o] = m1.rc[o] - Count(Get(1), o)
  BY <1>2, ReleaseType, ReleaseAtZero, ReleaseCount
<1> HIDE DEF m2
<1>4. m3 \in MemType /\ AtZero(m3) /\ \A o \in Obj : m3.rc[o] = m2.rc[o] - Count(Get(0), o)
  BY <1>3, ReleaseType, ReleaseAtZero, ReleaseCount
<1> HIDE DEF m3
<1>5. \A o \in Obj : m3.rc[o] = rc[o] + Count(v, o) - Occ(stk, (sp - 1)..sp, o)
  <2> TAKE o \in Obj
  <2>1. Occ(stk, (sp - 1)..sp, o) = Count(Get(1), o) + Count(Get(0), o)
    BY StateFacts, OccTopTwo DEF Get
  <2>2. rc[o] \in Int /\ Count(v, o) \in Int /\ Count(Get(1), o) \in Int /\ Count(Get(0), o) \in Int
    BY HeldFacts, CountType
  <2>3. m3.rc[o] = rc[o] + Count(v, o) - Count(Get(1), o) - Count(Get(0), o)
    <3>1. m1.rc[o] = rc[o] + Count(v, o) BY <1>2
    <3>2. m2.rc[o] = m1.rc[o] - Count(Get(1), o) BY <1>3
    <3>3. m3.rc[o] = m2.rc[o] - Count(Get(0), o) BY <1>4
    <3> QED BY <2>2, <3>1, <3>2, <3>3
  <2> QED BY <2>1, <2>2, <2>3
<1> QED BY <1>4, <1>5 DEF m1, m2, m3

LEMMA CombineStep ==
  ASSUME RecordInv, NEW op, At(op), op # "SET_ELEMENT", op # "NEW_RECORD", Forget,
         Operands(2), NEW v, v \in Value, Agrees(heap, v), Combine(v)
  PROVE  RecordInv'
<1> DEFINE m == Release(Release(Retain(Mem, v), Get(1)), Get(0))
<1>1. Becomes(m) /\ Collapse(1, v) /\ Continue /\ heap' = heap BY DEF Combine
<1>2. /\ m \in MemType /\ AtZero(m)
      /\ \A o \in Obj : m.rc[o] = rc[o] + Count(v, o) - Occ(stk, (sp - 1)..sp, o)
  BY CombineCount
<1>3. 1 < sp /\ 1 \in Nat BY StateFacts DEF Operands
<1> HIDE DEF m
<1> QED BY <1>1, <1>2, <1>3, CollapseStep

LEMMA CombineTextStep ==
  ASSUME RecordInv, NEW op, At(op), op # "SET_ELEMENT", op # "NEW_RECORD", Forget,
         Operands(2), NEW t, t \in Seq(Char), CombineText(t)
  PROVE  RecordInv'
<1>1. CASE Fail BY <1>1, FailStep
<1>2. CASE ~Fail
  <2>1. PICK x \in Free :
          /\ heap' = [heap EXCEPT ![x] = StringBody(t)]
          /\ Becomes(Release(Release(Retain(Mem, Str(x)), Get(1)), Get(0)))
          /\ Collapse(1, Str(x))
          /\ Continue
    BY <1>2 DEF CombineText
  <2> DEFINE v == Str(x)
             b == StringBody(t)
             m == Release(Release(Retain(Mem, v), Get(1)), Get(0))
  <2>2. b \in Body /\ b.class = "string" /\ FieldsIn(b) = <<>> BY NewBodyFacts
  <2>3. x \in Obj /\ v \in Value /\ v.type = "string" /\ v.data = x
    BY StrFacts DEF Free, Str
  <2>4. Legal(heap, FieldsIn(b)) BY <2>2, NoFieldsLegal
  <2>5. /\ HeapWritten(heap, heap', x, b) /\ Agrees(heap', v)
        /\ \A o : FieldCount(Fields(x), o) = 0
    <3> DEFINE hq == heap'
    <3>1. Allocated(heap, hq, x, b) BY <2>1 DEF Allocated
    <3> HIDE DEF hq, b, v
    <3>2. /\ HeapWritten(heap, hq, x, b) /\ Agrees(hq, v)
          /\ \A o : FieldCount(Fields(x), o) = 0
      BY <2>2, <2>3, <2>4, <3>1, AllocFacts
    <3> QED BY <3>2 DEF hq
  <2>6. /\ m \in MemType /\ AtZero(m)
        /\ \A o \in Obj : m.rc[o] = rc[o] + Count(v, o) - Occ(stk, (sp - 1)..sp, o)
    BY CombineCount
  <2>7. 1 < sp /\ 1 \in Nat BY StateFacts DEF Operands
  <2>8. \A o \in Obj : Forgotten(o) \in Nat /\ Forgotten(o) = 0 BY QuietOp DEF Quiet
  <2>9. Becomes(m) /\ Collapse(1, v) /\ Continue BY <2>1
  <2> HIDE DEF m, b, v
  <2>10. \A o \in Obj : m.rc[o] = rc[o] + Count(v, o) - Occ(stk, (sp - 1)..sp, o)
                                   + FieldCount(FieldsIn(b), o) - FieldCount(Fields(x), o)
                                   + Forgotten(o)
    <3> TAKE o \in Obj
    <3>1. m.rc[o] \in Int /\ FieldCount(FieldsIn(b), o) = 0 /\ FieldCount(Fields(x), o) = 0
          /\ Forgotten(o) = 0
      BY <2>2, <2>5, <2>6, <2>8, NoFields DEF MemType
    <3> QED BY <2>6, <3>1
  <2> QED BY <2>3, <2>5, <2>6, <2>7, <2>8, <2>9, <2>10, CollapseHeapStep
<1> QED BY <1>1, <1>2

\* Reading the text or the bounds of what a slot holds.
LEMMA TextFacts ==
  ASSUME RecordInv, NEW v \in Value, Agrees(heap, v), v.type = "string"
  PROVE  v.data \in Obj /\ heap[v.data].class = "string" /\ Text(v.data) \in Seq(Char)
<1>1. IsObject(v) BY DEF IsObject, ObjectType
<1>2. v.data \in Obj BY DEF Value, ScalarType, ObjectType
<1>3. heap[v.data].class = "string" BY <1>1 DEF Agrees
<1>4. heap[v.data] \in Body BY <1>2, StateFacts
<1> QED BY <1>2, <1>3, <1>4, BodyFacts DEF Text

LEMMA RangeFacts ==
  ASSUME RecordInv, NEW v \in Value, Agrees(heap, v), v.type = "range"
  PROVE  heap[v.data].start \in Nat /\ heap[v.data].end \in Nat
<1>1. IsObject(v) BY DEF IsObject, ObjectType
<1>2. v.data \in Obj BY DEF Value, ScalarType, ObjectType
<1>3. heap[v.data].class = "range" BY <1>1 DEF Agrees
<1>4. heap[v.data] \in Body BY <1>2, StateFacts
<1> QED BY <1>3, <1>4, BodyFacts

LEMMA NumberFacts ==
  ASSUME NEW v \in Value, v.type = "number"
  PROVE  v.data \in Nat
  BY DEF Value, ScalarType, ObjectType

LEMMA AddKeeps == ASSUME RecordInv, Add, Forget PROVE RecordInv'
<1>1. At("ADD") /\ Operands(2) BY DEF Add
<1>2. /\ Get(1) \in Value /\ Agrees(heap, Get(1))
      /\ Get(0) \in Value /\ Agrees(heap, Get(0))
  BY <1>1, GetFacts
<1>3. ASSUME NEW n \in 0..MaxNum, Combine(Number(n)) PROVE RecordInv'
  <2>1. n \in Nat BY LimitAssumption
  <2>2. Number(n) \in Value /\ Agrees(heap, Number(n)) BY <2>1, ScalarFacts, AgreesScalar
  <2> QED BY <1>1, <1>3, <2>2, CombineStep
<1>4. CASE BothAre("string") /\ Concat(Text(Get(1).data), Text(Get(0).data))
  <2> DEFINE t1 == Text(Get(1).data)
             t2 == Text(Get(0).data)
  <2>1. t1 \in Seq(Char) /\ t2 \in Seq(Char) BY <1>2, <1>4, TextFacts DEF BothAre
  <2>2. t1 \o t2 \in Seq(Char) BY <2>1, ConcatProperties
  <2>3. CombineText(t1 \o t2) \/ Fail BY <1>4 DEF Concat
  <2> QED BY <1>1, <2>2, <2>3, FailStep, CombineTextStep
<1>5. CASE Fail BY <1>1, <1>5, FailStep
<1> QED BY <1>3, <1>4, <1>5 DEF Add

-----------------------------------------------------------------------------
(***************************************************************************)
(* Ranges and slices.                                                      *)
(***************************************************************************)
LEMMA NewRangeKeeps == ASSUME RecordInv, NewRange, Forget PROVE RecordInv'
<1>1. At("NEW_RANGE") /\ Operands(2) BY DEF NewRange
<1>2. CASE Fail BY <1>1, <1>2, FailStep
<1>3. CASE ~Fail
  <2>1. BothAre("number") BY <1>3 DEF NewRange
  <2>2. PICK x \in Free :
          /\ heap' = [heap EXCEPT ![x] = RangeBody(Get(1).data, Get(0).data)]
          /\ Collapse(1, RangeOf(x))
          /\ Becomes(Retain(Mem, RangeOf(x)))
          /\ Continue
    BY <1>3 DEF NewRange
  <2> DEFINE v == RangeOf(x)
             b == RangeBody(Get(1).data, Get(0).data)
             m == Retain(Mem, v)
  <2>3. Get(1) \in Value /\ Get(0) \in Value BY <1>1, GetFacts
  <2>4. Get(1).type = "number" /\ Get(0).type = "number" BY <2>1 DEF BothAre
  <2>5. Get(1).data \in Nat /\ Get(0).data \in Nat BY <2>3, <2>4, NumberFacts
  <2>6. b \in Body /\ b.class = "range" /\ FieldsIn(b) = <<>> BY <2>5, NewBodyFacts
  <2>7. x \in Obj /\ v \in Value /\ v.type = "range" /\ v.data = x
    BY StrFacts DEF Free, RangeOf
  <2>8. Legal(heap, FieldsIn(b)) BY <2>6, NoFieldsLegal
  <2>9. /\ HeapWritten(heap, heap', x, b) /\ Agrees(heap', v)
        /\ \A o : FieldCount(Fields(x), o) = 0
    <3> DEFINE hq == heap'
    <3>1. Allocated(heap, hq, x, b) BY <2>2 DEF Allocated
    <3> HIDE DEF hq, b, v
    <3>2. /\ HeapWritten(heap, hq, x, b) /\ Agrees(hq, v)
          /\ \A o : FieldCount(Fields(x), o) = 0
      BY <2>6, <2>7, <2>8, <3>1, AllocFacts
    <3> QED BY <3>2 DEF hq
  <2>10. /\ m \in MemType /\ AtZero(m)
         /\ \A o \in Obj : m.rc[o] = rc[o] + Count(v, o)
    BY <1>1, AtFacts, HeldFacts, RetainType, RetainAtZero, RetainCount
  <2>11. 1 < sp /\ 1 \in Nat BY <1>1, StateFacts DEF Operands
  <2>12. \A o \in Obj : Forgotten(o) \in Nat /\ Forgotten(o) = 0 BY <1>1, QuietOp DEF Quiet
  <2>13. Becomes(m) /\ Collapse(1, v) /\ Continue BY <2>2
  <2>14. \A o : Occ(stk, (sp - 1)..sp, o) = 0
    <3> TAKE o
    <3>1. Occ(stk, (sp - 1)..sp, o) = Count(Get(1), o) + Count(Get(0), o)
      BY StateFacts, OccTopTwo DEF Get
    <3>2. Count(Get(1), o) = 0 /\ Count(Get(0), o) = 0
      BY <2>4, CountScalar DEF IsObject, ObjectType
    <3> QED BY <3>1, <3>2
  <2> HIDE DEF m, b, v
  <2>15. \A o \in Obj : m.rc[o] = rc[o] + Count(v, o) - Occ(stk, (sp - 1)..sp, o)
                                   + FieldCount(FieldsIn(b), o) - FieldCount(Fields(x), o)
                                   + Forgotten(o)
    <3> TAKE o \in Obj
    <3>1. m.rc[o] \in Int /\ FieldCount(FieldsIn(b), o) = 0 /\ FieldCount(Fields(x), o) = 0
          /\ Forgotten(o) = 0 /\ m.rc[o] = rc[o] + Count(v, o) /\ Occ(stk, (sp - 1)..sp, o) = 0
      BY <2>6, <2>9, <2>10, <2>12, <2>14, NoFields DEF MemType
    <3>2. rc[o] \in Int /\ Count(v, o) \in Int BY HeldFacts, CountType
    <3> QED BY <3>1, <3>2
  <2> QED BY <1>1, <2>7, <2>9, <2>10, <2>11, <2>12, <2>13, <2>15, CollapseHeapStep
<1> QED BY <1>2, <1>3

LEMMA SliceType ==
  ASSUME NEW t \in Seq(Char), NEW i \in Nat, NEW j \in Nat, j <= Len(t)
  PROVE  Slice(t, i, j) \in Seq(Char)
<1>1. CASE i < j
  <2>1. Len(t) \in Nat BY LenProperties
  <2>2. \A k \in (i + 1)..j : k \in 1..Len(t) BY <2>1
  <2>3. \A k \in (i + 1)..j : t[k] \in Char BY <2>2, ElementOfSeq
  <2>4. SubSeq(t, i + 1, j) \in Seq(Char)
    <3> DEFINE a == i + 1
    <3>1. a \in Int /\ j \in Int /\ \A k \in a..j : t[k] \in Char BY <2>3
    <3> HIDE DEF a
    <3>2. SubSeq(t, a, j) \in Seq(Char) BY <3>1, SubSeqProperties
    <3> QED BY <3>2 DEF a
  <2> QED BY <1>1, <2>4 DEF Slice
<1>2. CASE ~(i < j) BY <1>2, EmptySeq DEF Slice
<1> QED BY <1>1, <1>2

LEMMA SliceStringStep ==
  ASSUME RecordInv, At("GET_ELEMENT"), Operands(2), Forget, SliceString
  PROVE  RecordInv'
<1>1. /\ Get(1) \in Value /\ Agrees(heap, Get(1))
      /\ Get(0) \in Value /\ Agrees(heap, Get(0))
  BY GetFacts
<1>2. Get(1).type = "string" /\ Get(0).type = "range" BY DEF SliceString, IsText, IsRange
<1> DEFINE t == Text(Get(1).data)
           i == heap[Get(0).data].start
           j == heap[Get(0).data].end
<1>3. t \in Seq(Char) BY <1>1, <1>2, TextFacts
<1>4. i \in Nat /\ j \in Nat BY <1>1, <1>2, RangeFacts
<1>5. (j <= Len(t) /\ CombineText(Slice(t, i, j))) \/ Fail BY DEF SliceString
<1> HIDE DEF t, i, j
<1>6. CASE j <= Len(t) /\ CombineText(Slice(t, i, j))
  <2>1. Slice(t, i, j) \in Seq(Char) BY <1>3, <1>4, <1>6, SliceType
  <2> QED BY <1>6, <2>1, CombineTextStep
<1>7. CASE Fail BY <1>7, FailStep
<1> QED BY <1>5, <1>6, <1>7

LEMMA PickFromRangeStep ==
  ASSUME RecordInv, At("GET_ELEMENT"), Operands(2), Forget, PickFromRange
  PROVE  RecordInv'
<1>1. /\ Get(1) \in Value /\ Agrees(heap, Get(1))
      /\ Get(0) \in Value /\ Agrees(heap, Get(0))
  BY GetFacts
<1>2. Get(1).type = "range" BY DEF PickFromRange, IsRange
<1> DEFINE n == heap[Get(1).data].start + Get(0).data
<1>3. CASE Get(0).type = "number" /\ Combine(Number(n))
  <2>1. n \in Nat BY <1>1, <1>2, <1>3, RangeFacts, NumberFacts
  <2>2. Number(n) \in Value /\ Agrees(heap, Number(n)) BY <2>1, ScalarFacts, AgreesScalar
  <2> HIDE DEF n
  <2> QED BY <1>3, <2>2, CombineStep
<1>4. CASE Fail BY <1>4, FailStep
<1> QED BY <1>3, <1>4 DEF PickFromRange

-----------------------------------------------------------------------------
(***************************************************************************)
(* Reading a record.                                                       *)
(***************************************************************************)
\* A record in a value, and its fields.
LEMMA WholeFacts ==
  ASSUME RecordInv, NEW v \in Value, Agrees(heap, v), IsRecord(v)
  PROVE  /\ v.data \in Obj /\ heap[v.data].class = "record" /\ Holds(v, v.data)
         /\ Fields(v.data) \in Seq(Field) /\ Legal(heap, Fields(v.data))
         /\ \A i \in 1..Len(Fields(v.data)) :
              /\ Fields(v.data)[i].val \in Value /\ Agrees(heap, Fields(v.data)[i].val)
              /\ \A o : Holds(Fields(v.data)[i].val, o) => FieldCount(Fields(v.data), o) >= 1
<1>1. IsObject(v) /\ v.type = "record" BY DEF IsRecord, IsObject, ObjectType
<1>2. v.data \in Obj BY <1>1 DEF Value, ScalarType, ObjectType
<1>3. heap[v.data].class = "record" BY <1>1 DEF Agrees
<1> DEFINE fs == Fields(v.data)
<1>4. fs \in Seq(Field) /\ Legal(heap, fs) BY <1>2, StateFacts
<1> HIDE DEF fs
<1>5. ASSUME NEW i \in 1..Len(fs)
      PROVE  /\ fs[i].val \in Value /\ Agrees(heap, fs[i].val)
             /\ \A o : Holds(fs[i].val, o) => FieldCount(fs, o) >= 1
  <2>1. fs[i].val \in Value /\ Vals(fs)[i] = fs[i].val BY <1>4, PartsType
  <2>2. Agrees(heap, fs[i].val) BY <1>4 DEF Legal
  <2>3. ASSUME NEW o, Holds(fs[i].val, o) PROVE FieldCount(fs, o) >= 1
    <3> DEFINE S == 1..Len(fs)
    <3>1. IsFiniteSet(S) /\ i \in S BY <1>4, LenProperties, FS_Interval
    <3>2. OnStack(Vals(fs), o) = Occ(Vals(fs), S, o) /\ OnStack(Vals(fs), o) \in Nat
          /\ OnStack(Names(fs), o) \in Nat
      BY <1>4, FieldCountType
    <3> HIDE DEF S
    <3>3. Occ(Vals(fs), S, o) >= 1 BY <2>1, <2>3, <3>1, OccOne
    <3> QED BY <3>2, <3>3 DEF FieldCount
  <2> QED BY <2>1, <2>2, <2>3
<1> QED BY <1>1, <1>2, <1>3, <1>4, <1>5 DEF fs, Holds

\* A record counts among those that hold what its fields hold.
LEMMA OneRecord ==
  ASSUME RecordInv, NEW x \in Obj, NEW o
  PROVE  RecordCount(heap, o) >= FieldCount(Fields(x), o)
<1> DEFINE ns == NamesIn(heap)
           vs == ValsIn(heap)
<1>1. HeapSound(heap) /\ Fields(x) = FieldsIn(heap[x]) BY StateFacts
<1>2. Stacks(Obj, ns) /\ Stacks(Obj, vs) /\ IsFiniteSet(Obj) BY <1>1, NamesInSound
<1>3. ns[x] = Names(Fields(x)) /\ vs[x] = Vals(Fields(x)) BY <1>1 DEF NamesIn, ValsIn
<1>4. RecordCount(heap, o) = OnStacks(Obj, ns, o) + OnStacks(Obj, vs, o) BY DEF RecordCount
<1>5. FieldCount(Fields(x), o) = OnStack(ns[x], o) + OnStack(vs[x], o) BY <1>3 DEF FieldCount
<1> HIDE DEF ns, vs
<1>6. /\ OnStacks(Obj, ns, o) = OnStacks(Obj \ {x}, ns, o) + OnStack(ns[x], o)
      /\ OnStacks(Obj \ {x}, ns, o) \in Nat /\ OnStack(ns[x], o) \in Nat
  BY <1>2, OnStacksSplit
<1>7. /\ OnStacks(Obj, vs, o) = OnStacks(Obj \ {x}, vs, o) + OnStack(vs[x], o)
      /\ OnStacks(Obj \ {x}, vs, o) \in Nat /\ OnStack(vs[x], o) \in Nat
  BY <1>2, OnStacksSplit
<1> QED BY <1>4, <1>5, <1>6, <1>7

\* A field that is found.
LEMMA FoundFacts ==
  ASSUME RecordInv, NEW v \in Value, Agrees(heap, v), NEW name \in Obj, HasField(v, name)
  PROVE  /\ IsRecord(v) /\ v.data \in Obj
         /\ IndexOf(v, name) \in 1..Len(Fields(v.data)) /\ IndexOf(v, name) - 1 \in Nat
         /\ ValueOf(v, name) = Fields(v.data)[IndexOf(v, name)].val
         /\ ValueOf(v, name) \in Value /\ Agrees(heap, ValueOf(v, name))
         /\ \A o \in Obj : Holds(ValueOf(v, name), o) => RecordCount(heap, o) >= 1
<1>1. IsRecord(v) /\ Named(Fields(v.data), name) # {} BY DEF HasField
<1>2. v.data \in Obj /\ Fields(v.data) \in Seq(Field) BY <1>1, WholeFacts
<1>3. IndexOf(v, name) \in 1..Len(Fields(v.data)) BY <1>1, <1>2, NamedFacts DEF IndexOf
<1>4. IndexOf(v, name) - 1 \in Nat
  <2>1. Len(Fields(v.data)) \in Nat BY <1>2, LenProperties
  <2> QED BY <1>3, <2>1
<1>5. ValueOf(v, name) = Fields(v.data)[IndexOf(v, name)].val BY DEF ValueOf
<1>6. /\ ValueOf(v, name) \in Value /\ Agrees(heap, ValueOf(v, name))
      /\ \A o : Holds(ValueOf(v, name), o) => FieldCount(Fields(v.data), o) >= 1
  BY <1>1, <1>3, <1>5, WholeFacts
<1>7. ASSUME NEW o \in Obj, Holds(ValueOf(v, name), o) PROVE RecordCount(heap, o) >= 1
  <2>1. FieldCount(Fields(v.data), o) >= 1 /\ FieldCount(Fields(v.data), o) \in Nat
    BY <1>2, <1>6, <1>7, FieldCountType
  <2>2. RecordCount(heap, o) >= FieldCount(Fields(v.data), o) BY <1>2, OneRecord
  <2>3. RecordCount(heap, o) \in Nat BY HeldFacts
  <2> QED BY <2>1, <2>2, <2>3
<1> QED BY <1>1, <1>2, <1>3, <1>4, <1>5, <1>6, <1>7

LEMMA GetElementKeeps == ASSUME RecordInv, GetElement, Forget PROVE RecordInv'
<1>1. At("GET_ELEMENT") /\ Operands(2) BY DEF GetElement
<1>2. /\ Get(1) \in Value /\ Agrees(heap, Get(1))
      /\ Get(0) \in Value /\ Agrees(heap, Get(0))
  BY <1>1, GetFacts
<1>3. CASE SliceString BY <1>1, <1>3, SliceStringStep
<1>4. CASE PickFromRange BY <1>1, <1>4, PickFromRangeStep
<1>5. CASE Fail BY <1>1, <1>5, FailStep
<1>6. CASE Selects(Get(1), Get(0)) /\ Combine(ValueOf(Get(1), Get(0).data))
  <2> DEFINE v == ValueOf(Get(1), Get(0).data)
  <2>1. Get(0).data \in Obj /\ HasField(Get(1), Get(0).data)
    BY <1>2, <1>6, TextFacts DEF Selects, IsText
  <2>2. v \in Value /\ Agrees(heap, v) BY <1>2, <2>1, FoundFacts
  <2>3. Combine(v) BY <1>6
  <2> HIDE DEF v
  <2> QED BY <1>1, <2>2, <2>3, CombineStep
<1> QED BY <1>3, <1>4, <1>5, <1>6 DEF GetElement

LEMMA GetFieldKeeps == ASSUME RecordInv, GetField, Forget PROVE RecordInv'
<1>1. At("GET_FIELD") /\ Operands(1) /\ HasConst BY DEF GetField
<1>2. Get(0) \in Value /\ Agrees(heap, Get(0)) BY <1>1, GetFacts
<1>3. Name \in Obj BY <1>1, NameFacts
<1>4. CASE Fail BY <1>1, <1>4, FailStep
<1>5. CASE ~Fail
  <2> DEFINE v == ValueOf(Get(0), Name)
             m1 == Retain(Mem, v)
             m == Release(m1, Get(0))
  <2>1. HasField(Get(0), Name) /\ Becomes(m) /\ Collapse(0, v) /\ Continue /\ heap' = heap
    BY <1>5 DEF GetField
  <2>2. v \in Value /\ Agrees(heap, v) BY <1>2, <1>3, <2>1, FoundFacts
  <2>3. Mem \in MemType /\ AtZero(Mem) /\ Mem.dying = {} /\ Mem.rc = rc
    BY <1>1, AtFacts, HeldFacts
  <2> HIDE DEF v
  <2>4. m1 \in MemType /\ AtZero(m1) /\ \A o \in Obj : m1.rc[o] = rc[o] + Count(v, o)
    BY <2>3, RetainType, RetainAtZero, RetainCount
  <2> HIDE DEF m1
  <2>5. m \in MemType /\ AtZero(m) /\ \A o \in Obj : m.rc[o] = m1.rc[o] - Count(Get(0), o)
    BY <2>4, ReleaseType, ReleaseAtZero, ReleaseCount
  <2> HIDE DEF m
  <2>6. \A o \in Obj : m.rc[o] = rc[o] + Count(v, o) - Occ(stk, (sp - 0)..sp, o)
    <3> TAKE o \in Obj
    <3>1. Occ(stk, (sp - 0)..sp, o) = Count(Get(0), o) BY StateFacts, OccTopOne DEF Get
    <3>2. m1.rc[o] = rc[o] + Count(v, o) /\ m.rc[o] = m1.rc[o] - Count(Get(0), o)
      BY <2>4, <2>5
    <3>3. rc[o] \in Int /\ Count(v, o) \in Int /\ Count(Get(0), o) \in Int
      BY HeldFacts, CountType
    <3> QED BY <3>1, <3>2, <3>3
  <2>7. 0 < sp /\ 0 \in Nat BY <1>1, StateFacts DEF Operands
  <2> QED BY <1>1, <2>1, <2>2, <2>5, <2>6, <2>7, CollapseStep
<1> QED BY <1>4, <1>5

\* What is fetched is a field, whatever its flag.
LEMMA FetchedFacts ==
  ASSUME NEW hp, NEW v \in Value, Agrees(hp, v), NEW whole
  PROVE  /\ Fetched(whole, v) \in Value /\ Agrees(hp, Fetched(whole, v))
         /\ \A o : Holds(Fetched(whole, v), o) <=> Holds(v, o)
<1>1. Fetched(whole, v) = AsShared(v) \/ Fetched(whole, v) = Flagged(v) BY DEF Fetched
<1> QED BY <1>1, SharedFacts

\* An object that a slot and a field hold is not condemned with the slot.
LEMMA HeldTwice ==
  ASSUME RecordInv, NEW o \in Obj, NEW i \in Slot, Holds(stk[i], o), RecordCount(heap, o) >= 1
  PROVE  rc[o] >= 2
<1>1. Occ(stk, Slot, o) >= 1 BY SlotFacts, OccOne
<1>2. ConstCount(status, o) \in Nat
  <2>1. ConstCount(status, o) \in {0, 1} BY HeldFacts
  <2> QED BY <2>1
<1>3. /\ Occ(stk, Slot, o) \in Nat /\ RecordCount(heap, o) \in Nat /\ forgotten[o] \in Nat
      /\ rc[o] = Occ(stk, Slot, o) + RecordCount(heap, o) + ConstCount(status, o) + forgotten[o]
  BY HeldFacts
<1> QED BY <1>1, <1>2, <1>3

LEMMA IndexedStep ==
  ASSUME RecordInv, NEW op, At(op), op # "SET_ELEMENT", op # "NEW_RECORD", Forget,
         Operands(2), Selects(Get(1), Get(0)), NEW v \in Value, Agrees(heap, v),
         \A o : Holds(v, o) => Holds(ValueOf(Get(1), Get(0).data), o),
         Indexed(v)
  PROVE  RecordInv'
<1> DEFINE w == Number(IndexOf(Get(1), Get(0).data) - 1)
           g == [stk EXCEPT ![sp] = w]
           m == Release(Mem, Get(0))
           k == sp
<1>1. /\ Get(1) \in Value /\ Agrees(heap, Get(1))
      /\ Get(0) \in Value /\ Agrees(heap, Get(0)) /\ sp - 0 \in Slot /\ Get(0) = stk[sp - 0]
  BY GetFacts
<1>2. sp - 0 = sp /\ sp >= 1 /\ sp \in Int /\ sp \in 1..sp BY StateFacts DEF Operands
<1>3. Get(0).data \in Obj /\ HasField(Get(1), Get(0).data) BY <1>1, TextFacts DEF Selects, IsText
<1>4. IndexOf(Get(1), Get(0).data) - 1 \in Nat
      /\ \A o \in Obj : Holds(ValueOf(Get(1), Get(0).data), o) => RecordCount(heap, o) >= 1
  BY <1>1, <1>3, FoundFacts
<1>5. w \in Value /\ Agrees(heap, w) /\ ~IsObject(w) BY <1>4, ScalarFacts, AgreesScalar
<1> HIDE DEF w
<1>6. FrameSound(g, sp, heap) BY <1>2, <1>5, StateFacts, FrameSet
<1>7. SlotWritten(stk, g, k, w) /\ stk \in [Slot -> Value] /\ stk[k] = Get(0)
  BY <1>1, <1>2, StateFacts DEF SlotWritten
<1>8. /\ Mem \in MemType /\ Mem.dying = {} /\ AtZero(Mem) /\ Mem.rc = rc BY AtFacts, HeldFacts
<1>9. m \in MemType /\ AtZero(m) /\ \A o \in Obj : m.rc[o] = rc[o] - Count(Get(0), o)
  BY <1>8, ReleaseType, ReleaseAtZero, ReleaseCount
<1>10. \A o \in m.dying : ~Holds(v, o)
  <2> SUFFICES ASSUME NEW o \in m.dying, Holds(v, o) PROVE FALSE OBVIOUS
  <2>1. o \in Obj /\ Holds(Get(0), o) /\ rc[o] = 1 BY <1>8 DEF Release
  <2>2. RecordCount(heap, o) >= 1 BY <1>4, <2>1
  <2>3. Holds(stk[k], o) /\ k \in Slot BY <1>1, <1>2, <2>1
  <2> HIDE DEF k
  <2>4. rc[o] >= 2 BY <2>1, <2>2, <2>3, HeldTwice
  <2> QED BY <2>1, <2>4
<1>11. PushOver(g, m, v) BY DEF Indexed, w
<1> HIDE DEF g, m, k
<1>12. \A o : Occ(g, Slot, o) = Occ(stk, Slot, o) - Count(stk[k], o) + Count(w, o)
  BY <1>7, SlotWrite
<1>13. \A o \in Obj : m.rc[o] = rc[o] + Occ(g, Slot, o) - Occ(stk, Slot, o)
  <2> TAKE o \in Obj
  <2>1. Occ(stk, Slot, o) \in Nat /\ rc[o] \in Int /\ Count(Get(0), o) \in {0, 1}
        /\ Count(w, o) = 0
    BY <1>5, HeldFacts, CountType, CountScalar
  <2>2. Occ(g, Slot, o) = Occ(stk, Slot, o) - Count(Get(0), o) + 0 BY <1>7, <1>12, <2>1
  <2> QED BY <1>9, <2>1, <2>2
<1> QED BY <1>6, <1>9, <1>10, <1>11, <1>13, PushStep

LEMMA LoadElementKeeps == ASSUME RecordInv, LoadElement, Forget PROVE RecordInv'
<1>1. At("LOAD_ELEMENT") /\ Operands(2) BY DEF LoadElement
<1>2. /\ Get(1) \in Value /\ Agrees(heap, Get(1))
      /\ Get(0) \in Value /\ Agrees(heap, Get(0))
  BY <1>1, GetFacts
<1>3. CASE Fail BY <1>1, <1>3, FailStep
<1>4. CASE Selects(Get(1), Get(0)) /\ Indexed(ValueOf(Get(1), Get(0).data))
  <2>1. Get(0).data \in Obj /\ HasField(Get(1), Get(0).data)
    BY <1>2, <1>4, TextFacts DEF Selects, IsText
  <2> DEFINE v == ValueOf(Get(1), Get(0).data)
  <2>2. v \in Value /\ Agrees(heap, v) BY <1>2, <2>1, FoundFacts
  <2> QED BY <1>1, <1>4, <2>2, IndexedStep
<1> QED BY <1>3, <1>4 DEF LoadElement

LEMMA FetchElementKeeps == ASSUME RecordInv, FetchElement, Forget PROVE RecordInv'
<1>1. At("FETCH_ELEMENT") /\ Operands(2) BY DEF FetchElement
<1>2. /\ Get(1) \in Value /\ Agrees(heap, Get(1))
      /\ Get(0) \in Value /\ Agrees(heap, Get(0))
  BY <1>1, GetFacts
<1>3. CASE Fail BY <1>1, <1>3, FailStep
<1>4. CASE /\ Selects(Get(1), Get(0))
           /\ Indexed(Fetched(Get(1), ValueOf(Get(1), Get(0).data)))
  <2>1. Get(0).data \in Obj /\ HasField(Get(1), Get(0).data)
    BY <1>2, <1>4, TextFacts DEF Selects, IsText
  <2> DEFINE w == ValueOf(Get(1), Get(0).data)
             v == Fetched(Get(1), w)
  <2>2. w \in Value /\ Agrees(heap, w) BY <1>2, <2>1, FoundFacts
  <2>3. v \in Value /\ Agrees(heap, v) /\ \A o : Holds(v, o) => Holds(w, o)
    BY <2>2, FetchedFacts
  <2>4. Indexed(v) BY <1>4
  <2>5. \A o : Holds(v, o) => Holds(ValueOf(Get(1), Get(0).data), o) BY <2>3
  <2> HIDE DEF v
  <2> QED BY <1>1, <1>4, <2>3, <2>4, <2>5, IndexedStep
<1> QED BY <1>3, <1>4 DEF FetchElement

LEMMA PushIndexedStep ==
  ASSUME RecordInv, NEW op, At(op), op # "SET_ELEMENT", op # "NEW_RECORD", Forget,
         NEW v \in Value, Agrees(heap, v), IndexOf(Get(0), Name) - 1 \in Nat,
         PushIndexed(v)
  PROVE  RecordInv'
<1> DEFINE w == Number(IndexOf(Get(0), Name) - 1)
           k == sp + 1
           g == [stk EXCEPT ![sp + 1] = w]
<1>1. w \in Value /\ Agrees(heap, w) /\ ~IsObject(w) BY ScalarFacts, AgreesScalar
<1>2. sp \in Int /\ sp \in 0..MaxSlots /\ MaxSlots \in Nat BY StateFacts, SlotFacts
<1>3. CASE Fail BY <1>3, FailStep
<1>4. ASSUME sp < MaxSlots
      PROVE  /\ FrameSound(g, sp + 1, heap) /\ g \in [Slot -> Value]
             /\ \A o : Occ(g, Slot, o) = Occ(stk, Slot, o)
  <2> HIDE DEF w
  <2>1. FrameSound(g, sp + 1, heap) /\ sp + 1 \in Slot /\ stk[sp + 1] = Nil
    BY <1>1, <1>4, StateFacts, FramePush
  <2>2. g \in [Slot -> Value] BY <2>1 DEF FrameSound
  <2>3. SlotWritten(stk, g, k, w) /\ stk \in [Slot -> Value] /\ stk[k] = Nil
    BY <2>1, StateFacts DEF SlotWritten
  <2> HIDE DEF g, k
  <2>4. ASSUME NEW o PROVE Occ(g, Slot, o) = Occ(stk, Slot, o)
    <3>1. Occ(g, Slot, o) = Occ(stk, Slot, o) - Count(stk[k], o) + Count(w, o)
      BY <2>3, SlotWrite
    <3>2. Count(stk[k], o) = 0 /\ Count(w, o) = 0 /\ Occ(stk, Slot, o) \in Nat
      BY <1>1, <2>3, CountNil, CountScalar, SlotFacts
    <3> QED BY <3>1, <3>2
  <2> QED BY <2>1, <2>2, <2>4
<1>5. CASE /\ sp + 1 < MaxSlots
           /\ stk' = [g EXCEPT ![sp + 2] = v]
           /\ sp' = sp + 2
           /\ Becomes(Retain(Mem, v))
           /\ Continue
           /\ UNCHANGED heap
  <2> DEFINE n == sp + 1
             m == Retain(Mem, v)
             h == stk'
             j == n + 1
  <2>1. n + 1 = sp + 2 /\ n < MaxSlots /\ sp < MaxSlots BY <1>2, <1>5
  <2>2. FrameSound(g, n, heap) /\ g \in [Slot -> Value]
        /\ \A o : Occ(g, Slot, o) = Occ(stk, Slot, o)
    BY <1>4, <2>1
  <2>3. h = [g EXCEPT ![n + 1] = v] /\ sp' = n + 1 BY <1>5, <2>1
  <2> HIDE DEF g, n, h
  <2>4. FrameSound(h, n + 1, heap) /\ n + 1 \in Slot /\ g[n + 1] = Nil
    BY <2>1, <2>2, <2>3, FramePush
  <2>5. SlotWritten(g, h, j, v) /\ g[j] = Nil BY <2>3, <2>4 DEF SlotWritten
  <2> HIDE DEF j
  <2>6. \A o : Occ(h, Slot, o) = Occ(g, Slot, o) - Count(g[j], o) + Count(v, o)
    BY <2>2, <2>5, SlotWrite
  <2>7. m \in MemType /\ AtZero(m) /\ \A o \in Obj : m.rc[o] = rc[o] + Count(v, o)
    BY AtFacts, HeldFacts, RetainType, RetainAtZero, RetainCount
  <2>8. Becomes(m) /\ Continue /\ heap' = heap BY <1>5
  <2> HIDE DEF m
  <2>9. \A o \in Obj : m.rc[o] = rc[o] + Occ(h, Slot, o) - Occ(stk, Slot, o)
    <3> TAKE o \in Obj
    <3>1. Occ(stk, Slot, o) \in Nat /\ rc[o] \in Int /\ Count(v, o) \in {0, 1}
          /\ Count(Nil, o) = 0
      BY HeldFacts, CountType, CountNil
    <3>2. Occ(h, Slot, o) = Occ(stk, Slot, o) + Count(v, o) BY <2>2, <2>5, <2>6, <3>1
    <3> QED BY <2>7, <3>1, <3>2
  <2>10. status' = status /\ code' = Tail(code) BY <2>8 DEF Continue
  <2> QED BY <2>3, <2>4, <2>7, <2>8, <2>9, <2>10, AtFacts, QuietOp, FrameStep DEF h
<1>6. CASE /\ sp + 1 = MaxSlots
           /\ stk' = g
           /\ sp' = sp + 1
           /\ Raise
           /\ UNCHANGED <<heap, rc, dying>>
  <2>0. sp < MaxSlots /\ stk' = g /\ sp' = sp + 1 BY <1>2, <1>6
  <2> HIDE DEF g
  <2>1. FrameSound(stk', sp', heap) /\ \A o : Occ(stk', Slot, o) = Occ(stk, Slot, o)
    BY <1>4, <2>0
  <2>2. Becomes(Mem) /\ heap' = heap BY <1>6 DEF Becomes, Mem
  <2>3. Mem \in MemType /\ AtZero(Mem) BY AtFacts, HeldFacts
  <2>4. \A o \in Obj : Mem.rc[o] = rc[o] + Occ(stk', Slot, o) - Occ(stk, Slot, o)
    <3> TAKE o \in Obj
    <3>1. Mem.rc[o] = rc[o] /\ rc[o] \in Int /\ Occ(stk, Slot, o) \in Nat BY HeldFacts
    <3> QED BY <2>1, <3>1
  <2>5. status' = "error" /\ code' = code BY <1>6 DEF Raise
  <2>6. /\ Quiet /\ status' \in {"running", "error", "done", "crashed"}
        /\ status # "ended" /\ code' \in Seq(Instr)
    BY <2>5, AtFacts, QuietFail
  <2> QED BY <2>1, <2>2, <2>3, <2>4, <2>6, FrameStep
<1> QED BY <1>3, <1>5, <1>6 DEF PushIndexed

LEMMA LoadFieldKeeps == ASSUME RecordInv, LoadField, Forget PROVE RecordInv'
<1>1. At("LOAD_FIELD") /\ Operands(1) /\ HasConst BY DEF LoadField
<1>2. Get(0) \in Value /\ Agrees(heap, Get(0)) BY <1>1, GetFacts
<1>3. Name \in Obj BY <1>1, NameFacts
<1>4. CASE Fail BY <1>1, <1>4, FailStep
<1>5. CASE HasField(Get(0), Name) /\ PushIndexed(ValueOf(Get(0), Name))
  <2> DEFINE v == ValueOf(Get(0), Name)
  <2>1. v \in Value /\ Agrees(heap, v) /\ IndexOf(Get(0), Name) - 1 \in Nat
    BY <1>2, <1>3, <1>5, FoundFacts
  <2>2. PushIndexed(v) BY <1>5
  <2> HIDE DEF v
  <2> QED BY <1>1, <2>1, <2>2, PushIndexedStep
<1> QED BY <1>4, <1>5 DEF LoadField

LEMMA FetchFieldKeeps == ASSUME RecordInv, FetchField, Forget PROVE RecordInv'
<1>1. At("FETCH_FIELD") /\ Operands(1) /\ HasConst BY DEF FetchField
<1>2. Get(0) \in Value /\ Agrees(heap, Get(0)) BY <1>1, GetFacts
<1>3. Name \in Obj BY <1>1, NameFacts
<1>4. CASE Fail BY <1>1, <1>4, FailStep
<1>5. CASE /\ HasField(Get(0), Name)
           /\ PushIndexed(Fetched(Get(0), ValueOf(Get(0), Name)))
  <2> DEFINE w == ValueOf(Get(0), Name)
             v == Fetched(Get(0), w)
  <2>1. w \in Value /\ Agrees(heap, w) /\ IndexOf(Get(0), Name) - 1 \in Nat
    BY <1>2, <1>3, <1>5, FoundFacts
  <2>2. PushIndexed(v) BY <1>5
  <2>3. v \in Value /\ Agrees(heap, v) BY <2>1, FetchedFacts
  <2> HIDE DEF v
  <2> QED BY <1>1, <2>1, <2>2, <2>3, PushIndexedStep
<1> QED BY <1>4, <1>5 DEF FetchField

-----------------------------------------------------------------------------
(***************************************************************************)
(* Writing a record, by copy and in place.                                 *)
(***************************************************************************)
\* What a put makes of fields that are legal.
LEMMA WithFacts ==
  ASSUME RecordInv, NEW fs, Legal(heap, fs), NEW name \in Obj, heap[name].class = "string",
         NEW v \in Value, Agrees(heap, v)
  PROVE  /\ Legal(heap, With(fs, name, v))
         /\ Named(fs, name) = {} =>
              \A o : FieldCount(With(fs, name, v), o)
                       = FieldCount(fs, o) + Count(Str(name), o) + Count(v, o)
         /\ Named(fs, name) # {} =>
              \A o : FieldCount(With(fs, name, v), o)
                       = FieldCount(fs, o) - Count(fs[Min(Named(fs, name))].val, o) + Count(v, o)
<1>1. fs \in Seq(Field) BY DEF Legal
<1> DEFINE ft == With(fs, name, v)
           i == Min(Named(fs, name))
<1>2. CASE Named(fs, name) = {}
  <2>1. \A k \in 1..Len(fs) : Text(fs[k].name) # Text(name) BY <1>1, <1>2, NamedFacts
  <2>2. NewName(heap, fs, name) BY <2>1 DEF Text, NewName
  <2>3. FieldAdded(fs, name, v, ft) BY <1>2 DEF With, FieldAdded
  <2> HIDE DEF ft
  <2>4. /\ Legal(heap, ft)
        /\ \A o : FieldCount(ft, o) = FieldCount(fs, o) + Count(Str(name), o) + Count(v, o)
    BY <2>2, <2>3, AddFacts
  <2> QED BY <1>2, <2>4 DEF ft
<1>3. CASE Named(fs, name) # {}
  <2>1. i \in 1..Len(fs) BY <1>1, <1>3, NamedFacts
  <2>2. FieldSet(fs, i, v, ft) BY <1>3, <2>1 DEF With, FieldSet
  <2> HIDE DEF ft, i
  <2>3. /\ Legal(heap, ft)
        /\ \A o : FieldCount(ft, o) = FieldCount(fs, o) - Count(fs[i].val, o) + Count(v, o)
    BY <2>1, <2>2, SetFacts
  <2> QED BY <1>3, <2>3 DEF ft, i
<1> QED BY <1>2, <1>3

\* The operands from the record up: two of them, or three with a key or an
\* index in the middle, which is dropped as it is.
Middle(n, o) == IF n = 2 THEN Count(Get(1), o) ELSE 0

LEMMA OperandCount ==
  ASSUME RecordInv, NEW n, n \in {1, 2}, Operands(n + 1), NEW o
  PROVE  Occ(stk, (sp - n)..sp, o) = Count(Get(n), o) + Middle(n, o) + Count(Get(0), o)
<1>1. CASE n = 1
  <2>1. Occ(stk, (sp - 1)..sp, o) = Count(Get(1), o) + Count(Get(0), o)
    BY StateFacts, OccTopTwo DEF Get
  <2> QED BY <1>1, <2>1, CountType DEF Middle
<1>2. CASE n = 2
  <2>1. Occ(stk, (sp - 2)..sp, o) = Count(Get(2), o) + Count(Get(1), o) + Count(Get(0), o)
    BY StateFacts, OccTopThree DEF Get
  <2> QED BY <1>2, <2>1, CountType DEF Middle
<1> QED BY <1>1, <1>2

\* What a slot holds is not free memory.
LEMMA MiddleUsed ==
  ASSUME RecordInv, NEW n, n \in {1, 2}, Operands(n + 1), NEW o \in Obj, heap[o].class = "free"
  PROVE  Middle(n, o) = 0
<1>1. CASE n = 1 BY <1>1 DEF Middle
<1>2. CASE n = 2
  <2>1. Get(1) \in Value /\ Agrees(heap, Get(1)) BY <1>2, GetFacts
  <2>2. ~Holds(Get(1), o)
    <3> SUFFICES ASSUME Holds(Get(1), o) PROVE FALSE OBVIOUS
    <3>1. heap[o].class = Get(1).type /\ Get(1).type \in ObjectType
      BY <2>1 DEF Holds, Agrees, IsObject
    <3> QED BY <3>1 DEF ObjectType
  <2> QED BY <1>2, <2>2 DEF Middle, Count
<1> QED BY <1>1, <1>2

LEMMA WriteCopyStep ==
  ASSUME RecordInv, NEW op, At(op), Forget,
         NEW n, n \in {1, 2}, Operands(n + 1),
         NEW fs, Legal(heap, fs), WriteCopy(n, fs),
         Done(op) => \A o \in Obj : Forgotten(o) = Middle(n, o)
  PROVE  RecordInv'
<1>1. CASE Fail BY <1>1, FailStep
<1>2. CASE ~Fail
  <2>1. PICK x \in Free :
          /\ heap' = [heap EXCEPT ![x] = RecordBody(fs)]
          /\ Becomes(Release(Release(Retain(RetainParts(Mem, fs), Record(x)), Get(n)), Get(0)))
          /\ Collapse(n, Record(x))
          /\ Continue
    BY <1>2 DEF WriteCopy
  <2> DEFINE v == Record(x)
             b == RecordBody(fs)
             m0 == RetainParts(Mem, fs)
             m1 == Retain(m0, v)
             m2 == Release(m1, Get(n))
             m == Release(m2, Get(0))
  <2>2. fs \in Seq(Field) BY DEF Legal
  <2>3. b \in Body /\ b.class = "record" /\ FieldsIn(b) = fs BY <2>2, NewBodyFacts
  <2>4. x \in Obj /\ v \in Value /\ v.type = "record" /\ v.data = x
    BY StrFacts DEF Free, Record
  <2>5. /\ HeapWritten(heap, heap', x, b) /\ Agrees(heap', v)
        /\ \A o : FieldCount(Fields(x), o) = 0
    <3> DEFINE hq == heap'
    <3>1. Allocated(heap, hq, x, b) BY <2>1 DEF Allocated
    <3> HIDE DEF hq, b, v
    <3>2. Legal(heap, FieldsIn(b)) BY <2>3
    <3>3. /\ HeapWritten(heap, hq, x, b) /\ Agrees(hq, v)
          /\ \A o : FieldCount(Fields(x), o) = 0
      BY <2>3, <2>4, <3>1, <3>2, AllocFacts
    <3> QED BY <3>3 DEF hq
  <2>6. Mem \in MemType /\ AtZero(Mem) /\ Mem.dying = {} /\ Mem.rc = rc BY AtFacts, HeldFacts
  <2>7. m0 \in MemType /\ m0.dying = {} /\ \A o \in Obj : m0.rc[o] = rc[o] + FieldCount(fs, o)
    BY <2>2, <2>6, PartsCount
  <2>8. AtZero(m0) BY <2>7 DEF AtZero
  <2>9. Becomes(m) /\ Collapse(n, v) /\ Continue BY <2>1
  <2> HIDE DEF m0, v, b
  <2>10. m1 \in MemType /\ AtZero(m1) /\ \A o \in Obj : m1.rc[o] = m0.rc[o] + Count(v, o)
    BY <2>7, <2>8, RetainType, RetainAtZero, RetainCount
  <2> HIDE DEF m1
  <2>11. m2 \in MemType /\ AtZero(m2) /\ \A o \in Obj : m2.rc[o] = m1.rc[o] - Count(Get(n), o)
    BY <2>10, ReleaseType, ReleaseAtZero, ReleaseCount
  <2> HIDE DEF m2
  <2>12. m \in MemType /\ AtZero(m) /\ \A o \in Obj : m.rc[o] = m2.rc[o] - Count(Get(0), o)
    BY <2>11, ReleaseType, ReleaseAtZero, ReleaseCount
  <2> HIDE DEF m
  <2>13. Done(op) BY <2>9 DEF Done, Continue
  <2>14. \A o \in Obj : Forgotten(o) = Middle(n, o) /\ Forgotten(o) \in {0, 1}
    BY <2>13, CountType DEF Middle
  <2>15. ASSUME NEW o \in Obj
         PROVE  m.rc[o] = rc[o] + Count(v, o) - Occ(stk, (sp - n)..sp, o)
                            + FieldCount(FieldsIn(b), o) - FieldCount(Fields(x), o)
                            + Forgotten(o)
    <3> DEFINE c == Count(v, o)
               d == Count(Get(n), o)
               e == Middle(n, o)
               g == Count(Get(0), o)
               f == FieldCount(fs, o)
    <3>1. Occ(stk, (sp - n)..sp, o) = d + e + g BY OperandCount
    <3>2. FieldCount(FieldsIn(b), o) = f /\ FieldCount(Fields(x), o) = 0 /\ Forgotten(o) = e
      BY <2>3, <2>5, <2>14
    <3>3. rc[o] \in Int /\ f \in Nat BY <2>2, HeldFacts, FieldCountType
    <3>4. c \in Int /\ d \in Int /\ g \in Int /\ e \in Int BY CountType DEF Middle
    <3>5. m0.rc[o] = rc[o] + f BY <2>7
    <3>6. m1.rc[o] = m0.rc[o] + c /\ m2.rc[o] = m1.rc[o] - d /\ m.rc[o] = m2.rc[o] - g
      BY <2>10, <2>11, <2>12
    <3> HIDE DEF c, d, e, g, f
    <3>7. m.rc[o] = rc[o] + c - (d + e + g) + f - 0 + e BY <3>3, <3>4, <3>5, <3>6
    <3> QED BY <3>1, <3>2, <3>7 DEF c
  <2>16. \A o \in Obj : Forgotten(o) \in Nat BY <2>14
  <2>17. \A o \in Obj : heap[o].class = "free" => Forgotten(o) = 0 BY <2>14, MiddleUsed
  <2>18. n \in Nat /\ n < sp BY StateFacts DEF Operands
  <2> QED BY <2>4, <2>5, <2>9, <2>12, <2>15, <2>16, <2>17, <2>18, CollapseHeapStep
<1> QED BY <1>1, <1>2

LEMMA WriteInPlaceStep ==
  ASSUME RecordInv, NEW op, At(op), Forget,
         NEW n, n \in {1, 2}, Operands(n + 1), IsRecord(Get(n)),
         NEW fs, Legal(heap, fs), NEW k, k \in MemType, AtZero(k),
         \A o \in Obj : k.rc[o] = rc[o] + FieldCount(fs, o) - FieldCount(Fields(Get(n).data), o),
         WriteInPlace(n, fs, k),
         Done(op) => \A o \in Obj : Forgotten(o) = Middle(n, o)
  PROVE  RecordInv'
<1> DEFINE v == Get(n)
           x == v.data
           b == RecordBody(fs)
           m == Release(k, Get(0))
<1>1. /\ heap' = [heap EXCEPT ![x] = b] /\ Becomes(m) /\ Collapse(n, v) /\ Continue
  BY DEF WriteInPlace
<1>2. v \in Value /\ Agrees(heap, v) BY GetFacts
<1>3. x \in Obj /\ heap[x].class = "record" BY <1>2, WholeFacts
<1>4. fs \in Seq(Field) BY DEF Legal
<1>5. b \in Body /\ b.class = "record" /\ FieldsIn(b) = fs BY <1>4, NewBodyFacts
<1>6. /\ HeapWritten(heap, heap', x, b) /\ Agrees(heap', v)
  <2> DEFINE hq == heap'
  <2>1. Rewritten(heap, hq, x, b) BY <1>1, <1>3 DEF Rewritten
  <2> HIDE DEF hq, b, v, x
  <2>2. HeapWritten(heap, hq, x, b) BY <1>3, <1>5, <2>1 DEF HeapWritten
  <2>3. Agrees(hq, v) BY <1>2, <2>2, StateFacts, HeapWriteFacts, AgreesKept
  <2> QED BY <2>2, <2>3 DEF hq
<1>7. m \in MemType /\ AtZero(m) /\ \A o \in Obj : m.rc[o] = k.rc[o] - Count(Get(0), o)
  BY ReleaseType, ReleaseAtZero, ReleaseCount
<1>8. \A o \in Obj : k.rc[o] = rc[o] + FieldCount(fs, o) - FieldCount(Fields(x), o) OBVIOUS
<1>9. Done(op) BY <1>1 DEF Done, Continue
<1>10. \A o \in Obj : Forgotten(o) = Middle(n, o) /\ Forgotten(o) \in {0, 1}
  BY <1>9, CountType DEF Middle
<1>11. Fields(x) \in Seq(Field) BY <1>3, StateFacts
<1> HIDE DEF m, b, x
<1>12. ASSUME NEW o \in Obj
       PROVE  m.rc[o] = rc[o] + Count(v, o) - Occ(stk, (sp - n)..sp, o)
                          + FieldCount(FieldsIn(b), o) - FieldCount(Fields(x), o)
                          + Forgotten(o)
  <2> DEFINE d == Count(v, o)
             e == Middle(n, o)
             g == Count(Get(0), o)
             f == FieldCount(fs, o)
             a == FieldCount(Fields(x), o)
  <2>1. Occ(stk, (sp - n)..sp, o) = d + e + g BY OperandCount
  <2>2. FieldCount(FieldsIn(b), o) = f /\ Forgotten(o) = e BY <1>5, <1>10
  <2>3. rc[o] \in Int /\ f \in Nat /\ a \in Nat BY <1>4, <1>11, HeldFacts, FieldCountType
  <2>4. d \in Int /\ g \in Int /\ e \in Int BY CountType DEF Middle
  <2>5. k.rc[o] = rc[o] + f - a /\ m.rc[o] = k.rc[o] - g BY <1>7, <1>8
  <2> HIDE DEF d, e, g, f, a
  <2>6. m.rc[o] = rc[o] + d - (d + e + g) + f - a + e BY <2>3, <2>4, <2>5
  <2> QED BY <2>1, <2>2, <2>6 DEF d, a
<1>13. \A o \in Obj : Forgotten(o) \in Nat BY <1>10
<1>14. \A o \in Obj : heap[o].class = "free" => Forgotten(o) = 0 BY <1>10, MiddleUsed
<1>15. n \in Nat /\ n < sp BY StateFacts DEF Operands
<1>16. Becomes(m) /\ Collapse(n, v) /\ Continue BY <1>1
<1> HIDE DEF v
<1> QED BY <1>2, <1>6, <1>7, <1>12, <1>13, <1>14, <1>15, <1>16, CollapseHeapStep

\* The counts when a field is added, and when one is overwritten.
LEMMA AddedFacts ==
  ASSUME RecordInv, dying = {}, NEW name, NEW v
  PROVE  /\ Added(name, v) \in MemType /\ AtZero(Added(name, v))
         /\ \A o \in Obj : Added(name, v).rc[o] = rc[o] + Count(Str(name), o) + Count(v, o)
<1> DEFINE m1 == Retain(Mem, Str(name))
           m == Retain(m1, v)
<1>1. Mem \in MemType /\ AtZero(Mem) /\ Mem.dying = {} /\ Mem.rc = rc
  BY HeldFacts DEF AtZero
<1>2. m1 \in MemType /\ m1.dying = {} /\ AtZero(m1)
      /\ \A o \in Obj : m1.rc[o] = rc[o] + Count(Str(name), o)
  BY <1>1, RetainType, RetainAtZero, RetainCount, RetainsSpare
<1>3. Added(name, v) = m BY DEF Added
<1> HIDE DEF m1
<1>4. m \in MemType /\ AtZero(m) /\ \A o \in Obj : m.rc[o] = m1.rc[o] + Count(v, o)
  BY <1>2, RetainType, RetainAtZero, RetainCount
<1> HIDE DEF m
<1> QED BY <1>2, <1>3, <1>4

LEMMA OverwrittenFacts ==
  ASSUME RecordInv, dying = {}, NEW old, NEW v
  PROVE  /\ Overwritten(old, v) \in MemType /\ AtZero(Overwritten(old, v))
         /\ \A o \in Obj : Overwritten(old, v).rc[o] = rc[o] + Count(v, o) - Count(old, o)
<1> DEFINE m1 == Retain(Mem, v)
           m == Release(m1, old)
<1>1. Mem \in MemType /\ AtZero(Mem) /\ Mem.dying = {} /\ Mem.rc = rc
  BY HeldFacts DEF AtZero
<1>2. m1 \in MemType /\ AtZero(m1) /\ \A o \in Obj : m1.rc[o] = rc[o] + Count(v, o)
  BY <1>1, RetainType, RetainAtZero, RetainCount
<1>3. Overwritten(old, v) = m BY DEF Overwritten
<1> HIDE DEF m1
<1>4. m \in MemType /\ AtZero(m) /\ \A o \in Obj : m.rc[o] = m1.rc[o] - Count(old, o)
  BY <1>2, ReleaseType, ReleaseAtZero, ReleaseCount
<1> HIDE DEF m
<1>5. \A o \in Obj : rc[o] \in Int /\ Count(v, o) \in Int /\ Count(old, o) \in Int
  BY HeldFacts, CountType
<1> QED BY <1>2, <1>3, <1>4, <1>5

LEMMA PutStep ==
  ASSUME RecordInv, NEW op, At(op), Forget, NEW n, n \in {1, 2}, Operands(n + 1),
         NEW name \in Obj, heap[name].class = "string", Put(n, name),
         Done(op) => \A o \in Obj : Forgotten(o) = Middle(n, o)
  PROVE  RecordInv'
<1> DEFINE fs == Fields(Get(n).data)
           v == Get(0)
           ft == With(fs, name, v)
           old == ValueOf(Get(n), name)
<1>1. /\ Get(n) \in Value /\ Agrees(heap, Get(n)) /\ v \in Value /\ Agrees(heap, v)
  BY GetFacts
<1>2. IsRecord(Get(n)) BY DEF Put
<1>3. Legal(heap, fs) /\ fs \in Seq(Field) BY <1>1, <1>2, WholeFacts
<1>4. HasField(Get(n), name) <=> Named(fs, name) # {} BY <1>2 DEF HasField
<1>5. HasField(Get(n), name) => old = fs[Min(Named(fs, name))].val BY DEF ValueOf, IndexOf
<1>6. \/ Fail
      \/ WriteCopy(n, ft)
      \/ ~HasField(Get(n), name) /\ WriteInPlace(n, ft, Added(name, v))
      \/ HasField(Get(n), name) /\ WriteInPlace(n, ft, Overwritten(old, v))
  BY DEF Put
<1> HIDE DEF v, old, fs
<1>7. /\ Legal(heap, ft)
      /\ Named(fs, name) = {} =>
           \A o : FieldCount(ft, o) = FieldCount(fs, o) + Count(Str(name), o) + Count(v, o)
      /\ Named(fs, name) # {} =>
           \A o : FieldCount(ft, o)
                    = FieldCount(fs, o) - Count(fs[Min(Named(fs, name))].val, o) + Count(v, o)
  BY <1>1, <1>3, WithFacts
<1>8. dying = {} BY AtFacts
<1>9. \A o \in Obj : rc[o] \in Int /\ FieldCount(fs, o) \in Nat
  BY <1>3, HeldFacts, FieldCountType
<1> HIDE DEF ft
<1>10. CASE Fail BY <1>10, FailStep
<1>11. CASE WriteCopy(n, ft) BY <1>7, <1>11, WriteCopyStep
<1>12. CASE ~HasField(Get(n), name) /\ WriteInPlace(n, ft, Added(name, v))
  <2> DEFINE k == Added(name, v)
  <2>1. k \in MemType /\ AtZero(k)
        /\ \A o \in Obj : k.rc[o] = rc[o] + Count(Str(name), o) + Count(v, o)
    BY <1>8, AddedFacts
  <2>2. WriteInPlace(n, ft, k) BY <1>12
  <2> HIDE DEF k
  <2>3. ASSUME NEW o \in Obj PROVE k.rc[o] = rc[o] + FieldCount(ft, o) - FieldCount(fs, o)
    <3>1. FieldCount(ft, o) = FieldCount(fs, o) + Count(Str(name), o) + Count(v, o)
      BY <1>4, <1>7, <1>12
    <3>2. Count(Str(name), o) \in Int /\ Count(v, o) \in Int BY CountType
    <3> QED BY <1>9, <2>1, <3>1, <3>2
  <2> QED BY <1>2, <1>7, <2>1, <2>2, <2>3, WriteInPlaceStep DEF fs
<1>13. CASE HasField(Get(n), name) /\ WriteInPlace(n, ft, Overwritten(old, v))
  <2> DEFINE k == Overwritten(old, v)
  <2>1. k \in MemType /\ AtZero(k)
        /\ \A o \in Obj : k.rc[o] = rc[o] + Count(v, o) - Count(old, o)
    BY <1>8, OverwrittenFacts
  <2>2. WriteInPlace(n, ft, k) BY <1>13
  <2> HIDE DEF k
  <2>3. ASSUME NEW o \in Obj PROVE k.rc[o] = rc[o] + FieldCount(ft, o) - FieldCount(fs, o)
    <3>1. FieldCount(ft, o) = FieldCount(fs, o) - Count(old, o) + Count(v, o)
      BY <1>4, <1>5, <1>7, <1>13
    <3>2. Count(old, o) \in Int /\ Count(v, o) \in Int BY CountType
    <3> QED BY <1>9, <2>1, <3>1, <3>2
  <2> QED BY <1>2, <1>7, <2>1, <2>2, <2>3, WriteInPlaceStep DEF fs
<1> QED BY <1>6, <1>10, <1>11, <1>12, <1>13

LEMMA SetStep ==
  ASSUME RecordInv, NEW op, At(op), op # "SET_ELEMENT", op # "NEW_RECORD", Forget,
         Operands(3), Set(2)
  PROVE  RecordInv'
<1> DEFINE fs == Fields(Get(2).data)
           i == Get(1).data + 1
           v == Get(0)
           ft == [fs EXCEPT ![i].val = v]
           old == fs[i].val
<1>1. /\ Get(2) \in Value /\ Agrees(heap, Get(2)) /\ v \in Value /\ Agrees(heap, v)
  BY GetFacts
<1>2. IsRecord(Get(2)) /\ Get(1).type = "number" /\ i \in 1..Len(fs) BY DEF Set
<1>3. Legal(heap, fs) /\ fs \in Seq(Field) BY <1>1, <1>2, WholeFacts
<1>4. WriteCopy(2, ft) \/ WriteInPlace(2, ft, Overwritten(old, v)) BY DEF Set
<1>5. FieldSet(fs, i, v, ft) BY <1>2 DEF FieldSet
<1> HIDE DEF v, old, fs, ft, i
<1>6. /\ Legal(heap, ft)
      /\ \A o : FieldCount(ft, o) = FieldCount(fs, o) - Count(fs[i].val, o) + Count(v, o)
  BY <1>1, <1>3, <1>5, SetFacts
<1>7. \A o \in Obj : rc[o] \in Int /\ FieldCount(fs, o) \in Nat
  BY <1>3, HeldFacts, FieldCountType
<1>8. \A o \in Obj : Forgotten(o) = Middle(2, o)
  <2>1. \A o : Count(Get(1), o) = 0 BY <1>2, CountScalar DEF IsObject, ObjectType
  <2> QED BY <2>1, QuietOp DEF Quiet, Middle
<1>9. 2 \in {1, 2} /\ Operands(2 + 1) OBVIOUS
<1> DEFINE n == 2
<1>10. CASE WriteCopy(2, ft)
  <2>1. WriteCopy(n, ft) /\ n \in {1, 2} /\ Operands(n + 1)
        /\ \A o \in Obj : Forgotten(o) = Middle(n, o)
    BY <1>8, <1>9, <1>10
  <2> HIDE DEF n
  <2> QED BY <1>6, <2>1, WriteCopyStep
<1>11. CASE WriteInPlace(2, ft, Overwritten(old, v))
  <2> DEFINE k == Overwritten(old, v)
  <2>1. k \in MemType /\ AtZero(k)
        /\ \A o \in Obj : k.rc[o] = rc[o] + Count(v, o) - Count(old, o)
    BY AtFacts, OverwrittenFacts
  <2>2. WriteInPlace(n, ft, k) /\ n \in {1, 2} /\ Operands(n + 1)
        /\ \A o \in Obj : Forgotten(o) = Middle(n, o)
    BY <1>8, <1>9, <1>11
  <2>3. IsRecord(Get(n)) /\ fs = Fields(Get(n).data) BY <1>2 DEF fs
  <2> HIDE DEF k, n
  <2>4. ASSUME NEW o \in Obj
        PROVE k.rc[o] = rc[o] + FieldCount(ft, o) - FieldCount(Fields(Get(n).data), o)
    <3>1. FieldCount(ft, o) = FieldCount(fs, o) - Count(old, o) + Count(v, o)
      BY <1>6 DEF old
    <3>2. Count(old, o) \in Int /\ Count(v, o) \in Int BY CountType
    <3> QED BY <1>7, <2>1, <2>3, <3>1, <3>2
  <2> QED BY <1>6, <2>1, <2>2, <2>3, <2>4, WriteInPlaceStep
<1> QED BY <1>4, <1>10, <1>11

LEMMA UpdateElementKeeps == ASSUME RecordInv, UpdateElement, Forget PROVE RecordInv'
<1>1. At("UPDATE_ELEMENT") /\ Operands(3) /\ Set(2) BY DEF UpdateElement
<1> QED BY <1>1, SetStep

LEMMA UpdateFieldKeeps == ASSUME RecordInv, UpdateField, Forget PROVE RecordInv'
<1>1. At("UPDATE_FIELD") /\ Operands(3) /\ Set(2) BY DEF UpdateField
<1> QED BY <1>1, SetStep

LEMMA PutFieldKeeps == ASSUME RecordInv, PutField, Forget PROVE RecordInv'
<1>1. At("PUT_FIELD") /\ Operands(2) /\ HasConst BY DEF PutField
<1>2. CASE Fail BY <1>1, <1>2, FailStep
<1>3. CASE Put(1, Name)
  <2> DEFINE n == 1
             name == Name
  <2>1. n \in {1, 2} /\ Operands(n + 1) /\ Put(n, name) BY <1>1, <1>3
  <2>2. name \in Obj /\ heap[name].class = "string" BY <1>1, NameFacts
  <2>3. \A o \in Obj : Forgotten(o) = Middle(n, o) BY <1>1, QuietOp DEF Quiet, Middle
  <2> HIDE DEF n, name
  <2> QED BY <1>1, <2>1, <2>2, <2>3, PutStep
<1> QED BY <1>2, <1>3 DEF PutField

LEMMA SetElementKeeps == ASSUME RecordInv, SetElement, Forget PROVE RecordInv'
<1>1. At("SET_ELEMENT") /\ Operands(3) BY DEF SetElement
<1>2. CASE Fail BY <1>1, <1>2, FailStep
<1>3. CASE IsText(Get(1)) /\ Put(2, Get(1).data)
  <2> DEFINE n == 2
             name == Get(1).data
  <2>1. n \in {1, 2} /\ Operands(n + 1) /\ Put(n, name) BY <1>1, <1>3
  <2>2. Get(1) \in Value /\ Agrees(heap, Get(1)) BY <1>1, GetFacts
  <2>3. name \in Obj /\ heap[name].class = "string" BY <1>3, <2>2, TextFacts DEF IsText
  <2>4. ASSUME Done("SET_ELEMENT"), NEW o \in Obj PROVE Forgotten(o) = Middle(n, o)
    <3> DEFINE S == {v \in {Get(1)} : Holds(v, o)}
    <3>1. Forgotten(o) = Cardinality(S) BY <2>4 DEF Forgotten
    <3>2. S = IF Holds(Get(1), o) THEN {Get(1)} ELSE {} OBVIOUS
    <3>3. Cardinality({Get(1)}) = 1 /\ Cardinality({}) = 0 BY FS_Singleton, FS_EmptySet
    <3>4. Cardinality(S) = Count(Get(1), o) BY <3>2, <3>3 DEF Count
    <3> QED BY <3>1, <3>4 DEF Middle
  <2> HIDE DEF n, name
  <2> QED BY <1>1, <2>1, <2>3, <2>4, PutStep
<1> QED BY <1>2, <1>3 DEF SetElement

-----------------------------------------------------------------------------
(***************************************************************************)
(* New records without fields, and the run of the script.                  *)
(***************************************************************************)
LEMMA NewEmptyRecordKeeps == ASSUME RecordInv, NewEmptyRecord, Forget PROVE RecordInv'
<1>1. At("NEW_RECORD") /\ A = 0 BY DEF NewEmptyRecord
<1>2. Quiet BY <1>1 DEF Quiet, Forgotten, Done, At
<1>3. \A o \in Obj : Forgotten(o) \in Nat /\ Forgotten(o) = 0 BY <1>2 DEF Quiet
<1>4. /\ status = "running" /\ code \in Seq(Instr) /\ Tail(code) \in Seq(Instr)
      /\ Mem \in MemType /\ AtZero(Mem) /\ Mem.dying = {} /\ Mem.rc = rc
  BY <1>1, AtFacts, HeldFacts
<1> DEFINE b == RecordBody(<<>>)
<1>5. b \in Body /\ b.class = "record" /\ FieldsIn(b) = <<>> BY NoFields, NewBodyFacts
<1>6. Legal(heap, FieldsIn(b)) BY <1>5, NoFieldsLegal
<1> HIDE DEF b
<1>7. ASSUME NEW x \in Free, heap' = [heap EXCEPT ![x] = b]
      PROVE  /\ HeapWritten(heap, heap', x, b) /\ x \in Obj
             /\ Keeps(heap, heap') /\ Record(x) \in Value /\ Agrees(heap', Record(x))
             /\ \A o : FieldCount(Fields(x), o) = 0 /\ FieldCount(FieldsIn(b), o) = 0
  <2> DEFINE hq == heap'
             v == Record(x)
  <2>1. Allocated(heap, hq, x, b) BY <1>7 DEF Allocated
  <2>2. x \in Obj /\ v \in Value /\ v.type = "record" /\ v.data = x
    BY StrFacts DEF Free, Record
  <2> HIDE DEF hq, v
  <2>3. /\ HeapWritten(heap, hq, x, b) /\ Agrees(hq, v)
        /\ \A o : FieldCount(Fields(x), o) = 0
    BY <1>5, <1>6, <2>1, <2>2, AllocFacts
  <2>4. Keeps(heap, hq) BY <2>3, StateFacts, HeapWriteFacts
  <2> QED BY <1>5, <2>2, <2>3, <2>4, NoFields DEF hq, v
<1>8. CASE Fail BY <1>1, <1>8, FailStep
<1>9. CASE /\ sp < MaxSlots
           /\ \E x \in Free :
                /\ heap' = [heap EXCEPT ![x] = b]
                /\ stk' = [stk EXCEPT ![sp + 1] = Record(x)]
                /\ Becomes(Retain(Mem, Record(x)))
           /\ sp' = sp + 1
           /\ Continue
  <2>1. PICK x \in Free :
          /\ heap' = [heap EXCEPT ![x] = b]
          /\ stk' = [stk EXCEPT ![sp + 1] = Record(x)]
          /\ Becomes(Retain(Mem, Record(x)))
    BY <1>9
  <2> DEFINE v == Record(x)
             m == Retain(Mem, v)
             g == stk'
             hq == heap'
             k == sp + 1
  <2>2. /\ HeapWritten(heap, hq, x, b) /\ x \in Obj
        /\ Keeps(heap, hq) /\ v \in Value /\ Agrees(hq, v)
        /\ \A o : FieldCount(Fields(x), o) = 0 /\ FieldCount(FieldsIn(b), o) = 0
    BY <1>7, <2>1
  <2>3. g = [stk EXCEPT ![sp + 1] = v] /\ Becomes(m) /\ sp < MaxSlots BY <1>9, <2>1
  <2> HIDE DEF v, g, hq
  <2>4. FrameSound(stk, sp, hq) BY <2>2, StateFacts, FrameKept
  <2>5. FrameSound(g, sp + 1, hq) /\ sp + 1 \in Slot /\ stk[sp + 1] = Nil
    BY <2>2, <2>3, <2>4, FramePush
  <2>6. SlotWritten(stk, g, k, v) /\ stk \in [Slot -> Value] /\ stk[k] = Nil
    BY <2>3, <2>5, StateFacts DEF SlotWritten
  <2> HIDE DEF k
  <2>7. \A o : Occ(g, Slot, o) = Occ(stk, Slot, o) - Count(stk[k], o) + Count(v, o)
    BY <2>6, SlotWrite
  <2>8. m \in MemType /\ AtZero(m) /\ \A o \in Obj : m.rc[o] = rc[o] + Count(v, o)
    BY <1>4, RetainType, RetainAtZero, RetainCount
  <2> HIDE DEF m
  <2>9. \A o \in Obj : m.rc[o] = rc[o] + Occ(g, Slot, o) - Occ(stk, Slot, o)
                         + FieldCount(FieldsIn(b), o) - FieldCount(Fields(x), o)
                         + Forgotten(o)
    <3> TAKE o \in Obj
    <3>1. Occ(stk, Slot, o) \in Nat /\ rc[o] \in Int /\ Count(v, o) \in Int
          /\ Count(stk[k], o) = 0
      BY <2>6, HeldFacts, CountType, CountNil
    <3>2. Occ(g, Slot, o) = Occ(stk, Slot, o) - 0 + Count(v, o) BY <2>7, <3>1
    <3>3. FieldCount(FieldsIn(b), o) = 0 /\ FieldCount(Fields(x), o) = 0 /\ Forgotten(o) = 0
      BY <1>3, <2>2
    <3>4. m.rc[o] = rc[o] + Count(v, o) BY <2>8
    <3> QED BY <3>1, <3>2, <3>3, <3>4
  <2>10. status' = status /\ code' = Tail(code) BY <1>9 DEF Continue
  <2>11. FrameSound(stk', sp', heap') BY <1>9, <2>5 DEF g, hq
  <2>12. HeapWritten(heap, heap', x, b) BY <2>2 DEF hq
  <2>13. \A o \in Obj : m.rc[o] = rc[o] + Occ(stk', Slot, o) - Occ(stk, Slot, o)
                         + FieldCount(FieldsIn(b), o) - FieldCount(Fields(x), o)
                         + Forgotten(o)
    BY <2>9 DEF g
  <2>14. status' \in {"running", "error", "done", "crashed"} /\ status # "ended"
         /\ code' \in Seq(Instr) /\ Becomes(m)
    BY <1>4, <2>3, <2>10
  <2> QED BY <1>3, <2>8, <2>11, <2>12, <2>13, <2>14, HeapStep
<1>10. CASE /\ \E x \in Free : heap' = [heap EXCEPT ![x] = b]
            /\ Raise
            /\ UNCHANGED <<stk, sp, rc, dying>>
  <2>1. PICK x \in Free : heap' = [heap EXCEPT ![x] = b] BY <1>10
  <2>2. /\ HeapWritten(heap, heap', x, b) /\ Keeps(heap, heap')
        /\ \A o : FieldCount(Fields(x), o) = 0 /\ FieldCount(FieldsIn(b), o) = 0
    BY <1>7, <2>1
  <2>3. FrameSound(stk', sp', heap')
    <3> DEFINE hq == heap'
    <3>1. Keeps(heap, hq) BY <2>2
    <3> HIDE DEF hq
    <3>2. FrameSound(stk, sp, hq) BY <3>1, StateFacts, FrameKept
    <3> QED BY <1>10, <3>2 DEF hq
  <2>4. Becomes(Mem) BY <1>10 DEF Becomes, Mem
  <2>5. \A o \in Obj : Mem.rc[o] = rc[o] + Occ(stk', Slot, o) - Occ(stk, Slot, o)
                         + FieldCount(FieldsIn(b), o) - FieldCount(Fields(x), o)
                         + Forgotten(o)
    <3> TAKE o \in Obj
    <3>1. Occ(stk, Slot, o) \in Nat /\ rc[o] \in Int /\ Mem.rc[o] = rc[o] BY HeldFacts
    <3>2. stk' = stk /\ FieldCount(FieldsIn(b), o) = 0 /\ FieldCount(Fields(x), o) = 0
          /\ Forgotten(o) = 0
      BY <1>3, <1>10, <2>2
    <3> QED BY <3>1, <3>2
  <2>6. status' = "error" /\ code' = code BY <1>10 DEF Raise
  <2>7. status' \in {"running", "error", "done", "crashed"} /\ status # "ended"
         /\ code' \in Seq(Instr)
    BY <1>4, <2>6
  <2> QED BY <1>3, <1>4, <2>2, <2>3, <2>4, <2>5, <2>7, HeapStep
<1>11. CASE status' = "crashed" /\ UNCHANGED <<stk, sp, heap, rc, dying, code>>
  <2>1. Becomes(Mem) BY <1>11 DEF Becomes, Mem
  <2>2. FrameSound(stk', sp', heap) BY <1>11, StateFacts
  <2>3. \A o \in Obj : Mem.rc[o] = rc[o] + Occ(stk', Slot, o) - Occ(stk, Slot, o)
    BY <1>11, HeldFacts
  <2> QED BY <1>2, <1>4, <1>11, <2>1, <2>2, <2>3, FrameStep
<1> QED BY <1>8, <1>9, <1>10, <1>11 DEF NewEmptyRecord, b

LEMMA NextStatementKeeps == ASSUME RecordInv, NextStatement, Forget PROVE RecordInv'
<1>1. /\ status = "running" /\ code = <<>> /\ UNCHANGED <<stk, sp, heap, rc, dying, status>>
      /\ code' \in Seq(Instr) /\ dying = {}
  BY ScriptAssumption DEF NextStatement
<1>2. Quiet BY <1>1 DEF Quiet, Forgotten, Done, At
<1>3. Becomes(Mem) BY <1>1 DEF Becomes, Mem
<1>4. FrameSound(stk', sp', heap) BY <1>1, StateFacts
<1>5. \A o \in Obj : Mem.rc[o] = rc[o] + Occ(stk', Slot, o) - Occ(stk, Slot, o)
  BY <1>1, HeldFacts
<1>6. Mem \in MemType /\ AtZero(Mem) BY HeldFacts DEF RecordInv
<1> QED BY <1>1, <1>2, <1>3, <1>4, <1>5, <1>6, FrameStep

LEMMA FinishKeeps == ASSUME RecordInv, Finish, Forget PROVE RecordInv'
<1>1. /\ status = "running" /\ status' = "done" /\ code = <<>> /\ dying = {}
      /\ UNCHANGED <<stk, sp, heap, rc, dying, code>>
  BY DEF Finish
<1>2. Quiet /\ code \in Seq(Instr) BY <1>1, QuietFail DEF RecordInv
<1>3. Becomes(Mem) BY <1>1 DEF Becomes, Mem
<1>4. FrameSound(stk', sp', heap) BY <1>1, StateFacts
<1>5. \A o \in Obj : Mem.rc[o] = rc[o] + Occ(stk', Slot, o) - Occ(stk, Slot, o)
  BY <1>1, HeldFacts
<1>6. Mem \in MemType /\ AtZero(Mem) BY HeldFacts DEF RecordInv
<1> QED BY <1>1, <1>2, <1>3, <1>4, <1>5, <1>6, FrameStep

LEMMA UnchangedKeeps ==
  ASSUME RecordInv, UNCHANGED vars, UNCHANGED forgotten
  PROVE  RecordInv'
<1>1. /\ stk' = stk /\ sp' = sp /\ heap' = heap /\ Mem' = Mem /\ code' = code
      /\ status' = status /\ forgotten' = forgotten
  BY DEF vars, Mem
<1> QED BY <1>1 DEF RecordInv

LEMMA EndedKeeps == ASSUME RecordInv, Ended, Forget PROVE RecordInv'
<1>1. UNCHANGED vars BY DEF Ended
<1>2. code' = code BY <1>1 DEF vars
<1>3. \A o \in Obj : Forgotten(o) = 0 BY <1>2, QuietFail DEF Quiet
<1>4. forgotten' = forgotten
  <2>1. forgotten \in [Obj -> Nat] BY DEF RecordInv, ForgottenSound
  <2>2. forgotten' = [o \in Obj |-> forgotten[o]] BY <1>3, <2>1 DEF Forget
  <2> QED BY <2>1, <2>2
<1> QED BY <1>1, <1>4, UnchangedKeeps

-----------------------------------------------------------------------------
(***************************************************************************)
(* A condemned object is freed.                                            *)
(***************************************************************************)
\* What is not held stays legal when it is freed.
Freed(hp, hq, x) == x \in Obj /\ hq = [hp EXCEPT ![x] = FreeBody]

LEMMA LegalFreed ==
  ASSUME NEW hp \in [Obj -> Body], NEW hq, NEW x, Freed(hp, hq, x),
         NEW fs, Legal(hp, fs), FieldCount(fs, x) = 0
  PROVE  Legal(hq, fs)
<1>1. x \in Obj /\ \A p \in Obj \ {x} : hq[p] = hp[p] BY DEF Freed
<1>2. fs \in Seq(Field) BY DEF Legal
<1> DEFINE S == 1..Len(fs)
<1>3. IsFiniteSet(S) BY <1>2, LenProperties, FS_Interval
<1>4. \A i \in S : /\ fs[i].name \in Obj /\ fs[i].val \in Value
                   /\ Names(fs)[i] = Str(fs[i].name) /\ Vals(fs)[i] = fs[i].val
  BY <1>2, PartsType
<1>5. /\ OnStack(Names(fs), x) \in Nat /\ OnStack(Vals(fs), x) \in Nat
      /\ OnStack(Names(fs), x) = Occ(Names(fs), S, x)
      /\ OnStack(Vals(fs), x) = Occ(Vals(fs), S, x)
  BY <1>2, FieldCountType
<1>6. Occ(Names(fs), S, x) = 0 /\ Occ(Vals(fs), S, x) = 0 BY <1>5 DEF FieldCount
<1> HIDE DEF S
<1>7. \A i \in S : ~Holds(Str(fs[i].name), x) /\ ~Holds(fs[i].val, x)
  BY <1>3, <1>4, <1>6, OccZero
<1>8. \A i \in S : hq[fs[i].name] = hp[fs[i].name]
  <2>1. \A i \in S : fs[i].name # x
    BY <1>4, <1>7, StrFacts DEF Holds, Str
  <2> QED BY <1>1, <1>4, <2>1
<1>9. \A i \in S : Agrees(hq, fs[i].val)
  <2> TAKE i \in S
  <2>1. Agrees(hp, fs[i].val) /\ fs[i].val \in Value BY <1>4 DEF Legal, S
  <2>2. CASE IsObject(fs[i].val)
    <3>1. fs[i].val.data # x BY <1>7, <2>2 DEF Holds
    <3>2. fs[i].val.data \in Obj BY <2>1, <2>2 DEF IsObject, Value, ScalarType, ObjectType
    <3> QED BY <1>1, <2>1, <3>1, <3>2 DEF Agrees
  <2> QED BY <2>2 DEF Agrees
<1> QED BY <1>2, <1>8, <1>9 DEF Legal, S

LEMMA FreeObjectKeeps == ASSUME RecordInv, FreeObject, Forget PROVE RecordInv'
<1>1. PICK x \in dying :
        /\ Becomes(ReleaseParts([rc |-> rc, dying |-> dying \ {x}], Fields(x)))
        /\ heap' = [heap EXCEPT ![x] = FreeBody]
        /\ UNCHANGED <<stk, sp, code, status>>
  BY DEF FreeObject
<1> DEFINE m0 == [rc |-> rc, dying |-> dying \ {x}]
           m == ReleaseParts(m0, Fields(x))
           hq == heap'
<1>2. Mem \in MemType /\ AtZero(Mem) /\ Mem.rc = rc /\ Mem.dying = dying
  BY HeldFacts DEF RecordInv
<1>3. x \in Obj /\ rc[x] <= 0 /\ rc \in [Obj -> Int] /\ dying \subseteq Obj
  BY <1>2 DEF MemType, AtZero
<1>4. m0 \in MemType /\ AtZero(m0) /\ m0.rc = rc BY <1>2, <1>3 DEF MemType, AtZero
<1>5. Fields(x) \in Seq(Field) /\ Fields(x) = FieldsIn(heap[x]) BY <1>3, StateFacts
<1> HIDE DEF m0
<1>6. m \in MemType /\ AtZero(m)
      /\ \A o \in Obj : m.rc[o] = rc[o] - FieldCount(Fields(x), o)
  BY <1>4, <1>5, PartsCount
<1>7. Mem' = m
  <2>1. Becomes(m) BY <1>1 DEF m0
  <2>2. Mem' = [rc |-> m.rc, dying |-> m.dying] BY <2>1 DEF Mem, Becomes
  <2> HIDE DEF m
  <2> QED BY <1>6, <2>2 DEF MemType
<1>8. /\ Occ(stk, Slot, x) = 0 /\ RecordCount(heap, x) = 0
      /\ ConstCount(status, x) = 0 /\ forgotten[x] = 0
  <2>1. ConstCount(status, x) \in Nat
    <3>1. ConstCount(status, x) \in {0, 1} BY <1>3, HeldFacts
    <3> QED BY <3>1
  <2>2. /\ Occ(stk, Slot, x) \in Nat /\ RecordCount(heap, x) \in Nat /\ forgotten[x] \in Nat
        /\ rc[x] = Occ(stk, Slot, x) + RecordCount(heap, x) + ConstCount(status, x) + forgotten[x]
    BY <1>3, HeldFacts
  <2> QED BY <1>3, <2>1, <2>2
<1>9. Freed(heap, hq, x) BY <1>1, <1>3 DEF Freed
<1>10. heap \in [Obj -> Body] /\ FreeBody \in Body BY StateFacts DEF FreeBody, Body
<1>11. hq \in [Obj -> Body] /\ hq[x] = FreeBody /\ \A p \in Obj \ {x} : hq[p] = heap[p]
  BY <1>9, <1>10 DEF Freed
<1>12. FieldsIn(FreeBody) = <<>> BY DEF FieldsIn, FreeBody
<1> HIDE DEF m, hq
<1>13. HeapSound(hq)
  <2>1. ASSUME NEW p \in Obj PROVE Legal(hq, FieldsIn(hq[p]))
    <3>1. CASE p = x BY <1>11, <1>12, <3>1, NoFieldsLegal
    <3>2. CASE p # x
      <4>1. FieldsIn(hq[p]) = Fields(p) /\ Legal(heap, Fields(p)) /\ Fields(p) \in Seq(Field)
        BY <1>11, <3>2, StateFacts
      <4>2. FieldCount(Fields(p), x) = 0
        <5>1. FieldCount(Fields(p), x) \in Nat BY <4>1, FieldCountType
        <5>2. RecordCount(heap, x) >= FieldCount(Fields(p), x) BY OneRecord
        <5> QED BY <1>8, <5>1, <5>2
      <4> DEFINE fs == Fields(p)
      <4>3. Legal(heap, fs) /\ FieldCount(fs, x) = 0 BY <4>1, <4>2
      <4> HIDE DEF fs
      <4>4. Legal(hq, fs) BY <1>9, <1>10, <4>3, LegalFreed
      <4> QED BY <4>1, <4>4 DEF fs
    <3> QED BY <3>1, <3>2
  <2> QED BY <1>11, <2>1 DEF HeapSound
<1>14. FrameSound(stk, sp, hq)
  <2>1. \A s \in Slot : ~Holds(stk[s], x) BY <1>8, SlotFacts, OccZero
  <2>2. ASSUME NEW s \in Slot PROVE Agrees(hq, stk[s])
    <3>1. stk[s] \in Value /\ Agrees(heap, stk[s]) BY StateFacts
    <3>2. CASE IsObject(stk[s])
      <4>1. stk[s].data # x BY <2>1, <3>2 DEF Holds
      <4>2. stk[s].data \in Obj BY <3>1, <3>2 DEF IsObject, Value, ScalarType, ObjectType
      <4> QED BY <1>11, <3>1, <4>1, <4>2 DEF Agrees
    <3> QED BY <3>2 DEF Agrees
  <2>3. FrameSound(stk, sp, heap) BY StateFacts
  <2> QED BY <2>2, <2>3 DEF FrameSound
<1>15. status # "ended" => ConstsSound(hq)
  <2> SUFFICES ASSUME status # "ended" PROVE ConstsSound(hq) OBVIOUS
  <2>1. ~IsConst(x) BY <1>8 DEF ConstCount
  <2>2. \A i \in 1..Len(Consts) : Consts[i] \in Obj BY ConstsAssumption, ElementOfSeq
  <2>3. \A i \in 1..Len(Consts) : Consts[i] # x BY <2>1 DEF IsConst
  <2> QED BY <1>11, <2>2, <2>3 DEF RecordInv, ConstsSound
<1>16. \A o \in Obj : Forgotten(o) = 0 BY <1>1, QuietFail DEF Quiet
<1>17. forgotten' = forgotten
  <2>1. forgotten \in [Obj -> Nat] BY DEF RecordInv, ForgottenSound
  <2>2. forgotten' = [o \in Obj |-> forgotten[o]] BY <1>16, <2>1 DEF Forget
  <2> QED BY <2>1, <2>2
<1>18. Exact(stk, hq, m, status, forgotten)
  <2>1. ASSUME NEW o \in Obj
        PROVE  m.rc[o] = Occ(stk, Slot, o) + RecordCount(hq, o) + ConstCount(status, o)
                           + forgotten[o]
    <3> DEFINE b == FreeBody
               w == Occ(stk, Slot, o)
               r == RecordCount(heap, o)
               q == RecordCount(hq, o)
               c == ConstCount(status, o)
               f == FieldCount(Fields(x), o)
    <3>1. Rewritten(heap, hq, x, b) BY <1>9 DEF Freed, Rewritten
    <3>2. FieldsIn(b) \in Seq(Field) /\ FieldCount(FieldsIn(b), o) = 0 BY <1>12, NoFields
    <3>3. q = r - f + 0
      <4> HIDE DEF b
      <4>1. HeapSound(heap) BY StateFacts
      <4>2. RecordCount(hq, o) = RecordCount(heap, o) - FieldCount(FieldsIn(heap[x]), o)
                                   + FieldCount(FieldsIn(b), o)
        BY <3>1, <3>2, <4>1, RecordWrite
      <4> QED BY <1>5, <3>2, <4>2
    <3>4. rc[o] = w + r + c + forgotten[o] /\ m.rc[o] = rc[o] - f BY <1>6, HeldFacts
    <3>5. w \in Nat /\ r \in Nat /\ forgotten[o] \in Nat BY HeldFacts
    <3>6. c \in Int BY DEF ConstCount
    <3>7. f \in Nat BY <1>5, FieldCountType
    <3> HIDE DEF w, r, q, c, f
    <3>8. m.rc[o] = w + q + c + forgotten[o] BY <3>3, <3>4, <3>5, <3>6, <3>7
    <3> QED BY <3>8 DEF w, q, c
  <2> QED BY <2>1 DEF Exact
<1>19. ForgottenSound(hq, forgotten)
  <2>1. forgotten \in [Obj -> Nat] /\ \A o \in Obj : heap[o].class = "free" => forgotten[o] = 0
    BY DEF RecordInv, ForgottenSound
  <2>2. ASSUME NEW o \in Obj, hq[o].class = "free" PROVE forgotten[o] = 0
    <3>1. CASE o = x BY <1>8, <3>1
    <3>2. CASE o # x BY <1>11, <2>1, <2>2, <3>2
    <3> QED BY <3>1, <3>2
  <2> QED BY <2>1, <2>2 DEF ForgottenSound
<1>20. stk' = stk /\ sp' = sp /\ code' = code /\ status' = status BY <1>1
<1>21. code \in Seq(Instr) /\ status \in {"running", "error", "done", "crashed", "ended"}
  BY DEF RecordInv
<1> QED BY <1>6, <1>7, <1>13, <1>14, <1>15, <1>17, <1>18, <1>19, <1>20, <1>21 DEF RecordInv, hq

-----------------------------------------------------------------------------
(***************************************************************************)
(* The end: the slots and the constants are released.                      *)
(***************************************************************************)
LEMMA ConstsHold ==
  ASSUME NEW o \in Obj
  PROVE  Occ([i \in 1..Len(Consts) |-> Str(Consts[i])], 1..Len(Consts), o)
           = IF IsConst(o) THEN 1 ELSE 0
<1> DEFINE S == 1..Len(Consts)
           f == [i \in S |-> Str(Consts[i])]
<1>1. \A i \in S : Consts[i] \in Obj BY ConstsAssumption, ElementOfSeq
<1>2. \A i \in S : Holds(f[i], o) <=> Consts[i] = o
  <2> TAKE i \in S
  <2>1. f[i] = Str(Consts[i]) OBVIOUS
  <2>2. IsObject(Str(Consts[i])) /\ Str(Consts[i]).data = Consts[i]
    BY DEF IsObject, Str, ObjectType
  <2> QED BY <2>1, <2>2 DEF Holds
<1> HIDE DEF f
<1>3. CASE IsConst(o)
  <2>1. PICK k \in S : Consts[k] = o BY <1>3 DEF IsConst
  <2>2. \A i \in S : Consts[i] = o => i = k BY <2>1, ConstsAssumption
  <2>3. {i \in S : Holds(f[i], o)} = {k} BY <1>2, <2>1, <2>2
  <2> QED BY <1>3, <2>3, FS_Singleton DEF Occ, f
<1>4. CASE ~IsConst(o)
  <2>1. \A i \in S : Count(f[i], o) = 0 BY <1>2, <1>4 DEF IsConst, Count
  <2>2. Occ(f, S, o) = 0
    <3> HIDE DEF S
    <3> QED BY <2>1, OccNone
  <2> QED BY <1>4, <2>2 DEF f
<1> QED BY <1>3, <1>4

LEMMA LiveCount ==
  ASSUME NEW hp, NEW st, NEW n, FrameSound(st, n, hp), NEW o
  PROVE  Occ(st, 1..n, o) = Occ(st, Slot, o)
<1> DEFINE z == MaxSlots
           q == n + 1
<1>1. n \in 0..MaxSlots /\ MaxSlots \in Nat BY SlotFacts DEF FrameSound
<1>2. n \in Int /\ 0 <= n /\ q \in Int /\ z \in Int /\ n < q /\ q <= n + 1 /\ n <= z
      /\ Slot = 1..z
  BY <1>1 DEF Slot
<1>3. \A s \in q..z : st[s] = Nil
  <2>1. \A s \in q..z : s \in Slot /\ s > n BY <1>1, <1>2
  <2> QED BY <2>1 DEF FrameSound
<1> HIDE DEF q, z
<1>4. /\ Occ(st, 1..z, o) = Occ(st, 1..n, o) + Occ(st, q..z, o)
      /\ Occ(st, 1..n, o) \in Nat
  BY <1>2, PartCut
<1>5. Occ(st, q..z, o) = 0
  <2> DEFINE S == q..z
  <2>1. \A l \in S : Count(st[l], o) = 0 BY <1>3, CountNil
  <2> HIDE DEF S
  <2>2. Occ(st, S, o) = 0 BY <2>1, OccNone
  <2> QED BY <2>2 DEF S
<1> QED BY <1>2, <1>4, <1>5

LEMMA DeinitKeeps == ASSUME RecordInv, Deinit, Forget PROVE RecordInv'
<1> DEFINE consts == [i \in 1..Len(Consts) |-> Str(Consts[i])]
           S == 1..Len(Consts)
           T == 1..sp
           m1 == ReleaseAll(Mem, stk, T)
           m == ReleaseAll(m1, consts, S)
           g == [s \in Slot |-> Nil]
<1>1. /\ status # "running" /\ status # "ended" /\ dying = {} /\ Becomes(m)
      /\ stk' = g /\ sp' = 0 /\ code' = <<>> /\ status' = "ended" /\ heap' = heap
  BY DEF Deinit
<1>2. Mem \in MemType /\ AtZero(Mem) /\ Mem.rc = rc BY HeldFacts DEF RecordInv
<1>3. IsFiniteSet(S) /\ IsFiniteSet(T)
  <2>1. Len(Consts) \in Nat BY ConstsAssumption, LenProperties
  <2>2. sp \in Int BY StateFacts
  <2> QED BY <2>1, <2>2, FS_Interval
<1>4. \A o \in Obj : Occ(consts, S, o) = ConstCount(status, o)
  BY <1>1, ConstsHold DEF ConstCount
<1>5. \A o : Occ(stk, T, o) = Occ(stk, Slot, o) BY StateFacts, LiveCount
<1> HIDE DEF consts, S, T
<1>6. m1 \in MemType /\ AtZero(m1) /\ \A o \in Obj : m1.rc[o] = rc[o] - Occ(stk, T, o)
  BY <1>2, <1>3, ReleaseAllType, ReleaseAllAtZero, ReleaseAllCount
<1> HIDE DEF m1
<1>7. m \in MemType /\ AtZero(m) /\ \A o \in Obj : m.rc[o] = m1.rc[o] - Occ(consts, S, o)
  BY <1>3, <1>6, ReleaseAllType, ReleaseAllAtZero, ReleaseAllCount
<1> HIDE DEF m
<1>8. Mem' = m
  <2>1. Mem' = [rc |-> m.rc, dying |-> m.dying] BY <1>1 DEF Mem, Becomes
  <2> QED BY <1>7, <2>1 DEF MemType
<1>9. FrameSound(g, 0, heap)
  <2>1. g \in [Slot -> Value] BY ScalarFacts
  <2>2. \A s \in Slot : Agrees(heap, g[s]) BY ScalarFacts, AgreesScalar
  <2>3. 0 \in 0..MaxSlots BY SlotFacts
  <2> QED BY <2>1, <2>2, <2>3 DEF FrameSound
<1>10. \A o : Occ(g, Slot, o) = 0
  <2>1. \A o : \A s \in Slot : Count(g[s], o) = 0 BY CountNil
  <2> HIDE DEF g
  <2> QED BY <2>1, OccNone
<1> HIDE DEF g
<1>11. \A o \in Obj : Forgotten(o) = 0 BY <1>1 DEF Forgotten, Done, At
<1>12. forgotten' = forgotten
  <2>1. forgotten \in [Obj -> Nat] BY DEF RecordInv, ForgottenSound
  <2>2. forgotten' = [o \in Obj |-> forgotten[o]] BY <1>11, <2>1 DEF Forget
  <2> QED BY <2>1, <2>2
<1>13. Exact(g, heap, m, "ended", forgotten)
  <2>1. ASSUME NEW o \in Obj
        PROVE  m.rc[o] = Occ(g, Slot, o) + RecordCount(heap, o) + ConstCount("ended", o)
                           + forgotten[o]
    <3> DEFINE w == Occ(stk, Slot, o)
               c == ConstCount(status, o)
    <3>1. Occ(g, Slot, o) = 0 /\ ConstCount("ended", o) = 0 BY <1>10 DEF ConstCount
    <3>2. rc[o] = w + RecordCount(heap, o) + c + forgotten[o]
          /\ w \in Nat /\ RecordCount(heap, o) \in Nat /\ forgotten[o] \in Nat
      BY HeldFacts
    <3>3. c \in Int BY DEF ConstCount
    <3>4. m1.rc[o] = rc[o] - w /\ m.rc[o] = m1.rc[o] - c BY <1>4, <1>5, <1>6, <1>7
    <3> HIDE DEF w, c
    <3>5. m.rc[o] = RecordCount(heap, o) + forgotten[o] BY <3>2, <3>3, <3>4
    <3> QED BY <3>1, <3>2, <3>5
  <2> QED BY <2>1 DEF Exact
<1>14. HeapSound(heap) /\ ForgottenSound(heap, forgotten) BY DEF RecordInv
<1>15. <<>> \in Seq(Instr) BY EmptySeq
<1> QED BY <1>1, <1>7, <1>8, <1>9, <1>12, <1>13, <1>14, <1>15 DEF RecordInv

-----------------------------------------------------------------------------
(***************************************************************************)
(* The initial state.                                                      *)
(***************************************************************************)
LEMMA NoRecords ==
  ASSUME NEW hp, \A p \in Obj : FieldsIn(hp[p]) = <<>>, NEW o
  PROVE  RecordCount(hp, o) = 0
<1>1. Len(<<>>) = 0 /\ 1..0 = {} BY EmptySeq
<1>2. DOMAIN Names(<<>>) = {} /\ DOMAIN Vals(<<>>) = {} BY <1>1 DEF Names, Vals
<1>3. PlacesOf(Obj, NamesIn(hp)) = {} /\ PlacesOf(Obj, ValsIn(hp)) = {}
  BY <1>2 DEF PlacesOf, NamesIn, ValsIn
<1>4. \A f : Occ(f, {}, o) = 0 BY OccNone
<1>5. OnStacks(Obj, NamesIn(hp), o) = 0 /\ OnStacks(Obj, ValsIn(hp), o) = 0
  BY <1>3, <1>4 DEF OnStacks
<1> QED BY <1>5 DEF RecordCount

LEMMA InitRecordInv == ASSUME Init, NoneForgotten PROVE RecordInv
<1>1. /\ stk = [s \in Slot |-> Nil] /\ sp = Locals /\ dying = {} /\ code = <<>>
      /\ status = "running" /\ rc = [o \in Obj |-> IF IsConst(o) THEN 1 ELSE 0]
      /\ forgotten = [o \in Obj |-> 0]
  BY DEF Init, NoneForgotten
<1>2. FrameSound(stk, sp, heap)
  <2>1. stk \in [Slot -> Value] BY <1>1, ScalarFacts
  <2>2. \A s \in Slot : stk[s] = Nil /\ Agrees(heap, stk[s]) BY <1>1, ScalarFacts, AgreesScalar
  <2>3. sp \in 0..MaxSlots BY <1>1, LimitAssumption
  <2> QED BY <2>1, <2>2, <2>3 DEF FrameSound
<1>3. ASSUME NEW o \in Obj
      PROVE  /\ heap[o] \in Body /\ FieldsIn(heap[o]) = <<>>
             /\ IsConst(o) => heap[o].class = "string"
  <2> DEFINE i == CHOOSE i \in 1..Len(Consts) : Consts[i] = o
             t == Texts[i]
  <2>1. heap[o] = IF IsConst(o) THEN StringBody(t) ELSE FreeBody BY DEF Init
  <2>2. CASE IsConst(o)
    <3>1. \E k \in 1..Len(Consts) : Consts[k] = o BY <2>2 DEF IsConst
    <3>2. i \in 1..Len(Consts) BY <3>1
    <3> HIDE DEF i
    <3>3. t \in Seq(Char)
      <4>1. Texts \in Seq(Seq(Char)) /\ i \in 1..Len(Texts) BY <3>2, ConstsAssumption
      <4> QED BY <4>1, ElementOfSeq
    <3> HIDE DEF t
    <3> QED BY <2>1, <2>2, <3>3, NewBodyFacts
  <2>3. CASE ~IsConst(o)
    <3> HIDE DEF t
    <3>1. heap[o] = FreeBody BY <2>1, <2>3
    <3> QED BY <2>3, <3>1 DEF FreeBody, Body, FieldsIn
  <2> QED BY <2>2, <2>3
<1>4. HeapSound(heap)
  <2>1. heap \in [Obj -> Body]
    <3>1. heap = [o \in Obj |-> heap[o]] BY DEF Init
    <3> QED BY <1>3, <3>1
  <2>2. \A p \in Obj : Legal(heap, FieldsIn(heap[p])) BY <1>3, NoFieldsLegal
  <2> QED BY <2>1, <2>2 DEF HeapSound
<1>5. ConstsSound(heap)
  <2>1. \A i \in 1..Len(Consts) : Consts[i] \in Obj /\ IsConst(Consts[i])
    BY ConstsAssumption, ElementOfSeq DEF IsConst
  <2> QED BY <1>3, <2>1 DEF ConstsSound
<1>6. Mem \in MemType /\ AtZero(Mem) BY <1>1 DEF Mem, MemType, AtZero
<1>7. Exact(stk, heap, Mem, status, forgotten)
  <2>1. ASSUME NEW o \in Obj
        PROVE  Mem.rc[o] = Occ(stk, Slot, o) + RecordCount(heap, o) + ConstCount(status, o)
                             + forgotten[o]
    <3>1. Occ(stk, Slot, o) = 0
      <4>1. \A s \in Slot : Count(stk[s], o) = 0 BY <1>1, CountNil
      <4> QED BY <4>1, OccNone
    <3>2. RecordCount(heap, o) = 0 BY <1>3, NoRecords
    <3>3. forgotten[o] = 0 BY <1>1
    <3>4. Mem.rc[o] = ConstCount(status, o) /\ ConstCount(status, o) \in {0, 1}
      BY <1>1 DEF Mem, ConstCount
    <3> QED BY <3>1, <3>2, <3>3, <3>4
  <2> QED BY <2>1 DEF Exact
<1>8. ForgottenSound(heap, forgotten) BY <1>1 DEF ForgottenSound
<1>9. <<>> \in Seq(Instr) BY EmptySeq
<1> QED BY <1>1, <1>2, <1>4, <1>5, <1>6, <1>7, <1>8, <1>9 DEF RecordInv

-----------------------------------------------------------------------------
(***************************************************************************)
(* A pattern takes a record apart.                                         *)
(***************************************************************************)
\* The stack st with the n values of r from the slot d up.
Over(st, d, n, r) == [s \in Slot |-> IF s \in d..(d + n - 1) THEN r[s - d + 1] ELSE st[s]]

Overwrites(st, d, n, r, o) ==
  /\ Occ(Over(st, d, n, r), Slot, o)
       = Occ(st, Slot, o) - Occ(st, d..(d + n - 1), o) + Occ(r, 1..n, o)
  /\ Occ(st, d..(d + n - 1), o) \in Nat /\ Occ(r, 1..n, o) \in Nat

LEMMA OverCount ==
  ASSUME NEW st, NEW d, NEW n, NEW r, NEW o,
         d \in Int, 1 <= d, n \in Nat, n >= 1, d + n - 1 <= MaxSlots
  PROVE  Overwrites(st, d, n, r, o)
<1> DEFINE g == Over(st, d, n, r)
           e == d + n - 1
           T == d..e
           b == 1
<1>1. /\ MaxSlots \in Nat /\ e \in Int /\ b \in Int /\ n \in Int /\ e - d = n - b
      /\ IsFiniteSet(Slot)
  BY SlotFacts
<1>2. T \subseteq Slot BY <1>1 DEF Slot
<1>3. \A i \in Int : d <= i /\ i <= e => g[i] = r[i - d + b]
  <2>1. \A i \in Int : d <= i /\ i <= e => i \in T /\ i \in Slot BY <1>2
  <2> QED BY <2>1 DEF Over
<1>4. \A s \in Slot \ T : g[s] = st[s] BY DEF Over
<1>5. d..(d + n - 1) = T OBVIOUS
<1> HIDE DEF g, e, b
<1>6. Occ(g, d..e, o) = Occ(r, b..n, o)
  <2>1. \A i \in Int : d <= i /\ i <= e => Count(g[i], o) = Count(r[i - d + b], o) BY <1>3
  <2> QED BY <1>1, <2>1, OccShift
<1>7. Occ(st, d..e, o) \in Nat /\ Occ(r, b..n, o) \in Nat BY <1>1, PartType
<1> HIDE DEF T
<1>8. Occ(g, Slot, o) = Occ(g, Slot \ T, o) + Occ(g, T, o) BY <1>1, <1>2, OccWithout
<1>9. Occ(st, Slot, o) = Occ(st, Slot \ T, o) + Occ(st, T, o) BY <1>1, <1>2, OccWithout
<1>10. Occ(g, Slot \ T, o) = Occ(st, Slot \ T, o)
  <2> DEFINE U == Slot \ T
  <2>1. \A l \in U : Count(g[l], o) = Count(st[l], o) BY <1>4
  <2> HIDE DEF U
  <2>2. Occ(g, U, o) = Occ(st, U, o) BY <2>1, OccSame
  <2> QED BY <2>2 DEF U
<1>11. Occ(st, Slot \ T, o) \in Nat
  <2>1. IsFiniteSet(Slot \ T) BY <1>1, FS_Difference
  <2> QED BY <2>1, OccType
<1>12. Occ(g, T, o) = Occ(r, b..n, o) /\ Occ(st, T, o) \in Nat BY <1>6, <1>7 DEF T
<1>13. Occ(g, Slot, o) = Occ(st, Slot, o) - Occ(st, T, o) + Occ(r, b..n, o)
  BY <1>7, <1>8, <1>9, <1>10, <1>11, <1>12
<1> QED BY <1>5, <1>7, <1>12, <1>13 DEF g, b, Overwrites

LEMMA OverSound ==
  ASSUME NEW hp, NEW st, NEW k, NEW d, NEW n, NEW r, FrameSound(st, k, hp),
         d \in Int, 1 <= d, n \in Nat, d + n - 1 <= k,
         \A i \in 1..n : r[i] \in Value /\ Agrees(hp, r[i])
  PROVE  FrameSound(Over(st, d, n, r), k, hp)
<1>1. k \in 0..MaxSlots /\ MaxSlots \in Nat BY SlotFacts DEF FrameSound
<1>2. \A s \in Slot : s \in Int BY SlotFacts
<1>3. ASSUME NEW s \in Slot, s \in d..(d + n - 1)
      PROVE  Over(st, d, n, r)[s] \in Value /\ Agrees(hp, Over(st, d, n, r)[s]) /\ ~(s > k)
  <2>1. s - d + 1 \in 1..n BY <1>2, <1>3
  <2>2. Over(st, d, n, r)[s] = r[s - d + 1] BY <1>3 DEF Over
  <2>3. ~(s > k) BY <1>1, <1>2, <1>3
  <2> QED BY <2>1, <2>2, <2>3
<1>4. ASSUME NEW s \in Slot, s \notin d..(d + n - 1)
      PROVE  Over(st, d, n, r)[s] = st[s]
  BY <1>4 DEF Over
<1>5. DOMAIN Over(st, d, n, r) = Slot /\ Over(st, d, n, r) = [s \in Slot |-> Over(st, d, n, r)[s]]
  BY DEF Over
<1> DEFINE g == Over(st, d, n, r)
           T == d..(d + n - 1)
<1> HIDE DEF g, T
<1>6. \A s \in Slot : (s \in T => g[s] \in Value /\ Agrees(hp, g[s]) /\ ~(s > k))
                      /\ (s \notin T => g[s] = st[s])
  BY <1>3, <1>4 DEF g, T
<1>7. g = [s \in Slot |-> g[s]] BY <1>5 DEF g
<1>8. \A s \in Slot : g[s] \in Value /\ Agrees(hp, g[s]) BY <1>6 DEF FrameSound
<1>9. g \in [Slot -> Value] BY <1>7, <1>8
<1>10. \A s \in Slot : s > k => g[s] = Nil BY <1>6 DEF FrameSound
<1> QED BY <1>1, <1>8, <1>9, <1>10 DEF FrameSound, g

LEMMA UnpackFieldsKeeps == ASSUME RecordInv, UnpackFields, Forget PROVE RecordInv'
<1> DEFINE a == A
           val == Get(a)
           key(i) == stk[sp - a + i].data
           missing == {i \in 1..a : ~HasField(val, key(i))}
           n == IF missing = {} THEN a ELSE Min(missing) - 1
           res == [i \in 1..n |-> ValueOf(val, key(i))]
           keys == [i \in 1..a |-> Str(key(i))]
           m1(used) == ReleaseAll(RetainAll(Mem, res, 1..n), keys, used)
           d == sp - a
           over == Over(stk, d, n, res)
<1>1. /\ At("UNPACK_FIELDS") /\ a > 0 /\ Operands(a + 1)
      /\ \A i \in 1..a : IsText(stk[sp - a + i])
  BY DEF UnpackFields
<1>2. \/ /\ IsRecord(val) /\ missing = {}
         /\ stk' = [over EXCEPT ![sp] = Nil]
         /\ sp' = sp - 1
         /\ Becomes(Release(m1(1..a), val))
         /\ Continue
         /\ UNCHANGED heap
      \/ /\ IsRecord(val) /\ n > 0 /\ missing # {}
         /\ stk' = over
         /\ Becomes(Release(m1(1..(n - 1)), val))
         /\ Raise
         /\ UNCHANGED <<sp, heap>>
      \/ Fail
  BY DEF UnpackFields, Over
<1>3. /\ a \in Nat /\ a >= 1 /\ sp \in Int /\ d \in Int /\ 1 <= d /\ d + a = sp
      /\ sp <= MaxSlots /\ MaxSlots \in Nat
  BY <1>1, AtFacts, StateFacts, SlotFacts DEF Operands
<1>4. val = stk[d] /\ val \in Value /\ Agrees(heap, val)
  <2>1. a + 1 \in Nat /\ 0 <= a /\ a < a + 1 BY <1>3
  <2> DEFINE k == a + 1
  <2>2. k \in Nat /\ Operands(k) /\ a \in Int /\ 0 <= a /\ a < k BY <1>1, <1>3
  <2> HIDE DEF k, a
  <2>3. Get(a) = stk[sp - a] /\ Get(a) \in Value /\ Agrees(heap, Get(a)) BY <2>2, GetFacts
  <2> QED BY <2>3
<1>5. \A i \in 1..a : /\ stk[d + i] \in Value /\ Agrees(heap, stk[d + i])
                      /\ stk[d + i].type = "string" /\ key(i) = stk[d + i].data /\ key(i) \in Obj
  <2> SUFFICES ASSUME NEW i \in 1..a
               PROVE  /\ stk[d + i] \in Value /\ Agrees(heap, stk[d + i])
                      /\ stk[d + i].type = "string" /\ key(i) = stk[d + i].data /\ key(i) \in Obj
    OBVIOUS
  <2>1. d + i \in 1..sp BY <1>3
  <2>2. stk[d + i] \in Value /\ Agrees(heap, stk[d + i]) BY <2>1, LiveFacts
  <2>3. stk[d + i].type = "string" BY <1>1 DEF IsText
  <2> QED BY <2>2, <2>3, TextFacts
<1>6. missing # {} => /\ Min(missing) \in missing
                      /\ \A y \in missing : Min(missing) <= y
  <2>1. missing \subseteq Nat BY <1>3
  <2> HIDE DEF missing
  <2> QED BY <2>1, MinFacts
<1>7. /\ n \in Nat /\ n <= a
      /\ missing # {} => n < a
      /\ \A i \in 1..n : i \in 1..a /\ HasField(val, key(i))
  <2>1. CASE missing = {}
    <3>1. n = a BY <2>1
    <3>2. \A i \in 1..a : HasField(val, key(i)) BY <2>1
    <3> QED BY <1>3, <2>1, <3>1, <3>2
  <2>2. CASE missing # {}
    <3> DEFINE q == Min(missing)
    <3>1. q \in 1..a /\ n = q - 1 /\ \A y \in missing : q <= y BY <1>6, <2>2
    <3> HIDE DEF q
    <3>2. n \in Nat /\ n < a BY <1>3, <3>1
    <3>3. ASSUME NEW i \in 1..(q - 1) PROVE i \in 1..a /\ HasField(val, key(i))
      <4>1. i \in 1..a /\ ~(q <= i) BY <1>3, <3>1
      <4>2. i \notin missing BY <3>1, <4>1
      <4> QED BY <4>1, <4>2
    <3>4. n = q - 1 BY <3>1
    <3>5. \A i \in 1..n : i \in 1..a /\ HasField(val, key(i)) BY <3>3, <3>4
    <3> HIDE DEF n, missing, a, val
    <3>6. missing # {} => n < a BY <3>2
    <3>7. n <= a BY <1>3, <3>2
    <3> QED BY <3>2, <3>5, <3>6, <3>7
  <2> QED BY <2>1, <2>2
<1>8. \A i \in 1..n : res[i] = ValueOf(val, key(i)) /\ res[i] \in Value /\ Agrees(heap, res[i])
  <2> TAKE i \in 1..n
  <2>1. res[i] = ValueOf(val, key(i)) OBVIOUS
  <2>2. HasField(val, key(i)) /\ key(i) \in Obj BY <1>5, <1>7
  <2> DEFINE name == key(i)
  <2> HIDE DEF n, res, val, key, a
  <2>3. ValueOf(val, name) \in Value /\ Agrees(heap, ValueOf(val, name))
    BY <1>4, <2>2, FoundFacts
  <2> QED BY <2>1, <2>3
<1>9. /\ Mem \in MemType /\ AtZero(Mem) /\ Mem.dying = {} /\ Mem.rc = rc
  BY <1>1, AtFacts, HeldFacts
<1>10. FrameSound(stk, sp, heap) /\ stk \in [Slot -> Value] BY StateFacts
<1>11. \A i \in 1..a : keys[i] = Str(key(i)) /\ \A o : Count(stk[d + i], o) = Count(keys[i], o)
  <2> TAKE i \in 1..a
  <2>1. keys[i] = Str(key(i)) OBVIOUS
  <2>2. Str(key(i)).type = stk[d + i].type /\ Str(key(i)).data = stk[d + i].data
    BY <1>5 DEF Str
  <2> DEFINE v == stk[d + i]
             w == Str(key(i))
  <2>3. v.type = w.type /\ v.data = w.data BY <2>2
  <2> HIDE DEF v, w
  <2>4. \A o : Count(v, o) = Count(w, o) BY <2>3, CountSame
  <2> QED BY <2>1, <2>4 DEF v, w
<1> HIDE DEF n, res, val, key, missing, keys
<1>12. ASSUME n >= 1
       PROVE  /\ FrameSound(over, sp, heap) /\ over \in [Slot -> Value] /\ over[sp] = stk[sp]
              /\ \A o : /\ Occ(over, Slot, o) = Occ(stk, Slot, o) - Count(val, o)
                                                  - Occ(keys, 1..(n - 1), o) + Occ(res, 1..n, o)
                        /\ Occ(keys, 1..(n - 1), o) \in Nat /\ Occ(res, 1..n, o) \in Nat
  <2> HIDE DEF d, a
  <2>1. d + n - 1 <= sp /\ d + n - 1 <= MaxSlots /\ d + n - 1 \in Int /\ ~(sp <= d + n - 1)
    BY <1>3, <1>7
  <2>2. FrameSound(over, sp, heap) BY <1>3, <1>7, <1>8, <1>10, <2>1, OverSound
  <2>3. over \in [Slot -> Value] BY <2>2 DEF FrameSound
  <2>4. over[sp] = stk[sp]
    <3>1. sp \in Slot BY <1>3, SlotFacts
    <3>2. sp \notin d..(d + n - 1) BY <1>3, <2>1
    <3> QED BY <3>1, <3>2 DEF Over
  <2>5. ASSUME NEW o
        PROVE  /\ Occ(over, Slot, o) = Occ(stk, Slot, o) - Count(val, o)
                                         - Occ(keys, 1..(n - 1), o) + Occ(res, 1..n, o)
               /\ Occ(keys, 1..(n - 1), o) \in Nat /\ Occ(res, 1..n, o) \in Nat
    <3> DEFINE e == d + n - 1
               b == d + 1
               l == n - 1
               f == 1
    <3>0. d \in Int /\ 1 <= d /\ n \in Nat /\ n >= 1 BY <1>3, <1>7, <1>12
    <3>1. /\ Occ(over, Slot, o) = Occ(stk, Slot, o) - Occ(stk, d..e, o) + Occ(res, 1..n, o)
          /\ Occ(stk, d..e, o) \in Nat /\ Occ(res, 1..n, o) \in Nat
      <4>1. d \in Int /\ 1 <= d BY <3>0
      <4>2. n \in Nat /\ n >= 1 BY <3>0
      <4>3. d + n - 1 <= MaxSlots BY <2>1
      <4>4. Overwrites(stk, d, n, res, o) BY <4>1, <4>2, <4>3, OverCount
      <4> QED BY <4>4 DEF Overwrites
    <3>2. /\ e \in Int /\ b \in Int /\ l \in Int /\ f \in Int /\ d <= e
          /\ d < b /\ b <= d + 1 /\ e - b = l - f
      BY <1>3, <1>7, <1>12
    <3>3. \A i \in Int : b <= i /\ i <= e => Count(stk[i], o) = Count(keys[i - b + f], o)
      <4> SUFFICES ASSUME NEW i \in Int, b <= i, i <= e
                   PROVE  Count(stk[i], o) = Count(keys[i - b + f], o)
        OBVIOUS
      <4>1. i - b + f \in 1..a /\ d + (i - b + f) = i BY <1>3, <1>7
      <4> HIDE DEF b, e, f
      <4> QED BY <1>11, <4>1
    <3> HIDE DEF e, b, l, f
    <3>4. Occ(stk, d..e, o) = Count(stk[d], o) + Occ(stk, b..e, o) BY <1>3, <3>2, OccFirst
    <3>5. Occ(stk, b..e, o) = Occ(keys, f..l, o) BY <3>2, <3>3, OccShift
    <3>6. Occ(keys, f..l, o) \in Nat BY <3>2, PartType
    <3>7. Occ(stk, Slot, o) \in Nat /\ Count(val, o) \in Int BY SlotFacts, CountType
    <3>8. Occ(stk, d..e, o) = Count(val, o) + Occ(keys, f..l, o) BY <1>4, <3>4, <3>5
    <3>9. Occ(over, Slot, o) = Occ(stk, Slot, o) - Count(val, o)
                                 - Occ(keys, f..l, o) + Occ(res, 1..n, o)
      BY <3>1, <3>6, <3>7, <3>8
    <3> QED BY <3>1, <3>6, <3>9 DEF f, l
  <2> QED BY <2>2, <2>3, <2>4, <2>5
<1>13. ASSUME NEW U, IsFiniteSet(U)
       PROVE  /\ Release(m1(U), val) \in MemType /\ AtZero(Release(m1(U), val))
              /\ \A o \in Obj : Release(m1(U), val).rc[o]
                                  = rc[o] + Occ(res, 1..n, o) - Occ(keys, U, o) - Count(val, o)
  <2> DEFINE S == 1..n
             k1 == RetainAll(Mem, res, S)
             k2 == ReleaseAll(k1, keys, U)
             k3 == Release(k2, val)
  <2>1. IsFiniteSet(S) BY <1>7, FS_Interval
  <2> HIDE DEF S
  <2>2. k1 \in MemType /\ k1.dying = {} /\ \A o \in Obj : k1.rc[o] = rc[o] + Occ(res, S, o)
    BY <1>9, <2>1, RetainAllType, RetainsSpare, RetainAllCount
  <2>3. AtZero(k1) BY <2>2 DEF AtZero
  <2> HIDE DEF k1
  <2>4. k2 \in MemType /\ AtZero(k2) /\ \A o \in Obj : k2.rc[o] = k1.rc[o] - Occ(keys, U, o)
    BY <1>13, <2>2, <2>3, ReleaseAllType, ReleaseAllAtZero, ReleaseAllCount
  <2> HIDE DEF k2
  <2>5. k3 \in MemType /\ AtZero(k3) /\ \A o \in Obj : k3.rc[o] = k2.rc[o] - Count(val, o)
    BY <2>4, ReleaseType, ReleaseAtZero, ReleaseCount
  <2>6. \A o \in Obj : k3.rc[o] = rc[o] + Occ(res, S, o) - Occ(keys, U, o) - Count(val, o)
    <3> TAKE o \in Obj
    <3>1. k1.rc[o] = rc[o] + Occ(res, S, o) /\ k2.rc[o] = k1.rc[o] - Occ(keys, U, o)
          /\ k3.rc[o] = k2.rc[o] - Count(val, o)
      BY <2>2, <2>4, <2>5
    <3>2. rc[o] \in Int /\ Occ(res, S, o) \in Int /\ Occ(keys, U, o) \in Int
          /\ Count(val, o) \in Int
      BY <1>13, <2>1, HeldFacts, OccType, CountType
    <3> HIDE DEF k3
    <3> QED BY <3>1, <3>2
  <2> QED BY <2>5, <2>6 DEF S, k1, k2
<1> HIDE DEF over, m1
<1>14. CASE Fail BY <1>1, <1>14, FailStep
<1>15. CASE /\ IsRecord(val) /\ missing = {}
            /\ stk' = [over EXCEPT ![sp] = Nil]
            /\ sp' = sp - 1
            /\ Becomes(Release(m1(1..a), val))
            /\ Continue
            /\ UNCHANGED heap
  <2> DEFINE U == 1..a
             m == Release(m1(U), val)
             g == stk'
             k == sp
             l == n - 1
             w == stk[sp]
  <2>1. n = a BY <1>15 DEF n
  <2>2. n >= 1 /\ l \in Nat /\ l + 1 = n /\ IsFiniteSet(U) /\ sp \in Slot
    <3>1. n >= 1 BY <1>3, <2>1
    <3>2. n \in Nat BY <1>7
    <3>3. l \in Nat /\ l + 1 = n BY <3>1, <3>2
    <3>4. IsFiniteSet(U) BY <1>3, FS_Interval
    <3>5. sp \in Slot BY <1>3, SlotFacts
    <3> QED BY <3>1, <3>3, <3>4, <3>5
  <2>3. /\ FrameSound(over, sp, heap) /\ over \in [Slot -> Value] /\ over[sp] = w
        /\ \A o : /\ Occ(over, Slot, o) = Occ(stk, Slot, o) - Count(val, o)
                                            - Occ(keys, 1..l, o) + Occ(res, 1..n, o)
                  /\ Occ(keys, 1..l, o) \in Nat /\ Occ(res, 1..n, o) \in Nat
    BY <1>12, <2>2
  <2>4. SlotWritten(over, g, k, Nil) /\ over[k] = w BY <1>15, <2>2, <2>3 DEF SlotWritten
  <2>5. FrameSound(stk', sp', heap)
    <3>1. sp >= 1 BY <1>3
    <3>2. FrameSound(over, sp, heap) BY <2>3
    <3>3. FrameSound([over EXCEPT ![sp] = Nil], sp - 1, heap) BY <3>1, <3>2, FramePop
    <3>4. stk' = [over EXCEPT ![sp] = Nil] /\ sp' = sp - 1 BY <1>15
    <3> QED BY <3>3, <3>4
  <2>6. \A o : Occ(keys, U, o) = Occ(keys, 1..l, o) + Count(w, o)
    <3> TAKE o
    <3>1. Occ(keys, 1..(l + 1), o) = Occ(keys, 1..l, o) + Count(keys[l + 1], o)
      BY <2>2, OccOneMore
    <3>2. l + 1 = a /\ a \in 1..a /\ d + a = sp BY <1>3, <2>1, <2>2
    <3>3. Count(keys[a], o) = Count(w, o) BY <1>11, <3>2
    <3> QED BY <3>1, <3>2, <3>3
  <2>7. /\ m \in MemType /\ AtZero(m)
        /\ \A o \in Obj : m.rc[o] = rc[o] + Occ(res, 1..n, o) - Occ(keys, U, o) - Count(val, o)
    BY <1>13, <2>2
  <2>8. Becomes(m) /\ Continue /\ heap' = heap BY <1>15
  <2> HIDE DEF m, g, k, U, l, w
  <2>9. \A o : Occ(g, Slot, o) = Occ(over, Slot, o) - Count(over[k], o) + Count(Nil, o)
    BY <2>3, <2>4, SlotWrite
  <2>10. \A o \in Obj : m.rc[o] = rc[o] + Occ(g, Slot, o) - Occ(stk, Slot, o)
    <3> TAKE o \in Obj
    <3> DEFINE p == Occ(res, 1..n, o)
               q == Occ(keys, 1..l, o)
               c == Count(val, o)
               e == Count(w, o)
               s == Occ(stk, Slot, o)
               t == Occ(g, Slot, o)
               u == Occ(over, Slot, o)
    <3>1. u = s - c - q + p /\ p \in Nat /\ q \in Nat BY <2>3
    <3>2. c \in Int /\ e \in Int /\ s \in Nat /\ rc[o] \in Int BY CountType, HeldFacts
    <3>3. t = u - e + 0 BY <2>4, <2>9, CountNil
    <3>4. m.rc[o] = rc[o] + p - (q + e) - c BY <2>6, <2>7
    <3> HIDE DEF p, q, c, e, s, t, u
    <3>5. m.rc[o] = rc[o] + t - s BY <3>1, <3>2, <3>3, <3>4
    <3> QED BY <3>5 DEF t, s
  <2>11. \A o \in Obj : m.rc[o] = rc[o] + Occ(stk', Slot, o) - Occ(stk, Slot, o)
    BY <2>10 DEF g
  <2>12. status' = status /\ code' = Tail(code) BY <2>8 DEF Continue
  <2>13. /\ status' \in {"running", "error", "done", "crashed"} /\ status # "ended"
         /\ code' \in Seq(Instr) /\ Quiet
    BY <1>1, <2>12, AtFacts, QuietOp
  <2> QED BY <2>5, <2>7, <2>8, <2>11, <2>13, FrameStep
<1>16. CASE /\ IsRecord(val) /\ n > 0 /\ missing # {}
            /\ stk' = over
            /\ Becomes(Release(m1(1..(n - 1)), val))
            /\ Raise
            /\ UNCHANGED <<sp, heap>>
  <2> DEFINE U == 1..(n - 1)
             m == Release(m1(U), val)
  <2>1. n >= 1 /\ IsFiniteSet(U) BY <1>7, <1>16, FS_Interval
  <2>2. /\ FrameSound(over, sp, heap)
        /\ \A o : /\ Occ(over, Slot, o) = Occ(stk, Slot, o) - Count(val, o)
                                            - Occ(keys, U, o) + Occ(res, 1..n, o)
                  /\ Occ(keys, U, o) \in Nat /\ Occ(res, 1..n, o) \in Nat
    BY <1>12, <2>1
  <2>3. /\ m \in MemType /\ AtZero(m)
        /\ \A o \in Obj : m.rc[o] = rc[o] + Occ(res, 1..n, o) - Occ(keys, U, o) - Count(val, o)
    BY <1>13, <2>1
  <2>4. stk' = over /\ sp' = sp /\ heap' = heap /\ Becomes(m) BY <1>16
  <2> HIDE DEF m, U
  <2>5. \A o \in Obj : m.rc[o] = rc[o] + Occ(stk', Slot, o) - Occ(stk, Slot, o)
    <3> TAKE o \in Obj
    <3> DEFINE p == Occ(res, 1..n, o)
               q == Occ(keys, U, o)
               c == Count(val, o)
               s == Occ(stk, Slot, o)
               t == Occ(stk', Slot, o)
    <3>1. t = s - c - q + p /\ p \in Nat /\ q \in Nat BY <2>2, <2>4
    <3>2. c \in Int /\ s \in Nat /\ rc[o] \in Int BY CountType, HeldFacts
    <3>3. m.rc[o] = rc[o] + p - q - c BY <2>3
    <3> HIDE DEF p, q, c, s, t
    <3>4. m.rc[o] = rc[o] + t - s BY <3>1, <3>2, <3>3
    <3> QED BY <3>4 DEF t, s
  <2>6. FrameSound(stk', sp', heap) BY <2>2, <2>4
  <2>7. status' = "error" /\ code' = code BY <1>16 DEF Raise
  <2>8. /\ status' \in {"running", "error", "done", "crashed"} /\ status # "ended"
        /\ code' \in Seq(Instr) /\ Quiet
    BY <1>1, <2>7, AtFacts, QuietFail
  <2> QED BY <2>3, <2>4, <2>5, <2>6, <2>8, FrameStep
<1> QED BY <1>2, <1>14, <1>15, <1>16 DEF over, m1, missing, n, res, val, key, keys

-----------------------------------------------------------------------------
(***************************************************************************)
(* The fields of a new record: which of the A keys below the top are met   *)
(* first, and which value each of them gets.                               *)
(***************************************************************************)
TextAt(i) == Text(KeyAt(i))
Last(i)   == Max(Alike(i, A))       \* the last field with the key of the i-th
Prev(i)   == Max(Alike(i, i - 1))   \* the one before the i-th
Firsts    == (1..A) \ Repeats
Lasts     == {Last(i) : i \in Firsts}
Nth(p)    == Min({i \in 1..A : Keys(i) >= p})   \* the p-th of Firsts

LEMMA AlikeFacts ==
  ASSUME NEW i, NEW j, j \in Nat
  PROVE  /\ \A k : k \in Alike(i, j) <=> k \in 1..j /\ TextAt(k) = TextAt(i)
         /\ Alike(i, j) # {} => /\ Max(Alike(i, j)) \in Alike(i, j)
                                /\ \A y \in Alike(i, j) : Max(Alike(i, j)) >= y
<1>1. \A k : k \in Alike(i, j) <=> k \in 1..j /\ TextAt(k) = TextAt(i)
  BY DEF Alike, SameText, TextAt, Text
<1> DEFINE S == Alike(i, j)
<1>2. S \subseteq 0..j BY <1>1
<1> HIDE DEF S
<1>3. S # {} => Max(S) \in S /\ \A y \in S : Max(S) >= y BY <1>2, MaxFacts
<1> QED BY <1>1, <1>3 DEF S

LEMMA LastFacts ==
  ASSUME A \in Nat, NEW i, i \in 1..A
  PROVE  /\ Last(i) \in 1..A /\ TextAt(Last(i)) = TextAt(i)
         /\ \A k \in 1..A : TextAt(k) = TextAt(i) => k <= Last(i)
<1>1. i \in Alike(i, A) BY AlikeFacts
<1>2. Last(i) \in Alike(i, A) /\ \A y \in Alike(i, A) : Last(i) >= y
  BY <1>1, AlikeFacts DEF Last
<1>3. Last(i) \in 1..A /\ TextAt(Last(i)) = TextAt(i) BY <1>2, AlikeFacts
<1>4. ASSUME NEW k \in 1..A, TextAt(k) = TextAt(i) PROVE k <= Last(i)
  <2>1. k \in Alike(i, A) BY <1>4, AlikeFacts
  <2>2. Last(i) >= k BY <1>2, <2>1
  <2> QED BY <1>3, <2>2
<1> QED BY <1>3, <1>4

LEMMA RepeatFacts ==
  ASSUME A \in Nat
  PROVE  /\ Repeats \subseteq 1..A /\ IsFiniteSet(Repeats)
         /\ \A i \in 1..A : i \in Repeats <=> \E k \in 1..A : k < i /\ TextAt(k) = TextAt(i)
<1>1. Repeats \subseteq 1..A BY DEF Repeats
<1>2. IsFiniteSet(Repeats)
  <2>1. 1 \in Int /\ A \in Int OBVIOUS
  <2>2. IsFiniteSet(1..A) BY <2>1, FS_Interval
  <2> QED BY <1>1, <2>2, FS_Subset
<1>3. ASSUME NEW i \in 1..A
      PROVE  i \in Repeats <=> \E k \in 1..A : k < i /\ TextAt(k) = TextAt(i)
  <2>1. i - 1 \in Nat OBVIOUS
  <2>2. \A k : k \in Alike(i, i - 1) <=> k \in 1..(i - 1) /\ TextAt(k) = TextAt(i)
    BY <2>1, AlikeFacts
  <2>3. \A k : k \in 1..(i - 1) <=> k \in 1..A /\ k < i OBVIOUS
  <2>4. i \in Repeats <=> Alike(i, i - 1) # {} BY DEF Repeats
  <2> QED BY <2>2, <2>3, <2>4
<1> QED BY <1>1, <1>2, <1>3

LEMMA PrevFacts ==
  ASSUME A \in Nat, NEW i, i \in Repeats
  PROVE  /\ Prev(i) \in 1..A /\ Prev(i) < i /\ TextAt(Prev(i)) = TextAt(i)
         /\ \A k \in 1..A : k < i /\ TextAt(k) = TextAt(i) => k <= Prev(i)
<1>1. i \in 1..A /\ Alike(i, i - 1) # {} BY DEF Repeats
<1> DEFINE j == i - 1
<1>2. j \in Nat /\ \A k : k \in 1..j <=> k \in 1..A /\ k < i BY <1>1
<1>3. Prev(i) = Max(Alike(i, j)) /\ Alike(i, j) # {} BY <1>1 DEF Prev
<1> HIDE DEF j
<1>4. /\ \A k : k \in Alike(i, j) <=> k \in 1..j /\ TextAt(k) = TextAt(i)
      /\ Prev(i) \in Alike(i, j) /\ \A y \in Alike(i, j) : Prev(i) >= y
  BY <1>2, <1>3, AlikeFacts
<1>5. Prev(i) \in 1..A /\ Prev(i) < i /\ TextAt(Prev(i)) = TextAt(i) BY <1>2, <1>4
<1>6. ASSUME NEW k \in 1..A, k < i, TextAt(k) = TextAt(i) PROVE k <= Prev(i)
  <2>1. k \in Alike(i, j) BY <1>2, <1>4, <1>6
  <2>2. Prev(i) >= k BY <1>4, <2>1
  <2> QED BY <1>5, <2>2
<1> QED BY <1>5, <1>6

LEMMA LastMoves ==
  ASSUME A \in Nat
  PROVE  [i \in Firsts |-> Last(i)] \in Bijection(Firsts, Lasts)
<1> DEFINE h == [i \in Firsts |-> Last(i)]
<1>1. h \in [Firsts -> Lasts] BY DEF Lasts
<1>2. \A l \in Lasts : \E i \in Firsts : h[i] = l BY DEF Lasts
<1>3. ASSUME NEW i \in Firsts, NEW j \in Firsts, h[i] = h[j] PROVE i = j
  <2>1. i \in 1..A /\ i \notin Repeats /\ j \in 1..A /\ j \notin Repeats BY DEF Firsts
  <2>2. Last(i) = Last(j) BY <1>3
  <2>3. TextAt(i) = TextAt(j) BY <2>1, <2>2, LastFacts
  <2>4. ~(i < j) /\ ~(j < i) BY <2>1, <2>3, RepeatFacts
  <2> QED BY <2>1, <2>4
<1>4. IsInjective(h) BY <1>1, <1>3 DEF IsInjective
<1> QED BY <1>1, <1>2, <1>4 DEF Bijection, Injection, Surjection

LEMMA NextAlike ==
  ASSUME A \in Nat, NEW k, k \in 1..A, k \notin Lasts
  PROVE  \E i \in Repeats : Prev(i) = k
<1>1. \E i \in 1..A : k < i /\ TextAt(i) = TextAt(k)
  <2> DEFINE S == {i \in 1..A : TextAt(i) = TextAt(k)}
  <2>1. S \subseteq Nat /\ k \in S OBVIOUS
  <2>2. \A i : i \in S <=> i \in 1..A /\ TextAt(i) = TextAt(k) OBVIOUS
  <2> HIDE DEF S
  <2>3. PICK f \in S : \A y \in S : f <= y BY <2>1, MinFacts
  <2>4. f \in 1..A /\ TextAt(f) = TextAt(k) BY <2>2, <2>3
  <2>5. f \notin Repeats
    <3> SUFFICES ASSUME f \in Repeats PROVE FALSE OBVIOUS
    <3>1. PICK y \in 1..A : y < f /\ TextAt(y) = TextAt(f) BY <2>4, RepeatFacts
    <3>2. y \in S BY <2>2, <2>4, <3>1
    <3> QED BY <2>3, <2>4, <3>1, <3>2
  <2>6. Last(f) \in Lasts BY <2>4, <2>5 DEF Lasts, Firsts
  <2>7. Last(f) \in 1..A /\ TextAt(Last(f)) = TextAt(k) /\ k <= Last(f)
    BY <2>4, LastFacts
  <2>8. Last(f) # k BY <2>6
  <2> QED BY <2>7, <2>8
<1> DEFINE N == {i \in 1..A : k < i /\ TextAt(i) = TextAt(k)}
<1>2. N \subseteq Nat /\ N # {} BY <1>1
<1>3. \A i : i \in N <=> i \in 1..A /\ k < i /\ TextAt(i) = TextAt(k) OBVIOUS
<1> HIDE DEF N
<1>4. PICK i \in N : \A y \in N : i <= y BY <1>2, MinFacts
<1>5. i \in 1..A /\ k < i /\ TextAt(i) = TextAt(k) BY <1>3, <1>4
<1>6. i \in Repeats BY <1>5, RepeatFacts
<1>7. Prev(i) \in 1..A /\ Prev(i) < i /\ TextAt(Prev(i)) = TextAt(i) /\ k <= Prev(i)
  BY <1>5, <1>6, PrevFacts
<1>8. ~(k < Prev(i))
  <2> SUFFICES ASSUME k < Prev(i) PROVE FALSE OBVIOUS
  <2>1. Prev(i) \in N BY <1>3, <1>5, <1>7
  <2>2. i <= Prev(i) BY <1>4, <2>1
  <2> QED BY <1>5, <1>7, <2>2
<1>9. Prev(i) = k BY <1>7, <1>8
<1> QED BY <1>6, <1>9

LEMMA PrevMoves ==
  ASSUME A \in Nat
  PROVE  [i \in Repeats |-> Prev(i)] \in Bijection(Repeats, (1..A) \ Lasts)
<1> DEFINE h == [i \in Repeats |-> Prev(i)]
           T == (1..A) \ Lasts
<1>1. ASSUME NEW i \in Repeats PROVE Prev(i) \in T
  <2>1. i \in 1..A BY DEF Repeats
  <2>2. Prev(i) \in 1..A /\ Prev(i) < i /\ TextAt(Prev(i)) = TextAt(i) BY PrevFacts
  <2>3. ASSUME NEW j \in Firsts, Prev(i) = Last(j) PROVE FALSE
    <3>1. j \in 1..A BY DEF Firsts
    <3>2. TextAt(Last(j)) = TextAt(j) BY <3>1, LastFacts
    <3>3. TextAt(i) = TextAt(j) BY <2>2, <2>3, <3>2
    <3>4. i <= Last(j) BY <2>1, <3>1, <3>3, LastFacts
    <3> QED BY <2>1, <2>2, <2>3, <3>4
  <2> QED BY <2>2, <2>3 DEF Lasts
<1>2. h \in [Repeats -> T] BY <1>1
<1>3. \A k \in T : \E i \in Repeats : h[i] = k BY NextAlike
<1>4. ASSUME NEW i \in Repeats, NEW j \in Repeats, h[i] = h[j] PROVE i = j
  <2>1. i \in 1..A /\ j \in 1..A BY DEF Repeats
  <2>2. Prev(i) = Prev(j) BY <1>4
  <2>3. /\ Prev(i) \in 1..A /\ Prev(i) < i /\ TextAt(Prev(i)) = TextAt(i)
        /\ Prev(j) < j /\ TextAt(Prev(j)) = TextAt(j)
    BY PrevFacts
  <2>4. TextAt(i) = TextAt(j) BY <2>2, <2>3
  <2>5. i < j => i <= Prev(j) BY <2>1, <2>4, PrevFacts
  <2>6. j < i => j <= Prev(i) BY <2>1, <2>4, PrevFacts
  <2> QED BY <2>1, <2>2, <2>3, <2>5, <2>6
<1>5. IsInjective(h) BY <1>2, <1>4 DEF IsInjective
<1> QED BY <1>2, <1>3, <1>5 DEF Bijection, Injection, Surjection

LEMMA KeysFacts ==
  ASSUME A \in Nat
  PROVE  /\ \A i \in 0..A : Keys(i) \in Nat /\ Keys(i) <= Keys(A)
         /\ Keys(0) = 0
         /\ \A i \in 1..A : /\ i \in Repeats => Keys(i) = Keys(i - 1)
                            /\ i \notin Repeats => Keys(i) = Keys(i - 1) + 1
         /\ \A i, j \in 0..A : i <= j => Keys(i) <= Keys(j)
<1>1. \A i \in 0..A : IsFiniteSet((1..i) \ Repeats)
  <2> TAKE i \in 0..A
  <2>1. 1 \in Int /\ i \in Int OBVIOUS
  <2>2. IsFiniteSet(1..i) BY <2>1, FS_Interval
  <2> QED BY <2>2, FS_Difference
<1>2. \A i \in 0..A : Keys(i) \in Nat BY <1>1, FS_CardinalityType DEF Keys
<1>3. ASSUME NEW i \in 0..A, NEW j \in 0..A, i <= j PROVE Keys(i) <= Keys(j)
  <2>1. (1..i) \ Repeats \in SUBSET ((1..j) \ Repeats) BY <1>3
  <2> QED BY <1>1, <2>1, FS_Subset DEF Keys
<1>4. Keys(0) = 0
  <2>1. (1..0) \ Repeats = {} OBVIOUS
  <2> QED BY <2>1, FS_EmptySet DEF Keys
<1>5. ASSUME NEW i \in 1..A
      PROVE  /\ i \in Repeats => Keys(i) = Keys(i - 1)
             /\ i \notin Repeats => Keys(i) = Keys(i - 1) + 1
  <2> DEFINE S == (1..(i - 1)) \ Repeats
  <2>1. i - 1 \in 0..A /\ i \notin S BY <1>5
  <2>2. IsFiniteSet(S) BY <1>1, <2>1
  <2>3. Cardinality(S) = Keys(i - 1) BY DEF Keys
  <2>4. ASSUME i \in Repeats PROVE (1..i) \ Repeats = S
    <3>1. \A k : k \in 1..i <=> k \in 1..(i - 1) \/ k = i BY <1>5
    <3> QED BY <2>4, <3>1
  <2>5. ASSUME i \notin Repeats PROVE (1..i) \ Repeats = S \cup {i}
    <3>1. \A k : k \in 1..i <=> k \in 1..(i - 1) \/ k = i BY <1>5
    <3> QED BY <2>5, <3>1
  <2> HIDE DEF S
  <2>6. Cardinality(S \cup {i}) = Cardinality(S) + 1 BY <2>1, <2>2, FS_AddElement
  <2> QED BY <2>3, <2>4, <2>5, <2>6 DEF Keys
<1>6. \A i \in 0..A : Keys(i) <= Keys(A)
  <2>1. A \in 0..A /\ \A i \in 0..A : i <= A OBVIOUS
  <2> QED BY <1>3, <2>1
<1> QED BY <1>2, <1>3, <1>4, <1>5, <1>6

LEMMA NthFacts ==
  ASSUME A \in Nat, NEW p, p \in 1..Keys(A)
  PROVE  Nth(p) \in Firsts /\ Keys(Nth(p)) = p
<1> DEFINE S == {i \in 1..A : Keys(i) >= p}
           q == Nth(p)
<1>1. A \in 0..A /\ Keys(A) \in Nat /\ p \in Nat /\ p >= 1 /\ Keys(A) >= p
  <2>1. A \in 0..A OBVIOUS
  <2>2. Keys(A) \in Nat BY <2>1, KeysFacts
  <2> QED BY <2>1, <2>2
<1>2. A # 0 BY <1>1, KeysFacts
<1>3. S \subseteq Nat /\ S # {} BY <1>1, <1>2
<1>4. \A i : i \in S <=> i \in 1..A /\ Keys(i) >= p OBVIOUS
<1>5. q = Min(S) BY DEF Nth
<1> HIDE DEF S, q
<1>6. q \in S /\ \A y \in S : q <= y BY <1>3, <1>5, MinFacts
<1>7. q \in 1..A /\ Keys(q) >= p /\ q - 1 \in 0..A BY <1>4, <1>6
<1>8. Keys(q) \in Nat /\ Keys(q - 1) \in Nat
  <2>1. q \in 0..A BY <1>7
  <2> QED BY <1>7, <2>1, KeysFacts
<1>9. Keys(q - 1) < p
  <2>1. CASE q = 1
    <3>1. q - 1 = 0 BY <2>1
    <3>2. Keys(q - 1) = 0 BY <3>1, KeysFacts
    <3> QED BY <1>1, <3>2
  <2>2. CASE q # 1
    <3>1. q - 1 \in 1..A /\ ~(q <= q - 1) BY <1>7, <2>2
    <3>2. ~(Keys(q - 1) >= p) BY <1>4, <1>6, <3>1
    <3> QED BY <1>1, <1>8, <3>2
  <2> QED BY <2>1, <2>2
<1>10. q \notin Repeats /\ Keys(q) = Keys(q - 1) + 1
  <2>1. Keys(q) # Keys(q - 1) BY <1>1, <1>7, <1>8, <1>9
  <2> QED BY <1>7, <2>1, KeysFacts
<1>11. Keys(q) = p BY <1>1, <1>7, <1>8, <1>9, <1>10
<1> QED BY <1>7, <1>10, <1>11 DEF Firsts, q

LEMMA NthMoves ==
  ASSUME A \in Nat
  PROVE  [p \in 1..Keys(A) |-> Nth(p)] \in Bijection(1..Keys(A), Firsts)
<1> DEFINE S == 1..Keys(A)
           h == [p \in S |-> Nth(p)]
<1>1. h \in [S -> Firsts] BY NthFacts
<1>2. ASSUME NEW p \in S, NEW q \in S, h[p] = h[q] PROVE p = q
  <2>1. Nth(p) = Nth(q) BY <1>2
  <2>2. Keys(Nth(p)) = p /\ Keys(Nth(q)) = q BY NthFacts
  <2> QED BY <2>1, <2>2
<1>3. ASSUME NEW i \in Firsts PROVE \E p \in S : h[p] = i
  <2>1. i \in 1..A /\ i \notin Repeats /\ i \in 0..A /\ i - 1 \in 0..A
    <3>1. i \in 1..A /\ i \notin Repeats BY DEF Firsts
    <3> QED BY <3>1
  <2> DEFINE p == Keys(i)
  <2>2. /\ p \in Nat /\ Keys(i - 1) \in Nat /\ p = Keys(i - 1) + 1
        /\ p <= Keys(A) /\ Keys(A) \in Nat
    <3>1. A \in 0..A OBVIOUS
    <3> QED BY <2>1, <3>1, KeysFacts
  <2>3. p \in S BY <2>2
  <2> HIDE DEF p
  <2>4. Nth(p) \in Firsts /\ Keys(Nth(p)) = p BY <2>3, NthFacts
  <2> DEFINE j == Nth(p)
  <2>5. j \in 1..A /\ j \in 0..A /\ j \notin Repeats /\ Keys(j) = p /\ j - 1 \in 0..A
    <3>1. j \in 1..A /\ j \notin Repeats /\ Keys(j) = p BY <2>4 DEF Firsts
    <3> QED BY <3>1
  <2> HIDE DEF j
  <2>6. ~(j < i)
    <3> SUFFICES ASSUME j < i PROVE FALSE OBVIOUS
    <3>1. j <= i - 1 BY <2>1, <2>5
    <3>2. Keys(j) <= Keys(i - 1) BY <2>1, <2>5, <3>1, KeysFacts
    <3> QED BY <2>2, <2>5, <3>2
  <2>7. ~(i < j)
    <3> SUFFICES ASSUME i < j PROVE FALSE OBVIOUS
    <3>1. i <= j - 1 BY <2>1, <2>5
    <3>2. Keys(i) <= Keys(j - 1) BY <2>1, <2>5, <3>1, KeysFacts
    <3>3. Keys(j) = Keys(j - 1) + 1 /\ Keys(j - 1) \in Nat BY <2>5, KeysFacts
    <3>4. Keys(i) = p BY DEF p
    <3> QED BY <2>2, <2>5, <3>2, <3>3, <3>4
  <2>8. j = i BY <2>1, <2>5, <2>6, <2>7
  <2>9. h[p] = i BY <2>3, <2>8 DEF j
  <2> QED BY <2>3, <2>9
<1>4. IsInjective(h) BY <1>1, <1>2 DEF IsInjective
<1> QED BY <1>1, <1>3, <1>4 DEF Bijection, Injection, Surjection

\* The keys and values below the top, the values the repeats replace, and the
\* fields of the record.
GivenKeys == [i \in 1..A |-> Str(KeyAt(i))]
Given     == [i \in 1..A |-> ValAt(i)]
Lost      == [i \in Repeats |-> ValAt(Prev(i))]
NewFields ==
  [p \in 1..Keys(A) |-> [name |-> KeyAt(Nth(p)), val |-> ValAt(Last(Nth(p)))]]

LEMMA OddOrEven == \A k \in Nat : \E i \in Nat : k = 2 * i \/ k = 2 * i + 1
<1> TAKE k \in Nat
<1> DEFINE i == k \div 2
<1>1. i \in Nat /\ (k = 2 * i \/ k = 2 * i + 1) OBVIOUS
<1> QED BY <1>1

\* Slots that hold g and h by turns hold what g and h hold.
Alternate(f, b, e, n, g, h, o) ==
  /\ b \in Int /\ e \in Int /\ n \in Nat /\ e = b + 2 * n
  /\ \A i \in 1..n : /\ Count(f[b + 2 * i - 1], o) = Count(g[i], o)
                     /\ Count(f[b + 2 * i], o) = Count(h[i], o)

LEMMA PairsCount ==
  ASSUME NEW f, NEW b, NEW e, NEW n, NEW g, NEW h, NEW o, Alternate(f, b, e, n, g, h, o)
  PROVE  Occ(f, (b + 1)..e, o) = Occ(g, 1..n, o) + Occ(h, 1..n, o)
<1> DEFINE odd(i) == b + 2 * i - 1
           even(i) == b + 2 * i
           S == 1..n
           U == {odd(i) : i \in S}
           V == {even(i) : i \in S}
           p == [i \in S |-> odd(i)]
           q == [i \in S |-> even(i)]
<1>0. /\ b \in Int /\ e \in Int /\ n \in Nat /\ e = b + 2 * n
      /\ \A i \in 1..n : /\ Count(f[b + 2 * i - 1], o) = Count(g[i], o)
                         /\ Count(f[b + 2 * i], o) = Count(h[i], o)
  BY DEF Alternate
<1> USE <1>0
<1>1. p \in Bijection(S, U)
  <2>1. p \in [S -> U] OBVIOUS
  <2>2. \A i, j \in S : p[i] = p[j] => i = j OBVIOUS
  <2>3. \A u \in U : \E i \in S : p[i] = u OBVIOUS
  <2> HIDE DEF p, U, S
  <2> QED BY <2>1, <2>2, <2>3 DEF Bijection, Injection, IsInjective, Surjection
<1>2. q \in Bijection(S, V)
  <2>1. q \in [S -> V] OBVIOUS
  <2>2. \A i, j \in S : q[i] = q[j] => i = j OBVIOUS
  <2>3. \A u \in V : \E i \in S : q[i] = u OBVIOUS
  <2> HIDE DEF q, V, S
  <2> QED BY <2>1, <2>2, <2>3 DEF Bijection, Injection, IsInjective, Surjection
<1>3. (b + 1)..e = U \cup V
  <2>1. ASSUME NEW d \in (b + 1)..e PROVE d \in U \cup V
    <3> DEFINE k == d - b
    <3>1. k \in Nat /\ 1 <= k /\ k <= 2 * n BY <2>1
    <3>2. PICK i \in Nat : k = 2 * i \/ k = 2 * i + 1 BY <3>1, OddOrEven
    <3>3. CASE k = 2 * i
      <4>1. i \in S /\ d = even(i) BY <3>1, <3>3
      <4> QED BY <4>1
    <3>4. CASE k = 2 * i + 1
      <4>1. i + 1 \in S /\ d = odd(i + 1) BY <3>1, <3>4
      <4> QED BY <4>1
    <3> QED BY <3>2, <3>3, <3>4
  <2>2. U \cup V \subseteq (b + 1)..e OBVIOUS
  <2> QED BY <2>1, <2>2
<1>4. U \cap V = {} OBVIOUS
<1>5. IsFiniteSet(S)
  <2>1. 1 \in Int /\ n \in Int OBVIOUS
  <2> QED BY <2>1, FS_Interval
<1>6. U \subseteq (b + 1)..e /\ V \subseteq (b + 1)..e BY <1>3
<1>7. IsFiniteSet(U) /\ IsFiniteSet(V)
  <2>1. b + 1 \in Int /\ e \in Int OBVIOUS
  <2>2. IsFiniteSet((b + 1)..e) BY <2>1, FS_Interval
  <2> QED BY <1>6, <2>2, FS_Subset
<1>8. \A i \in S : Count(g[i], o) = Count(f[p[i]], o) /\ Count(h[i], o) = Count(f[q[i]], o)
  OBVIOUS
<1> HIDE DEF p, q, U, V, S
<1>9. Occ(g, S, o) = Occ(f, U, o) BY <1>1, <1>5, <1>8, OccMove
<1>10. Occ(h, S, o) = Occ(f, V, o) BY <1>2, <1>5, <1>8, OccMove
<1>11. Occ(f, U \cup V, o) = Occ(f, U, o) + Occ(f, V, o) BY <1>4, <1>7, OccSplit
<1> QED BY <1>3, <1>9, <1>10, <1>11 DEF S

LEMMA NewFieldsFacts ==
  ASSUME A \in Nat
  PROVE  /\ Keys(A) \in Nat /\ Len(NewFields) = Keys(A)
         /\ \A p \in 1..Keys(A) : /\ NewFields[p].name = KeyAt(Nth(p))
                                  /\ NewFields[p].val = ValAt(Last(Nth(p)))
<1>1. Keys(A) \in Nat
  <2>1. A \in 0..A OBVIOUS
  <2> QED BY <2>1, KeysFacts
<1>2. DOMAIN NewFields = 1..Keys(A) BY DEF NewFields
<1>3. Len(NewFields) = Keys(A) BY <1>1 DEF NewFields
<1>4. \A p \in 1..Keys(A) : /\ NewFields[p].name = KeyAt(Nth(p))
                            /\ NewFields[p].val = ValAt(Last(Nth(p)))
  BY DEF NewFields
<1> QED BY <1>1, <1>3, <1>4

\* The record owns every key and value that is not dropped on the way.
LEMMA NewFieldsCount ==
  ASSUME A \in Nat, NewFields \in Seq(Field), NEW o
  PROVE  /\ FieldCount(NewFields, o)
              = Occ(GivenKeys, 1..A, o) - Occ(GivenKeys, Repeats, o)
                  + Occ(Given, 1..A, o) - Occ(Lost, Repeats, o)
         /\ Occ(GivenKeys, 1..A, o) \in Nat /\ Occ(GivenKeys, Repeats, o) \in Nat
         /\ Occ(Given, 1..A, o) \in Nat /\ Occ(Lost, Repeats, o) \in Nat
<1> DEFINE I == 1..A
           P == 1..Keys(A)
           R == Repeats
           F == Firsts
           L == Lasts
           ns == Names(NewFields)
           vs == Vals(NewFields)
           ls == [i \in F |-> ValAt(Last(i))]
           hn == [p \in P |-> Nth(p)]
           hl == [i \in F |-> Last(i)]
           hp == [i \in R |-> Prev(i)]
<1>1. Keys(A) \in Nat /\ Len(NewFields) = Keys(A) BY NewFieldsFacts
<1>2. \A p \in P : ns[p] = Str(KeyAt(Nth(p))) /\ vs[p] = ValAt(Last(Nth(p)))
  BY <1>1, NewFieldsFacts DEF Names, Vals
<1>3. FieldCount(NewFields, o) = Occ(ns, P, o) + Occ(vs, P, o)
  BY <1>1, FieldCountType DEF FieldCount
<1>4. IsFiniteSet(I) /\ IsFiniteSet(P)
  <2>1. 1 \in Int /\ A \in Int /\ Keys(A) \in Int BY <1>1
  <2>2. IsFiniteSet(I) BY <2>1, FS_Interval
  <2>3. IsFiniteSet(P) BY <2>1, FS_Interval
  <2> QED BY <2>2, <2>3
<1>5. R \subseteq I /\ IsFiniteSet(R) /\ F = I \ R BY RepeatFacts DEF Firsts
<1>6. F \subseteq I /\ IsFiniteSet(F) BY <1>4, <1>5, FS_Subset
<1>7. L \subseteq I
  <2>1. \A i \in F : Last(i) \in I BY <1>6, LastFacts
  <2> QED BY <2>1 DEF Lasts
<1>8. hn \in Bijection(P, F) /\ hl \in Bijection(F, L) /\ hp \in Bijection(R, I \ L)
  BY NthMoves, LastMoves, PrevMoves
<1>9. \A p \in P : /\ hn[p] = Nth(p) /\ Nth(p) \in F /\ Nth(p) \in I
  BY <1>6, NthFacts
<1>10. /\ \A i \in I : GivenKeys[i] = Str(KeyAt(i)) /\ Given[i] = ValAt(i)
       /\ \A i \in R : Lost[i] = ValAt(Prev(i))
  BY DEF GivenKeys, Given, Lost
<1>11. \A p \in P : /\ Count(ns[p], o) = Count(GivenKeys[hn[p]], o)
                    /\ Count(vs[p], o) = Count(ls[hn[p]], o)
  <2>1. \A p \in P : GivenKeys[hn[p]] = ns[p] BY <1>2, <1>9, <1>10
  <2>2. \A p \in P : ls[hn[p]] = vs[p] BY <1>2, <1>9
  <2> QED BY <2>1, <2>2
<1>12. \A i \in F : Count(ls[i], o) = Count(Given[hl[i]], o)
  <2>1. \A i \in F : Last(i) \in I BY <1>6, LastFacts
  <2> QED BY <1>10, <2>1
<1>13. \A i \in R : Count(Lost[i], o) = Count(Given[hp[i]], o)
  <2>1. \A i \in R : Prev(i) \in I BY PrevFacts
  <2> QED BY <1>10, <2>1
<1> HIDE DEF I, P, R, F, L, ns, vs, ls, hn, hl, hp
<1>14. Occ(ns, P, o) = Occ(GivenKeys, F, o) BY <1>4, <1>8, <1>11, OccMove
<1>15. Occ(vs, P, o) = Occ(ls, F, o) BY <1>4, <1>8, <1>11, OccMove
<1>16. Occ(ls, F, o) = Occ(Given, L, o) BY <1>6, <1>8, <1>12, OccMove
<1>17. Occ(Lost, R, o) = Occ(Given, I \ L, o) BY <1>5, <1>8, <1>13, OccMove
<1>18. Occ(GivenKeys, I, o) = Occ(GivenKeys, I \ R, o) + Occ(GivenKeys, R, o)
  BY <1>4, <1>5, OccWithout
<1>19. Occ(Given, I, o) = Occ(Given, I \ L, o) + Occ(Given, L, o) BY <1>4, <1>7, OccWithout
<1>20. /\ Occ(GivenKeys, I, o) \in Nat /\ Occ(GivenKeys, R, o) \in Nat
       /\ Occ(Given, I, o) \in Nat /\ Occ(Lost, R, o) \in Nat
  BY <1>4, <1>5, OccType
<1>21. Occ(GivenKeys, I \ R, o) \in Nat /\ Occ(Given, L, o) \in Nat
  <2>1. IsFiniteSet(L) /\ IsFiniteSet(I \ R) BY <1>4, <1>5, <1>6, <1>7, FS_Subset
  <2> QED BY <2>1, OccType
<1>22. Occ(ns, P, o) = Occ(GivenKeys, I, o) - Occ(GivenKeys, R, o)
  BY <1>5, <1>14, <1>18, <1>20, <1>21
<1>23. Occ(vs, P, o) = Occ(Given, I, o) - Occ(Lost, R, o)
  BY <1>15, <1>16, <1>17, <1>19, <1>20, <1>21
<1>24. FieldCount(NewFields, o) = Occ(GivenKeys, I, o) - Occ(GivenKeys, R, o)
                                    + Occ(Given, I, o) - Occ(Lost, R, o)
  BY <1>3, <1>20, <1>22, <1>23
<1> QED BY <1>20, <1>24 DEF I, R

\* What NEW_RECORD finds below the top.
RecordOperands ==
  /\ At("NEW_RECORD") /\ A > 0 /\ Operands(2 * A)
  /\ \A i \in 1..A : stk[sp - 2 * A + 2 * i - 1].type = "string"

LEMMA RecordOperandFacts ==
  ASSUME RecordInv, RecordOperands
  PROVE  /\ A \in Nat
         /\ \A i \in 1..A :
              /\ KeyAt(i) \in Obj /\ heap[KeyAt(i)].class = "string"
              /\ ValAt(i) \in Value /\ Agrees(heap, ValAt(i))
              /\ GivenKeys[i] = Str(KeyAt(i)) /\ Given[i] = ValAt(i)
              /\ \A o : /\ Count(stk[sp - 2 * A + 2 * i - 1], o) = Count(GivenKeys[i], o)
                        /\ Count(stk[sp - 2 * A + 2 * i], o) = Count(Given[i], o)
<1>1. A \in Nat /\ A > 0 /\ sp \in Int /\ 2 * A <= sp
  BY AtFacts, StateFacts DEF RecordOperands, Operands
<1>2. SUFFICES ASSUME NEW i \in 1..A
               PROVE  /\ KeyAt(i) \in Obj /\ heap[KeyAt(i)].class = "string"
                      /\ ValAt(i) \in Value /\ Agrees(heap, ValAt(i))
                      /\ GivenKeys[i] = Str(KeyAt(i)) /\ Given[i] = ValAt(i)
                      /\ \A o : /\ Count(stk[sp - 2 * A + 2 * i - 1], o) = Count(GivenKeys[i], o)
                                /\ Count(stk[sp - 2 * A + 2 * i], o) = Count(Given[i], o)
  BY <1>1
<1> DEFINE j == sp - 2 * A + 2 * i - 1
           k == sp - 2 * A + 2 * i
<1>3. j \in 1..sp /\ k \in 1..sp BY <1>1, <1>2
<1>4. KeyAt(i) = stk[j].data /\ ValAt(i) = stk[k] BY DEF KeyAt, ValAt
<1>5. stk[j].type = "string" BY <1>2 DEF RecordOperands
<1> HIDE DEF j, k
<1>6. /\ stk[j] \in Value /\ Agrees(heap, stk[j]) /\ stk[k] \in Value /\ Agrees(heap, stk[k])
  BY <1>3, LiveFacts
<1>7. KeyAt(i) \in Obj /\ heap[KeyAt(i)].class = "string" BY <1>4, <1>5, <1>6, TextFacts
<1>8. GivenKeys[i] = Str(KeyAt(i)) /\ Given[i] = ValAt(i) BY <1>2 DEF GivenKeys, Given
<1>9. \A o : Count(stk[j], o) = Count(GivenKeys[i], o)
  <2> DEFINE v == stk[j]
             w == Str(KeyAt(i))
  <2>1. v.type = w.type /\ v.data = w.data BY <1>4, <1>5 DEF Str
  <2> HIDE DEF v, w
  <2>2. \A o : Count(v, o) = Count(w, o) BY <2>1, CountSame
  <2> QED BY <1>8, <2>2 DEF v, w
<1> QED BY <1>4, <1>6, <1>7, <1>8, <1>9 DEF j, k

LEMMA NewFieldsLegal ==
  ASSUME RecordInv, RecordOperands
  PROVE  NewFields \in Seq(Field) /\ Legal(heap, NewFields)
<1> DEFINE fs == NewFields
           n == Keys(A)
<1>1. A \in Nat BY RecordOperandFacts
<1>2. /\ n \in Nat /\ Len(fs) = n
      /\ \A p \in 1..n : fs[p].name = KeyAt(Nth(p)) /\ fs[p].val = ValAt(Last(Nth(p)))
  BY <1>1, NewFieldsFacts
<1>3. \A p \in 1..n : Nth(p) \in 1..A /\ Nth(p) \in Firsts /\ Nth(p) \notin Repeats
  BY <1>1, NthFacts DEF Firsts
<1>4. \A p \in 1..n : Last(Nth(p)) \in 1..A BY <1>1, <1>3, LastFacts
<1>5. \A p \in 1..n : /\ KeyAt(Nth(p)) \in Obj /\ heap[KeyAt(Nth(p))].class = "string"
                      /\ ValAt(Last(Nth(p))) \in Value /\ Agrees(heap, ValAt(Last(Nth(p))))
  BY <1>3, <1>4, RecordOperandFacts
<1>6. fs \in Seq(Field)
  <2>1. \A p \in 1..n : [name |-> KeyAt(Nth(p)), val |-> ValAt(Last(Nth(p)))] \in Field
    BY <1>5 DEF Field
  <2>2. fs = [p \in 1..n |-> [name |-> KeyAt(Nth(p)), val |-> ValAt(Last(Nth(p)))]]
    BY DEF NewFields
  <2> HIDE DEF fs, n
  <2>3. fs \in [1..n -> Field] BY <2>1, <2>2
  <2> QED BY <1>2, <2>3, SeqDef
<1>7. \A p \in 1..Len(fs) : heap[fs[p].name].class = "string" /\ Agrees(heap, fs[p].val)
  BY <1>2, <1>5
<1>8. ASSUME NEW p \in 1..Len(fs), NEW q \in 1..Len(fs), p # q
      PROVE  heap[fs[p].name].text # heap[fs[q].name].text
  <2>1. p \in 1..n /\ q \in 1..n BY <1>2, <1>8
  <2>2. Nth(p) # Nth(q) BY <1>1, <1>8, <2>1, NthFacts
  <2>3. TextAt(Nth(p)) # TextAt(Nth(q))
    <3>1. Nth(p) \in 1..A /\ Nth(q) \in 1..A /\ Nth(p) \notin Repeats /\ Nth(q) \notin Repeats
      BY <1>3, <2>1
    <3>2. Nth(p) < Nth(q) \/ Nth(q) < Nth(p) BY <1>1, <2>2, <3>1
    <3> QED BY <1>1, <3>1, <3>2, RepeatFacts
  <2> QED BY <1>2, <2>1, <2>3 DEF TextAt, Text
<1> QED BY <1>6, <1>7, <1>8 DEF Legal

LEMMA NewRecordForgets ==
  ASSUME RecordInv, RecordOperands, Continue, NEW o
  PROVE  /\ Forgotten(o) = Occ(GivenKeys, Repeats, o) + Occ(Given, Repeats, o)
         /\ Forgotten(o) \in Nat
         /\ Occ(GivenKeys, Repeats, o) \in Nat /\ Occ(Given, Repeats, o) \in Nat
         /\ heap[o].class = "free" => Forgotten(o) = 0
<1>1. A \in Nat /\ Repeats \subseteq 1..A /\ IsFiniteSet(Repeats)
  BY RecordOperandFacts, RepeatFacts
<1>2. \A i \in Repeats : GivenKeys[i] = Str(KeyAt(i)) /\ Given[i] = ValAt(i)
  BY <1>1, RecordOperandFacts
<1>3. Cardinality({i \in Repeats : KeyAt(i) = o}) = Occ(GivenKeys, Repeats, o)
  <2>1. \A i \in Repeats : KeyAt(i) = o <=> Holds(GivenKeys[i], o)
    <3> TAKE i \in Repeats
    <3>1. KeyAt(i) \in Obj BY <1>1, RecordOperandFacts
    <3>2. IsObject(Str(KeyAt(i))) BY <3>1, StrFacts
    <3>3. Str(KeyAt(i)).data = KeyAt(i) BY DEF Str
    <3> QED BY <1>2, <3>2, <3>3 DEF Holds
  <2>2. {i \in Repeats : KeyAt(i) = o} = {i \in Repeats : Holds(GivenKeys[i], o)} BY <2>1
  <2> QED BY <2>2 DEF Occ
<1>4. Cardinality({i \in Repeats : Holds(ValAt(i), o)}) = Occ(Given, Repeats, o)
  <2>1. {i \in Repeats : Holds(ValAt(i), o)} = {i \in Repeats : Holds(Given[i], o)} BY <1>2
  <2> QED BY <2>1 DEF Occ
<1>5. Done("NEW_RECORD") /\ ~Done("SET_ELEMENT") /\ A > 0
  BY DEF Done, At, RecordOperands, Continue
<1>6. Forgotten(o) = Occ(GivenKeys, Repeats, o) + Occ(Given, Repeats, o)
  BY <1>3, <1>4, <1>5 DEF Forgotten
<1>7. Occ(GivenKeys, Repeats, o) \in Nat /\ Occ(Given, Repeats, o) \in Nat BY <1>1, OccType
<1>8. ASSUME heap[o].class = "free"
      PROVE  Occ(GivenKeys, Repeats, o) = 0 /\ Occ(Given, Repeats, o) = 0
  <2>1. ASSUME NEW i \in Repeats PROVE Count(GivenKeys[i], o) = 0 /\ Count(Given[i], o) = 0
    <3>1. /\ heap[KeyAt(i)].class = "string" /\ Agrees(heap, ValAt(i))
          /\ GivenKeys[i] = Str(KeyAt(i)) /\ Given[i] = ValAt(i)
      BY <1>1, RecordOperandFacts
    <3>2. ~Holds(GivenKeys[i], o) BY <1>8, <3>1 DEF Holds, Str
    <3>3. ~Holds(Given[i], o) BY <1>8, <3>1 DEF Holds, Agrees, IsObject, ObjectType
    <3> QED BY <3>2, <3>3 DEF Count
  <2> QED BY <2>1, OccNone
<1> QED BY <1>6, <1>7, <1>8

LEMMA NewRecordStep ==
  ASSUME RecordInv, RecordOperands, Forget, NEW x, x \in Free,
         Allocated(heap, heap', x, RecordBody(NewFields)),
         Collapse(2 * A - 1, Record(x)),
         Becomes(Retain(ReleaseAll(RetainAll(Mem, Given, Repeats), Lost, Repeats), Record(x))),
         Continue
  PROVE  RecordInv'
<1> DEFINE v == Record(x)
           b == RecordBody(NewFields)
           R == Repeats
           m0 == RetainAll(Mem, Given, R)
           m1 == ReleaseAll(m0, Lost, R)
           m == Retain(m1, v)
           n == 2 * A - 1
<1>1. At("NEW_RECORD") /\ A \in Nat /\ A > 0 /\ sp \in Int /\ 2 * A <= sp
  BY RecordOperandFacts, StateFacts DEF RecordOperands, Operands
<1>2. NewFields \in Seq(Field) /\ Legal(heap, NewFields) BY NewFieldsLegal
<1>3. b \in Body /\ b.class = "record" /\ FieldsIn(b) = NewFields BY <1>2, NewBodyFacts
<1>4. x \in Obj /\ v \in Value /\ v.type = "record" /\ v.data = x BY StrFacts DEF Free, Record
<1>5. /\ HeapWritten(heap, heap', x, b) /\ Agrees(heap', v)
      /\ \A o : FieldCount(Fields(x), o) = 0
  <2> DEFINE hq == heap'
  <2>1. Allocated(heap, hq, x, b) OBVIOUS
  <2> HIDE DEF hq, b, v
  <2>2. Legal(heap, FieldsIn(b)) BY <1>2, <1>3
  <2>3. /\ HeapWritten(heap, hq, x, b) /\ Agrees(hq, v)
        /\ \A o : FieldCount(Fields(x), o) = 0
    BY <1>3, <1>4, <2>1, <2>2, AllocFacts
  <2> QED BY <2>3 DEF hq
<1>6. Mem \in MemType /\ AtZero(Mem) /\ Mem.dying = {} /\ Mem.rc = rc BY <1>1, AtFacts, HeldFacts
<1>7. IsFiniteSet(R) BY <1>1, RepeatFacts
<1>8. Becomes(m) /\ Collapse(n, v) /\ Continue OBVIOUS
<1> HIDE DEF R, v, b
<1>9. m0 \in MemType /\ m0.dying = {} /\ \A o \in Obj : m0.rc[o] = rc[o] + Occ(Given, R, o)
  BY <1>6, <1>7, RetainAllType, RetainsSpare, RetainAllCount
<1>10. AtZero(m0) BY <1>9 DEF AtZero
<1> HIDE DEF m0
<1>11. m1 \in MemType /\ AtZero(m1) /\ \A o \in Obj : m1.rc[o] = m0.rc[o] - Occ(Lost, R, o)
  BY <1>7, <1>9, <1>10, ReleaseAllType, ReleaseAllAtZero, ReleaseAllCount
<1>12. \A o \in m1.dying : ~Holds(v, o)
  <2> SUFFICES ASSUME NEW o, o \in m1.dying, Holds(v, o) PROVE FALSE OBVIOUS
  <2>1. o = x BY <1>4 DEF Holds
  <2>2. o \in Obj /\ m0.rc[o] \in 1..Occ(Lost, R, o)
    BY <1>9 DEF ReleaseAll
  <2>3. Occ(Lost, R, o) = 0
    <3>1. heap[o].class = "free" BY <2>1 DEF Free
    <3>2. ASSUME NEW i \in R PROVE Count(Lost[i], o) = 0
      <4>1. Prev(i) \in 1..A BY <1>1, PrevFacts DEF R
      <4>2. Lost[i] = ValAt(Prev(i)) /\ Agrees(heap, ValAt(Prev(i)))
        BY <4>1, RecordOperandFacts DEF Lost, R
      <4>3. ~Holds(Lost[i], o) BY <3>1, <4>2 DEF Holds, Agrees, IsObject, ObjectType
      <4> QED BY <4>3 DEF Count
    <3> QED BY <3>2, OccNone
  <2> QED BY <2>2, <2>3
<1> HIDE DEF m1
<1>13. m \in MemType /\ AtZero(m) /\ \A o \in Obj : m.rc[o] = m1.rc[o] + Count(v, o)
  BY <1>11, <1>12, RetainType, RetainAtZero, RetainCount
<1> HIDE DEF m
<1>14. n \in Nat /\ n < sp BY <1>1
<1>15. \A o : Occ(stk, (sp - n)..sp, o) = Occ(GivenKeys, 1..A, o) + Occ(Given, 1..A, o)
  <2> TAKE o
  <2> DEFINE base == sp - 2 * A
             keys == GivenKeys
             vals == Given
             a == A
             e == sp
  <2>1. base \in Int /\ e \in Int /\ a \in Nat /\ e = base + 2 * a /\ base + 1 = sp - n BY <1>1
  <2>2. \A i \in 1..a : /\ Count(stk[base + 2 * i - 1], o) = Count(keys[i], o)
                        /\ Count(stk[base + 2 * i], o) = Count(vals[i], o)
    BY RecordOperandFacts
  <2> HIDE DEF base, keys, vals, a, e
  <2>3. Alternate(stk, base, e, a, keys, vals, o) BY <2>1, <2>2 DEF Alternate
  <2>4. Occ(stk, (base + 1)..e, o) = Occ(keys, 1..a, o) + Occ(vals, 1..a, o)
    BY <2>3, PairsCount
  <2> QED BY <2>1, <2>4 DEF keys, vals, a, e
<1>16. \A o : /\ Forgotten(o) = Occ(GivenKeys, R, o) + Occ(Given, R, o)
              /\ Forgotten(o) \in Nat
              /\ Occ(GivenKeys, R, o) \in Nat /\ Occ(Given, R, o) \in Nat
              /\ heap[o].class = "free" => Forgotten(o) = 0
  BY NewRecordForgets DEF R
<1>17. ASSUME NEW o \in Obj
       PROVE  m.rc[o] = rc[o] + Count(v, o) - Occ(stk, (sp - n)..sp, o)
                          + FieldCount(FieldsIn(b), o) - FieldCount(Fields(x), o)
                          + Forgotten(o)
  <2> DEFINE c == Count(v, o)
             k == Occ(GivenKeys, 1..A, o)
             g == Occ(Given, 1..A, o)
             kr == Occ(GivenKeys, R, o)
             gr == Occ(Given, R, o)
             l == Occ(Lost, R, o)
             f == FieldCount(NewFields, o)
  <2>1. f = k - kr + g - l /\ k \in Nat /\ kr \in Nat /\ g \in Nat /\ l \in Nat
    BY <1>1, <1>2, NewFieldsCount DEF R
  <2>2. gr \in Nat /\ Forgotten(o) = kr + gr BY <1>16
  <2>3. c \in Int /\ rc[o] \in Int BY CountType, HeldFacts
  <2>4. FieldCount(FieldsIn(b), o) = f /\ FieldCount(Fields(x), o) = 0 BY <1>3, <1>5
  <2>5. Occ(stk, (sp - n)..sp, o) = k + g BY <1>15
  <2>6. m0.rc[o] = rc[o] + gr /\ m1.rc[o] = m0.rc[o] - l /\ m.rc[o] = m1.rc[o] + c
    BY <1>9, <1>11, <1>13
  <2> HIDE DEF c, k, g, kr, gr, l, f
  <2>7. m.rc[o] = rc[o] + c - (k + g) + f - 0 + (kr + gr) BY <2>1, <2>2, <2>3, <2>6
  <2> QED BY <2>2, <2>4, <2>5, <2>7 DEF c
<1> HIDE DEF n
<1>18. \A o \in Obj : Forgotten(o) \in Nat /\ (heap[o].class = "free" => Forgotten(o) = 0)
  BY <1>16
<1> QED BY <1>1, <1>4, <1>5, <1>8, <1>11, <1>13, <1>14, <1>17, <1>18, CollapseHeapStep

LEMMA NewRecordKeeps == ASSUME RecordInv, NewRecord, Forget PROVE RecordInv'
<1> DEFINE at(p) == Min({i \in 1..A : Keys(i) >= p})
           field(p) == [name |-> KeyAt(at(p)), val |-> ValAt(Max(Alike(at(p), A)))]
           given == [i \in 1..A |-> ValAt(i)]
           lost  == [i \in Repeats |-> ValAt(Max(Alike(i, i - 1)))]
           m1 == ReleaseAll(RetainAll(Mem, given, Repeats), lost, Repeats)
<1>1. RecordOperands BY DEF NewRecord, RecordOperands
<1>2. \/ \E o \in Free :
           /\ heap' = [heap EXCEPT ![o] = RecordBody([p \in 1..Keys(A) |-> field(p)])]
           /\ Collapse(2 * A - 1, Record(o))
           /\ Becomes(Retain(m1, Record(o)))
           /\ Continue
      \/ Fail
  BY DEF NewRecord
<1>3. /\ [p \in 1..Keys(A) |-> field(p)] = NewFields
      /\ given = Given /\ lost = Lost
  BY DEF NewFields, Nth, Last, Given, Lost, Prev
<1> HIDE DEF field, given, lost
<1>4. CASE \E o \in Free :
             /\ heap' = [heap EXCEPT ![o] = RecordBody([p \in 1..Keys(A) |-> field(p)])]
             /\ Collapse(2 * A - 1, Record(o))
             /\ Becomes(Retain(m1, Record(o)))
             /\ Continue
  <2>1. PICK x \in Free :
          /\ Allocated(heap, heap', x, RecordBody(NewFields))
          /\ Collapse(2 * A - 1, Record(x))
          /\ Becomes(Retain(ReleaseAll(RetainAll(Mem, Given, Repeats), Lost, Repeats), Record(x)))
          /\ Continue
    BY <1>3, <1>4 DEF Allocated
  <2> QED BY <1>1, <2>1, NewRecordStep
<1>5. CASE Fail
  <2>1. At("NEW_RECORD") BY DEF NewRecord
  <2> QED BY <1>5, <2>1, FailStep
<1> QED BY <1>2, <1>4, <1>5

-----------------------------------------------------------------------------
(***************************************************************************)
(* The steps together, and what the invariant says of the model's own      *)
(* definitions.                                                            *)
(***************************************************************************)
LEMMA RecordNext ==
  RecordInv /\ Disciplined /\ [Next /\ Forget]_<<vars, forgotten>> => RecordInv'
<1> SUFFICES ASSUME RecordInv, Disciplined, [Next /\ Forget]_<<vars, forgotten>>
             PROVE  RecordInv'
  OBVIOUS
<1>1. CASE UNCHANGED <<vars, forgotten>> BY <1>1, UnchangedKeeps
<1>2. ASSUME Next, Forget PROVE RecordInv'
  <2>1. ASSUME Stack PROVE RecordInv'
    BY <1>2, <2>1, PushIntKeeps, LoadConstKeeps, LoadLocalKeeps, FetchLocalKeeps,
       StoreLocalKeeps, MoveKeeps, PopKeeps, AddKeeps DEF Stack
  <2>2. ASSUME Reads PROVE RecordInv'
    BY <1>2, <2>2, GetElementKeeps, GetFieldKeeps, LoadElementKeeps, FetchElementKeeps,
       LoadFieldKeeps, FetchFieldKeeps, UnpackFieldsKeeps DEF Reads
  <2>3. ASSUME Writes PROVE RecordInv'
    BY <1>2, <2>3, NewRangeKeeps, NewEmptyRecordKeeps, NewRecordKeeps, SetElementKeeps,
       PutFieldKeeps, UpdateElementKeeps, UpdateFieldKeeps DEF Writes
  <2> QED
    BY <1>2, <2>1, <2>2, <2>3, NextStatementKeeps, FinishKeeps, FreeObjectKeeps, DeinitKeeps,
       EndedKeeps DEF Next
<1> QED BY <1>1, <1>2

LEMMA InitRecord == Init /\ NoneForgotten => RecordInv BY InitRecordInv

LEMMA RecordSafety == ForgettingSpec /\ []Disciplined => []RecordInv
  BY InitRecord, RecordNext, PTL DEF ForgettingSpec

LEMMA RecordInvType == RecordInv => TypeOK
<1> SUFFICES ASSUME RecordInv PROVE TypeOK OBVIOUS
<1>1. rc \in [Obj -> Int] /\ dying \subseteq Obj BY DEF RecordInv, MemType, Mem
<1>2. \A s \in Slot : s > sp => stk[s] = Nil BY StateFacts DEF FrameSound
<1>3. /\ code \in Seq(Instr)
      /\ status \in {"running", "error", "done", "crashed", "ended"}
  BY DEF RecordInv
<1> QED BY <1>1, <1>2, <1>3, StateFacts DEF TypeOK

\* The holders of an object are counted alike in the model and in the proofs.
LEMMA HoldersCounted ==
  ASSUME RecordInv, NEW o \in Obj
  PROVE  Holders(o) = Occ(stk, Slot, o) + RecordCount(heap, o) + ConstCount(status, o)
<1> DEFINE ns == NamesIn(heap)
           vs == ValsIn(heap)
<1>1. \A p \in Obj : /\ Fields(p) = FieldsIn(heap[p]) /\ Fields(p) \in Seq(Field)
                     /\ ns[p] = Names(Fields(p)) /\ vs[p] = Vals(Fields(p))
  BY StateFacts DEF NamesIn, ValsIn
<1>2. \A p \in Obj : /\ DOMAIN ns[p] = 1..Len(Fields(p)) /\ DOMAIN vs[p] = 1..Len(Fields(p))
  BY <1>1 DEF Names, Vals
<1>3. \A p \in Obj : \A i \in 1..Len(Fields(p)) :
        /\ ns[p][i] = Str(Fields(p)[i].name) /\ vs[p][i] = Fields(p)[i].val
        /\ Fields(p)[i].name \in Obj
  BY <1>1, PartsType
<1> HIDE DEF ns, vs
<1>4. PlacesOf(Obj, ns) = AllFields /\ PlacesOf(Obj, vs) = AllFields
  BY <1>2 DEF PlacesOf, AllFields
<1>5. \A l \in AllFields : l[1] \in Obj /\ l[2] \in 1..Len(Fields(l[1])) BY DEF AllFields
<1>6. \A k \in Obj : Holds(Str(k), o) <=> k = o BY StrFacts DEF Holds, Str
<1>7. OnStacks(Obj, ns, o) = Cardinality(InNames(o))
  <2> DEFINE f == [l \in AllFields |-> ns[l[1]][l[2]]]
  <2>1. \A l \in AllFields : Holds(f[l], o) <=> Fields(l[1])[l[2]].name = o
    BY <1>3, <1>5, <1>6
  <2> HIDE DEF f
  <2>2. InNames(o) = {l \in AllFields : Holds(f[l], o)} BY <2>1 DEF InNames
  <2>3. OnStacks(Obj, ns, o) = Occ(f, AllFields, o) BY <1>4 DEF OnStacks, f
  <2> QED BY <2>2, <2>3 DEF Occ
<1>8. OnStacks(Obj, vs, o) = Cardinality(InVals(o))
  <2> DEFINE f == [l \in AllFields |-> vs[l[1]][l[2]]]
  <2>1. \A l \in AllFields : Holds(f[l], o) <=> Holds(Fields(l[1])[l[2]].val, o)
    BY <1>3, <1>5
  <2> HIDE DEF f
  <2>2. InVals(o) = {l \in AllFields : Holds(f[l], o)} BY <2>1 DEF InVals
  <2>3. OnStacks(Obj, vs, o) = Occ(f, AllFields, o) BY <1>4 DEF OnStacks, f
  <2> QED BY <2>2, <2>3 DEF Occ
<1>9. RecordCount(heap, o) = Cardinality(InNames(o)) + Cardinality(InVals(o))
  BY <1>7, <1>8 DEF RecordCount, ns, vs
<1>10. OnStacks(Obj, ns, o) \in Nat /\ OnStacks(Obj, vs, o) \in Nat
  <2>1. Stacks(Obj, ns) /\ Stacks(Obj, vs) /\ IsFiniteSet(Obj)
    BY StateFacts, NamesInSound DEF ns, vs
  <2> QED BY <2>1, PlacesFinite
<1>11. ConstCount(status, o) = IF IsConst(o) /\ status # "ended" THEN 1 ELSE 0 BY DEF ConstCount
<1>12. Occ(stk, Slot, o) \in Nat BY SlotFacts
<1> QED BY <1>7, <1>8, <1>9, <1>10, <1>11, <1>12 DEF Holders

LEMMA RecordInvExact == RecordInv => RefCountExact
  BY HoldersCounted, HeldFacts DEF RefCountExact

LEMMA RecordInvDistinct == RecordInv => KeysDistinct
  BY StateFacts DEF KeysDistinct, Legal, Text

\* No holder agrees with free memory.
LEMMA FreeUnheld ==
  ASSUME RecordInv, NEW o \in Obj, heap[o].class = "free"
  PROVE  /\ Occ(stk, Slot, o) = 0 /\ RecordCount(heap, o) = 0 /\ ConstCount(status, o) = 0
<1>1. \A v : Agrees(heap, v) => Count(v, o) = 0
  BY DEF Agrees, Count, Holds, IsObject, ObjectType
<1>2. Occ(stk, Slot, o) = 0 BY <1>1, StateFacts, OccNone
<1>3. ASSUME NEW p \in Obj
      PROVE  FieldCount(FieldsIn(heap[p]), o) = 0
  <2> DEFINE fs == FieldsIn(heap[p])
  <2>1. Legal(heap, fs) /\ fs \in Seq(Field) BY StateFacts
  <2> HIDE DEF fs
  <2>2. ASSUME NEW i \in 1..Len(fs)
        PROVE  Count(Names(fs)[i], o) = 0 /\ Count(Vals(fs)[i], o) = 0
    <3>1. Names(fs)[i] = Str(fs[i].name) /\ Vals(fs)[i] = fs[i].val BY <2>1, PartsType
    <3>2. heap[fs[i].name].class = "string" /\ Agrees(heap, fs[i].val) BY <2>1 DEF Legal
    <3>3. Count(Str(fs[i].name), o) = 0 BY <3>2 DEF Count, Holds, Str
    <3> QED BY <1>1, <3>1, <3>2, <3>3
  <2>3. Occ(Names(fs), 1..Len(fs), o) = 0 BY <2>2, OccNone
  <2>4. Occ(Vals(fs), 1..Len(fs), o) = 0 BY <2>2, OccNone
  <2>5. FieldCount(fs, o) = 0 BY <2>1, <2>3, <2>4, FieldCountType DEF FieldCount
  <2> QED BY <2>5 DEF fs
<1>4. RecordCount(heap, o) = 0
  <2> DEFINE ns == NamesIn(heap)
             vs == ValsIn(heap)
  <2>1. \A p \in Obj : /\ FieldsIn(heap[p]) \in Seq(Field)
                       /\ ns[p] = Names(FieldsIn(heap[p])) /\ vs[p] = Vals(FieldsIn(heap[p]))
    BY StateFacts DEF NamesIn, ValsIn
  <2>2. Stacks(Obj, ns) /\ Stacks(Obj, vs) /\ IsFiniteSet(Obj) BY StateFacts, NamesInSound
  <2>3. \A p \in Obj : OnStack(ns[p], o) = 0 /\ OnStack(vs[p], o) = 0
    BY <1>3, <2>1, FieldCountType DEF FieldCount
  <2>4. /\ \A l \in PlacesOf(Obj, ns) : ~Holds(ns[l[1]][l[2]], o)
        /\ \A l \in PlacesOf(Obj, vs) : ~Holds(vs[l[1]][l[2]], o)
    <3>1. \A p \in Obj : /\ IsFiniteSet(DOMAIN ns[p]) /\ IsFiniteSet(DOMAIN vs[p])
                         /\ Occ(ns[p], DOMAIN ns[p], o) = 0 /\ Occ(vs[p], DOMAIN vs[p], o) = 0
      BY <2>2, <2>3, OnStackInterval DEF Stacks, OnStack
    <3>2. \A p \in Obj : /\ \A i \in DOMAIN ns[p] : ~Holds(ns[p][i], o)
                         /\ \A i \in DOMAIN vs[p] : ~Holds(vs[p][i], o)
      BY <3>1, OccZero
    <3> QED BY <3>2 DEF PlacesOf
  <2> HIDE DEF ns, vs
  <2>5. OnStacks(Obj, ns, o) = 0
    <3> DEFINE P == PlacesOf(Obj, ns)
               f == [p \in P |-> ns[p[1]][p[2]]]
    <3>1. \A l \in P : Count(f[l], o) = 0 BY <2>4 DEF Count
    <3> HIDE DEF f, P
    <3>2. Occ(f, P, o) = 0 BY <3>1, OccNone
    <3> QED BY <3>2 DEF OnStacks, f, P
  <2>6. OnStacks(Obj, vs, o) = 0
    <3> DEFINE P == PlacesOf(Obj, vs)
               f == [p \in P |-> vs[p[1]][p[2]]]
    <3>1. \A l \in P : Count(f[l], o) = 0 BY <2>4 DEF Count
    <3> HIDE DEF f, P
    <3>2. Occ(f, P, o) = 0 BY <3>1, OccNone
    <3> QED BY <3>2 DEF OnStacks, f, P
  <2> QED BY <2>5, <2>6 DEF RecordCount, ns, vs
<1>5. ConstCount(status, o) = 0
  BY DEF RecordInv, ConstsSound, ConstCount, IsConst
<1> QED BY <1>2, <1>4, <1>5

LEMMA RecordInvDangling == RecordInv => NoDangling
<1> SUFFICES ASSUME RecordInv, NEW o \in Obj, heap[o].class = "free" \/ o \in dying
             PROVE  Holders(o) = 0
  BY DEF NoDangling
<1>1. CASE heap[o].class = "free" BY <1>1, FreeUnheld, HoldersCounted
<1>2. CASE o \in dying
  <2>1. rc[o] <= 0 BY <1>2 DEF RecordInv, AtZero, Mem
  <2> QED BY <2>1, HeldFacts, HoldersCounted
<1> QED BY <1>1, <1>2

-----------------------------------------------------------------------------
(***************************************************************************)
(* The theorems.                                                           *)
(***************************************************************************)
\* In every script that assigns no variable to itself the state stays within
\* the types the model declares: a released object is never read as another.
THEOREM RecordTypes == ForgettingSpec /\ []Disciplined => []TypeOK
  BY RecordSafety, RecordInvType, PTL

\* In every script that assigns no variable to itself the count of an object
\* is the number of slots, keys, values and constants that hold it and the
\* number of references SET_ELEMENT and NEW_RECORD forgot, wherever a handler
\* fails half way or memory runs out.
THEOREM RecordCountsExact == ForgettingSpec /\ []Disciplined => []RefCountExact
  BY RecordSafety, RecordInvExact, PTL

\* What those two forget leaks and never dangles: no slot, field or constant
\* names an object that is free or condemned.
THEOREM RecordsNeverDangle == ForgettingSpec /\ []Disciplined => []NoDangling
  BY RecordSafety, RecordInvDangling, PTL

\* No two fields of a record have the same name, in a literal that repeats a
\* key as in a record written in place or by copy.
THEOREM RecordKeysDistinct == ForgettingSpec /\ []Disciplined => []KeysDistinct
  BY RecordSafety, RecordInvDistinct, PTL
==============================================================================
