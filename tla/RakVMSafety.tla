----------------------------- MODULE RakVMSafety -----------------------------
(***************************************************************************)
(* Proofs about RakVM, concluded: the frames stay anchored, and with that  *)
(* the reference counts are exact, every value is read as what it was made *)
(* for and nothing is used after it is freed, in every script that keeps   *)
(* to Disciplined.                                                         *)
(*                                                                         *)
(* The first part shows of each handler that the counts stay exact.  The   *)
(* induction carries five facts at once.  That no value refers to an       *)
(* object that is free or condemned rests on the counts being exact, and   *)
(* the counts stay exact only because a new object is made where nothing   *)
(* referred before and where no element was left behind.                   *)
(*                                                                         *)
(* The counts and the frames need each other.  A return releases the       *)
(* closure of its frame, which is only right if that closure is still in   *)
(* the bottom slot; and the closure keeps its class, and its frame, only   *)
(* because the slot is counted and its memory therefore not given away.    *)
(***************************************************************************)
EXTENDS RakVMProofs, SequenceTheorems


\* Free memory has no elements.
FreeEmpty == \A o \in Obj : class[o] = "free" => len[o] = 0

CountsInv ==
  /\ TypeOK
  /\ RefCountExact
  /\ WellTyped
  /\ AtZero(Mem)
  /\ FreeEmpty

\* TypesAgree, of the classes cl.
Agrees(cl, v) ==
  IsObject(v) => \/ v.type = "array" /\ cl[v.data] = "array"
                 \/ v.type = "closure" /\ cl[v.data] \in Fun

LEMMA WellTypedNow ==
  WellTyped <=> /\ \A s \in Slot : Agrees(class, stk[s])
                /\ \A c \in Cell : Agrees(class, cell[c])
  BY DEF WellTyped, TypesAgree, Agrees

LEMMA WellTypedNext ==
  WellTyped' <=> /\ \A s \in Slot : Agrees(class', stk'[s])
                 /\ \A c \in Cell : Agrees(class', cell'[c])
  BY DEF WellTyped, TypesAgree, Agrees

LEMMA AgreesScalar ==
  ASSUME NEW v, ~IsObject(v), NEW cl
  PROVE  Agrees(cl, v)
  BY DEF Agrees

LEMMA ScalarFacts ==
  /\ ~IsObject(Nil)
  /\ \A n : ~IsObject(Bool(n)) /\ ~IsObject(Number(n)) /\ ~IsObject(RefTo(n))
  BY DEF IsObject, ObjectType, Nil, Bool, Number, RefTo

LEMMA NilFacts == (\A cl : Agrees(cl, Nil)) /\ \A x : Count(Nil, x) = 0
  BY ScalarFacts, AgreesScalar, CountScalar

\* What a value refers to is an object that is in use.
LEMMA AgreesData ==
  ASSUME TypeOK, NEW v \in Value, Agrees(class, v), IsObject(v)
  PROVE  v.data \in Obj /\ class[v.data] # "free"
<1>1. v.data \in Obj BY DEF Value, IsObject, ScalarType, ObjectType
<1>2. "free" \notin Fun /\ "array" # "free"
  BY ProgramAssumption DEF ProgramAssumption
<1> QED BY <1>1, <1>2 DEF Agrees

\* A change of class in free memory is not seen by the values.
LEMMA AgreesKept ==
  ASSUME TypeOK, NEW v \in Value, Agrees(class, v), NEW cl,
         \A x \in Obj : class[x] # "free" => cl[x] = class[x]
  PROVE  Agrees(cl, v)
<1>1. CASE ~IsObject(v) BY <1>1, AgreesScalar
<1>2. CASE IsObject(v)
  <2>1. cl[v.data] = class[v.data] BY <1>2, AgreesData
  <2> QED BY <2>1 DEF Agrees
<1> QED BY <1>1, <1>2

LEMMA AgreesFlagged ==
  ASSUME NEW v \in Value, NEW cl, Agrees(cl, v), NEW x
  PROVE  /\ Agrees(cl, AsShared(v)) /\ Count(AsShared(v), x) = Count(v, x)
         /\ Agrees(cl, Flagged(v)) /\ Count(Flagged(v), x) = Count(v, x)
<1>1. AsShared(v).type = v.type /\ AsShared(v).data = v.data BY DEF AsShared, Value
<1>2. Agrees(cl, AsShared(v)) BY <1>1 DEF Agrees, IsObject
<1>3. Count(AsShared(v), x) = Count(v, x) BY <1>1, CountSame
<1> QED BY <1>2, <1>3 DEF Flagged

-----------------------------------------------------------------------------
(***************************************************************************)
(* One step.                                                               *)
(***************************************************************************)
LEMMA Exact ==
  ASSUME CountsInv, NEW x \in Obj
  PROVE  /\ rc[x] = Occ(stk, Slot, x) + Occ(cell, Cell, x)
         /\ rc[x] \in Int
         /\ Occ(stk, Slot, x) \in Nat /\ Occ(cell, Cell, x) \in Nat
         /\ Mem \in MemType /\ Mem.rc[x] = rc[x]
<1>1. rc[x] = Occ(stk, Slot, x) + Occ(cell, Cell, x) BY DEF CountsInv, RefCountExact
<1>2. Occ(stk, Slot, x) \in Nat /\ Occ(cell, Cell, x) \in Nat
  BY SlotFinite, CellFinite, OccType
<1>3. rc[x] \in Int BY DEF CountsInv, TypeOK, CountsOK
<1>4. Mem \in MemType BY MemIsType DEF CountsInv
<1> QED BY <1>1, <1>2, <1>3, <1>4 DEF Mem

LEMMA CountsStep ==
  ASSUME CountsInv, TypeOK', WellTyped', FreeEmpty',
         NEW m \in MemType, Becomes(m), AtZero(m),
         \A x \in Obj : m.rc[x] = rc[x] + Occ(stk', Slot, x) - Occ(stk, Slot, x)
                                        + Occ(cell', Cell, x) - Occ(cell, Cell, x)
  PROVE  CountsInv'
<1>1. ASSUME NEW x \in Obj
      PROVE  rc'[x] = Occ(stk', Slot, x) + Occ(cell', Cell, x)
  <2>1. rc'[x] = rc[x] + Occ(stk', Slot, x) - Occ(stk, Slot, x)
                       + Occ(cell', Cell, x) - Occ(cell, Cell, x)
    BY DEF Becomes
  <2>2. Occ(stk', Slot, x) \in Nat /\ Occ(cell', Cell, x) \in Nat
    BY SlotFinite, CellFinite, OccType
  <2> QED BY <2>1, <2>2, Exact
<1>2. RefCountExact' BY <1>1 DEF RefCountExact, Occ
<1>3. AtZero(Mem)' BY DEF AtZero, Mem, Becomes
<1> QED BY <1>2, <1>3 DEF CountsInv

\* A handler that leaves the heap alone.
LEMMA StackCounts ==
  ASSUME CountsInv, TypeOK', UNCHANGED heapVars,
         NEW m \in MemType, Becomes(m), AtZero(m),
         \A s \in Slot : Agrees(class, stk'[s]),
         \A x \in Obj : m.rc[x] = rc[x] + Occ(stk', Slot, x) - Occ(stk, Slot, x)
  PROVE  CountsInv'
<1>1. cell' = cell /\ len' = len /\ class' = class BY DEF heapVars
<1>2. WellTyped' BY <1>1, WellTypedNow, WellTypedNext DEF CountsInv
<1>3. FreeEmpty' BY <1>1 DEF FreeEmpty, CountsInv
<1>4. \A x \in Obj : m.rc[x] = rc[x] + Occ(stk', Slot, x) - Occ(stk, Slot, x)
                                     + Occ(cell', Cell, x) - Occ(cell, Cell, x)
  <2>1. \A x \in Obj : Occ(stk, Slot, x) \in Nat /\ Occ(stk', Slot, x) \in Nat
                         /\ Occ(cell, Cell, x) \in Nat /\ rc[x] \in Int
    BY Exact, SlotFinite, OccType
  <2> QED BY <1>1, <2>1
<1> QED BY <1>2, <1>3, <1>4, CountsStep

\* A handler that changes neither the counts nor what holds what.
LEMMA CountsUnmoved ==
  ASSUME CountsInv, TypeOK', UNCHANGED <<heapVars, rc, dying>>,
         \A s \in Slot : Agrees(class, stk'[s]),
         \A s \in Slot : \A x \in Obj : Count(stk'[s], x) = Count(stk[s], x)
  PROVE  CountsInv'
<1>1. Becomes(Mem) /\ AtZero(Mem) /\ Mem \in MemType
  BY MemIsType DEF CountsInv, Becomes, Mem
<1>2. ASSUME NEW x \in Obj
      PROVE  Mem.rc[x] = rc[x] + Occ(stk', Slot, x) - Occ(stk, Slot, x)
  <2>1. Occ(stk', Slot, x) = Occ(stk, Slot, x) BY OccSame
  <2> QED BY <2>1, Exact
<1> QED BY <1>1, <1>2, StackCounts

LEMMA FailCounts == ASSUME CountsInv, TypeOK', Fail PROVE CountsInv'
<1>1. stk' = stk /\ UNCHANGED <<heapVars, rc, dying>> BY DEF Fail
<1>2. \A s \in Slot : Agrees(class, stk'[s]) BY <1>1, WellTypedNow DEF CountsInv
<1> QED BY <1>1, <1>2, CountsUnmoved

\* An instruction starts with nothing condemned.
LEMMA StartAtZero ==
  ASSUME CountsInv, NEW op, At(op)
  PROVE  Mem \in MemType /\ Mem.dying = {} /\ AtZero(Mem)
  BY MemIsType DEF At, AtZero, Mem, CountsInv

LEMMA SpareAtZero == ASSUME NEW m, m.dying = {} PROVE AtZero(m)
  BY DEF AtZero

-----------------------------------------------------------------------------
(***************************************************************************)
(* Counts: pushing and popping.                                            *)
(***************************************************************************)
LEMMA SlotAgrees ==
  ASSUME CountsInv, NEW s \in Slot
  PROVE  stk[s] \in Value /\ Agrees(class, stk[s])
  BY SlotFacts, WellTypedNow DEF CountsInv

LEMMA CellAgrees ==
  ASSUME CountsInv, NEW c \in Cell
  PROVE  cell[c] \in Value /\ Agrees(class, cell[c])
  BY CellFacts, WellTypedNow DEF CountsInv

\* From the stack f to the stack g, slot t is written.
LEMMA SlotWrite ==
  ASSUME NEW f, NEW g, NEW t, NEW x, t \in Slot,
         \A s \in Slot \ {t} : Count(g[s], x) = Count(f[s], x)
  PROVE  Occ(g, Slot, x) = Occ(f, Slot, x) - Count(f[t], x) + Count(g[t], x)
  BY SlotFinite, OccWrite

LEMMA PushValueCounts ==
  ASSUME CountsInv, TypeOK', NEW op, At(op),
         NEW v, Agrees(class, v),
         NEW s0 \in [Slot -> Value],
         \A s \in Slot : Agrees(class, s0[s]),
         \A s \in Slot : \A x \in Obj : Count(s0[s], x) = Count(stk[s], x),
         PushValue(s0, v)
  PROVE  CountsInv'
<1>1. CASE /\ sp = MaxSlots
           /\ stk' = s0
           /\ UNCHANGED <<heapVars, rc, dying>>
  BY <1>1, CountsUnmoved
<1>2. CASE /\ sp < MaxSlots
           /\ stk' = [s0 EXCEPT ![sp + 1] = v]
           /\ Becomes(Retain(Mem, v))
           /\ UNCHANGED heapVars
  <2>6. TypeOK /\ sp < MaxSlots BY <1>2 DEF CountsInv
  <2>1. sp + 1 \in Slot /\ stk[sp + 1] = Nil BY <2>6, SlotFacts
  <2>2. \A s \in Slot : stk'[s] = IF s = sp + 1 THEN v ELSE s0[s] BY <1>2
  <2>3. \A s \in Slot : Agrees(class, stk'[s]) BY <2>2
  <2>4. Retain(Mem, v) \in MemType /\ AtZero(Retain(Mem, v))
    BY StartAtZero, RetainType, RetainsSpare, SpareAtZero
  <2>5. ASSUME NEW x \in Obj
        PROVE  Retain(Mem, v).rc[x] = rc[x] + Occ(stk', Slot, x) - Occ(stk, Slot, x)
    <3>1. \A l \in Slot \ {sp + 1} : Count(stk'[l], x) = Count(stk[l], x) BY <2>2
    <3>2. Occ(stk', Slot, x) =
            Occ(stk, Slot, x) - Count(stk[sp + 1], x) + Count(stk'[sp + 1], x)
      BY <2>1, <3>1, SlotWrite
    <3>3. stk'[sp + 1] = v /\ Count(stk[sp + 1], x) = 0 BY <2>1, <2>2, NilFacts
    <3>4. Retain(Mem, v).rc[x] = rc[x] + Count(v, x) BY StartAtZero, RetainCount, Exact
    <3> QED BY <3>2, <3>3, <3>4, Exact, CountType
  <2> QED BY <1>2, <2>3, <2>4, <2>5, StackCounts
<1> QED BY <1>1, <1>2 DEF PushValue

LEMMA PushStkCounts ==
  ASSUME CountsInv, TypeOK', NEW op, At(op), NEW v, Agrees(class, v),
         PushValue(stk, v)
  PROVE  CountsInv'
<1>1. stk \in [Slot -> Value] BY SlotFacts DEF CountsInv
<1> QED BY <1>1, SlotAgrees, PushValueCounts

LEMMA PushNilCounts == CountsInv /\ PushNil => CountsInv'
<1> SUFFICES ASSUME CountsInv, PushNil PROVE CountsInv'
  OBVIOUS
<1>1. TypeOK' BY PushNilType DEF CountsInv
<1> QED BY <1>1, NilFacts, PushStkCounts DEF PushNil

LEMMA PushIntCounts == CountsInv /\ PushInt => CountsInv'
<1> SUFFICES ASSUME CountsInv, PushInt PROVE CountsInv'
  OBVIOUS
<1>1. TypeOK' BY PushIntType DEF CountsInv
<1>2. Agrees(class, Number(A)) BY ScalarFacts, AgreesScalar
<1> QED BY <1>1, <1>2, PushStkCounts DEF PushInt

LEMMA LoadGlobalCounts == CountsInv /\ LoadGlobal => CountsInv'
<1> SUFFICES ASSUME CountsInv, LoadGlobal PROVE CountsInv'
  OBVIOUS
<1>1. TypeOK' BY LoadGlobalType DEF CountsInv
<1>2. At("LOAD_GLOBAL") /\ TypeOK BY DEF LoadGlobal, CountsInv
<1>3. stk[0].data = GlobalsObj /\ GlobalsObj \in Obj
  BY <1>2, AtFacts, MainAssumption DEF Array, MainAssumption
<1>4. <<stk[0].data, A>> \in Cell BY <1>2, <1>3, CellFacts DEF LoadGlobal
<1> QED BY <1>1, <1>4, CellAgrees, PushStkCounts DEF LoadGlobal

LEMMA LocalAgrees ==
  ASSUME CountsInv, NEW op, At(op), NEW i \in Nat, IsLocal(i)
  PROVE  /\ Top.base + i \in 1..sp /\ Top.base + i \in Slot
         /\ Local(i) \in Value /\ Agrees(class, Local(i))
<1>1. TypeOK BY DEF CountsInv
<1>2. Top.base + i \in 1..sp /\ Top.base + i \in Slot BY <1>1, LocalType
<1> QED BY <1>2, SlotAgrees DEF Local

LEMMA LoadLocalCounts == CountsInv /\ LoadLocal => CountsInv'
<1> SUFFICES ASSUME CountsInv, LoadLocal PROVE CountsInv'
  OBVIOUS
<1>1. TypeOK' /\ TypeOK BY LoadLocalType DEF CountsInv
<1>2. At("LOAD_LOCAL") /\ IsLocal(A) BY DEF LoadLocal
<1>3. Agrees(class, Local(A)) BY <1>1, <1>2, AtFacts, LocalAgrees
<1> QED BY <1>1, <1>2, <1>3, PushStkCounts DEF LoadLocal

LEMMA FetchLocalCounts == CountsInv /\ FetchLocal => CountsInv'
<1> SUFFICES ASSUME CountsInv, FetchLocal PROVE CountsInv'
  OBVIOUS
<1>1. TypeOK' /\ TypeOK BY FetchLocalType DEF CountsInv
<1>2. At("FETCH_LOCAL") /\ IsLocal(A) BY DEF FetchLocal
<1>3. Agrees(class, Flagged(Local(A)))
  BY <1>1, <1>2, AtFacts, LocalAgrees, AgreesFlagged
<1> QED BY <1>1, <1>2, <1>3, PushStkCounts DEF FetchLocal

LEMMA RefLocalCounts == CountsInv /\ RefLocal => CountsInv'
<1> SUFFICES ASSUME CountsInv, RefLocal PROVE CountsInv'
  OBVIOUS
<1> DEFINE t == Top.base + A
           s0 == [stk EXCEPT ![t] = Flagged(Local(A))]
<1>1. TypeOK' /\ TypeOK BY RefLocalType DEF CountsInv
<1>2. At("REF_LOCAL") /\ IsLocal(A) /\ PushValue(s0, RefTo(t)) BY DEF RefLocal, RefWith
<1>3. /\ t \in Slot /\ Local(A) \in Value /\ Agrees(class, Local(A))
      /\ Local(A) = stk[t]
  BY <1>1, <1>2, AtFacts, LocalAgrees DEF Local
<1>4. s0 \in [Slot -> Value] BY <1>1, <1>3, SlotFacts, FlaggedType
<1>5. \A s \in Slot : s0[s] = IF s = t THEN Flagged(stk[t]) ELSE stk[s]
  BY <1>1, <1>3, SlotFacts
<1> HIDE DEF s0, t
<1>6. \A s \in Slot : Agrees(class, s0[s])
  BY <1>3, <1>5, SlotAgrees, AgreesFlagged
<1>7. \A s \in Slot : \A x \in Obj : Count(s0[s], x) = Count(stk[s], x)
  BY <1>3, <1>5, AgreesFlagged
<1>8. Agrees(class, RefTo(t)) BY ScalarFacts, AgreesScalar
<1> QED BY <1>1, <1>2, <1>4, <1>6, <1>7, <1>8, PushValueCounts

LEMMA LoadLocalRefCounts == CountsInv /\ LoadLocalRef => CountsInv'
<1> SUFFICES ASSUME CountsInv, LoadLocalRef PROVE CountsInv'
  OBVIOUS
<1>1. TypeOK' /\ TypeOK BY LoadLocalRefType DEF CountsInv
<1>2. At("LOAD_LOCAL_REF") /\ IsLocalRef(A) BY DEF LoadLocalRef
<1>3. Local(A).data \in Slot BY <1>1, <1>2, SlotFacts DEF IsLocalRef
<1> QED BY <1>1, <1>2, <1>3, SlotAgrees, PushStkCounts DEF LoadLocalRef

LEMMA PopCounts == CountsInv /\ Pop => CountsInv'
<1> SUFFICES ASSUME CountsInv, Pop PROVE CountsInv'
  OBVIOUS
<1> DEFINE m == Release(Mem, Get(0))
<1>1. TypeOK' /\ TypeOK BY PopType DEF CountsInv
<1>2. At("POP") /\ UNCHANGED heapVars /\ Becomes(m) BY DEF Pop
<1>3. sp \in Slot /\ Get(0) = stk[sp] BY <1>1, SlotFacts DEF Get
<1>4. stk' = [stk EXCEPT ![sp] = Nil] /\ stk \in [Slot -> Value]
  BY <1>1, SlotFacts DEF Pop
<1>5. \A s \in Slot : Agrees(class, stk'[s]) BY <1>3, <1>4, SlotAgrees, NilFacts
<1>6. m \in MemType /\ AtZero(m) BY <1>2, StartAtZero, ReleaseType, ReleaseAtZero
<1>7. ASSUME NEW x \in Obj
      PROVE  m.rc[x] = rc[x] + Occ(stk', Slot, x) - Occ(stk, Slot, x)
  <2>4. \A s \in Slot \ {sp} : Count(stk'[s], x) = Count(stk[s], x) BY <1>4
  <2>1. Occ(stk', Slot, x) = Occ(stk, Slot, x) - Count(stk[sp], x) + Count(stk'[sp], x)
    BY <1>3, <2>4, SlotWrite
  <2>2. stk'[sp] = Nil BY <1>3, <1>4
  <2>3. m.rc[x] = rc[x] - Count(stk[sp], x) BY <1>3, ReleaseCount, Exact
  <2> QED BY <2>1, <2>2, <2>3, Exact, NilFacts, CountType
<1> HIDE DEF m
<1> QED BY <1>1, <1>2, <1>5, <1>6, <1>7, StackCounts

LEMMA StoreIntoCounts ==
  ASSUME CountsInv, TypeOK', NEW op, At(op), NEW t \in Nat, StoreInto(t)
  PROVE  CountsInv'
<1> DEFINE m == Release(Mem, stk[t])
           s1 == [stk EXCEPT ![t] = stk[sp]]
<1>1. TypeOK BY DEF CountsInv
<1>2. sp \in Slot /\ t \in Slot /\ t # sp /\ Get(0) = stk[sp] /\ stk \in [Slot -> Value]
  BY <1>1, SlotFacts DEF Get, StoreInto
<1>3. stk' = [stk EXCEPT ![t] = stk[sp], ![sp] = Nil] BY <1>2 DEF StoreInto
<1>4. /\ \A s \in Slot : stk'[s] = IF s = sp THEN Nil ELSE s1[s]
      /\ \A s \in Slot : s1[s] = IF s = t THEN stk[sp] ELSE stk[s]
  BY <1>2, <1>3
<1> HIDE DEF s1
<1>5. \A s \in Slot : Agrees(class, stk'[s]) BY <1>2, <1>4, SlotAgrees, NilFacts
<1>6. m \in MemType /\ AtZero(m) BY StartAtZero, ReleaseType, ReleaseAtZero
<1>7. ASSUME NEW x \in Obj
      PROVE  m.rc[x] = rc[x] + Occ(stk', Slot, x) - Occ(stk, Slot, x)
  <2>1. \A s \in Slot \ {t} : Count(s1[s], x) = Count(stk[s], x) BY <1>4
  <2>7. t \in Slot BY <1>2
  <2>2. Occ(s1, Slot, x) = Occ(stk, Slot, x) - Count(stk[t], x) + Count(s1[t], x)
    BY <2>1, <2>7, SlotWrite
  <2>3. \A s \in Slot \ {sp} : Count(stk'[s], x) = Count(s1[s], x) BY <1>4
  <2>4. Occ(stk', Slot, x) = Occ(s1, Slot, x) - Count(s1[sp], x) + Count(stk'[sp], x)
    BY <1>2, <2>3, SlotWrite
  <2>5. s1[t] = stk[sp] /\ s1[sp] = stk[sp] /\ stk'[sp] = Nil BY <1>2, <1>4
  <2>6. m.rc[x] = rc[x] - Count(stk[t], x) BY <1>6, StartAtZero, ReleaseCount, Exact
  <2> HIDE DEF m
  <2> QED BY <2>2, <2>4, <2>5, <2>6, Exact, NilFacts, CountType
<1>8. Becomes(m) /\ UNCHANGED heapVars BY DEF StoreInto
<1> HIDE DEF m
<1> QED BY <1>5, <1>6, <1>7, <1>8, StackCounts

LEMMA StoreLocalCounts == CountsInv /\ StoreLocal => CountsInv'
<1> SUFFICES ASSUME CountsInv, StoreLocal PROVE CountsInv'
  OBVIOUS
<1>1. TypeOK' /\ TypeOK BY StoreLocalType DEF CountsInv
<1>2. At("STORE_LOCAL") BY DEF StoreLocal
<1>3. Top.base + A \in Nat BY <1>1, <1>2, AtFacts
<1> QED BY <1>1, <1>2, <1>3, StoreIntoCounts DEF StoreLocal

LEMMA StoreLocalRefCounts == CountsInv /\ StoreLocalRef => CountsInv'
<1> SUFFICES ASSUME CountsInv, StoreLocalRef PROVE CountsInv'
  OBVIOUS
<1>1. TypeOK' /\ TypeOK BY StoreLocalRefType DEF CountsInv
<1>2. At("STORE_LOCAL_REF") /\ IsLocalRef(A) BY DEF StoreLocalRef
<1>3. Local(A).data \in Nat BY <1>1, <1>2, SlotFacts DEF IsLocalRef
<1> QED BY <1>1, <1>2, <1>3, StoreIntoCounts DEF StoreLocalRef

\* Two slots that hold the same object count twice.
LEMMA HeldTwice ==
  ASSUME CountsInv, NEW s \in Slot, NEW t \in Slot, s # t, NEW x \in Obj,
         Holds(stk[s], x), Holds(stk[t], x)
  PROVE  rc[x] >= 2
<1>1. Occ(stk, Slot, x) = Occ(stk, Slot \ {s}, x) + Count(stk[s], x)
  BY SlotFinite, OccRemove
<1>2. t \in Slot \ {s} /\ IsFiniteSet(Slot \ {s}) BY SlotFinite, FS_RemoveElement
<1>3. Occ(stk, Slot \ {s}, x) = Occ(stk, (Slot \ {s}) \ {t}, x) + Count(stk[t], x)
  BY <1>2, OccRemove
<1>4. Occ(stk, (Slot \ {s}) \ {t}, x) \in Nat BY <1>2, FS_RemoveElement, OccType
<1>5. Count(stk[s], x) = 1 /\ Count(stk[t], x) = 1 BY DEF Count
<1> QED BY <1>1, <1>3, <1>4, <1>5, Exact

\* The object of B survives the release of A because B still holds it.
LEMMA MoveCounts == CountsInv /\ Disciplined /\ Move => CountsInv'
<1> SUFFICES ASSUME CountsInv, Disciplined, Move PROVE CountsInv'
  OBVIOUS
<1> DEFINE a == Top.base + A
           b == Top.base + B
           m1 == Release(Mem, stk[a])
           m == Retain(m1, stk[b])
<1>1. TypeOK' /\ TypeOK BY MoveType DEF CountsInv
<1>2. At("MOVE") /\ IsLocal(A) /\ IsLocal(B) /\ UNCHANGED heapVars BY DEF Move
<1>3. A # B BY <1>2 DEF Disciplined
<1>4. A \in Nat /\ B \in Nat /\ Top.base \in Nat BY <1>1, <1>2, AtFacts
<1>5. a \in Slot /\ b \in Slot /\ a # b BY <1>2, <1>3, <1>4, LocalAgrees
<1>6. Becomes(m) BY DEF Move, Local
<1>7. \A s \in Slot : stk'[s] = IF s = a THEN stk[b] ELSE stk[s]
  BY <1>1, SlotFacts DEF Move, Local
<1> HIDE DEF a, b
<1>8. m1 \in MemType /\ AtZero(m1) BY <1>2, StartAtZero, ReleaseType, ReleaseAtZero
<1>9. AtZero(m)
  <2>1. m1.dying = {o \in Obj : Holds(stk[a], o) /\ rc[o] = 1}
    BY <1>2, StartAtZero DEF Release, Mem
  <2>2. \A o \in m1.dying : ~Holds(stk[b], o) BY <1>5, <2>1, HeldTwice
  <2> HIDE DEF m1
  <2> QED BY <1>8, <2>2, RetainAtZero
<1>10. m \in MemType BY <1>8, RetainType
<1>11. ASSUME NEW x \in Obj
      PROVE  m.rc[x] = rc[x] + Occ(stk', Slot, x) - Occ(stk, Slot, x)
  <2>5. \A s \in Slot \ {a} : Count(stk'[s], x) = Count(stk[s], x) BY <1>7
  <2>1. Occ(stk', Slot, x) = Occ(stk, Slot, x) - Count(stk[a], x) + Count(stk'[a], x)
    BY <1>5, <2>5, SlotWrite
  <2>2. stk'[a] = stk[b] BY <1>5, <1>7
  <2>3. m1.rc[x] = rc[x] - Count(stk[a], x) BY ReleaseCount, Exact
  <2> HIDE DEF m1
  <2>4. m.rc[x] = m1.rc[x] + Count(stk[b], x) BY <1>8, RetainCount
  <2> HIDE DEF m
  <2> QED BY <2>1, <2>2, <2>3, <2>4, Exact, CountType
<1>12. \A s \in Slot : Agrees(class, stk'[s]) BY <1>5, <1>7, SlotAgrees
<1> HIDE DEF m
<1> QED BY <1>1, <1>2, <1>6, <1>9, <1>10, <1>11, <1>12, StackCounts

-----------------------------------------------------------------------------
(***************************************************************************)
(* Counts: the top of the stack.                                           *)
(***************************************************************************)
\* Only the slots up to h hold anything.
LEMMA OccUpTo ==
  ASSUME NEW f, NEW h, NEW x, MaxSlots \in Nat, h \in Slot,
         \A s \in Slot : s > h => Count(f[s], x) = 0
  PROVE  Occ(f, Slot, x) = Occ(f, 0..h, x)
<1> DEFINE T == (h + 1)..MaxSlots
           R == 0..h
<1>1. T \subseteq Slot /\ Slot \ T = R /\ \A s \in T : s > h BY DEF Slot
<1>4. IsFiniteSet(R) BY FS_Interval DEF Slot
<1> HIDE DEF T, R
<1>2. Occ(f, Slot, x) = Occ(f, Slot \ T, x) + Occ(f, T, x)
  BY <1>1, SlotFinite, OccWithout
<1>3. Occ(f, T, x) = 0 BY <1>1, OccNone
<1>5. Occ(f, R, x) \in Nat BY <1>4, OccType
<1>6. Occ(f, Slot, x) = Occ(f, R, x) BY <1>1, <1>2, <1>3, <1>5
<1> QED BY <1>6 DEF R

LEMMA StackHeight ==
  ASSUME TypeOK, NEW x
  PROVE  Occ(stk, Slot, x) = Occ(stk, 0..sp, x)
<1>1. MaxSlots \in Nat /\ sp \in Slot /\ \A s \in Slot : s > sp => stk[s] = Nil
  BY SlotFacts
<1> QED BY <1>1, NilFacts, OccUpTo

LEMMA TopTwo ==
  ASSUME TypeOK, NEW x, sp - 1 >= 1
  PROVE  /\ Occ(stk, Slot, x) =
              Occ(stk, 0..(sp - 1 - 1), x) + Count(Get(1), x) + Count(Get(0), x)
         /\ Occ(stk, 0..(sp - 1 - 1), x) \in Nat
<1>1. sp \in Int /\ sp >= 0 /\ sp - 1 \in Int /\ sp - 1 >= 0 /\ sp - 0 = sp
  BY SlotFacts
<1>2. Occ(stk, 0..sp, x) = Occ(stk, 0..(sp - 1), x) + Count(stk[sp], x)
  BY <1>1, OccTop
<1>3. /\ Occ(stk, 0..(sp - 1), x) = Occ(stk, 0..(sp - 1 - 1), x) + Count(stk[sp - 1], x)
      /\ Occ(stk, 0..(sp - 1 - 1), x) \in Nat
  BY <1>1, OccTop
<1> QED BY <1>1, <1>2, <1>3, StackHeight, CountType DEF Get

LEMMA TopThree ==
  ASSUME TypeOK, NEW x, sp - 2 >= 1
  PROVE  /\ Occ(stk, Slot, x) = Occ(stk, 0..(sp - 2 - 1), x) + Count(Get(2), x)
                                  + Count(Get(1), x) + Count(Get(0), x)
         /\ Occ(stk, 0..(sp - 2 - 1), x) \in Nat
<1>1. sp - 2 \in Int /\ sp - 2 >= 0 /\ sp - 1 >= 1 /\ sp - 1 - 1 = sp - 2 BY SlotFacts
<1>2. Occ(stk, Slot, x) = Occ(stk, 0..(sp - 2), x) + Count(Get(1), x) + Count(Get(0), x)
  BY <1>1, TopTwo
<1>3. /\ Occ(stk, 0..(sp - 2), x) = Occ(stk, 0..(sp - 2 - 1), x) + Count(Get(2), x)
      /\ Occ(stk, 0..(sp - 2 - 1), x) \in Nat
  BY <1>1, OccTop DEF Get
<1> QED BY <1>2, <1>3, CountType

\* The stack g is the stack f up to h, with v on top.
CutAt(f, g, h, v) ==
  /\ h \in Slot
  /\ \A s \in Slot : g[s] = IF s < h THEN f[s] ELSE IF s = h THEN v ELSE Nil

LEMMA CutCount ==
  ASSUME NEW f, NEW g, NEW h, NEW v, NEW x, CutAt(f, g, h, v)
  PROVE  Occ(g, Slot, x) = Occ(f, 0..(h - 1), x) + Count(v, x)
<1>1. h \in Slot /\ h \in Int /\ h >= 0 /\ MaxSlots \in Nat
  BY BoundAssumption DEF CutAt, Slot, BoundAssumption
<1>2. \A s \in Slot : g[s] = IF s < h THEN f[s] ELSE IF s = h THEN v ELSE Nil
  BY DEF CutAt
<1>3. \A s \in Slot : s > h => g[s] = Nil BY <1>1, <1>2 DEF Slot
<1>4. Occ(g, Slot, x) = Occ(g, 0..h, x) BY <1>1, <1>3, NilFacts, OccUpTo
<1>5. Occ(g, 0..h, x) = Occ(g, 0..(h - 1), x) + Count(g[h], x) BY <1>1, OccTop
<1> DEFINE S == 0..(h - 1)
<1>6. \A s \in S : s \in Slot /\ s < h BY <1>1 DEF Slot
<1> HIDE DEF S
<1>7. \A s \in S : g[s] = f[s] BY <1>2, <1>6
<1>8. Occ(g, S, x) = Occ(f, S, x) BY <1>7, OccSame
<1>9. g[h] = v BY <1>1, <1>2
<1> QED BY <1>4, <1>5, <1>8, <1>9 DEF S

LEMMA CutAgrees ==
  ASSUME NEW f, NEW g, NEW h, NEW v, NEW cl, CutAt(f, g, h, v),
         Agrees(cl, v), \A s \in Slot : Agrees(cl, f[s])
  PROVE  \A s \in Slot : Agrees(cl, g[s])
  BY NilFacts DEF CutAt

LEMMA CollapseCounts ==
  ASSUME TypeOK, NEW n \in Nat, sp - n >= 1, NEW v, Collapse(n, v)
  PROVE  /\ \A x : Occ(stk', Slot, x) = Occ(stk, 0..(sp - n - 1), x) + Count(v, x)
         /\ \A cl : Agrees(cl, v) /\ (\A s \in Slot : Agrees(cl, stk[s]))
                      => \A s \in Slot : Agrees(cl, stk'[s])
<1> DEFINE h == sp - n
<1>1. CutAt(stk, stk', h, v) BY SlotFacts DEF Collapse, CutAt
<1> HIDE DEF h
<1>2. \A x : Occ(stk', Slot, x) = Occ(stk, 0..(h - 1), x) + Count(v, x)
  BY <1>1, CutCount
<1>3. \A cl : Agrees(cl, v) /\ (\A s \in Slot : Agrees(cl, stk[s]))
                => \A s \in Slot : Agrees(cl, stk'[s])
  BY <1>1, CutAgrees
<1> QED BY <1>2, <1>3 DEF h

-----------------------------------------------------------------------------
(***************************************************************************)
(* Counts: handlers that read elements, and operators.                     *)
(***************************************************************************)
LEMMA ElementAgrees ==
  ASSUME CountsInv, NEW op, At(op), Operands(2), InRange(Get(1), Get(0))
  PROVE  /\ sp - 1 >= 1
         /\ Get(1) \in Value /\ Get(0) \in Value /\ Get(1).data \in Obj
         /\ <<Get(1).data, Get(0).data + 1>> \in Cell
         /\ Element(Get(1), Get(0)) \in Value
         /\ Agrees(class, Element(Get(1), Get(0)))
         /\ ~IsObject(Get(0))
<1>1. TypeOK BY DEF CountsInv
<1>2. sp - 1 >= 1 /\ Get(1) \in Value /\ Get(0) \in Value
  BY <1>1, OperandFacts, SlotFacts
<1>3. <<Get(1).data, Get(0).data + 1>> \in Cell /\ Get(1).data \in Obj
  BY <1>1, <1>2, ElementType
<1>4. ~IsObject(Get(0)) BY DEF InRange, IsObject, ObjectType
<1> QED BY <1>2, <1>3, <1>4, CellAgrees DEF Element

LEMMA LoadElementCounts == CountsInv /\ LoadElement => CountsInv'
<1> SUFFICES ASSUME CountsInv, LoadElement PROVE CountsInv'
  OBVIOUS
<1>1. TypeOK' BY LoadElementType DEF CountsInv
<1>2. At("LOAD_ELEMENT") /\ Operands(2) BY DEF LoadElement
<1>3. CASE Fail BY <1>1, <1>3, FailCounts
<1>4. CASE InRange(Get(1), Get(0)) /\ PushValue(stk, Element(Get(1), Get(0)))
  BY <1>1, <1>2, <1>4, ElementAgrees, PushStkCounts
<1> QED BY <1>3, <1>4 DEF LoadElement

LEMMA FetchElementCounts == CountsInv /\ FetchElement => CountsInv'
<1> SUFFICES ASSUME CountsInv, FetchElement PROVE CountsInv'
  OBVIOUS
<1> DEFINE res == Element(Get(1), Get(0))
<1>1. TypeOK' BY FetchElementType DEF CountsInv
<1>2. At("FETCH_ELEMENT") /\ Operands(2) BY DEF FetchElement
<1>3. CASE Fail BY <1>1, <1>3, FailCounts
<1>4. CASE InRange(Get(1), Get(0)) /\ PushValue(stk, Fetched(Get(1), res))
  <2>1. res \in Value /\ Agrees(class, res) BY <1>2, <1>4, ElementAgrees
  <2> HIDE DEF res
  <2>2. Agrees(class, Fetched(Get(1), res)) BY <2>1, AgreesFlagged DEF Fetched
  <2> QED BY <1>1, <1>2, <1>4, <2>2, PushStkCounts
<1> QED BY <1>3, <1>4 DEF FetchElement

LEMMA GetElementCounts == CountsInv /\ GetElement => CountsInv'
<1> SUFFICES ASSUME CountsInv, GetElement PROVE CountsInv'
  OBVIOUS
<1> DEFINE res == Element(Get(1), Get(0))
           m == Release(Retain(Mem, res), Get(1))
<1>1. TypeOK' /\ TypeOK BY GetElementType DEF CountsInv
<1>2. At("GET_ELEMENT") /\ Operands(2) BY DEF GetElement
<1>3. CASE Fail BY <1>1, <1>3, FailCounts
<1>4. CASE /\ InRange(Get(1), Get(0))
           /\ Becomes(m)
           /\ Collapse(1, res)
           /\ UNCHANGED heapVars
  <2>1. sp - 1 >= 1 /\ Agrees(class, res) /\ ~IsObject(Get(0))
    BY <1>2, <1>4, ElementAgrees
  <2> HIDE DEF res
  <2>2. Retain(Mem, res) \in MemType /\ AtZero(Retain(Mem, res))
    BY <1>2, StartAtZero, RetainType, RetainsSpare, SpareAtZero
  <2>3. m \in MemType /\ AtZero(m) BY <2>2, ReleaseType, ReleaseAtZero
  <2>4. ASSUME NEW x \in Obj
        PROVE  m.rc[x] = rc[x] + Occ(stk', Slot, x) - Occ(stk, Slot, x)
    <3>1. Retain(Mem, res).rc[x] = rc[x] + Count(res, x) BY RetainCount, Exact
    <3>2. m.rc[x] = Retain(Mem, res).rc[x] - Count(Get(1), x) BY <2>2, ReleaseCount
    <3>3. Occ(stk', Slot, x) = Occ(stk, 0..(sp - 1 - 1), x) + Count(res, x)
      BY <1>1, <1>4, <2>1, CollapseCounts
    <3>4. Count(Get(0), x) = 0 BY <2>1, CountScalar
    <3> HIDE DEF m
    <3> QED BY <1>1, <2>1, <3>1, <3>2, <3>3, <3>4, TopTwo, Exact, CountType
  <2>5. \A s \in Slot : Agrees(class, stk'[s])
    BY <1>1, <1>4, <2>1, SlotAgrees, CollapseCounts
  <2> HIDE DEF m
  <2> QED BY <1>1, <1>4, <2>3, <2>4, <2>5, StackCounts
<1> QED BY <1>3, <1>4 DEF GetElement

LEMMA CombineCounts ==
  ASSUME CountsInv, TypeOK', NEW op, At(op), Operands(2), NEW res, ~IsObject(res),
         Combine(res)
  PROVE  CountsInv'
<1> DEFINE m1 == Release(Mem, Get(1))
           m == Release(m1, Get(0))
<1>1. TypeOK BY DEF CountsInv
<1>2. sp - 1 >= 1 BY <1>1, OperandFacts, SlotFacts
<1>3. m1 \in MemType /\ AtZero(m1) BY StartAtZero, ReleaseType, ReleaseAtZero
<1>4. m \in MemType /\ AtZero(m) BY <1>3, ReleaseType, ReleaseAtZero
<1>5. Becomes(m) /\ UNCHANGED heapVars /\ Collapse(1, res) BY DEF Combine
<1>6. ASSUME NEW x \in Obj
      PROVE  m.rc[x] = rc[x] + Occ(stk', Slot, x) - Occ(stk, Slot, x)
  <2>1. m1.rc[x] = rc[x] - Count(Get(1), x) BY ReleaseCount, Exact
  <2>2. m.rc[x] = m1.rc[x] - Count(Get(0), x) BY <1>3, ReleaseCount
  <2>3. Occ(stk', Slot, x) = Occ(stk, 0..(sp - 1 - 1), x) + Count(res, x)
    BY <1>1, <1>2, <1>5, CollapseCounts
  <2>4. Count(res, x) = 0 BY CountScalar
  <2>5. /\ Occ(stk, Slot, x) =
              Occ(stk, 0..(sp - 1 - 1), x) + Count(Get(1), x) + Count(Get(0), x)
        /\ Occ(stk, 0..(sp - 1 - 1), x) \in Nat
    BY <1>1, <1>2, TopTwo
  <2> HIDE DEF m, m1
  <2> QED BY <2>1, <2>2, <2>3, <2>4, <2>5, Exact, CountType, SMTT(60)
<1>7. \A s \in Slot : Agrees(class, stk'[s])
  BY <1>1, <1>2, <1>5, SlotAgrees, AgreesScalar, CollapseCounts
<1> HIDE DEF m, m1
<1> QED BY <1>4, <1>5, <1>6, <1>7, StackCounts

LEMMA EqCounts == CountsInv /\ Eq => CountsInv'
<1> SUFFICES ASSUME CountsInv, Eq PROVE CountsInv'
  OBVIOUS
<1>1. TypeOK' BY EqType DEF CountsInv
<1> QED BY <1>1, ScalarFacts, CombineCounts DEF Eq

-----------------------------------------------------------------------------
(***************************************************************************)
(* Counts: new arrays.                                                     *)
(***************************************************************************)
LEMMA AllocateCount ==
  ASSUME TypeOK, FreeEmpty, NEW o \in Free, NEW n \in 0..MaxLen, NEW elem,
         Allocate(o, n, elem), NEW x
  PROVE  Occ(cell', Cell, x) = Occ(cell, Cell, x) + Occ(elem, 1..n, x)
<1> DEFINE K == {o} \X (1..n)
<1>1. o \in Obj /\ class[o] = "free" /\ len[o] = 0 BY DEF Free, FreeEmpty
<1>2. n \in Nat /\ n <= MaxLen /\ MaxLen \in Nat BY CellFacts
<1>3. K \subseteq Cell BY <1>1, <1>2 DEF Cell, Idx
<1>4. \A c \in Cell : c[1] \in Obj /\ c[2] \in Nat /\ c[2] >= 1 /\ c = <<c[1], c[2]>>
  BY <1>2 DEF Cell, Idx
<1>5. \A c \in Cell : c[1] = o => cell[c] = Nil
  <2>1. \A c \in Cell : c[2] > len[c[1]] => cell[c] = Nil BY DEF TypeOK, HeapOK
  <2> QED BY <1>1, <1>4, <2>1
<1>6. \A c \in Cell : cell'[c] = IF c[1] # o THEN cell[c]
                                 ELSE IF c[2] <= n THEN elem[c[2]] ELSE Nil
  BY DEF Allocate
<1>7. \A c \in Cell \ K : c[1] = o => c[2] > n
  BY <1>2, <1>4
<1>8. \A c \in K : c[1] = o OBVIOUS
<1>9. \A i \in 1..n : <<o, i>> \in K /\ i <= n BY <1>2
<1> HIDE DEF K
<1>10. \A c \in Cell \ K : Count(cell'[c], x) = Count(cell[c], x)
  <2> SUFFICES ASSUME NEW c \in Cell \ K PROVE cell'[c] = cell[c]
    OBVIOUS
  <2>1. CASE c[1] # o BY <1>6, <2>1
  <2>2. CASE c[1] = o
    <3>1. cell[c] = Nil /\ c[2] > n /\ c[2] \in Nat BY <1>4, <1>5, <1>7, <2>2
    <3> QED BY <1>2, <1>6, <2>2, <3>1
  <2> QED BY <2>1, <2>2
<1>11. Occ(cell', Cell \ K, x) = Occ(cell, Cell \ K, x) BY <1>10, OccSame
<1>12. Occ(cell, K, x) = 0
  <2>1. \A c \in K : cell[c] = Nil BY <1>3, <1>5, <1>8
  <2> QED BY <2>1, NilFacts, OccNone
<1>13. Occ(cell', K, x) = Occ(elem, 1..n, x)
  <2>1. \A i \in 1..n : cell'[<<o, i>>] = elem[i]
    <3> SUFFICES ASSUME NEW i \in 1..n PROVE cell'[<<o, i>>] = elem[i]
      OBVIOUS
    <3>1. <<o, i>> \in Cell /\ i <= n BY <1>3, <1>9
    <3> QED BY <1>6, <3>1
  <2>2. \A i \in 1..n : Count(cell'[<<o, i>>], x) = Count(elem[i], x) BY <2>1
  <2> DEFINE T == 1..n
  <2>3. IsFiniteSet(T) BY <1>2, FS_Interval
  <2>6. \A i \in T : Count(cell'[<<o, i>>], x) = Count(elem[i], x) BY <2>2
  <2> HIDE DEF T
  <2>5. Occ(cell', CellsAt(o, T), x) = Occ(elem, T, x) BY <2>3, <2>6, OccElements
  <2> QED BY <2>5 DEF T, K, CellsAt
<1>14. Occ(cell, Cell, x) = Occ(cell, Cell \ K, x) + Occ(cell, K, x)
  BY <1>3, CellFinite, OccWithout
<1>15. Occ(cell', Cell, x) = Occ(cell', Cell \ K, x) + Occ(cell', K, x)
  BY <1>3, CellFinite, OccWithout
<1>16. IsFiniteSet(Cell \ K) BY CellFinite, FS_Difference
<1>17. Occ(cell, Cell \ K, x) \in Nat BY <1>16, OccType
<1> QED BY <1>11, <1>12, <1>13, <1>14, <1>15, <1>17

\* A new array leaves the rest of the heap well typed and free memory empty.
LEMMA AllocateHeap ==
  ASSUME CountsInv, TypeOK', NEW o \in Free, NEW n \in 0..MaxLen, NEW elem,
         \A i \in 1..n : elem[i] \in Value /\ Agrees(class, elem[i]),
         Allocate(o, n, elem)
  PROVE  FreeEmpty' /\ \A c \in Cell : Agrees(class', cell'[c])
<1>1. TypeOK /\ FreeEmpty /\ o \in Obj /\ class[o] = "free" BY DEF CountsInv, Free
<1>2. class' = [class EXCEPT ![o] = "array"] /\ len' = [len EXCEPT ![o] = n]
  BY DEF Allocate
<1>3. class \in [Obj -> {"free", "array"} \cup Fun] /\ len \in [Obj -> 0..MaxLen]
  BY <1>1 DEF TypeOK, HeapOK
<1>4. \A x \in Obj : class[x] # "free" => class'[x] = class[x] BY <1>1, <1>2, <1>3
<1>5. FreeEmpty'
  <2>1. ASSUME NEW x \in Obj, class'[x] = "free" PROVE len'[x] = 0
    <3>1. x # o /\ class[x] = "free" BY <1>2, <1>3, <2>1
    <3> QED BY <1>1, <1>2, <1>3, <3>1 DEF FreeEmpty
  <2> QED BY <2>1 DEF FreeEmpty
<1>6. ASSUME NEW c \in Cell PROVE Agrees(class', cell'[c])
  <2>1. cell'[c] = IF c[1] # o THEN cell[c]
                   ELSE IF c[2] <= n THEN elem[c[2]] ELSE Nil
    BY DEF Allocate
  <2>2. c[2] \in Nat /\ c[2] >= 1 BY <1>1, CellFacts DEF Cell, Idx
  <2>3. CASE c[1] # o BY <1>1, <1>4, <2>1, <2>3, CellAgrees, AgreesKept
  <2>4. CASE c[1] = o /\ c[2] <= n
    <3>1. c[2] \in 1..n BY <2>2, <2>4, <1>1, CellFacts
    <3>2. elem[c[2]] \in Value /\ Agrees(class, elem[c[2]]) BY <3>1
    <3> QED BY <1>1, <1>4, <2>1, <2>4, <3>2, AgreesKept
  <2>5. CASE c[1] = o /\ ~(c[2] <= n) BY <2>1, <2>5, NilFacts
  <2> QED BY <2>3, <2>4, <2>5
<1> QED BY <1>5, <1>6
\* A handler that makes the array o out of the values elem.
LEMMA AllocateCounts ==
  ASSUME CountsInv, TypeOK', NEW o \in Free, NEW n \in 0..MaxLen, NEW elem,
         \A i \in 1..n : elem[i] \in Value /\ Agrees(class, elem[i]),
         Allocate(o, n, elem),
         NEW m \in MemType, Becomes(m), AtZero(m),
         \A x \in Obj : m.rc[x] = rc[x] + Occ(stk', Slot, x) - Occ(stk, Slot, x)
                                        + Occ(elem, 1..n, x),
         \A s \in Slot : Agrees(class', stk'[s])
  PROVE  CountsInv'
<1>1. TypeOK /\ FreeEmpty BY DEF CountsInv
<1>5. FreeEmpty' /\ \A c \in Cell : Agrees(class', cell'[c]) BY AllocateHeap
<1>7. WellTyped' BY <1>5, WellTypedNext
<1>8. ASSUME NEW x \in Obj
      PROVE  m.rc[x] = rc[x] + Occ(stk', Slot, x) - Occ(stk, Slot, x)
                             + Occ(cell', Cell, x) - Occ(cell, Cell, x)
  <2>1. Occ(cell', Cell, x) = Occ(cell, Cell, x) + Occ(elem, 1..n, x)
    BY <1>1, AllocateCount
  <2>2. IsFiniteSet(1..n) BY <1>1, CellFacts, FS_Interval
  <2>3. Occ(elem, 1..n, x) \in Nat /\ Occ(stk', Slot, x) \in Nat
    BY <2>2, SlotFinite, OccType
  <2> QED BY <2>1, <2>3, Exact
<1> QED BY <1>5, <1>7, <1>8, CountsStep

\* What held before still agrees with the classes, and so does the new array.
LEMMA AllocateAgrees ==
  ASSUME CountsInv, NEW o \in Free, NEW n, NEW elem, Allocate(o, n, elem)
  PROVE  /\ o \in Obj /\ Array(o) \in Value
         /\ Agrees(class', Array(o))
         /\ \A s \in Slot : Agrees(class', stk[s])
<1>1. TypeOK /\ o \in Obj /\ class[o] = "free" BY DEF CountsInv, Free
<1>2. class' = [class EXCEPT ![o] = "array"] BY DEF Allocate
<1>3. class \in [Obj -> {"free", "array"} \cup Fun] BY <1>1 DEF TypeOK, HeapOK
<1>4. \A x \in Obj : class[x] # "free" => class'[x] = class[x] BY <1>1, <1>2, <1>3
<1>5. Agrees(class', Array(o)) BY <1>1, <1>2, <1>3 DEF Agrees, Array
<1> QED BY <1>1, <1>4, <1>5, SlotAgrees, AgreesKept, ObjectType_

LEMMA ArrayCount == \A o, x : Count(Array(o), x) = IF o = x THEN 1 ELSE 0
  BY DEF Count, Holds, Array, IsObject, ObjectType

\* The values of an array literal move from the stack into the array.
LEMMA NewArrayCounts == CountsInv /\ NewArray => CountsInv'
<1> SUFFICES ASSUME CountsInv, NewArray PROVE CountsInv'
  OBVIOUS
<1>1. TypeOK' /\ TypeOK BY NewArrayType DEF CountsInv
<1>2. At("NEW_ARRAY") /\ A \in Idx /\ Operands(A) BY DEF NewArray
<1>3. A \in Nat /\ A >= 1 /\ A \in 0..MaxLen BY <1>1, <1>2, CellFacts DEF Idx
<1>4. sp - A >= 1 /\ sp \in Int /\ sp - A \in Slot BY <1>1, <1>2, <1>3, OperandFacts, SlotFacts
<1>5. CASE Fail BY <1>1, <1>5, FailCounts
<1>6. ASSUME NEW o \in Free,
             Allocate(o, A, [i \in 1..A |-> stk[sp - A + i]]),
             Collapse(A - 1, Array(o)),
             Becomes(Retain(Mem, Array(o)))
      PROVE  CountsInv'
  <2> DEFINE elem == [i \in 1..A |-> stk[sp - A + i]]
             n == A
             d == sp - A
             m == Retain(Mem, Array(o))
  <2>1. n \in Nat /\ n >= 1 /\ n \in 0..MaxLen /\ d >= 1 /\ d \in Int /\ d + n = sp
        /\ n - 1 \in Nat /\ sp - (n - 1) >= 1 /\ sp - (n - 1) - 1 = d
    BY <1>3, <1>4
  <2>2. \A i \in 1..n : elem[i] = stk[d + i] /\ d + i \in Slot
    BY <1>1, <2>1, SlotFacts
  <2>3. Allocate(o, n, elem) /\ Collapse(n - 1, Array(o)) /\ Becomes(m) BY <1>6
  <2> HIDE DEF elem, n, d
  <2>4. \A i \in 1..n : elem[i] \in Value /\ Agrees(class, elem[i]) BY <2>2, SlotAgrees
  <2>5. m \in MemType /\ AtZero(m)
    BY <1>2, StartAtZero, RetainType, RetainsSpare, SpareAtZero
  <2>6. ASSUME NEW x \in Obj
        PROVE  m.rc[x] = rc[x] + Occ(stk', Slot, x) - Occ(stk, Slot, x)
                               + Occ(elem, 1..n, x)
    <3>1. m.rc[x] = rc[x] + Count(Array(o), x) BY RetainCount, Exact
    <3>2. Occ(stk', Slot, x) = Occ(stk, 0..d, x) + Count(Array(o), x)
      <4>1. Occ(stk', Slot, x) =
              Occ(stk, 0..(sp - (n - 1) - 1), x) + Count(Array(o), x)
        BY <1>1, <2>1, <2>3, CollapseCounts
      <4> QED BY <2>1, <4>1
    <3>3. /\ Occ(stk, 0..sp, x) = Occ(stk, 0..d, x) + Occ(stk, (d + 1)..sp, x)
          /\ Occ(stk, 0..d, x) \in Nat /\ Occ(stk, (d + 1)..sp, x) \in Nat
      <4>1. /\ d < d + 1 /\ d + 1 <= d + 1 /\ 0 <= d + 1 /\ d <= sp
            /\ sp \in Int /\ d \in Int /\ d + 1 \in Int /\ 0 \in Int
        BY <1>4, <2>1
      <4> QED BY <4>1, OccCut
    <3>6. Occ(elem, 1..n, x) = Occ(stk, (d + 1)..sp, x)
      <4> DEFINE a == 1
                 b == d + 1
      <4>1. ASSUME NEW i \in Int, a <= i, i <= n
            PROVE  Count(elem[i], x) = Count(stk[i - a + b], x)
        <5>1. i \in 1..n /\ i - a + b = d + i BY <2>1, <4>1
        <5>2. elem[i] = stk[d + i] BY <2>2, <5>1
        <5> QED BY <5>1, <5>2
      <4>2. n - a = sp - b /\ n \in Int /\ a \in Int /\ sp \in Int /\ b \in Int
        BY <1>4, <2>1
      <4> HIDE DEF a, b
      <4>3. Occ(elem, a..n, x) = Occ(stk, b..sp, x) BY <4>1, <4>2, OccShift
      <4> QED BY <4>3 DEF a, b
    <3>7. Occ(stk, Slot, x) = Occ(stk, 0..sp, x) BY <1>1, StackHeight
    <3> HIDE DEF m
    <3> QED BY <3>1, <3>2, <3>3, <3>6, <3>7, Exact, CountType, SMTT(60)
  <2>7. \A s \in Slot : Agrees(class', stk'[s])
    BY <1>1, <2>1, <2>3, AllocateAgrees, CollapseCounts
  <2> HIDE DEF m
  <2> QED BY <1>1, <2>1, <2>3, <2>4, <2>5, <2>6, <2>7, AllocateCounts
<1> QED BY <1>5, <1>6 DEF NewArray

\* The literal [] leaves the heap's counts alone, and adds the one of its slot.
LEMMA EmptyCounts ==
  ASSUME CountsInv, TypeOK', NEW o \in Free, Allocate(o, 0, <<>>),
         NEW m \in MemType, Becomes(m), AtZero(m),
         \A x \in Obj : m.rc[x] = rc[x] + Occ(stk', Slot, x) - Occ(stk, Slot, x),
         \A s \in Slot : Agrees(class', stk'[s])
  PROVE  CountsInv'
<1> DEFINE n == 0
           elem == <<>>
<1>1. n \in 0..MaxLen /\ 1..n = {} BY CellFacts DEF CountsInv
<1>2. \A i \in 1..n : elem[i] \in Value /\ Agrees(class, elem[i]) BY <1>1
<1>3. Allocate(o, n, elem) OBVIOUS
<1> HIDE DEF n, elem
<1>4. ASSUME NEW x \in Obj
      PROVE  m.rc[x] = rc[x] + Occ(stk', Slot, x) - Occ(stk, Slot, x)
                             + Occ(elem, 1..n, x)
  <2>1. Occ(elem, 1..n, x) = 0 BY <1>1, OccNone
  <2>2. m.rc[x] = rc[x] + Occ(stk', Slot, x) - Occ(stk, Slot, x) OBVIOUS
  <2>3. m.rc[x] \in Int BY DEF MemType
  <2> QED BY <2>1, <2>2, <2>3
<1> QED BY <1>1, <1>2, <1>3, <1>4, AllocateCounts

LEMMA NewEmptyArrayCounts == CountsInv /\ NewEmptyArray => CountsInv'
<1> SUFFICES ASSUME CountsInv, NewEmptyArray PROVE CountsInv'
  OBVIOUS
<1>1. TypeOK' /\ TypeOK BY NewEmptyArrayType DEF CountsInv
<1>2. At("NEW_ARRAY") BY DEF NewEmptyArray
<1>3. CASE Fail BY <1>1, <1>3, FailCounts
<1>4. ASSUME sp < MaxSlots,
             NEW o \in Free, Allocate(o, 0, <<>>),
             stk' = [stk EXCEPT ![sp + 1] = Array(o)],
             Becomes(Retain(Mem, Array(o)))
      PROVE  CountsInv'
  <2> DEFINE v == Array(o)
             m == Retain(Mem, v)
  <2>1. sp + 1 \in Slot /\ stk[sp + 1] = Nil BY <1>1, <1>4, SlotFacts
  <2>2. \A s \in Slot : stk'[s] = IF s = sp + 1 THEN v ELSE stk[s]
    BY <1>1, <1>4, SlotFacts
  <2>3. Agrees(class', v) /\ \A s \in Slot : Agrees(class', stk[s])
    BY <1>4, AllocateAgrees
  <2> HIDE DEF v
  <2>4. \A s \in Slot : Agrees(class', stk'[s]) BY <2>2, <2>3
  <2>5. m \in MemType /\ AtZero(m)
    BY <1>2, StartAtZero, RetainType, RetainsSpare, SpareAtZero
  <2>6. ASSUME NEW x \in Obj
        PROVE  m.rc[x] = rc[x] + Occ(stk', Slot, x) - Occ(stk, Slot, x)
    <3>1. \A s \in Slot \ {sp + 1} : Count(stk'[s], x) = Count(stk[s], x) BY <2>2
    <3>2. Occ(stk', Slot, x) =
            Occ(stk, Slot, x) - Count(stk[sp + 1], x) + Count(stk'[sp + 1], x)
      BY <2>1, <3>1, SlotWrite
    <3>3. stk'[sp + 1] = v /\ Count(stk[sp + 1], x) = 0 BY <2>1, <2>2, NilFacts
    <3>4. m.rc[x] = rc[x] + Count(v, x) BY RetainCount, Exact
    <3>5. Count(v, x) \in Int BY CountType
    <3> HIDE DEF m
    <3> QED BY <3>2, <3>3, <3>4, <3>5, Exact
  <2>7. Becomes(m) BY <1>4 DEF v
  <2> HIDE DEF m
  <2> QED BY <1>1, <1>4, <2>4, <2>5, <2>6, <2>7, EmptyCounts
<1>5. ASSUME NEW o \in Free, Allocate(o, 0, <<>>), UNCHANGED <<stk, rc, dying>>
      PROVE  CountsInv'
  <2> DEFINE m == Mem
  <2>1. m \in MemType /\ AtZero(m) BY <1>2, StartAtZero
  <2>2. Becomes(m) BY <1>5 DEF Becomes, Mem
  <2>3. ASSUME NEW x \in Obj
        PROVE  m.rc[x] = rc[x] + Occ(stk', Slot, x) - Occ(stk, Slot, x)
    <3>1. m.rc[x] = rc[x] /\ stk' = stk BY <1>5 DEF Mem
    <3> HIDE DEF m
    <3> QED BY <3>1, Exact
  <2>4. \A s \in Slot : Agrees(class', stk'[s]) BY <1>5, AllocateAgrees
  <2> HIDE DEF m
  <2> QED BY <1>1, <1>5, <2>1, <2>2, <2>3, <2>4, EmptyCounts
<1>6. CASE UNCHANGED <<stk, heapVars, rc, dying>>
  <2>1. \A s \in Slot : Agrees(class, stk'[s]) BY <1>1, <1>6, SlotAgrees
  <2> QED BY <1>1, <1>6, <2>1, CountsUnmoved
<1> QED BY <1>3, <1>4, <1>5, <1>6 DEF NewEmptyArray

LEMMA CellsAre ==
  ASSUME TypeOK, NEW arr \in Obj
  PROVE  /\ Cells(arr) = CellsAt(arr, 1..len[arr])
         /\ Cells(arr) \subseteq Cell /\ IsFiniteSet(Cells(arr))
         /\ IsFiniteSet(1..len[arr]) /\ len[arr] \in Nat /\ len[arr] \in 0..MaxLen
         /\ \A i \in 1..len[arr] : <<arr, i>> \in Cells(arr) /\ <<arr, i>> \in Cell
<1>1. Cells(arr) = CellsAt(arr, 1..len[arr]) BY DEF Cells, CellsAt
<1>2. len[arr] \in Nat /\ len[arr] \in 0..MaxLen BY CellFacts
<1>3. IsFiniteSet(1..len[arr]) BY <1>2, FS_Interval
<1>4. \A i \in 1..len[arr] : <<arr, i>> \in Cells(arr) BY DEF Cells
<1> QED BY <1>1, <1>2, <1>3, <1>4, CellsFinite

\* A copy of the array arr holds what arr does but for element i.
LEMMA CopyCount ==
  ASSUME TypeOK, NEW arr \in Obj, NEW i \in 1..len[arr], NEW val3, NEW x
  PROVE  LET elem == [j \in 1..len[arr] |-> IF j = i THEN val3 ELSE cell[<<arr, j>>]]
         IN  Occ(elem, 1..len[arr], x) = Occ(cell, Kept(arr, i), x) + Count(val3, x)
<1> DEFINE T == 1..len[arr]
           elem == [j \in T |-> IF j = i THEN val3 ELSE cell[<<arr, j>>]]
           f == [c \in Cell |-> IF c = <<arr, i>> THEN val3 ELSE cell[c]]
<1>1. /\ Cells(arr) = CellsAt(arr, T) /\ IsFiniteSet(T) /\ IsFiniteSet(Cells(arr))
      /\ <<arr, i>> \in Cells(arr) /\ Cells(arr) \subseteq Cell
      /\ \A j \in T : <<arr, j>> \in Cell
  BY CellsAre
<1>2. \A j \in T : f[<<arr, j>>] = elem[j] BY <1>1
<1>3. f[<<arr, i>>] = val3 /\ \A c \in Cell : c # <<arr, i>> => f[c] = cell[c]
  BY <1>1
<1>4. Kept(arr, i) = Cells(arr) \ {<<arr, i>>} BY DEF Kept
<1> HIDE DEF T, elem, f
<1>5. \A j \in T : Count(f[<<arr, j>>], x) = Count(elem[j], x) BY <1>2
<1>6. Occ(f, CellsAt(arr, T), x) = Occ(elem, T, x) BY <1>1, <1>5, OccElements
<1> DEFINE S == Cells(arr)
           c0 == <<arr, i>>
<1>7. IsFiniteSet(S) /\ c0 \in S /\ S \subseteq Cell BY <1>1
<1> HIDE DEF S, c0
<1>8. Occ(f, S, x) = Occ(f, S \ {c0}, x) + Count(f[c0], x) BY <1>7, OccRemove
<1>9. \A c \in S \ {c0} : Count(f[c], x) = Count(cell[c], x) BY <1>3, <1>7 DEF c0
<1>10. Occ(f, S \ {c0}, x) = Occ(cell, S \ {c0}, x) BY <1>9, OccSame
<1>11. S \ {c0} = Kept(arr, i) /\ f[c0] = val3 BY <1>3, <1>4 DEF S, c0
<1>12. Occ(elem, T, x) = Occ(cell, Kept(arr, i), x) + Count(val3, x)
  BY <1>1, <1>6, <1>8, <1>10, <1>11 DEF S
<1> QED BY <1>12 DEF T, elem

LEMMA CopyAndSetCounts ==
  ASSUME CountsInv, TypeOK', NEW op, At(op), sp - 2 >= 1,
         NEW arr \in Obj, NEW i \in 1..len[arr], NEW val3 \in Value,
         val3 = Get(0), ~IsObject(Get(1)), Agrees(class, val3),
         CopyAndSet(arr, i, val3)
  PROVE  CountsInv'
<1> DEFINE n == len[arr]
           elem == [j \in 1..n |-> IF j = i THEN val3 ELSE cell[<<arr, j>>]]
           K == Kept(arr, i)
           m1 == RetainAll(Mem, cell, K)
           m2 == Retain(m1, val3)
<1>1. TypeOK BY DEF CountsInv
<1>2. CASE Fail BY <1>2, FailCounts
<1>3. ASSUME NEW o \in Free,
             Allocate(o, n, elem),
             Becomes(Release(Release(Retain(m2, Array(o)), Get(2)), val3)),
             Collapse(2, Array(o))
      PROVE  CountsInv'
  <2> DEFINE m3 == Retain(m2, Array(o))
             m4 == Release(m3, Get(2))
             m == Release(m4, val3)
  <2>1. /\ n \in 0..MaxLen /\ IsFiniteSet(Cells(arr))
        /\ \A j \in 1..n : <<arr, j>> \in Cell
    BY <1>1, CellsAre
  <2>2. \A j \in 1..n : elem[j] \in Value /\ Agrees(class, elem[j])
    BY <2>1, CellAgrees
  <2>3. IsFiniteSet(K) BY <2>1, FS_Difference DEF Kept
  <2>4. \A x : Occ(elem, 1..n, x) = Occ(cell, K, x) + Count(val3, x)
    BY <1>1, CopyCount
  <2> HIDE DEF n, elem, K
  <2>5. m1 \in MemType /\ m1.dying = {}
    BY <2>3, StartAtZero, RetainAllType, RetainsSpare
  <2>6. m2 \in MemType /\ m2.dying = {} BY <2>5, RetainType, RetainsSpare
  <2>7. m3 \in MemType /\ AtZero(m3) BY <2>6, RetainType, RetainsSpare, SpareAtZero
  <2>8. m4 \in MemType /\ AtZero(m4) BY <2>7, ReleaseType, ReleaseAtZero
  <2>9. m \in MemType /\ AtZero(m) BY <2>8, ReleaseType, ReleaseAtZero
  <2>10. ASSUME NEW x \in Obj
         PROVE  m.rc[x] = rc[x] + Occ(stk', Slot, x) - Occ(stk, Slot, x)
                                + Occ(elem, 1..n, x)
    <3>1. m1.rc[x] = rc[x] + Occ(cell, K, x) BY RetainAllCount, Exact
    <3>2. m2.rc[x] = m1.rc[x] + Count(val3, x) BY <2>5, RetainCount
    <3>3. m3.rc[x] = m2.rc[x] + Count(Array(o), x) BY <2>6, RetainCount
    <3>4. m4.rc[x] = m3.rc[x] - Count(Get(2), x) BY <2>7, ReleaseCount
    <3>5. m.rc[x] = m4.rc[x] - Count(val3, x) BY <2>8, ReleaseCount
    <3>6. Occ(stk', Slot, x) = Occ(stk, 0..(sp - 2 - 1), x) + Count(Array(o), x)
      BY <1>1, <1>3, CollapseCounts
    <3>7. /\ Occ(stk, Slot, x) = Occ(stk, 0..(sp - 2 - 1), x) + Count(Get(2), x)
                                   + Count(Get(1), x) + Count(val3, x)
          /\ Occ(stk, 0..(sp - 2 - 1), x) \in Nat
      BY <1>1, TopThree
    <3>8. Count(Get(1), x) = 0 BY CountScalar
    <3>9. Occ(cell, K, x) \in Nat BY <2>3, OccType
    <3>10. /\ Count(val3, x) \in Int /\ Count(Get(2), x) \in Int
           /\ Count(Array(o), x) \in Int
      BY CountType
    <3>11. rc[x] \in Int BY Exact
    <3>12. Occ(elem, 1..n, x) = Occ(cell, K, x) + Count(val3, x) BY <2>4
    <3> HIDE DEF m, m1, m2, m3, m4
    <3> QED BY <3>1, <3>2, <3>3, <3>4, <3>5, <3>6, <3>7, <3>8, <3>9, <3>10, <3>11, <3>12, SMTT(60)
  <2>11. \A s \in Slot : Agrees(class', stk'[s])
    BY <1>1, <1>3, AllocateAgrees, CollapseCounts
  <2>12. Becomes(m) BY <1>3
  <2> HIDE DEF m
  <2> QED BY <1>3, <2>1, <2>2, <2>9, <2>10, <2>11, <2>12, AllocateCounts
<1> QED BY <1>2, <1>3 DEF CopyAndSet

LEMMA SetInPlaceCounts ==
  ASSUME CountsInv, TypeOK', NEW op, At(op), sp - 2 >= 1,
         NEW arr \in Obj, NEW i \in 1..len[arr], NEW val3 \in Value,
         val3 = Get(0), ~IsObject(Get(1)), Agrees(class, val3),
         SetInPlace(arr, i, val3)
  PROVE  CountsInv'
<1> DEFINE c0 == <<arr, i>>
           m1 == Retain(Mem, val3)
           m2 == Release(m1, cell[c0])
           m == Release(m2, val3)
<1>1. TypeOK BY DEF CountsInv
<1>2. c0 \in Cell /\ cell \in [Cell -> Value] BY <1>1, CellsAre, CellFacts
<1>3. /\ cell' = [cell EXCEPT ![c0] = val3] /\ Becomes(m) /\ Collapse(2, Get(2))
      /\ len' = len /\ class' = class
  BY DEF SetInPlace
<1> HIDE DEF c0
<1>4. \A c \in Cell : cell'[c] = IF c = c0 THEN val3 ELSE cell[c] BY <1>2, <1>3
<1>5. m1 \in MemType /\ AtZero(m1)
  BY StartAtZero, RetainType, RetainsSpare, SpareAtZero
<1>6. m2 \in MemType /\ AtZero(m2) BY <1>5, ReleaseType, ReleaseAtZero
<1>7. m \in MemType /\ AtZero(m) BY <1>6, ReleaseType, ReleaseAtZero
<1>8. Get(2) = stk[sp - 2] /\ sp - 2 \in Slot BY <1>1, SlotFacts DEF Get
<1>9. \A s \in Slot : Agrees(class', stk'[s])
  BY <1>1, <1>3, <1>8, SlotAgrees, CollapseCounts
<1>10. WellTyped' BY <1>3, <1>4, <1>9, CellAgrees, WellTypedNext
<1>11. FreeEmpty' BY <1>3 DEF FreeEmpty, CountsInv
<1>12. ASSUME NEW x \in Obj
       PROVE  m.rc[x] = rc[x] + Occ(stk', Slot, x) - Occ(stk, Slot, x)
                              + Occ(cell', Cell, x) - Occ(cell, Cell, x)
  <2>1. m1.rc[x] = rc[x] + Count(val3, x) BY RetainCount, Exact
  <2>2. m2.rc[x] = m1.rc[x] - Count(cell[c0], x) BY <1>5, ReleaseCount
  <2>3. m.rc[x] = m2.rc[x] - Count(val3, x) BY <1>6, ReleaseCount
  <2>4. Occ(stk', Slot, x) = Occ(stk, 0..(sp - 2 - 1), x) + Count(Get(2), x)
    BY <1>1, <1>3, CollapseCounts
  <2>5. /\ Occ(stk, Slot, x) = Occ(stk, 0..(sp - 2 - 1), x) + Count(Get(2), x)
                                 + Count(Get(1), x) + Count(val3, x)
        /\ Occ(stk, 0..(sp - 2 - 1), x) \in Nat
    BY <1>1, TopThree
  <2>6. Count(Get(1), x) = 0 BY CountScalar
  <2>7. \A c \in Cell \ {c0} : Count(cell'[c], x) = Count(cell[c], x) BY <1>4
  <2>8. Occ(cell', Cell, x) = Occ(cell, Cell, x) - Count(cell[c0], x) + Count(cell'[c0], x)
    BY <1>2, <2>7, CellFinite, OccWrite
  <2>9. cell'[c0] = val3 BY <1>2, <1>4
  <2>10. /\ Count(val3, x) \in Int /\ Count(Get(2), x) \in Int
         /\ Count(cell[c0], x) \in Int /\ Count(Get(0), x) = Count(val3, x)
    BY CountType
  <2>11. rc[x] \in Int /\ Occ(cell, Cell, x) \in Int BY Exact
  <2> HIDE DEF m, m1, m2
  <2> QED BY <2>1, <2>2, <2>3, <2>4, <2>5, <2>6, <2>8, <2>9, <2>10, <2>11, SMTT(60)
<1> HIDE DEF m
<1> QED BY <1>3, <1>7, <1>10, <1>11, <1>12, CountsStep

LEMMA WriteElementCounts ==
  ASSUME CountsInv, TypeOK', NEW op, At(op), Operands(3), InRange(Get(2), Get(1)),
         WriteElement(Get(2), Get(1), Get(0))
  PROVE  CountsInv'
<1>1. TypeOK BY DEF CountsInv
<1>2. sp - 2 >= 1 /\ Get(0) \in Value /\ Get(1) \in Value /\ Get(2) \in Value
  BY <1>1, OperandFacts, SlotFacts
<1>3. Get(2).data \in Obj /\ Get(1).data + 1 \in 1..len[Get(2).data]
  BY <1>1, <1>2, ElementType
<1>4. ~IsObject(Get(1)) BY DEF InRange, IsObject, ObjectType
<1>5. Get(0) = stk[sp] /\ sp \in Slot BY <1>1, SlotFacts DEF Get
<1>6. Agrees(class, Get(0)) BY <1>5, SlotAgrees
<1> QED BY <1>2, <1>3, <1>4, <1>6, CopyAndSetCounts, SetInPlaceCounts DEF WriteElement

LEMMA SetElementCounts == CountsInv /\ SetElement => CountsInv'
<1> SUFFICES ASSUME CountsInv, SetElement PROVE CountsInv'
  OBVIOUS
<1>1. TypeOK' BY SetElementType DEF CountsInv
<1> QED BY <1>1, WriteElementCounts, FailCounts DEF SetElement

LEMMA UpdateElementCounts == CountsInv /\ UpdateElement => CountsInv'
<1> SUFFICES ASSUME CountsInv, UpdateElement PROVE CountsInv'
  OBVIOUS
<1>1. TypeOK' BY UpdateElementType DEF CountsInv
<1> QED BY <1>1, WriteElementCounts DEF UpdateElement

\* The array gives way to its elements, and the positions to nothing.
LEMMA UnpackElementsCounts == CountsInv /\ UnpackElements => CountsInv'
<1> SUFFICES ASSUME CountsInv, UnpackElements PROVE CountsInv'
  OBVIOUS
<1> DEFINE n == A
           val == Get(n)
           taken == {i \in 1..n : i <= len[val.data]}
           from(i) == <<val.data, Get(n - i).data + 1>>
           g == [i \in taken |-> cell[from(i)]]
           m1 == RetainAll(Mem, g, taken)
           m == Release(m1, val)
           d == sp - n
           k == IF n <= len[val.data] THEN n ELSE len[val.data]
           h == d - 1 + k
<1>1. TypeOK' /\ TypeOK BY UnpackElementsType DEF CountsInv
<1>2. At("UNPACK_ELEMENTS") /\ Operands(n + 1) BY DEF UnpackElements
<1>3. n \in Nat /\ sp - n >= 2 BY <1>1, <1>2, AtFacts, SlotFacts DEF Operands
<1>4. CASE Fail BY <1>1, <1>4, FailCounts
<1>5. CASE /\ val.type = "array"
           /\ \A i \in 1..n : Get(n - i).type = "number"
           /\ \A i \in taken : from(i) \in Cells(val.data)
           /\ stk' = [s \in Slot |->
                        IF s < sp - n THEN stk[s]
                        ELSE IF s - (sp - n) + 1 \in taken
                             THEN cell[from(s - (sp - n) + 1)] ELSE Nil]
           /\ Becomes(Release(RetainAll(Mem, [i \in taken |-> cell[from(i)]], taken),
                              val))
           /\ UNCHANGED heapVars
  <2>1. val.data \in Obj /\ val = stk[d] /\ d \in Slot
    BY <1>1, <1>3, <1>5, SlotFacts, ArrayData DEF Get
  <2>2. len[val.data] \in Nat BY <1>1, <2>1, CellFacts
  <2>3. /\ k \in Nat /\ k \in Int /\ k <= n /\ d \in Int /\ d >= 2 /\ d >= 0
        /\ h \in Int /\ d - 1 <= h /\ h <= sp /\ sp \in Int /\ d + n = sp
    BY <1>1, <1>3, <2>2, SlotFacts
  <2>16. taken = 1..k /\ 1 \in Int BY <1>3, <2>2
  <2>4. \A i \in taken : from(i) \in Cell BY <1>1, <1>5, <2>1, CellsFinite
  <2>5. \A i \in taken : g[i] = cell[from(i)] /\ Agrees(class, g[i]) BY <2>4, CellAgrees
  <2>6. \A s \in Slot : stk'[s] = IF s < d THEN stk[s]
                                  ELSE IF s - d + 1 \in taken THEN g[s - d + 1] ELSE Nil
    <3>1. \A s \in Slot : stk'[s] = IF s < d THEN stk[s]
                                    ELSE IF s - d + 1 \in taken
                                         THEN cell[from(s - d + 1)] ELSE Nil
      BY <1>5
    <3> HIDE DEF taken, from, d, g
    <3> QED BY <2>5, <3>1
  <2>7. \A s \in Slot : s > d => ~IsObject(stk[s])
    <3> SUFFICES ASSUME NEW s \in Slot, s > d PROVE ~IsObject(stk[s])
      OBVIOUS
    <3>1. CASE s > sp BY <1>1, <3>1, SlotFacts, ScalarFacts
    <3>2. CASE s <= sp
      <4>1. s - d \in 1..n /\ sp - (n - (s - d)) = s BY <1>1, <1>3, <2>3, <3>2, SlotFacts, SMTT(60)
      <4>2. stk[s].type = "number" BY <1>5, <4>1 DEF Get
      <4> QED BY <4>2 DEF IsObject, ObjectType
    <3> QED BY <1>1, <3>1, <3>2, SlotFacts
  <2>8. Becomes(m) BY <1>5
  <2> HIDE DEF taken, from, g, d, k, h, val, n
  <2>17. IsFiniteSet(1..k) BY <2>3, <2>16, FS_Interval
  <2>9. IsFiniteSet(taken) BY <2>16, <2>17
  <2>10. m1 \in MemType /\ AtZero(m1)
    BY <1>2, <2>9, StartAtZero, RetainAllType, RetainsSpare, SpareAtZero
  <2>11. m \in MemType /\ AtZero(m) BY <2>10, ReleaseType, ReleaseAtZero
  <2>12. \A s \in Slot : Agrees(class, stk'[s]) BY <2>5, <2>6, SlotAgrees, NilFacts
  <2>13. MaxSlots \in Nat /\ Slot = 0..MaxSlots /\ sp <= MaxSlots BY <1>1, SlotFacts
  <2>14. h \in Slot BY <2>3, <2>13
  <2>15. ASSUME NEW x \in Obj
         PROVE  m.rc[x] = rc[x] + Occ(stk', Slot, x) - Occ(stk, Slot, x)
    <3>1. m1.rc[x] = rc[x] + Occ(g, taken, x) BY RetainAllCount, Exact
    <3>2. m.rc[x] = m1.rc[x] - Count(val, x) BY <2>10, ReleaseCount
    <3>3. Occ(stk, Slot, x) = Occ(stk, 0..d, x)
      BY <2>1, <2>7, <2>13, CountScalar, OccUpTo
    <3>4. /\ Occ(stk, 0..d, x) = Occ(stk, 0..(d - 1), x) + Count(val, x)
          /\ Occ(stk, 0..(d - 1), x) \in Nat
      BY <2>1, <2>3, OccTop
    <3>5. Occ(stk', Slot, x) = Occ(stk', 0..h, x)
      <4>1. \A s \in Slot : s > h => s >= d /\ s - d + 1 \notin taken
        BY <2>3, <2>13, <2>16 DEF h
      <4>2. \A s \in Slot : s > h => ~(s < d) /\ stk'[s] = Nil
        <5>1. \A s \in Slot : s > h => ~(s < d) BY <2>3, <2>13, <4>1
        <5> QED BY <2>6, <4>1, <5>1
      <4> QED BY <2>13, <2>14, <4>2, NilFacts, OccUpTo
    <3> DEFINE z == 0
               c == d - 1
               a == 1
    <3>6. z \in Int /\ c \in Int /\ d = c + 1 /\ z <= d /\ c <= h /\ a \in Int
          /\ h - d = k - a /\ k \in Int
      BY <2>3 DEF h
    <3>7. \A s \in z..c : s \in Slot /\ s < d BY <2>3, <2>13
    <3>8. \A s \in Int : d <= s /\ s <= h => s \in Slot /\ s - d + a \in taken /\ ~(s < d)
      BY <2>3, <2>13, <2>16 DEF h
    <3>9. \A s \in Int : d <= s /\ s <= h => s - d + 1 = s - d + a OBVIOUS
    <3> HIDE DEF z, c, a
    <3>10. /\ Occ(stk', z..h, x) = Occ(stk', z..c, x) + Occ(stk', d..h, x)
           /\ Occ(stk', z..c, x) \in Nat /\ Occ(stk', d..h, x) \in Nat
      <4>1. /\ z \in Int /\ c \in Int /\ d \in Int /\ h \in Int
            /\ c < d /\ d <= c + 1 /\ z <= d /\ c <= h
        BY <2>3, <3>6
      <4> QED BY <4>1, OccCut
    <3>11. Occ(stk', z..c, x) = Occ(stk, z..c, x)
      <4> DEFINE S == z..c
      <4>1. \A s \in S : s \in Slot /\ s < d BY <3>7
      <4> HIDE DEF S
      <4>2. \A s \in S : Count(stk'[s], x) = Count(stk[s], x) BY <2>6, <4>1
      <4>3. Occ(stk', S, x) = Occ(stk, S, x) BY <4>2, OccSame
      <4> QED BY <4>3 DEF S
    <3>12. ASSUME NEW s \in Int, d <= s, s <= h
           PROVE  Count(stk'[s], x) = Count(g[s - d + a], x)
      <4>1. s \in Slot /\ s - d + a \in taken /\ ~(s < d) /\ s - d + 1 = s - d + a
        BY <3>8, <3>9, <3>12
      <4> QED BY <2>6, <4>1
    <3>13. Occ(stk', d..h, x) = Occ(g, a..k, x)
      BY <2>3, <3>6, <3>12, OccShift, SMTT(60)
    <3>14. a..k = taken BY <2>16 DEF a
    <3>15. Occ(stk', 0..h, x) = Occ(stk, 0..(d - 1), x) + Occ(g, taken, x)
      BY <3>10, <3>11, <3>13, <3>14 DEF z, c
    <3>16. rc[x] \in Int /\ Count(val, x) \in Int BY Exact, CountType
    <3>17. Occ(g, taken, x) \in Nat BY <2>9, OccType
    <3> HIDE DEF m, m1
    <3> QED BY <3>1, <3>2, <3>3, <3>4, <3>5, <3>15, <3>16, <3>17
  <2> HIDE DEF m
  <2> QED BY <1>1, <1>5, <2>8, <2>11, <2>12, <2>15, StackCounts
<1> QED BY <1>4, <1>5 DEF UnpackElements

\* The elements of an array are what its cells hold.
LEMMA CellsCount ==
  ASSUME TypeOK, NEW arr \in Obj, NEW g, NEW x,
         \A i \in 1..len[arr] : Count(cell[<<arr, i>>], x) = Count(g[i], x)
  PROVE  Occ(cell, Cells(arr), x) = Occ(g, 1..len[arr], x)
<1> DEFINE T == 1..len[arr]
<1>1. Cells(arr) = CellsAt(arr, T) /\ IsFiniteSet(T) BY CellsAre
<1>2. \A i \in T : Count(cell[<<arr, i>>], x) = Count(g[i], x) OBVIOUS
<1> HIDE DEF T
<1>3. Occ(cell, CellsAt(arr, T), x) = Occ(g, T, x) BY <1>1, <1>2, OccElements
<1> QED BY <1>1, <1>3 DEF T

LEMMA ConcatCount ==
  ASSUME TypeOK, NEW arr1 \in Obj, NEW arr2 \in Obj, NEW x
  PROVE  LET n1 == len[arr1]
             n  == len[arr1] + len[arr2]
             elem == [i \in 1..n |->
                        IF i <= n1 THEN cell[<<arr1, i>>] ELSE cell[<<arr2, i - n1>>]]
         IN  Occ(elem, 1..n, x) = Occ(cell, Cells(arr1), x) + Occ(cell, Cells(arr2), x)
<1> DEFINE n1 == len[arr1]
           n2 == len[arr2]
           n  == n1 + n2
           elem == [i \in 1..n |->
                      IF i <= n1 THEN cell[<<arr1, i>>] ELSE cell[<<arr2, i - n1>>]]
           g2 == [i \in 1..n2 |-> cell[<<arr2, i>>]]
           b == n1 + 1
           a == 1
<1>1. n1 \in Nat /\ n2 \in Nat BY CellFacts
<1>2. \A i \in 1..n1 : elem[i] = cell[<<arr1, i>>] BY <1>1
<1>3. ASSUME NEW i \in Int, b <= i, i <= n
      PROVE  i - b + a \in 1..n2 /\ elem[i] = cell[<<arr2, i - b + a>>]
  <2>1. i \in 1..n /\ ~(i <= n1) /\ i - b + a = i - n1 /\ i - n1 \in 1..n2 BY <1>1, <1>3
  <2>2. elem[i] = cell[<<arr2, i - n1>>] BY <2>1
  <2> QED BY <2>1, <2>2
<1>4. \A i \in 1..n2 : g2[i] = cell[<<arr2, i>>] OBVIOUS
<1>5. /\ a \in Int /\ n1 \in Int /\ b \in Int /\ n \in Int /\ n2 \in Int
      /\ n1 < b /\ b <= n1 + 1 /\ a <= b /\ n1 <= n /\ n - b = n2 - a
  BY <1>1
<1> HIDE DEF elem, g2, b, n, a
<1>6. Occ(cell, Cells(arr1), x) = Occ(elem, 1..n1, x) BY <1>2, CellsCount
<1>7. Occ(cell, Cells(arr2), x) = Occ(g2, 1..n2, x) BY <1>4, CellsCount
<1> HIDE DEF n1, n2
<1>8. \A i \in Int : b <= i /\ i <= n => Count(elem[i], x) = Count(g2[i - b + a], x)
  BY <1>3, <1>4
<1>9. Occ(elem, b..n, x) = Occ(g2, a..n2, x) BY <1>5, <1>8, OccShift
<1>10. /\ Occ(elem, a..n, x) = Occ(elem, a..n1, x) + Occ(elem, b..n, x)
       /\ Occ(elem, a..n1, x) \in Nat /\ Occ(elem, b..n, x) \in Nat
  <2>1. /\ a \in Int /\ n1 \in Int /\ b \in Int /\ n \in Int
        /\ n1 < b /\ b <= n1 + 1 /\ a <= b /\ n1 <= n
    BY <1>5
  <2> QED BY <2>1, OccCut
<1>11. Occ(elem, 1..n, x) = Occ(cell, Cells(arr1), x) + Occ(cell, Cells(arr2), x)
  BY <1>6, <1>7, <1>9, <1>10 DEF a
<1> QED BY <1>11 DEF elem, n, n1, n2

LEMMA ConcatCounts ==
  ASSUME CountsInv, TypeOK', NEW op, At(op), Operands(2),
         NEW arr1 \in Obj, NEW arr2 \in Obj, Concat(arr1, arr2)
  PROVE  CountsInv'
<1> DEFINE n1 == len[arr1]
           n  == len[arr1] + len[arr2]
           elem == [i \in 1..n |->
                      IF i <= n1 THEN cell[<<arr1, i>>] ELSE cell[<<arr2, i - n1>>]]
           m1 == RetainAll(Mem, cell, Cells(arr1))
           m2 == RetainAll(m1, cell, Cells(arr2))
<1>1. TypeOK BY DEF CountsInv
<1>2. CASE Fail BY <1>2, FailCounts
<1>3. ASSUME n <= MaxLen,
             NEW o \in Free,
             Allocate(o, n, elem),
             Becomes(Release(Release(Retain(m2, Array(o)), Get(1)), Get(0))),
             Collapse(1, Array(o))
      PROVE  CountsInv'
  <2> DEFINE m3 == Retain(m2, Array(o))
             m4 == Release(m3, Get(1))
             m == Release(m4, Get(0))
             S1 == Cells(arr1)
             S2 == Cells(arr2)
  <2>1. /\ n \in 0..MaxLen /\ IsFiniteSet(S1) /\ IsFiniteSet(S2)
        /\ len[arr1] \in Nat /\ len[arr2] \in Nat
    BY <1>1, <1>3, CellsAre
  <2>2. \A i \in 1..n : elem[i] \in Value /\ Agrees(class, elem[i])
    <3> SUFFICES ASSUME NEW i \in 1..n PROVE elem[i] \in Value /\ Agrees(class, elem[i])
      OBVIOUS
    <3>1. CASE i <= n1
      <4>1. i \in 1..len[arr1] /\ elem[i] = cell[<<arr1, i>>] BY <2>1, <3>1
      <4> QED BY <1>1, <4>1, CellsAre, CellAgrees
    <3>2. CASE ~(i <= n1)
      <4>1. i - n1 \in 1..len[arr2] /\ elem[i] = cell[<<arr2, i - n1>>] BY <2>1, <3>2
      <4> QED BY <1>1, <4>1, CellsAre, CellAgrees
    <3> QED BY <3>1, <3>2
  <2>3. \A x : Occ(elem, 1..n, x) = Occ(cell, S1, x) + Occ(cell, S2, x)
    BY <1>1, ConcatCount
  <2>4. Becomes(m) BY <1>3
  <2>5. sp - 1 >= 1 BY <1>1, OperandFacts, SlotFacts
  <2> HIDE DEF n, elem, S1, S2
  <2>6. m1 \in MemType /\ m1.dying = {}
    BY <2>1, StartAtZero, RetainAllType, RetainsSpare DEF S1
  <2>7. m2 \in MemType /\ m2.dying = {} BY <2>1, <2>6, RetainAllType, RetainsSpare DEF S2
  <2>8. m3 \in MemType /\ AtZero(m3) BY <2>7, RetainType, RetainsSpare, SpareAtZero
  <2>9. m4 \in MemType /\ AtZero(m4) BY <2>8, ReleaseType, ReleaseAtZero
  <2>10. m \in MemType /\ AtZero(m) BY <2>9, ReleaseType, ReleaseAtZero
  <2>11. ASSUME NEW x \in Obj
         PROVE  m.rc[x] = rc[x] + Occ(stk', Slot, x) - Occ(stk, Slot, x)
                                + Occ(elem, 1..n, x)
    <3>1. m1.rc[x] = rc[x] + Occ(cell, S1, x) BY RetainAllCount, Exact DEF S1
    <3>2. m2.rc[x] = m1.rc[x] + Occ(cell, S2, x) BY RetainAllCount DEF S2
    <3>3. m3.rc[x] = m2.rc[x] + Count(Array(o), x) BY <2>7, RetainCount
    <3>4. m4.rc[x] = m3.rc[x] - Count(Get(1), x) BY <2>8, ReleaseCount
    <3>5. m.rc[x] = m4.rc[x] - Count(Get(0), x) BY <2>9, ReleaseCount
    <3>6. Occ(stk', Slot, x) = Occ(stk, 0..(sp - 1 - 1), x) + Count(Array(o), x)
      BY <1>1, <1>3, <2>5, CollapseCounts
    <3>7. /\ Occ(stk, Slot, x) = Occ(stk, 0..(sp - 1 - 1), x) + Count(Get(1), x)
                                   + Count(Get(0), x)
          /\ Occ(stk, 0..(sp - 1 - 1), x) \in Nat
      BY <1>1, <2>5, TopTwo
    <3>8. Occ(cell, S1, x) \in Nat /\ Occ(cell, S2, x) \in Nat BY <2>1, OccType
    <3>9. /\ Count(Get(1), x) \in Int /\ Count(Get(0), x) \in Int
          /\ Count(Array(o), x) \in Int
      BY CountType
    <3>10. rc[x] \in Int BY Exact
    <3>11. Occ(elem, 1..n, x) = Occ(cell, S1, x) + Occ(cell, S2, x) BY <2>3
    <3> HIDE DEF m, m1, m2, m3, m4
    <3> QED BY <3>1, <3>2, <3>3, <3>4, <3>5, <3>6, <3>7, <3>8, <3>9, <3>10, <3>11, SMTT(60)
  <2>12. \A s \in Slot : Agrees(class', stk'[s])
    BY <1>1, <1>3, <2>5, AllocateAgrees, CollapseCounts
  <2> HIDE DEF m
  <2> QED BY <1>3, <2>1, <2>2, <2>4, <2>10, <2>11, <2>12, AllocateCounts
<1> QED BY <1>2, <1>3 DEF Concat

LEMMA AddCounts == CountsInv /\ Add => CountsInv'
<1> SUFFICES ASSUME CountsInv, Add PROVE CountsInv'
  OBVIOUS
<1>1. TypeOK' /\ TypeOK BY AddType DEF CountsInv
<1>2. At("ADD") /\ Operands(2) BY DEF Add
<1>3. BothAre("array") => Get(1).data \in Obj /\ Get(0).data \in Obj
  BY <1>1, <1>2, OperandFacts, ArrayData DEF BothAre
<1>4. CASE Fail BY <1>1, <1>4, FailCounts
<1>5. CASE BothAre("number") /\ \E n \in 0..MaxNum : Combine(Number(n))
  BY <1>1, <1>2, <1>5, ScalarFacts, CombineCounts
<1>6. CASE BothAre("array") /\ Concat(Get(1).data, Get(0).data)
  BY <1>1, <1>2, <1>3, <1>6, ConcatCounts
<1> QED BY <1>4, <1>5, <1>6 DEF Add
-----------------------------------------------------------------------------
(***************************************************************************)
(* The calls, the returns, the natives and the life of a script.           *)
(*                                                                         *)
(* RETURN and TAIL_CALL release the closure of the frame, which no operand *)
(* names.  That the count they take away belongs to the bottom slot of the *)
(* frame is what FramesAnchored says; that the arguments of a tail call    *)
(* cover what they overwrite is part of Disciplined.                       *)
(***************************************************************************)

\* CountsStep, for a handler whose effect is known as a whole.
LEMMA CountsReached ==
  ASSUME TypeOK', WellTyped', FreeEmpty', NEW m, Becomes(m), AtZero(m),
         \A x \in Obj : m.rc[x] = Occ(stk', Slot, x) + Occ(cell', Cell, x)
  PROVE  CountsInv'
<1>1. RefCountExact' BY DEF RefCountExact, Occ, Becomes
<1>2. AtZero(Mem)' BY DEF AtZero, Mem, Becomes
<1> QED BY <1>1, <1>2 DEF CountsInv

LEMMA ClosureCount == \A o, x : Count(Closure(o), x) = IF o = x THEN 1 ELSE 0
  BY DEF Count, Holds, Closure, IsObject, ObjectType

-----------------------------------------------------------------------------
(***************************************************************************)
(* Calls.                                                                  *)
(***************************************************************************)
LEMMA NewClosureCounts == CountsInv /\ NewClosure => CountsInv'
<1> SUFFICES ASSUME CountsInv, NewClosure PROVE CountsInv'
  OBVIOUS
<1>1. TypeOK' /\ TypeOK BY NewClosureType DEF CountsInv
<1>2. At("NEW_CLOSURE") BY DEF NewClosure
<1>3. CASE Fail BY <1>1, <1>3, FailCounts
<1>4. ASSUME sp < MaxSlots,
             NEW o \in Free,
             class' = [class EXCEPT ![o] = A],
             stk' = [stk EXCEPT ![sp + 1] = Closure(o)],
             Becomes(Retain(Mem, Closure(o))),
             UNCHANGED <<cell, len>>
      PROVE  CountsInv'
  <2> DEFINE v == Closure(o)
             m == Retain(Mem, v)
  <2>1. A \in Fun /\ "free" \notin Fun
    BY <1>1, <1>2, AtFacts, ProgramAssumption DEF ProgramAssumption
  <2>2. o \in Obj /\ class[o] = "free" BY DEF Free
  <2>3. class \in [Obj -> {"free", "array"} \cup Fun] BY <1>1 DEF TypeOK, HeapOK
  <2>4. class'[o] \in Fun /\ \A x \in Obj : class[x] # "free" => class'[x] = class[x]
    BY <1>4, <2>1, <2>2, <2>3
  <2>5. FreeEmpty'
    <3>1. \A x \in Obj : class'[x] = "free" => class[x] = "free"
      BY <1>4, <2>1, <2>2, <2>3
    <3> QED BY <1>4, <3>1 DEF FreeEmpty, CountsInv
  <2>6. sp + 1 \in Slot /\ stk[sp + 1] = Nil BY <1>1, <1>4, SlotFacts
  <2>7. \A s \in Slot : stk'[s] = IF s = sp + 1 THEN v ELSE stk[s]
    BY <1>1, <1>4, SlotFacts
  <2>8. Agrees(class', v) BY <2>4 DEF Agrees, Closure
  <2> HIDE DEF v
  <2>9. \A s \in Slot : Agrees(class', stk'[s])
    BY <1>1, <2>4, <2>7, <2>8, SlotAgrees, AgreesKept
  <2>10. \A c \in Cell : Agrees(class', cell'[c])
    BY <1>1, <1>4, <2>4, CellAgrees, AgreesKept
  <2>11. WellTyped' BY <2>9, <2>10, WellTypedNext
  <2>12. m \in MemType /\ AtZero(m)
    BY <1>2, StartAtZero, RetainType, RetainsSpare, SpareAtZero
  <2>13. ASSUME NEW x \in Obj
         PROVE  m.rc[x] = rc[x] + Occ(stk', Slot, x) - Occ(stk, Slot, x)
                                + Occ(cell', Cell, x) - Occ(cell, Cell, x)
    <3>1. \A s \in Slot \ {sp + 1} : Count(stk'[s], x) = Count(stk[s], x) BY <2>7
    <3>2. Occ(stk', Slot, x) =
            Occ(stk, Slot, x) - Count(stk[sp + 1], x) + Count(stk'[sp + 1], x)
      BY <2>6, <3>1, SlotWrite
    <3>3. stk'[sp + 1] = v /\ Count(stk[sp + 1], x) = 0 BY <2>6, <2>7, NilFacts
    <3>4. m.rc[x] = rc[x] + Count(v, x) BY RetainCount, Exact
    <3>5. Count(v, x) \in Int BY CountType
    <3>6. cell' = cell BY <1>4
    <3> HIDE DEF m
    <3> QED BY <3>2, <3>3, <3>4, <3>5, <3>6, Exact
  <2>14. Becomes(m) BY <1>4 DEF v
  <2> HIDE DEF m
  <2> QED BY <1>1, <2>5, <2>11, <2>12, <2>13, <2>14, CountsStep
<1> QED BY <1>3, <1>4 DEF NewClosure

\* Cutting the arguments takes away what Extra counts.
LEMMA AdjustedCount ==
  ASSUME TypeOK, NEW c \in Int, NEW k \in Nat, NEW x
  PROVE  /\ Occ(stk, Slot, x) = Occ(Adjusted(c, k), Slot, x) + Occ(stk, Extra(c, k), x)
         /\ Occ(stk, Extra(c, k), x) \in Nat
<1> DEFINE T == Extra(c, k)
           f == Adjusted(c, k)
<1>1. T \subseteq Slot BY DEF Extra
<1>2. \A s \in T : f[s] = Nil BY SlotFacts DEF Extra, Adjusted
<1>3. \A s \in Slot \ T : f[s] = stk[s] BY SlotFacts DEF Extra, Adjusted
<1> HIDE DEF T, f
<1>4. /\ Occ(stk, Slot, x) = Occ(stk, Slot \ T, x) + Occ(stk, T, x)
      /\ Occ(f, Slot, x) = Occ(f, Slot \ T, x) + Occ(f, T, x)
  BY <1>1, SlotFinite, OccWithout
<1>5. Occ(f, T, x) = 0 BY <1>2, NilFacts, OccNone
<1>6. Occ(f, Slot \ T, x) = Occ(stk, Slot \ T, x)
  <2> DEFINE R == Slot \ T
  <2>1. \A s \in R : f[s] = stk[s] BY <1>3
  <2> HIDE DEF R
  <2>2. Occ(f, R, x) = Occ(stk, R, x) BY <2>1, OccSame
  <2> QED BY <2>2 DEF R
<1>7. IsFiniteSet(T) /\ IsFiniteSet(Slot \ T)
  BY <1>1, SlotFinite, FS_Subset, FS_Difference
<1>8. Occ(stk, T, x) \in Nat /\ Occ(stk, Slot \ T, x) \in Nat BY <1>7, OccType
<1>9. Occ(stk, Slot, x) = Occ(f, Slot, x) + Occ(stk, T, x) BY <1>4, <1>5, <1>6, <1>8
<1> QED BY <1>8, <1>9 DEF T, f

\* The stack of a call and what is released with it.
LEMMA AdjustedCounts ==
  ASSUME CountsInv, TypeOK', NEW op, At(op), UNCHANGED heapVars,
         NEW c \in 1..MaxSlots, NEW k \in Nat,
         stk' = Adjusted(c, k), Becomes(ReleaseAll(Mem, stk, Extra(c, k)))
  PROVE  CountsInv'
<1> DEFINE m == ReleaseAll(Mem, stk, Extra(c, k))
<1>1. TypeOK /\ c \in Int BY SlotFacts DEF CountsInv
<1>2. IsFiniteSet(Extra(c, k)) BY <1>1, AdjustedType
<1>3. m \in MemType /\ AtZero(m) BY <1>2, StartAtZero, ReleaseAllType, ReleaseAllAtZero
<1>4. ASSUME NEW x \in Obj
      PROVE  m.rc[x] = rc[x] + Occ(stk', Slot, x) - Occ(stk, Slot, x)
  <2>1. m.rc[x] = rc[x] - Occ(stk, Extra(c, k), x) BY ReleaseAllCount, Exact
  <2>2. /\ Occ(stk, Slot, x) = Occ(stk', Slot, x) + Occ(stk, Extra(c, k), x)
        /\ Occ(stk, Extra(c, k), x) \in Nat
    BY <1>1, AdjustedCount
  <2>3. Occ(stk', Slot, x) \in Nat /\ rc[x] \in Int BY SlotFinite, OccType, Exact
  <2> HIDE DEF m
  <2> QED BY <2>1, <2>2, <2>3
<1>5. \A s \in Slot : stk'[s] = stk[s] \/ stk'[s] = Nil BY DEF Adjusted
<1>6. \A s \in Slot : Agrees(class, stk'[s]) BY <1>5, SlotAgrees, NilFacts
<1>7. Becomes(m) OBVIOUS
<1> HIDE DEF m
<1> QED BY <1>3, <1>4, <1>6, <1>7, StackCounts

LEMMA CallCounts == CountsInv /\ Call => CountsInv'
<1> SUFFICES ASSUME CountsInv, Call PROVE CountsInv'
  OBVIOUS
<1> DEFINE c == sp - A
           val == stk[c]
           k == Arity[class[val.data]]
<1>1. TypeOK' /\ TypeOK BY CallType DEF CountsInv
<1>2. At("CALL") /\ Operands(A + 1) BY DEF Call
<1>3. CASE Fail BY <1>1, <1>3, FailCounts
<1>4. CASE /\ IsCallable(val)
           /\ stk' = Adjusted(c, k)
           /\ Becomes(ReleaseAll(Mem, stk, Extra(c, k)))
           /\ UNCHANGED heapVars
  <2>1. A \in Nat BY <1>1, <1>2, AtFacts
  <2>2. c \in 1..MaxSlots BY <1>1, <1>2, <2>1, AtFacts, SlotFacts DEF Operands
  <2>3. val \in Value BY <1>1, <2>2, SlotFacts
  <2>4. k \in Nat BY <1>4, <2>3, CallableType
  <2> HIDE DEF c, k
  <2> QED BY <1>1, <1>2, <1>4, <2>2, <2>4, AdjustedCounts
<1> QED BY <1>3, <1>4 DEF Call

\* What FramesAnchored says of the running frame.
LEMMA TopAnchored ==
  ASSUME TypeOK, FramesAnchored, NEW op, At(op)
  PROVE  /\ Top.base <= sp /\ Holds(stk[Top.base], Top.cl)
         /\ Top.cl \in Obj /\ class[Top.cl] \in Fun
         /\ \A x : Count(stk[Top.base], x) = Count(Closure(Top.cl), x)
<1>1. Len(frames) \in 1..Len(frames) /\ Top \in Frame BY AtFacts
<1>2. Top.base <= sp /\ Holds(stk[Top.base], Top.cl) /\ class[Top.cl] = Top.fn
  BY <1>1 DEF FramesAnchored, Top
<1>3. Top.cl \in Obj /\ Top.fn \in Fun BY <1>1 DEF Frame
<1>4. \A x : Count(stk[Top.base], x) = IF Top.cl = x THEN 1 ELSE 0
  BY <1>2 DEF Count, Holds
<1> QED BY <1>2, <1>3, <1>4, ClosureCount

\* From the stack f to the stack g the callee and its arguments, h - b of
\* them, move from h + 1 down to b, and what was above b is gone.
MovedDown(f, g, b, p, h) ==
  /\ b \in Int /\ p \in Int /\ h \in Int
  /\ b >= 1 /\ b < p /\ p <= b + 1 /\ b <= h
  /\ h + 1 + (h - b) <= MaxSlots
  /\ \A s \in Slot : s > h + 1 + (h - b) => f[s] = Nil
  /\ \A s \in Slot : s < b => g[s] = f[s]
  /\ \A s \in Slot : b <= s /\ s <= h => g[s] = f[s + 1 + (h - b)]
  /\ \A s \in Slot : s > h => g[s] = Nil

LEMMA MovedDownCount ==
  ASSUME NEW f, NEW g, NEW b, NEW p, NEW h, NEW x, MovedDown(f, g, b, p, h)
  PROVE  Occ(f, Slot, x) = Occ(g, Slot, x) + Count(f[b], x) + Occ(f, p..h, x)
<1> DEFINE c == h + 1
           e == h + 1 + (h - b)
           d == b - 1
           z == 0
<1> USE DEF MovedDown
<1>1. /\ z \in Int /\ d \in Int /\ h \in Int /\ e \in Int /\ c \in Int
      /\ h \in Slot /\ e \in Slot /\ Slot = 0..MaxSlots
      /\ b \in Int /\ p \in Int /\ MaxSlots \in Nat
  BY BoundAssumption DEF Slot, BoundAssumption
<1>2. \A s \in z..d : s \in Slot /\ s < b BY <1>1
<1>3. \A s \in Int : b <= s /\ s <= h => /\ s \in Slot
                                         /\ s + 1 + (h - b) = s - b + c
  BY <1>1
<1>5. \A s \in Slot : s > h => g[s] = Nil OBVIOUS
<1>6. \A s \in Slot : s > e => f[s] = Nil OBVIOUS
<1>7. Occ(g, Slot, x) = Occ(g, 0..h, x) /\ Occ(f, Slot, x) = Occ(f, 0..e, x)
  BY <1>1, <1>5, <1>6, NilFacts, OccUpTo
<1>8. ASSUME NEW s \in Int, b <= s, s <= h
      PROVE  Count(g[s], x) = Count(f[s - b + c], x)
  BY <1>3, <1>8
<1>9. \A s \in z..d : Count(g[s], x) = Count(f[s], x) BY <1>2
<1>10. e - c = h - b /\ z <= b /\ d < b /\ b <= d + 1 /\ d <= h /\ d <= e
       /\ h < c /\ c <= h + 1 /\ b < p /\ p <= b + 1 /\ b <= p /\ b <= h /\ h <= e
       /\ b <= c /\ p <= c
  OBVIOUS
<1> HIDE DEF c, e, d, z, MovedDown
<1>11. Occ(g, b..h, x) = Occ(f, c..e, x) BY <1>1, <1>8, <1>10, OccShift
<1>12. /\ Occ(g, z..h, x) = Occ(g, z..d, x) + Occ(g, b..h, x)
       /\ Occ(g, z..d, x) \in Nat /\ Occ(g, b..h, x) \in Nat
  <2>1. /\ z \in Int /\ d \in Int /\ b \in Int /\ h \in Int
        /\ d < b /\ b <= d + 1 /\ z <= b /\ d <= h
    BY <1>1, <1>10
  <2> QED BY <2>1, OccCut
<1>13. /\ Occ(f, z..e, x) = Occ(f, z..d, x) + Occ(f, b..e, x)
       /\ Occ(f, z..d, x) \in Nat /\ Occ(f, b..e, x) \in Nat
  BY <1>1, <1>10, OccCut
<1>14. /\ Occ(f, b..e, x) = Occ(f, b..h, x) + Occ(f, c..e, x)
       /\ Occ(f, b..h, x) \in Nat /\ Occ(f, c..e, x) \in Nat
  BY <1>1, <1>10, OccCut
<1>15. /\ Occ(f, b..h, x) = Occ(f, b..b, x) + Occ(f, p..h, x)
       /\ Occ(f, b..b, x) \in Nat /\ Occ(f, p..h, x) \in Nat
  <2>1. /\ b \in Int /\ h \in Int /\ p \in Int /\ b <= b
        /\ b < p /\ p <= b + 1 /\ b <= p /\ b <= h
    BY <1>1, <1>10
  <2> QED BY <2>1, OccCut
<1>16. b..b = {b} OBVIOUS
<1>17. Occ(f, b..b, x) = Count(f[b], x) BY <1>16, OccSingle
<1>18. Occ(g, z..d, x) = Occ(f, z..d, x)
  <2> DEFINE S == z..d
  <2>1. \A s \in S : Count(g[s], x) = Count(f[s], x) BY <1>9
  <2> HIDE DEF S
  <2>2. Occ(g, S, x) = Occ(f, S, x) BY <2>1, OccSame
  <2> QED BY <2>2 DEF S
<1>19. /\ Occ(g, Slot, x) = Occ(g, z..h, x) /\ Occ(f, Slot, x) = Occ(f, z..e, x)
  BY <1>7 DEF z
<1> QED BY <1>11, <1>12, <1>13, <1>14, <1>15, <1>17, <1>18, <1>19

LEMMA TailCallCounts ==
  CountsInv /\ FramesAnchored /\ Disciplined /\ TailCall => CountsInv'
<1> SUFFICES ASSUME CountsInv, FramesAnchored, Disciplined, TailCall PROVE CountsInv'
  OBVIOUS
<1> DEFINE c == sp - A
           val == stk[c]
           f == class[val.data]
           k == Arity[f]
           b == Top.base
           args == Adjusted(c, k)
           T == (b + 1)..(b + k)
           m1 == ReleaseAll(Mem, stk, Extra(c, k))
           m2 == Release(m1, Closure(Top.cl))
           m == ReleaseAll(m2, args, T)
<1>1. TypeOK' /\ TypeOK BY TailCallType DEF CountsInv
<1>2. At("TAIL_CALL") /\ Operands(A + 1) BY DEF TailCall
<1>3. A \in Nat /\ b \in 1..MaxSlots /\ MaxSlots \in Nat BY <1>1, <1>2, AtFacts, SlotFacts
<1>4. c \in 1..MaxSlots BY <1>1, <1>2, <1>3, SlotFacts DEF Operands
<1>5. val \in Value BY <1>1, <1>4, SlotFacts
<1>6. IsCallable(val) => k \in Nat BY <1>5, CallableType
<1>7. CASE Fail BY <1>1, <1>7, FailCounts
<1>8. CASE IsCallable(val) /\ c + k <= MaxSlots /\ stk' = args /\ Becomes(m1)
             /\ UNCHANGED heapVars
  <2> HIDE DEF c, k
  <2> QED BY <1>1, <1>2, <1>4, <1>6, <1>8, AdjustedCounts
<1>9. CASE IsCallable(val) /\ c + k > MaxSlots /\ stk' = args
             /\ UNCHANGED <<heapVars, rc, dying>>
  <2>1. \A s \in Slot : args[s] = stk[s]
    BY <1>1, <1>3, <1>4, <1>6, <1>9, SlotFacts DEF Adjusted
  <2> HIDE DEF args
  <2>2. \A s \in Slot : Agrees(class, stk'[s]) BY <1>9, <2>1, SlotAgrees
  <2> QED BY <1>1, <1>9, <2>1, <2>2, CountsUnmoved
<1>10. CASE /\ IsCallable(val) /\ c + k <= MaxSlots
            /\ stk' = [s \in Slot |-> IF s < b THEN stk[s]
                                      ELSE IF s <= b + k THEN args[s - b + c]
                                      ELSE Nil]
            /\ Becomes(ReleaseAll(m2, args, Overwritten(b, k)))
            /\ UNCHANGED heapVars
  <2>1. c = b + k + 1 BY <1>2, <1>10 DEF Disciplined, IsCallable
  <2>2. k \in Nat /\ b \in Int /\ b >= 1 /\ c \in Int
    <3>1. k \in Nat BY <1>6, <1>10
    <3> HIDE DEF k, b, c
    <3> QED BY <3>1, <1>3, <1>4
  <2>3. /\ \A s \in Slot : s <= c + k => args[s] = stk[s]
        /\ \A s \in Slot : s > c + k => args[s] = Nil
    BY <2>2, SlotFacts, <1>1 DEF Adjusted
  <2>4. \A s \in Slot : stk'[s] = IF s < b THEN args[s]
                                  ELSE IF s <= b + k THEN args[s - b + c] ELSE Nil
    <3>1. \A s \in Slot : s < b => s <= c + k BY <1>1, <2>1, <2>2, SlotFacts
    <3> HIDE DEF args
    <3> QED BY <1>10, <2>3, <3>1
  <2>5. Becomes(m) BY <1>10 DEF Overwritten
  <2>6. IsFiniteSet(Extra(c, k)) BY <1>1, <1>4, <2>2, AdjustedType
  <2>7. b \in Slot /\ args[b] = stk[b] BY <1>1, <1>3, <2>1, <2>2, <2>3, SlotFacts
  <2>8. IsFiniteSet(T)
    <3>1. b + 1 \in Int /\ b + k \in Int BY <2>2
    <3> QED BY <3>1, FS_Interval
  <2>9. \A s \in Slot : Agrees(class, stk'[s])
    <3>1. \A s \in Slot : Agrees(class, args[s])
      <4>1. \A s \in Slot : args[s] = stk[s] \/ args[s] = Nil BY DEF Adjusted
      <4> HIDE DEF args
      <4> QED BY <4>1, SlotAgrees, NilFacts
    <3>2. \A s \in Slot : ~(s < b) /\ s <= b + k => s - b + c \in Slot
      <4>1. c + k <= MaxSlots /\ Slot = 0..MaxSlots BY <1>1, <1>10, SlotFacts
      <4> HIDE DEF b, c, k
      <4>2. c >= 1 BY <1>4
      <4> QED BY <4>1, <4>2, <1>3, <2>1, <2>2
    <3> HIDE DEF args, b, c, k
    <3> QED BY <2>4, <3>1, <3>2, NilFacts
  <2>10. m1 \in MemType /\ AtZero(m1)
    BY <1>2, <2>6, StartAtZero, ReleaseAllType, ReleaseAllAtZero
  <2>11. m2 \in MemType /\ AtZero(m2) BY <2>10, ReleaseType, ReleaseAtZero
  <2> HIDE DEF m1, m2
  <2>12. m \in MemType /\ AtZero(m) BY <2>8, <2>11, ReleaseAllType, ReleaseAllAtZero
  <2>13. ASSUME NEW x \in Obj
         PROVE  m.rc[x] = rc[x] + Occ(stk', Slot, x) - Occ(stk, Slot, x)
    <3>1. m1.rc[x] = rc[x] - Occ(stk, Extra(c, k), x) BY ReleaseAllCount, Exact DEF m1
    <3>2. m2.rc[x] = m1.rc[x] - Count(stk[b], x)
      BY <1>1, <1>2, <2>10, TopAnchored, ReleaseCount DEF m2
    <3>3. m.rc[x] = m2.rc[x] - Occ(args, T, x) BY ReleaseAllCount
    <3>4. /\ Occ(stk, Slot, x) = Occ(args, Slot, x) + Occ(stk, Extra(c, k), x)
          /\ Occ(stk, Extra(c, k), x) \in Nat
      BY <1>1, <2>2, AdjustedCount
    <3> HIDE DEF m, args
    <3>5. Occ(args, Slot, x) = Occ(stk', Slot, x) + Count(args[b], x) + Occ(args, T, x)
      <4> DEFINE h == b + k
                 p == b + 1
      <4>1. /\ h \in Int /\ p \in Int /\ b < p /\ p <= b + 1 /\ b <= h
            /\ c + k = h + 1 + (h - b) /\ h + 1 + (h - b) <= MaxSlots
        BY <1>10, <2>1, <2>2
      <4>2. \A s \in Slot : s - b + c = s + 1 + (h - b)
        <5>1. \A s \in Slot : s \in Int BY <1>3 DEF Slot
        <5> HIDE DEF b, c, k
        <5> QED BY <2>1, <2>2, <5>1
      <4>3. /\ \A s \in Slot : s < b => stk'[s] = args[s]
            /\ \A s \in Slot : b <= s /\ s <= h => stk'[s] = args[s + 1 + (h - b)]
            /\ \A s \in Slot : s > h => stk'[s] = Nil
        <5>1. \A s \in Slot : s \in Int BY <1>3 DEF Slot
        <5>2. h \in Int /\ b <= h BY <4>1
        <5>3. \A s \in Slot : b <= s => ~(s < b) BY <2>2, <5>1
        <5>4. \A s \in Slot : s > h => ~(s < b) /\ ~(s <= b + k) BY <2>2, <5>1
        <5> HIDE DEF b, c, k
        <5> QED BY <2>4, <4>2, <5>3, <5>4
      <4>4. \A s \in Slot : s > h + 1 + (h - b) => args[s] = Nil BY <2>3, <4>1
      <4> HIDE DEF b, c, k, h, p
      <4>5. Occ(args, Slot, x) = Occ(stk', Slot, x) + Count(args[b], x) + Occ(args, p..h, x)
        <5>1. MovedDown(args, stk', b, p, h) BY <1>3, <2>2, <4>1, <4>3, <4>4 DEF MovedDown
        <5> QED BY <5>1, MovedDownCount
      <4> QED BY <4>5 DEF h, p
    <3>6. Count(args[b], x) = Count(stk[b], x) BY <2>7
    <3>7. Occ(args, T, x) \in Nat /\ Occ(stk', Slot, x) \in Nat
      BY <2>8, SlotFinite, OccType
    <3>8. Count(stk[b], x) \in Int /\ rc[x] \in Int BY CountType, Exact
    <3> HIDE DEF b, c, k, T
    <3> QED BY <3>1, <3>2, <3>3, <3>4, <3>5, <3>6, <3>7, <3>8
  <2> HIDE DEF m
  <2> QED BY <1>1, <1>10, <2>5, <2>9, <2>12, <2>13, StackCounts
<1> QED BY <1>7, <1>8, <1>9, <1>10 DEF TailCall

-----------------------------------------------------------------------------
(***************************************************************************)
(* Returns, and the natives that return.                                   *)
(***************************************************************************)
\* The counts m are those of the stack s0 up to below h, of res above it,
\* and of the arrays.
Counted(s0, h, m, res) ==
  \A x \in Obj : m.rc[x] = Occ(s0, 0..(h - 1), x) + Count(res, x) + Occ(cell', Cell, x)

LEMMA ReturnCounts ==
  ASSUME CountsInv, FramesAnchored, TypeOK', FreeEmpty', NEW op, At(op),
         \A c \in Cell : Agrees(class', cell'[c]),
         NEW s0, \A s \in Slot : Agrees(class', s0[s]), s0[Top.base] = stk[Top.base],
         NEW res, Agrees(class', res),
         NEW h, h \in Int, h <= MaxSlots + 1, Top.base < h,
         NEW m, m \in MemType, AtZero(m), Counted(s0, h, m, res),
         Return(s0, h, m, res)
  PROVE  CountsInv'
<1> DEFINE b == Top.base
           T == (b + 1)..(h - 1)
           m1 == Release(m, Closure(Top.cl))
           m2 == ReleaseAll(m1, s0, T)
<1>1. TypeOK BY DEF CountsInv
<1>2. b \in Slot /\ b \in Int /\ b >= 1 BY <1>1, AtFacts, SlotFacts
<1>3. Becomes(m2) /\ CutAt(s0, stk', b, res)
  BY <1>2 DEF Return, ReturnReleasing, CutAt
<1>4. IsFiniteSet(T)
  <2>1. b + 1 \in Int /\ h - 1 \in Int BY <1>2
  <2> QED BY <2>1, FS_Interval
<1> HIDE DEF b, T
<1>5. m1 \in MemType /\ AtZero(m1) BY ReleaseType, ReleaseAtZero
<1>6. m2 \in MemType /\ AtZero(m2) BY <1>4, <1>5, ReleaseAllType, ReleaseAllAtZero
<1>7. \A s \in Slot : Agrees(class', stk'[s]) BY <1>3, CutAgrees
<1>8. WellTyped' BY <1>7, WellTypedNext
<1>9. ASSUME NEW x \in Obj
      PROVE  m2.rc[x] = Occ(stk', Slot, x) + Occ(cell', Cell, x)
  <2>1. m.rc[x] = Occ(s0, 0..(h - 1), x) + Count(res, x) + Occ(cell', Cell, x)
    BY DEF Counted
  <2>2. m1.rc[x] = m.rc[x] - Count(Closure(Top.cl), x) BY ReleaseCount
  <2>3. m2.rc[x] = m1.rc[x] - Occ(s0, T, x) BY ReleaseAllCount
  <2>4. Count(Closure(Top.cl), x) = Count(s0[b], x) BY <1>1, TopAnchored DEF b
  <2>5. Occ(stk', Slot, x) = Occ(s0, 0..(b - 1), x) + Count(res, x) BY <1>3, CutCount
  <2> DEFINE e == h - 1
             p == b + 1
             z == 0
  <2>6. /\ z \in Int /\ b \in Int /\ p \in Int /\ e \in Int
        /\ b < p /\ p <= b + 1 /\ z <= p /\ b <= e
    BY <1>2 DEF b
  <2>7. /\ Occ(s0, 0..b, x) = Occ(s0, 0..(b - 1), x) + Count(s0[b], x)
        /\ Occ(s0, 0..(b - 1), x) \in Nat
    BY <1>2, OccTop
  <2> HIDE DEF e, p, z
  <2>8. /\ Occ(s0, z..e, x) = Occ(s0, z..b, x) + Occ(s0, p..e, x)
        /\ Occ(s0, z..b, x) \in Nat /\ Occ(s0, p..e, x) \in Nat
    BY <2>6, OccCut
  <2>9. Occ(s0, 0..(h - 1), x) = Occ(s0, 0..b, x) + Occ(s0, T, x)
        /\ Occ(s0, T, x) \in Nat
    BY <2>8 DEF T, z, p, e
  <2>10. Count(res, x) \in Int /\ Count(s0[b], x) \in Int /\ Occ(cell', Cell, x) \in Nat
    BY CountType, CellFinite, OccType
  <2> HIDE DEF m2, m1
  <2> QED BY <2>1, <2>2, <2>3, <2>4, <2>5, <2>7, <2>9, <2>10
<1> HIDE DEF m2
<1> QED BY <1>3, <1>6, <1>8, <1>9, CountsReached

LEMMA ReturnTopCounts == CountsInv /\ FramesAnchored /\ ReturnTop => CountsInv'
<1> SUFFICES ASSUME CountsInv, FramesAnchored, ReturnTop PROVE CountsInv'
  OBVIOUS
<1>1. TypeOK' /\ TypeOK BY ReturnTopType DEF CountsInv
<1>2. At("RETURN") /\ Operands(1) /\ Return(stk, sp, Mem, Get(0)) BY DEF ReturnTop
<1>3. class' = class /\ cell' = cell /\ len' = len BY DEF ReturnTop, heapVars
<1>4. /\ sp \in Int /\ sp <= MaxSlots + 1 /\ sp >= 0 /\ Top.base < sp /\ sp \in Slot
      /\ Get(0) = stk[sp]
  BY <1>1, <1>2, AtFacts, SlotFacts DEF Operands, Get
<1>5. FreeEmpty' BY <1>3 DEF FreeEmpty, CountsInv
<1>6. Mem \in MemType /\ AtZero(Mem) BY <1>2, StartAtZero
<1>7. ASSUME NEW x \in Obj
      PROVE  Mem.rc[x] = Occ(stk, 0..(sp - 1), x) + Count(Get(0), x) + Occ(cell', Cell, x)
  <2>1. Occ(stk, 0..sp, x) = Occ(stk, 0..(sp - 1), x) + Count(stk[sp], x)
    BY <1>4, OccTop
  <2>2. Occ(stk, Slot, x) = Occ(stk, 0..sp, x) BY <1>1, StackHeight
  <2>3. Mem.rc[x] = Occ(stk, Slot, x) + Occ(cell, Cell, x) BY Exact
  <2> QED BY <1>3, <1>4, <2>1, <2>2, <2>3
<1>8. Counted(stk, sp, Mem, Get(0)) BY <1>7 DEF Counted
<1>9. /\ \A s \in Slot : Agrees(class', stk[s])
      /\ \A c \in Cell : Agrees(class', cell'[c])
      /\ Agrees(class', Get(0))
  BY <1>3, <1>4, SlotAgrees, CellAgrees
<1> QED BY <1>1, <1>2, <1>4, <1>5, <1>6, <1>8, <1>9, ReturnCounts

LEMMA ReturnNilCounts == CountsInv /\ FramesAnchored /\ ReturnNil => CountsInv'
<1> SUFFICES ASSUME CountsInv, FramesAnchored, ReturnNil PROVE CountsInv'
  OBVIOUS
<1> DEFINE h == sp + 1
<1>1. TypeOK' /\ TypeOK BY ReturnNilType DEF CountsInv
<1>2. At("RETURN_NIL") BY DEF ReturnNil
<1>3. CASE Fail BY <1>1, <1>3, FailCounts
<1>4. CASE sp < MaxSlots /\ Return(stk, h, Mem, Nil) /\ UNCHANGED heapVars
  <2>1. class' = class /\ cell' = cell /\ len' = len BY <1>4 DEF heapVars
  <2>2. Top.base <= sp /\ Top.base \in Int BY <1>1, <1>2, TopAnchored, AtFacts
  <2>3. h \in Int /\ h <= MaxSlots + 1 /\ Top.base < h /\ h - 1 = sp
    BY <1>1, <2>2, SlotFacts
  <2>4. FreeEmpty' BY <2>1 DEF FreeEmpty, CountsInv
  <2>5. Mem \in MemType /\ AtZero(Mem) BY <1>2, StartAtZero
  <2> HIDE DEF h
  <2>6. ASSUME NEW x \in Obj
        PROVE  Mem.rc[x] = Occ(stk, 0..(h - 1), x) + Count(Nil, x) + Occ(cell', Cell, x)
    <3>1. Occ(stk, Slot, x) = Occ(stk, 0..(h - 1), x) BY <1>1, <2>3, StackHeight
    <3>2. Mem.rc[x] = Occ(stk, Slot, x) + Occ(cell, Cell, x) /\ Occ(stk, Slot, x) \in Nat
      BY Exact
    <3> QED BY <2>1, <3>1, <3>2, NilFacts
  <2>7. Counted(stk, h, Mem, Nil) BY <2>6 DEF Counted
  <2>8. /\ \A s \in Slot : Agrees(class', stk[s])
        /\ \A c \in Cell : Agrees(class', cell'[c])
        /\ Agrees(class', Nil)
    BY <2>1, SlotAgrees, CellAgrees, NilFacts
  <2> QED BY <1>1, <1>2, <1>4, <2>3, <2>4, <2>5, <2>7, <2>8, ReturnCounts
<1> QED BY <1>3, <1>4 DEF ReturnNil

\* The counts m are those of the stack s0 and of the arrays.
Held(s0, m) == \A x \in Obj : m.rc[x] = Occ(s0, Slot, x) + Occ(cell', Cell, x)

LEMMA ReturnValueCounts ==
  ASSUME CountsInv, FramesAnchored, TypeOK', FreeEmpty', NEW op, At(op),
         \A c \in Cell : Agrees(class', cell'[c]),
         NEW s0, \A s \in Slot : Agrees(class', s0[s]), s0[Top.base] = stk[Top.base],
         \A s \in Slot : s > sp => s0[s] = Nil,
         NEW res, Agrees(class', res),
         NEW m, m \in MemType, m.dying = {}, Held(s0, m),
         ReturnValue(s0, m, res)
  PROVE  CountsInv'
<1>1. TypeOK BY DEF CountsInv
<1>2. CASE sp = MaxSlots /\ stk' = s0 /\ Becomes(m)
  <2>1. AtZero(m) BY SpareAtZero
  <2>2. \A s \in Slot : Agrees(class', stk'[s]) BY <1>2
  <2>3. WellTyped' BY <2>2, WellTypedNext
  <2>4. \A x \in Obj : m.rc[x] = Occ(stk', Slot, x) + Occ(cell', Cell, x)
    BY <1>2 DEF Held
  <2> QED BY <1>2, <2>1, <2>3, <2>4, CountsReached
<1>3. CASE sp < MaxSlots /\ Return(s0, sp + 1, Retain(m, res), res)
  <2> DEFINE h == sp + 1
             m1 == Retain(m, res)
  <2>1. m1 \in MemType /\ AtZero(m1) BY RetainType, RetainsSpare, SpareAtZero
  <2>2. Top.base <= sp /\ Top.base \in Int BY <1>1, TopAnchored, AtFacts
  <2>3. h \in Int /\ h <= MaxSlots + 1 /\ Top.base < h /\ h - 1 = sp /\ sp \in Slot
    BY <1>1, <1>3, <2>2, SlotFacts
  <2>4. Return(s0, h, m1, res) BY <1>3
  <2> HIDE DEF h
  <2>5. ASSUME NEW x \in Obj
        PROVE  m1.rc[x] = Occ(s0, 0..(h - 1), x) + Count(res, x) + Occ(cell', Cell, x)
    <3>1. Occ(s0, Slot, x) = Occ(s0, 0..sp, x)
      BY <1>1, <2>3, SlotFacts, NilFacts, OccUpTo
    <3>2. m1.rc[x] = m.rc[x] + Count(res, x) BY RetainCount
    <3>3. m.rc[x] = Occ(s0, Slot, x) + Occ(cell', Cell, x) BY DEF Held
    <3>4. Occ(s0, Slot, x) \in Nat /\ Occ(cell', Cell, x) \in Nat /\ Count(res, x) \in Int
      BY SlotFinite, CellFinite, OccType, CountType
    <3> HIDE DEF m1
    <3> QED BY <2>3, <3>1, <3>2, <3>3, <3>4
  <2>6. Counted(s0, h, m1, res) BY <2>5 DEF Counted
  <2> HIDE DEF m1
  <2> QED BY <2>1, <2>3, <2>4, <2>6, ReturnCounts
<1> QED BY <1>2, <1>3 DEF ReturnValue

\* An instruction starts with the counts of the stack it finds.
LEMMA StartHeld ==
  ASSUME CountsInv, cell' = cell
  PROVE  Held(stk, Mem)
  BY Exact DEF Held

LEMMA LenNativeCounts == CountsInv /\ FramesAnchored /\ LenNative => CountsInv'
<1> SUFFICES ASSUME CountsInv, FramesAnchored, LenNative PROVE CountsInv'
  OBVIOUS
<1> DEFINE res == Number(len[Local(1).data])
<1>1. TypeOK' /\ TypeOK BY LenNativeType DEF CountsInv
<1>2. At("LEN") BY DEF LenNative
<1>3. CASE Fail BY <1>1, <1>3, FailCounts
<1>4. CASE ReturnValue(stk, Mem, res) /\ UNCHANGED heapVars
  <2>1. class' = class /\ cell' = cell /\ len' = len BY <1>4 DEF heapVars
  <2>2. FreeEmpty' BY <2>1 DEF FreeEmpty, CountsInv
  <2>3. Agrees(class', res) BY ScalarFacts, AgreesScalar
  <2>4. Mem \in MemType /\ Mem.dying = {} /\ Held(stk, Mem)
    BY <1>2, <2>1, StartAtZero, StartHeld
  <2>5. /\ \A s \in Slot : Agrees(class', stk[s])
        /\ \A c \in Cell : Agrees(class', cell'[c])
    BY <2>1, SlotAgrees, CellAgrees
  <2>6. \A s \in Slot : s > sp => stk[s] = Nil BY <1>1, SlotFacts
  <2> HIDE DEF res
  <2> QED BY <1>1, <1>2, <1>4, <2>2, <2>3, <2>4, <2>5, <2>6, ReturnValueCounts
<1> QED BY <1>3, <1>4 DEF LenNative

\* array() does not retain what it fills the array with, so that must be a scalar.
LEMMA FillCounts ==
  ASSUME CountsInv, FramesAnchored, TypeOK', NEW op, At(op), Operands(3),
         NEW n \in Nat, n = 0 \/ ~IsObject(Local(1)), Fill(n)
  PROVE  CountsInv'
<1>1. TypeOK BY DEF CountsInv
<1>2. CASE Fail BY <1>2, FailCounts
<1>3. ASSUME n <= MaxLen,
             NEW o \in Free,
             Allocate(o, n, [i \in 1..n |-> Local(1)]),
             ReturnValue(stk, Mem, Array(o))
      PROVE  CountsInv'
  <2> DEFINE elem == [i \in 1..n |-> Local(1)]
             res == Array(o)
  <2>1. n \in 0..MaxLen BY <1>1, <1>3, CellFacts
  <2>2. \A i \in 1..n : elem[i] = Local(1) /\ ~IsObject(Local(1)) OBVIOUS
  <2>3. IsLocal(1)
    BY <1>1, AtFacts, SlotFacts DEF Operands, IsLocal
  <2>4. Local(1) \in Value /\ Agrees(class, Local(1)) BY <2>3, LocalAgrees
  <2>5. Allocate(o, n, elem) /\ ReturnValue(stk, Mem, res) BY <1>3
  <2> HIDE DEF elem
  <2>6. \A i \in 1..n : elem[i] \in Value /\ Agrees(class, elem[i]) BY <2>2, <2>4
  <2>7. FreeEmpty' /\ \A c \in Cell : Agrees(class', cell'[c])
    BY <2>1, <2>5, <2>6, AllocateHeap
  <2>8. Agrees(class', res) /\ \A s \in Slot : Agrees(class', stk[s])
    BY <2>5, AllocateAgrees
  <2>9. ASSUME NEW x \in Obj
        PROVE  Mem.rc[x] = Occ(stk, Slot, x) + Occ(cell', Cell, x)
    <3>1. Occ(elem, 1..n, x) = 0
      <4>1. \A i \in 1..n : Count(elem[i], x) = 0 BY <2>2, CountScalar
      <4> QED BY <4>1, OccNone
    <3>2. Occ(cell', Cell, x) = Occ(cell, Cell, x) + Occ(elem, 1..n, x)
      BY <1>1, <2>1, <2>5, AllocateCount DEF CountsInv
    <3> QED BY <3>1, <3>2, Exact
  <2>10. Held(stk, Mem) BY <2>9 DEF Held
  <2>11. Mem \in MemType /\ Mem.dying = {} BY StartAtZero
  <2>12. \A s \in Slot : s > sp => stk[s] = Nil BY <1>1, SlotFacts
  <2> HIDE DEF res
  <2> QED BY <2>5, <2>7, <2>8, <2>10, <2>11, <2>12, ReturnValueCounts
<1> QED BY <1>2, <1>3 DEF Fill

LEMMA ArrayNativeCounts ==
  CountsInv /\ FramesAnchored /\ Disciplined /\ ArrayNative => CountsInv'
<1> SUFFICES ASSUME CountsInv, FramesAnchored, Disciplined, ArrayNative
             PROVE  CountsInv'
  OBVIOUS
<1>1. TypeOK' /\ TypeOK BY ArrayNativeType DEF CountsInv
<1>2. At("ARRAY") /\ Operands(3) BY DEF ArrayNative
<1>3. CASE Fail BY <1>1, <1>3, FailCounts
<1>4. CASE Fill(0) BY <1>1, <1>2, <1>4, FillCounts
<1>5. CASE Local(2).type = "number" /\ Fill(Local(2).data)
  <2>1. IsLocal(2) BY <1>1, <1>2, AtFacts, SlotFacts DEF Operands, IsLocal
  <2>2. Local(2) \in Value BY <1>1, <1>2, <2>1, LocalType
  <2>3. Local(2).data \in Nat BY <1>5, <2>2, NumberData
  <2>4. Local(2).data = 0 \/ ~IsObject(Local(1)) BY <1>2, <1>5 DEF Disciplined
  <2> QED BY <1>1, <1>2, <1>5, <2>3, <2>4, FillCounts
<1> QED BY <1>3, <1>4, <1>5 DEF ArrayNative

\* An array is not what a frame runs.
LEMMA NotABase ==
  ASSUME CountsInv, FramesAnchored, NEW i \in 1..Len(frames), NEW t \in Slot,
         stk[t].type = "array"
  PROVE  frames[i].base # t
<1>1. TypeOK BY DEF CountsInv
<1>2. frames[i] \in Frame BY <1>1 DEF TypeOK, ControlOK
<1>3. frames[i].fn \in Fun /\ "array" \notin Fun
  BY <1>2, ProgramAssumption DEF Frame, ProgramAssumption
<1>4. Holds(stk[frames[i].base], frames[i].cl) /\ class[frames[i].cl] = frames[i].fn
  BY DEF FramesAnchored
<1>5. Agrees(class, stk[t]) BY SlotAgrees
<1> QED BY <1>3, <1>4, <1>5 DEF Holds, Agrees

LEMMA AppendToCounts ==
  ASSUME CountsInv, FramesAnchored, TypeOK', NEW op, At(op),
         NEW t \in 1..sp, stk[t].type = "array", NEW val2 \in Value, Agrees(class, val2),
         AppendTo(t, stk[t].data, val2)
  PROVE  CountsInv'
<1> DEFINE arr == stk[t].data
           n == len[arr]
           elem == [i \in 1..(n + 1) |-> IF i <= n THEN cell[<<arr, i>>] ELSE val2]
           m1 == RetainAll(Mem, cell, Cells(arr))
           m2 == Retain(m1, val2)
<1>1. TypeOK BY DEF CountsInv
<1>2. t \in Slot /\ stk \in [Slot -> Value] BY <1>1, SlotFacts
<1>3. stk[t] \in Value /\ Agrees(class, stk[t]) BY <1>2, SlotAgrees
<1>4. arr \in Obj /\ class[arr] = "array"
  BY <1>3, ArrayData DEF Agrees, IsObject, ObjectType
<1>5. n \in Nat BY <1>1, <1>4, CellFacts
<1>6. Top.base # t
  <2>1. Len(frames) \in 1..Len(frames) BY <1>1, AtFacts
  <2> QED BY <1>2, <2>1, NotABase DEF Top
<1>7. Mem \in MemType /\ Mem.dying = {} BY StartAtZero
<1>8. CASE Fail BY <1>8, FailCounts
<1>9. ASSUME n < MaxLen,
             NEW o \in Free,
             Allocate(o, n + 1, elem),
             ReturnValue([stk EXCEPT ![t] = Array(o)],
                         Drop(Retain(m2, Array(o)), stk[t]), Array(o))
      PROVE  CountsInv'
  <2> DEFINE s0 == [stk EXCEPT ![t] = Array(o)]
             k == n + 1
             res == Array(o)
             m3 == Retain(m2, res)
             m == Drop(m3, stk[t])
  <2>1. ReturnValue(s0, m, res) /\ Allocate(o, k, elem) BY <1>9
  <2>2. k \in 0..MaxLen BY <1>1, <1>5, <1>9, CellFacts
  <2>3. \A i \in 1..k : elem[i] \in Value /\ Agrees(class, elem[i])
    <3> SUFFICES ASSUME NEW i \in 1..k PROVE elem[i] \in Value /\ Agrees(class, elem[i])
      OBVIOUS
    <3>1. CASE i <= n
      <4>1. i \in 1..len[arr] /\ elem[i] = cell[<<arr, i>>] BY <1>5, <3>1
      <4> HIDE DEF arr
      <4> QED BY <1>1, <1>4, <4>1, CellsAre, CellAgrees
    <3>2. CASE ~(i <= n) BY <3>2
    <3> QED BY <3>1, <3>2
  <2>4. \A s \in Slot : s0[s] = IF s = t THEN res ELSE stk[s] BY <1>2
  <2>5. \A x \in Obj : Occ(elem, 1..k, x) = Occ(cell, Cells(arr), x) + Count(val2, x)
    <3> SUFFICES ASSUME NEW x \in Obj
                 PROVE  Occ(elem, 1..k, x) = Occ(cell, Cells(arr), x) + Count(val2, x)
      OBVIOUS
    <3>1. \A i \in 1..n : elem[i] = cell[<<arr, i>>] BY <1>5
    <3>2. elem[n + 1] = val2 BY <1>5
    <3> HIDE DEF elem
    <3>3. Occ(cell, Cells(arr), x) = Occ(elem, 1..n, x)
      <4>1. \A i \in 1..len[arr] : Count(cell[<<arr, i>>], x) = Count(elem[i], x)
        BY <3>1
      <4> HIDE DEF arr
      <4> QED BY <1>1, <1>4, <4>1, CellsCount
    <3>4. Occ(elem, 1..(n + 1), x) = Occ(elem, 1..n, x) + Count(elem[n + 1], x)
      BY <1>5, OccOneMore
    <3> QED BY <3>2, <3>3, <3>4
  <2> HIDE DEF elem, s0, k, arr, n
  <2>6. FreeEmpty' /\ \A c \in Cell : Agrees(class', cell'[c])
    BY <2>1, <2>2, <2>3, AllocateHeap
  <2>7. Agrees(class', res) /\ \A s \in Slot : Agrees(class', stk[s])
    BY <2>1, AllocateAgrees
  <2> HIDE DEF res
  <2>8. \A s \in Slot : Agrees(class', s0[s]) BY <2>4, <2>7
  <2>9. s0[Top.base] = stk[Top.base]
    BY <1>1, <1>6, <2>4, AtFacts, SlotFacts
  <2>10. \A s \in Slot : s > sp => s0[s] = Nil BY <1>1, <2>4, SlotFacts
  <2>11. IsFiniteSet(Cells(arr)) BY <1>1, <1>4, CellsFinite
  <2>12. m1 \in MemType /\ m1.dying = {} BY <1>7, <2>11, RetainAllType, RetainsSpare
  <2>13. m2 \in MemType /\ m2.dying = {} BY <2>12, RetainType, RetainsSpare
  <2>14. m3 \in MemType /\ m3.dying = {} BY <2>13, RetainType, RetainsSpare
  <2>15. m \in MemType /\ m.dying = {} BY <2>14, DropType DEF Drop
  <2>16. ASSUME NEW x \in Obj
         PROVE  m.rc[x] = Occ(s0, Slot, x) + Occ(cell', Cell, x)
    <3>1. m1.rc[x] = rc[x] + Occ(cell, Cells(arr), x) BY RetainAllCount, Exact
    <3>2. m2.rc[x] = m1.rc[x] + Count(val2, x) BY <2>12, RetainCount
    <3>3. m3.rc[x] = m2.rc[x] + Count(res, x) BY <2>13, RetainCount
    <3>4. m.rc[x] = m3.rc[x] - Count(stk[t], x) BY <2>14, DropCount
    <3>5. Occ(s0, Slot, x) = Occ(stk, Slot, x) - Count(stk[t], x) + Count(s0[t], x)
      <4>1. \A s \in Slot \ {t} : Count(s0[s], x) = Count(stk[s], x) BY <2>4
      <4> QED BY <1>2, <4>1, SlotWrite
    <3>6. s0[t] = res BY <1>2, <2>4
    <3>7. Occ(cell', Cell, x) = Occ(cell, Cell, x) + Occ(elem, 1..k, x)
      BY <1>1, <2>1, <2>2, AllocateCount DEF CountsInv
    <3>8. Occ(elem, 1..k, x) = Occ(cell, Cells(arr), x) + Count(val2, x) BY <2>5
    <3>9. /\ Count(val2, x) \in Int /\ Count(stk[t], x) \in Int /\ Count(res, x) \in Int
          /\ Occ(cell, Cells(arr), x) \in Nat
      BY <2>11, CountType, OccType
    <3> HIDE DEF m, m1, m2, m3
    <3> QED BY <3>1, <3>2, <3>3, <3>4, <3>5, <3>6, <3>7, <3>8, <3>9, Exact, SMTT(60)
  <2>17. Held(s0, m) BY <2>16 DEF Held
  <2> HIDE DEF m
  <2> QED BY <2>1, <2>6, <2>7, <2>8, <2>9, <2>10, <2>15, <2>17, ReturnValueCounts
<1>10. CASE /\ n < MaxLen
            /\ cell' = [cell EXCEPT ![<<arr, n + 1>>] = val2]
            /\ len' = [len EXCEPT ![arr] = n + 1]
            /\ UNCHANGED class
            /\ ReturnValue(stk, Retain(Mem, val2), stk[t])
  <2> DEFINE c0 == <<arr, n + 1>>
             m == Retain(Mem, val2)
             v == stk[t]
  <2>1. c0 \in Cell /\ cell[c0] = Nil
    <3>1. n + 1 \in Idx BY <1>1, <1>5, <1>10, CellFacts DEF Idx
    <3>2. c0 \in Cell BY <1>4, <3>1 DEF Cell
    <3>3. \A c \in Cell : c[2] > len[c[1]] => cell[c] = Nil BY <1>1 DEF TypeOK, HeapOK
    <3>4. c0[2] > len[c0[1]] BY <1>5
    <3> QED BY <3>2, <3>3, <3>4
  <2>2. \A c \in Cell : cell'[c] = IF c = c0 THEN val2 ELSE cell[c]
    BY <1>1, <1>10, <2>1, CellFacts
  <2>3. FreeEmpty'
    <3>1. \A x \in Obj : class[x] = "free" => len'[x] = len[x]
      BY <1>1, <1>4, <1>10, CellFacts
    <3> QED BY <1>10, <3>1 DEF FreeEmpty, CountsInv
  <2> HIDE DEF c0, arr, n
  <2>4. /\ \A s \in Slot : Agrees(class', stk[s])
        /\ \A c \in Cell : Agrees(class', cell'[c])
        /\ Agrees(class', v)
    BY <1>3, <1>10, <2>2, SlotAgrees, CellAgrees
  <2>5. m \in MemType /\ m.dying = {} BY <1>7, RetainType, RetainsSpare
  <2>6. ASSUME NEW x \in Obj
        PROVE  m.rc[x] = Occ(stk, Slot, x) + Occ(cell', Cell, x)
    <3>1. m.rc[x] = rc[x] + Count(val2, x) BY RetainCount, Exact
    <3>2. Occ(cell', Cell, x) = Occ(cell, Cell, x) - Count(cell[c0], x) + Count(cell'[c0], x)
      <4>1. \A c \in Cell \ {c0} : Count(cell'[c], x) = Count(cell[c], x) BY <2>2
      <4> QED BY <2>1, <4>1, CellFinite, OccWrite
    <3>3. Count(cell[c0], x) = 0 /\ cell'[c0] = val2 BY <2>1, <2>2, NilFacts
    <3>4. Count(val2, x) \in Int BY CountType
    <3> HIDE DEF m
    <3> QED BY <3>1, <3>2, <3>3, <3>4, Exact
  <2>7. Held(stk, m) BY <2>6 DEF Held
  <2>8. \A s \in Slot : s > sp => stk[s] = Nil BY <1>1, SlotFacts
  <2>9. ReturnValue(stk, m, v) BY <1>10
  <2> HIDE DEF m, v
  <2> QED BY <2>3, <2>4, <2>5, <2>7, <2>8, <2>9, ReturnValueCounts
<1> QED BY <1>8, <1>9, <1>10 DEF AppendTo

LEMMA AppendNativeCounts == CountsInv /\ FramesAnchored /\ AppendNative => CountsInv'
<1> SUFFICES ASSUME CountsInv, FramesAnchored, AppendNative PROVE CountsInv'
  OBVIOUS
<1> DEFINE t == Local(1).data
<1>1. TypeOK' /\ TypeOK BY AppendNativeType DEF CountsInv
<1>2. At("APPEND") /\ Operands(2) BY DEF AppendNative
<1>3. CASE Fail BY <1>1, <1>3, FailCounts
<1>4. CASE IsLocalRef(1) /\ stk[t].type = "array" /\ AppendTo(t, stk[t].data, Local(2))
  <2>1. t \in 1..sp BY <1>4 DEF IsLocalRef
  <2>2. IsLocal(2) BY <1>1, <1>2, AtFacts, SlotFacts DEF Operands, IsLocal
  <2>3. Local(2) \in Value /\ Agrees(class, Local(2)) BY <1>2, <2>2, LocalAgrees
  <2> HIDE DEF t
  <2> QED BY <1>1, <1>2, <1>4, <2>1, <2>3, AppendToCounts
<1> QED BY <1>3, <1>4 DEF AppendNative

-----------------------------------------------------------------------------
(***************************************************************************)
(* The life of a script.                                                   *)
(***************************************************************************)
LEMMA CountsKept ==
  ASSUME CountsInv, TypeOK', UNCHANGED <<stk, heapVars, rc, dying>>
  PROVE  CountsInv'
<1>1. \A s \in Slot : Agrees(class, stk'[s]) BY SlotAgrees
<1> QED BY <1>1, CountsUnmoved

\* What is condemned is counted by nobody, so its memory can be given back.
LEMMA Condemned ==
  ASSUME CountsInv, NEW o \in dying
  PROVE  /\ o \in Obj /\ rc[o] <= 0
         /\ \A s \in Slot : ~Holds(stk[s], o)
         /\ \A c \in Cell : ~Holds(cell[c], o)
<1>1. o \in Obj BY DEF CountsInv, TypeOK, CountsOK
<1>2. rc[o] <= 0 BY <1>1 DEF CountsInv, AtZero, Mem
<1>3. Occ(stk, Slot, o) = 0 /\ Occ(cell, Cell, o) = 0 BY <1>1, <1>2, Exact
<1> QED BY <1>1, <1>2, <1>3, SlotFinite, CellFinite, OccZero

LEMMA FreeObjectCounts == CountsInv /\ FreeObject => CountsInv'
<1> SUFFICES ASSUME CountsInv, FreeObject PROVE CountsInv'
  OBVIOUS
<1>1. TypeOK' /\ TypeOK BY FreeObjectType DEF CountsInv
<1>2. PICK o \in dying :
        /\ Becomes(ReleaseAll([rc |-> rc, dying |-> dying \ {o}], cell, Cells(o)))
        /\ cell' = [c \in Cell |-> IF c[1] = o THEN Nil ELSE cell[c]]
        /\ len' = [len EXCEPT ![o] = 0]
        /\ class' = [class EXCEPT ![o] = "free"]
        /\ stk' = stk
  BY DEF FreeObject
<1> DEFINE m0 == [rc |-> rc, dying |-> dying \ {o}]
           S == Cells(o)
           m == ReleaseAll(m0, cell, S)
<1>3. /\ o \in Obj
      /\ \A s \in Slot : ~Holds(stk[s], o)
      /\ \A c \in Cell : ~Holds(cell[c], o)
  BY Condemned
<1>4. class \in [Obj -> {"free", "array"} \cup Fun] /\ len \in [Obj -> 0..MaxLen]
  BY <1>1 DEF TypeOK, HeapOK
<1>5. FreeEmpty'
  <2>1. \A x \in Obj : x # o => class'[x] = class[x] /\ len'[x] = len[x]
    BY <1>2, <1>4
  <2>2. len'[o] = 0 BY <1>2, <1>3, <1>4
  <2> QED BY <2>1, <2>2 DEF FreeEmpty, CountsInv
<1>6. ASSUME NEW v \in Value, Agrees(class, v), ~Holds(v, o)
      PROVE  Agrees(class', v)
  <2>1. IsObject(v) => v.data \in Obj /\ v.data # o BY <1>1, <1>6, AgreesData DEF Holds
  <2>2. IsObject(v) => class'[v.data] = class[v.data] BY <1>2, <1>4, <2>1
  <2> QED BY <1>6, <2>2 DEF Agrees
<1>7. \A s \in Slot : Agrees(class', stk'[s]) BY <1>2, <1>3, <1>6, SlotAgrees
<1>8. \A c \in Cell : Agrees(class', cell'[c])
  <2>1. \A c \in Cell : cell'[c] = cell[c] \/ cell'[c] = Nil BY <1>2
  <2> QED BY <1>3, <1>6, <2>1, CellAgrees, NilFacts
<1>9. WellTyped' BY <1>7, <1>8, WellTypedNext
<1>10. S \subseteq Cell /\ IsFiniteSet(S) BY <1>1, <1>3, CellsFinite
<1>11. Becomes(m) BY <1>2
<1>12. m0 \in MemType /\ AtZero(m0)
  <2>1. Mem \in MemType /\ AtZero(Mem) BY <1>1, MemIsType DEF CountsInv
  <2> QED BY <2>1 DEF MemType, AtZero, Mem
<1>13. \A c \in S : cell'[c] = Nil
  <2>1. \A c \in S : c[1] = o BY DEF Cells
  <2> HIDE DEF S
  <2> QED BY <1>2, <1>10, <2>1
<1>14. \A c \in Cell \ S : cell'[c] = cell[c]
  <2> SUFFICES ASSUME NEW c \in Cell \ S PROVE cell'[c] = cell[c]
    OBVIOUS
  <2>1. CASE c[1] # o BY <1>2, <2>1
  <2>2. CASE c[1] = o
    <3>1. c = <<c[1], c[2]>> /\ c[2] \in Nat /\ c[2] >= 1
      BY <1>1, CellFacts DEF Cell, Idx
    <3>2. c[2] \notin 1..len[o] BY <2>2, <3>1 DEF Cells
    <3>3. c[2] > len[c[1]] BY <1>1, <1>3, <2>2, <3>1, <3>2, CellFacts
    <3>4. cell[c] = Nil BY <1>1, <3>3 DEF TypeOK, HeapOK
    <3>5. cell'[c] = Nil BY <1>2, <2>2
    <3> QED BY <3>4, <3>5
  <2> QED BY <2>1, <2>2
<1> HIDE DEF S
<1>15. AtZero(m) BY <1>10, <1>12, ReleaseAllAtZero
<1>16. ASSUME NEW x \in Obj
       PROVE  m.rc[x] = Occ(stk', Slot, x) + Occ(cell', Cell, x)
  <2>1. m.rc[x] = rc[x] - Occ(cell, S, x) BY ReleaseAllCount
  <2>2. /\ Occ(cell, Cell, x) = Occ(cell, Cell \ S, x) + Occ(cell, S, x)
        /\ Occ(cell', Cell, x) = Occ(cell', Cell \ S, x) + Occ(cell', S, x)
    BY <1>10, CellFinite, OccWithout
  <2>3. Occ(cell', S, x) = 0
    <3>1. \A c \in S : Count(cell'[c], x) = 0 BY <1>13, NilFacts
    <3> QED BY <3>1, OccNone
  <2>4. Occ(cell', Cell \ S, x) = Occ(cell, Cell \ S, x)
    <3> DEFINE R == Cell \ S
    <3>1. \A c \in R : Count(cell'[c], x) = Count(cell[c], x) BY <1>14
    <3> HIDE DEF R
    <3>2. Occ(cell', R, x) = Occ(cell, R, x) BY <3>1, OccSame
    <3> QED BY <3>2 DEF R
  <2>5. IsFiniteSet(Cell \ S) BY CellFinite, FS_Difference
  <2>6. Occ(cell, S, x) \in Nat /\ Occ(cell, Cell \ S, x) \in Nat BY <1>10, <2>5, OccType
  <2>7. stk' = stk BY <1>2
  <2> HIDE DEF m
  <2> QED BY <2>1, <2>2, <2>3, <2>4, <2>6, <2>7, Exact
<1> HIDE DEF m
<1> QED BY <1>1, <1>5, <1>9, <1>11, <1>15, <1>16, CountsReached

LEMMA DeinitCounts == CountsInv /\ Deinit => CountsInv'
<1> SUFFICES ASSUME CountsInv, Deinit PROVE CountsInv'
  OBVIOUS
<1> DEFINE S == 0..sp
           m == ReleaseAll(Mem, stk, S)
<1>1. TypeOK' /\ TypeOK BY DeinitType DEF CountsInv
<1>2. Becomes(m) /\ UNCHANGED heapVars /\ \A s \in Slot : stk'[s] = Nil BY DEF Deinit
<1>3. IsFiniteSet(S)
  <2>1. sp \in Int /\ 0 \in Int BY <1>1, SlotFacts
  <2> QED BY <2>1, FS_Interval
<1> HIDE DEF S
<1>4. Mem \in MemType /\ AtZero(Mem) BY <1>1, MemIsType DEF CountsInv
<1>5. m \in MemType /\ AtZero(m) BY <1>3, <1>4, ReleaseAllType, ReleaseAllAtZero
<1>6. ASSUME NEW x \in Obj
      PROVE  m.rc[x] = rc[x] + Occ(stk', Slot, x) - Occ(stk, Slot, x)
  <2>1. m.rc[x] = rc[x] - Occ(stk, S, x) BY ReleaseAllCount, Exact
  <2>2. Occ(stk, Slot, x) = Occ(stk, S, x) BY <1>1, StackHeight DEF S
  <2>3. Occ(stk', Slot, x) = 0
    <3>1. \A s \in Slot : Count(stk'[s], x) = 0 BY <1>2, NilFacts
    <3> QED BY <3>1, OccNone
  <2> HIDE DEF m
  <2> QED BY <2>1, <2>2, <2>3, Exact
<1>7. \A s \in Slot : Agrees(class, stk'[s]) BY <1>2, NilFacts
<1> HIDE DEF m
<1> QED BY <1>1, <1>2, <1>5, <1>6, <1>7, StackCounts

\* main() holds the globals and the script once, and the globals each native once.
LEMMA InitCounts == Init => CountsInv
<1> SUFFICES ASSUME Init PROVE CountsInv
  OBVIOUS
<1> DEFINE N == Len(NativeObjs)
           c0(i) == <<GlobalsObj, i>>
<1>1. TypeOK BY InitType
<1>2. /\ NativeObjs \in Seq(Obj \ {GlobalsObj, MainObj}) /\ Natives \in Seq(Fun)
      /\ N = Len(Natives) /\ N \in Nat /\ N <= MaxLen /\ MaxLen \in Nat
      /\ GlobalsObj \in Obj /\ MainObj \in Obj /\ GlobalsObj # MainObj
      /\ \A i, j \in 1..N : i # j => NativeObjs[i] # NativeObjs[j]
  BY MainAssumption, ProgramAssumption, BoundAssumption
     DEF MainAssumption, ProgramAssumption, BoundAssumption
<1>3. \A i \in 1..N : NativeObjs[i] \in Obj /\ NativeObjs[i] \notin {GlobalsObj, MainObj}
                      /\ NativesAt(NativeObjs[i]) # {}
  BY <1>2 DEF NativesAt
<1>4. \A o \in Obj : NativesAt(o) # {} =>
        Natives[CHOOSE i \in NativesAt(o) : TRUE] \in Fun
  <2>1. \A o \in Obj : NativesAt(o) \subseteq 1..N BY DEF NativesAt
  <2>2. \A o \in Obj : NativesAt(o) # {} => (CHOOSE i \in NativesAt(o) : TRUE) \in 1..N
    BY <2>1
  <2> QED BY <1>2, <2>2
<1>5. Main \in Fun /\ "free" \notin Fun /\ "array" \notin Fun
  BY ProgramAssumption DEF ProgramAssumption
<1>6. /\ \A s \in Slot : stk[s] = IF s = 0 THEN Array(GlobalsObj)
                                  ELSE IF s = 1 THEN Closure(MainObj) ELSE Nil
      /\ \A c \in Cell : cell[c] = IF c[1] = GlobalsObj /\ c[2] <= N
                                   THEN Closure(NativeObjs[c[2]]) ELSE Nil
      /\ class = [o \in Obj |-> IF o = GlobalsObj THEN "array"
                                ELSE IF o = MainObj THEN Main
                                ELSE IF NativesAt(o) = {} THEN "free"
                                ELSE Natives[CHOOSE i \in NativesAt(o) : TRUE]]
      /\ len = [o \in Obj |-> IF o = GlobalsObj THEN N ELSE 0]
      /\ rc = [o \in Obj |-> IF o \in {GlobalsObj, MainObj} \/ NativesAt(o) # {}
                             THEN 1 ELSE 0]
      /\ dying = {}
  BY DEF Init
<1>7. \A c \in Cell : c = c0(c[2]) \/ c[1] # GlobalsObj BY DEF Cell
<1>8. \A c \in Cell : c[2] \in Int /\ c[2] >= 1 BY <1>2 DEF Cell, Idx
<1>9. \A i \in 1..N : c0(i) \in Cell /\ cell[c0(i)] = Closure(NativeObjs[i])
  <2>1. \A i \in 1..N : c0(i) \in Cell BY <1>2 DEF Cell, Idx
  <2>2. \A i \in 1..N : c0(i)[1] = GlobalsObj /\ c0(i)[2] = i /\ i <= N BY <1>2
  <2> HIDE DEF c0
  <2> QED BY <1>6, <2>1, <2>2
<1>10. \A c \in Cell : cell[c] = Nil \/ (c[2] \in 1..N /\ c = c0(c[2]))
  BY <1>2, <1>6, <1>7, <1>8
<1> HIDE DEF N, c0
<1>11. \A o \in Obj : class[o] # "free" => o \in {GlobalsObj, MainObj} \/ NativesAt(o) # {}
  BY <1>6
<1>12. class[GlobalsObj] = "array" /\ class[MainObj] \in Fun BY <1>2, <1>5, <1>6
<1>13. \A i \in 1..N : class[NativeObjs[i]] \in Fun BY <1>3, <1>4, <1>6
<1>14. FreeEmpty BY <1>6, <1>12 DEF FreeEmpty
<1>15. AtZero(Mem) BY <1>6 DEF AtZero, Mem
<1>16. \A s \in Slot : Agrees(class, stk[s])
  <2>1. Agrees(class, Array(GlobalsObj)) /\ Agrees(class, Closure(MainObj))
    BY <1>12 DEF Agrees, Array, Closure
  <2> QED BY <1>6, <2>1, NilFacts
<1>17. \A c \in Cell : Agrees(class, cell[c])
  <2>1. \A i \in 1..N : Agrees(class, Closure(NativeObjs[i]))
    BY <1>13 DEF Agrees, Closure
  <2> QED BY <1>9, <1>10, <2>1, NilFacts
<1>18. WellTyped BY <1>16, <1>17, WellTypedNow
<1>19. ASSUME NEW x \in Obj
       PROVE  Occ(stk, Slot, x) = IF x \in {GlobalsObj, MainObj} THEN 1 ELSE 0
  <2> DEFINE z == 0
             a == 1
  <2>1. MaxSlots \in Nat /\ z \in Slot /\ a \in Slot /\ Slot = 0..MaxSlots
    BY <1>1, SlotFacts
  <2>2. \A s \in Slot : s > a => stk[s] = Nil BY <1>6, <2>1
  <2>3. z \in Int /\ z >= 0 /\ a \in Int /\ a >= 0 /\ a - 1 = z OBVIOUS
  <2>4. stk[a] = Closure(MainObj) /\ stk[z] = Array(GlobalsObj) BY <1>6, <2>1
  <2>5. \A s \in 0..(z - 1) : Count(stk[s], x) = 0 OBVIOUS
  <2> HIDE DEF z, a
  <2>6. Occ(stk, Slot, x) = Occ(stk, 0..a, x) BY <2>1, <2>2, NilFacts, OccUpTo
  <2>7. Occ(stk, 0..a, x) = Occ(stk, 0..z, x) + Count(stk[a], x)
    <3>1. Occ(stk, 0..a, x) = Occ(stk, 0..(a - 1), x) + Count(stk[a], x)
      BY <2>3, OccTop
    <3> QED BY <2>3, <3>1
  <2>8. Occ(stk, 0..z, x) = Occ(stk, 0..(z - 1), x) + Count(stk[z], x)
    BY <2>3, OccTop
  <2>9. Occ(stk, 0..(z - 1), x) = 0 BY <2>5, OccNone
  <2> QED BY <1>2, <2>4, <2>6, <2>7, <2>8, <2>9, ArrayCount, ClosureCount
<1>20. ASSUME NEW x \in Obj
       PROVE  Occ(cell, Cell, x) = IF NativesAt(x) # {} THEN 1 ELSE 0
  <2>1. \A i \in 1..N : Count(cell[c0(i)], x) = IF NativeObjs[i] = x THEN 1 ELSE 0
    BY <1>9, ClosureCount
  <2>2. CASE NativesAt(x) = {}
    <3>1. \A i \in 1..N : NativeObjs[i] # x BY <2>2 DEF NativesAt, N
    <3>2. \A c \in Cell : Count(cell[c], x) = 0 BY <1>10, <2>1, <3>1, NilFacts
    <3> QED BY <2>2, <3>2, OccNone
  <2>3. CASE NativesAt(x) # {}
    <3>1. PICK i \in 1..N : NativeObjs[i] = x BY <2>3 DEF NativesAt, N
    <3> DEFINE d0 == c0(i)
    <3>2. d0 \in Cell /\ Count(cell[d0], x) = 1 BY <1>9, <2>1, <3>1
    <3>3. \A c \in Cell \ {d0} : Count(cell[c], x) = 0
      <4> SUFFICES ASSUME NEW c \in Cell \ {d0}, cell[c] # Nil PROVE Count(cell[c], x) = 0
        BY NilFacts
      <4>1. c[2] \in 1..N /\ c = c0(c[2]) BY <1>10
      <4>2. c[2] # i BY <4>1
      <4>3. NativeObjs[c[2]] # x BY <1>2, <3>1, <4>1, <4>2
      <4> QED BY <2>1, <4>1, <4>3
    <3> HIDE DEF d0
    <3>4. Occ(cell, Cell, x) = Occ(cell, Cell \ {d0}, x) + Count(cell[d0], x)
      BY <3>2, CellFinite, OccRemove
    <3>5. Occ(cell, Cell \ {d0}, x) = 0 BY <3>3, OccNone
    <3> QED BY <2>3, <3>2, <3>4, <3>5
  <2> QED BY <2>2, <2>3
<1>21. NativesAt(GlobalsObj) = {} /\ NativesAt(MainObj) = {}
  BY <1>2, <1>3 DEF NativesAt, N
<1>22. RefCountExact
  <2> SUFFICES ASSUME NEW x \in Obj
               PROVE  rc[x] = Occ(stk, Slot, x) + Occ(cell, Cell, x)
    BY DEF RefCountExact
  <2>1. rc[x] = IF x \in {GlobalsObj, MainObj} \/ NativesAt(x) # {} THEN 1 ELSE 0
    BY <1>6
  <2>2. x \in {GlobalsObj, MainObj} => NativesAt(x) = {} BY <1>21
  <2> QED BY <1>19, <1>20, <2>1, <2>2
<1> QED BY <1>1, <1>14, <1>15, <1>18, <1>22 DEF CountsInv


-----------------------------------------------------------------------------
(***************************************************************************)
(* Frames.                                                                 *)
(***************************************************************************)
\* All of a frame but the instructions still to run.
SameFrame(fr1, fr2) == fr1.base = fr2.base /\ fr1.cl = fr2.cl /\ fr1.fn = fr2.fn

SameFrames ==
  /\ Len(frames') = Len(frames)
  /\ \A i \in 1..Len(frames) : SameFrame(frames'[i], frames[i])

\* A slot holds the same object before and after.
SameHold(v, w) == \A o : Holds(v, o) <=> Holds(w, o)

LEMMA FrameFacts ==
  ASSUME TypeOK, NEW i \in 1..Len(frames)
  PROVE  /\ frames[i] \in Frame /\ frames[i].base \in 1..MaxSlots /\ frames[i].base \in Slot
         /\ frames[i].cl \in Obj /\ frames[i].fn \in Fun
         /\ Len(frames) \in Nat
<1>1. frames \in Seq(Frame) /\ Len(frames) \in Nat BY DEF TypeOK, ControlOK
<1>2. frames[i] \in Frame BY <1>1
<1>3. \A b \in 1..MaxSlots : b \in Slot BY DEF Slot
<1> QED BY <1>1, <1>2, <1>3 DEF Frame

LEMMA BelowTop ==
  ASSUME TypeOK, FramesAnchored, NEW i \in 1..Len(frames)
  PROVE  /\ frames[i].base <= Top.base
         /\ i # Len(frames) => frames[i].base < Top.base
<1>1. Len(frames) \in 1..Len(frames) BY FrameFacts
<1>2. CASE i = Len(frames) BY <1>1, <1>2, FrameFacts DEF Top
<1>3. CASE i # Len(frames)
  <2>1. i < Len(frames) BY <1>1, <1>3
  <2>2. frames[i].base < Top.base BY <1>1, <2>1 DEF FramesAnchored, Top
  <2> QED BY <1>1, <1>3, <2>2, FrameFacts DEF Top
<1> QED BY <1>2, <1>3

\* The frames when the running one goes on with the instructions t.
Recoded(t) == [frames EXCEPT ![Len(frames)].code = t]

LEMMA RecodedSame ==
  ASSUME TypeOK, frames # <<>>, NEW t \in Seq(Instr)
  PROVE  /\ Recoded(t) \in Seq(Frame) /\ Len(Recoded(t)) = Len(frames)
         /\ \A i \in 1..Len(frames) : SameFrame(Recoded(t)[i], frames[i])
<1> DEFINE n == Len(frames)
           fr == [frames[n] EXCEPT !.code = t]
           g == Recoded(t)
<1>1. frames \in Seq(Frame) /\ n \in 1..n BY DEF TypeOK, ControlOK
<1>2. g = [frames EXCEPT ![n] = fr] BY DEF Recoded
<1>3. frames[n] \in Frame BY <1>1
<1>4. SameFrame(fr, frames[n]) BY <1>3 DEF Frame, SameFrame
<1>5. fr \in Frame BY <1>3, FrameCodeType
<1> HIDE DEF fr, g
<1>6. g \in Seq(Frame) BY <1>1, <1>2, <1>5
<1>7. DOMAIN g = 1..n BY <1>1, <1>2
<1>8. Len(g) = n BY <1>6, <1>7
<1>9. \A i \in 1..n : g[i] = IF i = n THEN fr ELSE frames[i] BY <1>1, <1>2
<1> QED BY <1>4, <1>6, <1>8, <1>9 DEF SameFrame, g

LEMMA AdvanceSame ==
  ASSUME TypeOK, NEW op, At(op), Continue
  PROVE  SameFrames
<1>1. Tail(Top.code) \in Seq(Instr) /\ frames # <<>> BY AtFacts DEF At
<1>2. frames' = Recoded(Tail(Top.code)) BY DEF Continue, Advance, Recoded, Top
<1> QED BY <1>1, <1>2, RecodedSame DEF SameFrames

LEMMA UnchangedSame == UNCHANGED frames => SameFrames
  BY DEF SameFrames, SameFrame

\* A handler that leaves the frames as they are, and what anchors them.
LEMMA FramesStep ==
  ASSUME CountsInv, FramesAnchored, SameFrames,
         \A i \in 1..Len(frames) : frames[i].base <= sp',
         \A i \in 1..Len(frames) : SameHold(stk'[frames[i].base], stk[frames[i].base]),
         \A o \in Obj : class[o] \in Fun => class'[o] = class[o]
  PROVE  FramesAnchored'
<1>1. TypeOK BY DEF CountsInv
<1>2. Len(frames') = Len(frames) BY DEF SameFrames
<1>3. ASSUME NEW i \in 1..Len(frames)
      PROVE  /\ frames'[i].base = frames[i].base /\ frames'[i].base <= sp'
             /\ Holds(stk'[frames'[i].base], frames'[i].cl)
             /\ class'[frames'[i].cl] = frames'[i].fn
  <2>1. SameFrame(frames'[i], frames[i]) BY DEF SameFrames
  <2>2. Holds(stk[frames[i].base], frames[i].cl) /\ class[frames[i].cl] = frames[i].fn
    BY DEF FramesAnchored
  <2>3. frames[i].cl \in Obj /\ frames[i].fn \in Fun BY <1>1, FrameFacts
  <2>4. class'[frames[i].cl] = frames[i].fn BY <2>2, <2>3
  <2>5. Holds(stk'[frames[i].base], frames[i].cl) BY <2>2 DEF SameHold
  <2> QED BY <2>1, <2>4, <2>5 DEF SameFrame
<1>4. \A i, j \in 1..Len(frames) : i < j => frames'[i].base < frames'[j].base
  BY <1>3 DEF FramesAnchored
<1> QED BY <1>2, <1>3, <1>4 DEF FramesAnchored

\* A handler that leaves the stack alone up to the base of the running frame.
LEMMA FramesAbove ==
  ASSUME CountsInv, FramesAnchored, NEW op, At(op), SameFrames, sp' \in Int,
         Top.base <= sp',
         \A s \in Slot : s <= Top.base => SameHold(stk'[s], stk[s]),
         \A o \in Obj : class[o] \in Fun => class'[o] = class[o]
  PROVE  FramesAnchored'
<1>1. TypeOK /\ Top.base \in Int BY AtFacts DEF CountsInv
<1>2. ASSUME NEW i \in 1..Len(frames)
      PROVE  frames[i].base <= sp' /\ SameHold(stk'[frames[i].base], stk[frames[i].base])
  <2>1. frames[i].base <= Top.base BY <1>1, BelowTop
  <2>2. frames[i].base \in Slot /\ frames[i].base \in Int BY <1>1, FrameFacts
  <2> QED BY <1>1, <2>1, <2>2
<1> QED BY <1>2, FramesStep

LEMMA FailFrames == ASSUME CountsInv, FramesAnchored, Fail PROVE FramesAnchored'
  BY DEF Fail, Raise, heapVars, FramesAnchored

LEMMA PushValueFrames ==
  ASSUME CountsInv, FramesAnchored, NEW op, At(op), NEW v,
         NEW s0 \in [Slot -> Value],
         \A s \in Slot : SameHold(s0[s], stk[s]),
         PushValue(s0, v)
  PROVE  FramesAnchored'
<1>1. TypeOK BY DEF CountsInv
<1>2. Top.base <= sp /\ Top.base \in Int /\ sp \in Int /\ MaxSlots \in Nat
      /\ Slot = 0..MaxSlots
  BY <1>1, TopAnchored, AtFacts, SlotFacts
<1>3. SameFrames BY <1>1, AdvanceSame, UnchangedSame DEF PushValue, Raise
<1>4. class' = class BY DEF PushValue, heapVars
<1>5. sp' \in Int /\ Top.base <= sp' BY <1>2 DEF PushValue
<1>6. \A s \in Slot : s <= Top.base => stk'[s] = s0[s]
  <2>1. CASE stk' = s0 BY <2>1
  <2>2. CASE stk' = [s0 EXCEPT ![sp + 1] = v]
    <3>1. \A s \in Slot : s <= Top.base => s # sp + 1 BY <1>2
    <3> QED BY <2>2, <3>1
  <2> QED BY <2>1, <2>2 DEF PushValue
<1> QED BY <1>3, <1>4, <1>5, <1>6, FramesAbove

LEMMA PushStkFrames ==
  ASSUME CountsInv, FramesAnchored, NEW op, At(op), NEW v, PushValue(stk, v)
  PROVE  FramesAnchored'
<1>1. stk \in [Slot -> Value] BY SlotFacts DEF CountsInv
<1> QED BY <1>1, PushValueFrames DEF SameHold

\* Only what is above the running frame's base is dropped.
LEMMA CollapseFrames ==
  ASSUME CountsInv, FramesAnchored, NEW op, At(op), Continue,
         NEW n \in Nat, NEW v, Collapse(n, v), Operands(n + 1),
         \A o \in Obj : class[o] \in Fun => class'[o] = class[o]
  PROVE  FramesAnchored'
<1>1. TypeOK BY DEF CountsInv
<1>2. Top.base < sp - n /\ Top.base \in Int /\ sp \in Int /\ Slot = 0..MaxSlots
      /\ MaxSlots \in Nat
  BY <1>1, AtFacts, SlotFacts DEF Operands
<1>3. SameFrames BY <1>1, AdvanceSame
<1>4. sp' \in Int /\ Top.base <= sp' BY <1>2 DEF Collapse
<1>5. \A s \in Slot : s <= Top.base => s < sp - n BY <1>2
<1>6. \A s \in Slot : s <= Top.base => stk'[s] = stk[s] BY <1>5 DEF Collapse
<1> QED BY <1>3, <1>4, <1>6, FramesAbove DEF SameHold

-----------------------------------------------------------------------------
(***************************************************************************)
(* Frames: pushing and popping.                                            *)
(***************************************************************************)
LEMMA StackFrames ==
  ASSUME CountsInv, FramesAnchored,
         PushNil \/ PushInt \/ LoadGlobal \/ LoadLocal \/ FetchLocal \/ LoadLocalRef
  PROVE  FramesAnchored'
  BY PushStkFrames DEF PushNil, PushInt, LoadGlobal, LoadLocal, FetchLocal, LoadLocalRef

LEMMA RefLocalFrames == ASSUME CountsInv, FramesAnchored, RefLocal PROVE FramesAnchored'
<1> DEFINE t == Top.base + A
           s0 == [stk EXCEPT ![t] = Flagged(Local(A))]
<1>1. TypeOK BY DEF CountsInv
<1>2. At("REF_LOCAL") /\ IsLocal(A) /\ PushValue(s0, RefTo(t)) BY DEF RefLocal, RefWith
<1>3. t \in Slot /\ Local(A) \in Value /\ Local(A) = stk[t]
  BY <1>1, <1>2, AtFacts, LocalAgrees DEF Local
<1>4. s0 \in [Slot -> Value] BY <1>1, <1>3, SlotFacts, FlaggedType
<1>5. \A s \in Slot : s0[s] = IF s = t THEN Flagged(stk[t]) ELSE stk[s]
  BY <1>1, <1>3, SlotFacts
<1>6. SameHold(Flagged(stk[t]), stk[t])
  <2>1. Flagged(stk[t]).type = stk[t].type /\ Flagged(stk[t]).data = stk[t].data
    BY <1>3 DEF Flagged, AsShared, Value
  <2> QED BY <2>1 DEF SameHold, Holds, IsObject
<1> HIDE DEF s0, t
<1>7. \A s \in Slot : SameHold(s0[s], stk[s]) BY <1>5, <1>6 DEF SameHold
<1> QED BY <1>2, <1>4, <1>7, PushValueFrames

LEMMA PopFrames == ASSUME CountsInv, FramesAnchored, Pop PROVE FramesAnchored'
<1>1. TypeOK BY DEF CountsInv
<1>2. At("POP") /\ Operands(1) /\ Continue /\ class' = class BY DEF Pop, heapVars
<1>3. Top.base < sp /\ Top.base \in Int /\ sp \in Int BY <1>1, <1>2, AtFacts, SlotFacts DEF Operands
<1>4. SameFrames BY <1>1, <1>2, AdvanceSame
<1>5. sp' \in Int /\ Top.base <= sp' BY <1>3 DEF Pop
<1>6. \A s \in Slot : s <= Top.base => stk'[s] = stk[s]
  <2>1. \A s \in Slot : s <= Top.base => s # sp BY <1>3
  <2> QED BY <2>1, SlotFacts, <1>1 DEF Pop
<1> QED BY <1>2, <1>4, <1>5, <1>6, FramesAbove DEF SameHold

\* A store is harmless to the frames unless it is to the bottom slot of one.
LEMMA StoreIntoFrames ==
  ASSUME CountsInv, FramesAnchored, NEW op, At(op), NEW t \in Nat, StoreInto(t),
         Top.base < sp,
         \A i \in 1..Len(frames) : frames[i].base # t
  PROVE  FramesAnchored'
<1>1. TypeOK BY DEF CountsInv
<1>2. Top.base \in Int /\ sp \in Int /\ Continue /\ class' = class
  BY <1>1, AtFacts, SlotFacts DEF StoreInto, heapVars
<1>3. SameFrames BY <1>1, <1>2, AdvanceSame
<1>4. ASSUME NEW i \in 1..Len(frames)
      PROVE  frames[i].base <= sp' /\ SameHold(stk'[frames[i].base], stk[frames[i].base])
  <2>1. frames[i].base <= Top.base BY <1>1, BelowTop
  <2>2. frames[i].base \in Slot /\ frames[i].base \in Int /\ frames[i].base # t
    BY <1>1, FrameFacts
  <2>3. frames[i].base < sp BY <1>2, <2>1, <2>2
  <2>4. stk'[frames[i].base] = stk[frames[i].base]
    BY <1>1, <2>2, <2>3, SlotFacts DEF StoreInto
  <2> QED BY <1>2, <2>2, <2>3, <2>4 DEF StoreInto, SameHold
<1> QED BY <1>2, <1>3, <1>4, FramesStep

LEMMA StoreLocalFrames ==
  ASSUME CountsInv, FramesAnchored, Disciplined, StoreLocal
  PROVE  FramesAnchored'
<1> DEFINE t == Top.base + A
<1>1. TypeOK BY DEF CountsInv
<1>2. At("STORE_LOCAL") /\ StoreInto(t) BY DEF StoreLocal
<1>3. A # 0 BY <1>2 DEF Disciplined
<1>4. A \in Nat /\ Top.base \in Nat /\ sp \in Int BY <1>1, <1>2, AtFacts, SlotFacts
<1>5. t \in Nat /\ Top.base < t /\ t < sp BY <1>2, <1>3, <1>4 DEF StoreInto
<1> HIDE DEF t
<1>6. ASSUME NEW i \in 1..Len(frames) PROVE frames[i].base # t
  <2>1. frames[i].base <= Top.base /\ frames[i].base \in Int BY <1>1, BelowTop, FrameFacts
  <2> QED BY <1>4, <1>5, <2>1
<1>7. Top.base < sp BY <1>4, <1>5
<1> QED BY <1>2, <1>5, <1>6, <1>7, StoreIntoFrames

LEMMA StoreLocalRefFrames ==
  ASSUME CountsInv, FramesAnchored, Disciplined, StoreLocalRef
  PROVE  FramesAnchored'
<1> DEFINE t == Local(A).data
<1>1. TypeOK BY DEF CountsInv
<1>2. At("STORE_LOCAL_REF") /\ IsLocalRef(A) /\ StoreInto(t) BY DEF StoreLocalRef
<1>3. A \in Nat /\ Top.base \in Nat /\ sp \in Int BY <1>1, <1>2, AtFacts, SlotFacts
<1>4. t \in Nat BY <1>1, <1>2, SlotFacts DEF IsLocalRef
<1>5. \A i \in 1..Len(frames) : frames[i].base # t BY <1>2 DEF Disciplined
<1>6. A # 0
  <2>1. IsObject(stk[Top.base]) BY <1>1, <1>2, TopAnchored DEF Holds
  <2>2. Local(A).type = "ref" BY <1>2 DEF IsLocalRef
  <2>3. A = 0 => Local(A) = stk[Top.base] BY <1>3 DEF Local
  <2> QED BY <2>1, <2>2, <2>3 DEF IsObject, ObjectType
<1>7. Top.base < sp BY <1>2, <1>3, <1>6 DEF IsLocalRef, IsLocal
<1> HIDE DEF t
<1> QED BY <1>2, <1>4, <1>5, <1>7, StoreIntoFrames

LEMMA MoveFrames ==
  ASSUME CountsInv, FramesAnchored, Disciplined, Move
  PROVE  FramesAnchored'
<1>1. TypeOK BY DEF CountsInv
<1>2. At("MOVE") /\ IsLocal(A) /\ Continue /\ class' = class /\ sp' = sp
  BY DEF Move, heapVars
<1>3. A # 0 BY <1>2 DEF Disciplined
<1>4. A \in Nat /\ Top.base \in Nat /\ sp \in Int BY <1>1, <1>2, AtFacts, SlotFacts
<1>5. SameFrames BY <1>1, <1>2, AdvanceSame
<1>6. \A s \in Slot : s <= Top.base => stk'[s] = stk[s]
  <2>1. \A s \in Slot : s <= Top.base => s # Top.base + A BY <1>3, <1>4
  <2> QED BY <1>1, <2>1, SlotFacts DEF Move
<1>7. Top.base <= sp' BY <1>1, <1>2, TopAnchored
<1> QED BY <1>2, <1>4, <1>5, <1>6, <1>7, FramesAbove DEF SameHold

-----------------------------------------------------------------------------
(***************************************************************************)
(* Frames: arrays and operators.                                           *)
(***************************************************************************)
\* A new object is made where no function was.
LEMMA AllocateKeeps ==
  ASSUME TypeOK, NEW o \in Free, NEW c, class' = [class EXCEPT ![o] = c]
  PROVE  \A x \in Obj : class[x] \in Fun => class'[x] = class[x]
<1>1. "free" \notin Fun BY ProgramAssumption DEF ProgramAssumption
<1>2. class[o] = "free" BY DEF Free
<1>3. class \in [Obj -> {"free", "array"} \cup Fun] BY DEF TypeOK, HeapOK
<1> QED BY <1>1, <1>2, <1>3

LEMMA NewArrayFrames == ASSUME CountsInv, FramesAnchored, NewArray PROVE FramesAnchored'
<1> DEFINE n == A - 1
<1>1. TypeOK BY DEF CountsInv
<1>2. At("NEW_ARRAY") /\ A \in Idx /\ Operands(A) BY DEF NewArray
<1>3. n \in Nat /\ n + 1 = A BY <1>1, <1>2, CellFacts DEF Idx
<1>4. CASE Fail BY <1>4, FailFrames
<1>5. ASSUME NEW o \in Free,
             Allocate(o, A, [i \in 1..A |-> stk[sp - A + i]]),
             Collapse(n, Array(o)), Continue
      PROVE  FramesAnchored'
  <2>1. class' = [class EXCEPT ![o] = "array"] BY <1>5 DEF Allocate
  <2>2. \A x \in Obj : class[x] \in Fun => class'[x] = class[x] BY <1>1, <2>1, AllocateKeeps
  <2>3. Operands(n + 1) BY <1>2, <1>3
  <2> HIDE DEF n
  <2> QED BY <1>2, <1>3, <1>5, <2>2, <2>3, CollapseFrames
<1> QED BY <1>4, <1>5 DEF NewArray

LEMMA NewEmptyArrayFrames ==
  ASSUME CountsInv, FramesAnchored, NewEmptyArray
  PROVE  FramesAnchored'
<1>1. TypeOK BY DEF CountsInv
<1>2. At("NEW_ARRAY") BY DEF NewEmptyArray
<1>3. CASE Fail BY <1>3, FailFrames
<1>4. ASSUME NEW o \in Free, Allocate(o, 0, <<>>)
      PROVE  \A x \in Obj : class[x] \in Fun => class'[x] = class[x]
  <2>1. class' = [class EXCEPT ![o] = "array"] BY <1>4 DEF Allocate
  <2> QED BY <1>1, <2>1, AllocateKeeps
<1>5. ASSUME sp < MaxSlots, Continue,
             NEW o \in Free, Allocate(o, 0, <<>>),
             stk' = [stk EXCEPT ![sp + 1] = Array(o)],
             sp' = sp + 1
      PROVE  FramesAnchored'
  <2>1. Top.base <= sp /\ Top.base \in Int /\ sp \in Int /\ MaxSlots \in Nat
        /\ Slot = 0..MaxSlots
    BY <1>1, <1>2, TopAnchored, AtFacts, SlotFacts
  <2>2. SameFrames BY <1>1, <1>2, <1>5, AdvanceSame
  <2>3. sp' \in Int /\ Top.base <= sp' BY <1>5, <2>1
  <2>4. \A s \in Slot : s <= Top.base => s # sp + 1 BY <2>1
  <2>5. \A s \in Slot : s <= Top.base => stk'[s] = stk[s] BY <1>1, <1>5, <2>4, SlotFacts
  <2> QED BY <1>2, <1>4, <1>5, <2>2, <2>3, <2>5, FramesAbove DEF SameHold
<1>6. ASSUME UNCHANGED <<stk, sp, frames>>,
             \A x \in Obj : class[x] \in Fun => class'[x] = class[x]
      PROVE  FramesAnchored'
  <2>1. SameFrames BY <1>6, UnchangedSame
  <2>2. \A i \in 1..Len(frames) : frames[i].base <= sp'
    BY <1>6 DEF FramesAnchored
  <2>3. \A i \in 1..Len(frames) : SameHold(stk'[frames[i].base], stk[frames[i].base])
    BY <1>6 DEF SameHold
  <2> QED BY <1>6, <2>1, <2>2, <2>3, FramesStep
<1>7. CASE \E o \in Free : Allocate(o, 0, <<>>) /\ Raise /\ UNCHANGED <<stk, sp>>
  BY <1>4, <1>6, <1>7 DEF Raise
<1>8. CASE UNCHANGED <<stk, sp, heapVars, frames>>
  BY <1>6, <1>8 DEF heapVars
<1> QED BY <1>3, <1>5, <1>7, <1>8 DEF NewEmptyArray

\* The heap is as it was, and the top two or three operands leave one value.
LEMMA TwoForOne ==
  ASSUME CountsInv, FramesAnchored, NEW op, At(op), Continue, Operands(2),
         NEW v, Collapse(1, v),
         \A o \in Obj : class[o] \in Fun => class'[o] = class[o]
  PROVE  FramesAnchored'
<1>1. Operands(1 + 1) BY AtFacts, SlotFacts DEF Operands, CountsInv
<1> QED BY <1>1, CollapseFrames

LEMMA ThreeForOne ==
  ASSUME CountsInv, FramesAnchored, NEW op, At(op), Continue, Operands(3),
         NEW v, Collapse(2, v),
         \A o \in Obj : class[o] \in Fun => class'[o] = class[o]
  PROVE  FramesAnchored'
<1>1. Operands(2 + 1) BY AtFacts, SlotFacts DEF Operands, CountsInv
<1> QED BY <1>1, CollapseFrames

LEMMA GetElementFrames == ASSUME CountsInv, FramesAnchored, GetElement PROVE FramesAnchored'
<1> DEFINE res == Element(Get(1), Get(0))
<1>1. At("GET_ELEMENT") /\ Operands(2) BY DEF GetElement
<1>2. CASE Fail BY <1>2, FailFrames
<1>3. CASE Collapse(1, res) /\ Continue /\ UNCHANGED heapVars
  <2>1. class' = class BY <1>3 DEF heapVars
  <2> HIDE DEF res
  <2> QED BY <1>1, <1>3, <2>1, TwoForOne
<1> QED BY <1>2, <1>3 DEF GetElement

LEMMA LoadElementFrames ==
  ASSUME CountsInv, FramesAnchored, LoadElement \/ FetchElement
  PROVE  FramesAnchored'
  BY PushStkFrames, FailFrames DEF LoadElement, FetchElement

LEMMA WriteElementFrames ==
  ASSUME CountsInv, FramesAnchored, NEW op, At(op), Operands(3),
         NEW val1, NEW val2, NEW val3, WriteElement(val1, val2, val3)
  PROVE  FramesAnchored'
<1> DEFINE arr == val1.data
           i == val2.data + 1
<1>1. TypeOK BY DEF CountsInv
<1>2. CASE Fail BY <1>2, FailFrames
<1>3. CASE SetInPlace(arr, i, val3)
  <2>1. class' = class /\ Continue /\ Collapse(2, Get(2)) BY <1>3 DEF SetInPlace
  <2> QED BY <2>1, ThreeForOne
<1>4. ASSUME NEW o \in Free, NEW elem, Allocate(o, len[arr], elem),
             Collapse(2, Array(o)), Continue
      PROVE  FramesAnchored'
  <2>1. class' = [class EXCEPT ![o] = "array"] BY <1>4 DEF Allocate
  <2>2. \A x \in Obj : class[x] \in Fun => class'[x] = class[x] BY <1>1, <2>1, AllocateKeeps
  <2> QED BY <1>4, <2>2, ThreeForOne
<1>5. CASE CopyAndSet(arr, i, val3) BY <1>2, <1>4, <1>5 DEF CopyAndSet
<1> QED BY <1>3, <1>5 DEF WriteElement

LEMMA SetElementFrames ==
  ASSUME CountsInv, FramesAnchored, SetElement \/ UpdateElement
  PROVE  FramesAnchored'
  BY WriteElementFrames, FailFrames DEF SetElement, UpdateElement

LEMMA UnpackElementsFrames ==
  ASSUME CountsInv, FramesAnchored, UnpackElements
  PROVE  FramesAnchored'
<1>1. TypeOK BY DEF CountsInv
<1>2. At("UNPACK_ELEMENTS") /\ Operands(A + 1) BY DEF UnpackElements
<1>3. CASE Fail BY <1>3, FailFrames
<1>4. CASE /\ \A s \in Slot : s < sp - A => stk'[s] = stk[s]
           /\ sp' = sp - 1 /\ Continue /\ class' = class
  <2>1. Top.base < sp - A /\ Top.base \in Int /\ sp \in Int /\ A \in Nat
        /\ Slot = 0..MaxSlots /\ MaxSlots \in Nat
    BY <1>1, <1>2, AtFacts, SlotFacts DEF Operands
  <2>2. SameFrames BY <1>1, <1>2, <1>4, AdvanceSame
  <2>3. \A s \in Slot : s <= Top.base => stk'[s] = stk[s] BY <1>4, <2>1
  <2>4. sp' \in Int /\ Top.base <= sp' BY <1>4, <2>1
  <2> QED BY <1>2, <1>4, <2>2, <2>3, <2>4, FramesAbove DEF SameHold
<1> QED BY <1>3, <1>4 DEF UnpackElements, heapVars

LEMMA OperatorFrames == ASSUME CountsInv, FramesAnchored, Eq \/ Add PROVE FramesAnchored'
<1>1. TypeOK BY DEF CountsInv
<1>2. PICK op : At(op) /\ Operands(2) BY DEF Eq, Add
<1>3. CASE Fail BY <1>3, FailFrames
<1>4. ASSUME NEW v, Combine(v) PROVE FramesAnchored'
  <2>1. class' = class /\ Continue /\ Collapse(1, v) BY <1>4 DEF Combine, heapVars
  <2> QED BY <1>2, <2>1, TwoForOne
<1>5. ASSUME NEW o \in Free, NEW n, NEW elem, Allocate(o, n, elem),
             Collapse(1, Array(o)), Continue
      PROVE  FramesAnchored'
  <2>1. class' = [class EXCEPT ![o] = "array"] BY <1>5 DEF Allocate
  <2>2. \A x \in Obj : class[x] \in Fun => class'[x] = class[x] BY <1>1, <2>1, AllocateKeeps
  <2> QED BY <1>2, <1>5, <2>2, TwoForOne
<1>6. ASSUME NEW arr1, NEW arr2, Concat(arr1, arr2) PROVE FramesAnchored'
  BY <1>3, <1>5, <1>6 DEF Concat
<1> QED BY <1>3, <1>4, <1>6 DEF Eq, Add

-----------------------------------------------------------------------------
(***************************************************************************)
(* Frames: calls and returns.                                              *)
(***************************************************************************)
LEMMA NewClosureFrames ==
  ASSUME CountsInv, FramesAnchored, NewClosure
  PROVE  FramesAnchored'
<1>1. TypeOK BY DEF CountsInv
<1>2. At("NEW_CLOSURE") BY DEF NewClosure
<1>3. CASE Fail BY <1>3, FailFrames
<1>4. ASSUME sp < MaxSlots, Continue,
             NEW o \in Free,
             class' = [class EXCEPT ![o] = A],
             stk' = [stk EXCEPT ![sp + 1] = Closure(o)],
             sp' = sp + 1
      PROVE  FramesAnchored'
  <2>1. Top.base <= sp /\ Top.base \in Int /\ sp \in Int /\ MaxSlots \in Nat
        /\ Slot = 0..MaxSlots
    BY <1>1, <1>2, TopAnchored, AtFacts, SlotFacts
  <2>2. SameFrames BY <1>1, <1>2, <1>4, AdvanceSame
  <2>3. sp' \in Int /\ Top.base <= sp' BY <1>4, <2>1
  <2>4. \A s \in Slot : s <= Top.base => s # sp + 1 BY <2>1
  <2>5. \A s \in Slot : s <= Top.base => stk'[s] = stk[s] BY <1>1, <1>4, <2>4, SlotFacts
  <2>6. \A x \in Obj : class[x] \in Fun => class'[x] = class[x] BY <1>1, <1>4, AllocateKeeps
  <2> QED BY <1>2, <2>2, <2>3, <2>5, <2>6, FramesAbove DEF SameHold
<1> QED BY <1>3, <1>4 DEF NewClosure

LEMMA CallFrames == ASSUME CountsInv, FramesAnchored, Call PROVE FramesAnchored'
<1> DEFINE c == sp - A
           val == stk[c]
           f == class[val.data]
           k == Arity[f]
           g == Recoded(Tail(Top.code))
           n == Len(frames)
<1>1. TypeOK BY DEF CountsInv
<1>2. At("CALL") /\ Operands(A + 1) BY DEF Call
<1>3. CASE Fail BY <1>3, FailFrames
<1>4. CASE /\ IsCallable(val) /\ stk' = Adjusted(c, k) /\ class' = class
           /\ \/ /\ sp' = c + k /\ frames' = Append(g, Entry(c, val.data, f))
              \/ /\ frames' = frames
                 /\ sp' = c + k \/ (c + k > MaxSlots /\ sp' = MaxSlots)
  <2>1. /\ Top.base < c /\ Top.base \in Int /\ c \in Int /\ c <= sp /\ sp \in Int
        /\ Slot = 0..MaxSlots /\ MaxSlots \in Nat /\ c \in Slot /\ c <= MaxSlots
    BY <1>1, <1>2, AtFacts, SlotFacts DEF Operands
  <2>2. val \in Value BY <1>1, <2>1, SlotFacts
  <2>3. f \in Fun /\ k \in Nat BY <1>4, ProgramAssumption DEF IsCallable, ProgramAssumption
  <2>4. Holds(val, val.data) BY <1>4 DEF IsCallable, Holds, IsObject, ObjectType
  <2>5. g \in Seq(Frame) /\ Len(g) = n /\ \A i \in 1..n : SameFrame(g[i], frames[i])
    BY <1>1, <1>2, AtFacts, RecodedSame DEF At
  <2> HIDE DEF c, val, f, k, g
  <2>6. \A s \in Slot : s <= c => stk'[s] = stk[s]
    BY <1>4, <2>1, <2>3 DEF Adjusted
  <2>7. sp' \in Int /\ c <= sp' BY <1>4, <2>1, <2>3
  <2>8. CASE frames' = frames
    <3>1. SameFrames BY <2>8, UnchangedSame
    <3>2. Top.base <= sp' /\ \A s \in Slot : s <= Top.base => stk'[s] = stk[s]
      BY <2>1, <2>6, <2>7
    <3> QED BY <1>2, <1>4, <2>7, <3>1, <3>2, FramesAbove DEF SameHold
  <2>9. CASE frames' = Append(g, Entry(c, val.data, f))
    <3>1. n \in Nat /\ Len(frames') = n + 1
          /\ (\A i \in 1..n : frames'[i] = g[i]) /\ frames'[n + 1] = Entry(c, val.data, f)
      BY <1>1, <2>5, <2>9 DEF TypeOK, ControlOK
    <3>2. /\ frames'[n + 1].base = c /\ frames'[n + 1].cl = val.data
          /\ frames'[n + 1].fn = f
      BY <3>1 DEF Entry
    <3>3. stk'[c] = val BY <2>1, <2>6 DEF val
    <3>4. class'[val.data] = f BY <1>4 DEF f
    <3>5. ASSUME NEW i \in 1..n
          PROVE  /\ frames'[i].base = frames[i].base /\ frames[i].base < c
                 /\ frames[i].base \in Slot /\ frames[i].base \in Int
                 /\ Holds(stk'[frames'[i].base], frames'[i].cl)
                 /\ class'[frames'[i].cl] = frames'[i].fn
      <4>1. frames[i].base <= Top.base /\ frames[i].base \in Slot /\ frames[i].base \in Int
        BY <1>1, BelowTop, FrameFacts
      <4>2. frames[i].base < c BY <2>1, <4>1
      <4>3. stk'[frames[i].base] = stk[frames[i].base] BY <2>1, <2>6, <4>1, <4>2
      <4>4. Holds(stk[frames[i].base], frames[i].cl) /\ class[frames[i].cl] = frames[i].fn
        BY DEF FramesAnchored
      <4>5. SameFrame(frames'[i], frames[i]) BY <2>5, <3>1
      <4> QED BY <1>4, <4>1, <4>2, <4>3, <4>4, <4>5 DEF SameFrame
    <3>6. \A i \in 1..(n + 1) : i = n + 1 \/ i \in 1..n BY <3>1
    <3>7. ASSUME NEW i \in 1..(n + 1)
          PROVE  /\ frames'[i].base <= sp'
                 /\ Holds(stk'[frames'[i].base], frames'[i].cl)
                 /\ class'[frames'[i].cl] = frames'[i].fn
      <4>1. CASE i = n + 1 BY <2>1, <2>4, <2>7, <3>2, <3>3, <3>4, <4>1
      <4>2. CASE i \in 1..n BY <2>1, <2>7, <3>5, <4>2
      <4> QED BY <3>6, <4>1, <4>2
    <3>8. ASSUME NEW i \in 1..(n + 1), NEW j \in 1..(n + 1), i < j
          PROVE  frames'[i].base < frames'[j].base
      <4>1. i \in 1..n BY <3>1, <3>8
      <4>2. CASE j = n + 1 BY <3>2, <3>5, <4>1, <4>2
      <4>3. CASE j \in 1..n
        <5>1. frames[i].base < frames[j].base BY <3>8, <4>1, <4>3 DEF FramesAnchored
        <5> QED BY <3>5, <4>1, <4>3, <5>1
      <4> QED BY <3>6, <4>2, <4>3
    <3> QED BY <3>1, <3>7, <3>8 DEF FramesAnchored
  <2> QED BY <1>4, <2>8, <2>9
<1> QED BY <1>3, <1>4 DEF Call, Raise, heapVars, Recoded, Top

\* A tail call puts the callee, and the frame of the callee, where the
\* running closure and its frame were.
LEMMA TailCallFrames == ASSUME CountsInv, FramesAnchored, TailCall PROVE FramesAnchored'
<1> DEFINE c == sp - A
           val == stk[c]
           f == class[val.data]
           k == Arity[f]
           b == Top.base
           n == Len(frames)
           args == Adjusted(c, k)
<1>1. TypeOK BY DEF CountsInv
<1>2. At("TAIL_CALL") /\ Operands(A + 1) BY DEF TailCall
<1>3. /\ b < c /\ b \in Int /\ b \in Slot /\ c \in Int /\ c <= sp /\ sp \in Int
      /\ Slot = 0..MaxSlots /\ MaxSlots \in Nat /\ c \in Slot /\ c <= MaxSlots /\ b >= 1
  BY <1>1, <1>2, AtFacts, SlotFacts DEF Operands
<1>4. CASE Fail BY <1>4, FailFrames
<1>5. CASE /\ IsCallable(val) /\ stk' = args /\ frames' = frames /\ class' = class
           /\ sp' = c + k \/ sp' = MaxSlots
  <2>1. k \in Nat BY <1>5, ProgramAssumption DEF IsCallable, ProgramAssumption
  <2>2. sp' \in Int /\ b <= sp' BY <1>3, <1>5, <2>1
  <2>3. \A s \in Slot : s <= b => s <= c + k BY <1>3, <2>1
  <2>4. \A s \in Slot : s <= b => stk'[s] = stk[s] BY <1>5, <2>3 DEF Adjusted
  <2>5. SameFrames BY <1>5, UnchangedSame
  <2> QED BY <1>2, <1>5, <2>2, <2>4, <2>5, FramesAbove DEF SameHold
<1>6. CASE /\ IsCallable(val) /\ class' = class
           /\ stk' = [s \in Slot |-> IF s < b THEN stk[s]
                                     ELSE IF s <= b + k THEN args[s - b + c]
                                     ELSE Nil]
           /\ sp' = b + k
           /\ frames' = [frames EXCEPT ![n] = Entry(b, val.data, f)]
  <2>1. k \in Nat /\ f \in Fun BY <1>6, ProgramAssumption DEF IsCallable, ProgramAssumption
  <2>2. Holds(val, val.data) /\ class'[val.data] = f
    BY <1>6 DEF IsCallable, Holds, IsObject, ObjectType
  <2>3. args[c] = val BY <1>3, <2>1 DEF Adjusted
  <2> DEFINE fr == Entry(b, val.data, f)
  <2>4. fr.base = b /\ fr.cl = val.data /\ fr.fn = f BY DEF Entry
  <2>5. fr \in Frame
    <3>1. val \in Value BY <1>1, <1>3, SlotFacts
    <3>2. val.data \in Obj BY <1>6, <3>1 DEF IsCallable, Value, ScalarType
    <3> QED BY <1>1, <1>2, <2>1, <3>2, AtFacts, EntryType
  <2> HIDE DEF c, val, f, k, args, fr
  <2>6. frames \in Seq(Frame) /\ n \in 1..n /\ n \in Nat
    BY <1>1, <1>2, AtFacts DEF TypeOK, ControlOK
  <2>7. frames' = [frames EXCEPT ![n] = fr] BY <1>6 DEF fr
  <2>8. Len(frames') = n
    <3>1. frames' \in Seq(Frame) /\ DOMAIN frames' = 1..n BY <2>5, <2>6, <2>7
    <3> QED BY <3>1, <2>6
  <2>9. frames'[n] = fr /\ \A i \in 1..n : i # n => frames'[i] = frames[i] BY <2>6, <2>7
  <2>10. stk'[b] = val
    <3>1. b <= b + k /\ b - b + c = c BY <1>3, <2>1
    <3> QED BY <1>3, <1>6, <2>3, <3>1
  <2>11. sp' \in Int /\ b <= sp' BY <1>3, <1>6, <2>1
  <2>12. ASSUME NEW i \in 1..n, i # n
         PROVE  /\ frames'[i] = frames[i] /\ frames[i].base < b
                /\ frames[i].base \in Int
                /\ Holds(stk'[frames[i].base], frames[i].cl)
                /\ class'[frames[i].cl] = frames[i].fn
    <3>1. frames[i].base < b /\ frames[i].base \in Slot /\ frames[i].base \in Int
      BY <1>1, <2>12, BelowTop, FrameFacts
    <3>2. stk'[frames[i].base] = stk[frames[i].base] BY <1>6, <3>1
    <3>3. Holds(stk[frames[i].base], frames[i].cl) /\ class[frames[i].cl] = frames[i].fn
      BY DEF FramesAnchored
    <3> QED BY <1>6, <2>9, <2>12, <3>1, <3>2, <3>3
  <2>13. ASSUME NEW i \in 1..n
         PROVE  /\ frames'[i].base <= sp'
                /\ Holds(stk'[frames'[i].base], frames'[i].cl)
                /\ class'[frames'[i].cl] = frames'[i].fn
    <3>1. CASE i = n BY <2>2, <2>4, <2>9, <2>10, <2>11, <3>1
    <3>2. CASE i # n BY <1>3, <2>11, <2>12, <3>2
    <3> QED BY <3>1, <3>2
  <2>14. ASSUME NEW i \in 1..n, NEW j \in 1..n, i < j
         PROVE  frames'[i].base < frames'[j].base
    <3>1. i # n BY <2>6, <2>14
    <3>2. CASE j = n BY <2>4, <2>9, <2>12, <3>1, <3>2
    <3>3. CASE j # n
      <4>1. frames[i].base < frames[j].base BY <2>14 DEF FramesAnchored
      <4> QED BY <2>12, <3>1, <3>3, <4>1
    <3> QED BY <3>2, <3>3
  <2> QED BY <2>8, <2>13, <2>14 DEF FramesAnchored
<1> QED BY <1>4, <1>5, <1>6 DEF TailCall, Raise, heapVars

\* rak_fiber_return leaves the frames below as they are: it writes no slot
\* under the base of the frame it leaves.
LEMMA ReturnFrames ==
  ASSUME CountsInv, FramesAnchored, NEW op, At(op),
         NEW s0, \A i \in 1..Len(frames) : SameHold(s0[frames[i].base], stk[frames[i].base]),
         \A o \in Obj : class[o] \in Fun => class'[o] = class[o],
         NEW h, NEW m, NEW res, Return(s0, h, m, res)
  PROVE  FramesAnchored'
<1> DEFINE n == Len(frames)
           b == Top.base
<1>1. TypeOK BY DEF CountsInv
<1>2. frames \in Seq(Frame) /\ n \in Nat /\ n >= 1 BY <1>1, AtFacts DEF TypeOK, ControlOK
<1>3. frames' = SubSeq(frames, 1, n - 1) /\ sp' = b
      /\ \A s \in Slot : s < b => stk'[s] = s0[s]
  BY DEF Return, ReturnReleasing
<1>4. Len(frames') = n - 1 /\ \A i \in 1..(n - 1) : frames'[i] = frames[i]
  <2>1. \A i \in 1..(n - 1) : frames[i] \in Frame BY <1>2
  <2>2. n - 1 \in Int /\ 1 \in Int /\ (n - 1) - 1 + 1 = n - 1
        /\ \A i \in 1..(n - 1) : 1 + i - 1 = i
    BY <1>2
  <2>3. /\ Len(frames') = IF 1 <= n - 1 THEN (n - 1) - 1 + 1 ELSE 0
        /\ \A i \in 1..((n - 1) - 1 + 1) : frames'[i] = frames[1 + i - 1]
    BY <1>3, <2>1, <2>2, SubSeqProperties
  <2>4. Len(frames') = n - 1
    <3>1. CASE 1 <= n - 1 BY <2>2, <2>3, <3>1
    <3>2. CASE ~(1 <= n - 1)
      <4>1. Len(frames') = 0 BY <2>3, <3>2
      <4>2. \A j \in Nat : j >= 1 /\ ~(1 <= j - 1) => j - 1 = 0 OBVIOUS
      <4>3. n - 1 = 0 BY <1>2, <3>2, <4>2
      <4> QED BY <4>1, <4>3
    <3> QED BY <3>1, <3>2
  <2>5. \A i \in 1..(n - 1) : frames'[i] = frames[i] BY <2>2, <2>3
  <2> QED BY <2>4, <2>5
<1>5. ASSUME NEW i \in 1..(n - 1)
      PROVE  /\ i \in 1..n /\ frames'[i] = frames[i] /\ frames[i].base <= sp'
             /\ Holds(stk'[frames[i].base], frames[i].cl)
             /\ class'[frames[i].cl] = frames[i].fn
  <2>1. i \in 1..n /\ i # n BY <1>2
  <2>2. frames[i].base < b /\ frames[i].base \in Slot /\ frames[i].base \in Int
    BY <1>1, <2>1, BelowTop, FrameFacts
  <2>3. b \in Int BY <1>1, AtFacts
  <2>4. Holds(stk[frames[i].base], frames[i].cl) /\ class[frames[i].cl] = frames[i].fn
    BY <2>1 DEF FramesAnchored
  <2>5. Holds(s0[frames[i].base], frames[i].cl) BY <2>1, <2>4 DEF SameHold
  <2>6. frames[i].cl \in Obj /\ frames[i].fn \in Fun BY <1>1, <2>1, FrameFacts
  <2>7. class'[frames[i].cl] = frames[i].fn BY <2>4, <2>6
  <2> QED BY <1>3, <1>4, <2>1, <2>2, <2>3, <2>5, <2>7
<1>6. \A i, j \in 1..(n - 1) : i < j => frames'[i].base < frames'[j].base
  BY <1>5 DEF FramesAnchored
<1> QED BY <1>4, <1>5, <1>6 DEF FramesAnchored

LEMMA ReturnTopFrames ==
  ASSUME CountsInv, FramesAnchored, ReturnTop \/ ReturnNil
  PROVE  FramesAnchored'
<1>1. CASE Fail BY <1>1, FailFrames
<1>2. ASSUME NEW op, At(op), NEW h, NEW res, Return(stk, h, Mem, res), UNCHANGED heapVars
      PROVE  FramesAnchored'
  <2>1. class' = class BY <1>2 DEF heapVars
  <2> QED BY <1>2, <2>1, ReturnFrames DEF SameHold
<1> QED BY <1>1, <1>2 DEF ReturnTop, ReturnNil

-----------------------------------------------------------------------------
(***************************************************************************)
(* Frames: the natives.                                                    *)
(***************************************************************************)
LEMMA ReturnValueFrames ==
  ASSUME CountsInv, FramesAnchored, NEW op, At(op),
         NEW s0, \A i \in 1..Len(frames) : SameHold(s0[frames[i].base], stk[frames[i].base]),
         \A o \in Obj : class[o] \in Fun => class'[o] = class[o],
         NEW m, NEW res, ReturnValue(s0, m, res)
  PROVE  FramesAnchored'
<1>1. TypeOK BY DEF CountsInv
<1>2. CASE Return(s0, sp + 1, Retain(m, res), res) BY <1>2, ReturnFrames
<1>3. CASE stk' = s0 /\ sp' = sp /\ frames' = frames
  <2>1. SameFrames BY <1>3, UnchangedSame
  <2>2. \A i \in 1..Len(frames) : frames[i].base <= sp' BY <1>3 DEF FramesAnchored
  <2> QED BY <1>3, <2>1, <2>2, FramesStep
<1> QED BY <1>2, <1>3 DEF ReturnValue, Raise

LEMMA LenNativeFrames == ASSUME CountsInv, FramesAnchored, LenNative PROVE FramesAnchored'
<1>1. CASE Fail BY <1>1, FailFrames
<1>2. CASE At("LEN") /\ class' = class
           /\ ReturnValue(stk, Mem, Number(len[Local(1).data]))
  BY <1>2, ReturnValueFrames DEF SameHold
<1> QED BY <1>1, <1>2 DEF LenNative, heapVars

LEMMA FillFrames ==
  ASSUME CountsInv, FramesAnchored, NEW op, At(op), NEW n, Fill(n)
  PROVE  FramesAnchored'
<1>1. TypeOK BY DEF CountsInv
<1>2. CASE Fail BY <1>2, FailFrames
<1>3. ASSUME NEW o \in Free,
             Allocate(o, n, [i \in 1..n |-> Local(1)]), ReturnValue(stk, Mem, Array(o))
      PROVE  FramesAnchored'
  <2>1. class' = [class EXCEPT ![o] = "array"] BY <1>3 DEF Allocate
  <2>2. \A x \in Obj : class[x] \in Fun => class'[x] = class[x] BY <1>1, <2>1, AllocateKeeps
  <2> QED BY <1>3, <2>2, ReturnValueFrames DEF SameHold
<1> QED BY <1>2, <1>3 DEF Fill

LEMMA ArrayNativeFrames ==
  ASSUME CountsInv, FramesAnchored, ArrayNative
  PROVE  FramesAnchored'
  BY FillFrames, FailFrames DEF ArrayNative

\* append() replaces an array, and no frame has an array at its base.
LEMMA AppendNativeFrames ==
  ASSUME CountsInv, FramesAnchored, AppendNative
  PROVE  FramesAnchored'
<1> DEFINE t == Local(1).data
           arr == stk[t].data
           n == len[arr]
           val2 == Local(2)
<1>1. TypeOK BY DEF CountsInv
<1>2. At("APPEND") BY DEF AppendNative
<1>3. CASE Fail BY <1>3, FailFrames
<1>4. CASE IsLocalRef(1) /\ stk[t].type = "array" /\ AppendTo(t, arr, val2)
  <2>1. t \in Slot BY <1>1, <1>4, SlotFacts DEF IsLocalRef
  <2>2. \A i \in 1..Len(frames) : frames[i].base # t BY <1>4, <2>1, NotABase
  <2> HIDE DEF t, arr, n, val2
  <2>3. ASSUME NEW o \in Free, NEW elem, NEW m2,
               Allocate(o, n + 1, elem),
               ReturnValue([stk EXCEPT ![t] = Array(o)], m2, Array(o))
        PROVE  FramesAnchored'
    <3> DEFINE s0 == [stk EXCEPT ![t] = Array(o)]
    <3>1. class' = [class EXCEPT ![o] = "array"] BY <2>3 DEF Allocate
    <3>2. \A x \in Obj : class[x] \in Fun => class'[x] = class[x]
      BY <1>1, <3>1, AllocateKeeps
    <3>3. \A s \in Slot : s # t => s0[s] = stk[s] BY <1>1, SlotFacts
    <3> HIDE DEF s0
    <3>4. \A i \in 1..Len(frames) : s0[frames[i].base] = stk[frames[i].base]
      BY <1>1, <2>2, <3>3, FrameFacts
    <3>5. ReturnValue(s0, m2, Array(o)) BY <2>3 DEF s0
    <3> QED BY <1>2, <3>2, <3>4, <3>5, ReturnValueFrames DEF SameHold
  <2>4. ASSUME NEW m2, NEW res, class' = class, ReturnValue(stk, m2, res)
        PROVE  FramesAnchored'
    BY <1>2, <2>4, ReturnValueFrames DEF SameHold
  <2> QED BY <1>3, <1>4, <2>3, <2>4 DEF AppendTo, n, arr
<1> QED BY <1>3, <1>4 DEF AppendNative

-----------------------------------------------------------------------------
(***************************************************************************)
(* Frames: the run of a script.                                            *)
(***************************************************************************)
LEMMA NextStatementFrames ==
  ASSUME CountsInv, FramesAnchored, NextStatement
  PROVE  FramesAnchored'
<1>1. TypeOK BY DEF CountsInv
<1>2. frames # <<>> /\ stk' = stk /\ sp' = sp /\ class' = class
  BY DEF NextStatement, heapVars
<1>3. PICK t \in Stmts[Top.fn] : frames' = Recoded(t) BY DEF NextStatement, Recoded
<1>4. t \in Seq(Instr)
  <2>1. Top \in Frame BY <1>1, <1>2 DEF TypeOK, ControlOK, Top
  <2>2. Top.fn \in Fun BY <2>1 DEF Frame
  <2> QED BY <2>2, ProgramAssumption DEF ProgramAssumption
<1>5. SameFrames BY <1>1, <1>2, <1>3, <1>4, RecodedSame DEF SameFrames
<1>6. \A i \in 1..Len(frames) : frames[i].base <= sp' BY <1>2 DEF FramesAnchored
<1> QED BY <1>2, <1>5, <1>6, FramesStep DEF SameHold

\* The closure of a frame is held by its bottom slot, so it is not condemned.
LEMMA FreeObjectFrames ==
  ASSUME CountsInv, FramesAnchored, FreeObject
  PROVE  FramesAnchored'
<1>1. TypeOK BY DEF CountsInv
<1>2. PICK o \in dying : class' = [class EXCEPT ![o] = "free"]
                         /\ stk' = stk /\ sp' = sp /\ frames' = frames
  BY DEF FreeObject
<1>3. ASSUME NEW i \in 1..Len(frames)
      PROVE  class'[frames[i].cl] = frames[i].fn
  <2>1. Holds(stk[frames[i].base], frames[i].cl) /\ class[frames[i].cl] = frames[i].fn
    BY DEF FramesAnchored
  <2>2. frames[i].base \in Slot /\ frames[i].cl \in Obj BY <1>1, FrameFacts
  <2>3. frames[i].cl # o BY <2>1, <2>2, Condemned
  <2> QED BY <1>1, <1>2, <2>1, <2>2, <2>3 DEF TypeOK, HeapOK
<1> QED BY <1>2, <1>3 DEF FramesAnchored

LEMMA DeinitFrames == Deinit => FramesAnchored'
  BY DEF Deinit, FramesAnchored

LEMMA InitFrames == Init => FramesAnchored
<1> SUFFICES ASSUME Init PROVE FramesAnchored
  OBVIOUS
<1>1. frames = <<Entry(1, MainObj, Main)>> /\ sp = 1 BY DEF Init
<1>2. Len(frames) = 1 /\ frames[1].base = 1 /\ frames[1].cl = MainObj /\ frames[1].fn = Main
  BY <1>1 DEF Entry
<1>3. stk[1] = Closure(MainObj) BY BoundAssumption DEF Init, Slot, BoundAssumption
<1>4. Holds(stk[1], MainObj) BY <1>3 DEF Holds, Closure, IsObject, ObjectType
<1>5. class[MainObj] = Main BY MainAssumption DEF Init, MainAssumption
<1> QED BY <1>1, <1>2, <1>4, <1>5 DEF FramesAnchored

-----------------------------------------------------------------------------
(***************************************************************************)
(* Safety.                                                                 *)
(***************************************************************************)
\* The inductive invariant: neither half is one without the other.
SafetyInv == CountsInv /\ FramesAnchored

LEMMA StackSafety == SafetyInv /\ Disciplined /\ Stack => SafetyInv'
<1> SUFFICES ASSUME CountsInv, FramesAnchored, Disciplined, Stack
             PROVE  CountsInv' /\ FramesAnchored'
  BY DEF SafetyInv
<1>1. CASE PushNil BY <1>1, PushNilCounts, StackFrames
<1>2. CASE PushInt BY <1>2, PushIntCounts, StackFrames
<1>3. CASE LoadGlobal BY <1>3, LoadGlobalCounts, StackFrames
<1>4. CASE LoadLocal BY <1>4, LoadLocalCounts, StackFrames
<1>5. CASE StoreLocal BY <1>5, StoreLocalCounts, StoreLocalFrames
<1>6. CASE FetchLocal BY <1>6, FetchLocalCounts, StackFrames
<1>7. CASE RefLocal BY <1>7, RefLocalCounts, RefLocalFrames
<1>8. CASE LoadLocalRef BY <1>8, LoadLocalRefCounts, StackFrames
<1>9. CASE StoreLocalRef BY <1>9, StoreLocalRefCounts, StoreLocalRefFrames
<1>10. CASE Move BY <1>10, MoveCounts, MoveFrames
<1>11. CASE Pop BY <1>11, PopCounts, PopFrames
<1> QED BY <1>1, <1>2, <1>3, <1>4, <1>5, <1>6, <1>7, <1>8, <1>9, <1>10, <1>11 DEF Stack

LEMMA ArraysSafety == SafetyInv /\ Arrays => SafetyInv'
<1> SUFFICES ASSUME CountsInv, FramesAnchored, Arrays
             PROVE  CountsInv' /\ FramesAnchored'
  BY DEF SafetyInv
<1>1. CASE NewArray BY <1>1, NewArrayCounts, NewArrayFrames
<1>2. CASE GetElement BY <1>2, GetElementCounts, GetElementFrames
<1>3. CASE SetElement BY <1>3, SetElementCounts, SetElementFrames
<1>4. CASE LoadElement BY <1>4, LoadElementCounts, LoadElementFrames
<1>5. CASE FetchElement BY <1>5, FetchElementCounts, LoadElementFrames
<1>6. CASE UpdateElement BY <1>6, UpdateElementCounts, SetElementFrames
<1>7. CASE UnpackElements BY <1>7, UnpackElementsCounts, UnpackElementsFrames
<1>8. CASE Eq BY <1>8, EqCounts, OperatorFrames
<1>9. CASE Add BY <1>9, AddCounts, OperatorFrames
<1>10. CASE NewEmptyArray BY <1>10, NewEmptyArrayCounts, NewEmptyArrayFrames
<1> QED BY <1>1, <1>2, <1>3, <1>4, <1>5, <1>6, <1>7, <1>8, <1>9, <1>10 DEF Arrays

LEMMA CallsSafety == SafetyInv /\ Disciplined /\ Calls => SafetyInv'
<1> SUFFICES ASSUME CountsInv, FramesAnchored, Disciplined, Calls
             PROVE  CountsInv' /\ FramesAnchored'
  BY DEF SafetyInv
<1>1. CASE NewClosure BY <1>1, NewClosureCounts, NewClosureFrames
<1>2. CASE Call BY <1>2, CallCounts, CallFrames
<1>3. CASE TailCall BY <1>3, TailCallCounts, TailCallFrames
<1>4. CASE ReturnTop BY <1>4, ReturnTopCounts, ReturnTopFrames
<1>5. CASE ReturnNil BY <1>5, ReturnNilCounts, ReturnTopFrames
<1> QED BY <1>1, <1>2, <1>3, <1>4, <1>5 DEF Calls

LEMMA BuiltinsSafety == SafetyInv /\ Disciplined /\ Builtins => SafetyInv'
<1> SUFFICES ASSUME CountsInv, FramesAnchored, Disciplined, Builtins
             PROVE  CountsInv' /\ FramesAnchored'
  BY DEF SafetyInv
<1>1. CASE AppendNative BY <1>1, AppendNativeCounts, AppendNativeFrames
<1>2. CASE ArrayNative BY <1>2, ArrayNativeCounts, ArrayNativeFrames
<1>3. CASE LenNative BY <1>3, LenNativeCounts, LenNativeFrames
<1> QED BY <1>1, <1>2, <1>3 DEF Builtins

LEMMA StillSafety == SafetyInv /\ UNCHANGED vars => SafetyInv'
<1> SUFFICES ASSUME CountsInv, FramesAnchored, UNCHANGED vars
             PROVE  CountsInv' /\ FramesAnchored'
  BY DEF SafetyInv
<1>1. TypeOK' BY NextType DEF CountsInv
<1>2. UNCHANGED <<stk, heapVars, rc, dying>> BY DEF vars, heapVars
<1>3. FramesAnchored' BY DEF vars, FramesAnchored
<1> QED BY <1>1, <1>2, <1>3, CountsKept

LEMMA SafetyNext == SafetyInv /\ Disciplined /\ [Next]_vars => SafetyInv'
<1> SUFFICES ASSUME SafetyInv, Disciplined, [Next]_vars
             PROVE  SafetyInv'
  OBVIOUS
<1>1. CountsInv /\ FramesAnchored BY DEF SafetyInv
<1>2. CASE NextStatement
  <2>1. TypeOK' BY <1>1, <1>2, NextStatementType DEF CountsInv
  <2>2. UNCHANGED <<stk, heapVars, rc, dying>> BY <1>2 DEF NextStatement
  <2> QED BY <1>1, <1>2, <2>1, <2>2, CountsKept, NextStatementFrames DEF SafetyInv
<1>3. CASE FreeObject BY <1>1, <1>3, FreeObjectCounts, FreeObjectFrames DEF SafetyInv
<1>4. CASE Deinit BY <1>1, <1>4, DeinitCounts, DeinitFrames DEF SafetyInv
<1>5. CASE Ended \/ UNCHANGED vars BY <1>5, StillSafety DEF Ended
<1> QED BY <1>2, <1>3, <1>4, <1>5, StackSafety, ArraysSafety, CallsSafety, BuiltinsSafety
        DEF Next

LEMMA SafetyInit == Init => SafetyInv
  BY InitCounts, InitFrames DEF SafetyInv

LEMMA Safety == Spec /\ []Disciplined => []SafetyInv
  BY SafetyInit, SafetyNext, PTL DEF Spec

\* What is free or condemned is held by nothing.
LEMMA SafetyDangling == SafetyInv => NoDangling
<1> SUFFICES ASSUME SafetyInv, NEW o \in Obj, class[o] = "free" \/ o \in dying
             PROVE  Occ(stk, Slot, o) = 0 /\ Occ(cell, Cell, o) = 0
  BY DEF NoDangling
<1>1. CountsInv BY DEF SafetyInv
<1>2. (\A s \in Slot : ~Holds(stk[s], o)) /\ (\A c \in Cell : ~Holds(cell[c], o))
  <2>1. CASE o \in dying BY <1>1, <2>1, Condemned
  <2>2. CASE class[o] = "free"
    <3>1. "free" \notin Fun BY ProgramAssumption DEF ProgramAssumption
    <3>2. \A v : Agrees(class, v) => ~Holds(v, o)
      BY <2>2, <3>1 DEF Agrees, Holds
    <3> QED BY <1>1, <3>2, SlotAgrees, CellAgrees
  <2> QED BY <2>1, <2>2
<1>3. (\A s \in Slot : Count(stk[s], o) = 0) /\ (\A c \in Cell : Count(cell[c], o) = 0)
  BY <1>2 DEF Count
<1> QED BY <1>3, OccNone

\* In every script that keeps to Disciplined the count an object carries is
\* the number of stack slots and array elements that hold it, whatever the
\* order of its statements and wherever memory or the stack runs out: no
\* handler of vm.h, and none of the natives, forgets a retain or releases
\* once too often.
THEOREM CountsExact == Spec /\ []Disciplined => []RefCountExact
<1>1. SafetyInv => RefCountExact BY DEF SafetyInv, CountsInv
<1> QED BY <1>1, Safety, PTL

\* In such a script a value is only ever read as what it was made for, even
\* when the address in it has been given away and used again.
THEOREM TypesSound == Spec /\ []Disciplined => []WellTyped
<1>1. SafetyInv => WellTyped BY DEF SafetyInv, CountsInv
<1> QED BY <1>1, Safety, PTL

\* Nothing is used after it is freed, and nothing is freed twice: neither a
\* slot nor an element refers to memory that is free or condemned.
THEOREM NothingDangles == Spec /\ []Disciplined => []NoDangling
  BY Safety, SafetyDangling, PTL

\* Every frame finds the closure it runs in its bottom slot, so that RETURN
\* and TAIL_CALL release that closure and not another object.
THEOREM FramesStay == Spec /\ []Disciplined => []FramesAnchored
<1>1. SafetyInv => FramesAnchored BY DEF SafetyInv
<1> QED BY <1>1, Safety, PTL

-----------------------------------------------------------------------------
(***************************************************************************)
(* What nothing holds is reclaimed.                                        *)
(***************************************************************************)
Unused == {o \in Obj : class[o] = "free"}

\* A stage in a handler at which every object with no count left is condemned.
Tidy(m) == m \in MemType /\ Caught(m, Unused)

LEMMA StartTidy == CountsInv /\ Reclaimed => Tidy(Mem)
<1> SUFFICES ASSUME CountsInv, Reclaimed PROVE Tidy(Mem)
  OBVIOUS
<1>1. Mem \in MemType BY MemIsType DEF CountsInv
<1>2. ASSUME NEW o \in Obj, rc[o] <= 0 PROVE o \in dying \cup Unused
  <2>1. rc[o] = 0 BY <1>2, Exact
  <2> QED BY <2>1 DEF Reclaimed, Unused
<1> QED BY <1>1, <1>2 DEF Tidy, Caught, Mem

LEMMA TidyStep ==
  \A m, v : Tidy(m) => Tidy(Retain(m, v)) /\ Tidy(Release(m, v))
  BY RetainType, ReleaseType, RetainCaught, ReleaseCaught DEF Tidy

LEMMA TidyAll ==
  ASSUME NEW m, Tidy(m), NEW S, IsFiniteSet(S), NEW f
  PROVE  Tidy(RetainAll(m, f, S)) /\ Tidy(ReleaseAll(m, f, S))
  BY RetainAllType, ReleaseAllType, RetainAllCaught, ReleaseAllCaught DEF Tidy

LEMMA TidyDrop ==
  ASSUME NEW m, Tidy(m), NEW v, \A o \in Obj : Holds(v, o) => m.rc[o] >= 2
  PROVE  Tidy(Drop(m, v))
  BY DropType, DropCaught DEF Tidy

\* A handler that makes no object.
LEMMA ReclaimedStep ==
  ASSUME class' = class, NEW m, Becomes(m), Tidy(m)
  PROVE  Reclaimed'
<1>1. ASSUME NEW o \in Obj, m.rc[o] = 0 PROVE class[o] = "free" \/ o \in m.dying
  BY <1>1 DEF Tidy, Caught, Unused
<1> QED BY <1>1 DEF Reclaimed, Becomes

\* A handler that makes the object o, and leaves it in slot s.
LEMMA MadeReclaimed ==
  ASSUME CountsInv', TypeOK, NEW o \in Obj, NEW s \in Slot, Holds(stk'[s], o),
         NEW c, class' = [class EXCEPT ![o] = c],
         NEW m, Becomes(m), Tidy(m)
  PROVE  Reclaimed'
<1>1. rc'[o] = Occ(stk', Slot, o) + Occ(cell', Cell, o)
  BY DEF CountsInv, RefCountExact, Occ
<1>2. Occ(stk', Slot, o) \in Nat /\ Occ(cell', Cell, o) \in Nat
  BY SlotFinite, CellFinite, OccType
<1>3. Occ(stk', Slot, o) # 0 BY SlotFinite, OccZero
<1>4. rc'[o] # 0 BY <1>1, <1>2, <1>3
<1>5. \A x \in Obj : x # o => class'[x] = class[x] BY DEF TypeOK, HeapOK
<1>6. ASSUME NEW x \in Obj, m.rc[x] = 0 PROVE class[x] = "free" \/ x \in m.dying
  BY <1>6 DEF Tidy, Caught, Unused
<1> QED BY <1>4, <1>5, <1>6 DEF Reclaimed, Becomes

LEMMA StillReclaimed ==
  ASSUME Reclaimed, UNCHANGED <<class, rc, dying>>
  PROVE  Reclaimed'
  BY DEF Reclaimed

LEMMA FailReclaimed == ASSUME Reclaimed, Fail PROVE Reclaimed'
  BY StillReclaimed DEF Fail, heapVars

LEMMA PushReclaimed ==
  ASSUME CountsInv, Reclaimed, NEW s0, NEW v, PushValue(s0, v)
  PROVE  Reclaimed'
<1>1. CASE Becomes(Retain(Mem, v)) /\ UNCHANGED heapVars
  <2>1. Tidy(Retain(Mem, v)) BY StartTidy, TidyStep
  <2> QED BY <1>1, <2>1, ReclaimedStep DEF heapVars
<1>2. CASE UNCHANGED <<sp, heapVars, rc, dying>> BY <1>2, StillReclaimed DEF heapVars
<1> QED BY <1>1, <1>2 DEF PushValue

LEMMA StackReclaimed == ASSUME CountsInv, Reclaimed, Stack PROVE Reclaimed'
<1>1. ASSUME NEW s0, NEW v, PushValue(s0, v) PROVE Reclaimed' BY <1>1, PushReclaimed
<1>2. ASSUME NEW v, Becomes(Release(Mem, v)), UNCHANGED heapVars PROVE Reclaimed'
  <2>1. Tidy(Release(Mem, v)) BY StartTidy, TidyStep
  <2> QED BY <1>2, <2>1, ReclaimedStep DEF heapVars
<1>3. CASE Move
  <2> DEFINE m1 == Release(Mem, Local(A))
             m == Retain(m1, Local(B))
  <2>1. Tidy(m1) BY StartTidy, TidyStep
  <2>2. Becomes(m) /\ UNCHANGED heapVars BY <1>3 DEF Move
  <2> HIDE DEF m1
  <2>3. Tidy(m) BY <2>1, TidyStep
  <2> QED BY <2>2, <2>3, ReclaimedStep DEF heapVars
<1>4. CASE PushNil \/ PushInt \/ LoadGlobal \/ LoadLocal \/ FetchLocal \/ LoadLocalRef
  BY <1>1, <1>4 DEF PushNil, PushInt, LoadGlobal, LoadLocal, FetchLocal, LoadLocalRef
<1>5. CASE RefLocal BY <1>1, <1>5 DEF RefLocal, RefWith
<1>6. CASE Pop BY <1>2, <1>6 DEF Pop
<1>7. CASE StoreLocal \/ StoreLocalRef
  BY <1>2, <1>7 DEF StoreLocal, StoreLocalRef, StoreInto
<1> QED BY <1>3, <1>4, <1>5, <1>6, <1>7 DEF Stack

\* Arrays made by a handler end up where its operands were.
LEMMA CollapseReclaimed ==
  ASSUME CountsInv, CountsInv', NEW op, At(op), NEW n \in Nat, Operands(n + 1),
         NEW o \in Free, NEW k, NEW elem, Allocate(o, k, elem), Collapse(n, Array(o)),
         NEW m, Becomes(m), Tidy(m)
  PROVE  Reclaimed'
<1>1. TypeOK BY DEF CountsInv
<1>2. sp - n \in Slot
  BY <1>1, AtFacts, SlotFacts DEF Operands
<1>3. stk'[sp - n] = Array(o) BY <1>1, <1>2, SlotFacts DEF Collapse
<1>4. Holds(stk'[sp - n], o) BY <1>3 DEF Holds, Array, IsObject, ObjectType
<1>5. o \in Obj /\ class' = [class EXCEPT ![o] = "array"] BY DEF Free, Allocate
<1> QED BY <1>1, <1>2, <1>4, <1>5, MadeReclaimed

LEMMA ArraysReclaimed ==
  ASSUME CountsInv, CountsInv', Reclaimed, Thrifty, Arrays
  PROVE  Reclaimed'
<1>1. TypeOK /\ Tidy(Mem) BY StartTidy DEF CountsInv
<1>2. CASE Fail BY <1>2, FailReclaimed
<1>3. CASE NewArray
  <2> DEFINE n == A - 1
  <2>1. At("NEW_ARRAY") /\ A \in Idx /\ Operands(A) BY <1>3 DEF NewArray
  <2>2. n \in Nat /\ n + 1 = A BY <1>1, <2>1, CellFacts DEF Idx
  <2>3. ASSUME NEW o \in Free, NEW elem, Allocate(o, A, elem), Collapse(n, Array(o)),
               Becomes(Retain(Mem, Array(o)))
        PROVE  Reclaimed'
    <3>1. Operands(n + 1) BY <2>1, <2>2
    <3>2. Tidy(Retain(Mem, Array(o))) BY <1>1, TidyStep
    <3> HIDE DEF n
    <3> QED BY <2>1, <2>2, <2>3, <3>1, <3>2, CollapseReclaimed
  <2> QED BY <1>2, <1>3, <2>3 DEF NewArray
<1>4. CASE GetElement
  <2>1. \A res : Tidy(Release(Retain(Mem, res), Get(1))) BY <1>1, TidyStep
  <2>2. ASSUME NEW res, Becomes(Release(Retain(Mem, res), Get(1))), UNCHANGED heapVars
        PROVE  Reclaimed'
    BY <2>1, <2>2, ReclaimedStep DEF heapVars
  <2> QED BY <1>2, <1>4, <2>2 DEF GetElement
<1>5. CASE LoadElement \/ FetchElement
  BY <1>2, <1>5, PushReclaimed DEF LoadElement, FetchElement
<1>6. ASSUME NEW op, At(op), Operands(3), NEW val1 \in Value, val1.data \in Obj,
             NEW val2, NEW val3, WriteElement(val1, val2, val3)
      PROVE  Reclaimed'
  <2> DEFINE arr == val1.data
             i == val2.data + 1
  <2>1. CASE SetInPlace(arr, i, val3)
    <3> DEFINE m1 == Retain(Mem, val3)
               m2 == Release(m1, cell[<<arr, i>>])
               m == Release(m2, val3)
    <3>1. Tidy(m1) BY <1>1, TidyStep
    <3>2. Becomes(m) /\ class' = class BY <2>1 DEF SetInPlace
    <3> HIDE DEF m1
    <3>3. Tidy(m2) BY <3>1, TidyStep
    <3> HIDE DEF m2
    <3>4. Tidy(m) BY <3>3, TidyStep
    <3> QED BY <3>2, <3>4, ReclaimedStep
  <2>2. ASSUME NEW o \in Free, NEW elem,
               Allocate(o, len[arr], elem), Collapse(2, Array(o)),
               Becomes(Release(Release(Retain(Retain(
                         RetainAll(Mem, cell, Kept(arr, i)), val3), Array(o)), Get(2)), val3))
        PROVE  Reclaimed'
    <3> DEFINE m1 == RetainAll(Mem, cell, Kept(arr, i))
               m2 == Retain(Retain(m1, val3), Array(o))
               m == Release(Release(m2, Get(2)), val3)
    <3>1. IsFiniteSet(Kept(arr, i)) BY <1>1, <1>6, CellsFinite, FS_Subset DEF Kept
    <3>2. Tidy(m1) BY <1>1, <3>1, TidyAll
    <3>3. Becomes(m) BY <2>2
    <3> HIDE DEF m1
    <3>4. Tidy(m) BY <3>2, TidyStep
    <3>5. Operands(2 + 1) BY <1>1, <1>6, AtFacts, SlotFacts DEF Operands
    <3> HIDE DEF m
    <3> QED BY <1>6, <2>2, <3>3, <3>4, <3>5, CollapseReclaimed
  <2>3. CASE CopyAndSet(arr, i, val3) BY <1>2, <2>2, <2>3 DEF CopyAndSet
  <2> QED BY <1>6, <2>1, <2>3 DEF WriteElement
<1>7. CASE SetElement \/ UpdateElement
  <2>1. PICK op : At(op) /\ Operands(3) BY <1>7 DEF SetElement, UpdateElement
  <2>2. CASE InRange(Get(2), Get(1)) /\ WriteElement(Get(2), Get(1), Get(0))
    <3>1. Get(2) \in Value BY <1>1, <2>1, OperandFacts
    <3>2. Get(2).data \in Obj BY <2>2, <3>1, ArrayData DEF InRange
    <3> QED BY <1>6, <2>1, <2>2, <3>1, <3>2
  <2> QED BY <1>2, <1>7, <2>2 DEF SetElement, UpdateElement
<1>8. CASE UnpackElements
  <2> DEFINE n == A
             val == Get(A)
             taken == {i \in 1..n : i <= len[val.data]}
             from(i) == <<val.data, Get(n - i).data + 1>>
             f == [i \in taken |-> cell[from(i)]]
             m1 == RetainAll(Mem, f, taken)
             m == Release(m1, val)
  <2>1. At("UNPACK_ELEMENTS") BY <1>8 DEF UnpackElements
  <2>2. n \in Int /\ 1 \in Int BY <1>1, <2>1, AtFacts
  <2>3. IsFiniteSet(1..n) BY <2>2, FS_Interval
  <2>4. taken \subseteq 1..n OBVIOUS
  <2>5. IsFiniteSet(taken) BY <2>3, <2>4, FS_Subset
  <2>6. CASE Becomes(m) /\ class' = class
    <3> HIDE DEF f, taken, val
    <3>1. Tidy(m1) BY <1>1, <2>5, TidyAll
    <3> HIDE DEF m1
    <3>2. Tidy(m) BY <3>1, TidyStep
    <3> HIDE DEF m
    <3> QED BY <2>6, <3>2, ReclaimedStep
  <2> QED BY <1>2, <1>8, <2>6 DEF UnpackElements, heapVars
<1>9. CASE Eq \/ Add
  <2>1. PICK op : At(op) /\ Operands(2) BY <1>9 DEF Eq, Add
  <2>2. ASSUME NEW v, Combine(v) PROVE Reclaimed'
    <3> DEFINE m == Release(Release(Mem, Get(1)), Get(0))
    <3>1. Tidy(m) BY <1>1, TidyStep
    <3>2. Becomes(m) /\ class' = class BY <2>2 DEF Combine, heapVars
    <3> HIDE DEF m
    <3> QED BY <3>1, <3>2, ReclaimedStep
  <2>3. ASSUME NEW arr1 \in Obj, NEW arr2 \in Obj, Concat(arr1, arr2) PROVE Reclaimed'
    <3>1. ASSUME NEW o \in Free, NEW n, NEW elem,
                 Allocate(o, n, elem), Collapse(1, Array(o)),
                 Becomes(Release(Release(Retain(
                   RetainAll(RetainAll(Mem, cell, Cells(arr1)), cell, Cells(arr2)),
                   Array(o)), Get(1)), Get(0)))
          PROVE  Reclaimed'
      <4> DEFINE m1 == RetainAll(Mem, cell, Cells(arr1))
                 m2 == RetainAll(m1, cell, Cells(arr2))
                 m == Release(Release(Retain(m2, Array(o)), Get(1)), Get(0))
      <4>1. IsFiniteSet(Cells(arr1)) /\ IsFiniteSet(Cells(arr2)) BY <1>1, CellsFinite
      <4>2. Tidy(m1) BY <1>1, <4>1, TidyAll
      <4>3. Becomes(m) BY <3>1
      <4> HIDE DEF m1
      <4>4. Tidy(m2) BY <4>1, <4>2, TidyAll
      <4> HIDE DEF m2
      <4>5. Tidy(m) BY <4>4, TidyStep
      <4>6. Operands(1 + 1) BY <1>1, <2>1, AtFacts, SlotFacts DEF Operands
      <4> HIDE DEF m
      <4> QED BY <2>1, <3>1, <4>3, <4>5, <4>6, CollapseReclaimed
    <3> QED BY <1>2, <2>3, <3>1 DEF Concat
  <2>4. CASE BothAre("array") /\ Concat(Get(1).data, Get(0).data)
    <3>1. Get(1) \in Value /\ Get(0) \in Value BY <1>1, <2>1, OperandFacts
    <3>2. Get(1).data \in Obj /\ Get(0).data \in Obj BY <2>4, <3>1, ArrayData DEF BothAre
    <3> QED BY <2>3, <2>4, <3>2
  <2> QED BY <1>2, <1>9, <2>2, <2>4 DEF Eq, Add
<1>10. CASE NewEmptyArray
  <2>1. sp < MaxSlots /\ sp # MaxSlots BY <1>1, <1>10, SlotFacts DEF NewEmptyArray, Thrifty
  <2>2. ASSUME NEW o \in Free, Allocate(o, 0, <<>>),
               stk' = [stk EXCEPT ![sp + 1] = Array(o)],
               Becomes(Retain(Mem, Array(o)))
        PROVE  Reclaimed'
    <3>1. sp + 1 \in Slot /\ stk \in [Slot -> Value] BY <1>1, <2>1, SlotFacts
    <3>2. stk'[sp + 1] = Array(o) BY <2>2, <3>1
    <3>3. Holds(stk'[sp + 1], o) BY <3>2 DEF Holds, Array, IsObject, ObjectType
    <3>4. Tidy(Retain(Mem, Array(o))) BY <1>1, TidyStep
    <3>5. o \in Obj BY DEF Free
    <3>6. class' = [class EXCEPT ![o] = "array"] BY <2>2 DEF Allocate
    <3> QED BY <1>1, <2>2, <3>1, <3>3, <3>4, <3>5, <3>6, MadeReclaimed
  <2>3. CASE UNCHANGED <<stk, sp, heapVars, rc, dying, frames>>
    BY <2>3, StillReclaimed DEF heapVars
  <2> QED BY <1>10, <2>1, <2>2, <2>3 DEF NewEmptyArray
<1> QED BY <1>3, <1>4, <1>5, <1>7, <1>8, <1>9, <1>10 DEF Arrays

\* Below an Int height and at or above another lie finitely many slots.
LEMMA RangeFinite == \A p, q \in Int : IsFiniteSet(p..q)
  BY FS_Interval

LEMMA CallsReclaimed ==
  ASSUME CountsInv, CountsInv', Reclaimed, Calls
  PROVE  Reclaimed'
<1>1. TypeOK /\ Tidy(Mem) BY StartTidy DEF CountsInv
<1>2. CASE Fail BY <1>2, FailReclaimed
<1>3. \A c, k : IsFiniteSet(Extra(c, k)) BY SlotFinite, FS_Subset DEF Extra
<1>4. \A c, k : Tidy(ReleaseAll(Mem, stk, Extra(c, k))) BY <1>1, <1>3, TidyAll
<1>5. ASSUME class' = class, UNCHANGED <<rc, dying>> PROVE Reclaimed'
  BY <1>5, StillReclaimed
<1>6. CASE NewClosure
  <2>1. ASSUME sp < MaxSlots, NEW o \in Free, class' = [class EXCEPT ![o] = A],
               stk' = [stk EXCEPT ![sp + 1] = Closure(o)],
               Becomes(Retain(Mem, Closure(o)))
        PROVE  Reclaimed'
    <3>1. sp + 1 \in Slot /\ stk \in [Slot -> Value] BY <1>1, <2>1, SlotFacts
    <3>2. stk'[sp + 1] = Closure(o) BY <2>1, <3>1
    <3>3. Holds(stk'[sp + 1], o) BY <3>2 DEF Holds, Closure, IsObject, ObjectType
    <3>4. Tidy(Retain(Mem, Closure(o))) BY <1>1, TidyStep
    <3>5. o \in Obj BY DEF Free
    <3> QED BY <1>1, <2>1, <3>1, <3>3, <3>4, <3>5, MadeReclaimed
  <2> QED BY <1>2, <1>6, <2>1 DEF NewClosure
<1>7. CASE Call
  <2>1. ASSUME NEW c, NEW k, class' = class, Becomes(ReleaseAll(Mem, stk, Extra(c, k)))
        PROVE  Reclaimed'
    BY <1>4, <2>1, ReclaimedStep
  <2> QED BY <1>2, <1>7, <2>1 DEF Call, heapVars
<1>8. CASE TailCall
  <2>1. ASSUME NEW c, NEW k, class' = class, Becomes(ReleaseAll(Mem, stk, Extra(c, k)))
        PROVE  Reclaimed'
    BY <1>4, <2>1, ReclaimedStep
  <2>2. ASSUME NEW c, NEW f \in Fun, class' = class,
               Becomes(ReleaseAll(Release(ReleaseAll(Mem, stk, Extra(c, Arity[f])),
                                          Closure(Top.cl)),
                                  Adjusted(c, Arity[f]), Overwritten(Top.base, Arity[f])))
        PROVE  Reclaimed'
    <3> DEFINE k == Arity[f]
               m1 == ReleaseAll(Mem, stk, Extra(c, k))
               m2 == Release(m1, Closure(Top.cl))
               args == Adjusted(c, k)
               S == Overwritten(Top.base, k)
               m == ReleaseAll(m2, args, S)
    <3>1. k \in Nat BY ProgramAssumption DEF ProgramAssumption
    <3>2. Top.base \in Int
      <4>1. At("TAIL_CALL") BY <1>8 DEF TailCall
      <4>2. Top \in Frame BY <1>1, <4>1, AtFacts
      <4> QED BY <4>2 DEF Frame
    <3>3. IsFiniteSet(S) BY <3>1, <3>2, RangeFinite DEF Overwritten
    <3>4. Tidy(m1) BY <1>4
    <3>5. Becomes(m) BY <2>2
    <3> HIDE DEF m1
    <3>6. Tidy(m2) BY <3>4, TidyStep
    <3> HIDE DEF m2, S, args
    <3>7. Tidy(m) BY <3>3, <3>6, TidyAll
    <3> HIDE DEF m
    <3> QED BY <2>2, <3>5, <3>7, ReclaimedStep
  <2> QED BY <1>2, <1>5, <1>8, <2>1, <2>2 DEF TailCall, IsCallable, heapVars
<1>9. ASSUME NEW op, At(op), NEW h \in Int, NEW res, class' = class, Return(stk, h, Mem, res)
      PROVE  Reclaimed'
  <2> DEFINE S == (Top.base + 1)..(h - 1)
             m1 == Release(Mem, Closure(Top.cl))
             m == ReleaseAll(m1, stk, S)
  <2>1. Top.base \in Int BY <1>1, <1>9, AtFacts
  <2>2. IsFiniteSet(S) BY <1>9, <2>1, RangeFinite
  <2>3. Becomes(m) BY <1>9 DEF Return, ReturnReleasing
  <2>4. Tidy(m1) BY <1>1, TidyStep
  <2> HIDE DEF m1, S
  <2>5. Tidy(m) BY <2>2, <2>4, TidyAll
  <2> HIDE DEF m
  <2> QED BY <1>9, <2>3, <2>5, ReclaimedStep
<1>10. CASE ReturnTop \/ ReturnNil
  <2>1. sp \in Int /\ sp + 1 \in Int BY <1>1, SlotFacts
  <2> QED BY <1>2, <1>9, <1>10, <2>1 DEF ReturnTop, ReturnNil, heapVars
<1> QED BY <1>6, <1>7, <1>8, <1>10 DEF Calls

\* rak_fiber_return with an object o that the native has made: it ends up in
\* the slot of the closure.
LEMMA ReturnTidy ==
  ASSUME TypeOK, NEW op, At(op), NEW s0, NEW m, Tidy(m), NEW res, ReturnValue(s0, m, res)
  PROVE  /\ \E m2 : Tidy(m2) /\ Becomes(m2)
         /\ sp < MaxSlots => stk'[Top.base] = res
         /\ sp = MaxSlots => stk' = s0
         /\ sp < MaxSlots \/ sp = MaxSlots
<1>1. /\ Top.base \in Int /\ Top.base \in Slot /\ sp \in Int /\ Slot = 0..MaxSlots
      /\ MaxSlots \in Nat /\ (sp < MaxSlots => sp # MaxSlots)
  BY AtFacts, SlotFacts
<1>2. CASE sp < MaxSlots /\ Return(s0, sp + 1, Retain(m, res), res)
  <2> DEFINE S == (Top.base + 1)..(sp + 1 - 1)
             m1 == Release(Retain(m, res), Closure(Top.cl))
             m2 == ReleaseAll(m1, s0, S)
  <2>1. IsFiniteSet(S) BY <1>1, RangeFinite
  <2>2. Becomes(m2) /\ stk'[Top.base] = res BY <1>1, <1>2 DEF Return, ReturnReleasing
  <2>3. Tidy(m1) BY TidyStep
  <2> HIDE DEF m1, S
  <2>4. Tidy(m2) BY <2>1, <2>3, TidyAll
  <2> HIDE DEF m2
  <2> QED BY <1>1, <1>2, <2>2, <2>4
<1>3. CASE sp = MaxSlots /\ stk' = s0 /\ Becomes(m) BY <1>1, <1>3
<1> QED BY <1>2, <1>3 DEF ReturnValue

LEMMA BuiltinsReclaimed ==
  ASSUME CountsInv, CountsInv', Reclaimed, Thrifty, Builtins
  PROVE  Reclaimed'
<1>1. TypeOK /\ Tidy(Mem) BY StartTidy DEF CountsInv
<1>2. CASE Fail BY <1>2, FailReclaimed
<1>3. PICK op : At(op) BY DEF Builtins, AppendNative, ArrayNative, LenNative
<1>4. Top.base \in Slot BY <1>1, <1>3, AtFacts, SlotFacts
<1>5. ASSUME NEW s0, NEW m, Tidy(m), NEW res, ReturnValue(s0, m, res), class' = class
      PROVE  Reclaimed'
  BY <1>1, <1>3, <1>5, ReturnTidy, ReclaimedStep
\* A new array in the slot of the closure, or in slot t when the stack is full.
<1>6. ASSUME NEW s0, NEW m, Tidy(m), NEW o \in Free, class' = [class EXCEPT ![o] = "array"],
             ReturnValue(s0, m, Array(o)),
             sp < MaxSlots \/ \E t \in Slot : s0[t] = Array(o)
      PROVE  Reclaimed'
  <2>1. PICK m2 : Tidy(m2) /\ Becomes(m2) BY <1>1, <1>3, <1>6, ReturnTidy
  <2>2. \E s \in Slot : stk'[s] = Array(o)
    <3>1. CASE sp < MaxSlots BY <1>1, <1>3, <1>4, <1>6, <3>1, ReturnTidy
    <3>2. CASE ~(sp < MaxSlots)
      <4>1. stk' = s0 BY <1>1, <1>3, <1>6, <3>2, ReturnTidy
      <4> QED BY <1>6, <3>2, <4>1
    <3> QED BY <3>1, <3>2
  <2>3. PICK s \in Slot : stk'[s] = Array(o) BY <2>2
  <2>4. Holds(stk'[s], o) BY <2>3 DEF Holds, Array, IsObject, ObjectType
  <2>5. o \in Obj BY DEF Free
  <2> QED BY <1>1, <1>6, <2>1, <2>4, <2>5, MadeReclaimed
<1>7. CASE LenNative BY <1>1, <1>2, <1>5, <1>7 DEF LenNative, heapVars
<1>8. CASE ArrayNative
  <2>1. sp < MaxSlots BY <1>8 DEF ArrayNative, Thrifty
  <2>2. ASSUME NEW n, Fill(n) PROVE Reclaimed'
    BY <1>1, <1>2, <1>6, <2>1, <2>2 DEF Fill, Allocate
  <2> QED BY <1>2, <1>8, <2>2 DEF ArrayNative
<1>9. CASE AppendNative
  <2> DEFINE t == Local(1).data
             arr == stk[t].data
             n == len[arr]
             val2 == Local(2)
  <2>1. CASE IsLocalRef(1) /\ stk[t].type = "array" /\ AppendTo(t, arr, val2)
    <3>1. t \in Slot /\ stk[t] \in Value BY <1>1, <2>1, SlotFacts DEF IsLocalRef
    <3>2. arr \in Obj BY <2>1, <3>1, ArrayData
    <3>3. stk[t].shared => rc[arr] > 1
      BY <1>9, <2>1 DEF AppendNative, Thrifty
    <3> HIDE DEF t, val2
    <3>4. ASSUME stk[t].shared, NEW o \in Free, NEW elem, Allocate(o, n + 1, elem),
                 ReturnValue([stk EXCEPT ![t] = Array(o)],
                   Drop(Retain(Retain(RetainAll(Mem, cell, Cells(arr)), val2), Array(o)),
                        stk[t]), Array(o))
          PROVE  Reclaimed'
      <4> DEFINE m0 == RetainAll(Mem, cell, Cells(arr))
                 m1 == Retain(m0, val2)
                 m2 == Retain(m1, Array(o))
                 m == Drop(m2, stk[t])
                 s0 == [stk EXCEPT ![t] = Array(o)]
      <4>1. IsFiniteSet(Cells(arr)) BY <1>1, <3>2, CellsFinite
      <4>2. Tidy(m0) BY <1>1, <4>1, TidyAll
      <4>3. m0.rc[arr] >= 2
        <5>1. Mem.rc[arr] = rc[arr] /\ rc[arr] \in Int BY <1>1, <3>2 DEF Mem, TypeOK, CountsOK
        <5>2. Occ(cell, Cells(arr), arr) \in Nat BY <4>1, OccType
        <5>3. m0.rc[arr] = Mem.rc[arr] + Occ(cell, Cells(arr), arr) BY <3>2, RetainAllCount
        <5> HIDE DEF m0, arr
        <5> QED BY <3>3, <3>4, <5>1, <5>2, <5>3
      <4>4. ReturnValue(s0, m, Array(o)) BY <3>4
      <4> HIDE DEF m0
      <4>5. Tidy(m1) BY <4>2, TidyStep
      <4>6. m1.rc[arr] >= 2
        <5>1. m1.rc[arr] = m0.rc[arr] + Count(val2, arr) BY <3>2, <4>2, RetainCount DEF Tidy
        <5>2. Count(val2, arr) \in {0, 1} /\ m0.rc[arr] \in Int
          BY <3>2, <4>2, CountType DEF Tidy, MemType
        <5> QED BY <4>3, <5>1, <5>2
      <4> HIDE DEF m1
      <4>7. Tidy(m2) BY <4>5, TidyStep
      <4>8. m2.rc[arr] >= 2
        <5>1. m2.rc[arr] = m1.rc[arr] + Count(Array(o), arr)
          BY <3>2, <4>5, RetainCount DEF Tidy
        <5>2. Count(Array(o), arr) \in {0, 1} /\ m1.rc[arr] \in Int
          BY <3>2, <4>5, CountType DEF Tidy, MemType
        <5> QED BY <4>6, <5>1, <5>2
      <4> HIDE DEF m2
      <4>9. \A x \in Obj : Holds(stk[t], x) => m2.rc[x] >= 2 BY <4>8 DEF Holds
      <4>10. Tidy(m) BY <4>7, <4>9, TidyDrop
      <4>11. s0[t] = Array(o) BY <1>1, <3>1, SlotFacts
      <4>12. class' = [class EXCEPT ![o] = "array"] BY <3>4 DEF Allocate
      <4> HIDE DEF m, s0
      <4> QED BY <1>6, <3>1, <4>4, <4>10, <4>11, <4>12
    <3>5. ASSUME class' = class, ReturnValue(stk, Retain(Mem, val2), stk[t])
          PROVE  Reclaimed'
      <4>1. Tidy(Retain(Mem, val2)) BY <1>1, TidyStep
      <4> QED BY <1>5, <3>5, <4>1
    <3> QED BY <1>2, <2>1, <3>4, <3>5 DEF AppendTo
  <2> QED BY <1>2, <1>9, <2>1 DEF AppendNative
<1> QED BY <1>7, <1>8, <1>9 DEF Builtins

LEMMA FreeObjectReclaimed ==
  ASSUME CountsInv, Reclaimed, FreeObject
  PROVE  Reclaimed'
<1>1. TypeOK /\ Tidy(Mem) BY StartTidy DEF CountsInv
<1>2. PICK o \in dying :
        /\ Becomes(ReleaseAll([rc |-> rc, dying |-> dying \ {o}], cell, Cells(o)))
        /\ class' = [class EXCEPT ![o] = "free"]
  BY DEF FreeObject
<1> DEFINE U == Unused \cup {o}
           m0 == [rc |-> rc, dying |-> dying \ {o}]
           m == ReleaseAll(m0, cell, Cells(o))
<1>3. o \in Obj BY <1>1 DEF TypeOK, CountsOK
<1>4. m0 \in MemType /\ Caught(m0, U) BY <1>1 DEF Tidy, Caught, Mem, MemType
<1>5. IsFiniteSet(Cells(o)) BY <1>1, <1>3, CellsFinite
<1> HIDE DEF m0, U
<1>6. Caught(m, U) BY <1>4, <1>5, ReleaseAllCaught
<1>7. Becomes(m) BY <1>2 DEF m0
<1>8. \A x \in Obj : x \in U => class'[x] = "free"
  BY <1>1, <1>2, <1>3 DEF U, Unused, TypeOK, HeapOK
<1> HIDE DEF m
<1>9. ASSUME NEW x \in Obj, m.rc[x] = 0 PROVE class'[x] = "free" \/ x \in m.dying
  BY <1>6, <1>8, <1>9 DEF Caught
<1> QED BY <1>7, <1>9 DEF Reclaimed, Becomes

LEMMA DeinitReclaimed == ASSUME CountsInv, Reclaimed, Deinit PROVE Reclaimed'
<1> DEFINE S == 0..sp
           m == ReleaseAll(Mem, stk, S)
<1>1. TypeOK /\ Tidy(Mem) BY StartTidy DEF CountsInv
<1>2. IsFiniteSet(S) BY <1>1, SlotFacts, RangeFinite
<1>3. Becomes(m) /\ class' = class BY DEF Deinit, heapVars
<1> HIDE DEF S
<1>4. Tidy(m) BY <1>1, <1>2, TidyAll
<1> HIDE DEF m
<1> QED BY <1>3, <1>4, ReclaimedStep

LEMMA InitReclaimed == Init => Reclaimed
  BY DEF Init, Reclaimed

LEMMA ReclaimedNext ==
  SafetyInv /\ Reclaimed /\ Disciplined /\ Thrifty /\ [Next]_vars => Reclaimed'
<1> SUFFICES ASSUME SafetyInv, Reclaimed, Disciplined, Thrifty, [Next]_vars
             PROVE  Reclaimed'
  OBVIOUS
<1>1. CountsInv /\ CountsInv' BY SafetyNext DEF SafetyInv
<1>2. CASE NextStatement BY <1>2, StillReclaimed DEF NextStatement, heapVars
<1>3. CASE Ended \/ UNCHANGED vars BY <1>3, StillReclaimed DEF Ended, vars
<1> QED BY <1>1, <1>2, <1>3, StackReclaimed, ArraysReclaimed, CallsReclaimed,
           BuiltinsReclaimed, FreeObjectReclaimed, DeinitReclaimed
        DEF Next

\* An object is condemned in the step that takes its last holder away, and a
\* fresh one is held by the step that makes it, also by a step that fails: none
\* is left behind with no count to free it by.  This is not so of every script:
\* Thrifty names the three places where a handler of this machine does leave one
\* behind, which are append() on an array still flagged as shared when nothing
\* else holds it, array() on a full stack, and the literal [] on a full stack.
THEOREM NothingForgotten == Spec /\ []Disciplined /\ []Thrifty => []Reclaimed
  BY SafetyInit, SafetyNext, InitReclaimed, ReclaimedNext, PTL DEF Spec
==============================================================================
