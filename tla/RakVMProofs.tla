----------------------------- MODULE RakVMProofs -----------------------------
(***************************************************************************)
(* Proofs about RakVM: every state of every script is well typed.          *)
(***************************************************************************)
EXTENDS RakVM, RakCounting

-----------------------------------------------------------------------------
(***************************************************************************)
(* The locations are finitely many.                                        *)
(***************************************************************************)
LEMMA CellFinite == IsFiniteSet(Cell)
<1>1. IsFiniteSet(Obj) BY ObjAssumption DEF ObjAssumption
<1>2. IsFiniteSet(Idx) BY FS_Interval, BoundAssumption DEF Idx, BoundAssumption
<1> QED BY <1>1, <1>2, FS_Product DEF Cell

LEMMA SlotFinite == IsFiniteSet(Slot)
  BY FS_Interval, BoundAssumption DEF Slot, BoundAssumption

-----------------------------------------------------------------------------
(***************************************************************************)
(* The instruction at hand.                                                *)
(***************************************************************************)
LEMMA AtFacts ==
  ASSUME TypeOK, NEW op, At(op)
  PROVE  /\ Len(frames) \in Nat /\ Len(frames) >= 1
         /\ Top \in Frame
         /\ Top.base \in 1..MaxSlots
         /\ Head(Top.code) \in Instr /\ Tail(Top.code) \in Seq(Instr)
         /\ op # "NEW_CLOSURE" => A \in Nat
         /\ op = "NEW_CLOSURE" => A \in Fun
         /\ B \in Nat
         /\ status = "running"
         /\ stk[0] = Array(GlobalsObj)
<1>1. frames \in Seq(Frame) /\ frames # <<>>
  BY DEF TypeOK, ControlOK, At
<1>2. Len(frames) \in Nat /\ Len(frames) >= 1 /\ Top \in Frame
  BY <1>1 DEF Top
<1>3. Top.base \in 1..MaxSlots /\ Top.code \in Seq(Instr)
  BY <1>2 DEF Frame
<1>4. Head(Top.code) \in Instr /\ Tail(Top.code) \in Seq(Instr)
  BY <1>3 DEF At
<1>5. Head(Top.code).op = op BY DEF At
<1>6. Head(Top.code) \in [op : STRING, a : IF op = "NEW_CLOSURE" THEN Fun ELSE Nat,
                          b : Nat]
  BY <1>4, <1>5, ProgramAssumption DEF ProgramAssumption
<1>7. status = "running" BY DEF At
<1>8. stk[0] = Array(GlobalsObj) BY <1>7 DEF TypeOK, StackOK
<1> QED BY <1>2, <1>3, <1>4, <1>6, <1>7, <1>8 DEF A, B

LEMMA FrameCodeType ==
  ASSUME NEW fr \in Frame, NEW t \in Seq(Instr)
  PROVE  [fr EXCEPT !.code = t] \in Frame
  BY DEF Frame

LEMMA AdvanceType ==
  ASSUME TypeOK, NEW op, At(op), Advance
  PROVE  frames' \in Seq(Frame)
<1>1. frames \in Seq(Frame) /\ frames # <<>> BY DEF TypeOK, ControlOK, At
<1>2. Tail(Top.code) \in Seq(Instr) BY AtFacts
<1>3. [frames[Len(frames)] EXCEPT !.code = Tail(@)] \in Frame
  BY <1>1, <1>2, FrameCodeType, AtFacts DEF Top
<1> QED BY <1>1, <1>3 DEF Advance

\* What every handler leaves of the control state.
LEMMA ContinueType ==
  ASSUME TypeOK, NEW op, At(op), Continue
  PROVE  ControlOK' /\ status' = "running"
  BY AdvanceType DEF Continue, ControlOK, TypeOK, At

LEMMA RaiseType ==
  ASSUME TypeOK, NEW op, At(op), Raise
  PROVE  ControlOK' /\ status' = "error"
  BY DEF Raise, ControlOK, TypeOK, At

LEMMA FailType ==
  ASSUME TypeOK, NEW op, At(op), Fail
  PROVE  TypeOK'
<1>1. ControlOK' /\ status' = "error" BY RaiseType DEF Fail
<1>2. stk[0] = Array(GlobalsObj) BY AtFacts
<1> QED BY <1>1, <1>2 DEF Fail, TypeOK, StackOK, HeapOK, CountsOK, heapVars

LEMMA BecomesType ==
  ASSUME NEW m \in MemType, Becomes(m)
  PROVE  CountsOK'
  BY DEF MemType, Becomes, CountsOK

LEMMA MemIsType == ASSUME TypeOK PROVE Mem \in MemType
  BY DEF TypeOK, CountsOK, Mem, MemType

\* A handler that goes on and leaves the heap alone.
LEMMA StackStepType ==
  ASSUME TypeOK, NEW op, At(op), Continue, UNCHANGED heapVars,
         NEW m \in MemType, Becomes(m),
         stk' \in [Slot -> Value], sp' \in Slot,
         \A s \in Slot : s > sp' => stk'[s] = Nil,
         stk'[0] = stk[0]
  PROVE  TypeOK'
<1>1. ControlOK' BY ContinueType
<1>2. CountsOK' BY BecomesType
<1>3. HeapOK' BY DEF TypeOK, HeapOK, heapVars
<1>4. stk[0] = Array(GlobalsObj) BY AtFacts
<1> QED BY <1>1, <1>2, <1>3, <1>4 DEF TypeOK, StackOK

LEMMA ScalarType_ == Nil \in Value /\ \A n \in Nat : Bool(n) \in Value /\ Number(n) \in Value
                                          /\ RefTo(n) \in Value
  BY DEF Nil, Bool, Number, RefTo, Value, ScalarType

LEMMA ObjectType_ == \A o \in Obj : Array(o) \in Value /\ Closure(o) \in Value
  BY DEF Array, Closure, Value, ObjectType

LEMMA AsSharedType == ASSUME NEW v \in Value PROVE AsShared(v) \in Value
  BY DEF AsShared, Value, ScalarType, ObjectType

LEMMA FlaggedType == ASSUME NEW v \in Value PROVE Flagged(v) \in Value
  BY AsSharedType DEF Flagged

\* rak_fiber_push_value
LEMMA PushValueType ==
  ASSUME TypeOK, NEW op, At(op),
         NEW v \in Value,
         NEW s0 \in [Slot -> Value], s0[0] = stk[0],
         \A s \in Slot : s > sp => s0[s] = Nil,
         PushValue(s0, v)
  PROVE  TypeOK'
<1>1. sp \in Slot /\ MaxSlots \in Nat BY BoundAssumption DEF TypeOK, StackOK, BoundAssumption
<1>2. CASE /\ sp < MaxSlots
           /\ stk' = [s0 EXCEPT ![sp + 1] = v]
           /\ sp' = sp + 1
           /\ Becomes(Retain(Mem, v))
           /\ Continue
           /\ UNCHANGED heapVars
  <2>1. sp' \in Slot BY <1>1, <1>2 DEF Slot
  <2>2. stk' \in [Slot -> Value] /\ stk'[0] = stk[0] BY <1>1, <1>2, <2>1 DEF Slot
  <2>3. \A s \in Slot : s > sp' => stk'[s] = Nil BY <1>1, <1>2 DEF Slot
  <2>4. Retain(Mem, v) \in MemType BY MemIsType, RetainType
  <2> QED BY <1>2, <2>1, <2>2, <2>3, <2>4, StackStepType
<1>3. CASE /\ sp = MaxSlots
           /\ stk' = s0
           /\ Raise
           /\ UNCHANGED <<sp, heapVars, rc, dying>>
  <2>1. ControlOK' /\ status' = "error" BY <1>3, RaiseType
  <2>2. stk'[0] = Array(GlobalsObj) BY <1>3, AtFacts
  <2> QED BY <1>3, <2>1, <2>2 DEF TypeOK, StackOK, HeapOK, CountsOK, heapVars
<1> QED BY <1>2, <1>3 DEF PushValue

-----------------------------------------------------------------------------
(***************************************************************************)
(* Types: pushing and popping.                                             *)
(***************************************************************************)
LEMMA SlotFacts ==
  ASSUME TypeOK
  PROVE  /\ MaxSlots \in Nat /\ MaxSlots >= 1 /\ Slot = 0..MaxSlots
         /\ sp \in 0..MaxSlots
         /\ stk \in [Slot -> Value]
         /\ \A s \in Slot : s > sp => stk[s] = Nil
  BY BoundAssumption DEF TypeOK, StackOK, BoundAssumption, Slot

LEMMA CellFacts ==
  ASSUME TypeOK
  PROVE  /\ MaxLen \in Nat /\ MaxLen >= 1
         /\ cell \in [Cell -> Value]
         /\ len \in [Obj -> 0..MaxLen]
         /\ \A o \in Obj : \A i \in 1..len[o] : <<o, i>> \in Cell /\ cell[<<o, i>>] \in Value
  BY BoundAssumption DEF TypeOK, HeapOK, BoundAssumption, Cell, Idx

LEMMA LocalType ==
  ASSUME TypeOK, NEW op, At(op), NEW i \in Nat, IsLocal(i)
  PROVE  Top.base + i \in 1..sp /\ Top.base + i \in Slot /\ Local(i) \in Value
  BY SlotFacts, AtFacts DEF IsLocal, Local

LEMMA PushStk ==
  ASSUME TypeOK, NEW op, At(op), NEW v \in Value, PushValue(stk, v)
  PROVE  TypeOK'
  BY SlotFacts, PushValueType

LEMMA PushNilType == TypeOK /\ PushNil => TypeOK'
  BY PushStk, ScalarType_ DEF PushNil

LEMMA PushIntType == TypeOK /\ PushInt => TypeOK'
<1> SUFFICES ASSUME TypeOK, PushInt PROVE TypeOK'
  OBVIOUS
<1>1. A \in Nat BY AtFacts DEF PushInt
<1> QED BY <1>1, PushStk, ScalarType_ DEF PushInt

LEMMA LoadGlobalType == TypeOK /\ LoadGlobal => TypeOK'
<1> SUFFICES ASSUME TypeOK, LoadGlobal PROVE TypeOK'
  OBVIOUS
<1>1. At("LOAD_GLOBAL") BY DEF LoadGlobal
<1>2. stk[0].data = GlobalsObj /\ GlobalsObj \in Obj
  BY <1>1, AtFacts, MainAssumption DEF Array, MainAssumption
<1>3. cell[<<stk[0].data, A>>] \in Value BY <1>2, CellFacts DEF LoadGlobal
<1> QED BY <1>1, <1>3, PushStk DEF LoadGlobal

LEMMA LoadLocalType == TypeOK /\ LoadLocal => TypeOK'
<1> SUFFICES ASSUME TypeOK, LoadLocal PROVE TypeOK'
  OBVIOUS
<1>1. At("LOAD_LOCAL") /\ IsLocal(A) BY DEF LoadLocal
<1>2. Local(A) \in Value BY <1>1, AtFacts, LocalType
<1> QED BY <1>1, <1>2, PushStk DEF LoadLocal

LEMMA FetchLocalType == TypeOK /\ FetchLocal => TypeOK'
<1> SUFFICES ASSUME TypeOK, FetchLocal PROVE TypeOK'
  OBVIOUS
<1>1. At("FETCH_LOCAL") /\ IsLocal(A) BY DEF FetchLocal
<1>2. Flagged(Local(A)) \in Value BY <1>1, AtFacts, LocalType, FlaggedType
<1> QED BY <1>1, <1>2, PushStk DEF FetchLocal

LEMMA RefLocalType == TypeOK /\ RefLocal => TypeOK'
<1> SUFFICES ASSUME TypeOK, RefLocal PROVE TypeOK'
  OBVIOUS
<1> DEFINE s0 == [stk EXCEPT ![Top.base + A] = Flagged(Local(A))]
<1>1. At("REF_LOCAL") /\ IsLocal(A) /\ PushValue(s0, RefTo(Top.base + A))
  BY DEF RefLocal, RefWith
<1>2. A \in Nat /\ Top.base \in Nat BY <1>1, AtFacts
<1>3. Top.base + A \in 1..sp /\ Flagged(Local(A)) \in Value
  BY <1>1, <1>2, LocalType, FlaggedType
<1>4. s0 \in [Slot -> Value] /\ s0[0] = stk[0] /\ \A s \in Slot : s > sp => s0[s] = Nil
  BY <1>3, SlotFacts
<1>5. RefTo(Top.base + A) \in Value BY <1>2, ScalarType_
<1> QED BY <1>1, <1>4, <1>5, PushValueType

LEMMA LoadLocalRefType == TypeOK /\ LoadLocalRef => TypeOK'
<1> SUFFICES ASSUME TypeOK, LoadLocalRef PROVE TypeOK'
  OBVIOUS
<1>1. At("LOAD_LOCAL_REF") /\ IsLocalRef(A) BY DEF LoadLocalRef
<1>2. stk[Local(A).data] \in Value BY <1>1, SlotFacts DEF IsLocalRef
<1> QED BY <1>1, <1>2, PushStk DEF LoadLocalRef

LEMMA PopType == TypeOK /\ Pop => TypeOK'
<1> SUFFICES ASSUME TypeOK, Pop PROVE TypeOK'
  OBVIOUS
<1>1. At("POP") /\ Top.base + 1 <= sp BY DEF Pop, Operands
<1>2. sp >= 2 BY <1>1, AtFacts, SlotFacts
<1>3. sp' = sp - 1 /\ stk' = [stk EXCEPT ![sp] = Nil] BY DEF Pop
<1>4. sp' \in Slot /\ stk' \in [Slot -> Value] /\ stk'[0] = stk[0]
  BY <1>2, <1>3, SlotFacts, ScalarType_
<1>5. \A s \in Slot : s > sp' => stk'[s] = Nil BY <1>2, <1>3, SlotFacts
<1>6. Release(Mem, Get(0)) \in MemType BY MemIsType, ReleaseType
<1> QED BY <1>1, <1>4, <1>5, <1>6, StackStepType DEF Pop

LEMMA StoreIntoType ==
  ASSUME TypeOK, NEW op, At(op), NEW t \in Nat, t >= 1, StoreInto(t)
  PROVE  TypeOK'
<1>1. t < sp /\ sp' = sp - 1 /\ stk' = [stk EXCEPT ![t] = Get(0), ![sp] = Nil]
  BY DEF StoreInto
<1>2. Get(0) \in Value BY SlotFacts DEF Get
<1>3. sp' \in Slot /\ stk' \in [Slot -> Value] /\ stk'[0] = stk[0]
  BY <1>1, <1>2, SlotFacts, ScalarType_
<1>4. \A s \in Slot : s > sp' => stk'[s] = Nil BY <1>1, SlotFacts
<1>5. Release(Mem, stk[t]) \in MemType BY MemIsType, ReleaseType
<1> QED BY <1>3, <1>4, <1>5, StackStepType DEF StoreInto

LEMMA StoreLocalType == TypeOK /\ StoreLocal => TypeOK'
<1> SUFFICES ASSUME TypeOK, StoreLocal PROVE TypeOK'
  OBVIOUS
<1>1. At("STORE_LOCAL") BY DEF StoreLocal
<1>2. Top.base + A \in Nat /\ Top.base + A >= 1 BY <1>1, AtFacts
<1> QED BY <1>1, <1>2, StoreIntoType DEF StoreLocal

LEMMA StoreLocalRefType == TypeOK /\ StoreLocalRef => TypeOK'
<1> SUFFICES ASSUME TypeOK, StoreLocalRef PROVE TypeOK'
  OBVIOUS
<1>1. At("STORE_LOCAL_REF") /\ IsLocalRef(A) BY DEF StoreLocalRef
<1>2. Local(A).data \in Nat /\ Local(A).data >= 1 BY <1>1, SlotFacts DEF IsLocalRef
<1> QED BY <1>1, <1>2, StoreIntoType DEF StoreLocalRef

LEMMA MoveType == TypeOK /\ Move => TypeOK'
<1> SUFFICES ASSUME TypeOK, Move PROVE TypeOK'
  OBVIOUS
<1>1. At("MOVE") /\ IsLocal(A) /\ IsLocal(B) BY DEF Move
<1>2. Top.base + A \in 1..sp /\ Local(B) \in Value BY <1>1, AtFacts, LocalType
<1>3. stk' = [stk EXCEPT ![Top.base + A] = Local(B)] /\ sp' = sp BY DEF Move
<1>4. sp' \in Slot /\ stk' \in [Slot -> Value] /\ stk'[0] = stk[0]
  BY <1>2, <1>3, SlotFacts
<1>5. \A s \in Slot : s > sp' => stk'[s] = Nil BY <1>2, <1>3, SlotFacts
<1>6. Retain(Release(Mem, Local(A)), Local(B)) \in MemType
  BY MemIsType, ReleaseType, RetainType
<1> QED BY <1>1, <1>4, <1>5, <1>6, StackStepType DEF Move

-----------------------------------------------------------------------------
(***************************************************************************)
(* Types: arrays and operators.                                            *)
(***************************************************************************)
\* A handler that goes on and may have changed the heap.
LEMMA HeapStepType ==
  ASSUME TypeOK, NEW op, At(op), Continue, HeapOK',
         NEW m \in MemType, Becomes(m),
         stk' \in [Slot -> Value], sp' \in Slot,
         \A s \in Slot : s > sp' => stk'[s] = Nil,
         stk'[0] = stk[0]
  PROVE  TypeOK'
<1>1. ControlOK' BY ContinueType
<1>2. CountsOK' BY BecomesType
<1>3. stk[0] = Array(GlobalsObj) BY AtFacts
<1> QED BY <1>1, <1>2, <1>3 DEF TypeOK, StackOK

LEMMA CollapseType ==
  ASSUME TypeOK, NEW n \in Nat, sp - n >= 1, NEW v \in Value, Collapse(n, v)
  PROVE  /\ stk' \in [Slot -> Value] /\ sp' \in Slot
         /\ \A s \in Slot : s > sp' => stk'[s] = Nil
         /\ stk'[0] = stk[0]
<1>1. sp - n \in Slot BY SlotFacts
<1>2. /\ stk' = [s \in Slot |-> IF s < sp - n THEN stk[s]
                                ELSE IF s = sp - n THEN v ELSE Nil]
      /\ sp' = sp - n
  BY DEF Collapse
<1> QED BY <1>1, <1>2, SlotFacts, ScalarType_

LEMMA AllocateType ==
  ASSUME TypeOK, NEW o \in Obj, NEW n \in 0..MaxLen, NEW elem,
         \A i \in 1..n : elem[i] \in Value,
         Allocate(o, n, elem)
  PROVE  HeapOK'
<1>1. class' \in [Obj -> {"free", "array"} \cup Fun] BY DEF Allocate, TypeOK, HeapOK
<1>2. len' \in [Obj -> 0..MaxLen] BY DEF Allocate, TypeOK, HeapOK
<1>3. cell' = [c \in Cell |-> IF c[1] # o THEN cell[c]
                              ELSE IF c[2] <= n THEN elem[c[2]] ELSE Nil]
  BY DEF Allocate
<1>4. \A c \in Cell : c[1] \in Obj /\ c[2] \in 1..MaxLen BY DEF Cell, Idx
<1>5. \A c \in Cell : c[2] <= n => elem[c[2]] \in Value BY <1>4, CellFacts
<1>6. cell' \in [Cell -> Value] BY <1>3, <1>5, CellFacts, ScalarType_
<1>7. ASSUME NEW c \in Cell, c[2] > len'[c[1]] PROVE cell'[c] = Nil
  <2>1. CASE c[1] = o
    <3>1. len'[o] = n BY DEF Allocate, TypeOK, HeapOK
    <3> QED BY <2>1, <3>1, <1>3, <1>4, <1>7, CellFacts
  <2>2. CASE c[1] # o
    <3>1. len'[c[1]] = len[c[1]] BY <2>2, <1>4 DEF Allocate, TypeOK, HeapOK
    <3> QED BY <2>2, <3>1, <1>3, <1>7 DEF TypeOK, HeapOK
  <2> QED BY <2>1, <2>2
<1> QED BY <1>1, <1>2, <1>6, <1>7 DEF HeapOK

LEMMA FreeFacts == Free \subseteq Obj
  BY DEF Free

LEMMA CellsFinite ==
  ASSUME TypeOK, NEW o \in Obj
  PROVE  Cells(o) \subseteq Cell /\ IsFiniteSet(Cells(o))
<1>1. Cells(o) \subseteq Cell BY CellFacts DEF Cells, Cell, Idx
<1> QED BY <1>1, CellFinite, FS_Subset

\* The operands of an instruction lie in its own frame.
LEMMA OperandFacts ==
  ASSUME TypeOK, NEW op, At(op), NEW n \in Nat, Operands(n)
  PROVE  /\ sp - n >= 1 /\ sp - n >= Top.base /\ sp - n \in Slot
         /\ \A i \in 0..n : Get(i) \in Value
  BY SlotFacts, AtFacts DEF Operands, Get

LEMMA ArrayData ==
  ASSUME NEW v \in Value, v.type = "array"
  PROVE  v.data \in Obj
  BY DEF Value, ScalarType

LEMMA NumberData ==
  ASSUME NEW v \in Value, v.type = "number"
  PROVE  v.data \in Nat
  BY DEF Value, ScalarType, ObjectType

LEMMA ElementType ==
  ASSUME TypeOK, NEW v1 \in Value, NEW v2 \in Value, InRange(v1, v2)
  PROVE  /\ v1.data \in Obj /\ v2.data + 1 \in 1..len[v1.data]
         /\ <<v1.data, v2.data + 1>> \in Cell
         /\ Element(v1, v2) \in Value
<1>1. v1.data \in Obj BY ArrayData DEF InRange
<1> QED BY <1>1, CellFacts DEF InRange, Element

LEMMA NewArrayType == TypeOK /\ NewArray => TypeOK'
<1> SUFFICES ASSUME TypeOK, NewArray PROVE TypeOK'
  OBVIOUS
<1>1. At("NEW_ARRAY") /\ A \in Idx /\ Operands(A) BY DEF NewArray
<1>2. A \in 1..MaxLen /\ A \in Nat /\ MaxLen \in Nat BY <1>1, CellFacts DEF Idx
<1>3. CASE Fail BY <1>1, <1>3, FailType
<1>4. ASSUME NEW o \in Free,
             Allocate(o, A, [i \in 1..A |-> stk[sp - A + i]]),
             Collapse(A - 1, Array(o)),
             Becomes(Retain(Mem, Array(o))),
             Continue
      PROVE  TypeOK'
  <2>1. o \in Obj /\ Array(o) \in Value BY FreeFacts, ObjectType_
  <2>2. \A i \in 1..A : stk[sp - A + i] \in Value
    BY <1>1, <1>2, OperandFacts, SlotFacts
  <2>3. HeapOK' BY <2>1, <2>2, <1>2, <1>4, AllocateType
  <2>4. A - 1 \in Nat /\ sp - (A - 1) >= 1 BY <1>1, <1>2, OperandFacts, SlotFacts
  <2>5. Retain(Mem, Array(o)) \in MemType BY MemIsType, RetainType
  <2> QED BY <1>1, <1>4, <2>1, <2>3, <2>4, <2>5, CollapseType, HeapStepType
<1> QED BY <1>3, <1>4 DEF NewArray

LEMMA NewEmptyArrayType == TypeOK /\ NewEmptyArray => TypeOK'
<1> SUFFICES ASSUME TypeOK, NewEmptyArray PROVE TypeOK'
  OBVIOUS
<1>1. At("NEW_ARRAY") /\ stk[0] = Array(GlobalsObj) BY AtFacts DEF NewEmptyArray
<1>2. ASSUME NEW o \in Free, Allocate(o, 0, <<>>) PROVE HeapOK'
  <2>1. o \in Obj /\ 0 \in 0..MaxLen BY FreeFacts, CellFacts
  <2>2. \A i \in 1..0 : <<>>[i] \in Value OBVIOUS
  <2> QED BY <1>2, <2>1, <2>2, AllocateType
<1>3. ASSUME sp < MaxSlots,
             NEW o \in Free, Allocate(o, 0, <<>>),
             stk' = [stk EXCEPT ![sp + 1] = Array(o)],
             Becomes(Retain(Mem, Array(o))),
             sp' = sp + 1,
             Continue
      PROVE  TypeOK'
  <2>1. o \in Obj /\ Array(o) \in Value BY FreeFacts, ObjectType_
  <2>2. sp' \in Slot /\ stk' \in [Slot -> Value] /\ stk'[0] = stk[0]
    BY <1>3, <2>1, SlotFacts
  <2>3. \A s \in Slot : s > sp' => stk'[s] = Nil BY <1>3, SlotFacts
  <2>4. Retain(Mem, Array(o)) \in MemType BY MemIsType, RetainType
  <2> QED BY <1>1, <1>2, <1>3, <2>2, <2>3, <2>4, HeapStepType
<1>4. ASSUME NEW o \in Free, Allocate(o, 0, <<>>), Raise, UNCHANGED <<stk, sp, rc, dying>>
      PROVE  TypeOK'
  <2>1. ControlOK' BY <1>1, <1>4, RaiseType
  <2> QED BY <1>1, <1>2, <1>4, <2>1 DEF TypeOK, StackOK, CountsOK
<1>5. CASE Fail BY <1>1, <1>5, FailType
<1>6. CASE status' = "crashed" /\ UNCHANGED <<stk, sp, heapVars, rc, dying, frames>>
  BY <1>1, <1>6 DEF TypeOK, StackOK, HeapOK, CountsOK, ControlOK, heapVars
<1> QED BY <1>3, <1>4, <1>5, <1>6 DEF NewEmptyArray

LEMMA GetElementType == TypeOK /\ GetElement => TypeOK'
<1> SUFFICES ASSUME TypeOK, GetElement PROVE TypeOK'
  OBVIOUS
<1> DEFINE res == Element(Get(1), Get(0))
<1>1. At("GET_ELEMENT") /\ Operands(2) BY DEF GetElement
<1>2. CASE Fail BY <1>1, <1>2, FailType
<1>3. CASE /\ InRange(Get(1), Get(0))
           /\ Becomes(Release(Retain(Mem, res), Get(1)))
           /\ Collapse(1, res)
           /\ Continue
           /\ UNCHANGED heapVars
  <2>1. Get(0) \in Value /\ Get(1) \in Value /\ sp - 1 >= 1
    BY <1>1, OperandFacts, SlotFacts
  <2>2. res \in Value BY <1>3, <2>1, ElementType
  <2>3. Release(Retain(Mem, res), Get(1)) \in MemType
    BY MemIsType, RetainType, ReleaseType
  <2> HIDE DEF res
  <2> QED BY <1>1, <1>3, <2>1, <2>2, <2>3, CollapseType, StackStepType
<1> QED BY <1>2, <1>3 DEF GetElement

LEMMA LoadElementType == TypeOK /\ LoadElement => TypeOK'
<1> SUFFICES ASSUME TypeOK, LoadElement PROVE TypeOK'
  OBVIOUS
<1>1. At("LOAD_ELEMENT") /\ Operands(2) BY DEF LoadElement
<1>2. CASE Fail BY <1>1, <1>2, FailType
<1>3. CASE InRange(Get(1), Get(0)) /\ PushValue(stk, Element(Get(1), Get(0)))
  <2>1. Get(0) \in Value /\ Get(1) \in Value BY <1>1, OperandFacts
  <2>2. Element(Get(1), Get(0)) \in Value BY <1>3, <2>1, ElementType
  <2> QED BY <1>1, <1>3, <2>2, PushStk
<1> QED BY <1>2, <1>3 DEF LoadElement

LEMMA FetchElementType == TypeOK /\ FetchElement => TypeOK'
<1> SUFFICES ASSUME TypeOK, FetchElement PROVE TypeOK'
  OBVIOUS
<1> DEFINE res == Element(Get(1), Get(0))
<1>1. At("FETCH_ELEMENT") /\ Operands(2) BY DEF FetchElement
<1>2. CASE Fail BY <1>1, <1>2, FailType
<1>3. CASE InRange(Get(1), Get(0)) /\ PushValue(stk, Fetched(Get(1), res))
  <2>1. Get(0) \in Value /\ Get(1) \in Value BY <1>1, OperandFacts
  <2>2. res \in Value BY <1>3, <2>1, ElementType
  <2>3. Fetched(Get(1), res) \in Value BY <2>2, AsSharedType, FlaggedType DEF Fetched
  <2> QED BY <1>1, <1>3, <2>3, PushStk
<1> QED BY <1>2, <1>3 DEF FetchElement

LEMMA CopyAndSetType ==
  ASSUME TypeOK, NEW op, At(op), sp - 2 >= 1,
         NEW arr \in Obj, NEW i \in 1..len[arr], NEW val3 \in Value,
         CopyAndSet(arr, i, val3)
  PROVE  TypeOK'
<1> DEFINE elem == [j \in 1..len[arr] |-> IF j = i THEN val3 ELSE cell[<<arr, j>>]]
           m1 == RetainAll(Mem, cell, Kept(arr, i))
<1>1. CASE Fail BY <1>1, FailType
<1>2. ASSUME NEW o \in Free,
             Allocate(o, len[arr], elem),
             Becomes(Release(Release(Retain(Retain(m1, val3), Array(o)), Get(2)), val3)),
             Collapse(2, Array(o)),
             Continue
      PROVE  TypeOK'
  <2>1. o \in Obj /\ Array(o) \in Value BY FreeFacts, ObjectType_
  <2>2. len[arr] \in 0..MaxLen /\ \A j \in 1..len[arr] : elem[j] \in Value
    BY CellFacts
  <2> HIDE DEF elem
  <2>3. HeapOK' BY <2>1, <2>2, <1>2, AllocateType
  <2>4. Kept(arr, i) \subseteq Cells(arr) BY DEF Kept
  <2>5. IsFiniteSet(Kept(arr, i)) BY <2>4, CellsFinite, FS_Subset
  <2>6. m1 \in MemType BY <2>5, MemIsType, RetainAllType
  <2> HIDE DEF m1
  <2>7. Release(Release(Retain(Retain(m1, val3), Array(o)), Get(2)), val3) \in MemType
    BY <2>6, RetainType, ReleaseType
  <2> QED BY <1>2, <2>1, <2>3, <2>7, CollapseType, HeapStepType
<1> QED BY <1>1, <1>2 DEF CopyAndSet

LEMMA SetInPlaceType ==
  ASSUME TypeOK, NEW op, At(op), sp - 2 >= 1,
         NEW arr \in Obj, NEW i \in 1..len[arr], NEW val3 \in Value,
         SetInPlace(arr, i, val3)
  PROVE  TypeOK'
<1>1. <<arr, i>> \in Cell /\ cell' = [cell EXCEPT ![<<arr, i>>] = val3]
      /\ len' = len /\ class' = class
  BY CellFacts DEF SetInPlace
<1>2. cell' \in [Cell -> Value] BY <1>1, CellFacts
<1>3. ASSUME NEW c \in Cell, c[2] > len'[c[1]] PROVE cell'[c] = Nil
  <2>1. c # <<arr, i>> BY <1>1, <1>3, CellFacts
  <2> QED BY <1>1, <1>3, <2>1 DEF TypeOK, HeapOK
<1>4. HeapOK' BY <1>1, <1>2, <1>3 DEF TypeOK, HeapOK
<1>5. Release(Release(Retain(Mem, val3), cell[<<arr, i>>]), val3) \in MemType
  BY MemIsType, RetainType, ReleaseType
<1>6. Get(2) \in Value /\ 2 \in Nat BY SlotFacts DEF Get
<1> QED BY <1>4, <1>5, <1>6, CollapseType, HeapStepType DEF SetInPlace

LEMMA WriteElementType ==
  ASSUME TypeOK, NEW op, At(op), Operands(3), InRange(Get(2), Get(1)),
         WriteElement(Get(2), Get(1), Get(0))
  PROVE  TypeOK'
<1>1. sp - 2 >= 1 /\ Get(0) \in Value /\ Get(1) \in Value /\ Get(2) \in Value
  BY OperandFacts, SlotFacts
<1>2. Get(2).data \in Obj /\ Get(1).data + 1 \in 1..len[Get(2).data]
  BY <1>1, ElementType
<1> QED BY <1>1, <1>2, CopyAndSetType, SetInPlaceType DEF WriteElement

LEMMA SetElementType == TypeOK /\ SetElement => TypeOK'
<1> SUFFICES ASSUME TypeOK, SetElement PROVE TypeOK'
  OBVIOUS
<1> QED BY WriteElementType, FailType DEF SetElement

LEMMA UpdateElementType == TypeOK /\ UpdateElement => TypeOK'
<1> SUFFICES ASSUME TypeOK, UpdateElement PROVE TypeOK'
  OBVIOUS
<1> QED BY WriteElementType DEF UpdateElement

LEMMA UnpackElementsType == TypeOK /\ UnpackElements => TypeOK'
<1> SUFFICES ASSUME TypeOK, UnpackElements PROVE TypeOK'
  OBVIOUS
<1> DEFINE n == A
           val == Get(n)
           taken == {i \in 1..n : i <= len[val.data]}
           from(i) == <<val.data, Get(n - i).data + 1>>
<1>1. At("UNPACK_ELEMENTS") /\ Operands(n + 1) BY DEF UnpackElements
<1>2. n \in Nat /\ sp - n >= 2 BY <1>1, AtFacts, SlotFacts DEF Operands
<1>3. CASE Fail BY <1>1, <1>3, FailType
<1>4. CASE /\ val.type = "array"
           /\ \A i \in taken : from(i) \in Cells(val.data)
           /\ stk' = [s \in Slot |->
                        IF s < sp - n THEN stk[s]
                        ELSE IF s - (sp - n) + 1 \in taken
                             THEN cell[from(s - (sp - n) + 1)] ELSE Nil]
           /\ sp' = sp - 1
           /\ Becomes(Release(RetainAll(Mem, [i \in taken |-> cell[from(i)]], taken),
                              val))
           /\ Continue
           /\ UNCHANGED heapVars
  <2>1. val.data \in Obj
    BY <1>2, <1>4, SlotFacts, ArrayData DEF Get
  <2>2. \A i \in taken : from(i) \in Cell BY <1>4, <2>1, CellsFinite
  <2>3. \A i \in taken : cell[from(i)] \in Value BY <2>2, CellFacts
  <2>4. taken \subseteq 1..n /\ IsFiniteSet(taken)
    <3>1. taken \subseteq 1..n OBVIOUS
    <3>2. IsFiniteSet(1..n) BY <1>2, FS_Interval
    <3> HIDE DEF taken, n
    <3> QED BY <3>1, <3>2, FS_Subset
  <2> DEFINE m == Release(RetainAll(Mem, [i \in taken |-> cell[from(i)]], taken), val)
  <2>5. m \in MemType BY <2>4, MemIsType, RetainAllType, ReleaseType
  <2>6. Becomes(m) BY <1>4
  <2> HIDE DEF m
  <2>7. sp' \in Slot BY <1>2, <1>4, SlotFacts
  <2>8. stk' \in [Slot -> Value]
    <3>1. ASSUME NEW s \in Slot, ~(s < sp - n), s - (sp - n) + 1 \in taken
          PROVE  cell[from(s - (sp - n) + 1)] \in Value
      BY <2>3, <3>1
    <3> HIDE DEF taken, from
    <3> QED BY <1>4, <3>1, SlotFacts, ScalarType_
  <2>9. \A s \in Slot : s > sp' => stk'[s] = Nil
    <3>1. \A s \in Slot : s > sp' => s - (sp - n) + 1 \notin taken
      BY <1>2, <1>4, <2>4, SlotFacts
    <3> HIDE DEF taken, from
    <3> QED BY <1>2, <1>4, <3>1, SlotFacts
  <2>10. stk'[0] = stk[0]
    <3> HIDE DEF taken, from
    <3> QED BY <1>2, <1>4, SlotFacts
  <2> QED BY <1>1, <1>4, <2>5, <2>6, <2>7, <2>8, <2>9, <2>10, StackStepType
<1> QED BY <1>3, <1>4 DEF UnpackElements

LEMMA CombineType ==
  ASSUME TypeOK, NEW op, At(op), Operands(2), NEW res \in Value, Combine(res)
  PROVE  TypeOK'
<1>1. sp - 1 >= 1 /\ 1 \in Nat BY OperandFacts, SlotFacts
<1>2. Release(Release(Mem, Get(1)), Get(0)) \in MemType BY MemIsType, ReleaseType
<1> QED BY <1>1, <1>2, CollapseType, StackStepType DEF Combine

LEMMA EqType == TypeOK /\ Eq => TypeOK'
<1> SUFFICES ASSUME TypeOK, Eq PROVE TypeOK'
  OBVIOUS
<1>1. \A b \in {0, 1} : Bool(b) \in Value BY ScalarType_
<1> QED BY <1>1, CombineType DEF Eq

LEMMA ConcatType ==
  ASSUME TypeOK, NEW op, At(op), Operands(2),
         NEW arr1 \in Obj, NEW arr2 \in Obj, Concat(arr1, arr2)
  PROVE  TypeOK'
<1> DEFINE n1 == len[arr1]
           n  == len[arr1] + len[arr2]
           elem == [i \in 1..n |->
                      IF i <= n1 THEN cell[<<arr1, i>>] ELSE cell[<<arr2, i - n1>>]]
           m1 == RetainAll(Mem, cell, Cells(arr1))
           m2 == RetainAll(m1, cell, Cells(arr2))
<1>1. CASE Fail BY <1>1, FailType
<1>2. ASSUME n <= MaxLen,
             NEW o \in Free,
             Allocate(o, n, elem),
             Becomes(Release(Release(Retain(m2, Array(o)), Get(1)), Get(0))),
             Collapse(1, Array(o)),
             Continue
      PROVE  TypeOK'
  <2>1. o \in Obj /\ Array(o) \in Value BY FreeFacts, ObjectType_
  <2>2. n \in 0..MaxLen BY <1>2, CellFacts
  <2>3. \A i \in 1..n : elem[i] \in Value
    <3>1. len[arr1] \in Nat /\ len[arr2] \in Nat BY CellFacts
    <3> QED BY <3>1, CellFacts
  <2> HIDE DEF elem, n
  <2>4. HeapOK' BY <2>1, <2>2, <2>3, <1>2, AllocateType
  <2>5. m2 \in MemType BY CellsFinite, MemIsType, RetainAllType
  <2> HIDE DEF m2
  <2>6. Release(Release(Retain(m2, Array(o)), Get(1)), Get(0)) \in MemType
    BY <2>5, RetainType, ReleaseType
  <2>7. sp - 1 >= 1 /\ 1 \in Nat BY OperandFacts, SlotFacts
  <2> QED BY <1>2, <2>1, <2>4, <2>6, <2>7, CollapseType, HeapStepType
<1> QED BY <1>1, <1>2 DEF Concat

LEMMA AddType == TypeOK /\ Add => TypeOK'
<1> SUFFICES ASSUME TypeOK, Add PROVE TypeOK'
  OBVIOUS
<1>1. At("ADD") /\ Operands(2) BY DEF Add
<1>2. \A n \in 0..MaxNum : Number(n) \in Value
  BY BoundAssumption, ScalarType_ DEF BoundAssumption
<1>3. BothAre("array") => Get(1).data \in Obj /\ Get(0).data \in Obj
  BY <1>1, OperandFacts, ArrayData DEF BothAre
<1>4. CASE Fail BY <1>1, <1>4, FailType
<1>5. CASE BothAre("number") /\ \E n \in 0..MaxNum : Combine(Number(n))
  BY <1>1, <1>2, <1>5, CombineType
<1>6. CASE BothAre("array") /\ Concat(Get(1).data, Get(0).data)
  BY <1>1, <1>3, <1>6, ConcatType
<1> QED BY <1>4, <1>5, <1>6 DEF Add

-----------------------------------------------------------------------------
(***************************************************************************)
(* Types: calls.                                                           *)
(***************************************************************************)
LEMMA NewClosureType == TypeOK /\ NewClosure => TypeOK'
<1> SUFFICES ASSUME TypeOK, NewClosure PROVE TypeOK'
  OBVIOUS
<1>1. At("NEW_CLOSURE") /\ A \in Fun BY AtFacts DEF NewClosure
<1>2. CASE Fail BY <1>1, <1>2, FailType
<1>3. ASSUME sp < MaxSlots,
             NEW o \in Free,
             class' = [class EXCEPT ![o] = A],
             stk' = [stk EXCEPT ![sp + 1] = Closure(o)],
             sp' = sp + 1,
             Becomes(Retain(Mem, Closure(o))),
             Continue,
             UNCHANGED <<cell, len>>
      PROVE  TypeOK'
  <2>1. o \in Obj /\ Closure(o) \in Value BY FreeFacts, ObjectType_
  <2>2. HeapOK' BY <1>1, <1>3, <2>1 DEF TypeOK, HeapOK
  <2>3. sp' \in Slot /\ stk' \in [Slot -> Value] /\ stk'[0] = stk[0]
    BY <1>3, <2>1, SlotFacts
  <2>4. \A s \in Slot : s > sp' => stk'[s] = Nil BY <1>3, SlotFacts
  <2>5. Retain(Mem, Closure(o)) \in MemType BY MemIsType, RetainType
  <2> QED BY <1>1, <1>3, <2>2, <2>3, <2>4, <2>5, HeapStepType
<1> QED BY <1>2, <1>3 DEF NewClosure

LEMMA EntryType ==
  ASSUME NEW base \in 1..MaxSlots, NEW cl \in Obj, NEW fn \in Fun
  PROVE  Entry(base, cl, fn) \in Frame
  BY ProgramAssumption DEF ProgramAssumption, Entry, Frame

LEMMA CallableType ==
  ASSUME NEW v \in Value, IsCallable(v)
  PROVE  v.data \in Obj /\ class[v.data] \in Fun /\ Arity[class[v.data]] \in Nat
  BY ProgramAssumption DEF ProgramAssumption, IsCallable, Value, ScalarType

\* The stack of a call, and the arguments it releases.
LEMMA AdjustedType ==
  ASSUME TypeOK, NEW c \in 1..MaxSlots, NEW k \in Nat
  PROVE  /\ Adjusted(c, k) \in [Slot -> Value]
         /\ Adjusted(c, k)[0] = stk[0]
         /\ \A s \in Slot : s > c + k => Adjusted(c, k)[s] = Nil
         /\ IsFiniteSet(Extra(c, k))
<1>1. Extra(c, k) \subseteq Slot BY DEF Extra
<1>2. IsFiniteSet(Extra(c, k)) BY <1>1, SlotFinite, FS_Subset
<1> QED BY <1>2, SlotFacts, ScalarType_ DEF Adjusted

\* The stack and the memory a call leaves when it ends in an error.
LEMMA RaisedCallType ==
  ASSUME TypeOK, NEW op, At(op), Raise, UNCHANGED heapVars,
         NEW m \in MemType, Becomes(m),
         stk' \in [Slot -> Value], sp' \in Slot, stk'[0] = stk[0],
         \A s \in Slot : s > sp' => stk'[s] = Nil
  PROVE  TypeOK'
<1>1. ControlOK' BY RaiseType
<1>2. CountsOK' BY BecomesType
<1>3. HeapOK' BY DEF TypeOK, HeapOK, heapVars
<1>4. stk[0] = Array(GlobalsObj) BY AtFacts
<1> QED BY <1>1, <1>2, <1>3, <1>4 DEF TypeOK, StackOK

LEMMA CallType == TypeOK /\ Call => TypeOK'
<1> SUFFICES ASSUME TypeOK, Call PROVE TypeOK'
  OBVIOUS
<1> DEFINE c == sp - A
           val == stk[c]
           f == class[val.data]
           k == Arity[f]
           m == ReleaseAll(Mem, stk, Extra(c, k))
<1>1. At("CALL") /\ Operands(A + 1) BY DEF Call
<1>2. A \in Nat /\ c \in 1..MaxSlots /\ val \in Value
  BY <1>1, AtFacts, SlotFacts DEF Operands
<1>3. CASE Fail BY <1>1, <1>3, FailType
<1>4. ASSUME IsCallable(val),
             stk' = Adjusted(c, k),
             Becomes(m),
             UNCHANGED heapVars,
             \/ /\ c + k <= MaxSlots
                /\ sp' = c + k
                /\ frames' = Append([frames EXCEPT ![Len(frames)].code = Tail(@)],
                                    Entry(c, val.data, f))
                /\ UNCHANGED status
             \/ c + k <= MaxSlots /\ sp' = c + k /\ Raise
             \/ c + k > MaxSlots /\ sp' = MaxSlots /\ Raise
      PROVE  TypeOK'
  <2>1. val.data \in Obj /\ f \in Fun /\ k \in Nat BY <1>2, <1>4, CallableType
  <2>2. Entry(c, val.data, f) \in Frame BY <1>2, <2>1, EntryType
  <2> HIDE DEF f, k, val, c
  <2>3. /\ stk' \in [Slot -> Value] /\ stk'[0] = stk[0]
        /\ \A s \in Slot : s > c + k => stk'[s] = Nil
        /\ IsFiniteSet(Extra(c, k))
    BY <1>2, <1>4, <2>1, AdjustedType
  <2>4. m \in MemType BY <2>3, MemIsType, ReleaseAllType
  <2> HIDE DEF m
  <2>5. sp' \in Slot /\ \A s \in Slot : s > sp' => stk'[s] = Nil
    BY <1>2, <1>4, <2>1, <2>3, SlotFacts
  <2>6. CASE Raise BY <1>1, <1>4, <2>3, <2>4, <2>5, <2>6, RaisedCallType
  <2>7. CASE /\ frames' = Append([frames EXCEPT ![Len(frames)].code = Tail(@)],
                                 Entry(c, val.data, f))
             /\ UNCHANGED status
    <3>1. frames \in Seq(Frame) /\ frames # <<>> BY <1>1 DEF TypeOK, ControlOK, At
    <3>2. Tail(Top.code) \in Seq(Instr) /\ Top \in Frame BY <1>1, AtFacts
    <3>3. [frames[Len(frames)] EXCEPT !.code = Tail(@)] \in Frame
      BY <3>2, FrameCodeType DEF Top
    <3>4. [frames EXCEPT ![Len(frames)].code = Tail(@)] \in Seq(Frame)
      BY <3>1, <3>3
    <3>5. ControlOK' BY <2>2, <2>7, <3>4 DEF TypeOK, ControlOK
    <3>6. HeapOK' BY <1>4 DEF TypeOK, HeapOK, heapVars
    <3>7. CountsOK' BY <1>4, <2>4, BecomesType
    <3>8. stk[0] = Array(GlobalsObj) BY <1>1, AtFacts
    <3> QED BY <2>3, <2>5, <3>5, <3>6, <3>7, <3>8 DEF TypeOK, StackOK
  <2> QED BY <1>4, <2>6, <2>7
<1> QED BY <1>3, <1>4 DEF Call

LEMMA TailCallType == TypeOK /\ TailCall => TypeOK'
<1> SUFFICES ASSUME TypeOK, TailCall PROVE TypeOK'
  OBVIOUS
<1> DEFINE c == sp - A
           val == stk[c]
           f == class[val.data]
           k == Arity[f]
           b == Top.base
           m1 == ReleaseAll(Mem, stk, Extra(c, k))
           m2 == Release(m1, Closure(Top.cl))
           args == Adjusted(c, k)
           m3 == ReleaseAll(m2, args, Overwritten(b, k))
<1>1. At("TAIL_CALL") /\ Operands(A + 1) BY DEF TailCall
<1>2. /\ A \in Nat /\ c \in 1..MaxSlots /\ val \in Value
      /\ b \in 1..MaxSlots /\ b < c
  BY <1>1, AtFacts, SlotFacts DEF Operands
<1>3. CASE Fail BY <1>1, <1>3, FailType
<1>4. ASSUME IsCallable(val)
      PROVE  /\ val.data \in Obj /\ f \in Fun /\ k \in Nat
             /\ args \in [Slot -> Value] /\ args[0] = stk[0]
             /\ \A s \in Slot : s > c + k => args[s] = Nil
             /\ m1 \in MemType
  <2>1. val.data \in Obj /\ f \in Fun /\ k \in Nat BY <1>2, <1>4, CallableType
  <2> HIDE DEF f, k, val, c
  <2>2. IsFiniteSet(Extra(c, k)) BY <1>2, <2>1, AdjustedType
  <2>3. m1 \in MemType BY <2>2, MemIsType, ReleaseAllType
  <2> QED BY <1>2, <2>1, <2>3, AdjustedType
<1>5. ASSUME IsCallable(val), c + k <= MaxSlots,
             stk' = [s \in Slot |-> IF s < b THEN stk[s]
                                    ELSE IF s <= b + k THEN args[s - b + c]
                                    ELSE Nil],
             sp' = b + k,
             Becomes(m3),
             frames' = [frames EXCEPT ![Len(frames)] = Entry(b, val.data, f)],
             UNCHANGED <<heapVars, status>>
      PROVE  TypeOK'
  <2>1. Entry(b, val.data, f) \in Frame BY <1>2, <1>4, <1>5, EntryType
  <2>2. k \in Nat /\ args \in [Slot -> Value] /\ m2 \in MemType
    BY <1>4, <1>5, ReleaseType
  <2> HIDE DEF f, k, val, c, args, m2, b
  <2>3. IsFiniteSet(Overwritten(b, k)) BY <1>2, <2>2, FS_Interval DEF Overwritten
  <2>4. m3 \in MemType BY <2>2, <2>3, ReleaseAllType
  <2> HIDE DEF m3
  <2>5. sp' \in Slot /\ stk' \in [Slot -> Value] /\ stk'[0] = stk[0]
    BY <1>2, <1>5, <2>2, SlotFacts, ScalarType_, SMTT(30)
  <2>6. \A s \in Slot : s > sp' => stk'[s] = Nil BY <1>2, <1>5, <2>2, SlotFacts
  <2>7. frames \in Seq(Frame) /\ frames # <<>> BY <1>1 DEF TypeOK, ControlOK, At
  <2>8. ControlOK' BY <1>5, <2>1, <2>7 DEF TypeOK, ControlOK
  <2>9. HeapOK' BY <1>5 DEF TypeOK, HeapOK, heapVars
  <2>10. CountsOK' BY <1>5, <2>4, BecomesType
  <2>11. stk[0] = Array(GlobalsObj) BY <1>1, AtFacts
  <2> QED BY <2>5, <2>6, <2>8, <2>9, <2>10, <2>11 DEF TypeOK, StackOK
<1>6. ASSUME IsCallable(val), c + k <= MaxSlots,
             stk' = args, sp' = c + k, Becomes(m1), Raise, UNCHANGED heapVars
      PROVE  TypeOK'
  <2>1. /\ k \in Nat /\ args \in [Slot -> Value] /\ args[0] = stk[0]
        /\ \A s \in Slot : s > c + k => args[s] = Nil
        /\ m1 \in MemType
    BY <1>4, <1>6
  <2> HIDE DEF f, k, val, c, args, m1
  <2>2. sp' \in Slot BY <1>2, <1>6, <2>1, SlotFacts
  <2> QED BY <1>1, <1>6, <2>1, <2>2, RaisedCallType
<1>7. ASSUME IsCallable(val), c + k > MaxSlots,
             stk' = args, sp' = MaxSlots, Raise,
             UNCHANGED <<heapVars, rc, dying>>
      PROVE  TypeOK'
  <2>1. args \in [Slot -> Value] /\ args[0] = stk[0] BY <1>4, <1>7
  <2> HIDE DEF args
  <2>2. sp' \in Slot /\ \A s \in Slot : s > sp' => stk'[s] = Nil BY <1>7, SlotFacts
  <2>3. Mem \in MemType /\ Becomes(Mem) BY <1>7, MemIsType DEF Becomes, Mem
  <2> QED BY <1>1, <1>7, <2>1, <2>2, <2>3, RaisedCallType
<1> QED BY <1>3, <1>5, <1>6, <1>7 DEF TailCall

\* rak_fiber_return, from a stack of height h with the result on top.
LEMMA ReturnType ==
  ASSUME TypeOK, NEW op, At(op), HeapOK',
         NEW s0 \in [Slot -> Value], s0[0] = stk[0],
         NEW h \in Nat, NEW m \in MemType, NEW res \in Value,
         Return(s0, h, m, res)
  PROVE  TypeOK'
<1> DEFINE above == (Top.base + 1)..(h - 1)
           m1 == ReleaseAll(Release(m, Closure(Top.cl)), s0, above)
<1>1. /\ stk' = [s \in Slot |-> IF s < Top.base THEN s0[s]
                                ELSE IF s = Top.base THEN res ELSE Nil]
      /\ sp' = Top.base
      /\ Becomes(m1)
      /\ frames' = SubSeq(frames, 1, Len(frames) - 1)
      /\ status' = IF Len(frames) = 1 THEN "done" ELSE status
  BY DEF Return, ReturnReleasing
<1>2. Top.base \in 1..MaxSlots BY AtFacts
<1>3. IsFiniteSet(above) BY <1>2, FS_Interval, SMTT(60)
<1>4. m1 \in MemType BY <1>3, ReleaseType, ReleaseAllType
<1> HIDE DEF m1
<1>5. CountsOK' BY <1>1, <1>4, BecomesType
<1>6. sp' \in Slot /\ stk' \in [Slot -> Value] /\ stk'[0] = Array(GlobalsObj)
  BY <1>1, <1>2, AtFacts, SlotFacts, ScalarType_
<1>7. \A s \in Slot : s > sp' => stk'[s] = Nil BY <1>1, <1>2, SlotFacts
<1>8. frames \in Seq(Frame) /\ Len(frames) \in Nat /\ Len(frames) >= 1
  BY AtFacts DEF TypeOK, ControlOK
<1>9. frames' \in Seq(Frame)
  <2>1. \A i \in 1..(Len(frames) - 1) : frames[i] \in Frame BY <1>8
  <2> QED BY <1>1, <1>8, <2>1
<1>10. ControlOK' BY <1>1, <1>9, AtFacts DEF ControlOK
<1> QED BY <1>5, <1>6, <1>7, <1>10 DEF TypeOK, StackOK

LEMMA ReturnTopType == TypeOK /\ ReturnTop => TypeOK'
<1> SUFFICES ASSUME TypeOK, ReturnTop PROVE TypeOK'
  OBVIOUS
<1>1. At("RETURN") /\ Return(stk, sp, Mem, Get(0)) /\ UNCHANGED heapVars
  BY DEF ReturnTop
<1>2. HeapOK' BY <1>1 DEF TypeOK, HeapOK, heapVars
<1>3. sp \in Nat /\ Get(0) \in Value BY SlotFacts DEF Get
<1> QED BY <1>1, <1>2, <1>3, SlotFacts, MemIsType, ReturnType

LEMMA ReturnNilType == TypeOK /\ ReturnNil => TypeOK'
<1> SUFFICES ASSUME TypeOK, ReturnNil PROVE TypeOK'
  OBVIOUS
<1>1. At("RETURN_NIL") BY DEF ReturnNil
<1>2. CASE Fail BY <1>1, <1>2, FailType
<1>3. CASE Return(stk, sp + 1, Mem, Nil) /\ UNCHANGED heapVars
  <2>1. HeapOK' BY <1>3 DEF TypeOK, HeapOK, heapVars
  <2>2. sp + 1 \in Nat BY SlotFacts
  <2> QED BY <1>1, <1>3, <2>1, <2>2, SlotFacts, ScalarType_, MemIsType, ReturnType
<1> QED BY <1>2, <1>3 DEF ReturnNil

\* The last step of a native function.
LEMMA ReturnValueType ==
  ASSUME TypeOK, NEW op, At(op), HeapOK',
         NEW s0 \in [Slot -> Value], s0[0] = stk[0],
         NEW m \in MemType, NEW res \in Value,
         ReturnValue(s0, m, res)
  PROVE  TypeOK'
<1>1. CASE Return(s0, sp + 1, Retain(m, res), res)
  <2>1. sp + 1 \in Nat /\ Retain(m, res) \in MemType BY SlotFacts, RetainType
  <2> QED BY <1>1, <2>1, ReturnType
<1>2. CASE sp = MaxSlots /\ stk' = s0 /\ Becomes(m) /\ UNCHANGED sp /\ Raise
  <2>1. sp' \in Slot /\ \A s \in Slot : s > sp' => stk'[s] = Nil
    BY <1>2, SlotFacts
  <2>2. ControlOK' BY <1>2, RaiseType
  <2>3. CountsOK' BY <1>2, BecomesType
  <2>4. stk'[0] = Array(GlobalsObj) BY <1>2, AtFacts
  <2> QED BY <1>2, <2>1, <2>2, <2>3, <2>4 DEF TypeOK, StackOK
<1> QED BY <1>1, <1>2 DEF ReturnValue

LEMMA AppendToType ==
  ASSUME TypeOK, NEW op, At(op),
         NEW t \in 1..sp, NEW arr \in Obj, NEW val2 \in Value,
         AppendTo(t, arr, val2)
  PROVE  TypeOK'
<1> DEFINE n == len[arr]
           elem == [i \in 1..(n + 1) |-> IF i <= n THEN cell[<<arr, i>>] ELSE val2]
           m1 == Retain(RetainAll(Mem, cell, Cells(arr)), val2)
<1>1. n \in Nat /\ stk[t] \in Value /\ 0 # t BY CellFacts, SlotFacts, SMTT(30)
<1>2. CASE Fail BY <1>2, FailType
<1>3. ASSUME n < MaxLen, NEW o \in Free,
             Allocate(o, n + 1, elem),
             ReturnValue([stk EXCEPT ![t] = Array(o)],
                         Drop(Retain(m1, Array(o)), stk[t]), Array(o))
      PROVE  TypeOK'
  <2>1. o \in Obj /\ Array(o) \in Value BY FreeFacts, ObjectType_
  <2>2. n + 1 \in 0..MaxLen /\ \A i \in 1..(n + 1) : elem[i] \in Value
    BY <1>1, <1>3, CellFacts
  <2> HIDE DEF elem
  <2>3. HeapOK' BY <1>3, <2>1, <2>2, AllocateType
  <2>4. m1 \in MemType BY CellsFinite, MemIsType, RetainAllType, RetainType
  <2> HIDE DEF m1, n
  <2>5. Drop(Retain(m1, Array(o)), stk[t]) \in MemType BY <2>4, RetainType, DropType
  <2>6. /\ [stk EXCEPT ![t] = Array(o)] \in [Slot -> Value]
        /\ [stk EXCEPT ![t] = Array(o)][0] = stk[0]
    BY <1>1, <2>1, SlotFacts
  <2> QED BY <1>3, <2>1, <2>3, <2>5, <2>6, ReturnValueType
<1>4. CASE /\ n < MaxLen
           /\ cell' = [cell EXCEPT ![<<arr, n + 1>>] = val2]
           /\ len' = [len EXCEPT ![arr] = n + 1]
           /\ UNCHANGED class
           /\ ReturnValue(stk, Retain(Mem, val2), stk[t])
  <2>1. <<arr, n + 1>> \in Cell BY <1>1, <1>4, CellFacts DEF Cell, Idx
  <2>2. cell' \in [Cell -> Value] /\ len' \in [Obj -> 0..MaxLen]
    <3>1. cell' \in [Cell -> Value] BY <1>4, <2>1, CellFacts
    <3>2. n + 1 \in 0..MaxLen /\ len \in [Obj -> 0..MaxLen] BY <1>1, <1>4, CellFacts
    <3> HIDE DEF n
    <3> QED BY <1>4, <3>1, <3>2
  <2>3. ASSUME NEW x \in Cell, x[2] > len'[x[1]] PROVE cell'[x] = Nil
    <3>1. x[1] \in Obj /\ x[2] \in Nat BY CellFacts DEF Cell, Idx
    <3>2. x # <<arr, n + 1>> BY <1>1, <1>4, <2>3, CellFacts
    <3>3. x[2] > len[x[1]]
      BY <1>1, <1>4, <2>3, <3>1, CellFacts
    <3> QED BY <1>4, <3>2, <3>3 DEF TypeOK, HeapOK
  <2>4. HeapOK' BY <1>4, <2>2, <2>3 DEF TypeOK, HeapOK
  <2>5. Retain(Mem, val2) \in MemType BY MemIsType, RetainType
  <2> QED BY <1>1, <1>4, <2>4, <2>5, SlotFacts, ReturnValueType
<1> QED BY <1>2, <1>3, <1>4 DEF AppendTo

LEMMA AppendNativeType == TypeOK /\ AppendNative => TypeOK'
<1> SUFFICES ASSUME TypeOK, AppendNative PROVE TypeOK'
  OBVIOUS
<1> DEFINE t == Local(1).data
<1>1. At("APPEND") /\ Operands(2) BY DEF AppendNative
<1>2. CASE Fail BY <1>1, <1>2, FailType
<1>3. CASE /\ IsLocalRef(1) /\ stk[t].type = "array"
           /\ AppendTo(t, stk[t].data, Local(2))
  <2>1. t \in 1..sp /\ stk[t] \in Value BY <1>3, SlotFacts DEF IsLocalRef
  <2>2. stk[t].data \in Obj BY <1>3, <2>1, ArrayData
  <2>3. IsLocal(2) BY <1>1 DEF Operands, IsLocal
  <2>4. Local(2) \in Value BY <1>1, <2>3, LocalType
  <2> HIDE DEF t
  <2> QED BY <1>1, <1>3, <2>1, <2>2, <2>4, AppendToType
<1> QED BY <1>2, <1>3 DEF AppendNative

LEMMA FillType ==
  ASSUME TypeOK, NEW op, At(op), Operands(3), NEW n \in Nat, Fill(n)
  PROVE  TypeOK'
<1>1. CASE Fail BY <1>1, FailType
<1>2. ASSUME n <= MaxLen, NEW o \in Free,
             Allocate(o, n, [i \in 1..n |-> Local(1)]),
             ReturnValue(stk, Mem, Array(o))
      PROVE  TypeOK'
  <2>1. o \in Obj /\ Array(o) \in Value BY FreeFacts, ObjectType_
  <2>2. IsLocal(1) BY SlotFacts, AtFacts DEF Operands, IsLocal
  <2>3. Local(1) \in Value BY <2>2, LocalType
  <2>4. n \in 0..MaxLen BY <1>2, CellFacts
  <2>5. HeapOK' BY <1>2, <2>1, <2>3, <2>4, AllocateType
  <2> QED BY <1>2, <2>1, <2>5, MemIsType, SlotFacts, ReturnValueType
<1> QED BY <1>1, <1>2 DEF Fill

LEMMA ArrayNativeType == TypeOK /\ ArrayNative => TypeOK'
<1> SUFFICES ASSUME TypeOK, ArrayNative PROVE TypeOK'
  OBVIOUS
<1>1. At("ARRAY") /\ Operands(3) BY DEF ArrayNative
<1>2. CASE Fail BY <1>1, <1>2, FailType
<1>3. CASE Fill(0) BY <1>1, <1>3, FillType
<1>4. CASE Local(2).type = "number" /\ Fill(Local(2).data)
  <2>1. IsLocal(2) BY <1>1, SlotFacts, AtFacts DEF Operands, IsLocal
  <2>2. Local(2) \in Value BY <1>1, <2>1, LocalType
  <2>3. Local(2).data \in Nat BY <1>4, <2>2, NumberData
  <2> QED BY <1>1, <1>4, <2>3, FillType
<1> QED BY <1>2, <1>3, <1>4 DEF ArrayNative

LEMMA LenNativeType == TypeOK /\ LenNative => TypeOK'
<1> SUFFICES ASSUME TypeOK, LenNative PROVE TypeOK'
  OBVIOUS
<1>1. At("LEN") /\ Operands(1) BY DEF LenNative
<1>2. CASE Fail BY <1>1, <1>2, FailType
<1>3. CASE /\ Local(1).type = "array"
           /\ ReturnValue(stk, Mem, Number(len[Local(1).data]))
           /\ UNCHANGED heapVars
  <2>1. IsLocal(1) BY <1>1, SlotFacts, AtFacts DEF Operands, IsLocal
  <2>2. Local(1) \in Value BY <1>1, <2>1, LocalType
  <2>3. Local(1).data \in Obj BY <1>3, <2>2, ArrayData
  <2>4. len[Local(1).data] \in Nat BY <2>3, CellFacts
  <2>5. Number(len[Local(1).data]) \in Value BY <2>4, ScalarType_
  <2>6. HeapOK' BY <1>3 DEF TypeOK, HeapOK, heapVars
  <2> QED BY <1>1, <1>3, <2>5, <2>6, MemIsType, SlotFacts, ReturnValueType
<1> QED BY <1>2, <1>3 DEF LenNative

-----------------------------------------------------------------------------
(***************************************************************************)
(* Types: the run of a script.                                             *)
(***************************************************************************)
LEMMA NextStatementType == TypeOK /\ NextStatement => TypeOK'
<1> SUFFICES ASSUME TypeOK, NextStatement PROVE TypeOK'
  OBVIOUS
<1>1. PICK s \in Stmts[Top.fn] : frames' = [frames EXCEPT ![Len(frames)].code = s]
  BY DEF NextStatement
<1>2. frames \in Seq(Frame) /\ frames # <<>> BY DEF NextStatement, TypeOK, ControlOK
<1>3. Top \in Frame /\ Top = frames[Len(frames)] BY <1>2 DEF Top
<1>4. s \in Seq(Instr) BY <1>3, ProgramAssumption DEF ProgramAssumption, Frame
<1>5. [frames[Len(frames)] EXCEPT !.code = s] \in Frame BY <1>3, <1>4, FrameCodeType
<1>6. frames' \in Seq(Frame) BY <1>1, <1>2, <1>5
<1> QED BY <1>6 DEF NextStatement, TypeOK, StackOK, HeapOK, CountsOK, ControlOK, heapVars

LEMMA FreeObjectType == TypeOK /\ FreeObject => TypeOK'
<1> SUFFICES ASSUME TypeOK, FreeObject PROVE TypeOK'
  OBVIOUS
<1>1. PICK o \in dying :
        /\ Becomes(ReleaseAll([rc |-> rc, dying |-> dying \ {o}], cell, Cells(o)))
        /\ cell' = [c \in Cell |-> IF c[1] = o THEN Nil ELSE cell[c]]
        /\ len' = [len EXCEPT ![o] = 0]
        /\ class' = [class EXCEPT ![o] = "free"]
        /\ UNCHANGED <<stk, sp, frames, status>>
  BY DEF FreeObject
<1>2. o \in Obj BY DEF TypeOK, CountsOK
<1>3. [rc |-> rc, dying |-> dying \ {o}] \in MemType BY DEF TypeOK, CountsOK, MemType
<1>4. ReleaseAll([rc |-> rc, dying |-> dying \ {o}], cell, Cells(o)) \in MemType
  BY <1>2, <1>3, CellsFinite, ReleaseAllType
<1>5. CountsOK' BY <1>1, <1>4, BecomesType
<1>6. cell' \in [Cell -> Value] BY <1>1, CellFacts, ScalarType_
<1>7. len' \in [Obj -> 0..MaxLen]
  <2>1. 0 \in 0..MaxLen /\ len \in [Obj -> 0..MaxLen] BY CellFacts
  <2>2. len' = [len EXCEPT ![o] = 0] BY <1>1
  <2> QED BY <2>1, <2>2
<1>8. class' \in [Obj -> {"free", "array"} \cup Fun] BY <1>1 DEF TypeOK, HeapOK
<1>9. ASSUME NEW c \in Cell, c[2] > len'[c[1]] PROVE cell'[c] = Nil
  <2>1. c[1] \in Obj BY DEF Cell
  <2>2. CASE c[1] = o BY <1>1, <2>2
  <2>3. CASE c[1] # o
    <3>1. len'[c[1]] = len[c[1]] BY <1>1, <2>1, <2>3, CellFacts
    <3> QED BY <1>1, <1>9, <2>3, <3>1 DEF TypeOK, HeapOK
  <2> QED BY <2>2, <2>3
<1>10. HeapOK' BY <1>6, <1>7, <1>8, <1>9 DEF HeapOK
<1> QED BY <1>1, <1>5, <1>10 DEF TypeOK, StackOK, ControlOK

LEMMA DeinitType == TypeOK /\ Deinit => TypeOK'
<1> SUFFICES ASSUME TypeOK, Deinit PROVE TypeOK'
  OBVIOUS
<1>1. IsFiniteSet(0..sp) BY SlotFacts, FS_Interval
<1>2. ReleaseAll(Mem, stk, 0..sp) \in MemType BY <1>1, MemIsType, ReleaseAllType
<1>3. CountsOK' BY <1>2, BecomesType DEF Deinit
<1>4. HeapOK' BY DEF Deinit, TypeOK, HeapOK, heapVars
<1>5. ControlOK' BY DEF Deinit, ControlOK
<1>6. StackOK' BY SlotFacts, ScalarType_ DEF Deinit, StackOK
<1> QED BY <1>3, <1>4, <1>5, <1>6 DEF TypeOK

LEMMA InitType == Init => TypeOK
<1> SUFFICES ASSUME Init PROVE TypeOK
  OBVIOUS
<1>1. /\ GlobalsObj \in Obj /\ MainObj \in Obj /\ Main \in Fun
      /\ Natives \in Seq(Fun) /\ NativeObjs \in Seq(Obj)
      /\ Len(NativeObjs) = Len(Natives) /\ Len(NativeObjs) \in 0..MaxLen
      /\ MaxSlots \in Nat /\ MaxSlots >= 1 /\ MaxLen \in Nat /\ MaxLen >= 1
  BY MainAssumption, ProgramAssumption, BoundAssumption
     DEF MainAssumption, ProgramAssumption, BoundAssumption
<1>2. /\ Array(GlobalsObj) \in Value /\ Closure(MainObj) \in Value /\ Nil \in Value
      /\ \A i \in 1..Len(NativeObjs) : Closure(NativeObjs[i]) \in Value
  BY <1>1, ScalarType_, ObjectType_
<1>3. StackOK BY <1>1, <1>2 DEF Init, StackOK, Slot
<1>4. HeapOK
  <2>1. cell \in [Cell -> Value]
    <3>1. \A c \in Cell : c[2] \in Nat \ {0} BY <1>1 DEF Cell, Idx
    <3>2. \A c \in Cell : c[2] <= Len(NativeObjs) => c[2] \in 1..Len(NativeObjs)
      BY <1>1, <3>1
    <3> QED BY <1>2, <3>2 DEF Init
  <2>2. len \in [Obj -> 0..MaxLen] BY <1>1 DEF Init
  <2>3. class \in [Obj -> {"free", "array"} \cup Fun]
    <3>1. \A o \in Obj : NativesAt(o) # {} =>
            Natives[CHOOSE i \in NativesAt(o) : TRUE] \in Fun
      <4>1. TAKE o \in Obj
      <4>2. HAVE NativesAt(o) # {}
      <4>3. (CHOOSE i \in NativesAt(o) : TRUE) \in NativesAt(o) BY <4>2
      <4>4. NativesAt(o) \subseteq 1..Len(Natives) BY <1>1 DEF NativesAt
      <4> QED BY <1>1, <4>3, <4>4
    <3> QED BY <1>1, <3>1 DEF Init
  <2>4. ASSUME NEW c \in Cell, c[2] > len[c[1]] PROVE cell[c] = Nil
    <3>1. c[1] \in Obj /\ c[2] \in Nat BY <1>1 DEF Cell, Idx
    <3>2. ~(c[1] = GlobalsObj /\ c[2] <= Len(NativeObjs)) BY <1>1, <3>1, <2>4 DEF Init
    <3> QED BY <3>2 DEF Init
  <2> QED BY <2>1, <2>2, <2>3, <2>4 DEF HeapOK
<1>5. CountsOK BY DEF Init, CountsOK
<1>6. ControlOK
  <2>1. 1 \in 1..MaxSlots BY <1>1
  <2>2. Entry(1, MainObj, Main) \in Frame BY <1>1, <2>1, EntryType
  <2> QED BY <2>2 DEF Init, ControlOK
<1> QED BY <1>3, <1>4, <1>5, <1>6 DEF TypeOK

LEMMA NextType == TypeOK /\ [Next]_vars => TypeOK'
<1> SUFFICES ASSUME TypeOK, [Next]_vars PROVE TypeOK'
  OBVIOUS
<1>1. CASE Stack
  BY <1>1, PushNilType, PushIntType, LoadGlobalType, LoadLocalType, StoreLocalType,
     FetchLocalType, RefLocalType, LoadLocalRefType, StoreLocalRefType, MoveType,
     PopType DEF Stack
<1>2. CASE Arrays
  BY <1>2, NewArrayType, NewEmptyArrayType, GetElementType, SetElementType,
     LoadElementType, FetchElementType, UpdateElementType, UnpackElementsType, EqType, AddType
     DEF Arrays
<1>3. CASE Calls
  BY <1>3, NewClosureType, CallType, TailCallType, ReturnTopType, ReturnNilType
     DEF Calls
<1>8. CASE Builtins
  BY <1>8, AppendNativeType, ArrayNativeType, LenNativeType DEF Builtins
<1>4. CASE NextStatement BY <1>4, NextStatementType
<1>5. CASE FreeObject BY <1>5, FreeObjectType
<1>6. CASE Deinit BY <1>6, DeinitType
<1>7. CASE UNCHANGED vars
  BY <1>7 DEF vars, TypeOK, StackOK, HeapOK, CountsOK, ControlOK, heapVars
<1> QED BY <1>1, <1>2, <1>3, <1>4, <1>5, <1>6, <1>7, <1>8 DEF Next, Ended

\* Whatever the script, no handler leaves an ill-typed value, a live cell past
\* the end of an array or a stale slot above the top of the stack.
THEOREM TypeCorrect == Spec => []TypeOK
<1>1. Init => TypeOK BY InitType
<1>2. TypeOK /\ [Next]_vars => TypeOK' BY NextType
<1> QED BY <1>1, <1>2, PTL DEF Spec
==============================================================================
