-------------------------------- MODULE RakVM --------------------------------
(***************************************************************************)
(* The virtual machine: the operand stack of a fiber, the heap it owns by  *)
(* reference counts, the call frames, and one action per instruction       *)
(* handler of src/include/rak/vm.h.                                        *)
(*                                                                         *)
(* An instruction pointer is the sequence of instructions still to run in  *)
(* its frame.  When it is empty the frame goes on with any statement of    *)
(* its function, so a behaviour runs the statements in any order and any   *)
(* number of times: a script whose branches and loops are all undecided.   *)
(***************************************************************************)
EXTENDS RakMemory, Sequences

CONSTANTS
  Fun,        \* the functions of the script, Main and the natives among them
  Main,       \* the function of the script itself
  Natives,    \* Seq(Fun): the built-in functions, in the order of the globals
  Arity,      \* [Fun -> Nat]: callable->arity
  Inouts,     \* [Fun -> SUBSET Nat]: callable->inouts, as argument positions
  Prologue,   \* [Fun -> Seq(Instr)]: what a function runs when it is entered
  Stmts,      \* [Fun -> SUBSET Seq(Instr)]: the statements it then runs
  Instr,      \* the instructions that occur in them
  GlobalsObj, \* the address of the array of globals,
  NativeObjs, \* of the closures of the natives in it, in that order,
  MainObj,    \* and of the closure of the script
  MaxSlots,   \* bound: capacity of the value stack (vstkSize)
  MaxFrames,  \* bound: capacity of the call stack (cstkSize)
  MaxLen,     \* bound: longest array the allocator can serve
  MaxNum      \* bound: largest number an arithmetic result is taken from

ASSUME ProgramAssumption ==
  /\ Main \in Fun /\ Natives \in Seq(Fun) /\ {"free", "array"} \cap Fun = {}
  /\ \A i \in Instr : i \in [op : STRING, a : IF i.op = "NEW_CLOSURE" THEN Fun ELSE Nat,
                            b : Nat]
  /\ Arity \in [Fun -> Nat]
  /\ Prologue \in [Fun -> Seq(Instr)]
  /\ \A f \in Fun : Stmts[f] \subseteq Seq(Instr)

ASSUME MainAssumption ==
  /\ GlobalsObj \in Obj /\ MainObj \in Obj /\ GlobalsObj # MainObj
  /\ NativeObjs \in Seq(Obj \ {GlobalsObj, MainObj})
  /\ Len(NativeObjs) = Len(Natives) /\ Len(Natives) <= MaxLen
  /\ \A i, j \in 1..Len(NativeObjs) : i # j => NativeObjs[i] # NativeObjs[j]

ASSUME BoundAssumption ==
  /\ MaxSlots \in Nat /\ MaxSlots >= 1
  /\ MaxFrames \in Nat /\ MaxFrames >= 1
  /\ MaxLen \in Nat /\ MaxLen >= 1
  /\ MaxNum \in Nat

Slot == 0..MaxSlots
Idx  == 1..MaxLen
Cell == Obj \X Idx

VARIABLES
  stk,      \* [Slot -> Value]: vstk.data; slot 0 is the field fiber->globals
  sp,       \* vstk.top, the number of live slots
  cell,     \* [Cell -> Value]: the elements of the arrays
  len,      \* [Obj -> 0..MaxLen]: slice.len of the arrays
  class,    \* [Obj -> {"free", "array"} \cup Fun]: a closure is its function
  rc,       \* [Obj -> Int]: obj.refCount
  dying,    \* the objects a release has condemned and free has not yet visited
  frames,   \* cstk, the call stack
  status    \* "running", then "done", "error" or "crashed", then "ended"

heapVars == <<cell, len, class>>
vars == <<stk, sp, cell, len, class, rc, dying, frames, status>>

-----------------------------------------------------------------------------
(***************************************************************************)
(* The fiber.                                                              *)
(***************************************************************************)
Frame == [base : 1..MaxSlots, cl : Obj, fn : Fun, code : Seq(Instr)]

Entry(base, cl, fn) ==
  [base |-> base, cl |-> cl, fn |-> fn, code |-> Prologue[fn]]

Mem == [rc |-> rc, dying |-> dying]

\* The counts and the condemned objects a handler leaves behind.
Becomes(m) == rc' = m.rc /\ dying' = m.dying

Free == {o \in Obj : class[o] = "free" /\ o \notin dying}

Top      == frames[Len(frames)]
Local(i) == stk[Top.base + i]       \* slots[i]
Get(i)   == stk[sp - i]             \* rak_fiber_get
Cells(o) == {o} \X (1..len[o])

\* The machine is at an instruction op of the top frame.
At(op) ==
  /\ status = "running" /\ dying = {}
  /\ frames # <<>> /\ Top.code # <<>>
  /\ Head(Top.code).op = op

A == Head(Top.code).a
B == Head(Top.code).b

\* What the compiler promises of the operands: no code checks it, and an
\* instruction for which it fails has no step here (a deadlock to TLC).
IsLocal(i)  == Top.base + i <= sp
Operands(n) == Top.base + n <= sp
IsLocalRef(i) == IsLocal(i) /\ Local(i).type = "ref" /\ Local(i).data \in 1..sp

IsCallable(v) == v.type = "closure" /\ class[v.data] \in Fun

\* ip + 1, in the top frame.
Advance == frames' = [frames EXCEPT ![Len(frames)].code = Tail(@)]

\* err is set: the run loop leaves the stack and the heap as they are.
Raise == status' = "error" /\ UNCHANGED frames

Continue == Advance /\ UNCHANGED status

\* The handler fails before it has changed anything.
Fail == Raise /\ UNCHANGED <<stk, sp, heapVars, rc, dying>>

\* rak_fiber_push_value over the stack s0: the retain follows the push.
PushValue(s0, v) ==
  \/ /\ sp < MaxSlots
     /\ stk' = [s0 EXCEPT ![sp + 1] = v]
     /\ sp' = sp + 1
     /\ Becomes(Retain(Mem, v))
     /\ Continue
     /\ UNCHANGED heapVars
  \/ /\ sp = MaxSlots
     /\ stk' = s0
     /\ Raise
     /\ UNCHANGED <<sp, heapVars, rc, dying>>

\* RAK_FLAG_SHARED is set from the count at this moment.
Flagged(v) == IF IsObject(v) /\ rc[v.data] > 1 THEN AsShared(v) ELSE v

\* The stack after the n top slots are dropped and v is left at sp - n.
Collapse(n, v) ==
  /\ stk' = [s \in Slot |-> IF s < sp - n THEN stk[s]
                            ELSE IF s = sp - n THEN v ELSE Nil]
  /\ sp' = sp - n

\* Mutant: the slice of a new array is filled, but its length is not set.
AllocateUnsized(o, n, elem) ==
  /\ class' = [class EXCEPT ![o] = "array"]
  /\ cell' = [c \in Cell |-> IF c[1] # o THEN cell[c]
                             ELSE IF c[2] <= n THEN elem[c[2]] ELSE Nil]
  /\ UNCHANGED len

\* A fresh array o of n elements, elem[1] to elem[n].
Allocate(o, n, elem) ==
  /\ class' = [class EXCEPT ![o] = "array"]
  /\ len' = [len EXCEPT ![o] = n]
  /\ cell' = [c \in Cell |-> IF c[1] # o THEN cell[c]
                             ELSE IF c[2] <= n THEN elem[c[2]] ELSE Nil]

-----------------------------------------------------------------------------
(***************************************************************************)
(* Pushing and popping.                                                    *)
(***************************************************************************)
PushNil == At("PUSH_NIL") /\ PushValue(stk, Nil)

PushInt == At("PUSH_INT") /\ PushValue(stk, Number(A))

LoadGlobal ==
  /\ At("LOAD_GLOBAL")
  /\ A \in 1..len[stk[0].data]
  /\ PushValue(stk, cell[<<stk[0].data, A>>])

LoadLocal == At("LOAD_LOCAL") /\ IsLocal(A) /\ PushValue(stk, Local(A))

\* The copy that a write goes through is flagged when the value is shared.
FetchLocal ==
  /\ At("FETCH_LOCAL")
  /\ IsLocal(A)
  /\ PushValue(stk, Flagged(Local(A)))

\* Taking &x flags x itself, not the copy, and the flag stays.
RefWith(w) ==
  /\ At("REF_LOCAL")
  /\ IsLocal(A)
  /\ PushValue([stk EXCEPT ![Top.base + A] = w], RefTo(Top.base + A))

\* Mutants: the count is not looked at.
RefLocalUnflagged     == RefWith(Local(A))
RefLocalAlwaysFlagged == RefWith(AsShared(Local(A)))

RefLocal == RefWith(Flagged(Local(A)))

LoadLocalRef ==
  /\ At("LOAD_LOCAL_REF")
  /\ IsLocalRef(A)
  /\ PushValue(stk, stk[Local(A).data])

Pop ==
  /\ At("POP")
  /\ Operands(1)
  /\ stk' = [stk EXCEPT ![sp] = Nil]
  /\ sp' = sp - 1
  /\ Becomes(Release(Mem, Get(0)))
  /\ Continue
  /\ UNCHANGED heapVars

\* The top of the stack moves into slot t, whose content is released.
StoreInto(t) ==
  /\ t < sp
  /\ stk' = [stk EXCEPT ![t] = Get(0), ![sp] = Nil]
  /\ sp' = sp - 1
  /\ Becomes(Release(Mem, stk[t]))
  /\ Continue
  /\ UNCHANGED heapVars

\* Mutant: locals are numbered from the slot below the frame.
StoreLocalOneBelow == At("STORE_LOCAL") /\ StoreInto(Top.base + A - 1)

StoreLocal == At("STORE_LOCAL") /\ StoreInto(Top.base + A)

StoreLocalRef ==
  /\ At("STORE_LOCAL_REF")
  /\ IsLocalRef(A)
  /\ StoreInto(Local(A).data)

\* The old value is released before the new one is retained.
Move ==
  /\ At("MOVE")
  /\ IsLocal(A) /\ IsLocal(B)
  /\ stk' = [stk EXCEPT ![Top.base + A] = Local(B)]
  /\ Becomes(Retain(Release(Mem, Local(A)), Local(B)))
  /\ Continue
  /\ UNCHANGED <<sp, heapVars>>

-----------------------------------------------------------------------------
(***************************************************************************)
(* Arrays.                                                                 *)
(***************************************************************************)
\* The n top values move into a new array: no element is retained.
NewArray ==
  /\ At("NEW_ARRAY")
  /\ A \in Idx /\ Operands(A)
  /\ \/ \E o \in Free :
          /\ Allocate(o, A, [i \in 1..A |-> stk[sp - A + i]])
          /\ Collapse(A - 1, Array(o))
          /\ Becomes(Retain(Mem, Array(o)))
          /\ Continue
     \/ Free = {} /\ Fail

\* The literal [].  The array is pushed without a look at whether there was
\* memory for it: if there was none, a NULL is left on the stack, and the tear-
\* down of the fiber crashes on it.  On a full stack the array is not given back.
NewEmptyArray ==
  /\ At("NEW_ARRAY") /\ A = 0
  /\ \/ /\ sp < MaxSlots
        /\ \E o \in Free :
             /\ Allocate(o, 0, <<>>)
             /\ stk' = [stk EXCEPT ![sp + 1] = Array(o)]
             /\ Becomes(Retain(Mem, Array(o)))
        /\ sp' = sp + 1
        /\ Continue
     \/ /\ sp = MaxSlots
        /\ \E o \in Free : Allocate(o, 0, <<>>)
        /\ Raise
        /\ UNCHANGED <<stk, sp, rc, dying>>
     \/ sp = MaxSlots /\ Free = {} /\ Fail
     \/ /\ sp < MaxSlots /\ Free = {}
        /\ status' = "crashed"
        /\ UNCHANGED <<stk, sp, heapVars, rc, dying, frames>>

\* val2 selects an element of the array val1.
InRange(val1, val2) ==
  /\ val1.type = "array" /\ val2.type = "number"
  /\ val2.data + 1 \in 1..len[val1.data]

Element(val1, val2) == cell[<<val1.data, val2.data + 1>>]

GetElement ==
  /\ At("GET_ELEMENT")
  /\ Operands(2)
  /\ LET res == Element(Get(1), Get(0)) IN
     \/ /\ InRange(Get(1), Get(0))
        /\ Becomes(Release(Retain(Mem, res), Get(1)))
        /\ Collapse(1, res)
        /\ Continue
        /\ UNCHANGED heapVars
     \/ ~InRange(Get(1), Get(0)) /\ Fail

LoadElement ==
  /\ At("LOAD_ELEMENT")
  /\ Operands(2)
  /\ \/ InRange(Get(1), Get(0)) /\ PushValue(stk, Element(Get(1), Get(0)))
     \/ ~InRange(Get(1), Get(0)) /\ Fail

\* Mutant: only the count of the element itself is looked at.
FetchedUnderUnshared(arr, res) == Flagged(res)

\* As FETCH_LOCAL, and what lies below a shared array is shared.
Fetched(arr, res) == IF arr.shared THEN AsShared(res) ELSE Flagged(res)

FetchElement ==
  /\ At("FETCH_ELEMENT")
  /\ Operands(2)
  /\ LET res == Element(Get(1), Get(0)) IN
     \/ InRange(Get(1), Get(0)) /\ PushValue(stk, Fetched(Get(1), res))
     \/ ~InRange(Get(1), Get(0)) /\ Fail

\* Mutant: the element that is replaced is retained too.
KeptAll(arr, i) == Cells(arr)

\* The elements a copy of arr with a new one at i keeps.
Kept(arr, i) == Cells(arr) \ {<<arr, i>>}

\* rak_array_set: a copy of the array arr but for val3 at i, left at sp - 2.
CopyAndSet(arr, i, val3) ==
  \/ \E o \in Free :
       LET m1 == RetainAll(Mem, cell, Kept(arr, i))
           m2 == Retain(Retain(m1, val3), Array(o))
           elem == [j \in 1..len[arr] |->
                      IF j = i THEN val3 ELSE cell[<<arr, j>>]]
       IN  /\ Allocate(o, len[arr], elem)
           /\ Becomes(Release(Release(m2, Get(2)), val3))
           /\ Collapse(2, Array(o))
           /\ Continue
  \/ Free = {} /\ Fail

\* rak_array_inplace_set
SetInPlace(arr, i, val3) ==
  /\ cell' = [cell EXCEPT ![<<arr, i>>] = val3]
  /\ Becomes(Release(Release(Retain(Mem, val3), cell[<<arr, i>>]), val3))
  /\ Collapse(2, Get(2))
  /\ Continue
  /\ UNCHANGED <<len, class>>

\* The copy-on-write decision trusts the flag the fetch left on val1.
WriteElement(val1, val2, val3) ==
  \/ val1.shared /\ CopyAndSet(val1.data, val2.data + 1, val3)
  \/ ~val1.shared /\ SetInPlace(val1.data, val2.data + 1, val3)

SetElement ==
  /\ At("SET_ELEMENT")
  /\ Operands(3)
  /\ \/ InRange(Get(2), Get(1)) /\ WriteElement(Get(2), Get(1), Get(0))
     \/ ~InRange(Get(2), Get(1)) /\ Fail

\* The bounds were checked when the element was loaded or fetched.
UpdateElement ==
  /\ At("UPDATE_ELEMENT")
  /\ Operands(3) /\ InRange(Get(2), Get(1))
  /\ WriteElement(Get(2), Get(1), Get(0))

\* let [x1, ..., xA] = e: the array is below the A positions to take.
UnpackElements ==
  /\ At("UNPACK_ELEMENTS")
  /\ Operands(A + 1)
  /\ LET val == Get(A)
         n == A
         taken == {i \in 1..n : i <= len[val.data]}
         from(i) == <<val.data, Get(n - i).data + 1>>
     IN \/ /\ val.type = "array"
           /\ \A i \in 1..n : Get(n - i).type = "number"
           /\ \A i \in taken : from(i) \in Cells(val.data)
           /\ stk' = [s \in Slot |->
                        IF s < sp - n THEN stk[s]
                        ELSE IF s - (sp - n) + 1 \in taken
                             THEN cell[from(s - (sp - n) + 1)] ELSE Nil]
           /\ sp' = sp - 1
           /\ Becomes(Release(RetainAll(Mem, [i \in taken |-> cell[from(i)]], taken),
                              val))
           /\ Continue
           /\ UNCHANGED heapVars
        \/ val.type # "array" /\ Fail

-----------------------------------------------------------------------------
(***************************************************************************)
(* Operators that take two operands and leave one.                         *)
(***************************************************************************)
\* rak_fiber_set(fiber, 1, res), then rak_fiber_pop: neither operand survives.
Combine(res) ==
  /\ Becomes(Release(Release(Mem, Get(1)), Get(0)))
  /\ Collapse(1, res)
  /\ Continue
  /\ UNCHANGED heapVars

\* Which of the two booleans comes out is left open.
Eq == At("EQ") /\ Operands(2) /\ \E b \in {0, 1} : Combine(Bool(b))

\* rak_array_new_copy, then rak_array_inplace_concat.
Concat(arr1, arr2) ==
  LET n1 == len[arr1]
      n  == len[arr1] + len[arr2]
      elem == [i \in 1..n |->
                 IF i <= n1 THEN cell[<<arr1, i>>] ELSE cell[<<arr2, i - n1>>]]
  IN \/ /\ n <= MaxLen
        /\ \E o \in Free :
             LET m1 == RetainAll(Mem, cell, Cells(arr1))
                 m2 == RetainAll(m1, cell, Cells(arr2))
                 m3 == Release(Retain(m2, Array(o)), Get(1))
             IN  /\ Allocate(o, n, elem)
                 /\ Becomes(Release(m3, Get(0)))
                 /\ Collapse(1, Array(o))
                 /\ Continue
     \/ (n > MaxLen \/ Free = {}) /\ Fail

BothAre(type) == Get(1).type = type /\ Get(0).type = type

Add ==
  /\ At("ADD")
  /\ Operands(2)
  /\ \/ BothAre("number") /\ \E n \in 0..MaxNum : Combine(Number(n))
     \/ BothAre("array") /\ Concat(Get(1).data, Get(0).data)
     \/ ~BothAre("number") /\ ~BothAre("array") /\ Fail

-----------------------------------------------------------------------------
(***************************************************************************)
(* Calls.                                                                  *)
(***************************************************************************)
\* Mutants: one argument too many is cut, and none is released.
AdjustedShort(c, k) == [s \in Slot |-> IF s < c + k THEN stk[s] ELSE Nil]
ExtraNone(c, k)     == {}

\* The arguments above slot c are cut or padded to the arity k of the callee.
Adjusted(c, k) == [s \in Slot |-> IF s <= c + k THEN stk[s] ELSE Nil]
Extra(c, k)    == {s \in Slot : s > c + k /\ s <= sp}

\* The slots of the frame at base b that k arguments of a tail call overwrite.
Overwritten(b, k) == (b + 1)..(b + k)

RefsGiven(c, f) == \A i \in Inouts[f] : stk[c + i].type = "ref"

NewClosure ==
  /\ At("NEW_CLOSURE")
  /\ \/ /\ sp < MaxSlots
        /\ \E o \in Free :
             /\ class' = [class EXCEPT ![o] = A]
             /\ stk' = [stk EXCEPT ![sp + 1] = Closure(o)]
             /\ sp' = sp + 1
             /\ Becomes(Retain(Mem, Closure(o)))
        /\ Continue
        /\ UNCHANGED <<cell, len>>
     \/ (Free = {} \/ sp = MaxSlots) /\ Fail

\* rak_vm_call.  The arguments are adjusted before the refs are checked.
Call ==
  /\ At("CALL")
  /\ Operands(A + 1)
  /\ LET c == sp - A
         val == stk[c]
         f == class[val.data]
         k == Arity[f]
     IN \/ (val.type # "closure" \/ Len(frames) = MaxFrames) /\ Fail
        \/ /\ IsCallable(val) /\ Len(frames) < MaxFrames
           /\ stk' = Adjusted(c, k)
           /\ Becomes(ReleaseAll(Mem, stk, Extra(c, k)))
           /\ UNCHANGED heapVars
           /\ \/ /\ c + k <= MaxSlots /\ RefsGiven(c, f)
                 /\ sp' = c + k
                 /\ frames' = Append([frames EXCEPT ![Len(frames)].code = Tail(@)],
                                     Entry(c, val.data, f))
                 /\ UNCHANGED status
              \/ c + k <= MaxSlots /\ ~RefsGiven(c, f) /\ sp' = c + k /\ Raise
              \/ c + k > MaxSlots /\ sp' = MaxSlots /\ Raise

\* rak_vm_tail_call.  The callee and its k arguments move down onto the
\* slots of the running frame.  What these held is released up to slot k,
\* and the stack is cut there.
TailCall ==
  /\ At("TAIL_CALL")
  /\ Operands(A + 1)
  /\ LET c == sp - A
         val == stk[c]
         f == class[val.data]
         k == Arity[f]
         b == Top.base
         m1 == ReleaseAll(Mem, stk, Extra(c, k))
         m2 == Release(m1, Closure(Top.cl))
         args == Adjusted(c, k)
     IN \/ val.type # "closure" /\ Fail
        \/ /\ IsCallable(val) /\ c + k <= MaxSlots /\ RefsGiven(c, f)
           /\ stk' = [s \in Slot |-> IF s < b THEN stk[s]
                                     ELSE IF s <= b + k THEN args[s - b + c]
                                     ELSE Nil]
           /\ sp' = b + k
           /\ Becomes(ReleaseAll(m2, args, Overwritten(b, k)))
           /\ frames' = [frames EXCEPT ![Len(frames)] = Entry(b, val.data, f)]
           /\ UNCHANGED <<heapVars, status>>
        \/ /\ IsCallable(val) /\ c + k <= MaxSlots /\ ~RefsGiven(c, f)
           /\ stk' = args /\ sp' = c + k
           /\ Becomes(m1)
           /\ Raise
           /\ UNCHANGED heapVars
        \/ /\ IsCallable(val) /\ c + k > MaxSlots
           /\ stk' = args /\ sp' = MaxSlots
           /\ Raise
           /\ UNCHANGED <<heapVars, rc, dying>>

\* The frame is left: res takes the slot of the closure, and the content of
\* the slots of above is released.
ReturnReleasing(s0, above, m, res) ==
  /\ stk' = [s \in Slot |-> IF s < Top.base THEN s0[s]
                            ELSE IF s = Top.base THEN res ELSE Nil]
  /\ sp' = Top.base
  /\ Becomes(ReleaseAll(Release(m, Closure(Top.cl)), s0, above))
  /\ frames' = SubSeq(frames, 1, Len(frames) - 1)
  /\ status' = IF Len(frames) = 1 THEN "done" ELSE status

\* Mutant: the slot of the result is released with the frame.
ReturnReleasingResult(s0, h, m, res) ==
  ReturnReleasing(s0, (Top.base + 1)..(IF h > MaxSlots THEN MaxSlots ELSE h), m, res)

\* rak_fiber_return, with res on top of the stack s0 of height h.
Return(s0, h, m, res) == ReturnReleasing(s0, (Top.base + 1)..(h - 1), m, res)

ReturnTop ==
  /\ At("RETURN")
  /\ Operands(1)
  /\ Return(stk, sp, Mem, Get(0))
  /\ UNCHANGED heapVars

ReturnNil ==
  /\ At("RETURN_NIL")
  /\ \/ sp < MaxSlots /\ Return(stk, sp + 1, Mem, Nil) /\ UNCHANGED heapVars
     \/ sp = MaxSlots /\ Fail

-----------------------------------------------------------------------------
(***************************************************************************)
(* The native append(&xs, val).                                            *)
(***************************************************************************)
\* Pushing the result of a native, then rak_fiber_return.
ReturnValue(s0, m, res) ==
  \/ /\ sp < MaxSlots
     /\ Return(s0, sp + 1, Retain(m, res), res)
  \/ /\ sp = MaxSlots
     /\ stk' = s0
     /\ Becomes(m)
     /\ UNCHANGED sp
     /\ Raise

\* A shared array is copied, and the old one loses the count of the slot but
\* is not freed; otherwise the array grows in place.
AppendTo(t, arr, val2) ==
  LET n == len[arr]
      elem == [i \in 1..(n + 1) |-> IF i <= n THEN cell[<<arr, i>>] ELSE val2]
  IN \/ /\ n < MaxLen /\ stk[t].shared
        /\ \E o \in Free :
             LET m1 == Retain(RetainAll(Mem, cell, Cells(arr)), val2)
                 m2 == Drop(Retain(m1, Array(o)), stk[t])
             IN  /\ Allocate(o, n + 1, elem)
                 /\ ReturnValue([stk EXCEPT ![t] = Array(o)], m2, Array(o))
     \/ /\ n < MaxLen /\ ~stk[t].shared
        /\ cell' = [cell EXCEPT ![<<arr, n + 1>>] = val2]
        /\ len' = [len EXCEPT ![arr] = n + 1]
        /\ UNCHANGED class
        /\ ReturnValue(stk, Retain(Mem, val2), stk[t])
     \/ (n = MaxLen \/ (stk[t].shared /\ Free = {})) /\ Fail

AppendNative ==
  /\ At("APPEND")
  /\ Operands(2)
  /\ LET t == Local(1).data IN
     \/ /\ IsLocalRef(1) /\ stk[t].type = "array"
        /\ AppendTo(t, stk[t].data, Local(2))
     \/ (Local(1).type # "ref" \/ (IsLocalRef(1) /\ stk[t].type # "array")) /\ Fail

-----------------------------------------------------------------------------
(***************************************************************************)
(* The natives array(val, n, cap) and len(val).                            *)
(***************************************************************************)
\* An array of n times the first argument, which is not retained.
Fill(n) ==
  \/ /\ n <= MaxLen
     /\ \E o \in Free :
          /\ Allocate(o, n, [i \in 1..n |-> Local(1)])
          /\ ReturnValue(stk, Mem, Array(o))
  \/ (n > MaxLen \/ Free = {}) /\ Fail

ArrayNative ==
  /\ At("ARRAY")
  /\ Operands(3)
  /\ \/ Local(2).type = "nil" /\ Fill(0)
     \/ /\ Local(2).type = "number" /\ Local(3).type \in {"nil", "number"}
        /\ Fill(Local(2).data)
     \/ Local(2).type \notin {"nil", "number"} /\ Fail
     \/ /\ Local(2).type = "number" /\ Local(3).type \notin {"nil", "number"}
        /\ Fail

\* Of the values here only arrays have a length.
LenNative ==
  /\ At("LEN")
  /\ Operands(1)
  /\ \/ /\ Local(1).type = "array"
        /\ ReturnValue(stk, Mem, Number(len[Local(1).data]))
        /\ UNCHANGED heapVars
     \/ Local(1).type # "array" /\ Fail

-----------------------------------------------------------------------------
(***************************************************************************)
(* The run of a script, from main() to rak_fiber_deinit.                   *)
(***************************************************************************)
\* The frame goes on with one of the statements of its function.
NextStatement ==
  /\ status = "running" /\ dying = {}
  /\ frames # <<>> /\ Top.code = <<>>
  /\ \E s \in Stmts[Top.fn] :
       frames' = [frames EXCEPT ![Len(frames)].code = s]
  /\ UNCHANGED <<stk, sp, heapVars, rc, dying, status>>

\* rak_array_free or rak_closure_free on a condemned object: its elements are
\* released, then its memory is given back.
FreeObject ==
  \E o \in dying :
    /\ Becomes(ReleaseAll([rc |-> rc, dying |-> dying \ {o}], cell, Cells(o)))
    /\ cell' = [c \in Cell |-> IF c[1] = o THEN Nil ELSE cell[c]]
    /\ len' = [len EXCEPT ![o] = 0]
    /\ class' = [class EXCEPT ![o] = "free"]
    /\ UNCHANGED <<stk, sp, frames, status>>

\* rak_fiber_deinit, after the script is done or has failed.
Deinit ==
  /\ status \in {"done", "error"} /\ dying = {}
  /\ Becomes(ReleaseAll(Mem, stk, 0..sp))
  /\ stk' = [s \in Slot |-> Nil]
  /\ sp' = 0
  /\ frames' = <<>>
  /\ status' = "ended"
  /\ UNCHANGED heapVars

Ended == status \in {"ended", "crashed"} /\ dying = {} /\ UNCHANGED vars

\* The position of the native whose closure is at o.
NativesAt(o) == {i \in 1..Len(NativeObjs) : NativeObjs[i] = o}

\* main(): the globals hold the closures of the natives, the fiber holds the
\* globals and the closure of the script.
Init ==
  /\ stk = [s \in Slot |-> IF s = 0 THEN Array(GlobalsObj)
                           ELSE IF s = 1 THEN Closure(MainObj) ELSE Nil]
  /\ sp = 1
  /\ cell = [c \in Cell |-> IF c[1] = GlobalsObj /\ c[2] <= Len(NativeObjs)
                            THEN Closure(NativeObjs[c[2]]) ELSE Nil]
  /\ len = [o \in Obj |-> IF o = GlobalsObj THEN Len(NativeObjs) ELSE 0]
  /\ class = [o \in Obj |-> IF o = GlobalsObj THEN "array"
                            ELSE IF o = MainObj THEN Main
                            ELSE IF NativesAt(o) = {} THEN "free"
                            ELSE Natives[CHOOSE i \in NativesAt(o) : TRUE]]
  /\ rc = [o \in Obj |-> IF o \in {GlobalsObj, MainObj} \/ NativesAt(o) # {}
                         THEN 1 ELSE 0]
  /\ dying = {}
  /\ frames = <<Entry(1, MainObj, Main)>>
  /\ status = "running"

Stack == PushNil \/ PushInt \/ LoadGlobal \/ LoadLocal \/ StoreLocal \/ FetchLocal
           \/ RefLocal \/ LoadLocalRef \/ StoreLocalRef \/ Move \/ Pop
Arrays == NewArray \/ NewEmptyArray \/ GetElement \/ SetElement \/ LoadElement
            \/ FetchElement \/ UpdateElement \/ UnpackElements \/ Eq \/ Add
Calls == NewClosure \/ Call \/ TailCall \/ ReturnTop \/ ReturnNil
Builtins == AppendNative \/ ArrayNative \/ LenNative

Next == Stack \/ Arrays \/ Calls \/ Builtins \/ NextStatement \/ FreeObject \/ Deinit \/ Ended

Spec == Init /\ [][Next]_vars

-----------------------------------------------------------------------------
(***************************************************************************)
(* Correctness.                                                            *)
(***************************************************************************)
\* What a script must respect for the counts to be right, because no handler
\* checks it: no variable is assigned to itself, no running function is
\* assigned to, a call in tail position finds exactly the arguments of the
\* running function below it, as many as it passes, and array() does not fill
\* an array with an object.
Disciplined ==
  /\ At("MOVE") => A # B /\ A # 0
  /\ At("STORE_LOCAL") => A # 0
  /\ At("STORE_LOCAL_REF") /\ IsLocalRef(A) =>
       \A i \in 1..Len(frames) : frames[i].base # Local(A).data
  /\ At("TAIL_CALL") /\ stk[sp - A].type = "closure" =>
       sp - A = Top.base + Arity[class[stk[sp - A].data]] + 1
  /\ At("ARRAY") /\ Operands(3) /\ Local(2).type = "number" =>
       Local(2).data = 0 \/ ~IsObject(Local(1))

\* What it must respect besides for all memory to be freed in time: an array
\* that append() copies for its flag has another holder to keep it, and array()
\* and the literal [] find a slot for their result.
Thrifty ==
  /\ At("APPEND") /\ IsLocalRef(1) /\ stk[Local(1).data].type = "array"
       /\ stk[Local(1).data].shared => rc[stk[Local(1).data].data] > 1
  /\ At("ARRAY") => sp < MaxSlots
  /\ At("NEW_ARRAY") /\ A = 0 => sp < MaxSlots

StackOK ==
  /\ stk \in [Slot -> Value] /\ sp \in Slot
  /\ \A s \in Slot : s > sp => stk[s] = Nil
  /\ status # "ended" => stk[0] = Array(GlobalsObj)

HeapOK ==
  /\ cell \in [Cell -> Value]
  /\ len \in [Obj -> 0..MaxLen]
  /\ class \in [Obj -> {"free", "array"} \cup Fun]
  /\ \A c \in Cell : c[2] > len[c[1]] => cell[c] = Nil

CountsOK == rc \in [Obj -> Int] /\ dying \subseteq Obj

ControlOK ==
  /\ frames \in Seq(Frame)
  /\ status \in {"running", "done", "error", "crashed", "ended"}

\* Every variable has its type; the unused slots, the cells past the end of
\* an array and those of free memory are empty; the globals stay in their slot.
TypeOK == StackOK /\ HeapOK /\ CountsOK /\ ControlOK

\* The count of an object is the number of stack slots and array elements
\* that hold it: no handler forgets a retain or releases twice.
RefCountExact ==
  \A o \in Obj : rc[o] = Occ(stk, Slot, o) + Occ(cell, Cell, o)

\* The type of a value agrees with what is at its address: an array value is
\* never read as a closure, nor a value of either type from free memory.
TypesAgree(v) ==
  IsObject(v) => \/ v.type = "array" /\ class[v.data] = "array"
                 \/ v.type = "closure" /\ class[v.data] \in Fun

\* No value outlives the object it was made for: when an address is given to
\* another object, nothing on the stack or in an array still takes it for the
\* first one.
WellTyped ==
  /\ \A s \in Slot : TypesAgree(stk[s])
  /\ \A c \in Cell : TypesAgree(cell[c])

\* Nothing refers to memory that is free, or about to be: no use after free.
NoDangling ==
  \A o \in Obj : class[o] = "free" \/ o \in dying =>
    Occ(stk, Slot, o) = 0 /\ Occ(cell, Cell, o) = 0

\* What nothing holds is freed at once, never kept until the program ends.
Reclaimed ==
  \A o \in Obj : rc[o] = 0 => class[o] = "free" \/ o \in dying

\* An empty array that nothing has ever held.
Unclaimed(o) == class[o] = "array" /\ len[o] = 0 /\ rc[o] = 0

\* Copy on write keeps arrays from containing themselves, so that counting
\* references is enough to free everything when the fiber is torn down, but for
\* the empty array of a [] that found the stack full.
NoLeak ==
  status = "ended" /\ dying = {} =>
    \A o \in Obj : class[o] = "free" \/ Unclaimed(o)

\* A reference names a slot below the one it is in, and never a slot that
\* holds another reference: it cannot outlive the variable it refers to.
RefsAimBelow ==
  /\ \A s \in 1..sp : stk[s].type = "ref" =>
       stk[s].data \in 1..(s - 1) /\ stk[stk[s].data].type # "ref"
  /\ \A c \in Cell : cell[c].type # "ref"

\* The frames lie one above the other, and the closure whose code a frame
\* runs is still in the bottom slot of the frame, where RETURN and TAIL_CALL
\* release it.
FramesAnchored ==
  /\ \A i \in 1..Len(frames) :
       /\ frames[i].base <= sp
       /\ Holds(stk[frames[i].base], frames[i].cl)
       /\ class[frames[i].cl] = frames[i].fn
  /\ \A i, j \in 1..Len(frames) : i < j => frames[i].base < frames[j].base
==============================================================================
