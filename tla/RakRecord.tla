------------------------------ MODULE RakRecord ------------------------------
(***************************************************************************)
(* Records, strings and ranges (src/src/record.c, string.c, range.c) and   *)
(* the handlers of src/include/rak/vm.h that work on them, in one frame:   *)
(* what calls and references add is studied in RakVM.                      *)
(*                                                                         *)
(* A record is a sequence of fields, each a key string and a value, and    *)
(* owns both.  Keys are compared by content.  The constants of the chunk   *)
(* are strings that the chunk holds until the function is freed.  As in    *)
(* RakVM the code is the sequence of instructions still to run, and when   *)
(* it is empty any statement of the script follows.                        *)
(***************************************************************************)
EXTENDS RakMemory, Sequences, FiniteSetsExt

CONSTANTS
  Char,       \* the characters strings are made of
  Consts,     \* Seq(Obj): the strings of chunk->consts
  Texts,      \* Seq(Seq(Char)): their contents
  Locals,     \* how many variables the script declares, all nil at first
  Stmts,      \* SUBSET Seq(Instr): its statements
  Instr,      \* the instructions that occur in them
  MaxSlots,   \* bound: capacity of the value stack (vstkSize)
  MaxFields,  \* bound: longest record the allocator can serve
  MaxText,    \* bound: longest string the allocator can serve
  MaxNum      \* bound: largest number an arithmetic result is taken from

ASSUME ConstsAssumption ==
  /\ Consts \in Seq(Obj) /\ Texts \in Seq(Seq(Char)) /\ Len(Consts) = Len(Texts)
  /\ \A i, j \in 1..Len(Consts) : i # j => Consts[i] # Consts[j]

ASSUME ScriptAssumption ==
  /\ \A i \in Instr : i \in [op : STRING, a : Nat, b : Nat]
  /\ Stmts \subseteq Seq(Instr)

ASSUME LimitAssumption ==
  /\ MaxSlots \in Nat /\ Locals \in 0..MaxSlots
  /\ MaxFields \in Nat /\ MaxText \in Nat /\ MaxNum \in Nat

Slot == 1..MaxSlots

VARIABLES
  stk,      \* [Slot -> Value]: the slots of the frame
  sp,       \* the number of live slots
  heap,     \* [Obj -> Body]: the content of the objects
  rc,       \* [Obj -> Int]: obj.refCount
  dying,    \* the objects a release has condemned and free has not yet visited
  code,     \* the instructions the frame has still to run
  status    \* "running", then "error", "done" or "crashed", then "ended"

vars == <<stk, sp, heap, rc, dying, code, status>>

-----------------------------------------------------------------------------
(***************************************************************************)
(* Objects.                                                                *)
(***************************************************************************)
Field == [name : Obj, val : Value]

Body == [class : {"free"}]
          \cup [class : {"string"}, text : Seq(Char)]
          \cup [class : {"range"}, start : Nat, end : Nat]
          \cup [class : {"record"}, fields : Seq(Field)]

FreeBody       == [class |-> "free"]
StringBody(t)  == [class |-> "string", text |-> t]
RangeBody(m, n) == [class |-> "range", start |-> m, end |-> n]
RecordBody(fs) == [class |-> "record", fields |-> fs]

Mem == [rc |-> rc, dying |-> dying]
Becomes(m) == rc' = m.rc /\ dying' = m.dying

Free == {o \in Obj : heap[o].class = "free" /\ o \notin dying}

Text(o)   == heap[o].text
Fields(o) == IF heap[o].class = "record" THEN heap[o].fields ELSE <<>>

\* Mutant: strings are compared by address.
SameObject(o1, o2) == o1 = o2

\* rak_string_equals
SameText(o1, o2) == o1 = o2 \/ Text(o1) = Text(o2)

\* Mutant: the search stops one field early.
NamedButLast(fs, name) == {i \in 1..(Len(fs) - 1) : SameText(fs[i].name, name)}

\* The fields of fs that have this name: rak_record_index_of finds the first.
Named(fs, name) == {i \in 1..Len(fs) : SameText(fs[i].name, name)}

\* What a record owns: its keys and its values.
Names(fs) == [i \in 1..Len(fs) |-> Str(fs[i].name)]
Vals(fs)  == [i \in 1..Len(fs) |-> fs[i].val]

\* Mutant: the fields of a record that is freed are forgotten.
KeepParts(m, fs) == m

RetainParts(m, fs) ==
  RetainAll(RetainAll(m, Names(fs), 1..Len(fs)), Vals(fs), 1..Len(fs))
ReleaseParts(m, fs) ==
  ReleaseAll(ReleaseAll(m, Names(fs), 1..Len(fs)), Vals(fs), 1..Len(fs))

\* rak_record_inplace_put, on the fields alone.
With(fs, name, val) ==
  IF Named(fs, name) = {} THEN Append(fs, [name |-> name, val |-> val])
  ELSE [fs EXCEPT ![Min(Named(fs, name))].val = val]

-----------------------------------------------------------------------------
(***************************************************************************)
(* The frame.                                                              *)
(***************************************************************************)
At(op) ==
  /\ status = "running" /\ dying = {}
  /\ code # <<>> /\ Head(code).op = op

A == Head(code).a
B == Head(code).b

Get(i)      == stk[sp - i]
Operands(n) == n <= sp
Name        == Consts[A]        \* the key a field instruction names
HasConst    == A \in 1..Len(Consts)

Continue == code' = Tail(code) /\ UNCHANGED status
Raise    == status' = "error" /\ UNCHANGED code
Fail     == Raise /\ UNCHANGED <<stk, sp, heap, rc, dying>>

\* The stack after the n top slots are dropped and v is left at sp - n.
Collapse(n, v) ==
  /\ stk' = [s \in Slot |-> IF s < sp - n THEN stk[s]
                            ELSE IF s = sp - n THEN v ELSE Nil]
  /\ sp' = sp - n

\* rak_fiber_push_value of v over the stack s0 and the counts m.
PushOver(s0, m, v) ==
  \/ /\ sp < MaxSlots
     /\ stk' = [s0 EXCEPT ![sp + 1] = v]
     /\ sp' = sp + 1
     /\ Becomes(Retain(m, v))
     /\ Continue
     /\ UNCHANGED heap
  \/ /\ sp = MaxSlots
     /\ stk' = s0
     /\ Becomes(m)
     /\ Raise
     /\ UNCHANGED <<sp, heap>>

PushValue(v) == PushOver(stk, Mem, v)

\* RAK_FLAG_SHARED is set from the count at this moment.
Flagged(v) == IF IsObject(v) /\ rc[v.data] > 1 THEN AsShared(v) ELSE v

\* Mutant: only the count of the field itself is looked at.
FetchedUnderUnshared(whole, v) == Flagged(v)

\* What lies below a shared record is shared.
Fetched(whole, v) == IF whole.shared THEN AsShared(v) ELSE Flagged(v)

-----------------------------------------------------------------------------
(***************************************************************************)
(* Pushing, popping and arithmetic, as in RakVM.                           *)
(***************************************************************************)
PushInt == At("PUSH_INT") /\ PushValue(Number(A))

LoadConst == At("LOAD_CONST") /\ HasConst /\ PushValue(Str(Name))

LoadLocal == At("LOAD_LOCAL") /\ A \in 1..sp /\ PushValue(stk[A])

FetchLocal == At("FETCH_LOCAL") /\ A \in 1..sp /\ PushValue(Flagged(stk[A]))

StoreLocal ==
  /\ At("STORE_LOCAL")
  /\ A \in 1..(sp - 1)
  /\ stk' = [stk EXCEPT ![A] = Get(0), ![sp] = Nil]
  /\ sp' = sp - 1
  /\ Becomes(Release(Mem, stk[A]))
  /\ Continue
  /\ UNCHANGED heap

Move ==
  /\ At("MOVE")
  /\ A \in 1..sp /\ B \in 1..sp
  /\ stk' = [stk EXCEPT ![A] = stk[B]]
  /\ Becomes(Retain(Release(Mem, stk[A]), stk[B]))
  /\ Continue
  /\ UNCHANGED <<sp, heap>>

Pop ==
  /\ At("POP")
  /\ Operands(1)
  /\ stk' = [stk EXCEPT ![sp] = Nil]
  /\ sp' = sp - 1
  /\ Becomes(Release(Mem, Get(0)))
  /\ Continue
  /\ UNCHANGED heap

\* Two operands become the value res, which owns nothing of them.
Combine(res) ==
  /\ Becomes(Release(Release(Retain(Mem, res), Get(1)), Get(0)))
  /\ Collapse(1, res)
  /\ Continue
  /\ UNCHANGED heap

\* Two operands become a new string with the text t.
CombineText(t) ==
  \/ \E o \in Free :
       /\ heap' = [heap EXCEPT ![o] = StringBody(t)]
       /\ Becomes(Release(Release(Retain(Mem, Str(o)), Get(1)), Get(0)))
       /\ Collapse(1, Str(o))
       /\ Continue
  \/ Free = {} /\ Fail

BothAre(type) == Get(1).type = type /\ Get(0).type = type

\* rak_string_new_copy, then rak_string_inplace_concat on the copy.
Concat(t1, t2) ==
  \/ Len(t1) + Len(t2) <= MaxText /\ CombineText(t1 \o t2)
  \/ Len(t1) + Len(t2) > MaxText /\ Fail

\* The sum of numbers is any number, that of strings one string after the other.
Add ==
  /\ At("ADD")
  /\ Operands(2)
  /\ \/ BothAre("number") /\ \E n \in 0..MaxNum : Combine(Number(n))
     \/ BothAre("string") /\ Concat(Text(Get(1).data), Text(Get(0).data))
     \/ ~BothAre("number") /\ ~BothAre("string") /\ Fail

-----------------------------------------------------------------------------
(***************************************************************************)
(* Ranges, slices and new records.                                         *)
(***************************************************************************)
NewRange ==
  /\ At("NEW_RANGE")
  /\ Operands(2)
  /\ \/ /\ BothAre("number")
        /\ \E o \in Free :
             /\ heap' = [heap EXCEPT ![o] = RangeBody(Get(1).data, Get(0).data)]
             /\ Collapse(1, RangeOf(o))
             /\ Becomes(Retain(Mem, RangeOf(o)))
             /\ Continue
     \/ (~BothAre("number") \/ Free = {}) /\ Fail

\* The literal {}.  The record is pushed without a look at whether there was
\* memory for it, and is not given back when the stack is full.
NewEmptyRecord ==
  /\ At("NEW_RECORD") /\ A = 0
  /\ \/ /\ sp < MaxSlots
        /\ \E o \in Free :
             /\ heap' = [heap EXCEPT ![o] = RecordBody(<<>>)]
             /\ stk' = [stk EXCEPT ![sp + 1] = Record(o)]
             /\ Becomes(Retain(Mem, Record(o)))
        /\ sp' = sp + 1
        /\ Continue
     \/ /\ sp = MaxSlots
        /\ \E o \in Free : heap' = [heap EXCEPT ![o] = RecordBody(<<>>)]
        /\ Raise
        /\ UNCHANGED <<stk, sp, rc, dying>>
     \/ /\ sp = MaxSlots /\ Free = {}
        /\ Fail
     \/ /\ sp < MaxSlots /\ Free = {}
        /\ status' = "crashed"
        /\ UNCHANGED <<stk, sp, heap, rc, dying, code>>

\* The key of the i-th of A fields below the top, and its value.
KeyAt(i) == stk[sp - 2 * A + 2 * i - 1].data
ValAt(i) == stk[sp - 2 * A + 2 * i]

\* The fields that have the key of the i-th, up to j.
Alike(i, j) == {k \in 1..j : SameText(KeyAt(k), KeyAt(i))}

\* Fields that repeat the key of an earlier one, which they overwrite.
Repeats == {i \in 1..A : Alike(i, i - 1) # {}}

\* How many different keys there are up to the i-th.
Keys(i) == Cardinality(1..i \ Repeats)

\* The keys and values move from the stack into the record.  A field that
\* repeats a key retains its value once more and drops its key unreleased.
NewRecord ==
  /\ At("NEW_RECORD") /\ A > 0
  /\ Operands(2 * A)
  /\ \A i \in 1..A : stk[sp - 2 * A + 2 * i - 1].type = "string"
  /\ LET at(p) == Min({i \in 1..A : Keys(i) >= p})
         field(p) == [name |-> KeyAt(at(p)), val |-> ValAt(Max(Alike(at(p), A)))]
         given == [i \in 1..A |-> ValAt(i)]
         lost  == [i \in Repeats |-> ValAt(Max(Alike(i, i - 1)))]
         m1 == ReleaseAll(RetainAll(Mem, given, Repeats), lost, Repeats)
     IN \/ /\ A <= MaxFields
           /\ \E o \in Free :
             /\ heap' = [heap EXCEPT ![o] = RecordBody([p \in 1..Keys(A) |-> field(p)])]
             /\ Collapse(2 * A - 1, Record(o))
             /\ Becomes(Retain(m1, Record(o)))
             /\ Continue
        \/ (Free = {} \/ A > MaxFields) /\ Fail

\* rak_string_slice: empty when the range runs backwards.
Slice(t, start, end) == IF start < end THEN SubSeq(t, start + 1, end) ELSE <<>>

IsText(v)   == v.type = "string"
IsRange(v)  == v.type = "range"
IsRecord(v) == v.type = "record"

\* str[start..end], as a string of its own.
SliceString ==
  /\ IsText(Get(1)) /\ IsRange(Get(0))
  /\ LET t == Text(Get(1).data)
         r == heap[Get(0).data]
     IN \/ r.end <= Len(t) /\ CombineText(Slice(t, r.start, r.end))
        \/ r.end > Len(t) /\ Fail

\* range[i]
PickFromRange ==
  /\ IsRange(Get(1))
  /\ LET r == heap[Get(1).data] IN
     \/ /\ Get(0).type = "number" /\ r.start + Get(0).data < r.end
        /\ Combine(Number(r.start + Get(0).data))
     \/ Get(0).type # "number" /\ Fail
     \/ Get(0).type = "number" /\ r.start + Get(0).data >= r.end /\ Fail

-----------------------------------------------------------------------------
(***************************************************************************)
(* Reading a record, to use a field or to write below it.                  *)
(***************************************************************************)
HasField(v, name) == IsRecord(v) /\ Named(Fields(v.data), name) # {}
IndexOf(v, name)  == Min(Named(Fields(v.data), name))
ValueOf(v, name)  == Fields(v.data)[IndexOf(v, name)].val

\* val1[val2] is a field of a record.
Selects(val1, val2) == IsText(val2) /\ HasField(val1, val2.data)

GetElement ==
  /\ At("GET_ELEMENT")
  /\ Operands(2)
  /\ \/ SliceString
     \/ IsText(Get(1)) /\ ~IsRange(Get(0)) /\ Fail
     \/ PickFromRange
     \/ Selects(Get(1), Get(0)) /\ Combine(ValueOf(Get(1), Get(0).data))
     \/ ~IsText(Get(1)) /\ ~IsRange(Get(1)) /\ ~Selects(Get(1), Get(0)) /\ Fail

GetField ==
  /\ At("GET_FIELD")
  /\ Operands(1) /\ HasConst
  /\ \/ /\ HasField(Get(0), Name)
        /\ LET res == ValueOf(Get(0), Name) IN
           /\ Becomes(Release(Retain(Mem, res), Get(0)))
           /\ Collapse(0, res)
        /\ Continue
        /\ UNCHANGED heap
     \/ ~HasField(Get(0), Name) /\ Fail

\* Mutant: the key is replaced by its index without being released.
IndexedKeepingKey(res) ==
  PushOver([stk EXCEPT ![sp] = Number(IndexOf(Get(1), Get(0).data) - 1)], Mem, res)

\* The computed key makes way for the index of the field, then res is pushed.
Indexed(res) ==
  PushOver([stk EXCEPT ![sp] = Number(IndexOf(Get(1), Get(0).data) - 1)],
           Release(Mem, Get(0)), res)

LoadElement ==
  /\ At("LOAD_ELEMENT")
  /\ Operands(2)
  /\ \/ Selects(Get(1), Get(0)) /\ Indexed(ValueOf(Get(1), Get(0).data))
     \/ ~Selects(Get(1), Get(0)) /\ Fail

FetchElement ==
  /\ At("FETCH_ELEMENT")
  /\ Operands(2)
  /\ \/ /\ Selects(Get(1), Get(0))
        /\ Indexed(Fetched(Get(1), ValueOf(Get(1), Get(0).data)))
     \/ ~Selects(Get(1), Get(0)) /\ Fail

\* Mutant: the room for both is taken for granted once there is room for one.
PushIndexedUnchecked(res) ==
  LET s1 == [stk EXCEPT ![sp + 1] = Number(IndexOf(Get(0), Name) - 1)] IN
  \/ /\ sp < MaxSlots
     /\ stk' = [s1 EXCEPT ![sp + 2] = res]
     /\ sp' = sp + 2
     /\ Becomes(Retain(Mem, res))
     /\ Continue
     /\ UNCHANGED heap
  \/ sp = MaxSlots /\ Fail

\* The index of the field, then the value res: there may be room for one only.
PushIndexed(res) ==
  LET s1 == [stk EXCEPT ![sp + 1] = Number(IndexOf(Get(0), Name) - 1)] IN
  \/ /\ sp + 1 < MaxSlots
     /\ stk' = [s1 EXCEPT ![sp + 2] = res]
     /\ sp' = sp + 2
     /\ Becomes(Retain(Mem, res))
     /\ Continue
     /\ UNCHANGED heap
  \/ /\ sp + 1 = MaxSlots
     /\ stk' = s1
     /\ sp' = sp + 1
     /\ Raise
     /\ UNCHANGED <<heap, rc, dying>>
  \/ sp = MaxSlots /\ Fail

LoadField ==
  /\ At("LOAD_FIELD")
  /\ Operands(1) /\ HasConst
  /\ \/ HasField(Get(0), Name) /\ PushIndexed(ValueOf(Get(0), Name))
     \/ ~HasField(Get(0), Name) /\ Fail

FetchField ==
  /\ At("FETCH_FIELD")
  /\ Operands(1) /\ HasConst
  /\ \/ HasField(Get(0), Name) /\ PushIndexed(Fetched(Get(0), ValueOf(Get(0), Name)))
     \/ ~HasField(Get(0), Name) /\ Fail

-----------------------------------------------------------------------------
(***************************************************************************)
(* Writing a record, in place or by copy.                                  *)
(***************************************************************************)
\* A copy of the record below n operands, with the fields fs.
WriteCopy(n, fs) ==
  \/ \E o \in Free :
       /\ heap' = [heap EXCEPT ![o] = RecordBody(fs)]
       /\ LET m1 == Retain(RetainParts(Mem, fs), Record(o)) IN
            Becomes(Release(Release(m1, Get(n)), Get(0)))
       /\ Collapse(n, Record(o))
       /\ Continue
  \/ Free = {} /\ Fail

\* The record below n operands gets the fields fs, under the counts m.
WriteInPlace(n, fs, m) ==
  /\ heap' = [heap EXCEPT ![Get(n).data] = RecordBody(fs)]
  /\ Becomes(Release(m, Get(0)))
  /\ Collapse(n, Get(n))
  /\ Continue

\* Mutant: the value of a new field is retained, but not its key.
AddedKeyless(name, val) == Retain(Mem, val)

\* rak_record_inplace_put and rak_record_inplace_set: the counts of a field
\* that is added, and of one that is overwritten.
Added(name, val)      == Retain(Retain(Mem, Str(name)), val)
Overwritten(old, val) == Release(Retain(Mem, val), old)

\* rak_record_put or rak_record_inplace_put.  Growing the record may fail.
Put(n, name) ==
  /\ IsRecord(Get(n))
  /\ LET fs1 == Fields(Get(n).data)
         fs2 == With(fs1, name, Get(0))
     IN \/ Len(fs2) <= MaxFields /\ Get(n).shared /\ WriteCopy(n, fs2)
        \/ /\ Len(fs2) <= MaxFields /\ ~Get(n).shared
           /\ \/ ~HasField(Get(n), name) /\ WriteInPlace(n, fs2, Added(name, Get(0)))
              \/ /\ HasField(Get(n), name)
                 /\ WriteInPlace(n, fs2, Overwritten(ValueOf(Get(n), name), Get(0)))
        \/ Len(fs2) > MaxFields /\ Fail

\* rak_record_set or rak_record_inplace_set, at an index that was looked up
\* before the value was computed.
Set(n) ==
  LET fs1 == Fields(Get(n).data)
      i   == Get(1).data + 1
      fs2 == [fs1 EXCEPT ![i].val = Get(0)]
  IN /\ IsRecord(Get(n)) /\ Get(1).type = "number" /\ i \in 1..Len(fs1)
     /\ \/ Get(n).shared /\ WriteCopy(n, fs2)
        \/ ~Get(n).shared /\ WriteInPlace(n, fs2, Overwritten(fs1[i].val, Get(0)))

\* The key operand is dropped without being released.
SetElement ==
  /\ At("SET_ELEMENT")
  /\ Operands(3)
  /\ \/ IsText(Get(1)) /\ Put(2, Get(1).data)
     \/ ~(IsRecord(Get(2)) /\ IsText(Get(1))) /\ Fail

PutField ==
  /\ At("PUT_FIELD")
  /\ Operands(2) /\ HasConst
  /\ \/ Put(1, Name)
     \/ ~IsRecord(Get(1)) /\ Fail

UpdateElement == At("UPDATE_ELEMENT") /\ Operands(3) /\ Set(2)
UpdateField   == At("UPDATE_FIELD") /\ Operands(3) /\ Set(2)

\* let {x1, ..., xA} = e: the record is below the A keys to look up.  The
\* values take the slots from that of the record up; a key that is missing
\* leaves those before it in place of the record and the first keys.
UnpackFields ==
  /\ At("UNPACK_FIELDS")
  /\ A > 0 /\ Operands(A + 1)
  /\ \A i \in 1..A : IsText(stk[sp - A + i])
  /\ LET val   == Get(A)
         key(i) == stk[sp - A + i].data
         missing == {i \in 1..A : ~HasField(val, key(i))}
         n     == IF missing = {} THEN A ELSE Min(missing) - 1
         res   == [i \in 1..n |-> ValueOf(val, key(i))]
         keys  == [i \in 1..A |-> Str(key(i))]
         m1(used) == ReleaseAll(RetainAll(Mem, res, 1..n), keys, used)
         over  == [s \in Slot |-> IF s \in (sp - A)..(sp - A + n - 1)
                                  THEN res[s - (sp - A) + 1] ELSE stk[s]]
     IN \/ /\ IsRecord(val) /\ missing = {}
           /\ stk' = [over EXCEPT ![sp] = Nil]
           /\ sp' = sp - 1
           /\ Becomes(Release(m1(1..A), val))
           /\ Continue
           /\ UNCHANGED heap
        \/ /\ IsRecord(val) /\ n > 0 /\ missing # {}
           /\ stk' = over
           /\ Becomes(Release(m1(1..(n - 1)), val))
           /\ Raise
           /\ UNCHANGED <<sp, heap>>
        \/ (~IsRecord(val) \/ n = 0) /\ Fail

-----------------------------------------------------------------------------
(***************************************************************************)
(* The run of the script.                                                  *)
(***************************************************************************)
NextStatement ==
  /\ status = "running" /\ dying = {} /\ code = <<>>
  /\ \E s \in Stmts : code' = s
  /\ UNCHANGED <<stk, sp, heap, rc, dying, status>>

Finish ==
  /\ status = "running" /\ dying = {} /\ code = <<>>
  /\ status' = "done"
  /\ UNCHANGED <<stk, sp, heap, rc, dying, code>>

\* rak_record_free, rak_string_free or rak_range_free on a condemned object.
FreeObject ==
  \E o \in dying :
    /\ Becomes(ReleaseParts([rc |-> rc, dying |-> dying \ {o}], Fields(o)))
    /\ heap' = [heap EXCEPT ![o] = FreeBody]
    /\ UNCHANGED <<stk, sp, code, status>>

\* rak_fiber_deinit, then rak_chunk_deinit with the function.
Deinit ==
  /\ status \in {"done", "error"} /\ dying = {}
  /\ LET consts == [i \in 1..Len(Consts) |-> Str(Consts[i])] IN
       Becomes(ReleaseAll(ReleaseAll(Mem, stk, 1..sp), consts, 1..Len(Consts)))
  /\ stk' = [s \in Slot |-> Nil]
  /\ sp' = 0
  /\ code' = <<>>
  /\ status' = "ended"
  /\ UNCHANGED heap

Ended == status \in {"ended", "crashed"} /\ dying = {} /\ UNCHANGED vars

IsConst(o) == \E i \in 1..Len(Consts) : Consts[i] = o

Init ==
  /\ stk = [s \in Slot |-> Nil]
  /\ sp = Locals
  /\ heap = [o \in Obj |->
               IF IsConst(o)
               THEN StringBody(Texts[CHOOSE i \in 1..Len(Consts) : Consts[i] = o])
               ELSE FreeBody]
  /\ rc = [o \in Obj |-> IF IsConst(o) THEN 1 ELSE 0]
  /\ dying = {}
  /\ code = <<>>
  /\ status = "running"

Stack == PushInt \/ LoadConst \/ LoadLocal \/ FetchLocal \/ StoreLocal \/ Move
           \/ Pop \/ Add
Reads == GetElement \/ GetField \/ LoadElement \/ FetchElement \/ LoadField
           \/ FetchField \/ UnpackFields
Writes == NewRange \/ NewEmptyRecord \/ NewRecord \/ SetElement \/ PutField
            \/ UpdateElement \/ UpdateField

Next == Stack \/ Reads \/ Writes \/ NextStatement \/ Finish \/ FreeObject
          \/ Deinit \/ Ended

Spec == Init /\ [][Next]_vars

-----------------------------------------------------------------------------
(***************************************************************************)
(* Correctness.                                                            *)
(***************************************************************************)
\* Every variable has its type, and unused slots are empty.
TypeOK ==
  /\ stk \in [Slot -> Value] /\ sp \in 0..MaxSlots
  /\ \A s \in Slot : s > sp => stk[s] = Nil
  /\ heap \in [Obj -> Body]
  /\ rc \in [Obj -> Int] /\ dying \subseteq Obj
  /\ code \in Seq(Instr)
  /\ status \in {"running", "error", "done", "crashed", "ended"}

\* The fields of all records, and those that hold o as a key or as a value.
AllFields == UNION {{p} \X (1..Len(Fields(p))) : p \in Obj}

InNames(o) == {l \in AllFields : Fields(l[1])[l[2]].name = o}
InVals(o)  == {l \in AllFields : Holds(Fields(l[1])[l[2]].val, o)}

Holders(o) ==
  Occ(stk, Slot, o) + Cardinality(InNames(o)) + Cardinality(InVals(o))
    + (IF IsConst(o) /\ status # "ended" THEN 1 ELSE 0)

\* What a script must respect for the counts to be right, because no handler
\* checks it: no variable is assigned to itself.
Disciplined == At("MOVE") => A # B

\* Nothing holds memory that is free, or about to be, be it by a key.
NoDangling ==
  \A o \in Obj : heap[o].class = "free" \/ o \in dying => Holders(o) = 0

\* No record has two fields of the same name: a put finds the field there is,
\* also when the key at hand is another string with the same characters.
KeysDistinct ==
  \A p \in Obj : \A i, j \in 1..Len(Fields(p)) :
    i # j => Text(Fields(p)[i].name) # Text(Fields(p)[j].name)
==============================================================================
