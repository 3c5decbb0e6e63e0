------------------------------ MODULE RakMemory ------------------------------
(***************************************************************************)
(* Values and reference counts (src/include/rak/value.h, src/src/value.c). *)
(*                                                                         *)
(* A value is what RakValue is: a type, an opaque word and the SHARED      *)
(* flag.  The word of an object is its address in the heap, the word of a  *)
(* ref is the number of a stack slot.  Numbers stand for every scalar      *)
(* whose payload matters, "bool" for the two booleans.                     *)
(*                                                                         *)
(* The operators below thread a memory record [rc, dying] through the      *)
(* retains and releases of a handler in the order the handler makes them.  *)
(* An object whose count a release brings to zero is put in dying: C frees *)
(* it there and then, and nothing a later retain does brings it back.      *)
(***************************************************************************)
EXTENDS Integers, FiniteSets

CONSTANT Obj    \* the addresses rak_memory_alloc can return

ASSUME ObjAssumption == IsFiniteSet(Obj)

ScalarType == {"nil", "bool", "number", "ref"}
ObjectType == {"string", "range", "array", "record", "closure", "fiber"}

Value == [type : ScalarType, data : Nat, shared : BOOLEAN]
           \cup [type : ObjectType, data : Obj, shared : BOOLEAN]

Nil       == [type |-> "nil",     data |-> 0, shared |-> FALSE]
Bool(b)   == [type |-> "bool",    data |-> b, shared |-> FALSE]
Number(n) == [type |-> "number",  data |-> n, shared |-> FALSE]
RefTo(s)  == [type |-> "ref",     data |-> s, shared |-> FALSE]
Str(o)    == [type |-> "string",  data |-> o, shared |-> FALSE]
RangeOf(o) == [type |-> "range",   data |-> o, shared |-> FALSE]
Array(o)  == [type |-> "array",   data |-> o, shared |-> FALSE]
Record(o) == [type |-> "record",  data |-> o, shared |-> FALSE]
Closure(o) == [type |-> "closure", data |-> o, shared |-> FALSE]
Fiber(o) == [type |-> "fiber",   data |-> o, shared |-> FALSE]

IsObject(v)  == v.type \in ObjectType
AsShared(v)  == [v EXCEPT !.shared = TRUE]

\* v is a reference the count of o must account for.
Holds(v, o) == IsObject(v) /\ v.data = o

\* How many of the locations of S hold o, when f gives the content of each.
Occ(f, S, o) == Cardinality({l \in S : Holds(f[l], o)})

-----------------------------------------------------------------------------
\* rak_value_retain: a scalar or a ref owns nothing.
Retain(m, v) ==
  [rc    |-> [o \in Obj |-> IF Holds(v, o) THEN m.rc[o] + 1 ELSE m.rc[o]],
   dying |-> m.dying]

\* rak_value_release, down to the call of rak_array_free or rak_closure_free.
Release(m, v) ==
  [rc    |-> [o \in Obj |-> IF Holds(v, o) THEN m.rc[o] - 1 ELSE m.rc[o]],
   dying |-> m.dying \cup {o \in Obj : Holds(v, o) /\ m.rc[o] = 1}]

\* A loop that retains the content of every location of S.
RetainAll(m, f, S) ==
  [rc    |-> [o \in Obj |-> m.rc[o] + Occ(f, S, o)],
   dying |-> m.dying]

\* A loop that releases the content of every location of S: an object dies
\* when its count passes through zero on the way.
ReleaseAll(m, f, S) ==
  [rc    |-> [o \in Obj |-> m.rc[o] - Occ(f, S, o)],
   dying |-> m.dying \cup {o \in Obj : m.rc[o] \in 1..Occ(f, S, o)}]

\* A bare --obj->refCount, which frees nothing.
Drop(m, v) ==
  [rc    |-> [o \in Obj |-> IF Holds(v, o) THEN m.rc[o] - 1 ELSE m.rc[o]],
   dying |-> m.dying]
==============================================================================
