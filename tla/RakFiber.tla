------------------------------- MODULE RakFiber -------------------------------
(***************************************************************************)
(* Fibers: coroutines that a script creates with fiber(), enters with      *)
(* resume() and leaves with yield (src/src/fiber.c, src/include/rak/       *)
(* fiber.h, and the natives fiber and resume of src/src/builtin.c).        *)
(*                                                                         *)
(* The C stack of the interpreter is a chain: run() of the fiber of        *)
(* main(), in it the native resume, in it resume() of a second fiber, and  *)
(* so on.  Only the innermost fiber executes instructions; the others wait *)
(* in their native.  RakVM is one such fiber seen closely; here a fiber    *)
(* has the few instructions that move fibers about.                        *)
(*                                                                         *)
(* The array of arguments of fiber() has one element at most, and that     *)
(* element stands for it.                                                  *)
(***************************************************************************)
EXTENDS RakMemory, Sequences

CONSTANTS
  Root,       \* the fiber of main(), which is not in the heap
  Fun,        \* the functions of the script, and the natives
  Main,       \* the function of the script itself
  Arity,      \* [Fun -> Nat]: callable->arity
  Inouts,     \* [Fun -> SUBSET Nat]: callable->inouts, as argument positions
  Prologue,   \* [Fun -> Seq(Instr)]: the let statements it starts with
  Stmts,      \* [Fun -> SUBSET Seq(Instr)]: the statements it then runs
  Instr,      \* the instructions that occur in them
  FunOf,      \* the closures there are at the start, with their functions
  MainObj,    \* the closure of the script among them,
  Globals,    \* those of the natives, held by the array of globals,
  Declared,   \* those the declarations of the script have left in its slots
  GlobalsObj, \* the address of the array of globals
  MaxSlots,   \* bound: capacity of a value stack (vstkSize)
  MaxFrames   \* bound: capacity of a call stack (cstkSize)

ASSUME FiberAssumption ==
  /\ Root \notin Obj /\ GlobalsObj \in Obj \ DOMAIN FunOf
  /\ DOMAIN FunOf \subseteq Obj /\ MainObj \in DOMAIN FunOf /\ FunOf[MainObj] = Main
  /\ \A o \in DOMAIN FunOf : FunOf[o] \in Fun
  /\ Globals \in Seq(DOMAIN FunOf) /\ Declared \in Seq(DOMAIN FunOf)
  /\ \A i \in Instr : i \in [op : STRING, a : Nat, b : Nat]
  /\ Main \in Fun /\ Arity \in [Fun -> Nat]
  /\ Prologue \in [Fun -> Seq(Instr)] /\ \A f \in Fun : Stmts[f] \subseteq Seq(Instr)
  /\ {"free", "fiber", "array"} \cap Fun = {}

\* The stacks have their default sizes: a new fiber has room for its arguments.
ASSUME SizeAssumption ==
  /\ MaxSlots \in Nat /\ MaxFrames \in Nat /\ MaxFrames >= 1
  /\ \A f \in Fun : MaxSlots >= 2 + Arity[f]
  /\ MaxSlots > Len(Declared)

FiberId == Obj \cup {Root}

\* The slots of the script once its functions are declared, and the elements of
\* the array of globals.
Declarations == <<Closure(MainObj)>> \o [i \in DOMAIN Declared |-> Closure(Declared[i])]
GlobalsHeld == [i \in DOMAIN Globals |-> Closure(Globals[i])]

\* Each of the closures there are at the start is held once.
ASSUME StartAssumption ==
  \A o \in DOMAIN FunOf :
    Occ(Declarations, DOMAIN Declarations, o) + Occ(GlobalsHeld, DOMAIN GlobalsHeld, o) = 1

VARIABLES
  stk,      \* [FiberId -> Seq(Value)]: vstk
  cstk,     \* [FiberId -> Seq(Frame)]: cstk
  status,   \* [FiberId -> {"suspended", "running", "done"}]
  chain,    \* the activations of run() and resume() on the C stack
  err,      \* !rak_is_ok(err)
  class,    \* [Obj -> {"free", "fiber", "array"} \cup Fun]
  rc,       \* [Obj -> Int]: obj.refCount
  dying     \* the objects a release has condemned and free has not yet visited

vars == <<stk, cstk, status, chain, err, class, rc, dying>>

-----------------------------------------------------------------------------
Frame == [base : Nat, cl : Obj, fn : Fun, code : Seq(Instr)]

Entry(base, cl, fn) ==
  [base |-> base, cl |-> cl, fn |-> fn, code |-> Prologue[fn]]

LastOf(s)  == s[Len(s)]
ButLast(s)   == SubSeq(s, 1, Len(s) - 1)
Mem        == [rc |-> rc, dying |-> dying]
Becomes(m) == rc' = m.rc /\ dying' = m.dying
Free       == {o \in Obj : class[o] = "free" /\ o \notin dying}

Me       == LastOf(chain)           \* the fiber that executes
TopOf(f) == LastOf(cstk[f])
Top      == TopOf(Me)
Stack    == stk[Me]
Local(i) == Stack[Top.base + i]     \* slots[i]

At(op) ==
  /\ chain # <<>> /\ ~err /\ dying = {}
  /\ status[Me] = "running" /\ cstk[Me] # <<>> /\ Top.code # <<>>
  /\ Head(Top.code).op = op

A == Head(Top.code).a

\* The top frame has a slot i: what the compiler promises of its operands, and
\* no code checks.
HasLocal(i) == Top.base + i <= Len(Stack)

Raise == err' = TRUE /\ UNCHANGED <<cstk, status, chain>>
Fail  == Raise /\ UNCHANGED <<stk, class, rc, dying>>

\* ip + 1, in the top frame of the fiber that executes.
Advanced == [cstk EXCEPT ![Me][Len(cstk[Me])].code = Tail(@)]
Continue == cstk' = Advanced /\ UNCHANGED <<status, chain, err>>

-----------------------------------------------------------------------------
(***************************************************************************)
(* Instructions.                                                           *)
(***************************************************************************)
\* rak_fiber_push_value
PushValue(v) ==
  \/ /\ Len(Stack) < MaxSlots
     /\ stk' = [stk EXCEPT ![Me] = Append(@, v)]
     /\ Becomes(Retain(Mem, v))
     /\ Continue
     /\ UNCHANGED class
  \/ Len(Stack) = MaxSlots /\ Fail

PushNil    == At("PUSH_NIL") /\ PushValue(Nil)
PushInt    == At("PUSH_INT") /\ PushValue(Number(A))
LoadGlobal ==
  At("LOAD_GLOBAL") /\ A \in DOMAIN Globals /\ PushValue(Closure(Globals[A]))
LoadLocal  == At("LOAD_LOCAL") /\ HasLocal(A) /\ PushValue(Local(A))

Pop ==
  /\ At("POP") /\ HasLocal(1)
  /\ stk' = [stk EXCEPT ![Me] = ButLast(@)]
  /\ Becomes(Release(Mem, LastOf(Stack)))
  /\ Continue
  /\ UNCHANGED class

StoreLocal ==
  /\ At("STORE_LOCAL") /\ A # 0 /\ HasLocal(A + 1)
  /\ stk' = [stk EXCEPT ![Me] = ButLast([Stack EXCEPT ![Top.base + A] = LastOf(Stack)])]
  /\ Becomes(Release(Mem, Local(A)))
  /\ Continue
  /\ UNCHANGED class

RefsGiven(s, base, f) == \A i \in Inouts[f] : s[base + i].type = "ref"

\* The arguments above the closure at c are cut or padded to k.
Adjusted(s, c, k) == [i \in 1..(c + k) |-> IF i <= Len(s) THEN s[i] ELSE Nil]

Call ==
  /\ At("CALL") /\ HasLocal(A + 1)
  /\ LET c == Len(Stack) - A
         val == Stack[c]
         f == class[val.data]
         s == Adjusted(Stack, c, Arity[f])
     IN \/ (val.type # "closure" \/ Len(cstk[Me]) = MaxFrames) /\ Fail
        \/ /\ val.type = "closure" /\ Len(cstk[Me]) < MaxFrames
           /\ Len(s) <= MaxSlots
           /\ stk' = [stk EXCEPT ![Me] = s]
           /\ Becomes(ReleaseAll(Mem, Stack, (Len(s) + 1)..Len(Stack)))
           /\ UNCHANGED class
           /\ \/ /\ RefsGiven(s, c, f)
                 /\ cstk' = [Advanced EXCEPT ![Me] = Append(@, Entry(c, val.data, f))]
                 /\ UNCHANGED <<status, chain, err>>
              \/ ~RefsGiven(s, c, f) /\ Raise
        \/ /\ val.type = "closure" /\ Len(cstk[Me]) < MaxFrames
           /\ Len(s) > MaxSlots
           /\ stk' = [stk EXCEPT ![Me] = SubSeq(s, 1, MaxSlots)]
           /\ Raise
           /\ UNCHANGED <<class, rc, dying>>

\* rak_fiber_return from the frame fr, when s is the stack below the result res:
\* res moves to the slot of the closure, and the rest of the frame is released.
Returned(s, fr, res) == Append(SubSeq(s, 1, fr.base - 1), res)

\* Mutant: the slot above the closure is not released.
DroppedFromSecond(m, s, fr) ==
  ReleaseAll(Release(m, Closure(fr.cl)), s, (fr.base + 2)..Len(s))

\* Mutant: the slot of the closure is released with the others.
DroppedFromBase(m, s, fr) == ReleaseAll(Release(m, Closure(fr.cl)), s, fr.base..Len(s))

Dropped(m, s, fr) == ReleaseAll(Release(m, Closure(fr.cl)), s, (fr.base + 1)..Len(s))

Return ==
  /\ At("RETURN") /\ HasLocal(1)
  /\ stk' = [stk EXCEPT ![Me] = Returned(@, Top, LastOf(@))]
  /\ Becomes(Dropped(Mem, ButLast(Stack), Top))
  /\ cstk' = [cstk EXCEPT ![Me] = ButLast(@)]
  /\ UNCHANGED <<status, chain, err, class>>

\* The value yielded stays on the stack.
Yield ==
  /\ At("YIELD") /\ HasLocal(1)
  /\ status' = [status EXCEPT ![Me] = "suspended"]
  /\ cstk' = Advanced
  /\ UNCHANGED <<stk, chain, err, class, rc, dying>>

-----------------------------------------------------------------------------
(***************************************************************************)
(* The natives.                                                            *)
(***************************************************************************)
\* The stack rak_fiber_init gives to a fiber of the closure val1.
InitialStack(val1, val2) ==
  Adjusted(IF val2.type = "nil" THEN <<val1>> ELSE <<val1, val2>>,
           1, Arity[class[val1.data]])

\* Mutant: the new fiber is pushed on its own stack.
CreatedOnItself(s, o) ==
  [stk EXCEPT ![o] = Append(s, Fiber(o)), ![Me] = Returned(@, Top, LastOf(@))]

\* The fiber o starts with the stack s, and the native returns it.
Created(s, o) == [stk EXCEPT ![o] = s, ![Me] = Returned(@, Top, Fiber(o))]

\* fiber(val1, val2).  A failing rak_fiber_init forgets what it has retained.
FiberNative ==
  /\ At("FIBER") /\ HasLocal(2)
  /\ LET val1 == Local(1)
         val2 == Local(2)
         f == class[val1.data]
         s == InitialStack(val1, val2)
         m == RetainAll(Mem, s, DOMAIN s)
     IN \/ val1.type # "closure" /\ Fail
        \/ val1.type = "closure" /\ Free = {} /\ Fail
        \/ /\ val1.type = "closure" /\ Free # {} /\ ~RefsGiven(s, 1, f)
           /\ Becomes(m)
           /\ Raise
           /\ UNCHANGED <<stk, class>>
        \/ /\ val1.type = "closure" /\ RefsGiven(s, 1, f)
           /\ Len(Stack) = MaxSlots /\ Free # {}
           /\ Fail       \* rak_fiber_free undoes rak_fiber_new
        \/ /\ val1.type = "closure" /\ RefsGiven(s, 1, f)
           /\ Len(Stack) < MaxSlots
           /\ \E o \in Free :
                /\ class' = [class EXCEPT ![o] = "fiber"]
                /\ stk' = Created(s, o)
                /\ cstk' = [cstk EXCEPT ![o] = <<Entry(1, val1.data, f)>>,
                                        ![Me] = ButLast(@)]
                /\ status' = [status EXCEPT ![o] = "suspended"]
                /\ Becomes(Dropped(Retain(Retain(m, Array(GlobalsObj)), Fiber(o)),
                                   Stack, Top))
           /\ UNCHANGED <<chain, err>>

\* resume(val), up to the call of rak_fiber_resume.
Resume ==
  /\ At("RESUME") /\ HasLocal(1)
  /\ LET val == Local(1) IN
     \/ val.type # "fiber" /\ Fail
     \/ val.type = "fiber" /\ status[val.data] # "suspended" /\ Fail
     \/ /\ val.type = "fiber" /\ status[val.data] = "suspended"
        /\ status' = [status EXCEPT ![val.data] = "running"]
        /\ chain' = Append(chain, val.data)
        /\ UNCHANGED <<stk, cstk, err, class, rc, dying>>

\* The loop of resume() ends, its fiber suspended or at the end of its code,
\* and the native takes the value on top of its stack to the resumer's.
HandOver ==
  /\ Len(chain) > 1 /\ ~err /\ dying = {}
  /\ status[Me] = "suspended" \/ cstk[Me] = <<>>
  /\ chain' = ButLast(chain)
  /\ status' = [status EXCEPT ![Me] = IF cstk[Me] = <<>> THEN "done" ELSE @]
  /\ LET p == LastOf(ButLast(chain))
         fr == TopOf(p)
         res == LastOf(Stack)
     IN \/ /\ Len(stk[p]) < MaxSlots
           /\ stk' = [stk EXCEPT ![Me] = ButLast(@), ![p] = Returned(@, fr, res)]
           /\ Becomes(Dropped(Release(Retain(Mem, res), res), stk[p], fr))
           /\ cstk' = [cstk EXCEPT ![p] = ButLast(@)]
           /\ UNCHANGED <<err, class>>
        \/ /\ Len(stk[p]) = MaxSlots
           /\ err' = TRUE
           /\ UNCHANGED <<stk, cstk, class, rc, dying>>

-----------------------------------------------------------------------------
(***************************************************************************)
(* The run loops and main().                                               *)
(***************************************************************************)
\* Mutants: the value stays on the stack; any fiber goes on after a yield.
RootContinuesWithValue ==
  /\ chain = <<Root>> /\ ~err /\ status[Root] = "suspended"
  /\ status' = [status EXCEPT ![Root] = "running"]
  /\ UNCHANGED <<stk, cstk, chain, err, class, rc, dying>>

AnyContinues ==
  /\ chain # <<>> /\ ~err /\ status[Me] = "suspended"
  /\ stk' = [stk EXCEPT ![Me] = ButLast(@)]
  /\ Becomes(Release(Mem, LastOf(Stack)))
  /\ status' = [status EXCEPT ![Me] = "running"]
  /\ UNCHANGED <<cstk, chain, err, class>>

\* run(): a yield of the outermost fiber goes nowhere, and the script goes on.
RootContinues ==
  /\ chain = <<Root>> /\ ~err /\ status[Root] = "suspended"
  /\ stk' = [stk EXCEPT ![Root] = ButLast(@)]
  /\ Becomes(Release(Mem, LastOf(stk[Root])))
  /\ status' = [status EXCEPT ![Root] = "running"]
  /\ UNCHANGED <<cstk, chain, err, class>>

\* run(): no frame is left.
RootDone ==
  /\ chain = <<Root>> /\ ~err /\ dying = {} /\ cstk[Root] = <<>>
  /\ status' = [status EXCEPT ![Root] = "done"]
  /\ chain' = <<>>
  /\ UNCHANGED <<stk, cstk, err, class, rc, dying>>

\* Mutant: the fiber keeps its status.
UnwindRunning ==
  /\ chain # <<>> /\ err /\ dying = {}
  /\ chain' = ButLast(chain)
  /\ UNCHANGED <<stk, cstk, status, err, class, rc, dying>>

\* An error ends one activation after the other, and with it its fiber.
Unwind ==
  /\ chain # <<>> /\ err /\ dying = {}
  /\ status' = [status EXCEPT ![Me] = "done"]
  /\ chain' = ButLast(chain)
  /\ UNCHANGED <<stk, cstk, err, class, rc, dying>>

\* The frame goes on with one of the statements of its function.
NextStatement ==
  /\ chain # <<>> /\ ~err /\ dying = {}
  /\ status[Me] = "running" /\ cstk[Me] # <<>> /\ Top.code = <<>>
  /\ \E s \in Stmts[Top.fn] : cstk' = [cstk EXCEPT ![Me][Len(cstk[Me])].code = s]
  /\ UNCHANGED <<stk, status, chain, err, class, rc, dying>>

\* Mutant: a stack outlives its fiber.
Uncleared(s, o) == s

Cleared(s, o) == [s EXCEPT ![o] = <<>>]

Ended == chain = <<>> /\ stk[Root] = <<>>

\* rak_fiber_deinit of the fiber of main().
Deinit ==
  /\ chain = <<>> /\ ~Ended /\ dying = {}
  /\ Becomes(ReleaseAll(Release(Mem, Array(GlobalsObj)), stk[Root], DOMAIN stk[Root]))
  /\ stk' = Cleared(stk, Root)
  /\ cstk' = Cleared(cstk, Root)
  /\ UNCHANGED <<status, chain, err, class>>

\* What an object holds: a fiber its stack and the globals, the array of
\* globals the natives.
\* Mutant: the stack of a fiber is freed, not what is on it.
HeldGlobalsOnly(o) == IF class[o] = "fiber" THEN <<Array(GlobalsObj)>>
                      ELSE IF class[o] = "array" THEN GlobalsHeld
                      ELSE <<>>

Held(o) == IF class[o] = "fiber" THEN Append(stk[o], Array(GlobalsObj))
           ELSE IF class[o] = "array" THEN GlobalsHeld
           ELSE <<>>

\* rak_fiber_free, rak_array_free or rak_closure_free on a condemned object.
FreeObject ==
  \E o \in dying :
    /\ Becomes(ReleaseAll([rc |-> rc, dying |-> dying \ {o}], Held(o), DOMAIN Held(o)))
    /\ class' = [class EXCEPT ![o] = "free"]
    /\ stk' = Cleared(stk, o)
    /\ cstk' = Cleared(cstk, o)
    /\ status' = [status EXCEPT ![o] = "done"]
    /\ UNCHANGED <<chain, err>>

Stop == Ended /\ dying = {} /\ UNCHANGED vars

\* The script is about to run, its functions declared.
Init ==
  /\ stk = [f \in FiberId |-> IF f = Root THEN Declarations ELSE <<>>]
  /\ cstk = [f \in FiberId |-> IF f = Root THEN <<Entry(1, MainObj, Main)>> ELSE <<>>]
  /\ status = [f \in FiberId |-> IF f = Root THEN "running" ELSE "done"]
  /\ chain = <<Root>>
  /\ err = FALSE
  /\ class = [o \in Obj |-> IF o \in DOMAIN FunOf THEN FunOf[o]
                            ELSE IF o = GlobalsObj THEN "array" ELSE "free"]
  /\ rc = [o \in Obj |-> IF o \in DOMAIN FunOf \/ o = GlobalsObj THEN 1 ELSE 0]
  /\ dying = {}

Instructions == PushNil \/ PushInt \/ LoadGlobal \/ LoadLocal \/ Pop \/ StoreLocal
                  \/ Call \/ Return \/ Yield \/ FiberNative \/ Resume
Loops == HandOver \/ RootContinues \/ RootDone \/ Unwind \/ NextStatement
           \/ Deinit \/ FreeObject \/ Stop

Next == Instructions \/ Loops

Spec == Init /\ [][Next]_vars

\* The interpreter keeps running: nothing in it waits.
FairSpec == Spec /\ WF_vars(Next)

-----------------------------------------------------------------------------
(***************************************************************************)
(* Correctness.                                                            *)
(***************************************************************************)
\* Every variable has its type; no stack is over its size, and those of what is
\* no fiber are empty.
TypeOK ==
  /\ stk \in [FiberId -> Seq(Value)] /\ cstk \in [FiberId -> Seq(Frame)]
  /\ status \in [FiberId -> {"suspended", "running", "done"}]
  /\ chain \in Seq(FiberId) /\ err \in BOOLEAN
  /\ class \in [Obj -> {"free", "fiber", "array"} \cup Fun]
  /\ rc \in [Obj -> Int] /\ dying \subseteq Obj
  /\ \A f \in FiberId : Len(stk[f]) <= MaxSlots /\ Len(cstk[f]) <= MaxFrames
  /\ \A o \in Obj : class[o] # "fiber" => stk[o] = <<>> /\ cstk[o] = <<>>

Fibers == {o \in Obj : class[o] = "fiber"} \cup (IF Ended THEN {} ELSE {Root})

\* The locations of the live stacks.
Places == UNION {{f} \X DOMAIN stk[f] : f \in Fibers}

\* The count of an object is the number of places that hold it, over all
\* fibers, whichever of them is executing, and the array of globals is held once
\* by every fiber: a value that passes from one stack to another is counted once.
\* (Once an error is set the script only unwinds, and a fiber that could not be
\* created has lost what it retained.)
RefCountExact ==
  ~err =>
    LET places == Places
        content == [p \in places |-> stk[p[1]][p[2]]]
    IN \A o \in Obj :
         rc[o] = Occ(content, places, o)
              + (IF class[GlobalsObj] = "array"
                 THEN Occ(GlobalsHeld, DOMAIN GlobalsHeld, o) ELSE 0)
              + (IF o = GlobalsObj THEN Cardinality(Fibers) ELSE 0)

\* What a live stack holds is in memory, and so is the closure of every frame: no
\* fiber waits with a value or in a function that another one has had freed, also
\* after an error, when the frames stay and only rak_fiber_deinit is still to run.
NoDangling ==
  LET alive(o) == class[o] # "free" /\ o \notin dying IN
    \A f \in Fibers \ dying :
      /\ \A i \in DOMAIN stk[f] : IsObject(stk[f][i]) => alive(stk[f][i].data)
      /\ \A i \in DOMAIN cstk[f] : alive(cstk[f][i].cl)

\* The fibers that are running are those of the chain, each of them there once;
\* each waits in the native resume for the next, which its frame keeps alive:
\* a fiber is never entered twice, nor freed while C code runs on its stacks.
ChainSound ==
  /\ \A i, j \in DOMAIN chain : i # j => chain[i] # chain[j]
  /\ \A f \in FiberId : status[f] = "running" => \E i \in DOMAIN chain : chain[i] = f
  /\ \A i \in 1..(Len(chain) - 1) :
       LET f == chain[i] fr == TopOf(f) IN
         /\ status[f] = "running" /\ fr.code # <<>> /\ Head(fr.code).op = "RESUME"
         /\ stk[f][fr.base + 1] = Fiber(chain[i + 1])
         /\ class[chain[i + 1]] = "fiber"

\* How many slots the variables of a function take.
Locals(fn) ==
  Arity[fn] + Len(Prologue[fn]) + (IF fn = Main THEN Len(Declared) ELSE 0)

\* Between two statements the stack of a fiber holds the variables of its
\* function and nothing else, but for the value it is about to hand over: what is
\* yielded leaves the stack once, on the way to the resumer, or in the run loop
\* when there is none, and the statement after the yield finds its variables.
StacksLevel ==
  \A f \in Fibers :
    ~err /\ cstk[f] # <<>> /\ TopOf(f).code = <<>> =>
      Len(stk[f]) = TopOf(f).base + Locals(TopOf(f).fn)
                      + (IF chain # <<>> /\ f = Me /\ status[f] = "suspended"
                         THEN 1 ELSE 0)

\* No fiber is reachable from its own stack: a fiber only gets hold of fibers
\* there were before it, or that were made below it.  So a chain cannot meet
\* itself, and counting references is enough to free every fiber.
Acyclic ==
  \A S \in SUBSET {o \in Obj : class[o] = "fiber"} :
    S # {} => \E o \in S : \A f \in S : Occ(stk[f], DOMAIN stk[f], o) = 0

\* After the fiber of main() is torn down no object is left if the script ended,
\* and no fiber nor the globals if it failed, in whichever fiber.
NoLeak ==
  Ended /\ dying = {} =>
    \A o \in Obj : class[o] = "free" \/ (err /\ class[o] \in Fun)

\* Every resume comes to an end: the fiber that is entered yields, returns or
\* fails, and so do those it enters in turn, so that control is back in the
\* outermost fiber again and again.
ResumeReturns == []<>(Len(chain) <= 1)
==============================================================================
