---------------------------- MODULE RakFiberSafety ----------------------------
(***************************************************************************)
(* Proofs about RakFiber, concluded: every step keeps FiberInv, and fibers *)
(* keep one another without cycles.                                        *)
(***************************************************************************)
EXTENDS RakFiberProofs

-----------------------------------------------------------------------------
(***************************************************************************)
(* What the invariant says of a state in which a fiber runs.               *)
(***************************************************************************)
LEMMA FiberFacts ==
  ASSUME TypeOK, NEW f \in FiberId
  PROVE  /\ stk[f] \in Seq(Value) /\ Len(stk[f]) \in Nat /\ Len(stk[f]) <= MaxSlots
         /\ cstk[f] \in Seq(Frame) /\ Len(cstk[f]) \in Nat /\ Len(cstk[f]) <= MaxFrames
         /\ MaxSlots \in Nat /\ MaxFrames \in Nat
         /\ IsFiniteSet(DOMAIN stk[f])
<1>1. stk[f] \in Seq(Value) /\ cstk[f] \in Seq(Frame) BY DEF TypeOK
<1>2. Len(stk[f]) <= MaxSlots /\ Len(cstk[f]) <= MaxFrames BY DEF TypeOK
<1>3. MaxSlots \in Nat /\ MaxFrames \in Nat BY SizeAssumption DEF SizeAssumption
<1> QED BY <1>1, <1>2, <1>3, LenProperties, OnStackInterval

LEMMA ClassNames ==
  /\ "free" \notin Fun /\ "fiber" \notin Fun /\ "array" \notin Fun
  /\ Root \notin Obj /\ GlobalsObj \in Obj /\ IsFiniteSet(Obj)
  BY FiberAssumption, ObjAssumption DEF FiberAssumption, ObjAssumption

LEMMA FibersFinite ==
  /\ IsFiniteSet(Fibers) /\ Fibers \subseteq FiberId
<1>1. IsFiniteSet(Obj \cup {Root})
  BY ClassNames, FS_AddElement
<1>2. Fibers \subseteq FiberId BY DEF Fibers, FiberId
<1> QED BY <1>1, <1>2, FS_Subset DEF FiberId

LEMMA FiberStacks ==
  ASSUME TypeOK
  PROVE  Stacks(Fibers, stk)
  BY FibersFinite, FiberFacts DEF Stacks

\* A fiber with the stack s, the frames c and the status st waits for the fiber q.
Waits(s, c, st, cl, q) ==
  /\ st = "running" /\ LastOf(c).code # <<>> /\ Head(LastOf(c).code).op = "RESUME"
  /\ s[LastOf(c).base + 1] = Fiber(q) /\ cl[q] = "fiber"

LEMMA ChainSoundNow ==
  ChainSound <=>
    /\ \A i, j \in DOMAIN chain : i # j => chain[i] # chain[j]
    /\ \A f \in FiberId : status[f] = "running" => \E i \in DOMAIN chain : chain[i] = f
    /\ \A i \in 1..(Len(chain) - 1) :
         Waits(stk[chain[i]], cstk[chain[i]], status[chain[i]], class, chain[i + 1])
  BY DEF ChainSound, Waits, TopOf

LEMMA ChainSoundNext ==
  ChainSound' <=>
    /\ \A i, j \in DOMAIN chain' : i # j => chain'[i] # chain'[j]
    /\ \A f \in FiberId : status'[f] = "running" => \E i \in DOMAIN chain' : chain'[i] = f
    /\ \A i \in 1..(Len(chain') - 1) :
         Waits(stk'[chain'[i]], cstk'[chain'[i]], status'[chain'[i]], class', chain'[i + 1])
  BY DEF ChainSound, Waits, TopOf

LEMMA ChainFacts ==
  ASSUME TypeOK, Standing, chain # <<>>
  PROVE  /\ Len(chain) \in Nat /\ Len(chain) >= 1 /\ Me = chain[Len(chain)]
         /\ Len(chain) \in 1..Len(chain)
         /\ \A i \in 1..Len(chain) :
              /\ chain[i] \in FiberId
              /\ chain[i] # Root => chain[i] \in Obj /\ class[chain[i]] = "fiber"
              /\ chain[i] \in Fibers
         /\ \A i \in 1..(Len(chain) - 1) : chain[i] # Me
         /\ Me \in FiberId /\ Me \in Fibers
         /\ Me # Root => Me \in Obj /\ class[Me] = "fiber"
<1> DEFINE n == Len(chain)
<1>1. chain \in Seq(FiberId) BY DEF TypeOK
<1>2. n \in Nat /\ n >= 1 /\ Me = chain[n] /\ DOMAIN chain = 1..n
  BY <1>1, LastFacts, LenProperties DEF Me
<1>3. ASSUME NEW i \in 1..n
      PROVE  /\ chain[i] \in FiberId
             /\ chain[i] # Root => chain[i] \in Obj /\ class[chain[i]] = "fiber"
             /\ chain[i] \in Fibers
  <2>1. chain[i] \in FiberId BY <1>1, ElementOfSeq
  <2>2. CASE i = 1
    <3>1. chain[i] = Root BY <2>2 DEF Standing
    <3> QED BY <2>1, <3>1 DEF Fibers, Ended
  <2>3. CASE i # 1
    <3>1. (i - 1) \in 1..(n - 1) /\ (i - 1) + 1 = i BY <1>2, <2>3
    <3>2. class[chain[(i - 1) + 1]] = "fiber" BY <3>1 DEF Standing, ChainSound
    <3>3. class[chain[i]] = "fiber" BY <3>1, <3>2
    <3> QED BY <2>1, <3>3 DEF Fibers, Ended, FiberId
  <2> QED BY <2>2, <2>3
<1>4. n \in 1..n BY <1>2
<1>5. ASSUME NEW i \in 1..(n - 1) PROVE chain[i] # Me
  <2>1. i \in 1..n /\ i # n
    <3>1. n \in Nat BY <1>2
    <3> HIDE DEF n
    <3> QED BY <3>1
  <2> QED BY <1>2, <1>4, <2>1 DEF Standing, ChainSound
<1> QED BY <1>2, <1>3, <1>4, <1>5

LEMMA AtFacts ==
  ASSUME TypeOK, Standing, FramesAnchored, NEW op, At(op)
  PROVE  /\ chain # <<>> /\ ~err /\ dying = {} /\ status[Me] = "running"
         /\ cstk[Me] # <<>> /\ Head(Top.code).op = op /\ Top.code # <<>>
         /\ Stack \in Seq(Value) /\ Len(Stack) \in Nat /\ Len(Stack) <= MaxSlots
         /\ Top \in Frame /\ Top.base \in 1..Len(Stack) /\ Top.base \in Nat
         /\ Stack[Top.base] = Closure(Top.cl)
         /\ A \in Nat /\ Tail(Top.code) \in Seq(Instr)
         /\ Top = cstk[Me][Len(cstk[Me])] /\ Top = LastOf(cstk[Me])
<1>1. /\ chain # <<>> /\ ~err /\ dying = {} /\ status[Me] = "running"
      /\ cstk[Me] # <<>> /\ Top.code # <<>> /\ Head(Top.code).op = op
  BY DEF At
<1>2. Me \in FiberId BY <1>1, ChainFacts
<1>3. /\ stk[Me] \in Seq(Value) /\ Len(stk[Me]) \in Nat /\ Len(stk[Me]) <= MaxSlots
      /\ cstk[Me] \in Seq(Frame)
  BY <1>2, FiberFacts
<1>4. Anchored(stk[Me], cstk[Me], class) BY <1>2 DEF FramesAnchored
<1>5. /\ Top \in Frame /\ Top.base \in 1..Len(Stack) /\ Stack[Top.base] = Closure(Top.cl)
      /\ Top = cstk[Me][Len(cstk[Me])] /\ Top = LastOf(cstk[Me])
  BY <1>1, <1>3, <1>4, AnchoredTop DEF Top, TopOf, Stack
<1>6. Top.code \in Seq(Instr) /\ Top.base \in Nat BY <1>5 DEF Frame
<1>7. Head(Top.code) \in Instr /\ Tail(Top.code) \in Seq(Instr)
  BY <1>1, <1>6, HeadTailProperties
<1>8. A \in Nat BY <1>7, FiberAssumption DEF A, FiberAssumption
<1> QED BY <1>1, <1>3, <1>5, <1>6, <1>7, <1>8 DEF Stack

LEMMA GlobalsCount ==
  ASSUME NEW o
  PROVE  /\ OnStack(GlobalsHeld, o) \in Nat /\ GlobalsHeld \in Seq(Value)
         /\ DOMAIN GlobalsHeld = DOMAIN Globals
         /\ \A i \in DOMAIN Globals : Globals[i] \in Obj /\ GlobalsHeld[i] = Closure(Globals[i])
<1>1. Globals \in Seq(DOMAIN FunOf) /\ DOMAIN FunOf \subseteq Obj
  BY FiberAssumption DEF FiberAssumption
<1>2. DOMAIN Globals = 1..Len(Globals) /\ Len(Globals) \in Nat BY <1>1, LenProperties
<1>3. \A i \in DOMAIN Globals : Globals[i] \in Obj BY <1>1, <1>2, ElementOfSeq
<1>4. \A i \in DOMAIN Globals : Closure(Globals[i]) \in Value
  BY <1>3 DEF Closure, Value, ObjectType
<1>5. GlobalsHeld \in [1..Len(Globals) -> Value] BY <1>2, <1>4 DEF GlobalsHeld
<1>6. GlobalsHeld \in Seq(Value) BY <1>2, <1>5, SeqDef
<1>7. OnStack(GlobalsHeld, o) \in Nat BY <1>6, OnStackInterval
<1> QED BY <1>3, <1>6, <1>7 DEF GlobalsHeld

-----------------------------------------------------------------------------
(***************************************************************************)
(* A step that writes the stack and the frames of the fiber that executes, *)
(* and nothing else but the counts.                                        *)
(***************************************************************************)
Writes(t, c, x) ==
  /\ chain # <<>>
  /\ t \in Seq(Value) /\ Len(t) <= MaxSlots /\ c \in Seq(Frame) /\ Len(c) <= MaxFrames
  /\ stk' = [stk EXCEPT ![Me] = t] /\ cstk' = [cstk EXCEPT ![Me] = c]
  /\ status' = [status EXCEPT ![Me] = x]
  /\ err' \in BOOLEAN /\ (err => err') /\ UNCHANGED <<class, chain>>

LEMMA WritesFacts ==
  ASSUME TypeOK, Standing, NEW t, NEW c, NEW x, Writes(t, c, x)
  PROVE  /\ stk'[Me] = t /\ cstk'[Me] = c /\ status'[Me] = x
         /\ \A f \in FiberId : f # Me => /\ stk'[f] = stk[f] /\ cstk'[f] = cstk[f]
                                         /\ status'[f] = status[f]
         /\ Me' = Me /\ Fibers' = Fibers /\ chain' = chain /\ class' = class
<1>1. Me \in FiberId BY ChainFacts DEF Writes
<1>2. /\ stk \in [FiberId -> Seq(Value)] /\ cstk \in [FiberId -> Seq(Frame)]
      /\ status \in [FiberId -> {"suspended", "running", "done"}]
  BY DEF TypeOK
<1>3. /\ stk'[Me] = t /\ cstk'[Me] = c /\ status'[Me] = x
      /\ \A f \in FiberId : f # Me => /\ stk'[f] = stk[f] /\ cstk'[f] = cstk[f]
                                      /\ status'[f] = status[f]
  BY <1>1, <1>2 DEF Writes
<1>4. chain' = chain /\ class' = class /\ chain # <<>> BY DEF Writes
<1>5. Me' = Me BY <1>4 DEF Me
<1>6. Fibers' = Fibers BY <1>4 DEF Fibers, Ended
<1> QED BY <1>3, <1>4, <1>5, <1>6

LEMMA WritesTyped ==
  ASSUME TypeOK, Standing, NEW t, NEW c, NEW x \in {"suspended", "running", "done"},
         Writes(t, c, x), NEW m \in MemType, Becomes(m)
  PROVE  TypeOK'
<1>1. Me \in FiberId /\ (Me # Root => class[Me] = "fiber") BY ChainFacts DEF Writes
<1>2. /\ stk \in [FiberId -> Seq(Value)] /\ cstk \in [FiberId -> Seq(Frame)]
      /\ status \in [FiberId -> {"suspended", "running", "done"}]
      /\ chain \in Seq(FiberId)
      /\ class \in [Obj -> {"free", "fiber", "array"} \cup Fun]
  BY DEF TypeOK
<1>3. /\ stk' \in [FiberId -> Seq(Value)] /\ cstk' \in [FiberId -> Seq(Frame)]
      /\ status' \in [FiberId -> {"suspended", "running", "done"}]
  BY <1>1, <1>2 DEF Writes
<1>4. /\ chain' \in Seq(FiberId) /\ err' \in BOOLEAN
      /\ class' \in [Obj -> {"free", "fiber", "array"} \cup Fun]
  BY <1>2 DEF Writes
<1>5. rc' \in [Obj -> Int] /\ dying' \subseteq Obj BY DEF MemType, Becomes
<1>6. ASSUME NEW f \in FiberId
      PROVE  Len(stk'[f]) <= MaxSlots /\ Len(cstk'[f]) <= MaxFrames
  <2>1. CASE f = Me BY <2>1, WritesFacts DEF Writes
  <2>2. CASE f # Me BY <2>2, WritesFacts, FiberFacts
  <2> QED BY <2>1, <2>2
<1>7. ASSUME NEW o \in Obj, class'[o] # "fiber"
      PROVE  stk'[o] = <<>> /\ cstk'[o] = <<>>
  <2>1. class'[o] = class[o] /\ o # Root /\ o \in FiberId
    BY ClassNames DEF Writes, FiberId
  <2>2. o # Me BY <1>1, <1>7, <2>1
  <2>3. stk'[o] = stk[o] /\ cstk'[o] = cstk[o] BY <2>1, <2>2, WritesFacts
  <2> QED BY <1>7, <2>1, <2>3 DEF TypeOK
<1> QED BY <1>3, <1>4, <1>5, <1>6, <1>7 DEF TypeOK

LEMMA WritesWellTyped ==
  ASSUME TypeOK, Standing, WellTyped, NEW t, NEW c, NEW x, Writes(t, c, x),
         \A i \in 1..Len(t) : Agrees(class, t[i])
  PROVE  WellTyped'
<1>1. ASSUME NEW f \in FiberId, NEW i \in 1..Len(stk'[f])
      PROVE  Agrees(class', stk'[f][i])
  <2>1. CASE f = Me BY <2>1, WritesFacts
  <2>2. CASE f # Me BY <2>2, WritesFacts DEF WellTyped
  <2> QED BY <2>1, <2>2
<1>2. class' = class /\ Fibers' = Fibers BY WritesFacts
<1> QED BY <1>1, <1>2 DEF WellTyped

\* What a count may be, of an object that has h holders.
Fits(e, r, h) == IF e THEN r >= h ELSE r = h

LEMMA WritesCounts ==
  ASSUME TypeOK, Standing, Counts, NEW t, NEW c, NEW x, Writes(t, c, x),
         NEW m \in MemType, Becomes(m), TypeOK',
         \A o \in Obj : Fits(err', m.rc[o] - OnStack(t, o), rc[o] - OnStack(Stack, o))
  PROVE  Counts'
<1>1. ASSUME NEW o \in Obj
      PROVE  Fits(err', rc'[o], Holders(Fibers', stk', class', o))
  <2> DEFINE h == Holders(Fibers, stk, class, o)
             k == Holders(Fibers, stk', class, o)
  <2>1. /\ Fibers' = Fibers /\ class' = class /\ stk'[Me] = t /\ Me \in Fibers
        /\ \A f \in Fibers \ {Me} : stk[f] = stk'[f]
    BY WritesFacts, ChainFacts, FibersFinite DEF Writes
  <2>2. Stacks(Fibers, stk) BY FiberStacks
  <2>3. Stacks(Fibers, stk')
    <3>1. stk' \in [FiberId -> Seq(Value)] BY DEF TypeOK
    <3> QED BY <3>1, FibersFinite DEF Stacks
  <2>4. OnStacks(Fibers, stk', o)
          = OnStacks(Fibers, stk, o) - OnStack(Stack, o) + OnStack(t, o)
    BY <2>1, <2>2, <2>3, FibersFinite, OnStacksWrite DEF Stack
  <2>5. OnStacks(Fibers, stk', o) \in Nat /\ OnStacks(Fibers, stk, o) \in Nat
    BY <2>2, <2>3, FibersFinite, PlacesFinite
  <2>6. OnStack(Stack, o) \in Nat /\ OnStack(t, o) \in Nat
    BY <2>1, <2>2, FibersFinite, OnStackInterval DEF Stacks, Stack, Writes
  <2>7. k = h - OnStack(Stack, o) + OnStack(t, o) /\ h \in Int
    <3> DEFINE a == IF class[GlobalsObj] = "array" THEN OnStack(GlobalsHeld, o) ELSE 0
               d == IF o = GlobalsObj THEN Cardinality(Fibers) ELSE 0
    <3>1. a \in Nat BY GlobalsCount
    <3>2. d \in Nat BY FibersFinite, FS_CardinalityType
    <3>3. h = OnStacks(Fibers, stk, o) + a + d /\ k = OnStacks(Fibers, stk', o) + a + d
      BY DEF Holders
    <3> HIDE DEF a, d, h, k
    <3> QED BY <2>4, <2>5, <2>6, <3>1, <3>2, <3>3
  <2>8. rc[o] \in Int /\ rc'[o] = m.rc[o] /\ m.rc[o] \in Int
    BY DEF TypeOK, Becomes, MemType
  <2>9. Fits(err, rc[o], h) BY DEF Counts, Fits
  <2>10. err \in BOOLEAN /\ err' \in BOOLEAN /\ (err => err') BY DEF TypeOK, Writes
  <2>11. Fits(err', m.rc[o] - OnStack(t, o), rc[o] - OnStack(Stack, o)) OBVIOUS
  <2> HIDE DEF h, k
  <2>12. Fits(err', rc'[o], k)
    BY <2>6, <2>7, <2>8, <2>9, <2>10, <2>11 DEF Fits
  <2> QED BY <2>1, <2>12 DEF k
<1> QED BY <1>1 DEF Counts, Fits

LEMMA WritesFrames ==
  ASSUME TypeOK, Standing, FramesAnchored, NEW t, NEW c, NEW x, Writes(t, c, x),
         Anchored(t, c, class)
  PROVE  FramesAnchored'
<1>1. ASSUME NEW f \in FiberId
      PROVE  Anchored(stk'[f], cstk'[f], class')
  <2>1. CASE f = Me BY <2>1, WritesFacts
  <2>2. CASE f # Me BY <2>2, WritesFacts DEF FramesAnchored
  <2> QED BY <2>1, <2>2
<1> QED BY <1>1 DEF FramesAnchored

LEMMA WritesStanding ==
  ASSUME TypeOK, Standing, NEW t, NEW c, NEW x \in {"suspended", "running"},
         Writes(t, c, x), c # <<>> \/ t # <<>>,
         x = "suspended" => c # <<>> /\ Len(t) > LastOf(c).base
  PROVE  Standing'
<1> DEFINE n == Len(chain)
<1>1. /\ n \in Nat /\ n >= 1 /\ Me = chain[n] /\ n \in 1..n
      /\ \A i \in 1..n : chain[i] \in FiberId
      /\ \A i \in 1..(n - 1) : chain[i] # Me
      /\ Me \in FiberId
  BY ChainFacts DEF Writes
<1>2. /\ stk'[Me] = t /\ cstk'[Me] = c /\ status'[Me] = x
      /\ \A f \in FiberId : f # Me => /\ stk'[f] = stk[f] /\ cstk'[f] = cstk[f]
                                      /\ status'[f] = status[f]
      /\ Me' = Me /\ chain' = chain /\ class' = class
  BY WritesFacts
<1>3. \A i, j \in DOMAIN chain' : i # j => chain'[i] # chain'[j]
  BY <1>2 DEF Standing, ChainSound
<1>4. DOMAIN chain = 1..n BY LenProperties DEF TypeOK
<1>5. ASSUME NEW f \in FiberId, status'[f] = "running"
      PROVE  \E i \in DOMAIN chain' : chain'[i] = f
  <2>1. CASE f = Me BY <1>1, <1>2, <1>4, <2>1
  <2>2. CASE f # Me BY <1>2, <1>5, <2>2 DEF Standing, ChainSound
  <2> QED BY <2>1, <2>2
<1>6. ASSUME NEW i \in 1..(n - 1)
      PROVE  /\ chain[i] \in FiberId /\ stk'[chain[i]] = stk[chain[i]]
             /\ cstk'[chain[i]] = cstk[chain[i]] /\ status'[chain[i]] = status[chain[i]]
  <2>1. i \in 1..n BY <1>1
  <2> QED BY <1>1, <1>2, <2>1
<1>7. ASSUME NEW i \in 1..(Len(chain') - 1)
      PROVE  Waits(stk'[chain'[i]], cstk'[chain'[i]], status'[chain'[i]], class', chain'[i + 1])
  <2>1. i \in 1..(n - 1) /\ chain' = chain BY <1>2
  <2>2. Waits(stk[chain[i]], cstk[chain[i]], status[chain[i]], class, chain[i + 1])
    BY <2>1, ChainSoundNow DEF Standing
  <2> QED BY <1>2, <1>6, <2>1, <2>2
<1>8. ChainSound' BY <1>3, <1>5, <1>7, ChainSoundNext
<1>9. chain' # <<>> => chain'[1] = Root BY <1>2 DEF Standing
<1>10. \A i \in 1..(Len(chain') - 1) : HasArgument(stk'[chain'[i]], cstk'[chain'[i]])
  BY <1>2, <1>6 DEF Standing
<1>11. ASSUME NEW i \in 1..Len(chain')
       PROVE  cstk'[chain'[i]] # <<>> \/ stk'[chain'[i]] # <<>>
  <2>1. CASE i = n BY <1>1, <1>2, <2>1
  <2>2. CASE i # n
    <3>1. i \in 1..(n - 1) BY <1>1, <1>2, <2>2
    <3> QED BY <1>2, <1>6, <3>1 DEF Standing, HasArgument
  <2> QED BY <2>1, <2>2
<1>12. ASSUME NEW f \in Obj, status'[f] = "suspended" PROVE cstk'[f] # <<>>
  <2>1. CASE f = Me BY <1>2, <1>12, <2>1
  <2>2. CASE f # Me BY <1>2, <1>12, <2>2 DEF Standing, FiberId
  <2> QED BY <2>1, <2>2
<1>13. chain' # <<>> /\ ~err' /\ status'[Me'] = "suspended" =>
         cstk'[Me'] # <<>> /\ Len(Stack') > (Top').base
  BY <1>2 DEF Stack, Top, TopOf
<1> QED BY <1>8, <1>9, <1>10, <1>11, <1>12, <1>13 DEF Standing

LEMMA MemFacts ==
  ASSUME FiberInv
  PROVE  /\ Mem \in MemType /\ AtZero(Mem) /\ Mem.rc = rc /\ Mem.dying = dying
         /\ \A o \in Obj : rc[o] \in Int
  BY DEF FiberInv, TypeOK, Mem, MemType

LEMMA FitsSame ==
  ASSUME NEW e, NEW r \in Int
  PROVE  Fits(e, r, r)
  BY DEF Fits

\* A step that writes, when the counts move with what the stack holds.
LEMMA WriteFitsStep ==
  ASSUME FiberInv, NEW t, NEW c, NEW x \in {"suspended", "running"}, Writes(t, c, x),
         NEW m \in MemType, AtZero(m), Becomes(m),
         \A i \in 1..Len(t) : Agrees(class, t[i]),
         \A o \in Obj : Fits(err', m.rc[o] - OnStack(t, o), rc[o] - OnStack(Stack, o)),
         Anchored(t, c, class), c # <<>> \/ t # <<>>,
         x = "suspended" => c # <<>> /\ Len(t) > LastOf(c).base
  PROVE  FiberInv'
<1>1. TypeOK /\ Standing /\ WellTyped /\ Counts /\ FramesAnchored BY DEF FiberInv
<1>2. TypeOK' BY <1>1, WritesTyped
<1>3. WellTyped' BY <1>1, WritesWellTyped
<1>5. Counts' BY <1>1, <1>2, WritesCounts
<1>6. FramesAnchored' BY <1>1, WritesFrames
<1>7. Standing' BY <1>1, WritesStanding
<1>8. AtZero(Mem)'
  <2>1. rc' = m.rc /\ dying' = m.dying BY DEF Becomes
  <2> QED BY <2>1 DEF AtZero, Mem
<1> QED BY <1>2, <1>3, <1>5, <1>6, <1>7, <1>8 DEF FiberInv

LEMMA WriteStep ==
  ASSUME FiberInv, NEW t, NEW c, NEW x \in {"suspended", "running"}, Writes(t, c, x),
         NEW m \in MemType, AtZero(m), Becomes(m),
         \A i \in 1..Len(t) : Agrees(class, t[i]),
         \A o \in Obj : m.rc[o] - OnStack(t, o) = rc[o] - OnStack(Stack, o),
         Anchored(t, c, class), c # <<>> \/ t # <<>>,
         x = "suspended" => c # <<>> /\ Len(t) > LastOf(c).base
  PROVE  FiberInv'
<1>1. ASSUME NEW o \in Obj
      PROVE  Fits(err', m.rc[o] - OnStack(t, o), rc[o] - OnStack(Stack, o))
  <2>1. Me \in FiberId BY ChainFacts DEF Writes, FiberInv
  <2>2. OnStack(Stack, o) \in Nat BY <2>1, FiberFacts, OnStackInterval DEF Stack, FiberInv
  <2>3. rc[o] \in Int BY MemFacts
  <2>4. rc[o] - OnStack(Stack, o) \in Int BY <2>2, <2>3
  <2> QED BY <2>4, FitsSame
<1> QED BY <1>1, WriteFitsStep

\* The frames c when the top one goes on to the instructions u.
Recoded(c, u) == [c EXCEPT ![Len(c)] = [c[Len(c)] EXCEPT !.code = u]]

LEMMA RecodedFacts ==
  ASSUME NEW c \in Seq(Frame), c # <<>>, NEW u \in Seq(Instr)
  PROVE  /\ Recoded(c, u) \in Seq(Frame) /\ Len(Recoded(c, u)) = Len(c)
         /\ SameFrames(c, Recoded(c, u)) /\ Recoded(c, u) # <<>>
         /\ LastOf(Recoded(c, u)).base = LastOf(c).base
<1> DEFINE n == Len(c)
           fr == [c[n] EXCEPT !.code = u]
           d == [c EXCEPT ![n] = fr]
<1>1. n \in Nat /\ n >= 1 /\ c[n] \in Frame /\ LastOf(c) = c[n] BY LastFacts
<1>2. /\ fr \in Frame /\ fr.base = c[n].base /\ fr.cl = c[n].cl /\ fr.fn = c[n].fn
  BY <1>1 DEF Frame
<1> HIDE DEF fr
<1>3. n \in 1..n BY <1>1
<1>4. /\ d \in Seq(Frame) /\ Len(d) = n
      /\ \A j \in 1..n : d[j] = IF j = n THEN fr ELSE c[j]
  BY <1>2, <1>3, ExceptSeq
<1>5. Recoded(c, u) = d BY DEF Recoded, fr
<1> HIDE DEF d
<1>6. d # <<>>
  <2>1. Len(<<>>) = 0 BY EmptySeq
  <2> QED BY <1>1, <1>4, <2>1
<1>7. LastOf(d).base = c[n].base BY <1>2, <1>3, <1>4 DEF LastOf
<1>8. SameFrames(c, d) BY <1>2, <1>4 DEF SameFrames
<1> QED BY <1>1, <1>4, <1>5, <1>6, <1>7, <1>8

LEMMA AdvancedFacts ==
  ASSUME TypeOK, Standing, FramesAnchored, NEW op, At(op)
  PROVE  LET c == Recoded(cstk[Me], Tail(Top.code)) IN
         /\ Advanced = [cstk EXCEPT ![Me] = c]
         /\ c \in Seq(Frame) /\ Len(c) <= MaxFrames /\ SameFrames(cstk[Me], c) /\ c # <<>>
         /\ LastOf(c).base = Top.base
<1>1. Me \in FiberId /\ cstk \in [FiberId -> Seq(Frame)] BY AtFacts, ChainFacts DEF TypeOK
<1>2. cstk[Me] # <<>> /\ Tail(Top.code) \in Seq(Instr) /\ Top = LastOf(cstk[Me])
      /\ Top = cstk[Me][Len(cstk[Me])]
  BY AtFacts
<1>3. cstk[Me] \in Seq(Frame) /\ Len(cstk[Me]) <= MaxFrames BY <1>1, FiberFacts
<1>4. LET c == Recoded(cstk[Me], Tail(Top.code)) IN
      /\ c \in Seq(Frame) /\ Len(c) = Len(cstk[Me])
      /\ SameFrames(cstk[Me], c) /\ c # <<>> /\ LastOf(c).base = LastOf(cstk[Me]).base
  BY <1>2, <1>3, RecodedFacts
<1>5. Advanced = [cstk EXCEPT ![Me] = Recoded(cstk[Me], Tail(Top.code))]
  BY <1>1, <1>2 DEF Advanced, Recoded
<1> QED BY <1>2, <1>3, <1>4, <1>5

\* The values on the stack of the fiber that executes.
LEMMA StackValues ==
  ASSUME FiberInv, chain # <<>>
  PROVE  /\ \A i \in 1..Len(Stack) : Stack[i] \in Value /\ Agrees(class, Stack[i])
         /\ Anchored(Stack, cstk[Me], class)
<1>1. TypeOK /\ Standing /\ WellTyped /\ FramesAnchored BY DEF FiberInv
<1>2. Me \in FiberId BY <1>1, ChainFacts
<1>3. stk[Me] \in Seq(Value) BY <1>1, <1>2, FiberFacts
<1> QED BY <1>1, <1>2, <1>3, ElementOfSeq DEF WellTyped, FramesAnchored, Stack

\* A handler that fails and has changed nothing.
LEMMA FailStep ==
  ASSUME FiberInv, NEW op, At(op), Fail
  PROVE  FiberInv'
<1> DEFINE t == Stack
           c == cstk[Me]
<1>1. TypeOK /\ Standing /\ FramesAnchored BY DEF FiberInv
<1>2. chain # <<>> /\ status[Me] = "running" /\ cstk[Me] # <<>> BY <1>1, AtFacts
<1>3. Me \in FiberId BY <1>1, <1>2, ChainFacts
<1>4. /\ t \in Seq(Value) /\ Len(t) <= MaxSlots /\ c \in Seq(Frame) /\ Len(c) <= MaxFrames
  BY <1>1, <1>3, FiberFacts DEF Stack
<1>5. /\ stk' = [stk EXCEPT ![Me] = t] /\ cstk' = [cstk EXCEPT ![Me] = c]
      /\ status' = [status EXCEPT ![Me] = "running"]
  BY <1>1, <1>2, <1>3 DEF TypeOK, Fail, Raise, Stack
<1>6. Writes(t, c, "running") BY <1>2, <1>4, <1>5 DEF Writes, Fail, Raise
<1>7. Becomes(Mem) /\ Mem.rc = rc BY DEF Becomes, Mem, Fail
<1>8. Mem \in MemType /\ AtZero(Mem) BY MemFacts
<1> HIDE DEF t, c
<1>9. /\ \A i \in 1..Len(t) : Agrees(class, t[i])
      /\ Anchored(t, c, class)
      /\ \A o \in Obj : Mem.rc[o] - OnStack(t, o) = rc[o] - OnStack(Stack, o)
      /\ c # <<>>
  BY <1>2, <1>7, StackValues DEF t, c
<1> QED BY <1>6, <1>7, <1>8, <1>9, WriteStep

\* A handler that goes on to its next instruction with the stack t.
LEMMA ContinueStep ==
  ASSUME FiberInv, NEW op, At(op), Continue, class' = class,
         NEW t \in Seq(Value), Len(t) <= MaxSlots, Top.base <= Len(t),
         stk' = [stk EXCEPT ![Me] = t],
         \A i \in 1..Len(t) : Agrees(class, t[i]) /\ (i <= Top.base => t[i] = Stack[i]),
         NEW m \in MemType, AtZero(m), Becomes(m),
         \A o \in Obj : m.rc[o] - OnStack(t, o) = rc[o] - OnStack(Stack, o)
  PROVE  FiberInv'
<1> DEFINE c == Recoded(cstk[Me], Tail(Top.code))
<1>1. TypeOK /\ Standing /\ FramesAnchored BY DEF FiberInv
<1>2. chain # <<>> /\ status[Me] = "running" /\ cstk[Me] # <<>> /\ Top = LastOf(cstk[Me])
  BY <1>1, AtFacts
<1>3. Me \in FiberId BY <1>1, <1>2, ChainFacts
<1>4. /\ Advanced = [cstk EXCEPT ![Me] = c]
      /\ c \in Seq(Frame) /\ Len(c) <= MaxFrames /\ SameFrames(cstk[Me], c) /\ c # <<>>
  BY <1>1, AdvancedFacts
<1> HIDE DEF c
<1>5. status' = [status EXCEPT ![Me] = "running"]
  BY <1>1, <1>2, <1>3 DEF TypeOK, Continue
<1>6. Writes(t, c, "running") BY <1>1, <1>2, <1>4, <1>5 DEF Writes, Continue, TypeOK
<1>7. Anchored(t, c, class)
  <2>1. cstk[Me] \in Seq(Frame) BY <1>1, <1>3, FiberFacts
  <2>2. Anchored(Stack, cstk[Me], class) BY <1>2, StackValues
  <2>3. Len(t) \in Nat BY LenProperties
  <2>4. Anchored(t, cstk[Me], class) BY <1>2, <2>1, <2>2, <2>3, AnchoredAbove
  <2> QED BY <1>4, <2>4, AnchoredSame
<1> QED BY <1>4, <1>6, <1>7, WriteStep

-----------------------------------------------------------------------------
(***************************************************************************)
(* Instructions.                                                           *)
(***************************************************************************)
\* When nothing is condemned, retaining condemns nothing and hurts nobody.
LEMMA RetainFresh ==
  ASSUME FiberInv, dying = {}, NEW v
  PROVE  /\ Retain(Mem, v) \in MemType /\ AtZero(Retain(Mem, v))
         /\ Retain(Mem, v).dying = {}
         /\ \A o \in Obj : Retain(Mem, v).rc[o] = rc[o] + Count(v, o)
<1>1. Mem \in MemType /\ Mem.rc = rc /\ Mem.dying = {} BY MemFacts
<1>2. Retain(Mem, v).dying = {} BY <1>1, RetainsSpare
<1> QED BY <1>1, <1>2, RetainType, RetainCount DEF AtZero

LEMMA ReleaseNow ==
  ASSUME FiberInv, NEW v
  PROVE  /\ Release(Mem, v) \in MemType /\ AtZero(Release(Mem, v))
         /\ \A o \in Obj : Release(Mem, v).rc[o] = rc[o] - Count(v, o)
  BY MemFacts, ReleaseType, ReleaseAtZero, ReleaseCount

LEMMA PushValueStep ==
  ASSUME FiberInv, NEW op, At(op), NEW v \in Value, Agrees(class, v), PushValue(v)
  PROVE  FiberInv'
<1>1. TypeOK /\ Standing /\ FramesAnchored BY DEF FiberInv
<1>2. CASE Fail BY <1>2, FailStep
<1>3. CASE /\ Len(Stack) < MaxSlots /\ stk' = [stk EXCEPT ![Me] = Append(@, v)]
           /\ Becomes(Retain(Mem, v)) /\ Continue /\ UNCHANGED class
  <2> DEFINE t == Append(Stack, v)
             n == Len(Stack)
             m == Retain(Mem, v)
  <2>1. /\ chain # <<>> /\ dying = {} /\ Stack \in Seq(Value) /\ n \in Nat
        /\ Top.base \in 1..n
    BY <1>1, AtFacts
  <2>2. /\ t \in Seq(Value) /\ Len(t) = n + 1
        /\ \A i \in 1..n : t[i] = Stack[i]
        /\ t[n + 1] = v
    BY <2>1, AppendProperties
  <2>3. stk' = [stk EXCEPT ![Me] = t]
    BY <1>1, <1>3, <2>1, ChainFacts DEF Stack, TypeOK
  <2>4. m \in MemType /\ AtZero(m) /\ \A o \in Obj : m.rc[o] = rc[o] + Count(v, o)
    BY <2>1, RetainFresh
  <2>5. ASSUME NEW o \in Obj
        PROVE  m.rc[o] - OnStack(t, o) = rc[o] - OnStack(Stack, o)
    <3>1. OnStack(t, o) = OnStack(Stack, o) + Count(v, o) BY <2>1, OnStackPush
    <3>2. OnStack(Stack, o) \in Nat BY <2>1, OnStackInterval
    <3>3. rc[o] \in Int BY MemFacts
    <3>4. m.rc[o] = rc[o] + Count(v, o) BY <2>4
    <3> HIDE DEF m, t
    <3> QED BY <3>1, <3>2, <3>3, <3>4, CountType
  <2> HIDE DEF t, m
  <2>6. Len(t) <= MaxSlots /\ Top.base <= Len(t)
    BY <1>3, <2>1, <2>2, SizeAssumption DEF SizeAssumption
  <2>7. \A i \in 1..Len(t) : Agrees(class, t[i]) /\ (i <= Top.base => t[i] = Stack[i])
    <3>1. \A i \in 1..n : Agrees(class, Stack[i]) BY <2>1, StackValues
    <3> HIDE DEF n
    <3>2. \A i \in 1..(n + 1) : i = n + 1 \/ i \in 1..n BY <2>1
    <3>3. ~(n + 1 <= Top.base) BY <2>1
    <3> QED BY <2>2, <3>1, <3>2, <3>3
  <2>8. Becomes(m) BY <1>3 DEF m
  <2> QED BY <1>3, <2>2, <2>3, <2>4, <2>5, <2>6, <2>7, <2>8, ContinueStep
<1> QED BY <1>2, <1>3 DEF PushValue

\* Scalars own nothing.
LEMMA ScalarAgrees ==
  ASSUME NEW v, ~IsObject(v), NEW cl
  PROVE  Agrees(cl, v) /\ \A o : Count(v, o) = 0
  BY CountScalar DEF Agrees

LEMMA ValueFacts ==
  /\ Nil \in Value /\ ~IsObject(Nil)
  /\ \A n \in Nat : Number(n) \in Value /\ ~IsObject(Number(n))
  /\ \A o \in Obj : /\ Closure(o) \in Value /\ Closure(o).data = o /\ Closure(o).type = "closure"
                    /\ Fiber(o) \in Value /\ Fiber(o).data = o /\ Fiber(o).type = "fiber"
                    /\ IsObject(Closure(o)) /\ IsObject(Fiber(o)) /\ IsObject(Array(o))
                    /\ Array(o).data = o
  BY DEF Nil, Number, Closure, Fiber, Array, Value, IsObject, ScalarType, ObjectType

LEMMA PushNilStep == FiberInv /\ PushNil => FiberInv'
  BY PushValueStep, ValueFacts, ScalarAgrees DEF PushNil

LEMMA PushIntStep == FiberInv /\ PushInt => FiberInv'
<1> SUFFICES ASSUME FiberInv, PushInt PROVE FiberInv' OBVIOUS
<1>1. At("PUSH_INT") /\ PushValue(Number(A)) BY DEF PushInt
<1>2. A \in Nat BY <1>1, AtFacts DEF FiberInv
<1>3. Number(A) \in Value /\ Agrees(class, Number(A)) BY <1>2, ValueFacts, ScalarAgrees
<1> QED BY <1>1, <1>3, PushValueStep

LEMMA LoadGlobalStep == FiberInv /\ LoadGlobal => FiberInv'
<1> SUFFICES ASSUME FiberInv, LoadGlobal PROVE FiberInv' OBVIOUS
<1> DEFINE o == Globals[A]
<1>1. At("LOAD_GLOBAL") /\ A \in DOMAIN Globals /\ PushValue(Closure(o)) BY DEF LoadGlobal
<1>2. o \in Obj BY <1>1, GlobalsCount
<1>3. class[o] \in Fun
  <2>1. TypeOK /\ Standing /\ WellTyped /\ chain # <<>> BY <1>1, AtFacts DEF FiberInv
  <2>2. Fibers # {} BY <2>1, ChainFacts
  <2> QED BY <1>1, <2>1, <2>2 DEF WellTyped
<1> HIDE DEF o
<1>4. Closure(o) \in Value /\ Agrees(class, Closure(o)) BY <1>2, <1>3, ValueFacts DEF Agrees
<1> QED BY <1>1, <1>4, PushValueStep

LEMMA LocalFacts ==
  ASSUME FiberInv, NEW op, At(op), NEW i \in Nat, HasLocal(i)
  PROVE  /\ Top.base + i \in 1..Len(Stack) /\ Local(i) = Stack[Top.base + i]
         /\ Local(i) \in Value /\ Agrees(class, Local(i))
<1>1. Top.base \in 1..Len(Stack) /\ Top.base \in Nat /\ chain # <<>> /\ Len(Stack) \in Nat
  BY AtFacts DEF FiberInv
<1>2. Top.base + i \in 1..Len(Stack) BY <1>1 DEF HasLocal
<1> QED BY <1>1, <1>2, StackValues DEF Local

LEMMA LoadLocalStep == FiberInv /\ LoadLocal => FiberInv'
<1> SUFFICES ASSUME FiberInv, LoadLocal PROVE FiberInv' OBVIOUS
<1>1. At("LOAD_LOCAL") /\ HasLocal(A) /\ PushValue(Local(A)) BY DEF LoadLocal
<1>2. A \in Nat BY <1>1, AtFacts DEF FiberInv
<1>3. Local(A) \in Value /\ Agrees(class, Local(A)) BY <1>1, <1>2, LocalFacts
<1> QED BY <1>1, <1>3, PushValueStep

LEMMA PopStep == FiberInv /\ Pop => FiberInv'
<1> SUFFICES ASSUME FiberInv, Pop PROVE FiberInv' OBVIOUS
<1> DEFINE t == ButLast(Stack)
           n == Len(Stack)
           m == Release(Mem, LastOf(Stack))
<1>1. TypeOK /\ Standing /\ FramesAnchored /\ At("POP") BY DEF FiberInv, Pop
<1>2. /\ chain # <<>> /\ Stack \in Seq(Value) /\ n \in Nat /\ n <= MaxSlots
      /\ Top.base \in 1..n
  BY <1>1, AtFacts
<1>3. Stack # <<>>
  <2>1. Len(<<>>) = 0 BY EmptySeq
  <2> QED BY <1>2, <2>1
<1>4. /\ t \in Seq(Value) /\ Len(t) = n - 1 /\ LastOf(Stack) \in Value
      /\ \A i \in 1..(n - 1) : t[i] = Stack[i]
  BY <1>2, <1>3, LastFacts
<1>5. Top.base <= n - 1 BY <1>1, <1>2 DEF Pop, HasLocal
<1>6. stk' = [stk EXCEPT ![Me] = t] /\ Becomes(m) /\ Continue /\ class' = class
  BY DEF Pop, Stack
<1>7. m \in MemType /\ AtZero(m) /\ \A o \in Obj : m.rc[o] = rc[o] - Count(LastOf(Stack), o)
  BY ReleaseNow
<1>8. ASSUME NEW o \in Obj
      PROVE  m.rc[o] - OnStack(t, o) = rc[o] - OnStack(Stack, o)
  <2>1. OnStack(t, o) = OnStack(Stack, o) - Count(LastOf(Stack), o) BY <1>2, <1>3, OnStackPop
  <2>2. OnStack(Stack, o) \in Nat BY <1>2, OnStackInterval
  <2>3. rc[o] \in Int BY MemFacts
  <2>4. m.rc[o] = rc[o] - Count(LastOf(Stack), o) BY <1>7
  <2> HIDE DEF m, t
  <2> QED BY <2>1, <2>2, <2>3, <2>4, CountType
<1>9. \A i \in 1..n : Agrees(class, Stack[i]) BY <1>2, StackValues
<1> HIDE DEF t, m, n
<1>10. \A i \in 1..Len(t) : Agrees(class, t[i]) /\ (i <= Top.base => t[i] = Stack[i])
  BY <1>2, <1>4, <1>9
<1>11. Len(t) <= MaxSlots /\ Top.base <= Len(t)
  BY <1>2, <1>4, <1>5, SizeAssumption DEF SizeAssumption
<1> QED BY <1>1, <1>4, <1>6, <1>7, <1>8, <1>10, <1>11, ContinueStep

LEMMA StoreLocalStep == FiberInv /\ StoreLocal => FiberInv'
<1> SUFFICES ASSUME FiberInv, StoreLocal PROVE FiberInv' OBVIOUS
<1> DEFINE k == Top.base + A
           t == ButLast([Stack EXCEPT ![k] = LastOf(Stack)])
           n == Len(Stack)
           m == Release(Mem, Local(A))
<1>1. TypeOK /\ Standing /\ FramesAnchored /\ At("STORE_LOCAL") BY DEF FiberInv, StoreLocal
<1>2. /\ chain # <<>> /\ Stack \in Seq(Value) /\ n \in Nat /\ n <= MaxSlots
      /\ Top.base \in 1..n /\ A \in Nat
  BY <1>1, AtFacts
<1>3. k \in 1..(n - 1) /\ k > Top.base BY <1>2 DEF StoreLocal, HasLocal
<1>4. Local(A) = Stack[k] BY DEF Local
<1>5. stk' = [stk EXCEPT ![Me] = t] /\ Becomes(m) /\ Continue /\ class' = class
  BY DEF StoreLocal, Stack
<1>6. m \in MemType /\ AtZero(m) /\ \A o \in Obj : m.rc[o] = rc[o] - Count(Local(A), o)
  BY ReleaseNow
<1>7. \A i \in 1..n : Agrees(class, Stack[i]) BY <1>2, StackValues
<1> HIDE DEF k
<1>8. /\ t \in Seq(Value) /\ Len(t) = n - 1
      /\ \A i \in 1..(n - 1) : t[i] = IF i = k THEN LastOf(Stack) ELSE Stack[i]
      /\ \A o : OnStack(t, o) = OnStack(Stack, o) - Count(Stack[k], o)
  <2> DEFINE s == Stack
  <2>1. s \in Seq(Value) /\ k \in 1..(Len(s) - 1) BY <1>2, <1>3
  <2> HIDE DEF s
  <2>2. Stored(ButLast([s EXCEPT ![k] = LastOf(s)]), s, k) BY <2>1, OnStackStore
  <2>3. Stored(t, Stack, k) BY <2>2 DEF s
  <2> QED BY <2>3 DEF Stored
<1>9. LastOf(Stack) = Stack[n] BY DEF LastOf
<1>10. ASSUME NEW o \in Obj
       PROVE  m.rc[o] - OnStack(t, o) = rc[o] - OnStack(Stack, o)
  <2>1. OnStack(t, o) = OnStack(Stack, o) - Count(Stack[k], o) BY <1>8
  <2>2. OnStack(Stack, o) \in Nat BY <1>2, OnStackInterval
  <2>3. rc[o] \in Int BY MemFacts
  <2>4. m.rc[o] = rc[o] - Count(Stack[k], o) BY <1>4, <1>6
  <2> HIDE DEF m, t
  <2> QED BY <2>1, <2>2, <2>3, <2>4, CountType
<1> HIDE DEF t, m, n
<1>11. \A i \in 1..Len(t) : Agrees(class, t[i]) /\ (i <= Top.base => t[i] = Stack[i])
  <2>1. n \in 1..n /\ \A i \in 1..(n - 1) : i \in 1..n BY <1>2
  <2>2. \A i \in 1..(n - 1) : i <= Top.base => i # k BY <1>2, <1>3
  <2> QED BY <1>7, <1>8, <1>9, <2>1, <2>2
<1>12. Len(t) <= MaxSlots /\ Top.base <= Len(t)
  BY <1>2, <1>3, <1>8, SizeAssumption DEF SizeAssumption
<1> QED BY <1>1, <1>5, <1>6, <1>8, <1>10, <1>11, <1>12, ContinueStep

\* A stack that is the running one, cut or padded with nil.
LEMMA AdjustedStack ==
  ASSUME FiberInv, NEW op, At(op), NEW t \in Seq(Value), Top.base <= Len(t),
         \A i \in 1..Len(t) : t[i] = IF i <= Len(Stack) THEN Stack[i] ELSE Nil
  PROVE  /\ \A i \in 1..Len(t) : Agrees(class, t[i])
         /\ Anchored(t, cstk[Me], class)
         /\ Anchored(t, Recoded(cstk[Me], Tail(Top.code)), class)
<1>1. TypeOK /\ Standing /\ FramesAnchored BY DEF FiberInv
<1>2. /\ chain # <<>> /\ Len(Stack) \in Nat /\ Top.base \in 1..Len(Stack)
      /\ Top = LastOf(cstk[Me]) /\ cstk[Me] # <<>>
  BY <1>1, AtFacts
<1>3. \A i \in 1..Len(Stack) : Agrees(class, Stack[i]) BY <1>2, StackValues
<1>4. Len(t) \in Nat BY LenProperties
<1>5. Agrees(class, Nil) BY ValueFacts, ScalarAgrees
<1>6. \A i \in 1..Len(t) : Agrees(class, t[i]) BY <1>2, <1>3, <1>4, <1>5
<1>7. Anchored(t, cstk[Me], class)
  <2>1. cstk[Me] \in Seq(Frame) BY <1>1, <1>2, ChainFacts, FiberFacts
  <2>2. Anchored(Stack, cstk[Me], class) BY <1>2, StackValues
  <2>3. \A i \in 1..Len(t) : i <= LastOf(cstk[Me]).base => t[i] = Stack[i] BY <1>2, <1>4
  <2>4. LastOf(cstk[Me]).base <= Len(t) BY <1>2
  <2> QED BY <1>2, <1>4, <2>1, <2>2, <2>3, <2>4, AnchoredAbove
<1>8. SameFrames(cstk[Me], Recoded(cstk[Me], Tail(Top.code))) BY <1>1, AdvancedFacts
<1> QED BY <1>6, <1>7, <1>8, AnchoredSame

LEMMA CallStep == FiberInv /\ Call => FiberInv'
<1> SUFFICES ASSUME FiberInv, Call PROVE FiberInv' OBVIOUS
<1> DEFINE n == Len(Stack)
           c == n - A
           val == Stack[c]
           f == class[val.data]
           k == Arity[f]
           s == Adjusted(Stack, c, k)
           d == Recoded(cstk[Me], Tail(Top.code))
           m == ReleaseAll(Mem, Stack, (Len(s) + 1)..n)
<1>1. TypeOK /\ Standing /\ FramesAnchored /\ At("CALL") BY DEF FiberInv, Call
<1>2. /\ chain # <<>> /\ Stack \in Seq(Value) /\ n \in Nat /\ n <= MaxSlots
      /\ Top.base \in 1..n /\ A \in Nat /\ status[Me] = "running" /\ cstk[Me] # <<>>
      /\ Me \in FiberId
  BY <1>1, AtFacts, ChainFacts
<1>3. c \in 1..n /\ c > Top.base BY <1>2 DEF Call, HasLocal
<1>4. val \in Value /\ Agrees(class, val) BY <1>2, <1>3, StackValues
<1>5. /\ cstk[Me] \in Seq(Frame) /\ Len(cstk[Me]) \in Nat /\ Len(cstk[Me]) <= MaxFrames
      /\ stk \in [FiberId -> Seq(Value)] /\ cstk \in [FiberId -> Seq(Frame)]
      /\ status \in [FiberId -> {"suspended", "running", "done"}]
      /\ MaxSlots \in Nat /\ MaxFrames \in Nat
  BY <1>1, <1>2, FiberFacts DEF TypeOK
<1>6. /\ Advanced = [cstk EXCEPT ![Me] = d] /\ d \in Seq(Frame) /\ Len(d) = Len(cstk[Me])
      /\ d # <<>> /\ LastOf(d).base = Top.base
  <2>1. SameFrames(cstk[Me], d) BY <1>1, AdvancedFacts
  <2> QED BY <1>1, <2>1, AdvancedFacts DEF SameFrames
<1>7. CASE Fail BY <1>1, <1>7, FailStep
<1>8. ASSUME val.type = "closure"
      PROVE  /\ val.data \in Obj /\ val = Closure(val.data) /\ f \in Fun /\ k \in Nat
             /\ s \in Seq(Value) /\ Len(s) = c + k
             /\ \A i \in 1..(c + k) : s[i] = IF i <= n THEN Stack[i] ELSE Nil
             /\ \A i \in 1..(c + k) : Agrees(class, s[i])
             /\ Anchored(s, cstk[Me], class) /\ Anchored(s, d, class)
             /\ m \in MemType /\ AtZero(m)
             /\ \A o \in Obj : m.rc[o] - OnStack(s, o) = rc[o] - OnStack(Stack, o)
  <2>1. IsObject(val) BY <1>8 DEF IsObject, ObjectType
  <2>2. val.data \in Obj BY <1>4, <2>1 DEF Value, IsObject, ScalarType, ObjectType
  <2>3. val = Closure(val.data) /\ f \in Fun
    <3>1. val # Fiber(val.data) BY <1>8, <2>2, ValueFacts
    <3> QED BY <1>4, <2>1, <3>1 DEF Agrees
  <2>4. k \in Nat BY <2>3, FiberAssumption DEF FiberAssumption
  <2>5. c \in Nat BY <1>3
  <2> HIDE DEF k, c
  <2>6. /\ s \in Seq(Value) /\ Len(s) = c + k
        /\ \A i \in 1..(c + k) : s[i] = IF i <= n THEN Stack[i] ELSE Nil
    BY <1>2, <2>4, <2>5, AdjustedFacts
  <2>7. Top.base <= Len(s) BY <1>2, <1>3, <2>4, <2>6
  <2>8. \A o : OnStack(s, o) = OnStack(Stack, o) - Occ(Stack, (c + k + 1)..n, o)
    BY <1>2, <2>4, <2>5, OnStackAdjusted
  <2> HIDE DEF s
  <2>9. /\ \A i \in 1..(c + k) : Agrees(class, s[i])
        /\ Anchored(s, cstk[Me], class) /\ Anchored(s, d, class)
    BY <1>1, <2>6, <2>7, AdjustedStack
  <2>10. IsFiniteSet((Len(s) + 1)..n)
    <3> DEFINE lo == Len(s) + 1
    <3>1. lo \in Int /\ n \in Int BY <1>2, <2>4, <2>5, <2>6
    <3> HIDE DEF lo, n
    <3>2. IsFiniteSet(lo..n) BY <3>1, FS_Interval
    <3> QED BY <3>2 DEF lo
  <2>11. m \in MemType /\ AtZero(m) BY <2>10, MemFacts, ReleaseAllType, ReleaseAllAtZero
  <2>12. ASSUME NEW o \in Obj
         PROVE  m.rc[o] - OnStack(s, o) = rc[o] - OnStack(Stack, o)
    <3>1. OnStack(s, o) = OnStack(Stack, o) - Occ(Stack, (Len(s) + 1)..n, o) BY <2>6, <2>8
    <3>2. OnStack(Stack, o) \in Nat BY <1>2, OnStackInterval
    <3>3. rc[o] \in Int /\ Mem.rc = rc BY MemFacts
    <3>4. m.rc[o] = rc[o] - Occ(Stack, (Len(s) + 1)..n, o) BY <3>3, ReleaseAllCount
    <3>5. Occ(Stack, (Len(s) + 1)..n, o) \in Nat BY <2>10, OccType
    <3> HIDE DEF m
    <3> QED BY <3>1, <3>2, <3>3, <3>4, <3>5
  <2> QED BY <2>2, <2>3, <2>4, <2>6, <2>9, <2>11, <2>12
<1> HIDE DEF n, c, val, f, k, s, d, m
<1>9. CASE /\ val.type = "closure" /\ Len(cstk[Me]) < MaxFrames /\ Len(s) <= MaxSlots
           /\ stk' = [stk EXCEPT ![Me] = s] /\ Becomes(m) /\ UNCHANGED class
           /\ cstk' = [Advanced EXCEPT ![Me] = Append(@, Entry(c, val.data, f))]
           /\ UNCHANGED <<status, chain, err>>
  <2> DEFINE fr == Entry(c, val.data, f)
             e == Append(d, fr)
  <2>1. fr \in Frame /\ fr.base = c /\ fr.cl = val.data /\ fr.fn = f
    <3>1. Prologue[f] \in Seq(Instr) BY <1>8, <1>9, FiberAssumption DEF FiberAssumption
    <3>2. c \in Nat BY <1>3
    <3> QED BY <1>8, <1>9, <3>1, <3>2 DEF Entry, Frame
  <2>2. fr.base \in 1..Len(s) BY <1>3, <1>8, <1>9, <2>1
  <2>3. s[fr.base] = Closure(fr.cl)
    <3>1. c \in 1..(c + k) /\ c <= n BY <1>2, <1>3, <1>8, <1>9
    <3>2. s[c] = val BY <1>8, <1>9, <3>1 DEF val
    <3> QED BY <1>8, <1>9, <2>1, <3>2
  <2>4. class[fr.cl] = fr.fn BY <2>1 DEF f
  <2>5. LastOf(d).base < fr.base BY <1>3, <1>6, <2>1
  <2>6. /\ cstk' = [cstk EXCEPT ![Me] = e]
        /\ e \in Seq(Frame) /\ Len(e) <= MaxFrames /\ e # <<>>
    <3>1. e \in Seq(Frame) /\ e # <<>> /\ Len(e) = Len(d) + 1
      BY <1>6, <2>1, AppendProperties
    <3>2. cstk' = [cstk EXCEPT ![Me] = e] BY <1>2, <1>5, <1>6, <1>9
    <3> HIDE DEF e
    <3>3. Len(e) <= MaxFrames BY <1>5, <1>6, <1>9, <3>1
    <3> QED BY <3>1, <3>2, <3>3
  <2>7. Anchored(s, e, class)
    <3> HIDE DEF fr
    <3> QED BY <1>6, <1>8, <1>9, <2>1, <2>2, <2>3, <2>4, <2>5, AnchoredCall
  <2> HIDE DEF e, fr
  <2>8. Writes(s, e, "running") BY <1>1, <1>2, <1>5, <1>8, <1>9, <2>6 DEF Writes, TypeOK
  <2>9. \A i \in 1..Len(s) : Agrees(class, s[i]) BY <1>8, <1>9
  <2> QED BY <1>8, <1>9, <2>6, <2>7, <2>8, <2>9, WriteStep
<1>10. CASE /\ val.type = "closure" /\ Len(s) <= MaxSlots
            /\ stk' = [stk EXCEPT ![Me] = s] /\ Becomes(m) /\ UNCHANGED class /\ Raise
  <2> DEFINE e == cstk[Me]
  <2>1. cstk' = [cstk EXCEPT ![Me] = e] BY <1>5, <1>10 DEF Raise
  <2> HIDE DEF e
  <2>2. Writes(s, e, "running")
    BY <1>1, <1>2, <1>5, <1>8, <1>10, <2>1 DEF Writes, TypeOK, Raise, e
  <2>3. \A i \in 1..Len(s) : Agrees(class, s[i]) BY <1>8, <1>10
  <2>4. Anchored(s, e, class) /\ e # <<>> BY <1>2, <1>8, <1>10 DEF e
  <2> QED BY <1>8, <1>10, <2>2, <2>3, <2>4, WriteStep
<1>11. CASE /\ val.type = "closure" /\ Len(s) > MaxSlots
            /\ stk' = [stk EXCEPT ![Me] = SubSeq(s, 1, MaxSlots)]
            /\ Raise /\ UNCHANGED <<class, rc, dying>>
  <2> DEFINE t == SubSeq(s, 1, MaxSlots)
             u == Adjusted(Stack, MaxSlots, 0)
             e == cstk[Me]
  <2>1. /\ u \in Seq(Value) /\ Len(u) = MaxSlots
        /\ \A i \in 1..MaxSlots : u[i] = IF i <= n THEN Stack[i] ELSE Nil
        /\ \A o : OnStack(u, o) = OnStack(Stack, o) - Occ(Stack, (MaxSlots + 1)..n, o)
    <3> DEFINE z == 0
    <3>1. z \in Nat /\ MaxSlots + z = MaxSlots BY <1>5
    <3> HIDE DEF z
    <3>2. /\ Adjusted(Stack, MaxSlots, z) \in Seq(Value)
          /\ Len(Adjusted(Stack, MaxSlots, z)) = MaxSlots
          /\ \A i \in 1..MaxSlots :
               Adjusted(Stack, MaxSlots, z)[i] = IF i <= n THEN Stack[i] ELSE Nil
      BY <1>2, <1>5, <3>1, AdjustedFacts DEF n
    <3>3. \A o : OnStack(Adjusted(Stack, MaxSlots, z), o)
                   = OnStack(Stack, o) - Occ(Stack, (MaxSlots + 1)..n, o)
      BY <1>2, <1>5, <3>1, OnStackAdjusted DEF n
    <3> QED BY <3>2, <3>3 DEF z
  <2>2. t = u
    <3> DEFINE z == 1
    <3>1. z \in Int /\ MaxSlots \in Int /\ z <= MaxSlots /\ MaxSlots - z + 1 = MaxSlots
      BY <1>2, <1>5
    <3>2. \A i \in z..MaxSlots : s[i] \in Value
      <4>1. s \in Seq(Value) /\ Len(s) \in Nat BY <1>8, <1>11, LenProperties
      <4>2. \A i \in z..MaxSlots : i \in 1..Len(s) BY <1>5, <1>11, <4>1
      <4> HIDE DEF z
      <4> QED BY <4>1, <4>2, ElementOfSeq
    <3>3. \A i \in 1..MaxSlots : z + i - 1 = i BY <1>5
    <3>4. \A i \in 1..MaxSlots : s[i] = u[i]
      <4>1. \A i \in 1..MaxSlots : i \in 1..(c + k) BY <1>3, <1>5, <1>8, <1>11
      <4> HIDE DEF u
      <4> QED BY <1>8, <1>11, <2>1, <4>1
    <3> HIDE DEF z, u
    <3>5. /\ SubSeq(s, z, MaxSlots) \in Seq(Value)
          /\ Len(SubSeq(s, z, MaxSlots)) = IF z <= MaxSlots THEN MaxSlots - z + 1 ELSE 0
          /\ \A i \in 1..(MaxSlots - z + 1) : SubSeq(s, z, MaxSlots)[i] = s[z + i - 1]
      BY <3>1, <3>2, SubSeqProperties
    <3>6. t \in Seq(Value) /\ Len(t) = MaxSlots /\ \A i \in 1..MaxSlots : t[i] = s[i]
      BY <3>1, <3>3, <3>5 DEF z
    <3> HIDE DEF t
    <3> QED BY <2>1, <3>4, <3>6, SeqEqual
  <2>3. cstk' = [cstk EXCEPT ![Me] = e] BY <1>5, <1>11 DEF Raise
  <2>4. ASSUME NEW o PROVE OnStack(u, o) = OnStack(Stack, o)
    <3>1. (MaxSlots + 1)..n = {} BY <1>2, <1>5
    <3>2. \A l \in {} : Count(Stack[l], o) = 0 OBVIOUS
    <3>3. Occ(Stack, (MaxSlots + 1)..n, o) = 0 BY <3>1, <3>2, OccNone
    <3>4. OnStack(Stack, o) \in Nat BY <1>2, OnStackInterval
    <3> HIDE DEF u
    <3> QED BY <2>1, <3>3, <3>4
  <2> HIDE DEF t, u, e
  <2>5. Writes(u, e, "running")
    <3>1. status' = [status EXCEPT ![Me] = "running"] BY <1>2, <1>5, <1>11 DEF Raise
    <3>2. u \in Seq(Value) /\ Len(u) <= MaxSlots BY <1>5, <2>1
    <3>3. e \in Seq(Frame) /\ Len(e) <= MaxFrames BY <1>5 DEF e
    <3>4. stk' = [stk EXCEPT ![Me] = u] BY <1>11, <2>2 DEF t
    <3> QED BY <1>2, <1>11, <2>3, <3>1, <3>2, <3>3, <3>4 DEF Writes, Raise
  <2>6. /\ \A i \in 1..Len(u) : Agrees(class, u[i])
        /\ Anchored(u, e, class) /\ e # <<>>
    <3>1. Top.base <= Len(u) BY <1>2, <1>5, <2>1
    <3>2. \A i \in 1..Len(u) : u[i] = IF i <= Len(Stack) THEN Stack[i] ELSE Nil
      BY <2>1 DEF n
    <3> QED BY <1>1, <1>2, <2>1, <3>1, <3>2, AdjustedStack DEF e
  <2>7. Becomes(Mem) BY <1>11, MemFacts DEF Becomes
  <2>8. \A o \in Obj : Mem.rc[o] - OnStack(u, o) = rc[o] - OnStack(Stack, o)
    BY <2>4, MemFacts
  <2> QED BY <2>5, <2>6, <2>7, <2>8, MemFacts, WriteStep
<1> QED BY <1>7, <1>9, <1>10, <1>11 DEF Call, n, c, val, f, k, s, m

LEMMA YieldStep == FiberInv /\ Yield => FiberInv'
<1> SUFFICES ASSUME FiberInv, Yield PROVE FiberInv' OBVIOUS
<1> DEFINE t == Stack
           c == Recoded(cstk[Me], Tail(Top.code))
<1>1. TypeOK /\ Standing /\ FramesAnchored /\ At("YIELD") /\ HasLocal(1)
  BY DEF FiberInv, Yield
<1>2. /\ chain # <<>> /\ t \in Seq(Value) /\ Len(t) <= MaxSlots /\ Me \in FiberId
      /\ Top.base \in Nat /\ Len(t) \in Nat
  BY <1>1, AtFacts, ChainFacts
<1>3. /\ Advanced = [cstk EXCEPT ![Me] = c]
      /\ c \in Seq(Frame) /\ Len(c) <= MaxFrames /\ SameFrames(cstk[Me], c) /\ c # <<>>
      /\ LastOf(c).base = Top.base
  BY <1>1, AdvancedFacts
<1>4. stk' = [stk EXCEPT ![Me] = t] BY <1>1, <1>2 DEF Yield, TypeOK, Stack
<1>5. Becomes(Mem) /\ Mem.rc = rc BY DEF Yield, Becomes, Mem
<1>6. /\ \A i \in 1..Len(t) : Agrees(class, t[i])
      /\ Anchored(t, cstk[Me], class)
  BY <1>2, StackValues
<1>7. Len(t) > Top.base BY <1>1, <1>2 DEF HasLocal
<1>8. \A o \in Obj : Mem.rc[o] - OnStack(t, o) = rc[o] - OnStack(Stack, o) BY <1>5
<1> HIDE DEF t, c
<1>9. Writes(t, c, "suspended")
  BY <1>1, <1>2, <1>3, <1>4 DEF Writes, Yield, TypeOK
<1>10. Anchored(t, c, class) BY <1>3, <1>6, AnchoredSame
<1> QED BY <1>3, <1>5, <1>6, <1>7, <1>8, <1>9, <1>10, MemFacts, WriteStep

LEMMA NextStatementStep == FiberInv /\ NextStatement => FiberInv'
<1> SUFFICES ASSUME FiberInv, NextStatement PROVE FiberInv' OBVIOUS
<1>1. TypeOK /\ Standing /\ FramesAnchored /\ chain # <<>> BY DEF FiberInv, NextStatement
<1>2. Me \in FiberId BY <1>1, ChainFacts
<1>3. /\ Stack \in Seq(Value) /\ Len(Stack) <= MaxSlots /\ cstk[Me] \in Seq(Frame)
      /\ Len(cstk[Me]) <= MaxFrames /\ cstk[Me] # <<>> /\ status[Me] = "running"
  BY <1>1, <1>2, FiberFacts DEF Stack, NextStatement
<1>4. Top \in Frame /\ Top = cstk[Me][Len(cstk[Me])]
  BY <1>3, LastFacts DEF Top, TopOf
<1>5. PICK s \in Stmts[Top.fn] : cstk' = [cstk EXCEPT ![Me][Len(cstk[Me])].code = s]
  BY DEF NextStatement
<1>6. s \in Seq(Instr) BY <1>4, FiberAssumption DEF FiberAssumption, Frame
<1> DEFINE t == Stack
           c == Recoded(cstk[Me], s)
<1>7. /\ c \in Seq(Frame) /\ Len(c) = Len(cstk[Me]) /\ SameFrames(cstk[Me], c) /\ c # <<>>
  BY <1>3, <1>6, RecodedFacts
<1>8. cstk' = [cstk EXCEPT ![Me] = c] BY <1>1, <1>2, <1>5 DEF TypeOK, Recoded
<1>9. stk' = [stk EXCEPT ![Me] = t] /\ status' = [status EXCEPT ![Me] = "running"]
  BY <1>1, <1>2, <1>3 DEF NextStatement, TypeOK, Stack
<1>10. Becomes(Mem) /\ Mem.rc = rc BY DEF NextStatement, Becomes, Mem
<1>11. \A o \in Obj : Mem.rc[o] - OnStack(t, o) = rc[o] - OnStack(Stack, o) BY <1>10
<1>12. /\ \A i \in 1..Len(t) : Agrees(class, t[i])
       /\ Anchored(t, cstk[Me], class)
  BY <1>1, StackValues
<1> HIDE DEF t, c
<1>13. Writes(t, c, "running")
  BY <1>1, <1>3, <1>7, <1>8, <1>9 DEF Writes, NextStatement, TypeOK, t
<1>14. Anchored(t, c, class) BY <1>7, <1>12, AnchoredSame
<1> QED BY <1>7, <1>10, <1>11, <1>12, <1>13, <1>14, MemFacts, WriteStep

LEMMA RootContinuesStep == FiberInv /\ RootContinues => FiberInv'
<1> SUFFICES ASSUME FiberInv, RootContinues PROVE FiberInv' OBVIOUS
<1> DEFINE t == ButLast(Stack)
           n == Len(Stack)
           m == Release(Mem, LastOf(Stack))
           c == cstk[Me]
<1>1. TypeOK /\ Standing /\ FramesAnchored BY DEF FiberInv
<1>2. chain # <<>> /\ Me = Root /\ ~err /\ status[Me] = "suspended"
  <2>1. chain = <<Root>> /\ Len(<<Root>>) = 1 /\ <<Root>>[1] = Root BY DEF RootContinues
  <2> QED BY <2>1 DEF Me, LastOf, RootContinues
<1>3. Me \in FiberId BY <1>1, <1>2, ChainFacts
<1>4. /\ Stack \in Seq(Value) /\ n \in Nat /\ n <= MaxSlots /\ c \in Seq(Frame)
      /\ Len(c) <= MaxFrames
  BY <1>1, <1>3, FiberFacts DEF Stack
<1>5. c # <<>> /\ n > Top.base BY <1>1, <1>2, <1>3 DEF Standing
<1>6. /\ Top.base \in 1..n /\ Top = LastOf(c)
  BY <1>1, <1>3, <1>4, <1>5, AnchoredTop DEF FramesAnchored, Stack, Top, TopOf
<1>7. Stack # <<>>
  <2>1. Len(<<>>) = 0 BY EmptySeq
  <2> QED BY <1>6, <2>1
<1>8. /\ t \in Seq(Value) /\ Len(t) = n - 1 /\ LastOf(Stack) \in Value
      /\ \A i \in 1..(n - 1) : t[i] = Stack[i]
  BY <1>4, <1>7, LastFacts
<1>9. /\ stk' = [stk EXCEPT ![Me] = t] /\ Becomes(m)
      /\ cstk' = [cstk EXCEPT ![Me] = c] /\ status' = [status EXCEPT ![Me] = "running"]
      /\ UNCHANGED <<class, chain, err>>
  BY <1>1, <1>2, <1>3 DEF RootContinues, Stack, TypeOK
<1>10. m \in MemType /\ AtZero(m) /\ \A o \in Obj : m.rc[o] = rc[o] - Count(LastOf(Stack), o)
  BY ReleaseNow
<1>11. ASSUME NEW o \in Obj
       PROVE  m.rc[o] - OnStack(t, o) = rc[o] - OnStack(Stack, o)
  <2>1. OnStack(t, o) = OnStack(Stack, o) - Count(LastOf(Stack), o) BY <1>4, <1>7, OnStackPop
  <2>2. OnStack(Stack, o) \in Nat BY <1>4, OnStackInterval
  <2>3. rc[o] \in Int BY MemFacts
  <2>4. m.rc[o] = rc[o] - Count(LastOf(Stack), o) BY <1>10
  <2> HIDE DEF m, t
  <2> QED BY <2>1, <2>2, <2>3, <2>4, CountType
<1>12. (\A i \in 1..n : Agrees(class, Stack[i])) /\ Anchored(Stack, c, class)
  BY <1>2, StackValues
<1> HIDE DEF t, m, n, c
<1>13. \A i \in 1..Len(t) : Agrees(class, t[i]) BY <1>4, <1>8, <1>12
<1>14. Anchored(t, c, class)
  <2>1. Len(t) \in Nat /\ LastOf(c).base <= Len(t) BY <1>4, <1>5, <1>6, <1>8
  <2>2. \A i \in 1..Len(t) : i <= LastOf(c).base => t[i] = Stack[i] BY <1>8
  <2> QED BY <1>4, <1>5, <1>12, <2>1, <2>2, AnchoredAbove
<1>15. Len(t) <= MaxSlots BY <1>4, <1>8, SizeAssumption DEF SizeAssumption
<1>16. Writes(t, c, "running") BY <1>1, <1>2, <1>4, <1>8, <1>9, <1>15 DEF Writes, TypeOK
<1> QED BY <1>5, <1>9, <1>10, <1>11, <1>13, <1>14, <1>16, WriteStep

\* A return moves the result down to the slot of the closure.
Landed(t, s, b, res) ==
  /\ t \in Seq(Value) /\ Len(t) = b /\ t[b] = res
  /\ \A i \in 1..(b - 1) : t[i] = s[i]

LEMMA ReturnedFacts ==
  ASSUME NEW s \in Seq(Value), NEW fr, fr.base \in 1..Len(s), NEW res \in Value
  PROVE  Landed(Returned(s, fr, res), s, fr.base, res)
  BY CutFacts DEF Returned, Landed

LEMMA DroppedFacts ==
  ASSUME NEW s \in Seq(Value), NEW fr, fr.base \in 1..Len(s),
         s[fr.base] = Closure(fr.cl), NEW m \in MemType, AtZero(m)
  PROVE  /\ Dropped(m, s, fr) \in MemType /\ AtZero(Dropped(m, s, fr))
         /\ \A res \in Value : \A o \in Obj : Dropped(m, s, fr).rc[o]
              = m.rc[o] - OnStack(s, o) + OnStack(Returned(s, fr, res), o) - Count(res, o)
<1> DEFINE b == fr.base
           n == Len(s)
           d == b + 1
           m1 == Release(m, Closure(fr.cl))
           m2 == Dropped(m, s, fr)
<1>1. b \in 1..n /\ n \in Nat /\ d \in Int BY LenProperties
<1>3. m1 \in MemType /\ AtZero(m1) BY ReleaseType, ReleaseAtZero
<1>4. m2 = ReleaseAll(m1, s, d..n) BY DEF Dropped
<1>5. IsFiniteSet(d..n)
  <2> HIDE DEF d, n
  <2> QED BY <1>1, FS_Interval
<1>6. m2 \in MemType /\ AtZero(m2) BY <1>3, <1>4, <1>5, ReleaseAllType, ReleaseAllAtZero
<1>7. ASSUME NEW res \in Value, NEW o \in Obj
      PROVE  m2.rc[o] = m.rc[o] - OnStack(s, o) + OnStack(Returned(s, fr, res), o)
                          - Count(res, o)
  <2> DEFINE t == Returned(s, fr, res)
  <2>1. OnStack(t, o) = OnStack(s, o) - Count(s[b], o) - Occ(s, d..n, o) + Count(res, o)
        /\ Occ(s, d..n, o) \in Nat
    BY OnStackCut DEF Returned
  <2>2. m1.rc[o] = m.rc[o] - Count(s[b], o) BY ReleaseCount
  <2>3. m2.rc[o] = m1.rc[o] - Occ(s, d..n, o) BY <1>4, ReleaseAllCount
  <2>4. OnStack(s, o) \in Nat /\ m.rc[o] \in Int BY OnStackInterval DEF MemType
  <2>5. Count(res, o) \in Int /\ Count(s[b], o) \in Int BY CountType
  <2> HIDE DEF t, m1, m2, d, n
  <2>6. m2.rc[o] = m.rc[o] - OnStack(s, o) + OnStack(t, o) - Count(res, o)
    BY <2>1, <2>2, <2>3, <2>4, <2>5
  <2> QED BY <2>6 DEF t
<1> QED BY <1>6, <1>7

LEMMA ReturnStep == FiberInv /\ Return => FiberInv'
<1> SUFFICES ASSUME FiberInv, Return PROVE FiberInv' OBVIOUS
<1> DEFINE res == LastOf(Stack)
           s == ButLast(Stack)
           t == Returned(s, Top, res)
           c == ButLast(cstk[Me])
           n == Len(Stack)
           b == Top.base
           m == Dropped(Mem, s, Top)
<1>1. TypeOK /\ Standing /\ FramesAnchored /\ At("RETURN") /\ HasLocal(1)
  BY DEF FiberInv, Return
<1>2. /\ chain # <<>> /\ Stack \in Seq(Value) /\ n \in Nat /\ n <= MaxSlots
      /\ b \in 1..n /\ b \in Nat /\ Top \in Frame /\ Stack[b] = Closure(Top.cl)
      /\ status[Me] = "running" /\ cstk[Me] # <<>> /\ Top = LastOf(cstk[Me])
      /\ Me \in FiberId
  BY <1>1, AtFacts, ChainFacts
<1>3. Stack # <<>>
  <2>1. Len(<<>>) = 0 BY EmptySeq
  <2> QED BY <1>2, <2>1
<1>4. /\ s \in Seq(Value) /\ Len(s) = n - 1 /\ res \in Value /\ res = Stack[n]
      /\ \A i \in 1..(n - 1) : s[i] = Stack[i]
  BY <1>2, <1>3, LastFacts
<1>5. b \in 1..(n - 1) BY <1>1, <1>2 DEF HasLocal
<1>6. s[b] = Closure(Top.cl) /\ b \in 1..Len(s) BY <1>2, <1>4, <1>5
<1>7. Mem \in MemType /\ AtZero(Mem) /\ Mem.rc = rc BY MemFacts
<1> HIDE DEF s, res
<1>8. /\ t \in Seq(Value) /\ Len(t) = b /\ \A i \in 1..(b - 1) : t[i] = s[i]
      /\ t[b] = res
      /\ m \in MemType /\ AtZero(m)
      /\ \A o \in Obj : m.rc[o] = Mem.rc[o] - OnStack(s, o) + OnStack(t, o) - Count(res, o)
  <2>1. Top.base \in 1..Len(s) /\ s[Top.base] = Closure(Top.cl) BY <1>6
  <2>2. s \in Seq(Value) /\ res \in Value BY <1>4
  <2>3. /\ m \in MemType /\ AtZero(m)
        /\ \A o \in Obj : m.rc[o] = Mem.rc[o] - OnStack(s, o) + OnStack(t, o) - Count(res, o)
    BY <1>7, <2>1, <2>2, DroppedFacts
  <2>4. Landed(t, s, b, res) BY <2>1, <2>2, ReturnedFacts
  <2> QED BY <2>3, <2>4 DEF Landed
<1>9. t = Returned(Stack, Top, res)
  <2> DEFINE u == Returned(Stack, Top, res)
  <2>1. /\ u \in Seq(Value) /\ Len(u) = b /\ \A i \in 1..(b - 1) : u[i] = Stack[i]
        /\ u[b] = res
    <3>1. Top.base \in 1..Len(Stack) BY <1>2
    <3>2. Stack \in Seq(Value) /\ res \in Value BY <1>2, <1>4
    <3>3. Landed(u, Stack, b, res) BY <3>1, <3>2, ReturnedFacts
    <3> QED BY <3>3 DEF Landed
  <2> HIDE DEF t, u, b
  <2>2. \A i \in 1..b : t[i] = u[i]
    <3>1. \A i \in 1..b : i = b \/ (i \in 1..(b - 1) /\ i \in 1..(n - 1)) BY <1>2
    <3> QED BY <1>4, <1>8, <2>1, <3>1
  <2>3. t = u BY <1>8, <2>1, <2>2, SeqEqual
  <2> QED BY <2>3 DEF u
<1>10. ASSUME NEW o \in Obj
       PROVE  m.rc[o] - OnStack(t, o) = rc[o] - OnStack(Stack, o)
  <2>1. OnStack(s, o) = OnStack(Stack, o) - Count(res, o)
    BY <1>2, <1>3, OnStackPop DEF s, res
  <2>2. OnStack(Stack, o) \in Nat /\ OnStack(t, o) \in Nat /\ OnStack(s, o) \in Nat
    BY <1>2, <1>4, <1>8, OnStackInterval
  <2>3. rc[o] \in Int BY MemFacts
  <2>4. m.rc[o] = rc[o] - OnStack(s, o) + OnStack(t, o) - Count(res, o) BY <1>7, <1>8
  <2>5. Count(res, o) \in Int BY CountType
  <2> HIDE DEF m, t
  <2> QED BY <2>1, <2>2, <2>3, <2>4, <2>5
<1>11. /\ stk' = [stk EXCEPT ![Me] = t] /\ Becomes(m) /\ cstk' = [cstk EXCEPT ![Me] = c]
       /\ status' = [status EXCEPT ![Me] = "running"] /\ UNCHANGED <<class, chain, err>>
  BY <1>1, <1>2, <1>9 DEF Return, Stack, TypeOK, res, s
<1>12. cstk[Me] \in Seq(Frame) /\ Len(cstk[Me]) \in Nat /\ Len(cstk[Me]) <= MaxFrames
       /\ MaxFrames \in Nat
  BY <1>1, <1>2, FiberFacts
<1>13. c \in Seq(Frame) /\ Len(c) <= MaxFrames
  <2>1. c \in Seq(Frame) /\ Len(c) = Len(cstk[Me]) - 1 BY <1>2, <1>12, LastFacts
  <2> HIDE DEF c
  <2> QED BY <1>12, <2>1
<1>14. Len(t) <= MaxSlots BY <1>2, <1>8, SizeAssumption DEF SizeAssumption
<1>15. (\A i \in 1..n : Agrees(class, Stack[i])) /\ Anchored(Stack, cstk[Me], class)
  BY <1>2, StackValues
<1>16. t # <<>>
  <2>1. Len(<<>>) = 0 BY EmptySeq
  <2> QED BY <1>2, <1>8, <2>1
<1> HIDE DEF t, m, b
<1>17. \A i \in 1..(b - 1) : i \in 1..n /\ i \in 1..(n - 1) /\ t[i] = Stack[i]
  BY <1>2, <1>4, <1>5, <1>8
<1>18. \A i \in 1..Len(t) : Agrees(class, t[i])
  <2>1. n \in 1..n BY <1>2
  <2>2. \A i \in 1..b : i = b \/ i \in 1..(b - 1) BY <1>2
  <2> QED BY <1>4, <1>8, <1>15, <1>17, <2>1, <2>2
<1>19. Anchored(t, c, class)
  <2>1. Len(t) \in Nat /\ LastOf(cstk[Me]).base <= Len(t) BY <1>2, <1>8 DEF b
  <2>2. \A i \in 1..Len(t) : i < LastOf(cstk[Me]).base => t[i] = Stack[i]
    <3>1. \A i \in 1..b : i < b => i \in 1..(b - 1) BY <1>2
    <3> QED BY <1>2, <1>8, <1>17, <3>1 DEF b
  <2> QED BY <1>2, <1>12, <1>15, <2>1, <2>2, AnchoredReturn
<1> HIDE DEF c
<1>20. Writes(t, c, "running")
  BY <1>1, <1>2, <1>8, <1>11, <1>13, <1>14 DEF Writes, TypeOK
<1> QED BY <1>10, <1>11, <1>8, <1>16, <1>18, <1>19, <1>20, WriteStep

-----------------------------------------------------------------------------
(***************************************************************************)
(* Activations come and go.                                                *)
(***************************************************************************)
\* Everything the counts depend on is unchanged, but that an error may come up.
LEMMA SameCounts ==
  ASSUME TypeOK, Counts, UNCHANGED <<stk, class, rc>>, Fibers' = Fibers,
         err' \in BOOLEAN, err => err'
  PROVE  Counts'
<1>1. ASSUME NEW o \in Obj
      PROVE  IF err' THEN rc'[o] >= Holders(Fibers', stk', class', o)
                     ELSE rc'[o] = Holders(Fibers', stk', class', o)
  <2> DEFINE h == Holders(Fibers, stk, class, o)
  <2>1. Holders(Fibers', stk', class', o) = h /\ rc'[o] = rc[o] OBVIOUS
  <2>2. rc[o] \in Int BY DEF TypeOK
  <2>3. IF err THEN rc[o] >= h ELSE rc[o] = h BY DEF Counts
  <2>4. err \in BOOLEAN BY DEF TypeOK
  <2> HIDE DEF h
  <2> QED BY <2>1, <2>2, <2>3, <2>4
<1> QED BY <1>1 DEF Counts

LEMMA SameAtZero ==
  ASSUME AtZero(Mem), UNCHANGED <<rc, dying>>
  PROVE  AtZero(Mem)'
  BY DEF AtZero, Mem

LEMMA SameFramesAll ==
  ASSUME FramesAnchored, UNCHANGED <<stk, cstk, class>>
  PROVE  FramesAnchored'
<1>1. ASSUME NEW f \in FiberId PROVE Anchored(stk'[f], cstk'[f], class')
  BY DEF FramesAnchored
<1> QED BY <1>1 DEF FramesAnchored

LEMMA SameWellTyped ==
  ASSUME WellTyped, UNCHANGED <<stk, class>>, Fibers' = Fibers
  PROVE  WellTyped'
<1>1. ASSUME NEW f \in FiberId, NEW i \in 1..Len(stk'[f])
      PROVE  Agrees(class', stk'[f][i])
  BY DEF WellTyped
<1> QED BY <1>1 DEF WellTyped

\* What a value says of the object it names.
LEMMA FiberValue ==
  ASSUME NEW cl, NEW v \in Value, Agrees(cl, v), v.type = "fiber"
  PROVE  v.data \in Obj /\ v = Fiber(v.data) /\ cl[v.data] = "fiber"
<1>1. IsObject(v) /\ v.data \in Obj BY DEF Value, IsObject, ScalarType, ObjectType
<1>2. v # Closure(v.data) BY <1>1, ValueFacts
<1> QED BY <1>1, <1>2 DEF Agrees

LEMMA ClosureValue ==
  ASSUME NEW cl, NEW v \in Value, Agrees(cl, v), v.type = "closure"
  PROVE  v.data \in Obj /\ v = Closure(v.data) /\ cl[v.data] \in Fun
<1>1. IsObject(v) /\ v.data \in Obj BY DEF Value, IsObject, ScalarType, ObjectType
<1>2. v # Fiber(v.data) BY <1>1, ValueFacts
<1> QED BY <1>1, <1>2 DEF Agrees

LEMMA ResumeStep == FiberInv /\ Resume => FiberInv'
<1> SUFFICES ASSUME FiberInv, Resume PROVE FiberInv' OBVIOUS
<1> DEFINE val == Local(1)
           q == val.data
           n == Len(chain)
           u == Append(chain, q)
<1>1. TypeOK /\ Standing /\ WellTyped /\ Counts /\ FramesAnchored /\ AtZero(Mem)
      /\ At("RESUME") /\ HasLocal(1)
  BY DEF FiberInv, Resume
<1>2. CASE Fail BY <1>1, <1>2, FailStep
<1>3. CASE /\ val.type = "fiber" /\ status[q] = "suspended"
           /\ status' = [status EXCEPT ![q] = "running"]
           /\ chain' = Append(chain, q)
           /\ UNCHANGED <<stk, cstk, err, class, rc, dying>>
  <2>1. /\ chain # <<>> /\ status[Me] = "running" /\ cstk[Me] # <<>> /\ Top.code # <<>>
        /\ Head(Top.code).op = "RESUME" /\ Top = LastOf(cstk[Me])
    BY <1>1, AtFacts
  <2>2. val \in Value /\ Agrees(class, val) /\ val = Stack[Top.base + 1]
    <3> DEFINE z == 1
    <3>1. z \in Nat /\ HasLocal(z) BY <1>1
    <3> HIDE DEF z
    <3>2. Local(z) \in Value /\ Agrees(class, Local(z)) /\ Local(z) = Stack[Top.base + z]
      BY <1>1, <3>1, LocalFacts
    <3> QED BY <3>2 DEF z
  <2>3. q \in Obj /\ val = Fiber(q) /\ class[q] = "fiber" BY <1>3, <2>2, FiberValue
  <2> HIDE DEF q, val
  <2>4. q \in FiberId BY <2>3 DEF FiberId
  <2>5. /\ n \in Nat /\ n >= 1 /\ Me = chain[n]
        /\ \A i \in 1..n : chain[i] \in FiberId
        /\ chain \in Seq(FiberId) /\ DOMAIN chain = 1..n
    BY <1>1, <2>1, ChainFacts, LenProperties DEF TypeOK
  <2>6. /\ u \in Seq(FiberId) /\ Len(u) = n + 1 /\ u[n + 1] = q
        /\ \A i \in 1..n : u[i] = chain[i]
    BY <2>4, <2>5, AppendProperties
  <2>7. DOMAIN u = 1..(n + 1) BY <2>6, LenProperties
  <2>8. u # <<>>
    <3>1. Len(<<>>) = 0 BY EmptySeq
    <3> QED BY <2>5, <2>6, <3>1
  <2>9. chain' = u BY <1>3
  <2> HIDE DEF u, n
  <2>10. /\ status \in [FiberId -> {"suspended", "running", "done"}]
         /\ status'[q] = "running"
         /\ \A f \in FiberId : f # q => status'[f] = status[f]
    BY <1>1, <1>3, <2>4 DEF TypeOK
  <2>11. \A i \in 1..n : status[chain[i]] = "running"
    <3>1. \A i \in 1..(n - 1) : status[chain[i]] = "running"
      BY <1>1, ChainSoundNow DEF Standing, Waits, n
    <3>2. \A i \in 1..n : i = n \/ i \in 1..(n - 1) BY <2>5
    <3> QED BY <2>1, <2>5, <3>1, <3>2
  <2>12. \A i \in 1..n : chain[i] # q /\ status'[chain[i]] = status[chain[i]]
    BY <1>3, <2>5, <2>10, <2>11
  <2>13. TypeOK'
    <3>1. status' \in [FiberId -> {"suspended", "running", "done"}] BY <1>3, <2>10
    <3> QED BY <1>1, <1>3, <2>6, <2>9, <3>1 DEF TypeOK
  <2>14. Fibers' = Fibers BY <1>3, <2>1, <2>8, <2>9 DEF Fibers, Ended
  <2>15. WellTyped' /\ Counts' /\ FramesAnchored' /\ AtZero(Mem)'
    <3>1. err' \in BOOLEAN /\ (err => err') BY <1>1, <1>3 DEF TypeOK
    <3> QED BY <1>1, <1>3, <2>14, <3>1, SameWellTyped, SameCounts, SameFramesAll, SameAtZero
  <2>16. \A i \in 1..(n + 1) : i = n + 1 \/ i \in 1..n BY <2>5
  <2>17. ASSUME NEW i \in 1..(n + 1), NEW j \in 1..(n + 1), i # j PROVE u[i] # u[j]
    <3>1. \A k, l \in 1..n : k # l => chain[k] # chain[l]
      BY <1>1, <2>5 DEF Standing, ChainSound
    <3> QED BY <2>6, <2>12, <2>16, <2>17, <3>1
  <2>18. ASSUME NEW f \in FiberId, status'[f] = "running"
         PROVE  \E i \in 1..(n + 1) : u[i] = f
    <3>1. CASE f = q
      <4>1. n + 1 \in 1..(n + 1) BY <2>5
      <4> QED BY <2>6, <3>1, <4>1
    <3>2. CASE f # q
      <4>1. PICK i \in 1..n : chain[i] = f
        BY <1>1, <2>5, <2>10, <2>18, <3>2 DEF Standing, ChainSound
      <4>2. i \in 1..(n + 1) BY <2>5
      <4> QED BY <2>6, <4>1, <4>2
    <3> QED BY <3>1, <3>2
  <2>19. ASSUME NEW i \in 1..n
         PROVE  Waits(stk[u[i]], cstk[u[i]], status'[u[i]], class, u[i + 1])
    <3>1. u[i] = chain[i] /\ status'[u[i]] = status[chain[i]] BY <2>6, <2>12
    <3>2. CASE i = n
      <4>1. Waits(stk[Me], cstk[Me], "running", class, q)
        BY <2>1, <2>2, <2>3 DEF Waits, Stack
      <4> QED BY <2>1, <2>5, <2>6, <3>1, <3>2, <4>1
    <3>3. CASE i # n
      <4>1. i \in 1..(n - 1) /\ i + 1 \in 1..n BY <2>5, <3>3
      <4>2. Waits(stk[chain[i]], cstk[chain[i]], status[chain[i]], class, chain[i + 1])
        BY <1>1, <4>1, ChainSoundNow DEF Standing, n
      <4> QED BY <2>6, <3>1, <4>1, <4>2
    <3> QED BY <3>2, <3>3
  <2>20. ChainSound'
    <3>1. \A i \in 1..(Len(u) - 1) : i \in 1..n BY <2>5, <2>6
    <3>2. \A i \in 1..(Len(u) - 1) :
            Waits(stk'[u[i]], cstk'[u[i]], status'[u[i]], class', u[i + 1])
      BY <1>3, <2>19, <3>1
    <3> QED BY <2>7, <2>9, <2>17, <2>18, <3>2, ChainSoundNext
  <2>21. \A i \in 1..n : HasArgument(stk[chain[i]], cstk[chain[i]])
    <3>1. \A i \in 1..(n - 1) : HasArgument(stk[chain[i]], cstk[chain[i]])
      BY <1>1 DEF Standing, n
    <3>2. \A i \in 1..n : i = n \/ i \in 1..(n - 1) BY <2>5
    <3>3. HasArgument(stk[Me], cstk[Me])
      BY <1>1, <2>1 DEF HasArgument, HasLocal, Stack
    <3> QED BY <2>5, <3>1, <3>2, <3>3
  <2>22. cstk[q] # <<>> BY <1>1, <1>3, <2>3 DEF Standing
  <2>23. u[1] = Root
    <3>1. 1 \in 1..n BY <2>5
    <3> QED BY <1>1, <2>1, <2>6, <3>1 DEF Standing
  <2>24. /\ \A i \in 1..(n + 1) : cstk[u[i]] # <<>>
         /\ \A i \in 1..n : HasArgument(stk[u[i]], cstk[u[i]])
    BY <2>6, <2>16, <2>21, <2>22 DEF HasArgument
  <2>25. Me' = q BY <2>6, <2>9 DEF Me, LastOf
  <2>26. \A f \in Obj : status'[f] = "suspended" => cstk[f] # <<>>
    BY <1>1, <2>10 DEF Standing, FiberId
  <2>27. \A i \in 1..(Len(u) - 1) : i \in 1..n BY <2>5, <2>6
  <2>28. Standing'
    BY <1>3, <2>6, <2>9, <2>10, <2>20, <2>23, <2>24, <2>25, <2>26, <2>27 DEF Standing
  <2> QED BY <2>13, <2>15, <2>28 DEF FiberInv
<1> QED BY <1>2, <1>3 DEF Resume

\* The last activation of the chain ends.
LEMMA ChainLeft ==
  ASSUME TypeOK, Standing, chain # <<>>, chain' = ButLast(chain), class' = class,
         status' \in [FiberId -> {"suspended", "running", "done"}],
         status'[Me] # "running",
         \A f \in FiberId : f # Me => status'[f] = status[f],
         \A f \in Obj : status'[f] = "suspended" => cstk'[f] # <<>>,
         \A i \in 1..(Len(chain) - 2) :
           stk'[chain[i]] = stk[chain[i]] /\ cstk'[chain[i]] = cstk[chain[i]],
         \A i \in 1..(Len(chain) - 1) : cstk'[chain[i]] # <<>> \/ stk'[chain[i]] # <<>>
  PROVE  Standing'
<1> DEFINE n == Len(chain)
           u == ButLast(chain)
           h == n - 1
<1>1. /\ n \in Nat /\ n >= 1 /\ Me = chain[n] /\ Me \in FiberId
      /\ \A i \in 1..n : chain[i] \in FiberId
      /\ \A i \in 1..(n - 1) : chain[i] # Me
      /\ chain \in Seq(FiberId) /\ DOMAIN chain = 1..n
  BY ChainFacts, LenProperties DEF TypeOK
<1>2. u \in Seq(FiberId) /\ Len(u) = h /\ \A i \in 1..h : u[i] = chain[i]
  BY <1>1, LastFacts
<1>3. DOMAIN u = 1..h BY <1>2, LenProperties
<1>4. chain' = u OBVIOUS
<1>5. \A i \in 1..h : i \in 1..n /\ chain[i] # Me /\ chain[i] \in FiberId BY <1>1
<1>6. h \in Nat /\ n = h + 1 BY <1>1
<1>7. /\ \A i \in 1..(h - 1) : stk'[chain[i]] = stk[chain[i]] /\ cstk'[chain[i]] = cstk[chain[i]]
      /\ \A i \in 1..h : cstk'[chain[i]] # <<>> \/ stk'[chain[i]] # <<>>
  <2>1. h - 1 = n - 2 BY <1>1
  <2> QED BY <2>1
<1>8. \A i \in 1..h : status'[chain[i]] = status[chain[i]] BY <1>5
<1>9. \A i \in 1..h : Waits(stk[chain[i]], cstk[chain[i]], status[chain[i]], class, chain[i + 1])
  BY ChainSoundNow DEF Standing
<1>10. \A i \in 1..h : status'[chain[i]] = "running" BY <1>8, <1>9 DEF Waits
<1> HIDE DEF u, n, h
<1>11. ASSUME NEW i \in 1..h, NEW j \in 1..h, i # j PROVE u[i] # u[j]
  <2>1. \A k, l \in DOMAIN chain : k # l => chain[k] # chain[l] BY DEF Standing, ChainSound
  <2>2. u[i] = chain[i] /\ u[j] = chain[j] BY <1>2
  <2>3. i \in DOMAIN chain /\ j \in DOMAIN chain BY <1>1, <1>5
  <2> QED BY <1>11, <2>1, <2>2, <2>3
<1>12. ASSUME NEW f \in FiberId, status'[f] = "running"
       PROVE  \E i \in 1..h : u[i] = f
  <2>1. f # Me BY <1>12
  <2>2. PICK i \in 1..n : chain[i] = f BY <1>1, <1>12, <2>1 DEF Standing, ChainSound
  <2>3. i \in 1..h BY <1>1, <1>6, <2>1, <2>2
  <2> QED BY <1>2, <2>2, <2>3
<1>13. ASSUME NEW i \in 1..(h - 1)
       PROVE  Waits(stk'[u[i]], cstk'[u[i]], status'[u[i]], class', u[i + 1])
  <2>1. i \in 1..h /\ i + 1 \in 1..h BY <1>6
  <2>2. u[i] = chain[i] /\ u[i + 1] = chain[i + 1] BY <1>2, <2>1
  <2>3. Waits(stk[chain[i]], cstk[chain[i]], status[chain[i]], class, chain[i + 1])
    BY <1>9, <2>1
  <2>4. /\ stk'[chain[i]] = stk[chain[i]] /\ cstk'[chain[i]] = cstk[chain[i]]
        /\ status'[chain[i]] = status[chain[i]] /\ class' = class
    BY <1>7, <1>8, <2>1
  <2> QED BY <2>2, <2>3, <2>4
<1>14. ChainSound' BY <1>2, <1>3, <1>4, <1>11, <1>12, <1>13, ChainSoundNext
<1>15. ASSUME u # <<>>
       PROVE  h >= 1 /\ u[1] = Root /\ Me' = chain[h]
  <2>1. h >= 1 /\ LastOf(u) = u[h] BY <1>2, <1>15, LastFacts
  <2>2. 1 \in 1..h /\ h \in 1..h BY <1>6, <2>1
  <2> QED BY <1>2, <1>4, <2>1, <2>2 DEF Standing, Me
<1>16. ASSUME u # <<>> PROVE status'[Me'] # "suspended"
  <2>1. h \in 1..h BY <1>6, <1>15, <1>16
  <2> QED BY <1>10, <1>15, <1>16, <2>1
<1>17. \A i \in 1..(Len(u) - 1) : HasArgument(stk'[u[i]], cstk'[u[i]])
  <2>1. \A i \in 1..(h - 1) : i \in 1..h /\ i \in 1..(n - 1) BY <1>6
  <2>2. \A i \in 1..(n - 1) : HasArgument(stk[chain[i]], cstk[chain[i]]) BY DEF Standing, n
  <2> QED BY <1>2, <1>7, <2>1, <2>2
<1>18. \A i \in 1..Len(u) : cstk'[u[i]] # <<>> \/ stk'[u[i]] # <<>> BY <1>2, <1>7
<1> QED BY <1>4, <1>14, <1>15, <1>16, <1>17, <1>18 DEF Standing

\* When the last activation ends the stack of main() is still there.
LEMMA RootKeepsStack ==
  ASSUME TypeOK, Standing, FramesAnchored, chain # <<>>
  PROVE  ButLast(chain) = <<>> => stk[Root] # <<>>
<1> SUFFICES ASSUME ButLast(chain) = <<>> PROVE stk[Root] # <<>> OBVIOUS
<1>1. 1 \in 1..Len(chain) /\ chain[1] = Root BY ChainFacts DEF Standing
<1>2. Root \in FiberId BY DEF FiberId
<1>3. stk[Root] # <<>> \/ cstk[Root] # <<>> BY <1>1 DEF Standing
<1>4. ASSUME cstk[Root] # <<>> PROVE stk[Root] # <<>>
  <2>1. Anchored(stk[Root], cstk[Root], class) BY <1>2 DEF FramesAnchored
  <2>2. LastOf(cstk[Root]).base \in 1..Len(stk[Root])
    BY <1>2, <1>4, <2>1, FiberFacts, AnchoredTop
  <2>3. Len(<<>>) = 0 BY EmptySeq
  <2> QED BY <2>2, <2>3
<1> QED BY <1>3, <1>4

LEMMA UnwindStep == FiberInv /\ Unwind => FiberInv'
<1> SUFFICES ASSUME FiberInv, Unwind PROVE FiberInv' OBVIOUS
<1>1. TypeOK /\ Standing /\ WellTyped /\ Counts /\ FramesAnchored /\ AtZero(Mem)
  BY DEF FiberInv
<1>2. /\ chain # <<>> /\ err /\ status' = [status EXCEPT ![Me] = "done"]
      /\ chain' = ButLast(chain) /\ UNCHANGED <<stk, cstk, err, class, rc, dying>>
  BY DEF Unwind
<1>3. Me \in FiberId /\ status \in [FiberId -> {"suspended", "running", "done"}]
      /\ chain \in Seq(FiberId)
  BY <1>1, <1>2, ChainFacts DEF TypeOK
<1>4. /\ status' \in [FiberId -> {"suspended", "running", "done"}]
      /\ status'[Me] = "done" /\ \A f \in FiberId : f # Me => status'[f] = status[f]
  BY <1>2, <1>3
<1>5. chain' \in Seq(FiberId) BY <1>2, <1>3, LastFacts
<1>6. TypeOK' BY <1>1, <1>2, <1>4, <1>5 DEF TypeOK
<1>7. Fibers' = Fibers
  <2>1. ~Ended BY <1>2 DEF Ended
  <2>2. ~Ended' BY <1>1, <1>2, RootKeepsStack DEF Ended
  <2> QED BY <1>2, <2>1, <2>2 DEF Fibers
<1>8. WellTyped' /\ Counts' /\ FramesAnchored' /\ AtZero(Mem)'
  <2>1. err' \in BOOLEAN /\ (err => err') BY <1>1, <1>2 DEF TypeOK
  <2> QED BY <1>1, <1>2, <1>7, <2>1, SameWellTyped, SameCounts, SameFramesAll, SameAtZero
<1>9. \A f \in Obj : status'[f] = "suspended" => cstk'[f] # <<>>
  BY <1>1, <1>2, <1>4 DEF Standing, FiberId
<1>10. \A i \in 1..(Len(chain) - 1) : cstk'[chain[i]] # <<>> \/ stk'[chain[i]] # <<>>
  BY <1>1, <1>2 DEF Standing
<1>11. Standing' BY <1>1, <1>2, <1>4, <1>9, <1>10, ChainLeft
<1> QED BY <1>6, <1>8, <1>11 DEF FiberInv

LEMMA RootDoneStep == FiberInv /\ RootDone => FiberInv'
<1> SUFFICES ASSUME FiberInv, RootDone PROVE FiberInv' OBVIOUS
<1>1. TypeOK /\ Standing /\ WellTyped /\ Counts /\ FramesAnchored /\ AtZero(Mem)
  BY DEF FiberInv
<1>2. /\ chain = <<Root>> /\ cstk[Root] = <<>> /\ status' = [status EXCEPT ![Root] = "done"]
      /\ chain' = <<>> /\ UNCHANGED <<stk, cstk, err, class, rc, dying>>
  BY DEF RootDone
<1>3. chain # <<>> /\ Len(chain) = 1 /\ Me = Root /\ chain \in Seq(FiberId)
  <2>1. Len(<<Root>>) = 1 /\ <<Root>>[1] = Root OBVIOUS
  <2> QED BY <1>1, <1>2, <2>1 DEF Me, LastOf, TypeOK
<1>4. chain' = ButLast(chain)
  <2>1. ButLast(chain) \in Seq(FiberId) /\ Len(ButLast(chain)) = Len(chain) - 1
    BY <1>3, LastFacts
  <2>2. Len(ButLast(chain)) = 0 BY <1>3, <2>1
  <2>3. ButLast(chain) = <<>> BY <2>1, <2>2, EmptySeq
  <2> QED BY <1>2, <2>3
<1>5. Me \in FiberId /\ status \in [FiberId -> {"suspended", "running", "done"}]
  BY <1>1, <1>3, ChainFacts DEF TypeOK
<1>6. /\ status' \in [FiberId -> {"suspended", "running", "done"}]
      /\ status'[Me] = "done" /\ \A f \in FiberId : f # Me => status'[f] = status[f]
  BY <1>2, <1>3, <1>5
<1>7. chain' \in Seq(FiberId) BY <1>3, <1>4, LastFacts
<1>8. TypeOK' BY <1>1, <1>2, <1>6, <1>7 DEF TypeOK
<1>9. Fibers' = Fibers
  <2>1. ~Ended BY <1>3 DEF Ended
  <2>2. stk[Root] # <<>> BY <1>1, <1>2, <1>3, <1>4, RootKeepsStack
  <2>3. ~Ended' BY <1>2, <2>2 DEF Ended
  <2> QED BY <1>2, <2>1, <2>3 DEF Fibers
<1>10. WellTyped' /\ Counts' /\ FramesAnchored' /\ AtZero(Mem)'
  <2>1. err' \in BOOLEAN /\ (err => err') BY <1>1, <1>2 DEF TypeOK
  <2> QED BY <1>1, <1>2, <1>9, <2>1, SameWellTyped, SameCounts, SameFramesAll, SameAtZero
<1>11. \A f \in Obj : status'[f] = "suspended" => cstk'[f] # <<>>
  BY <1>1, <1>2, <1>6 DEF Standing, FiberId
<1>12. \A i \in 1..(Len(chain) - 1) : cstk'[chain[i]] # <<>> \/ stk'[chain[i]] # <<>>
  BY <1>1, <1>2 DEF Standing
<1>13. Standing' BY <1>1, <1>2, <1>3, <1>4, <1>6, <1>11, <1>12, ChainLeft
<1> QED BY <1>8, <1>10, <1>13 DEF FiberInv

LEMMA HoldersMoved ==
  ASSUME NEW F, IsFiniteSet(F), NEW s, Stacks(F, s), NEW t, Stacks(F, t), NEW cl, NEW o
  PROVE  /\ Holders(F, s, cl, o) \in Nat /\ Holders(F, t, cl, o) \in Nat
         /\ OnStacks(F, s, o) \in Nat /\ OnStacks(F, t, o) \in Nat
         /\ Holders(F, t, cl, o) = Holders(F, s, cl, o) - OnStacks(F, s, o) + OnStacks(F, t, o)
<1> DEFINE a == IF cl[GlobalsObj] = "array" THEN OnStack(GlobalsHeld, o) ELSE 0
           d == IF o = GlobalsObj THEN Cardinality(F) ELSE 0
           hs == Holders(F, s, cl, o)
           ht == Holders(F, t, cl, o)
<1>1. a \in Nat BY GlobalsCount
<1>2. d \in Nat BY FS_CardinalityType
<1>3. hs = OnStacks(F, s, o) + a + d /\ ht = OnStacks(F, t, o) + a + d BY DEF Holders
<1>4. OnStacks(F, s, o) \in Nat /\ OnStacks(F, t, o) \in Nat BY PlacesFinite
<1> HIDE DEF a, d, hs, ht
<1>5. hs \in Nat /\ ht \in Nat /\ ht = hs - OnStacks(F, s, o) + OnStacks(F, t, o)
  BY <1>1, <1>2, <1>3, <1>4
<1> QED BY <1>4, <1>5 DEF hs, ht

\* Two of the stacks are written.
LEMMA TwoWritten ==
  ASSUME NEW F, IsFiniteSet(F), NEW s, Stacks(F, s), NEW t, Stacks(F, t),
         NEW f \in F, NEW g \in F, f # g, \A k \in F : k # f /\ k # g => s[k] = t[k], NEW o
  PROVE  OnStacks(F, t, o) = OnStacks(F, s, o) - OnStack(s[f], o) + OnStack(t[f], o)
                                - OnStack(s[g], o) + OnStack(t[g], o)
<1> DEFINE u == [k \in F |-> IF k = f THEN t[f] ELSE s[k]]
<1>1. Stacks(F, u) BY DEF Stacks
<1>2. u[f] = t[f] /\ u[g] = s[g] OBVIOUS
<1>3. \A k \in F \ {f} : s[k] = u[k] OBVIOUS
<1>4. \A k \in F \ {g} : u[k] = t[k] OBVIOUS
<1> HIDE DEF u
<1>5. OnStacks(F, u, o) = OnStacks(F, s, o) - OnStack(s[f], o) + OnStack(u[f], o)
  BY <1>1, <1>3, OnStacksWrite
<1>6. OnStacks(F, t, o) = OnStacks(F, u, o) - OnStack(u[g], o) + OnStack(t[g], o)
  BY <1>1, <1>4, OnStacksWrite
<1>7. s[f] \in Seq(Value) /\ s[g] \in Seq(Value) /\ t[f] \in Seq(Value) /\ t[g] \in Seq(Value)
  BY DEF Stacks
<1>8. /\ OnStack(s[f], o) \in Nat /\ OnStack(s[g], o) \in Nat
      /\ OnStack(t[f], o) \in Nat /\ OnStack(t[g], o) \in Nat
  BY <1>7, OnStackInterval
<1>9. OnStacks(F, s, o) \in Nat BY PlacesFinite
<1> QED BY <1>2, <1>5, <1>6, <1>8, <1>9

LEMMA ReleaseRetained ==
  ASSUME FiberInv, dying = {}, NEW v
  PROVE  LET m == Release(Retain(Mem, v), v) IN
         m \in MemType /\ AtZero(m) /\ \A o \in Obj : m.rc[o] = rc[o]
<1> DEFINE m1 == Retain(Mem, v)
           m == Release(m1, v)
<1>1. m1 \in MemType /\ AtZero(m1) /\ \A o \in Obj : m1.rc[o] = rc[o] + Count(v, o)
  BY RetainFresh
<1> HIDE DEF m1
<1>2. m \in MemType /\ AtZero(m) /\ \A o \in Obj : m.rc[o] = m1.rc[o] - Count(v, o)
  BY <1>1, ReleaseType, ReleaseAtZero, ReleaseCount
<1> HIDE DEF m
<1>3. \A o \in Obj : rc[o] \in Int BY MemFacts
<1>4. \A o \in Obj : m.rc[o] = rc[o] BY <1>1, <1>2, <1>3, CountType
<1> QED BY <1>2, <1>4 DEF m, m1

LEMMA HandOverStep == FiberInv /\ HandOver => FiberInv'
<1> SUFFICES ASSUME FiberInv, HandOver PROVE FiberInv' OBVIOUS
<1> DEFINE n == Len(chain)
           p == LastOf(ButLast(chain))
           fr == TopOf(p)
           res == LastOf(Stack)
           m == Release(Retain(Mem, res), res)
           m2 == Dropped(m, stk[p], fr)
           s == ButLast(Stack)
           t == Returned(stk[p], fr, res)
<1>1. TypeOK /\ Standing /\ WellTyped /\ Counts /\ FramesAnchored /\ AtZero(Mem)
  BY DEF FiberInv
<1>2. /\ n > 1 /\ ~err /\ dying = {} /\ (status[Me] = "suspended" \/ cstk[Me] = <<>>)
      /\ chain' = ButLast(chain)
      /\ status' = [status EXCEPT ![Me] = IF cstk[Me] = <<>> THEN "done" ELSE @]
  BY DEF HandOver
<1>3. chain # <<>> /\ chain \in Seq(FiberId)
  <2>1. Len(<<>>) = 0 BY EmptySeq
  <2> QED BY <1>1, <1>2, <2>1 DEF TypeOK
<1>4. /\ n \in Nat /\ Me = chain[n] /\ Me \in FiberId /\ Me \in Fibers
      /\ \A i \in 1..n : chain[i] \in FiberId /\ chain[i] \in Fibers
      /\ \A i \in 1..(n - 1) : chain[i] # Me
  BY <1>1, <1>3, ChainFacts
<1>5. /\ ButLast(chain) \in Seq(FiberId) /\ Len(ButLast(chain)) = n - 1
      /\ \A i \in 1..(n - 1) : ButLast(chain)[i] = chain[i]
  BY <1>3, LastFacts
<1>6. (n - 1) \in 1..(n - 1) /\ (n - 1) \in 1..n BY <1>2, <1>4
<1>7. p = chain[n - 1] BY <1>5, <1>6 DEF LastOf
<1>8. p \in FiberId /\ p \in Fibers /\ p # Me BY <1>4, <1>6, <1>7
<1>9. status[p] = "running" /\ cstk[p] # <<>>
  BY <1>1, <1>6, <1>7, ChainSoundNow DEF Standing, Waits, HasArgument
<1>10. /\ stk \in [FiberId -> Seq(Value)] /\ cstk \in [FiberId -> Seq(Frame)]
       /\ status \in [FiberId -> {"suspended", "running", "done"}]
  BY <1>1 DEF TypeOK
<1>11. /\ Stack \in Seq(Value) /\ Len(Stack) \in Nat /\ Len(Stack) <= MaxSlots
       /\ cstk[Me] \in Seq(Frame) /\ Len(cstk[Me]) <= MaxFrames
       /\ stk[p] \in Seq(Value) /\ Len(stk[p]) \in Nat /\ Len(stk[p]) <= MaxSlots
       /\ cstk[p] \in Seq(Frame) /\ Len(cstk[p]) \in Nat /\ Len(cstk[p]) <= MaxFrames
       /\ MaxSlots \in Nat /\ MaxFrames \in Nat
  BY <1>1, <1>4, <1>8, FiberFacts DEF Stack
<1>12. /\ status' \in [FiberId -> {"suspended", "running", "done"}]
       /\ status'[Me] # "running"
       /\ status'[Me] = "suspended" => cstk[Me] # <<>>
       /\ \A f \in FiberId : f # Me => status'[f] = status[f]
  BY <1>2, <1>4, <1>10
<1>13. chain' # <<>> /\ chain' \in Seq(FiberId)
  <2>1. Len(<<>>) = 0 BY EmptySeq
  <2>2. Len(ButLast(chain)) # 0 BY <1>2, <1>4, <1>5
  <2> QED BY <1>2, <1>5, <2>1, <2>2
<1>14. \A i \in 1..(n - 2) : i \in 1..(n - 1) /\ chain[i] \in FiberId /\ chain[i] # Me
                              /\ chain[i] # p
  <2>1. \A i \in 1..(n - 2) : i \in 1..(n - 1) /\ i \in 1..n /\ i # n - 1 BY <1>4
  <2>2. \A i, j \in 1..n : i # j => chain[i] # chain[j]
    BY <1>1, <1>3, LenProperties DEF Standing, ChainSound
  <2> QED BY <1>4, <1>6, <1>7, <2>1, <2>2
<1>15. CASE err' = TRUE /\ UNCHANGED <<stk, cstk, class, rc, dying>>
  <2>1. TypeOK' BY <1>1, <1>12, <1>13, <1>15 DEF TypeOK
  <2>2. Fibers' = Fibers BY <1>3, <1>13, <1>15 DEF Fibers, Ended
  <2>3. WellTyped' /\ Counts' /\ FramesAnchored' /\ AtZero(Mem)'
    <3>1. err' \in BOOLEAN /\ (err => err') BY <1>15
    <3> QED BY <1>1, <1>15, <2>2, <3>1, SameWellTyped, SameCounts, SameFramesAll, SameAtZero
  <2>4. \A f \in Obj : status'[f] = "suspended" => cstk'[f] # <<>>
    BY <1>1, <1>12, <1>15 DEF Standing, FiberId
  <2>5. \A i \in 1..(Len(chain) - 1) : cstk'[chain[i]] # <<>> \/ stk'[chain[i]] # <<>>
    BY <1>1, <1>15 DEF Standing
  <2>6. Standing' BY <1>1, <1>2, <1>3, <1>12, <1>15, <2>4, <2>5, ChainLeft
  <2> QED BY <2>1, <2>3, <2>6 DEF FiberInv
<1>16. CASE /\ stk' = [stk EXCEPT ![Me] = ButLast(@), ![p] = Returned(@, fr, res)]
            /\ Becomes(m2) /\ cstk' = [cstk EXCEPT ![p] = ButLast(@)]
            /\ UNCHANGED <<err, class>>
  <2>1. /\ fr \in Frame /\ fr = LastOf(cstk[p]) /\ fr.base \in 1..Len(stk[p])
        /\ stk[p][fr.base] = Closure(fr.cl)
    BY <1>1, <1>8, <1>9, <1>11, AnchoredTop DEF FramesAnchored, TopOf
  <2>2. cstk[Me] # <<>> => Len(Stack) > Top.base /\ Top.base \in Nat /\ Top = LastOf(cstk[Me])
    <3>1. ASSUME cstk[Me] # <<>> PROVE Top.base \in Nat /\ Top = LastOf(cstk[Me])
      <4>1. LastOf(cstk[Me]) \in Frame BY <1>11, <3>1, LastFacts
      <4> QED BY <4>1 DEF Top, TopOf, Frame
    <3> QED BY <1>1, <1>2, <1>3, <3>1 DEF Standing
  <2>3. Stack # <<>>
    <3>1. CASE cstk[Me] # <<>>
      <4>1. Len(<<>>) = 0 BY EmptySeq
      <4> QED BY <2>2, <3>1, <4>1
    <3>2. CASE cstk[Me] = <<>>
      <4>1. n \in 1..n BY <1>2, <1>4
      <4> QED BY <1>1, <1>4, <3>2, <4>1 DEF Standing, Stack
    <3> QED BY <3>1, <3>2
  <2>4. /\ s \in Seq(Value) /\ Len(s) = Len(Stack) - 1 /\ res \in Value
        /\ res = Stack[Len(Stack)] /\ Len(Stack) >= 1
        /\ \A i \in 1..(Len(Stack) - 1) : s[i] = Stack[i]
    BY <1>11, <2>3, LastFacts
  <2>5. m \in MemType /\ AtZero(m) /\ \A o \in Obj : m.rc[o] = rc[o]
    BY <1>2, ReleaseRetained
  <2> HIDE DEF m, res, p, fr, n, s
  <2>6. /\ t \in Seq(Value) /\ Len(t) = fr.base
        /\ \A i \in 1..(fr.base - 1) : t[i] = stk[p][i]
        /\ t[fr.base] = res
    <3>1. stk[p] \in Seq(Value) /\ fr.base \in 1..Len(stk[p]) /\ res \in Value
      BY <1>11, <2>1, <2>4
    <3>2. Landed(t, stk[p], fr.base, res) BY <3>1, ReturnedFacts
    <3> QED BY <3>2 DEF Landed
  <2>7. m2 \in MemType /\ AtZero(m2)
        /\ \A o \in Obj : m2.rc[o] = m.rc[o] - OnStack(stk[p], o) + OnStack(t, o) - Count(res, o)
    <3>1. /\ stk[p] \in Seq(Value) /\ fr.base \in 1..Len(stk[p])
          /\ stk[p][fr.base] = Closure(fr.cl) /\ res \in Value
      BY <1>11, <2>1, <2>4
    <3>2. m \in MemType /\ AtZero(m) BY <2>5
    <3>3. /\ Dropped(m, stk[p], fr) \in MemType /\ AtZero(Dropped(m, stk[p], fr))
          /\ \A v \in Value : \A o \in Obj : Dropped(m, stk[p], fr).rc[o]
               = m.rc[o] - OnStack(stk[p], o) + OnStack(Returned(stk[p], fr, v), o) - Count(v, o)
      BY <3>1, <3>2, DroppedFacts
    <3> QED BY <3>1, <3>3
  <2> HIDE DEF t, m2
  <2>8. /\ stk' \in [FiberId -> Seq(Value)] /\ stk'[Me] = s /\ stk'[p] = t
        /\ \A f \in FiberId : f # Me /\ f # p => stk'[f] = stk[f]
    BY <1>4, <1>8, <1>10, <1>16, <2>4, <2>6 DEF s, t, Stack
  <2>9. /\ ButLast(cstk[p]) \in Seq(Frame) /\ Len(ButLast(cstk[p])) <= MaxFrames
    <3>1. ButLast(cstk[p]) \in Seq(Frame) /\ Len(ButLast(cstk[p])) = Len(cstk[p]) - 1
      BY <1>9, <1>11, LastFacts
    <3> QED BY <1>11, <3>1
  <2>10. /\ cstk' \in [FiberId -> Seq(Frame)] /\ cstk'[p] = ButLast(cstk[p])
         /\ \A f \in FiberId : f # p => cstk'[f] = cstk[f]
    BY <1>8, <1>10, <1>16, <2>9
  <2>11. fr.base \in Nat /\ fr.base <= MaxSlots /\ fr.base >= 1 BY <1>11, <2>1
  <2>12. TypeOK'
    <3>1. rc' \in [Obj -> Int] /\ dying' \subseteq Obj BY <1>16, <2>7 DEF Becomes, MemType
    <3>2. ASSUME NEW f \in FiberId PROVE Len(stk'[f]) <= MaxSlots /\ Len(cstk'[f]) <= MaxFrames
      <4>1. Len(stk[f]) <= MaxSlots /\ Len(cstk[f]) <= MaxFrames BY <1>1, FiberFacts
      <4>2. Len(s) <= MaxSlots BY <1>11, <2>4
      <4> QED BY <2>6, <2>8, <2>9, <2>10, <2>11, <4>1, <4>2
    <3>3. ASSUME NEW o \in Obj, class'[o] # "fiber" PROVE stk'[o] = <<>> /\ cstk'[o] = <<>>
      <4>1. o \in FiberId /\ o # Root /\ class[o] # "fiber"
        BY <1>16, <3>3, ClassNames DEF FiberId
      <4>2. o \notin Fibers BY <4>1 DEF Fibers
      <4> QED BY <1>1, <1>4, <1>8, <2>8, <2>10, <4>1, <4>2 DEF TypeOK
    <3> QED BY <1>1, <1>12, <1>13, <1>16, <2>8, <2>10, <3>1, <3>2, <3>3 DEF TypeOK
  <2>13. Fibers' = Fibers /\ class' = class BY <1>3, <1>13, <1>16 DEF Fibers, Ended
  <2>14. Agrees(class, res)
    <3>1. Len(Stack) \in 1..Len(Stack) BY <1>11, <2>4
    <3> QED BY <1>3, <2>4, <3>1, StackValues
  <2>15. WellTyped'
    <3>1. ASSUME NEW f \in FiberId, NEW i \in 1..Len(stk'[f])
          PROVE  Agrees(class', stk'[f][i])
      <4>1. CASE f = Me
        <5>1. i \in 1..(Len(Stack) - 1) /\ i \in 1..Len(Stack) BY <1>11, <2>4, <2>8, <4>1
        <5> QED BY <1>3, <2>4, <2>8, <2>13, <4>1, <5>1, StackValues
      <4>2. CASE f = p
        <5>1. i = fr.base \/ (i \in 1..(fr.base - 1) /\ i \in 1..Len(stk[p]))
          BY <2>1, <2>6, <2>8, <2>11, <1>11, <4>2
        <5>2. \A j \in 1..Len(stk[p]) : Agrees(class, stk[p][j]) BY <1>1, <1>8 DEF WellTyped
        <5> QED BY <2>6, <2>8, <2>13, <2>14, <4>2, <5>1, <5>2
      <4>3. CASE f # Me /\ f # p BY <1>1, <2>8, <2>13, <4>3 DEF WellTyped
      <4> QED BY <4>1, <4>2, <4>3
    <3> QED BY <1>1, <2>13, <3>1 DEF WellTyped
  <2>16. Counts'
    <3>1. ASSUME NEW o \in Obj PROVE rc'[o] = Holders(Fibers', stk', class', o)
      <4> DEFINE h == Holders(Fibers, stk, class, o)
                 k == Holders(Fibers, stk', class, o)
      <4>1. Stacks(Fibers, stk) /\ Stacks(Fibers, stk')
        BY <1>10, <2>8, FibersFinite DEF Stacks
      <4>2. /\ h \in Nat /\ k \in Nat
            /\ OnStacks(Fibers, stk, o) \in Nat /\ OnStacks(Fibers, stk', o) \in Nat
            /\ k = h - OnStacks(Fibers, stk, o) + OnStacks(Fibers, stk', o)
        BY <4>1, FibersFinite, HoldersMoved
      <4>3. \A f \in Fibers : f # Me /\ f # p => stk[f] = stk'[f] BY <2>8, FibersFinite
      <4>4. OnStacks(Fibers, stk', o) = OnStacks(Fibers, stk, o) - OnStack(stk[Me], o)
              + OnStack(stk'[Me], o) - OnStack(stk[p], o) + OnStack(stk'[p], o)
        BY <1>4, <1>8, <4>1, <4>3, FibersFinite, TwoWritten
      <4>5. OnStack(s, o) = OnStack(Stack, o) - Count(res, o) BY <1>11, <2>3, OnStackPop DEF s, res
      <4>6. rc'[o] = rc[o] - OnStack(stk[p], o) + OnStack(t, o) - Count(res, o)
        BY <1>16, <2>5, <2>7 DEF Becomes
      <4>7. rc[o] = h BY <1>1, <1>2 DEF Counts
      <4>8. /\ OnStack(Stack, o) \in Nat /\ OnStack(stk[p], o) \in Nat /\ OnStack(t, o) \in Nat
            /\ Count(res, o) \in Int
        BY <1>11, <2>6, OnStackInterval, CountType
      <4> DEFINE all == OnStacks(Fibers, stk, o)
                 all1 == OnStacks(Fibers, stk', o)
                 top == OnStack(Stack, o)
                 low == OnStack(stk[p], o)
                 new == OnStack(t, o)
                 d == Count(res, o)
      <4>9. all1 = all - top + (top - d) - low + new
        BY <2>8, <4>4, <4>5 DEF Stack
      <4>10. k = h - all + all1 /\ rc'[o] = h - low + new - d BY <4>2, <4>6, <4>7
      <4>11. /\ h \in Int /\ k \in Int /\ all \in Int /\ all1 \in Int
             /\ top \in Int /\ low \in Int /\ new \in Int /\ d \in Int
        BY <4>2, <4>8
      <4> HIDE DEF h, k, all, all1, top, low, new, d
      <4>12. rc'[o] = k BY <4>9, <4>10, <4>11
      <4> QED BY <2>13, <4>12 DEF k
    <3> QED BY <1>2, <1>16, <3>1 DEF Counts
  <2>17. FramesAnchored'
    <3>1. ASSUME NEW f \in FiberId PROVE Anchored(stk'[f], cstk'[f], class)
      <4>1. Anchored(stk[f], cstk[f], class) BY <1>1 DEF FramesAnchored
      <4>2. CASE f = Me
        <5>1. CASE cstk[Me] = <<>>
          <6>1. Len(<<>>) = 0 BY EmptySeq
          <6>2. 1..Len(cstk[Me]) = {} BY <5>1, <6>1
          <6> QED BY <1>8, <2>10, <4>2, <6>2 DEF Anchored
        <5>2. CASE cstk[Me] # <<>>
          <6>1. Len(s) \in Nat /\ LastOf(cstk[Me]).base <= Len(s) BY <1>11, <2>2, <2>4, <5>2
          <6>2. \A i \in 1..Len(s) : i <= LastOf(cstk[Me]).base => s[i] = Stack[i] BY <2>4
          <6>3. Anchored(s, cstk[Me], class)
            BY <1>11, <4>1, <4>2, <5>2, <6>1, <6>2, AnchoredAbove DEF Stack
          <6> QED BY <1>8, <2>8, <2>10, <4>2, <6>3
        <5> QED BY <5>1, <5>2
      <4>3. CASE f = p
        <5>1. Len(t) \in Nat /\ LastOf(cstk[p]).base <= Len(t) BY <2>1, <2>6, <2>11
        <5>2. \A i \in 1..Len(t) : i < LastOf(cstk[p]).base => t[i] = stk[p][i]
          BY <2>1, <2>6, <2>11
        <5>3. Anchored(t, ButLast(cstk[p]), class)
          BY <1>9, <1>11, <4>1, <4>3, <5>1, <5>2, AnchoredReturn
        <5> QED BY <2>8, <2>10, <4>3, <5>3
      <4>4. CASE f # Me /\ f # p BY <2>8, <2>10, <4>1, <4>4
      <4> QED BY <4>2, <4>3, <4>4
    <3> QED BY <2>13, <3>1 DEF FramesAnchored
  <2>18. AtZero(Mem)'
    <3>1. rc' = m2.rc /\ dying' = m2.dying BY <1>16 DEF Becomes
    <3> QED BY <2>7, <3>1 DEF AtZero, Mem
  <2>19. Standing'
    <3>1. \A f \in Obj : status'[f] = "suspended" => cstk'[f] # <<>>
      BY <1>1, <1>8, <1>9, <1>12, <2>10 DEF Standing, FiberId
    <3>2. \A i \in 1..(n - 2) : stk'[chain[i]] = stk[chain[i]] /\ cstk'[chain[i]] = cstk[chain[i]]
      BY <1>14, <2>8, <2>10
    <3>3. \A i \in 1..(n - 1) : cstk'[chain[i]] # <<>> \/ stk'[chain[i]] # <<>>
      <4>1. t # <<>>
        <5>1. Len(<<>>) = 0 BY EmptySeq
        <5> QED BY <2>6, <2>11, <5>1
      <4>2. \A i \in 1..(n - 1) : i = n - 1 \/ i \in 1..(n - 2) BY <1>4
      <4>3. \A i \in 1..(n - 1) : cstk[chain[i]] # <<>>
        BY <1>1 DEF Standing, HasArgument, n
      <4> QED BY <1>7, <1>14, <2>8, <3>2, <4>1, <4>2, <4>3
    <3> QED BY <1>1, <1>2, <1>3, <1>12, <2>13, <3>1, <3>2, <3>3, ChainLeft DEF n
  <2> QED BY <2>12, <2>15, <2>16, <2>17, <2>18, <2>19 DEF FiberInv
<1> QED BY <1>15, <1>16 DEF HandOver

-----------------------------------------------------------------------------
(***************************************************************************)
(* Objects come and go.                                                    *)
(***************************************************************************)
\* A stack outside the live fibers is empty.
LEMMA DeadStacks ==
  ASSUME TypeOK, NEW f \in FiberId, f \notin Fibers
  PROVE  stk[f] = <<>>
<1>1. CASE f \in Obj BY <1>1 DEF TypeOK, Fibers
<1>2. CASE f = Root BY <1>2 DEF Fibers, Ended
<1> QED BY <1>1, <1>2 DEF FiberId

\* An array of values that retain nothing yet, when nothing is condemned.
LEMMA RetainAllFresh ==
  ASSUME FiberInv, dying = {}, NEW s \in Seq(Value)
  PROVE  LET m == RetainAll(Mem, s, DOMAIN s) IN
         /\ m \in MemType /\ AtZero(m) /\ m.dying = {}
         /\ \A o \in Obj : m.rc[o] = rc[o] + OnStack(s, o)
<1> DEFINE m == RetainAll(Mem, s, DOMAIN s)
<1>1. Mem \in MemType /\ Mem.rc = rc /\ Mem.dying = {} BY MemFacts
<1>2. IsFiniteSet(DOMAIN s) BY OnStackInterval
<1>3. m \in MemType BY <1>1, <1>2, RetainAllType
<1>4. m.dying = {} BY <1>1 DEF RetainAll
<1>5. AtZero(m) BY <1>4 DEF AtZero
<1>6. \A o \in Obj : m.rc[o] = rc[o] + OnStack(s, o) BY <1>1, RetainAllCount DEF OnStack
<1> QED BY <1>3, <1>4, <1>5, <1>6

\* What an argument array becomes: the stack of a new fiber.
LEMMA InitialFacts ==
  ASSUME FiberInv, NEW val1 \in Value, NEW val2 \in Value, Agrees(class, val1),
         Agrees(class, val2), val1.type = "closure"
  PROVE  LET s == InitialStack(val1, val2) f == class[val1.data] IN
         /\ f \in Fun /\ s \in Seq(Value) /\ Len(s) = 1 + Arity[f] /\ Arity[f] \in Nat
         /\ Len(s) <= MaxSlots /\ s[1] = val1 /\ Len(s) >= 1
         /\ \A i \in 1..Len(s) : Agrees(class, s[i])
<1> DEFINE f == class[val1.data]
           k == Arity[f]
           e == IF val2.type = "nil" THEN <<val1>> ELSE <<val1, val2>>
           z == 1
           s == Adjusted(e, z, k)
<1>1. f \in Fun BY ClosureValue
<1>2. k \in Nat /\ MaxSlots \in Nat /\ MaxSlots >= 2 + k
  BY <1>1, FiberAssumption, SizeAssumption DEF FiberAssumption, SizeAssumption
<1>3. /\ e \in Seq(Value) /\ Len(e) \in 1..2 /\ e[1] = val1
      /\ \A i \in 1..Len(e) : Agrees(class, e[i])
  <2>1. CASE val2.type = "nil"
    <3>1. e = <<val1>> BY <2>1
    <3> QED BY <3>1
  <2>2. CASE val2.type # "nil"
    <3>1. e = <<val1, val2>> BY <2>2
    <3> QED BY <3>1
  <2> QED BY <2>1, <2>2
<1>4. z \in Nat OBVIOUS
<1>5. InitialStack(val1, val2) = s BY DEF InitialStack
<1> HIDE DEF e, k, f
<1>6. /\ s \in Seq(Value) /\ Len(s) = z + k
      /\ \A i \in 1..(z + k) : s[i] = IF i <= Len(e) THEN e[i] ELSE Nil
  <2> HIDE DEF z
  <2> QED BY <1>2, <1>3, <1>4, AdjustedFacts
<1> HIDE DEF s
<1>7. Agrees(class, Nil) BY ValueFacts, ScalarAgrees
<1>8. \A i \in 1..Len(s) : Agrees(class, s[i]) BY <1>2, <1>3, <1>6, <1>7
<1>9. s[1] = val1 BY <1>2, <1>3, <1>6
<1>10. Len(s) = 1 + k /\ Len(s) <= MaxSlots /\ Len(s) >= 1 BY <1>2, <1>6
<1> QED BY <1>1, <1>2, <1>5, <1>6, <1>8, <1>9, <1>10 DEF f, k

\* The classes cl and cd differ in o alone, which is none of those of values.
Reclassed(cl, cd, o) ==
  /\ cl[o] \notin Fun /\ cl[o] # "fiber"
  /\ \A x \in Obj : x # o => cd[x] = cl[x]

LEMMA ReclassedAgrees ==
  ASSUME NEW cl, NEW cd, NEW o, Reclassed(cl, cd, o), NEW v \in Value, Agrees(cl, v)
  PROVE  Agrees(cd, v)
<1>1. CASE ~IsObject(v) BY <1>1, ScalarAgrees
<1>2. CASE IsObject(v)
  <2>1. v.data \in Obj BY <1>2 DEF Value, IsObject, ScalarType, ObjectType
  <2>2. cl[v.data] \in Fun \/ cl[v.data] = "fiber" BY <1>2 DEF Agrees
  <2>3. cd[v.data] = cl[v.data] BY <2>1, <2>2 DEF Reclassed
  <2> QED BY <2>3 DEF Agrees
<1> QED BY <1>1, <1>2

LEMMA ReclassedAnchored ==
  ASSUME NEW cl, NEW cd, NEW o, Reclassed(cl, cd, o), NEW t, NEW c \in Seq(Frame),
         Anchored(t, c, cl)
  PROVE  Anchored(t, c, cd)
<1>1. ASSUME NEW i \in 1..Len(c)
      PROVE  cd[c[i].cl] = c[i].fn
  <2>1. c[i] \in Frame BY ElementOfSeq
  <2>2. c[i].cl \in Obj /\ c[i].fn \in Fun BY <2>1 DEF Frame
  <2>3. cl[c[i].cl] = c[i].fn BY DEF Anchored
  <2> QED BY <2>2, <2>3 DEF Reclassed
<1> QED BY <1>1 DEF Anchored

\* The array of globals is there while a fiber is.
LEMMA GlobalsThere ==
  ASSUME WellTyped, Fibers # {}
  PROVE  class[GlobalsObj] = "array"
  BY DEF WellTyped

\* One more fiber, o, with the stack s'[o].
LEMMA HoldersMore ==
  ASSUME NEW F, IsFiniteSet(F), NEW o, o \notin F, NEW G, G = F \cup {o},
         NEW t, Stacks(G, t), NEW cl, NEW x
  PROVE  /\ Holders(G, t, cl, x)
              = Holders(F, t, cl, x) + OnStack(t[o], x) + Count(Array(GlobalsObj), x)
         /\ Holders(F, t, cl, x) \in Nat /\ OnStack(t[o], x) \in Nat
<1> DEFINE a == IF cl[GlobalsObj] = "array" THEN OnStack(GlobalsHeld, x) ELSE 0
           d == IF x = GlobalsObj THEN Cardinality(F) ELSE 0
           e == IF x = GlobalsObj THEN Cardinality(G) ELSE 0
           h == Holders(F, t, cl, x)
           k == Holders(G, t, cl, x)
<1>1. IsFiniteSet(G) /\ Cardinality(G) = Cardinality(F) + 1 /\ Cardinality(F) \in Nat
  BY FS_AddElement, FS_CardinalityType
<1>2. G \ {o} = F /\ o \in G OBVIOUS
<1>3. Stacks(F, t) BY DEF Stacks
<1>4. OnStacks(G, t, x) = OnStacks(G \ {o}, t, x) + OnStack(t[o], x)
      /\ OnStacks(G \ {o}, t, x) \in Nat /\ OnStack(t[o], x) \in Nat
  BY <1>1, <1>2, OnStacksSplit
<1>5. a \in Nat BY GlobalsCount
<1>6. d \in Nat /\ e = d + Count(Array(GlobalsObj), x)
  <2>1. Count(Array(GlobalsObj), x) = IF x = GlobalsObj THEN 1 ELSE 0
    <3>1. Holds(Array(GlobalsObj), x) <=> x = GlobalsObj
      BY DEF Holds, IsObject, ObjectType, Array
    <3> QED BY <3>1 DEF Count
  <2> QED BY <1>1, <2>1
<1>7. h = OnStacks(F, t, x) + a + d /\ k = OnStacks(G, t, x) + a + e BY DEF Holders
<1>8. Count(Array(GlobalsObj), x) \in Int BY CountType
<1>9. OnStacks(G, t, x) = OnStacks(F, t, x) + OnStack(t[o], x) /\ OnStacks(F, t, x) \in Nat
  BY <1>2, <1>4
<1> HIDE DEF a, d, e, h, k
<1>10. k = h + OnStack(t[o], x) + Count(Array(GlobalsObj), x) /\ h \in Nat
  BY <1>4, <1>5, <1>6, <1>7, <1>8, <1>9
<1> QED BY <1>4, <1>10 DEF h, k

LEMMA CreatedStep ==
  ASSUME FiberInv, At("FIBER"), NEW val1 \in Value, NEW val2 \in Value,
         Agrees(class, val1), Agrees(class, val2), val1.type = "closure",
         NEW o \in Free, class' = [class EXCEPT ![o] = "fiber"],
         stk' = Created(InitialStack(val1, val2), o),
         cstk' = [cstk EXCEPT ![o] = <<Entry(1, val1.data, class[val1.data])>>,
                              ![Me] = ButLast(@)],
         status' = [status EXCEPT ![o] = "suspended"],
         Becomes(Dropped(Retain(Retain(RetainAll(Mem, InitialStack(val1, val2),
                                                 DOMAIN InitialStack(val1, val2)),
                                       Array(GlobalsObj)), Fiber(o)), Stack, Top)),
         UNCHANGED <<chain, err>>
  PROVE  FiberInv'
<1> DEFINE s == InitialStack(val1, val2)
           f == class[val1.data]
           n == Len(chain)
           m0 == RetainAll(Mem, s, DOMAIN s)
           m1 == Retain(m0, Array(GlobalsObj))
           m2 == Retain(m1, Fiber(o))
           m == Dropped(m2, Stack, Top)
           t == Returned(Stack, Top, Fiber(o))
           b == Top.base
           fr == Entry(1, val1.data, f)
           c == ButLast(cstk[Me])
<1>1. TypeOK /\ Standing /\ WellTyped /\ Counts /\ FramesAnchored /\ AtZero(Mem)
  BY DEF FiberInv
<1>2. /\ chain # <<>> /\ ~err /\ dying = {} /\ status[Me] = "running" /\ cstk[Me] # <<>>
      /\ Stack \in Seq(Value) /\ Len(Stack) \in Nat /\ Len(Stack) <= MaxSlots
      /\ b \in 1..Len(Stack) /\ b \in Nat /\ Stack[b] = Closure(Top.cl)
      /\ Top = LastOf(cstk[Me])
  BY <1>1, AtFacts
<1>3. Me \in FiberId /\ Me \in Fibers /\ Fibers # {} BY <1>1, <1>2, ChainFacts
<1>4. class[GlobalsObj] = "array" BY <1>1, <1>3, GlobalsThere
<1>5. o \in Obj /\ o \in FiberId /\ class[o] = "free" BY DEF Free, FiberId
<1>6. o # GlobalsObj /\ o # Root /\ o \notin Fibers /\ o # Me
  <2>1. o # Root BY <1>5, ClassNames
  <2> QED BY <1>3, <1>4, <1>5, <2>1 DEF Fibers
<1>7. /\ f \in Fun /\ s \in Seq(Value) /\ Len(s) <= MaxSlots /\ s[1] = val1
      /\ Len(s) >= 1 /\ \A i \in 1..Len(s) : Agrees(class, s[i])
  BY InitialFacts
<1>8. val1.data \in Obj /\ val1 = Closure(val1.data) /\ val1.data # o
  <2>1. val1.data \in Obj /\ val1 = Closure(val1.data) /\ class[val1.data] \in Fun
    BY ClosureValue
  <2> QED BY <1>5, <2>1, ClassNames
<1>9. m0 \in MemType /\ AtZero(m0) /\ m0.dying = {}
      /\ \A x \in Obj : m0.rc[x] = rc[x] + OnStack(s, x)
  <2> HIDE DEF s
  <2> QED BY <1>2, <1>7, RetainAllFresh
<1> HIDE DEF s, f, m0
<1>10. m1 \in MemType /\ m1.dying = {}
       /\ \A x \in Obj : m1.rc[x] = m0.rc[x] + Count(Array(GlobalsObj), x)
  BY <1>9, RetainType, RetainsSpare, RetainCount
<1> HIDE DEF m1
<1>11. m2 \in MemType /\ AtZero(m2)
       /\ \A x \in Obj : m2.rc[x] = m1.rc[x] + Count(Fiber(o), x)
  <2>1. m2.dying = {} BY <1>10, RetainsSpare
  <2> QED BY <1>10, <2>1, RetainType, RetainCount DEF AtZero
<1> HIDE DEF m2
<1>12. Fiber(o) \in Value BY <1>5, ValueFacts
<1>13. m \in MemType /\ AtZero(m)
       /\ \A x \in Obj : m.rc[x] = m2.rc[x] - OnStack(Stack, x) + OnStack(t, x) - Count(Fiber(o), x)
  <2>1. Top.base \in 1..Len(Stack) /\ Stack[Top.base] = Closure(Top.cl) BY <1>2
  <2>2. /\ Dropped(m2, Stack, Top) \in MemType /\ AtZero(Dropped(m2, Stack, Top))
        /\ \A v \in Value : \A x \in Obj : Dropped(m2, Stack, Top).rc[x]
             = m2.rc[x] - OnStack(Stack, x) + OnStack(Returned(Stack, Top, v), x) - Count(v, x)
    BY <1>2, <1>11, <2>1, DroppedFacts
  <2> QED BY <1>12, <2>2
<1>14. /\ t \in Seq(Value) /\ Len(t) = b /\ \A i \in 1..(b - 1) : t[i] = Stack[i]
       /\ t[b] = Fiber(o)
  <2>1. Top.base \in 1..Len(Stack) /\ Stack \in Seq(Value) BY <1>2
  <2>2. Landed(t, Stack, b, Fiber(o)) BY <1>12, <2>1, ReturnedFacts
  <2> QED BY <2>2 DEF Landed
<1>15. Becomes(m) BY DEF m, m2, m1, m0, s
<1> HIDE DEF m
<1>16. /\ stk \in [FiberId -> Seq(Value)] /\ cstk \in [FiberId -> Seq(Frame)]
       /\ status \in [FiberId -> {"suspended", "running", "done"}]
       /\ class \in [Obj -> {"free", "fiber", "array"} \cup Fun]
  BY <1>1 DEF TypeOK
<1>17. /\ stk' \in [FiberId -> Seq(Value)] /\ stk'[o] = s /\ stk'[Me] = t
       /\ \A g \in FiberId : g # o /\ g # Me => stk'[g] = stk[g]
  <2>1. stk' = [stk EXCEPT ![o] = s, ![Me] = Returned(@, Top, Fiber(o))]
    BY DEF Created, s
  <2> QED BY <1>3, <1>5, <1>6, <1>7, <1>14, <1>16, <2>1 DEF Stack
<1>18. fr \in Frame /\ fr.base = 1 /\ fr.cl = val1.data /\ fr.fn = f
  <2>1. Prologue[f] \in Seq(Instr) BY <1>7, FiberAssumption DEF FiberAssumption
  <2> QED BY <1>7, <1>8, <2>1 DEF Entry, Frame
<1>19. /\ cstk[Me] \in Seq(Frame) /\ Len(cstk[Me]) \in Nat /\ Len(cstk[Me]) <= MaxFrames
       /\ MaxFrames \in Nat /\ MaxFrames >= 1
  BY <1>1, <1>3, FiberFacts, SizeAssumption DEF SizeAssumption
<1>20. c \in Seq(Frame) /\ Len(c) <= MaxFrames
  <2>1. c \in Seq(Frame) /\ Len(c) = Len(cstk[Me]) - 1 BY <1>2, <1>19, LastFacts
  <2> HIDE DEF c
  <2> QED BY <1>19, <2>1
<1> HIDE DEF fr, t
<1>21. <<fr>> \in Seq(Frame) /\ Len(<<fr>>) = 1 /\ <<fr>>[1] = fr BY <1>18
<1>22. /\ cstk' \in [FiberId -> Seq(Frame)] /\ cstk'[o] = <<fr>> /\ cstk'[Me] = c
       /\ \A g \in FiberId : g # o /\ g # Me => cstk'[g] = cstk[g]
  <2>1. cstk' = [cstk EXCEPT ![o] = <<fr>>, ![Me] = ButLast(@)] BY DEF fr, f
  <2> DEFINE w == <<fr>>
  <2>2. w \in Seq(Frame) /\ c \in Seq(Frame) BY <1>20, <1>21
  <2>3. cstk' = [cstk EXCEPT ![o] = w, ![Me] = c] BY <1>6, <2>1
  <2> HIDE DEF w, c
  <2>4. /\ cstk' \in [FiberId -> Seq(Frame)] /\ cstk'[o] = w /\ cstk'[Me] = c
        /\ \A g \in FiberId : g # o /\ g # Me => cstk'[g] = cstk[g]
    BY <1>3, <1>5, <1>6, <1>16, <2>2, <2>3
  <2> QED BY <2>4 DEF w
<1> HIDE DEF c, b
<1>23. /\ status' \in [FiberId -> {"suspended", "running", "done"}] /\ status'[o] = "suspended"
       /\ \A g \in FiberId : g # o => status'[g] = status[g]
  BY <1>5, <1>16
<1>24. /\ class' \in [Obj -> {"free", "fiber", "array"} \cup Fun] /\ class'[o] = "fiber"
       /\ \A x \in Obj : x # o => class'[x] = class[x]
  BY <1>5, <1>16
<1>25. Reclassed(class, class', o) BY <1>5, <1>24, ClassNames DEF Reclassed
<1>26. TypeOK'
  <2>1. rc' \in [Obj -> Int] /\ dying' \subseteq Obj BY <1>13, <1>15 DEF Becomes, MemType
  <2>2. ASSUME NEW g \in FiberId PROVE Len(stk'[g]) <= MaxSlots /\ Len(cstk'[g]) <= MaxFrames
    <3>1. Len(stk[g]) <= MaxSlots /\ Len(cstk[g]) <= MaxFrames BY <1>1, FiberFacts
    <3>2. b <= MaxSlots BY <1>2, SizeAssumption DEF SizeAssumption
    <3> QED BY <1>7, <1>14, <1>17, <1>19, <1>20, <1>21, <1>22, <3>1, <3>2
  <2>3. ASSUME NEW x \in Obj, class'[x] # "fiber" PROVE stk'[x] = <<>> /\ cstk'[x] = <<>>
    <3>1. x \in FiberId /\ x # o /\ x # Root /\ class[x] # "fiber"
      BY <1>24, <2>3, ClassNames DEF FiberId
    <3>2. x \notin Fibers BY <3>1 DEF Fibers
    <3> QED BY <1>1, <1>3, <1>17, <1>22, <3>1, <3>2 DEF TypeOK
  <2>4. chain' \in Seq(FiberId) /\ err' \in BOOLEAN BY <1>1 DEF TypeOK
  <2> QED BY <1>17, <1>22, <1>23, <1>24, <2>1, <2>2, <2>3, <2>4 DEF TypeOK
<1>27. Fibers' = Fibers \cup {o}
  <2>1. ~Ended /\ ~Ended' BY <1>2 DEF Ended
  <2>2. {x \in Obj : class'[x] = "fiber"} = {x \in Obj : class[x] = "fiber"} \cup {o}
    BY <1>5, <1>24
  <2> QED BY <2>1, <2>2 DEF Fibers
<1>28. WellTyped'
  <2>1. ASSUME NEW g \in FiberId, NEW i \in 1..Len(stk'[g])
        PROVE  Agrees(class', stk'[g][i])
    <3>1. CASE g = o
      <4>1. i \in 1..Len(s) BY <1>17, <3>1
      <4>2. s[i] \in Value /\ Agrees(class, s[i]) BY <1>7, <4>1, ElementOfSeq
      <4> QED BY <1>17, <1>25, <3>1, <4>2, ReclassedAgrees
    <3>2. CASE g = Me
      <4>1. CASE i = b
        <5>1. Agrees(class', Fiber(o)) BY <1>5, <1>24, ValueFacts DEF Agrees
        <5> QED BY <1>14, <1>17, <3>2, <4>1, <5>1
      <4>2. CASE i # b
        <5>1. i \in 1..(b - 1) /\ i \in 1..Len(Stack) BY <1>2, <1>14, <1>17, <3>2, <4>2
        <5>2. Stack[i] \in Value /\ Agrees(class, Stack[i]) BY <1>2, <5>1, StackValues
        <5>3. stk'[g][i] = Stack[i] BY <1>14, <1>17, <3>2, <5>1
        <5> QED BY <1>25, <5>2, <5>3, ReclassedAgrees
      <4> QED BY <4>1, <4>2
    <3>3. CASE g # o /\ g # Me
      <4>1. stk'[g] = stk[g] /\ stk[g] \in Seq(Value) BY <1>16, <1>17, <3>3
      <4>2. stk[g][i] \in Value /\ Agrees(class, stk[g][i])
        BY <1>1, <4>1, ElementOfSeq DEF WellTyped
      <4> QED BY <1>25, <4>1, <4>2, ReclassedAgrees
    <3> QED BY <3>1, <3>2, <3>3
  <2>2. ASSUME NEW i \in DOMAIN Globals PROVE class'[Globals[i]] \in Fun
    <3>1. Globals[i] \in Obj BY GlobalsCount
    <3>2. class[Globals[i]] \in Fun BY <1>1, <1>4 DEF WellTyped
    <3> QED BY <1>25, <3>1, <3>2 DEF Reclassed
  <2>3. class'[GlobalsObj] = "array" BY <1>4, <1>6, <1>24, ClassNames
  <2>4. \A x \in Obj : class'[x] = "array" => x = GlobalsObj BY <1>1, <1>24 DEF WellTyped
  <2> QED BY <2>1, <2>2, <2>3, <2>4 DEF WellTyped
<1>29. Counts'
  <2>1. Stacks(Fibers, stk) /\ Stacks(Fibers, stk') /\ Stacks(Fibers \cup {o}, stk')
    BY <1>5, <1>16, <1>17, FibersFinite DEF Stacks
  <2>2. class'[GlobalsObj] = class[GlobalsObj] BY <1>6, <1>24, ClassNames
  <2>3. ASSUME NEW x \in Obj PROVE rc'[x] = Holders(Fibers', stk', class', x)
    <3> DEFINE h == Holders(Fibers, stk, class, x)
               j == Holders(Fibers, stk', class, x)
               G == Fibers \cup {o}
               k == Holders(G, stk', class, x)
    <3>1. /\ h \in Nat /\ j \in Nat
          /\ OnStacks(Fibers, stk, x) \in Nat /\ OnStacks(Fibers, stk', x) \in Nat
          /\ j = h - OnStacks(Fibers, stk, x) + OnStacks(Fibers, stk', x)
      BY <2>1, FibersFinite, HoldersMoved
    <3>2. \A g \in Fibers \ {Me} : stk[g] = stk'[g] BY <1>6, <1>17, FibersFinite
    <3>3. OnStacks(Fibers, stk', x)
            = OnStacks(Fibers, stk, x) - OnStack(stk[Me], x) + OnStack(stk'[Me], x)
      BY <1>3, <2>1, <3>2, FibersFinite, OnStacksWrite
    <3>4. k = j + OnStack(stk'[o], x) + Count(Array(GlobalsObj), x)
      <4>1. IsFiniteSet(Fibers) /\ o \notin Fibers /\ G = Fibers \cup {o} /\ Stacks(G, stk')
        BY <1>6, <2>1, FibersFinite
      <4> HIDE DEF G
      <4> QED BY <4>1, HoldersMore
    <3>5. rc'[x] = m.rc[x] BY <1>15 DEF Becomes
    <3>6. /\ m.rc[x] = m2.rc[x] - OnStack(Stack, x) + OnStack(t, x) - Count(Fiber(o), x)
          /\ m2.rc[x] = m1.rc[x] + Count(Fiber(o), x)
          /\ m1.rc[x] = m0.rc[x] + Count(Array(GlobalsObj), x)
          /\ m0.rc[x] = rc[x] + OnStack(s, x)
      BY <1>9, <1>10, <1>11, <1>13
    <3>7. rc[x] = h BY <1>1, <1>2 DEF Counts
    <3>8. /\ OnStack(Stack, x) \in Nat /\ OnStack(t, x) \in Nat /\ OnStack(s, x) \in Nat
          /\ Count(Fiber(o), x) \in Int /\ Count(Array(GlobalsObj), x) \in Int
      BY <1>2, <1>7, <1>14, OnStackInterval, CountType
    <3>9. k = Holders(Fibers', stk', class', x) BY <1>27, <2>2 DEF Holders
    <3> HIDE DEF h, j, k
    <3>10. stk'[o] = s /\ stk'[Me] = t /\ stk[Me] = Stack BY <1>17 DEF Stack
    <3>11. j = h - OnStack(Stack, x) + OnStack(t, x) BY <3>1, <3>3, <3>8, <3>10
    <3>12. k = j + OnStack(s, x) + Count(Array(GlobalsObj), x) BY <3>4, <3>10
    <3>13. rc'[x] = h + OnStack(s, x) + Count(Array(GlobalsObj), x)
                      - OnStack(Stack, x) + OnStack(t, x)
      BY <3>1, <3>5, <3>6, <3>7, <3>8
    <3>14. rc'[x] = k BY <3>1, <3>8, <3>11, <3>12, <3>13
    <3> QED BY <3>9, <3>14
  <2> QED BY <1>2, <2>3 DEF Counts
<1>30. FramesAnchored'
  <2>1. ASSUME NEW g \in FiberId PROVE Anchored(stk'[g], cstk'[g], class')
    <3>1. CASE g = o
      <4>1. \A i \in 1..Len(<<fr>>) : i = 1 BY <1>21
      <4>2. class'[fr.cl] = fr.fn BY <1>8, <1>18, <1>24 DEF f
      <4>3. fr.base \in 1..Len(s) /\ s[fr.base] = Closure(fr.cl)
        <5>1. Len(s) \in Nat BY <1>7, LenProperties
        <5> QED BY <1>7, <1>8, <1>18, <5>1
      <4>4. Anchored(s, <<fr>>, class') BY <1>21, <4>1, <4>2, <4>3 DEF Anchored
      <4> QED BY <1>17, <1>22, <3>1, <4>4
    <3>2. CASE g = Me
      <4>1. Anchored(Stack, cstk[Me], class) BY <1>2, StackValues
      <4>2. Len(t) \in Nat /\ LastOf(cstk[Me]).base <= Len(t) BY <1>2, <1>14 DEF b
      <4>3. \A i \in 1..Len(t) : i < LastOf(cstk[Me]).base => t[i] = Stack[i]
        <5>1. \A i \in 1..b : i < b => i \in 1..(b - 1) BY <1>2
        <5> QED BY <1>2, <1>14, <5>1 DEF b
      <4>4. Anchored(t, c, class)
        BY <1>2, <1>19, <4>1, <4>2, <4>3, AnchoredReturn DEF c
      <4>5. Anchored(t, c, class') BY <1>20, <1>25, <4>4, ReclassedAnchored DEF c
      <4> QED BY <1>17, <1>22, <3>2, <4>5
    <3>3. CASE g # o /\ g # Me
      <4>1. Anchored(stk[g], cstk[g], class) /\ cstk[g] \in Seq(Frame)
        BY <1>1, <1>16 DEF FramesAnchored
      <4>2. Anchored(stk[g], cstk[g], class') BY <1>25, <4>1, ReclassedAnchored
      <4> QED BY <1>17, <1>22, <3>3, <4>2
    <3> QED BY <3>1, <3>2, <3>3
  <2> QED BY <2>1 DEF FramesAnchored
<1>31. AtZero(Mem)'
  <2>1. rc' = m.rc /\ dying' = m.dying BY <1>15 DEF Becomes
  <2> QED BY <1>13, <2>1 DEF AtZero, Mem
<1>32. Standing'
  <2>1. /\ n \in Nat /\ n >= 1 /\ Me = chain[n] /\ DOMAIN chain = 1..n
        /\ \A i \in 1..n : chain[i] \in FiberId /\ chain[i] \in Fibers
        /\ \A i \in 1..(n - 1) : chain[i] # Me
    BY <1>1, <1>2, ChainFacts, LenProperties DEF TypeOK
  <2> HIDE DEF n
  <2>2. \A i \in 1..n : chain[i] # o /\ status'[chain[i]] = status[chain[i]]
    BY <1>6, <1>23, <2>1
  <2>3. \A i \in 1..(n - 1) : /\ i \in 1..n /\ i + 1 \in 1..n
                              /\ stk'[chain[i]] = stk[chain[i]]
                              /\ cstk'[chain[i]] = cstk[chain[i]]
    <3>1. \A i \in 1..(n - 1) : i \in 1..n /\ i + 1 \in 1..n BY <2>1
    <3> QED BY <1>17, <1>22, <2>1, <2>2, <3>1
  <2>4. chain' = chain /\ Me' = Me BY DEF Me
  <2>5. ASSUME NEW i \in 1..(n - 1)
        PROVE  Waits(stk'[chain[i]], cstk'[chain[i]], status'[chain[i]], class', chain[i + 1])
    <3>1. Waits(stk[chain[i]], cstk[chain[i]], status[chain[i]], class, chain[i + 1])
      BY <1>1, ChainSoundNow DEF Standing, n
    <3>2. Waits(stk'[chain[i]], cstk'[chain[i]], status'[chain[i]], class, chain[i + 1])
      BY <2>2, <2>3, <3>1
    <3>3. chain[i + 1] # o /\ chain[i + 1] # Root => class'[chain[i + 1]] = class[chain[i + 1]]
      BY <1>24, <2>1, <2>3 DEF FiberId
    <3>4. chain[i + 1] # o BY <2>2, <2>3
    <3>5. i + 1 # 1 /\ 1 \in 1..n BY <2>1
    <3>6. chain[i + 1] # Root
      <4>1. chain[1] = Root BY <1>1, <1>2 DEF Standing
      <4>2. \A j, k \in 1..n : j # k => chain[j] # chain[k]
        BY <1>1, <2>1 DEF Standing, ChainSound
      <4> DEFINE j == i + 1
      <4>3. j \in 1..n /\ 1 \in 1..n /\ j # 1 BY <2>3, <3>5
      <4> HIDE DEF j
      <4>4. chain[j] # Root BY <4>1, <4>2, <4>3
      <4> QED BY <4>4 DEF j
    <3> QED BY <3>2, <3>3, <3>4, <3>6 DEF Waits
  <2>6. ASSUME NEW g \in FiberId, status'[g] = "running"
        PROVE  \E i \in 1..n : chain[i] = g
    BY <1>1, <1>23, <2>1, <2>6 DEF Standing, ChainSound
  <2>7. ChainSound'
    <3>1. \A i, j \in DOMAIN chain : i # j => chain[i] # chain[j]
      BY <1>1 DEF Standing, ChainSound
    <3>2. \A i \in 1..(Len(chain) - 1) :
            Waits(stk'[chain[i]], cstk'[chain[i]], status'[chain[i]], class', chain[i + 1])
      BY <2>5 DEF n
    <3> QED BY <2>1, <2>4, <2>6, <3>1, <3>2, ChainSoundNext
  <2>8. chain'[1] = Root BY <1>1, <1>2, <2>4 DEF Standing
  <2>9. \A i \in 1..(Len(chain') - 1) : HasArgument(stk'[chain'[i]], cstk'[chain'[i]])
    BY <1>1, <2>3, <2>4 DEF Standing, n
  <2>10. \A i \in 1..Len(chain') : cstk'[chain'[i]] # <<>> \/ stk'[chain'[i]] # <<>>
    <3>1. stk'[Me] # <<>>
      <4>1. Len(<<>>) = 0 BY EmptySeq
      <4>2. Len(t) # 0 BY <1>2, <1>14
      <4> QED BY <1>17, <4>1, <4>2
    <3>2. \A i \in 1..n : i = n \/ i \in 1..(n - 1) BY <2>1
    <3>3. \A i \in 1..n : cstk'[chain[i]] # <<>> \/ stk'[chain[i]] # <<>>
      BY <1>1, <2>1, <2>3, <3>1, <3>2 DEF Standing, HasArgument, n
    <3> QED BY <2>4, <3>3 DEF n
  <2>11. \A g \in Obj : status'[g] = "suspended" => cstk'[g] # <<>>
    <3>1. <<fr>> # <<>>
      <4>1. Len(<<>>) = 0 BY EmptySeq
      <4> QED BY <1>21, <4>1
    <3> QED BY <1>1, <1>2, <1>3, <1>6, <1>22, <1>23, <3>1 DEF Standing, FiberId
  <2>12. status'[Me'] # "suspended" BY <1>2, <1>3, <1>6, <1>23, <2>4
  <2> QED BY <2>7, <2>8, <2>9, <2>10, <2>11, <2>12 DEF Standing
<1> QED BY <1>26, <1>28, <1>29, <1>30, <1>31, <1>32 DEF FiberInv

LEMMA FiberNativeStep == FiberInv /\ FiberNative => FiberInv'
<1> SUFFICES ASSUME FiberInv, FiberNative PROVE FiberInv' OBVIOUS
<1> DEFINE val1 == Local(1)
           val2 == Local(2)
           f == class[val1.data]
           s == InitialStack(val1, val2)
           m == RetainAll(Mem, s, DOMAIN s)
<1>1. TypeOK /\ Standing /\ FramesAnchored /\ At("FIBER") /\ HasLocal(2)
  BY DEF FiberInv, FiberNative
<1>2. /\ chain # <<>> /\ ~err /\ dying = {} /\ Top.base \in Nat /\ Len(Stack) \in Nat
      /\ status[Me] = "running" /\ cstk[Me] # <<>>
  BY <1>1, AtFacts
<1>3. /\ val1 \in Value /\ Agrees(class, val1) /\ val2 \in Value /\ Agrees(class, val2)
  <2> DEFINE i == 1
             j == 2
  <2>1. i \in Nat /\ j \in Nat /\ HasLocal(i) /\ HasLocal(j) BY <1>1, <1>2 DEF HasLocal
  <2> HIDE DEF i, j
  <2>2. /\ Local(i) \in Value /\ Agrees(class, Local(i))
        /\ Local(j) \in Value /\ Agrees(class, Local(j))
    BY <1>1, <2>1, LocalFacts
  <2> QED BY <2>2 DEF i, j
<1> HIDE DEF val1, val2
<1>4. CASE Fail BY <1>1, <1>4, FailStep
<1>5. CASE /\ val1.type = "closure" /\ Becomes(m) /\ Raise /\ UNCHANGED <<stk, class>>
  <2> DEFINE t == Stack
             c == cstk[Me]
  <2>1. Me \in FiberId BY <1>1, <1>2, ChainFacts
  <2>2. /\ t \in Seq(Value) /\ Len(t) <= MaxSlots /\ c \in Seq(Frame) /\ Len(c) <= MaxFrames
        /\ c # <<>>
    BY <1>1, <1>2, <2>1, FiberFacts DEF Stack
  <2>3. /\ stk' = [stk EXCEPT ![Me] = t] /\ cstk' = [cstk EXCEPT ![Me] = c]
        /\ status' = [status EXCEPT ![Me] = "running"]
    BY <1>1, <1>2, <1>5, <2>1 DEF TypeOK, Raise, Stack
  <2>4. Writes(t, c, "running") BY <1>2, <1>5, <2>2, <2>3 DEF Writes, Raise
  <2>5. s \in Seq(Value) BY <1>3, <1>5, InitialFacts
  <2> HIDE DEF s
  <2>6. m \in MemType /\ AtZero(m) /\ \A o \in Obj : m.rc[o] = rc[o] + OnStack(s, o)
    BY <1>2, <2>5, RetainAllFresh
  <2>7. ASSUME NEW o \in Obj
        PROVE  Fits(err', m.rc[o] - OnStack(t, o), rc[o] - OnStack(Stack, o))
    <3>1. m.rc[o] = rc[o] + OnStack(s, o) BY <2>6
    <3>2. OnStack(s, o) \in Nat /\ OnStack(t, o) \in Nat BY <2>2, <2>5, OnStackInterval
    <3>3. rc[o] \in Int BY MemFacts
    <3>4. err' = TRUE BY <1>5 DEF Raise
    <3> HIDE DEF m
    <3>5. m.rc[o] - OnStack(t, o) >= rc[o] - OnStack(t, o) BY <3>1, <3>2, <3>3
    <3> QED BY <3>4, <3>5 DEF Fits
  <2>8. /\ \A i \in 1..Len(t) : Agrees(class, t[i])
        /\ Anchored(t, c, class)
    BY <1>2, StackValues
  <2> HIDE DEF t, c, m
  <2> QED BY <1>5, <2>2, <2>4, <2>6, <2>7, <2>8, WriteFitsStep
<1>6. CASE /\ val1.type = "closure"
           /\ \E o \in Free :
                /\ class' = [class EXCEPT ![o] = "fiber"]
                /\ stk' = Created(s, o)
                /\ cstk' = [cstk EXCEPT ![o] = <<Entry(1, val1.data, f)>>,
                                        ![Me] = ButLast(@)]
                /\ status' = [status EXCEPT ![o] = "suspended"]
                /\ Becomes(Dropped(Retain(Retain(m, Array(GlobalsObj)), Fiber(o)),
                                   Stack, Top))
           /\ UNCHANGED <<chain, err>>
  <2>1. PICK o \in Free :
          /\ class' = [class EXCEPT ![o] = "fiber"]
          /\ stk' = Created(s, o)
          /\ cstk' = [cstk EXCEPT ![o] = <<Entry(1, val1.data, f)>>,
                                  ![Me] = ButLast(@)]
          /\ status' = [status EXCEPT ![o] = "suspended"]
          /\ Becomes(Dropped(Retain(Retain(m, Array(GlobalsObj)), Fiber(o)), Stack, Top))
    BY <1>6
  <2>2. UNCHANGED <<chain, err>> BY <1>6
  <2> QED BY <1>1, <1>3, <1>6, <2>1, <2>2, CreatedStep
<1> QED BY <1>4, <1>5, <1>6 DEF FiberNative, val1, val2

LEMMA DeinitStep == FiberInv /\ Deinit => FiberInv'
<1> SUFFICES ASSUME FiberInv, Deinit PROVE FiberInv' OBVIOUS
<1> DEFINE s == stk[Root]
           g == Array(GlobalsObj)
           m1 == Release(Mem, g)
           m == ReleaseAll(m1, s, DOMAIN s)
           F == Fibers \ {Root}
<1>1. TypeOK /\ Standing /\ WellTyped /\ Counts /\ FramesAnchored /\ AtZero(Mem)
  BY DEF FiberInv
<1>2. /\ chain = <<>> /\ ~Ended /\ Becomes(m) /\ UNCHANGED <<status, chain, err, class>>
      /\ stk' = [stk EXCEPT ![Root] = <<>>] /\ cstk' = [cstk EXCEPT ![Root] = <<>>]
  BY DEF Deinit, Cleared
<1>3. Root \in FiberId /\ Root \in Fibers BY <1>2 DEF FiberId, Fibers
<1>4. /\ stk \in [FiberId -> Seq(Value)] /\ cstk \in [FiberId -> Seq(Frame)]
      /\ status \in [FiberId -> {"suspended", "running", "done"}]
  BY <1>1 DEF TypeOK
<1>5. <<>> \in Seq(Value) /\ <<>> \in Seq(Frame) /\ Len(<<>>) = 0 BY EmptySeq
<1>6. /\ stk' \in [FiberId -> Seq(Value)] /\ stk'[Root] = <<>>
      /\ cstk' \in [FiberId -> Seq(Frame)] /\ cstk'[Root] = <<>>
      /\ \A f \in FiberId : f # Root => stk'[f] = stk[f] /\ cstk'[f] = cstk[f]
  BY <1>2, <1>3, <1>4, <1>5
<1>7. s \in Seq(Value) /\ IsFiniteSet(DOMAIN s) BY <1>1, <1>3, FiberFacts
<1>8. m1 \in MemType /\ AtZero(m1) /\ \A o \in Obj : m1.rc[o] = rc[o] - Count(g, o)
  BY ReleaseNow
<1> HIDE DEF m1
<1>9. m \in MemType /\ AtZero(m)
      /\ \A o \in Obj : m.rc[o] = m1.rc[o] - OnStack(s, o)
  BY <1>7, <1>8, ReleaseAllType, ReleaseAllAtZero, ReleaseAllCount DEF OnStack
<1> HIDE DEF m
<1>10. Fibers' = F
  <2>1. Ended' BY <1>2, <1>6 DEF Ended
  <2>2. Root \notin Obj BY ClassNames
  <2> QED BY <1>2, <2>1, <2>2 DEF Fibers
<1>11. TypeOK'
  <2>1. rc' \in [Obj -> Int] /\ dying' \subseteq Obj BY <1>2, <1>9 DEF Becomes, MemType
  <2>2. \A f \in FiberId : Len(stk'[f]) <= MaxSlots /\ Len(cstk'[f]) <= MaxFrames
    <3>1. MaxSlots >= 0 /\ MaxFrames >= 0 BY SizeAssumption DEF SizeAssumption
    <3> QED BY <1>1, <1>5, <1>6, <3>1, FiberFacts
  <2>3. \A o \in Obj : class[o] # "fiber" => stk'[o] = <<>> /\ cstk'[o] = <<>>
    BY <1>1, <1>6, ClassNames DEF TypeOK, FiberId
  <2> QED BY <1>1, <1>2, <1>6, <2>1, <2>2, <2>3 DEF TypeOK
<1>12. WellTyped'
  <2>1. ASSUME NEW f \in FiberId, NEW i \in 1..Len(stk'[f])
        PROVE  Agrees(class', stk'[f][i])
    <3>1. f # Root BY <1>5, <1>6
    <3> QED BY <1>1, <1>2, <1>6, <3>1 DEF WellTyped
  <2>2. F # {} => Fibers # {} OBVIOUS
  <2> QED BY <1>1, <1>2, <1>10, <2>1, <2>2 DEF WellTyped
<1>13. Counts'
  <2>1. Stacks(Fibers, stk) /\ Stacks(F, stk) /\ Stacks(F, stk')
    BY <1>4, <1>6, FibersFinite DEF Stacks
  <2>2. IsFiniteSet(F) /\ Root \notin F /\ Fibers = F \cup {Root}
    BY <1>3, FibersFinite, FS_RemoveElement
  <2> HIDE DEF F
  <2>3. ASSUME NEW o \in Obj
        PROVE  IF err' THEN rc'[o] >= Holders(Fibers', stk', class', o)
                       ELSE rc'[o] = Holders(Fibers', stk', class', o)
    <3> DEFINE h == Holders(Fibers, stk, class, o)
               j == Holders(F, stk, class, o)
               k == Holders(F, stk', class, o)
    <3>1. h = j + OnStack(s, o) + Count(g, o) /\ j \in Nat /\ OnStack(s, o) \in Nat
      BY <2>1, <2>2, HoldersMore
    <3>2. \A f \in F : stk[f] = stk'[f] BY <1>6, <2>2, FibersFinite
    <3>3. OnStacks(F, stk, o) = OnStacks(F, stk', o) BY <3>2, OnStacksSame
    <3>4. k = j BY <3>3 DEF Holders
    <3>5. rc'[o] = rc[o] - Count(g, o) - OnStack(s, o) BY <1>2, <1>8, <1>9 DEF Becomes
    <3>6. IF err THEN rc[o] >= h ELSE rc[o] = h BY <1>1 DEF Counts
    <3>7. rc[o] \in Int /\ Count(g, o) \in Int BY MemFacts, CountType
    <3>8. err' = err /\ Holders(Fibers', stk', class', o) = k BY <1>2, <1>10
    <3> HIDE DEF h, j, k, g, s
    <3>9. IF err THEN rc'[o] >= k ELSE rc'[o] = k BY <3>1, <3>4, <3>5, <3>6, <3>7
    <3> QED BY <3>8, <3>9
  <2> QED BY <2>3 DEF Counts
<1>14. FramesAnchored'
  <2>1. ASSUME NEW f \in FiberId PROVE Anchored(stk'[f], cstk'[f], class)
    <3>1. CASE f = Root
      <4>1. 1..Len(cstk'[f]) = {} BY <1>5, <1>6, <3>1
      <4> QED BY <4>1 DEF Anchored
    <3>2. CASE f # Root BY <1>1, <1>6, <3>2 DEF FramesAnchored
    <3> QED BY <3>1, <3>2
  <2> QED BY <1>2, <2>1 DEF FramesAnchored
<1>15. AtZero(Mem)'
  <2>1. rc' = m.rc /\ dying' = m.dying BY <1>2 DEF Becomes
  <2> QED BY <1>9, <2>1 DEF AtZero, Mem
<1>16. Standing'
  <2>1. chain' = <<>> /\ DOMAIN chain' = {} /\ status' = status /\ Len(chain') = 0
    <3>1. DOMAIN chain = 1..Len(chain) BY <1>1, LenProperties DEF TypeOK
    <3> QED BY <1>2, <1>5, <3>1
  <2>2. \A f \in FiberId : status[f] # "running"
    <3>1. \A f \in FiberId : status[f] = "running" => \E i \in DOMAIN chain : chain[i] = f
      BY <1>1 DEF Standing, ChainSound
    <3>2. DOMAIN chain = {} BY <1>2, <2>1
    <3> QED BY <3>1, <3>2
  <2>3. ChainSound'
    <3>1. 1..(Len(chain') - 1) = {} BY <2>1
    <3> QED BY <2>1, <2>2, <3>1, ChainSoundNext
  <2>4. \A f \in Obj : status'[f] = "suspended" => cstk'[f] # <<>>
    BY <1>1, <1>6, <2>1, ClassNames DEF Standing, FiberId
  <2>5. 1..Len(chain') = {} /\ 1..(Len(chain') - 1) = {} BY <2>1
  <2> QED BY <2>1, <2>3, <2>4, <2>5 DEF Standing
<1> QED BY <1>11, <1>12, <1>13, <1>14, <1>15, <1>16 DEF FiberInv

\* What a release has condemned is held by nothing.
LEMMA Unheld ==
  ASSUME FiberInv, NEW o \in dying
  PROVE  /\ o \in Obj
         /\ \A f \in FiberId : \A i \in 1..Len(stk[f]) : ~Holds(stk[f][i], o)
         /\ class[GlobalsObj] = "array" => \A i \in DOMAIN Globals : Globals[i] # o
         /\ o = GlobalsObj => Fibers = {}
<1> DEFINE a == IF class[GlobalsObj] = "array" THEN OnStack(GlobalsHeld, o) ELSE 0
           d == IF o = GlobalsObj THEN Cardinality(Fibers) ELSE 0
           h == Holders(Fibers, stk, class, o)
           P == PlacesOf(Fibers, stk)
           g == [p \in P |-> stk[p[1]][p[2]]]
<1>1. TypeOK /\ Counts /\ AtZero(Mem) BY DEF FiberInv
<1>2. o \in Obj /\ rc[o] <= 0 /\ rc[o] \in Int BY <1>1 DEF TypeOK, AtZero, Mem
<1>3. rc[o] >= h
  <2>1. IF err THEN rc[o] >= h ELSE rc[o] = h BY <1>1, <1>2 DEF Counts
  <2> HIDE DEF h
  <2> QED BY <1>2, <2>1
<1>4. Stacks(Fibers, stk) /\ IsFiniteSet(Fibers) BY <1>1, FiberStacks, FibersFinite
<1>5. IsFiniteSet(P) /\ OnStacks(Fibers, stk, o) \in Nat BY <1>4, PlacesFinite
<1>6. a \in Nat BY GlobalsCount
<1>7. d \in Nat BY <1>4, FS_CardinalityType
<1>8. h = OnStacks(Fibers, stk, o) + a + d BY DEF Holders
<1>9. OnStacks(Fibers, stk, o) = 0 /\ a = 0 /\ d = 0
  <2> HIDE DEF a, d, h
  <2> QED BY <1>2, <1>3, <1>5, <1>6, <1>7, <1>8
<1>10. \A p \in P : ~Holds(g[p], o)
  <2>1. Occ(g, P, o) = 0 BY <1>9 DEF OnStacks
  <2> HIDE DEF g, P
  <2> QED BY <1>5, <2>1, OccZero
<1>11. ASSUME NEW f \in FiberId, NEW i \in 1..Len(stk[f])
       PROVE  ~Holds(stk[f][i], o)
  <2>1. CASE f \in Fibers
    <3>1. stk[f] \in Seq(Value) BY <1>1, FiberFacts
    <3>2. i \in DOMAIN stk[f] BY <3>1, LenProperties
    <3>3. <<f, i>> \in P BY <2>1, <3>2 DEF PlacesOf
    <3>4. g[<<f, i>>] = stk[f][i] BY <3>3
    <3> QED BY <1>10, <3>3, <3>4
  <2>2. CASE f \notin Fibers
    <3>1. stk[f] = <<>> /\ Len(<<>>) = 0 BY <1>1, <2>2, DeadStacks, EmptySeq
    <3> QED BY <3>1
  <2> QED BY <2>1, <2>2
<1>12. ASSUME class[GlobalsObj] = "array", NEW i \in DOMAIN Globals PROVE Globals[i] # o
  <2>1. Occ(GlobalsHeld, DOMAIN GlobalsHeld, o) = 0 BY <1>9, <1>12 DEF OnStack
  <2>2. IsFiniteSet(DOMAIN GlobalsHeld) BY GlobalsCount, OnStackInterval
  <2>3. i \in DOMAIN GlobalsHeld /\ Globals[i] \in Obj /\ GlobalsHeld[i] = Closure(Globals[i])
    BY GlobalsCount
  <2>4. ~Holds(GlobalsHeld[i], o) BY <2>1, <2>2, <2>3, OccZero
  <2> QED BY <2>3, <2>4, ValueFacts DEF Holds
<1>13. ASSUME o = GlobalsObj PROVE Fibers = {}
  <2>1. Cardinality(Fibers) = 0 BY <1>9, <1>13
  <2> QED BY <1>4, <2>1, FS_EmptySet
<1> QED BY <1>2, <1>11, <1>12, <1>13

\* A frame whose closure is not o stays where it is when o is freed.
LEMMA FreedAnchored ==
  ASSUME NEW cl, NEW cd, NEW o, \A x \in Obj : x # o => cd[x] = cl[x],
         NEW t, NEW c \in Seq(Frame), Anchored(t, c, cl),
         \A i \in 1..Len(t) : ~Holds(t[i], o)
  PROVE  Anchored(t, c, cd)
<1>1. ASSUME NEW i \in 1..Len(c)
      PROVE  cd[c[i].cl] = c[i].fn
  <2>1. c[i] \in Frame BY ElementOfSeq
  <2>2. c[i].cl \in Obj BY <2>1 DEF Frame
  <2>3. c[i].base \in 1..Len(t) /\ t[c[i].base] = Closure(c[i].cl) /\ cl[c[i].cl] = c[i].fn
    BY DEF Anchored
  <2>4. c[i].cl # o BY <2>2, <2>3, ValueFacts DEF Holds
  <2> QED BY <2>2, <2>3, <2>4
<1> QED BY <1>1 DEF Anchored

LEMMA FreedAgrees ==
  ASSUME NEW cl, NEW cd, NEW o, \A x \in Obj : x # o => cd[x] = cl[x],
         NEW v \in Value, Agrees(cl, v), ~Holds(v, o)
  PROVE  Agrees(cd, v)
<1>1. CASE ~IsObject(v) BY <1>1, ScalarAgrees
<1>2. CASE IsObject(v)
  <2>1. v.data \in Obj /\ v.data # o
    BY <1>2 DEF Value, IsObject, ScalarType, ObjectType, Holds
  <2> QED BY <2>1 DEF Agrees
<1> QED BY <1>1, <1>2

\* What o holds is released, and what else there is keeps its holders.
LEMMA FreedHolders ==
  ASSUME FiberInv, NEW o \in dying, NEW cd, cd[o] = "free",
         \A x \in Obj : x # o => cd[x] = class[x], NEW x
  PROVE  /\ Held(o) \in Seq(Value)
         /\ Holders(Fibers, stk, class, x)
              = Holders(Fibers \ {o}, stk, cd, x) + OnStack(Held(o), x)
         /\ Holders(Fibers \ {o}, stk, cd, x) \in Nat /\ OnStack(Held(o), x) \in Nat
<1> DEFINE F == Fibers \ {o}
           g == Array(GlobalsObj)
           h == Holders(Fibers, stk, class, x)
           j == Holders(F, stk, class, x)
           k == Holders(F, stk, cd, x)
<1>1. TypeOK /\ WellTyped BY DEF FiberInv
<1>2. o \in Obj /\ (o = GlobalsObj => Fibers = {}) BY Unheld
<1>3. o \in FiberId /\ o # Root BY <1>2, ClassNames DEF FiberId
<1>4. IsFiniteSet(Fibers) /\ Stacks(Fibers, stk) /\ IsFiniteSet(F) /\ Stacks(F, stk)
  BY <1>1, FibersFinite, FiberStacks, FS_RemoveElement DEF Stacks
<1>5. h \in Nat /\ j \in Nat /\ k \in Nat BY <1>4, HoldersMoved
<1>6. GlobalsObj \in Obj BY ClassNames
<1>7. stk[o] \in Seq(Value) BY <1>1, <1>3, FiberFacts
<1>8. CASE class[o] = "fiber"
  <2>1. o \in Fibers /\ o # GlobalsObj BY <1>2, <1>8 DEF Fibers
  <2>2. cd[GlobalsObj] = class[GlobalsObj] BY <1>6, <2>1
  <2>3. k = j BY <2>2 DEF Holders
  <2>4. o \notin F /\ Fibers = F \cup {o} BY <2>1
  <2> HIDE DEF F
  <2>5. h = j + OnStack(stk[o], x) + Count(g, x) /\ OnStack(stk[o], x) \in Nat
    BY <1>4, <2>4, HoldersMore
  <2>6. Held(o) = Append(stk[o], g) BY <1>8 DEF Held
  <2>7. g \in Value BY <1>6 DEF Array, Value, ObjectType
  <2>8. Held(o) \in Seq(Value) BY <1>7, <2>6, <2>7, AppendProperties
  <2>9. OnStack(Held(o), x) = OnStack(stk[o], x) + Count(g, x)
    BY <1>7, <2>6, <2>7, OnStackPush
  <2>10. OnStack(Held(o), x) \in Nat BY <2>8, OnStackInterval
  <2>11. Count(g, x) \in Int BY CountType
  <2> HIDE DEF h, j, k, g
  <2>12. h = k + OnStack(Held(o), x) BY <1>5, <2>3, <2>5, <2>9, <2>11
  <2> QED BY <1>5, <2>8, <2>10, <2>12 DEF h, k, F
<1>9. CASE class[o] = "array"
  <2>1. o = GlobalsObj /\ Fibers = {} /\ F = Fibers BY <1>1, <1>2, <1>9 DEF WellTyped
  <2>2. Held(o) = GlobalsHeld BY <1>9, ClassNames DEF Held
  <2>3. class[GlobalsObj] = "array" /\ cd[GlobalsObj] # "array" BY <1>9, <2>1
  <2>4. OnStack(GlobalsHeld, x) \in Nat /\ GlobalsHeld \in Seq(Value) BY GlobalsCount
  <2>5. OnStacks(Fibers, stk, x) \in Nat BY <1>4, PlacesFinite
  <2> DEFINE d == IF x = GlobalsObj THEN Cardinality(Fibers) ELSE 0
  <2>6. d \in Nat BY <1>4, FS_CardinalityType
  <2>7. h = OnStacks(Fibers, stk, x) + OnStack(GlobalsHeld, x) + d BY <2>3 DEF Holders
  <2>8. k = OnStacks(Fibers, stk, x) + 0 + d BY <2>1, <2>3 DEF Holders
  <2> HIDE DEF h, k, d
  <2>9. h = k + OnStack(GlobalsHeld, x) BY <2>4, <2>5, <2>6, <2>7, <2>8
  <2> QED BY <1>5, <2>2, <2>4, <2>9 DEF h, k
<1>10. CASE class[o] # "fiber" /\ class[o] # "array"
  <2>1. F = Fibers BY <1>3, <1>10 DEF Fibers
  <2>2. class[GlobalsObj] = "array" <=> cd[GlobalsObj] = "array"
    BY <1>6, <1>10
  <2>3. h = k BY <2>1, <2>2 DEF Holders
  <2>4. Held(o) = <<>> BY <1>10 DEF Held
  <2>5. <<>> \in Seq(Value) /\ Len(<<>>) = 0 BY EmptySeq
  <2>6. OnStack(<<>>, x) = 0
    <3>1. DOMAIN <<>> = {} OBVIOUS
    <3>2. \A l \in {} : Count(<<>>[l], x) = 0 OBVIOUS
    <3> QED BY <3>1, <3>2, OccNone DEF OnStack
  <2> HIDE DEF h, k
  <2>7. h = k + OnStack(Held(o), x) BY <1>5, <2>3, <2>4, <2>6
  <2> QED BY <1>5, <2>4, <2>5, <2>6, <2>7 DEF h, k
<1> QED BY <1>8, <1>9, <1>10

LEMMA FreeObjectStep == FiberInv /\ FreeObject => FiberInv'
<1> SUFFICES ASSUME FiberInv, FreeObject PROVE FiberInv' OBVIOUS
<1>1. TypeOK /\ Standing /\ WellTyped /\ Counts /\ FramesAnchored /\ AtZero(Mem)
  BY DEF FiberInv
<1>2. PICK o \in dying :
        /\ Becomes(ReleaseAll([rc |-> rc, dying |-> dying \ {o}], Held(o), DOMAIN Held(o)))
        /\ class' = [class EXCEPT ![o] = "free"]
        /\ stk' = Cleared(stk, o)
        /\ cstk' = Cleared(cstk, o)
        /\ status' = [status EXCEPT ![o] = "done"]
        /\ UNCHANGED <<chain, err>>
  BY DEF FreeObject
<1> DEFINE m0 == [rc |-> rc, dying |-> dying \ {o}]
           s == Held(o)
           m == ReleaseAll(m0, s, DOMAIN s)
           F == Fibers \ {o}
           n == Len(chain)
<1>3. /\ o \in Obj
      /\ \A f \in FiberId : \A i \in 1..Len(stk[f]) : ~Holds(stk[f][i], o)
      /\ class[GlobalsObj] = "array" => \A i \in DOMAIN Globals : Globals[i] # o
      /\ o = GlobalsObj => Fibers = {}
  BY Unheld
<1>4. o \in FiberId /\ o # Root BY <1>3, ClassNames DEF FiberId
<1>5. /\ stk \in [FiberId -> Seq(Value)] /\ cstk \in [FiberId -> Seq(Frame)]
      /\ status \in [FiberId -> {"suspended", "running", "done"}]
      /\ class \in [Obj -> {"free", "fiber", "array"} \cup Fun]
      /\ rc \in [Obj -> Int] /\ dying \subseteq Obj
  BY <1>1 DEF TypeOK
<1>6. <<>> \in Seq(Value) /\ <<>> \in Seq(Frame) /\ Len(<<>>) = 0 BY EmptySeq
<1>7. /\ stk' \in [FiberId -> Seq(Value)] /\ stk'[o] = <<>>
      /\ cstk' \in [FiberId -> Seq(Frame)] /\ cstk'[o] = <<>>
      /\ \A f \in FiberId : f # o => stk'[f] = stk[f] /\ cstk'[f] = cstk[f]
  BY <1>2, <1>4, <1>5, <1>6 DEF Cleared
<1>8. /\ status' \in [FiberId -> {"suspended", "running", "done"}] /\ status'[o] = "done"
      /\ \A f \in FiberId : f # o => status'[f] = status[f]
  BY <1>2, <1>4, <1>5
<1>9. /\ class' \in [Obj -> {"free", "fiber", "array"} \cup Fun] /\ class'[o] = "free"
      /\ \A x \in Obj : x # o => class'[x] = class[x]
  BY <1>2, <1>3, <1>5
<1>10. /\ s \in Seq(Value)
       /\ \A x : /\ Holders(Fibers, stk, class, x)
                      = Holders(F, stk, class', x) + OnStack(s, x)
                 /\ Holders(F, stk, class', x) \in Nat /\ OnStack(s, x) \in Nat
  BY <1>9, FreedHolders
<1> HIDE DEF s
<1>11. m0 \in MemType /\ AtZero(m0) /\ m0.rc = rc
  <2>1. m0 \in MemType BY <1>5 DEF MemType
  <2>2. \A x \in dying : rc[x] <= 0 BY <1>1 DEF AtZero, Mem
  <2> QED BY <2>1, <2>2 DEF AtZero
<1> HIDE DEF m0
<1>12. m \in MemType /\ AtZero(m) /\ \A x \in Obj : m.rc[x] = rc[x] - OnStack(s, x)
  <2>1. IsFiniteSet(DOMAIN s) BY <1>10, OnStackInterval
  <2> QED BY <1>11, <2>1, ReleaseAllType, ReleaseAllAtZero, ReleaseAllCount DEF OnStack
<1>13. Becomes(m) BY <1>2 DEF m, m0, s
<1> HIDE DEF m
<1>14. Fibers' = F
  <2>1. Ended' <=> Ended
    <3>1. Root \in FiberId BY DEF FiberId
    <3> QED BY <1>2, <1>4, <1>7, <3>1 DEF Ended
  <2>2. {x \in Obj : class'[x] = "fiber"} = {x \in Obj : class[x] = "fiber"} \ {o}
    BY <1>9
  <2> QED BY <1>4, <2>1, <2>2 DEF Fibers
<1>15. TypeOK'
  <2>1. rc' \in [Obj -> Int] /\ dying' \subseteq Obj BY <1>12, <1>13 DEF Becomes, MemType
  <2>2. \A f \in FiberId : Len(stk'[f]) <= MaxSlots /\ Len(cstk'[f]) <= MaxFrames
    <3>1. MaxSlots >= 0 /\ MaxFrames >= 0 BY SizeAssumption DEF SizeAssumption
    <3> QED BY <1>1, <1>6, <1>7, <3>1, FiberFacts
  <2>3. \A x \in Obj : class'[x] # "fiber" => stk'[x] = <<>> /\ cstk'[x] = <<>>
    <3>1. \A x \in Obj : x \in FiberId BY DEF FiberId
    <3>2. \A x \in Obj : class[x] # "fiber" => stk[x] = <<>> /\ cstk[x] = <<>>
      BY <1>1 DEF TypeOK
    <3> QED BY <1>7, <1>9, <3>1, <3>2
  <2> QED BY <1>1, <1>2, <1>7, <1>8, <1>9, <2>1, <2>2, <2>3 DEF TypeOK
<1>16. WellTyped'
  <2>1. ASSUME NEW f \in FiberId, NEW i \in 1..Len(stk'[f])
        PROVE  Agrees(class', stk'[f][i])
    <3>1. f # o /\ stk'[f] = stk[f] BY <1>6, <1>7
    <3>2. stk[f][i] \in Value /\ Agrees(class, stk[f][i]) /\ ~Holds(stk[f][i], o)
      BY <1>1, <1>3, <1>5, <3>1, ElementOfSeq DEF WellTyped
    <3> QED BY <1>9, <3>1, <3>2, FreedAgrees
  <2>2. ASSUME class'[GlobalsObj] = "array", NEW i \in DOMAIN Globals
        PROVE  class'[Globals[i]] \in Fun
    <3>1. GlobalsObj # o BY <1>9, <2>2
    <3>2. class[GlobalsObj] = "array" BY <1>9, <2>2, <3>1, ClassNames
    <3>3. Globals[i] \in Obj /\ Globals[i] # o BY <1>3, <3>2, GlobalsCount
    <3> QED BY <1>1, <1>9, <3>2, <3>3 DEF WellTyped
  <2>3. \A x \in Obj : class'[x] = "array" => x = GlobalsObj BY <1>1, <1>9 DEF WellTyped
  <2>4. ASSUME F # {} PROVE class'[GlobalsObj] = "array"
    <3>1. Fibers # {} BY <2>4
    <3>2. GlobalsObj # o BY <1>3, <3>1
    <3> QED BY <1>1, <1>9, <3>1, <3>2, ClassNames, GlobalsThere
  <2> QED BY <1>14, <2>1, <2>2, <2>3, <2>4 DEF WellTyped
<1>17. Counts'
  <2>1. ASSUME NEW x \in Obj
        PROVE  IF err' THEN rc'[x] >= Holders(Fibers', stk', class', x)
                       ELSE rc'[x] = Holders(Fibers', stk', class', x)
    <3> DEFINE h == Holders(Fibers, stk, class, x)
               j == Holders(F, stk, class', x)
               k == Holders(F, stk', class', x)
    <3>1. h = j + OnStack(s, x) /\ j \in Nat /\ OnStack(s, x) \in Nat BY <1>10
    <3>2. \A f \in F : stk[f] = stk'[f] BY <1>7, FibersFinite
    <3> HIDE DEF F
    <3>3. OnStacks(F, stk, x) = OnStacks(F, stk', x) BY <3>2, OnStacksSame
    <3>4. k = j BY <3>3 DEF Holders
    <3>5. rc'[x] = rc[x] - OnStack(s, x) BY <1>12, <1>13 DEF Becomes
    <3>6. IF err THEN rc[x] >= h ELSE rc[x] = h BY <1>1 DEF Counts
    <3>7. rc[x] \in Int BY MemFacts
    <3>8. err' = err /\ Holders(Fibers', stk', class', x) = k BY <1>2, <1>14
    <3> HIDE DEF h, j, k
    <3>9. IF err THEN rc'[x] >= k ELSE rc'[x] = k BY <3>1, <3>4, <3>5, <3>6, <3>7
    <3> QED BY <3>8, <3>9
  <2> QED BY <2>1 DEF Counts
<1>18. FramesAnchored'
  <2>1. ASSUME NEW f \in FiberId PROVE Anchored(stk'[f], cstk'[f], class')
    <3>1. CASE f = o
      <4>1. 1..Len(cstk'[f]) = {} BY <1>6, <1>7, <3>1
      <4> QED BY <4>1 DEF Anchored
    <3>2. CASE f # o
      <4>1. Anchored(stk[f], cstk[f], class) /\ cstk[f] \in Seq(Frame)
        BY <1>1, <1>5 DEF FramesAnchored
      <4>2. Anchored(stk[f], cstk[f], class') BY <1>3, <1>9, <4>1, FreedAnchored
      <4> QED BY <1>7, <3>2, <4>2
    <3> QED BY <3>1, <3>2
  <2> QED BY <2>1 DEF FramesAnchored
<1>19. AtZero(Mem)'
  <2>1. rc' = m.rc /\ dying' = m.dying BY <1>13 DEF Becomes
  <2> QED BY <1>12, <2>1 DEF AtZero, Mem
<1>20. n \in Nat /\ DOMAIN chain = 1..n /\ chain \in Seq(FiberId)
       /\ \A i \in 1..n : chain[i] \in FiberId
  BY <1>1, LenProperties, ElementOfSeq DEF TypeOK
<1>21. \A i \in 1..n : chain[i] # o
  <2>1. ASSUME NEW i \in 1..n PROVE chain[i] # o
    <3>1. chain # <<>> BY <1>6, <1>20
    <3>2. CASE i = 1 BY <1>1, <1>4, <3>1, <3>2 DEF Standing
    <3>3. CASE i # 1
      <4> DEFINE j == i - 1
      <4>1. j \in 1..(n - 1) /\ j \in 1..n /\ j + 1 = i BY <1>20, <3>3
      <4>2. Waits(stk[chain[j]], cstk[chain[j]], status[chain[j]], class, chain[j + 1])
        BY <1>1, <4>1, ChainSoundNow DEF Standing, n
      <4>3. HasArgument(stk[chain[j]], cstk[chain[j]]) BY <1>1, <4>1 DEF Standing, n
      <4> DEFINE f == chain[j]
                 fr == LastOf(cstk[f])
                 b == fr.base + 1
      <4>4. f \in FiberId BY <1>20, <4>1
      <4> HIDE DEF j
      <4>5. stk[f][b] = Fiber(chain[i]) BY <4>1, <4>2 DEF Waits
      <4>6. ASSUME chain[i] = o PROVE FALSE
        <5>1. stk[f] \in Seq(Value) /\ Len(stk[f]) \in Nat BY <1>1, <4>4, FiberFacts
        <5>2. Holds(Fiber(o), o) BY <1>3, ValueFacts DEF Holds
        <5>3. b \in 1..Len(stk[f])
          <6>1. fr \in Frame BY <1>1, <4>3, <4>4, FiberFacts, LastFacts DEF HasArgument
          <6>2. b <= Len(stk[f]) BY <4>3 DEF HasArgument
          <6> QED BY <5>1, <6>1, <6>2 DEF Frame
        <5> QED BY <1>3, <4>4, <4>5, <4>6, <5>2, <5>3
      <4> QED BY <4>6
    <3> QED BY <3>2, <3>3
  <2> QED BY <2>1
<1>22. Standing'
  <2>1. chain' = chain /\ err' = err BY <1>2
  <2>2. \A i \in 1..n : /\ stk'[chain[i]] = stk[chain[i]] /\ cstk'[chain[i]] = cstk[chain[i]]
                        /\ status'[chain[i]] = status[chain[i]]
    BY <1>7, <1>8, <1>20, <1>21
  <2>3. \A i \in 1..(n - 1) : i \in 1..n /\ i + 1 \in 1..n BY <1>20
  <2> HIDE DEF n
  <2>4. ASSUME NEW i \in 1..(n - 1)
        PROVE  Waits(stk'[chain[i]], cstk'[chain[i]], status'[chain[i]], class', chain[i + 1])
    <3> DEFINE k == i + 1
    <3>1. Waits(stk[chain[i]], cstk[chain[i]], status[chain[i]], class, chain[k])
      BY <1>1, ChainSoundNow DEF Standing, n
    <3>2. i \in 1..n /\ k \in 1..n BY <2>3
    <3> HIDE DEF k
    <3>3. Waits(stk'[chain[i]], cstk'[chain[i]], status'[chain[i]], class, chain[k])
      BY <2>2, <3>1, <3>2
    <3>4. chain[k] # o /\ (chain[k] \in Obj \/ chain[k] = Root)
      BY <1>20, <1>21, <3>2 DEF FiberId
    <3>5. chain[k] # Root
      <4>1. k # 1 /\ 1 \in 1..n /\ chain # <<>>
        <5>1. k # 1 /\ n >= 1 BY <1>20, <3>2 DEF k
        <5>2. 1 \in 1..n /\ chain # <<>> BY <1>6, <1>20, <5>1 DEF n
        <5> QED BY <5>1, <5>2
      <4>2. chain[1] = Root BY <1>1, <4>1 DEF Standing
      <4> QED BY <1>1, <1>20, <3>2, <4>1, <4>2 DEF Standing, ChainSound
    <3>6. class'[chain[k]] = class[chain[k]] BY <1>9, <3>4, <3>5
    <3>7. Waits(stk'[chain[i]], cstk'[chain[i]], status'[chain[i]], class', chain[k])
      BY <3>3, <3>6 DEF Waits
    <3> QED BY <3>7 DEF k
  <2>5. ASSUME NEW f \in FiberId, status'[f] = "running"
        PROVE  \E i \in 1..n : chain[i] = f
    <3>1. f # o BY <1>8, <2>5
    <3> QED BY <1>1, <1>8, <1>20, <2>5, <3>1 DEF Standing, ChainSound
  <2>6. ChainSound'
    <3>1. \A i, j \in DOMAIN chain : i # j => chain[i] # chain[j]
      BY <1>1 DEF Standing, ChainSound
    <3>2. \A i \in 1..(Len(chain) - 1) :
            Waits(stk'[chain[i]], cstk'[chain[i]], status'[chain[i]], class', chain[i + 1])
      BY <2>4 DEF n
    <3> QED BY <1>20, <2>1, <2>5, <3>1, <3>2, ChainSoundNext
  <2>7. chain' # <<>> => chain'[1] = Root BY <1>1, <2>1 DEF Standing
  <2>8. \A i \in 1..(Len(chain') - 1) : HasArgument(stk'[chain'[i]], cstk'[chain'[i]])
    BY <1>1, <2>1, <2>2, <2>3 DEF Standing, n
  <2>9. \A i \in 1..Len(chain') : cstk'[chain'[i]] # <<>> \/ stk'[chain'[i]] # <<>>
    BY <1>1, <2>1, <2>2 DEF Standing, n
  <2>10. \A f \in Obj : status'[f] = "suspended" => cstk'[f] # <<>>
    <3>1. \A f \in Obj : f \in FiberId BY DEF FiberId
    <3>2. \A f \in Obj : status[f] = "suspended" => cstk[f] # <<>> BY <1>1 DEF Standing
    <3> QED BY <1>7, <1>8, <3>1, <3>2
  <2>11. chain' # <<>> /\ ~err' /\ status'[Me'] = "suspended" =>
           cstk'[Me'] # <<>> /\ Len(Stack') > (Top').base
    <3>1. SUFFICES ASSUME chain # <<>>, ~err, status'[Me'] = "suspended"
          PROVE  cstk'[Me'] # <<>> /\ Len(Stack') > (Top').base
      BY <2>1
    <3>2. Me' = Me BY <2>1 DEF Me
    <3>3. Me = chain[n] /\ n \in 1..n BY <1>1, <3>1, ChainFacts DEF n
    <3>4. stk'[Me] = stk[Me] /\ cstk'[Me] = cstk[Me] /\ status'[Me] = status[Me]
      BY <2>2, <3>3
    <3>5. Stack' = Stack /\ Top' = Top BY <3>2, <3>4 DEF Stack, Top, TopOf
    <3> QED BY <1>1, <3>1, <3>2, <3>4, <3>5 DEF Standing
  <2> QED BY <2>6, <2>7, <2>8, <2>9, <2>10, <2>11 DEF Standing
<1> QED BY <1>15, <1>16, <1>17, <1>18, <1>19, <1>22 DEF FiberInv

-----------------------------------------------------------------------------
(***************************************************************************)
(* The start.                                                              *)
(***************************************************************************)
LEMMA DeclarationsFacts ==
  /\ Declarations \in Seq(Value) /\ Len(Declarations) = 1 + Len(Declared)
  /\ Len(Declared) \in Nat /\ Declarations[1] = Closure(MainObj)
  /\ \A i \in 1..Len(Declarations) :
       \E o \in DOMAIN FunOf : Declarations[i] = Closure(o)
<1> DEFINE s == <<Closure(MainObj)>>
           t == [i \in DOMAIN Declared |-> Closure(Declared[i])]
           V == {Closure(o) : o \in DOMAIN FunOf}
<1>1. MainObj \in DOMAIN FunOf /\ Declared \in Seq(DOMAIN FunOf) /\ DOMAIN FunOf \subseteq Obj
  BY FiberAssumption DEF FiberAssumption
<1>2. DOMAIN Declared = 1..Len(Declared) /\ Len(Declared) \in Nat BY <1>1, LenProperties
<1>3. \A i \in DOMAIN Declared : Declared[i] \in DOMAIN FunOf BY <1>1, <1>2, ElementOfSeq
<1>4. t \in [1..Len(Declared) -> V] BY <1>2, <1>3
<1>5. t \in Seq(V) BY <1>2, <1>4, SeqDef
<1>6. Len(t) = Len(Declared)
  <2>1. DOMAIN t = 1..Len(t) /\ Len(t) \in Nat BY <1>5, LenProperties
  <2>2. DOMAIN t = 1..Len(Declared) BY <1>4
  <2> DEFINE a == Len(t)
             b == Len(Declared)
  <2>3. a \in Nat /\ b \in Nat /\ 1..a = 1..b BY <1>2, <2>1, <2>2
  <2> HIDE DEF a, b
  <2>4. a = b
    <3>1. CASE a < b
      <4>1. b \in 1..b /\ b \notin 1..a BY <2>3, <3>1
      <4> QED BY <2>3, <4>1
    <3>2. CASE b < a
      <4>1. a \in 1..a /\ a \notin 1..b BY <2>3, <3>2
      <4> QED BY <2>3, <4>1
    <3> QED BY <2>3, <3>1, <3>2
  <2> QED BY <2>4 DEF a, b
<1>7. Closure(MainObj) \in V BY <1>1
<1>8. s \in Seq(V) /\ Len(s) = 1 /\ s[1] = Closure(MainObj)
  <2> HIDE DEF V
  <2> QED BY <1>7
<1>9. Declarations = s \o t BY DEF Declarations
<1> HIDE DEF s, t
<1>10. /\ s \o t \in Seq(V) /\ Len(s \o t) = Len(s) + Len(t)
       /\ \A i \in 1..(Len(s) + Len(t)) :
            (s \o t)[i] = IF i <= Len(s) THEN s[i] ELSE t[i - Len(s)]
  <2> HIDE DEF V
  <2> QED BY <1>5, <1>8, ConcatProperties
<1>11. \A v \in V : v \in Value BY <1>1, ValueFacts
<1>12. ASSUME NEW u \in Seq(V)
       PROVE  u \in Seq(Value) /\ \A i \in 1..Len(u) : u[i] \in V
  <2>1. Len(u) \in Nat /\ u \in [1..Len(u) -> V] BY SeqDef, LenProperties
  <2>2. u \in [1..Len(u) -> Value] BY <1>11, <2>1
  <2> QED BY <2>1, <2>2, SeqDef
<1>13. Declarations \in Seq(Value) /\ \A i \in 1..Len(Declarations) : Declarations[i] \in V
  <2> HIDE DEF V
  <2> QED BY <1>9, <1>10, <1>12
<1>14. Len(Declarations) = 1 + Len(Declared) /\ Declarations[1] = Closure(MainObj)
  BY <1>2, <1>6, <1>8, <1>9, <1>10
<1>15. \A i \in 1..Len(Declarations) :
         \E o \in DOMAIN FunOf : Declarations[i] = Closure(o)
  BY <1>13
<1> QED BY <1>2, <1>13, <1>14, <1>15

\* What is not a closure of the start is on no stack.
LEMMA StartHolds ==
  ASSUME NEW o \in Obj
  PROVE  OnStack(Declarations, o) + OnStack(GlobalsHeld, o)
           = IF o \in DOMAIN FunOf THEN 1 ELSE 0
<1>1. CASE o \in DOMAIN FunOf
  BY <1>1, StartAssumption DEF StartAssumption, OnStack
<1>2. CASE o \notin DOMAIN FunOf
  <2>1. \A i \in DOMAIN Declarations : Count(Declarations[i], o) = 0
    <3>1. DOMAIN Declarations = 1..Len(Declarations) BY DeclarationsFacts, LenProperties
    <3>2. ASSUME NEW i \in 1..Len(Declarations) PROVE ~Holds(Declarations[i], o)
      <4>1. PICK x \in DOMAIN FunOf : Declarations[i] = Closure(x) BY DeclarationsFacts
      <4>2. x \in Obj /\ x # o BY <1>2, FiberAssumption DEF FiberAssumption
      <4> QED BY <4>1, <4>2, ValueFacts DEF Holds
    <3> QED BY <3>1, <3>2 DEF Count
  <2>2. \A i \in DOMAIN GlobalsHeld : Count(GlobalsHeld[i], o) = 0
    <3>1. ASSUME NEW i \in DOMAIN Globals PROVE ~Holds(GlobalsHeld[i], o)
      <4>1. Globals[i] \in DOMAIN FunOf
        <5>1. Globals \in Seq(DOMAIN FunOf) BY FiberAssumption DEF FiberAssumption
        <5>2. DOMAIN Globals = 1..Len(Globals) BY <5>1, LenProperties
        <5> QED BY <5>1, <5>2, ElementOfSeq
      <4>2. Globals[i] \in Obj /\ GlobalsHeld[i] = Closure(Globals[i]) BY GlobalsCount
      <4> QED BY <1>2, <4>1, <4>2, ValueFacts DEF Holds
    <3> QED BY <3>1, GlobalsCount DEF Count
  <2>3. OnStack(Declarations, o) = 0 BY <2>1, OccNone DEF OnStack
  <2>4. OnStack(GlobalsHeld, o) = 0 BY <2>2, OccNone DEF OnStack
  <2> QED BY <1>2, <2>3, <2>4
<1> QED BY <1>1, <1>2

\* Only the fiber of main() is there.
LEMMA StartFibers ==
  ASSUME Init
  PROVE  /\ Fibers = {Root} /\ class[GlobalsObj] = "array"
         /\ \A o \in Obj : class[o] = IF o \in DOMAIN FunOf THEN FunOf[o]
                                      ELSE IF o = GlobalsObj THEN "array" ELSE "free"
         /\ \A o \in DOMAIN FunOf : o \in Obj /\ class[o] \in Fun
         /\ \A o \in Obj : class[o] # "fiber" /\ (class[o] = "array" => o = GlobalsObj)
<1>1. \A o \in DOMAIN FunOf : FunOf[o] \in Fun /\ o \in Obj
  BY FiberAssumption DEF FiberAssumption
<1>2. GlobalsObj \in Obj /\ GlobalsObj \notin DOMAIN FunOf
  BY FiberAssumption DEF FiberAssumption
<1>3. \A o \in Obj : class[o] = IF o \in DOMAIN FunOf THEN FunOf[o]
                                ELSE IF o = GlobalsObj THEN "array" ELSE "free"
  BY DEF Init
<1>4. \A o \in Obj : class[o] # "fiber" /\ (class[o] = "array" => o = GlobalsObj)
  BY <1>1, <1>3, ClassNames
<1>5. ~Ended
  <2>1. chain # <<>>
    <3>1. Len(<<Root>>) = 1 /\ Len(<<>>) = 0 BY EmptySeq
    <3> QED BY <3>1 DEF Init
  <2> QED BY <2>1 DEF Ended
<1>6. Fibers = {Root} BY <1>4, <1>5 DEF Fibers
<1> QED BY <1>1, <1>2, <1>3, <1>4, <1>6

LEMMA StartCounts == Init => Counts
<1> SUFFICES ASSUME Init PROVE Counts OBVIOUS
<1>1. Root \in FiberId /\ ~err BY DEF FiberId, Init
<1>2. stk[Root] = Declarations BY <1>1 DEF Init
<1>3. Fibers = {Root} /\ class[GlobalsObj] = "array" BY StartFibers
<1>4. ASSUME NEW o \in Obj PROVE rc[o] = Holders(Fibers, stk, class, o)
  <2> DEFINE F == {Root}
             d == IF o = GlobalsObj THEN Cardinality(F) ELSE 0
  <2>1. IsFiniteSet(F) /\ Cardinality(F) = 1 BY FS_Singleton
  <2>2. Stacks(F, stk) BY <1>2, DeclarationsFacts DEF Stacks
  <2>3. Root \in F OBVIOUS
  <2>4. OnStacks(F \ {Root}, stk, o) = 0
    <3>1. PlacesOf({}, stk) = {} BY DEF PlacesOf
    <3> DEFINE g == [p \in {} |-> stk[p[1]][p[2]]]
    <3>2. \A l \in {} : Count(g[l], o) = 0 OBVIOUS
    <3> HIDE DEF g
    <3>3. Occ(g, {}, o) = 0 BY <3>2, OccNone
    <3>4. OnStacks({}, stk, o) = 0 BY <3>1, <3>3 DEF OnStacks, g
    <3> QED BY <3>4
  <2>5. d = IF o = GlobalsObj THEN 1 ELSE 0 BY <2>1
  <2>6. Holders(F, stk, class, o) = OnStacks(F, stk, o) + OnStack(GlobalsHeld, o) + d
    BY <1>3 DEF Holders
  <2> HIDE DEF F, d
  <2>7. /\ OnStacks(F, stk, o) = OnStacks(F \ {Root}, stk, o) + OnStack(Declarations, o)
        /\ OnStack(Declarations, o) \in Nat
    BY <1>2, <2>1, <2>2, <2>3, OnStacksSplit
  <2>8. OnStack(GlobalsHeld, o) \in Nat BY GlobalsCount
  <2>9. GlobalsObj \notin DOMAIN FunOf BY FiberAssumption DEF FiberAssumption
  <2>10. rc[o] = IF o \in DOMAIN FunOf \/ o = GlobalsObj THEN 1 ELSE 0 BY DEF Init
  <2>11. OnStack(Declarations, o) + OnStack(GlobalsHeld, o)
           = IF o \in DOMAIN FunOf THEN 1 ELSE 0
    BY StartHolds
  <2>12. Holders(F, stk, class, o) = rc[o]
    BY <2>4, <2>5, <2>6, <2>7, <2>8, <2>9, <2>10, <2>11
  <2> QED BY <1>3, <2>12 DEF F
<1> QED BY <1>1, <1>4 DEF Counts

LEMMA StartTypes == Init => TypeOK /\ WellTyped
<1> SUFFICES ASSUME Init PROVE TypeOK /\ WellTyped OBVIOUS
<1> DEFINE e == Entry(1, MainObj, Main)
<1>1. Root \in FiberId BY DEF FiberId
<1>2. <<>> \in Seq(Value) /\ <<>> \in Seq(Frame) /\ Len(<<>>) = 0 BY EmptySeq
<1>3. e \in Frame BY FiberAssumption DEF FiberAssumption, Entry, Frame
<1> HIDE DEF e
<1>4. <<e>> \in Seq(Frame) /\ Len(<<e>>) = 1 BY <1>3
<1>5. /\ stk = [f \in FiberId |-> IF f = Root THEN Declarations ELSE <<>>]
      /\ cstk = [f \in FiberId |-> IF f = Root THEN <<e>> ELSE <<>>]
  BY DEF Init, e
<1>6. stk \in [FiberId -> Seq(Value)] /\ cstk \in [FiberId -> Seq(Frame)]
  BY <1>2, <1>4, <1>5, DeclarationsFacts
<1>7. /\ status \in [FiberId -> {"suspended", "running", "done"}] /\ err \in BOOLEAN
      /\ chain \in Seq(FiberId) /\ dying \subseteq Obj /\ rc \in [Obj -> Int]
  <2>1. <<Root>> \in Seq(FiberId)
    <3> DEFINE r == Root
    <3>1. r \in FiberId BY <1>1
    <3> HIDE DEF r
    <3>2. <<r>> \in Seq(FiberId) BY <3>1
    <3> QED BY <3>2 DEF r
  <2>2. status \in [FiberId -> {"suspended", "running", "done"}] BY DEF Init
  <2>3. rc \in [Obj -> Int] BY DEF Init
  <2>4. err \in BOOLEAN /\ chain = <<Root>> /\ dying = {} BY DEF Init
  <2> QED BY <2>1, <2>2, <2>3, <2>4
<1>8. class \in [Obj -> {"free", "fiber", "array"} \cup Fun]
  <2>1. \A o \in Obj : class[o] \in {"free", "fiber", "array"} \cup Fun BY StartFibers
  <2>2. class = [o \in Obj |-> class[o]] BY DEF Init
  <2> QED BY <2>1, <2>2
<1>9. \A f \in FiberId : Len(stk[f]) <= MaxSlots /\ Len(cstk[f]) <= MaxFrames
  <2>1. /\ MaxSlots \in Nat /\ MaxFrames \in Nat /\ MaxFrames >= 1
        /\ MaxSlots > Len(Declared)
    BY SizeAssumption DEF SizeAssumption
  <2>2. Len(Declarations) <= MaxSlots BY <2>1, DeclarationsFacts
  <2>3. \A f \in FiberId : Len(stk[f]) = Len(Declarations) \/ Len(stk[f]) = 0
    BY <1>2, <1>5
  <2>4. \A f \in FiberId : Len(cstk[f]) = 1 \/ Len(cstk[f]) = 0
    BY <1>2, <1>4, <1>5
  <2>5. 0 <= MaxSlots /\ 0 <= MaxFrames /\ 1 <= MaxFrames BY <2>1
  <2> QED BY <2>2, <2>3, <2>4, <2>5
<1>10. \A o \in Obj : class[o] # "fiber" => stk[o] = <<>> /\ cstk[o] = <<>>
  BY <1>5, ClassNames DEF FiberId
<1>11. TypeOK BY <1>6, <1>7, <1>8, <1>9, <1>10 DEF TypeOK
<1>12. ASSUME NEW f \in FiberId, NEW i \in 1..Len(stk[f]) PROVE Agrees(class, stk[f][i])
  <2>1. f = Root /\ stk[f] = Declarations BY <1>2, <1>5
  <2>2. PICK o \in DOMAIN FunOf : stk[f][i] = Closure(o) BY <2>1, DeclarationsFacts
  <2>3. o \in Obj /\ class[o] \in Fun BY StartFibers
  <2> QED BY <2>2, <2>3, ValueFacts DEF Agrees
<1>13. ASSUME NEW i \in DOMAIN Globals PROVE class[Globals[i]] \in Fun
  <2>1. Globals \in Seq(DOMAIN FunOf) BY FiberAssumption DEF FiberAssumption
  <2>2. DOMAIN Globals = 1..Len(Globals) BY <2>1, LenProperties
  <2>3. Globals[i] \in DOMAIN FunOf BY <2>1, <2>2, ElementOfSeq
  <2> QED BY <2>3, StartFibers
<1>14. WellTyped BY <1>12, <1>13, StartFibers DEF WellTyped
<1> QED BY <1>11, <1>14

LEMMA StartFrames == Init => FramesAnchored /\ Standing /\ AtZero(Mem)
<1> SUFFICES ASSUME Init PROVE FramesAnchored /\ Standing /\ AtZero(Mem) OBVIOUS
<1> DEFINE e == Entry(1, MainObj, Main)
<1>1. Root \in FiberId BY DEF FiberId
<1>2. Len(<<>>) = 0 BY EmptySeq
<1>3. e.base = 1 /\ e.cl = MainObj /\ e.fn = Main BY DEF Entry
<1> HIDE DEF e
<1>4. /\ stk = [f \in FiberId |-> IF f = Root THEN Declarations ELSE <<>>]
      /\ cstk = [f \in FiberId |-> IF f = Root THEN <<e>> ELSE <<>>]
      /\ status = [f \in FiberId |-> IF f = Root THEN "running" ELSE "done"]
      /\ chain = <<Root>> /\ dying = {}
  BY DEF Init, e
<1>5. Len(<<e>>) = 1 /\ <<e>>[1] = e OBVIOUS
<1>6. Anchored(Declarations, <<e>>, class)
  <2>1. 1 \in 1..Len(Declarations) /\ Declarations[1] = Closure(MainObj)
    BY DeclarationsFacts
  <2>2. class[MainObj] = Main
    BY StartFibers, FiberAssumption DEF FiberAssumption
  <2>3. \A i \in 1..Len(<<e>>) : i = 1 BY <1>5
  <2> QED BY <1>3, <1>5, <2>1, <2>2, <2>3 DEF Anchored
<1>7. ASSUME NEW f \in FiberId, f # Root PROVE Anchored(stk[f], cstk[f], class)
  <2>1. 1..Len(cstk[f]) = {} BY <1>2, <1>4, <1>7
  <2> QED BY <2>1 DEF Anchored
<1>8. FramesAnchored BY <1>1, <1>4, <1>6, <1>7 DEF FramesAnchored
<1>9. /\ Len(chain) = 1 /\ DOMAIN chain = {1} /\ chain[1] = Root /\ Me = Root
      /\ 1..(Len(chain) - 1) = {} /\ 1..Len(chain) = {1}
  BY <1>4 DEF Me, LastOf
<1>10. \A f \in FiberId : status[f] = IF f = Root THEN "running" ELSE "done" BY <1>4
<1>11. ChainSound BY <1>9, <1>10, ChainSoundNow
<1>12. cstk[Root] # <<>> BY <1>1, <1>2, <1>4, <1>5
<1>13. \A f \in Obj : f \in FiberId /\ f # Root BY ClassNames DEF FiberId
<1>14. Standing BY <1>1, <1>9, <1>10, <1>11, <1>12, <1>13 DEF Standing
<1>15. AtZero(Mem) BY <1>4 DEF AtZero, Mem
<1> QED BY <1>8, <1>14, <1>15

-----------------------------------------------------------------------------
(***************************************************************************)
(* The theorems.                                                           *)
(***************************************************************************)
LEMMA StutterStep == FiberInv /\ UNCHANGED vars => FiberInv'
<1> SUFFICES ASSUME FiberInv, UNCHANGED vars PROVE FiberInv' OBVIOUS
<1>1. TypeOK /\ WellTyped /\ Counts /\ AtZero(Mem) /\ FramesAnchored /\ Standing
  BY DEF FiberInv
<1>2. UNCHANGED <<stk, cstk, status, chain, err, class, rc, dying>> BY DEF vars
<1>3. Me' = Me /\ Ended' = Ended BY <1>2 DEF Me, Ended
<1>4. Fibers' = Fibers /\ Stack' = Stack /\ Top' = Top
  BY <1>2, <1>3 DEF Fibers, Stack, Top, TopOf
<1>5. TypeOK' BY <1>1, <1>2 DEF TypeOK
<1>6. WellTyped' /\ Counts' /\ FramesAnchored' /\ AtZero(Mem)'
  <2>1. err' \in BOOLEAN /\ (err => err') BY <1>1, <1>2 DEF TypeOK
  <2> QED BY <1>1, <1>2, <1>4, <2>1, SameWellTyped, SameCounts, SameFramesAll, SameAtZero
<1>7. ChainSound' BY <1>1, <1>2, ChainSoundNow, ChainSoundNext DEF Standing
<1>8. Standing' BY <1>1, <1>2, <1>3, <1>4, <1>7 DEF Standing
<1> QED BY <1>5, <1>6, <1>8 DEF FiberInv

LEMMA FiberNext == FiberInv /\ [Next]_vars => FiberInv'
<1> SUFFICES ASSUME FiberInv, [Next]_vars PROVE FiberInv' OBVIOUS
<1>1. CASE Instructions
  BY <1>1, PushNilStep, PushIntStep, LoadGlobalStep, LoadLocalStep, PopStep, StoreLocalStep,
     CallStep, ReturnStep, YieldStep, FiberNativeStep, ResumeStep DEF Instructions
<1>2. CASE Loops
  <2>1. CASE Stop BY <2>1, StutterStep DEF Stop
  <2> QED BY <1>2, <2>1, HandOverStep, RootContinuesStep, RootDoneStep, UnwindStep,
          NextStatementStep, DeinitStep, FreeObjectStep DEF Loops
<1>3. CASE UNCHANGED vars BY <1>3, StutterStep
<1> QED BY <1>1, <1>2, <1>3 DEF Next

LEMMA FiberSafety == Spec => []FiberInv
<1>1. Init => FiberInv BY StartTypes, StartCounts, StartFrames DEF FiberInv
<1> QED BY <1>1, FiberNext, PTL DEF Spec

\* The variables have their types, no stack of a fiber is over its size, and what
\* is no fiber has no stacks (rak_fiber_push, rak_stack_push and the capacities
\* vstkSize and cstkSize of src/src/fiber.c).
THEOREM FiberTypeCorrect == Spec => []TypeOK
<1>1. FiberInv => TypeOK BY DEF FiberInv
<1> QED BY <1>1, FiberSafety, PTL

\* As long as no error is set the count of every object is the number of places
\* that hold it, over the stacks of all fibers, the array of globals and the
\* fibers that share it: yield, resume and return move a value from one stack to
\* another without gaining or losing a count (rak_fiber_resume, rak_fiber_return
\* and the natives of src/src/builtin.c).
THEOREM FiberCountsExact == Spec => []RefCountExact
<1>1. Places = PlacesOf(Fibers, stk) BY DEF Places, PlacesOf
<1>2. FiberInv => RefCountExact
  <2>1. SUFFICES ASSUME FiberInv, ~err PROVE RefCountExact BY DEF RefCountExact
  <2>2. \A o \in Obj : rc[o] = Holders(Fibers, stk, class, o)
    BY <2>1 DEF FiberInv, Counts
  <2> QED BY <1>1, <2>2 DEF RefCountExact, Holders, OnStacks, OnStack
<1> QED BY <1>2, FiberSafety, PTL

\* No live fiber has a freed or condemned object on its stack, nor a frame whose
\* closure is gone, also after an error, when the frames of the fibers that wait
\* are still to be torn down (rak_fiber_deinit, rak_fiber_free).
THEOREM FibersNeverDangle == Spec => []NoDangling
<1> DEFINE alive(o) == class[o] # "free" /\ o \notin dying
<1>1. ASSUME FiberInv, NEW f \in Fibers \ dying PROVE
        /\ \A i \in DOMAIN stk[f] : IsObject(stk[f][i]) => alive(stk[f][i].data)
        /\ \A i \in DOMAIN cstk[f] : alive(cstk[f][i].cl)
  <2>1. TypeOK /\ WellTyped /\ FramesAnchored BY <1>1 DEF FiberInv
  <2>2. f \in FiberId BY FibersFinite
  <2>3. /\ stk[f] \in Seq(Value) /\ DOMAIN stk[f] = 1..Len(stk[f])
        /\ cstk[f] \in Seq(Frame) /\ DOMAIN cstk[f] = 1..Len(cstk[f])
    BY <2>1, <2>2, FiberFacts, LenProperties
  <2>4. ASSUME NEW i \in 1..Len(stk[f]), IsObject(stk[f][i])
        PROVE  alive(stk[f][i].data)
    <3> DEFINE v == stk[f][i]
    <3>1. v \in Value /\ Agrees(class, v) BY <2>1, <2>2, <2>3, ElementOfSeq DEF WellTyped
    <3>2. class[v.data] # "free" BY <2>4, <3>1, ClassNames DEF Agrees
    <3>3. Holds(v, v.data) BY <2>4 DEF Holds
    <3>4. \A o \in dying : ~Holds(v, o) BY <1>1, <2>2, Unheld
    <3> QED BY <3>2, <3>3, <3>4
  <2>5. ASSUME NEW i \in 1..Len(cstk[f])
        PROVE  alive(cstk[f][i].cl)
    <3> DEFINE b == cstk[f][i].base
               c == cstk[f][i].cl
    <3>1. b \in 1..Len(stk[f]) /\ stk[f][b] = Closure(c)
      BY <2>1, <2>2 DEF FramesAnchored, Anchored
    <3>2. c \in Obj
      <4>1. cstk[f][i] \in Frame BY <2>3, ElementOfSeq
      <4> QED BY <4>1 DEF Frame
    <3> HIDE DEF b, c
    <3>3. IsObject(stk[f][b]) /\ stk[f][b].data = c BY <3>1, <3>2, ValueFacts
    <3>4. alive(c) BY <2>4, <3>1, <3>3
    <3> QED BY <3>4 DEF c
  <2> QED BY <2>3, <2>4, <2>5
<1>2. FiberInv => NoDangling BY <1>1 DEF NoDangling
<1> QED BY <1>2, FiberSafety, PTL

\* The fibers that run are those of the chain of resumptions, each in it once, and
\* each but the last waits in the native resume for the one its frame holds: no
\* fiber is entered twice, and none is freed while C code runs on its stacks
\* (rak_fiber_resume, resume of src/src/builtin.c).
THEOREM FibersChained == Spec => []ChainSound
<1>1. FiberInv => ChainSound BY DEF FiberInv, Standing
<1> QED BY <1>1, FiberSafety, PTL

-----------------------------------------------------------------------------
(***************************************************************************)
(* No fiber is reachable from its own stack, and so counting references    *)
(* leaves nothing behind.                                                  *)
(*                                                                         *)
(* Ordered says of any set of fibers that one of them is kept by none of   *)
(* the set.  A native that moves a fiber from one stack to another can     *)
(* disturb that only if it closes a cycle; it does not, because the stack  *)
(* that gets the fiber keeps, in a native's argument, the one it leaves,   *)
(* or is that of a fiber nobody keeps yet.                                 *)
(***************************************************************************)
Keeps(s, o) == \E i \in 1..Len(s) : s[i] = Fiber(o)

\* In every set of fibers there is one that no stack of the set keeps.
Ordered(s, cl) ==
  \A S \in SUBSET {o \in Obj : cl[o] = "fiber"} :
    S # {} => \E o \in S : \A f \in S : ~Keeps(s[f], o)

\* The stack t keeps no fiber that s does not keep.
NoMore(t, s) == \A o : Keeps(t, o) => Keeps(s, o)

LEMMA OccKeeps ==
  ASSUME NEW cl, NEW t \in Seq(Value), \A i \in 1..Len(t) : Agrees(cl, t[i]),
         NEW o \in Obj, cl[o] = "fiber"
  PROVE  Occ(t, DOMAIN t, o) = 0 <=> ~Keeps(t, o)
<1>1. DOMAIN t = 1..Len(t) /\ IsFiniteSet(DOMAIN t) BY OnStackInterval
<1>2. ASSUME NEW i \in 1..Len(t)
      PROVE  Holds(t[i], o) <=> t[i] = Fiber(o)
  <2>1. t[i] \in Value BY ElementOfSeq
  <2>2. ASSUME Holds(t[i], o) PROVE t[i] = Fiber(o)
    <3>1. IsObject(t[i]) /\ t[i].data = o BY <2>2 DEF Holds
    <3> QED BY <3>1, ClassNames DEF Agrees
  <2>3. Holds(Fiber(o), o) BY ValueFacts DEF Holds
  <2> QED BY <2>2, <2>3
<1>3. ASSUME Occ(t, DOMAIN t, o) = 0 PROVE ~Keeps(t, o)
  <2>1. \A l \in DOMAIN t : ~Holds(t[l], o) BY <1>1, <1>3, OccZero
  <2> QED BY <1>1, <1>2, <2>1 DEF Keeps
<1>4. ASSUME ~Keeps(t, o) PROVE Occ(t, DOMAIN t, o) = 0
  <2>1. \A l \in DOMAIN t : Count(t[l], o) = 0 BY <1>1, <1>2, <1>4 DEF Keeps, Count
  <2> QED BY <2>1, OccNone
<1> QED BY <1>3, <1>4

LEMMA AcyclicOrdered ==
  ASSUME FiberInv
  PROVE  Acyclic <=> Ordered(stk, class)
<1>1. ASSUME NEW f \in Obj, NEW o \in Obj, class[o] = "fiber"
      PROVE  Occ(stk[f], DOMAIN stk[f], o) = 0 <=> ~Keeps(stk[f], o)
  <2>1. f \in FiberId /\ TypeOK BY DEF FiberId, FiberInv
  <2>2. stk[f] \in Seq(Value) BY <2>1, FiberFacts
  <2>3. \A i \in 1..Len(stk[f]) : Agrees(class, stk[f][i])
    BY <2>1 DEF FiberInv, WellTyped
  <2> HIDE DEF Fiber
  <2> QED BY <1>1, <2>2, <2>3, OccKeeps
<1> QED BY <1>1 DEF Acyclic, Ordered

-----------------------------------------------------------------------------
(***************************************************************************)
(* Steps that bring no fiber to a new stack.                               *)
(***************************************************************************)
LEMMA Fewer ==
  ASSUME Ordered(stk, class),
         \A o \in Obj : class'[o] = "fiber" => class[o] = "fiber" /\ NoMore(stk'[o], stk[o])
  PROVE  Ordered(stk', class')
<1> SUFFICES ASSUME NEW S \in SUBSET {o \in Obj : class'[o] = "fiber"}, S # {}
             PROVE  \E o \in S : \A f \in S : ~Keeps(stk'[f], o)
  BY DEF Ordered
<1>1. S \in SUBSET {o \in Obj : class[o] = "fiber"} OBVIOUS
<1>2. PICK o \in S : \A f \in S : ~Keeps(stk[f], o) BY <1>1 DEF Ordered
<1>3. \A f \in S : NoMore(stk'[f], stk[f]) OBVIOUS
<1> QED BY <1>2, <1>3 DEF NoMore

LEMMA SameOrder ==
  ASSUME Ordered(stk, class), UNCHANGED <<stk, class>>
  PROVE  Ordered(stk', class')
  OBVIOUS

LEMMA WriteFewer ==
  ASSUME FiberInv, Ordered(stk, class), NEW g \in FiberId, NEW t, NoMore(t, stk[g]),
         stk' = [stk EXCEPT ![g] = t], class' = class
  PROVE  Ordered(stk', class')
<1>1. stk \in [FiberId -> Seq(Value)] BY DEF FiberInv, TypeOK
<1>2. ASSUME NEW o \in Obj PROVE NoMore(stk'[o], stk[o])
  <2>1. o \in FiberId BY DEF FiberId
  <2>2. stk'[o] = IF o = g THEN t ELSE stk[o] BY <1>1, <2>1
  <2> QED BY <2>2 DEF NoMore
<1> QED BY <1>2, Fewer

\* The elements of t are on s, or are no fibers.
LEMMA Drawn ==
  ASSUME NEW t, NEW s,
         \A i \in 1..Len(t) : (\E j \in 1..Len(s) : s[j] = t[i]) \/ t[i].type # "fiber"
  PROVE  NoMore(t, s)
<1>1. \A o : Fiber(o).type = "fiber" BY DEF Fiber
<1>2. ASSUME NEW o, NEW i \in 1..Len(t), t[i] = Fiber(o) PROVE Keeps(s, o)
  <2>1. t[i].type = "fiber" BY <1>1, <1>2
  <2>2. PICK j \in 1..Len(s) : s[j] = t[i] BY <2>1
  <2> QED BY <1>2, <2>2 DEF Keeps
<1> QED BY <1>2 DEF NoMore, Keeps

LEMMA PushValueOrder ==
  ASSUME FiberInv, Ordered(stk, class), NEW op, At(op), NEW v \in Value,
         v.type # "fiber" \/ \E j \in 1..Len(Stack) : Stack[j] = v, PushValue(v)
  PROVE  Ordered(stk', class')
<1>1. TypeOK /\ Standing /\ FramesAnchored BY DEF FiberInv
<1>2. CASE Fail BY <1>2, SameOrder DEF Fail
<1>3. CASE stk' = [stk EXCEPT ![Me] = Append(@, v)] /\ class' = class
  <2> DEFINE t == Append(Stack, v)
             n == Len(Stack)
  <2>1. chain # <<>> /\ Stack \in Seq(Value) /\ n \in Nat BY <1>1, AtFacts
  <2>2. Me \in FiberId BY <1>1, <2>1, ChainFacts
  <2>3. Len(t) = n + 1 /\ t[n + 1] = v /\ \A i \in 1..n : t[i] = Stack[i]
    BY <2>1, AppendProperties
  <2>4. stk' = [stk EXCEPT ![Me] = t] BY <1>1, <1>3, <2>2 DEF Stack, TypeOK
  <2> HIDE DEF t
  <2>5. ASSUME NEW i \in 1..Len(t)
        PROVE  (\E j \in 1..Len(Stack) : Stack[j] = t[i]) \/ t[i].type # "fiber"
    <3>1. CASE i = n + 1 BY <2>3, <3>1
    <3>2. CASE i # n + 1
      <4>1. i \in 1..n BY <2>1, <2>3, <3>2
      <4> QED BY <2>3, <4>1
    <3> QED BY <3>1, <3>2
  <2>6. NoMore(t, Stack) BY <2>5, Drawn
  <2> QED BY <1>3, <2>2, <2>4, <2>6, WriteFewer DEF Stack
<1> QED BY <1>2, <1>3 DEF PushValue

LEMMA PushNilOrder == FiberInv /\ Ordered(stk, class) /\ PushNil => Ordered(stk', class')
<1>1. Nil \in Value /\ Nil.type # "fiber" BY ValueFacts DEF IsObject, ObjectType
<1> HIDE DEF Nil
<1> QED BY <1>1, PushValueOrder DEF PushNil

LEMMA PushIntOrder == FiberInv /\ Ordered(stk, class) /\ PushInt => Ordered(stk', class')
<1> SUFFICES ASSUME FiberInv, Ordered(stk, class), PushInt PROVE Ordered(stk', class') OBVIOUS
<1>1. At("PUSH_INT") /\ PushValue(Number(A)) BY DEF PushInt
<1>2. A \in Nat BY <1>1, AtFacts DEF FiberInv
<1>3. Number(A) \in Value /\ ~IsObject(Number(A)) BY <1>2, ValueFacts
<1>4. Number(A).type # "fiber" BY <1>3 DEF IsObject, ObjectType
<1> QED BY <1>1, <1>3, <1>4, PushValueOrder

LEMMA LoadGlobalOrder == FiberInv /\ Ordered(stk, class) /\ LoadGlobal => Ordered(stk', class')
<1> SUFFICES ASSUME FiberInv, Ordered(stk, class), LoadGlobal
             PROVE  Ordered(stk', class')
  OBVIOUS
<1> DEFINE v == Closure(Globals[A])
<1>1. At("LOAD_GLOBAL") /\ A \in DOMAIN Globals /\ PushValue(v) BY DEF LoadGlobal
<1>2. Globals[A] \in Obj BY <1>1, GlobalsCount
<1>3. v \in Value /\ v.type = "closure" BY <1>2, ValueFacts
<1> HIDE DEF v
<1> QED BY <1>1, <1>3, PushValueOrder

LEMMA LoadLocalOrder == FiberInv /\ Ordered(stk, class) /\ LoadLocal => Ordered(stk', class')
<1> SUFFICES ASSUME FiberInv, Ordered(stk, class), LoadLocal
             PROVE  Ordered(stk', class')
  OBVIOUS
<1>1. At("LOAD_LOCAL") /\ HasLocal(A) /\ PushValue(Local(A)) BY DEF LoadLocal
<1>2. A \in Nat BY <1>1, AtFacts DEF FiberInv
<1>3. Local(A) \in Value /\ \E j \in 1..Len(Stack) : Stack[j] = Local(A)
  BY <1>1, <1>2, LocalFacts
<1> QED BY <1>1, <1>3, PushValueOrder

\* The fiber that executes has a new stack, with no more fibers on it.
LEMMA MyFewer ==
  ASSUME FiberInv, Ordered(stk, class), chain # <<>>, NEW t, NoMore(t, Stack),
         stk' = [stk EXCEPT ![Me] = t], class' = class
  PROVE  Ordered(stk', class')
<1>1. Me \in FiberId BY ChainFacts DEF FiberInv
<1> QED BY <1>1, WriteFewer DEF Stack

LEMMA ButLastFewer ==
  ASSUME NEW s \in Seq(Value), s # <<>>
  PROVE  NoMore(ButLast(s), s)
<1> DEFINE t == ButLast(s)
<1>1. /\ Len(s) \in Nat /\ Len(t) = Len(s) - 1
      /\ \A i \in 1..(Len(s) - 1) : t[i] = s[i]
  BY LastFacts
<1> HIDE DEF t
<1>2. \A i \in 1..Len(t) : i \in 1..Len(s) /\ s[i] = t[i] BY <1>1
<1>3. NoMore(t, s) BY <1>2, Drawn
<1> QED BY <1>3 DEF t

LEMMA PopOrder == FiberInv /\ Ordered(stk, class) /\ Pop => Ordered(stk', class')
<1> SUFFICES ASSUME FiberInv, Ordered(stk, class), Pop PROVE Ordered(stk', class') OBVIOUS
<1>1. chain # <<>> /\ Stack \in Seq(Value) /\ Len(Stack) \in Nat /\ Top.base \in 1..Len(Stack)
  BY AtFacts DEF FiberInv, Pop
<1>2. Stack # <<>>
  <2>1. Len(<<>>) = 0 BY EmptySeq
  <2> QED BY <1>1, <2>1
<1>3. NoMore(ButLast(Stack), Stack) BY <1>1, <1>2, ButLastFewer
<1>4. stk' = [stk EXCEPT ![Me] = ButLast(Stack)] /\ class' = class BY DEF Pop, Stack
<1> QED BY <1>1, <1>3, <1>4, MyFewer

LEMMA StoreLocalOrder == FiberInv /\ Ordered(stk, class) /\ StoreLocal => Ordered(stk', class')
<1> SUFFICES ASSUME FiberInv, Ordered(stk, class), StoreLocal
             PROVE  Ordered(stk', class')
  OBVIOUS
<1> DEFINE s == Stack
           n == Len(s)
           k == Top.base + A
           t == ButLast([s EXCEPT ![k] = LastOf(s)])
<1>1. chain # <<>> /\ s \in Seq(Value) /\ n \in Nat /\ Top.base \in 1..n /\ A \in Nat
  BY AtFacts DEF FiberInv, StoreLocal
<1>2. k \in 1..(n - 1) BY <1>1 DEF StoreLocal, HasLocal
<1>3. stk' = [stk EXCEPT ![Me] = t] /\ class' = class BY DEF StoreLocal
<1>4. LastOf(s) = s[n] BY DEF LastOf
<1> HIDE DEF s, k
<1>5. Stored(t, s, k) BY <1>1, <1>2, OnStackStore
<1> HIDE DEF t, n
<1>6. ASSUME NEW i \in 1..Len(t) PROVE \E j \in 1..n : s[j] = t[i]
  <2>1. i \in 1..(n - 1) /\ t[i] = IF i = k THEN s[n] ELSE s[i] BY <1>4, <1>5 DEF Stored, n
  <2>2. n \in 1..n /\ i \in 1..n BY <1>1, <2>1
  <2> QED BY <2>1, <2>2
<1>7. NoMore(t, s) BY <1>6, Drawn DEF n
<1> QED BY <1>1, <1>3, <1>7, MyFewer DEF s

LEMMA RootContinuesOrder ==
  FiberInv /\ Ordered(stk, class) /\ RootContinues => Ordered(stk', class')
<1> SUFFICES ASSUME FiberInv, Ordered(stk, class), RootContinues
             PROVE  Ordered(stk', class')
  OBVIOUS
<1>1. chain # <<>> /\ chain = <<Root>> /\ ~err /\ status[Root] = "suspended"
      /\ stk' = [stk EXCEPT ![Root] = ButLast(stk[Root])] /\ class' = class
  <2>1. Len(<<Root>>) = 1 /\ Len(<<>>) = 0 BY EmptySeq
  <2> QED BY <2>1 DEF RootContinues
<1>2. Me = Root BY <1>1 DEF Me, LastOf
<1>3. stk[Root] \in Seq(Value) /\ Len(stk[Root]) \in Nat BY FiberFacts DEF FiberInv, FiberId
<1>4. stk[Root] # <<>>
  <2>1. cstk[Me] # <<>> /\ Len(Stack) > Top.base BY <1>1, <1>2 DEF FiberInv, Standing
  <2>2. Anchored(Stack, cstk[Me], class) /\ cstk[Me] \in Seq(Frame)
    BY <1>1, <1>2, StackValues, FiberFacts DEF FiberInv, FiberId
  <2>3. Top.base \in 1..Len(Stack) BY <2>1, <2>2, AnchoredTop DEF Top, TopOf
  <2>4. Len(<<>>) = 0 BY EmptySeq
  <2> QED BY <1>2, <1>3, <2>3, <2>4 DEF Stack
<1>5. NoMore(ButLast(stk[Root]), stk[Root]) BY <1>3, <1>4, ButLastFewer
<1> QED BY <1>1, <1>2, <1>5, MyFewer DEF Stack

LEMMA CallOrder == FiberInv /\ Ordered(stk, class) /\ Call => Ordered(stk', class')
<1> SUFFICES ASSUME FiberInv, Ordered(stk, class), Call PROVE Ordered(stk', class')
  OBVIOUS
<1> DEFINE n == Len(Stack)
           c == n - A
           val == Stack[c]
           k == Arity[class[val.data]]
           s == Adjusted(Stack, c, k)
<1>1. /\ chain # <<>> /\ Stack \in Seq(Value) /\ n \in Nat /\ Top.base \in 1..n /\ A \in Nat
  <2>1. At("CALL") /\ TypeOK /\ Standing /\ FramesAnchored BY DEF FiberInv, Call
  <2> QED BY <2>1, AtFacts
<1>2. c \in 1..n
  <2>1. HasLocal(A + 1) BY DEF Call
  <2> QED BY <1>1, <2>1 DEF HasLocal
<1>3. val \in Value /\ Agrees(class, val) BY <1>1, <1>2, StackValues
<1>4. Nil.type # "fiber" BY DEF Nil
<1>5. MaxSlots \in Nat BY SizeAssumption DEF SizeAssumption
<1>6. ASSUME val.type = "closure"
      PROVE  /\ s \in Seq(Value) /\ Len(s) \in Nat
             /\ \A i \in 1..Len(s) : s[i] = IF i <= n THEN Stack[i] ELSE Nil
  <2>1. class[val.data] \in Fun BY <1>3, <1>6, ClosureValue
  <2>2. k \in Nat BY <2>1, FiberAssumption DEF FiberAssumption
  <2>3. c \in Nat BY <1>2
  <2> HIDE DEF k, c, n
  <2>4. /\ s \in Seq(Value) /\ Len(s) = c + k
        /\ \A i \in 1..(c + k) : s[i] = IF i <= Len(Stack) THEN Stack[i] ELSE Nil
    BY <1>1, <2>2, <2>3, AdjustedFacts
  <2> HIDE DEF s
  <2> QED BY <2>2, <2>3, <2>4 DEF n
<1> HIDE DEF s, c, val, k
<1>7. CASE stk' = stk /\ class' = class BY <1>7, SameOrder
<1>8. ASSUME NEW t, val.type = "closure", Len(t) \in Nat, Len(t) <= Len(s),
             \A i \in 1..Len(t) : t[i] = s[i]
      PROVE  NoMore(t, Stack)
  <2>1. ASSUME NEW i \in 1..Len(t)
        PROVE  (\E j \in 1..Len(Stack) : Stack[j] = t[i]) \/ t[i].type # "fiber"
    <3>1. i \in 1..Len(s) /\ i \in Nat /\ i >= 1 BY <1>6, <1>8
    <3>2. t[i] = IF i <= n THEN Stack[i] ELSE Nil BY <1>6, <1>8, <3>1
    <3>3. i <= n => i \in 1..n BY <1>1, <3>1
    <3> HIDE DEF Nil
    <3> QED BY <1>4, <3>2, <3>3
  <2> QED BY <2>1, Drawn
<1>9. CASE val.type = "closure" /\ stk' = [stk EXCEPT ![Me] = s] /\ class' = class
  <2>1. NoMore(s, Stack) BY <1>6, <1>8, <1>9
  <2> QED BY <1>1, <1>9, <2>1, MyFewer
<1>10. CASE /\ val.type = "closure" /\ Len(s) > MaxSlots
            /\ stk' = [stk EXCEPT ![Me] = SubSeq(s, 1, MaxSlots)] /\ class' = class
  <2> DEFINE t == SubSeq(s, 1, MaxSlots)
  <2>1. Len(t) = MaxSlots /\ \A i \in 1..MaxSlots : t[i] = s[i]
    BY <1>5, <1>6, <1>10, SubSeqProperties
  <2> HIDE DEF t
  <2>2. NoMore(t, Stack) BY <1>5, <1>6, <1>8, <1>10, <2>1
  <2> QED BY <1>1, <1>10, <2>2, MyFewer DEF t
<1> QED BY <1>7, <1>9, <1>10 DEF Call, Fail, s, c, val, k

LEMMA ReturnOrder == FiberInv /\ Ordered(stk, class) /\ Return => Ordered(stk', class')
<1> SUFFICES ASSUME FiberInv, Ordered(stk, class), Return PROVE Ordered(stk', class')
  OBVIOUS
<1> DEFINE n == Len(Stack)
           b == Top.base
           res == LastOf(Stack)
           t == Returned(Stack, Top, res)
<1>1. /\ chain # <<>> /\ Stack \in Seq(Value) /\ n \in Nat /\ b \in 1..n
  BY AtFacts DEF FiberInv, Return
<1>2. res = Stack[n] /\ n \in 1..n BY <1>1 DEF LastOf
<1>3. stk' = [stk EXCEPT ![Me] = t] /\ class' = class BY DEF Return, Stack
<1>4. res \in Value BY <1>1, <1>2, ElementOfSeq
<1> HIDE DEF res
<1>5. Landed(t, Stack, b, res) BY <1>1, <1>4, ReturnedFacts
<1> HIDE DEF t, b
<1>6. ASSUME NEW i \in 1..Len(t) PROVE \E j \in 1..Len(Stack) : Stack[j] = t[i]
  <2>1. i \in 1..b BY <1>5 DEF Landed
  <2>2. CASE i = b BY <1>2, <1>5, <2>2 DEF Landed
  <2>3. CASE i # b
    <3>1. i \in 1..(b - 1) /\ i \in 1..n BY <1>1, <2>1, <2>3
    <3> QED BY <1>5, <3>1 DEF Landed
  <2> QED BY <2>2, <2>3
<1>7. NoMore(t, Stack) BY <1>6, Drawn
<1> QED BY <1>1, <1>3, <1>7, MyFewer

LEMMA DeinitOrder == FiberInv /\ Ordered(stk, class) /\ Deinit => Ordered(stk', class')
<1> SUFFICES ASSUME FiberInv, Ordered(stk, class), Deinit PROVE Ordered(stk', class')
  OBVIOUS
<1> DEFINE t == <<>>
<1>1. stk' = [stk EXCEPT ![Root] = t] /\ class' = class BY DEF Deinit, Cleared
<1>2. NoMore(t, stk[Root])
  <2>1. Len(t) = 0 BY EmptySeq
  <2> HIDE DEF t
  <2> QED BY <2>1 DEF NoMore, Keeps
<1>3. Root \in FiberId BY DEF FiberId
<1> HIDE DEF t
<1> QED BY <1>1, <1>2, <1>3, WriteFewer

LEMMA FreeObjectOrder == FiberInv /\ Ordered(stk, class) /\ FreeObject => Ordered(stk', class')
<1> SUFFICES ASSUME FiberInv, Ordered(stk, class), FreeObject PROVE Ordered(stk', class')
  OBVIOUS
<1>1. PICK o \in dying : class' = [class EXCEPT ![o] = "free"] /\ stk' = Cleared(stk, o)
  BY DEF FreeObject
<1>2. /\ o \in Obj /\ stk \in [FiberId -> Seq(Value)]
      /\ class \in [Obj -> {"free", "fiber", "array"} \cup Fun]
  BY DEF FiberInv, TypeOK
<1>3. ASSUME NEW x \in Obj, class'[x] = "fiber"
      PROVE  class[x] = "fiber" /\ NoMore(stk'[x], stk[x])
  <2>1. x # o /\ class[x] = "fiber" BY <1>1, <1>2, <1>3
  <2>2. stk'[x] = stk[x] BY <1>1, <1>2, <2>1 DEF Cleared
  <2> QED BY <2>1, <2>2 DEF NoMore
<1> QED BY <1>3, Fewer

-----------------------------------------------------------------------------
(***************************************************************************)
(* Steps that bring a fiber to another stack.                              *)
(***************************************************************************)
\* The fiber m hands a value over to the fiber p, which keeps m: from s the stacks
\* become t.
Handed(s, t, m, p) ==
  /\ p # m /\ Keeps(s[p], m) /\ NoMore(t[m], s[m])
  /\ \A o : Keeps(t[p], o) => Keeps(s[p], o) \/ Keeps(s[m], o)
  /\ \A f \in Obj : f # m /\ f # p => t[f] = s[f]

\* A set with p and without m has a fiber that is not kept, found with m added.
LEMMA HandedOrder ==
  ASSUME NEW s, NEW cl, Ordered(s, cl), NEW m \in Obj, cl[m] = "fiber",
         NEW p, NEW t, Handed(s, t, m, p)
  PROVE  Ordered(t, cl)
<1> SUFFICES ASSUME NEW S \in SUBSET {o \in Obj : cl[o] = "fiber"}, S # {}
             PROVE  \E o \in S : \A f \in S : ~Keeps(t[f], o)
  BY DEF Ordered
<1> USE DEF Handed
<1>1. CASE p \notin S
  <2>1. PICK o \in S : \A f \in S : ~Keeps(s[f], o) BY DEF Ordered
  <2>2. ASSUME NEW f \in S PROVE ~Keeps(t[f], o)
    <3>1. CASE f = m BY <2>1, <3>1 DEF NoMore
    <3>2. CASE f # m BY <1>1, <2>1, <3>2
    <3> QED BY <3>1, <3>2
  <2> QED BY <2>2
<1>2. CASE p \in S
  <2> DEFINE T == S \cup {m}
  <2>1. T \in SUBSET {o \in Obj : cl[o] = "fiber"} /\ T # {} OBVIOUS
  <2>2. PICK o \in T : \A f \in T : ~Keeps(s[f], o) BY <2>1 DEF Ordered
  <2>3. o # m BY <1>2, <2>2
  <2>4. ASSUME NEW f \in S PROVE ~Keeps(t[f], o)
    <3>1. CASE f = m BY <2>2, <3>1 DEF NoMore
    <3>2. CASE f = p BY <2>2, <3>2
    <3>3. CASE f # m /\ f # p BY <2>2, <3>3
    <3> QED BY <3>1, <3>2, <3>3
  <2> QED BY <2>2, <2>3, <2>4
<1> QED BY <1>1, <1>2

SameBut(cl, cd, o) == \A x \in Obj : x # o => cd[x] = cl[x]

\* The fiber m makes the fiber o, which gets hold of none that m did not keep: from
\* s the stacks become t.
Brought(s, t, m, o) ==
  /\ m # o /\ \A f \in Obj \cup {m} : ~Keeps(s[f], o)
  /\ NoMore(t[o], s[m])
  /\ \A x : Keeps(t[m], x) => Keeps(s[m], x) \/ x = o
  /\ \A f \in Obj : f # o /\ f # m => t[f] = s[f]

LEMMA BroughtOrder ==
  ASSUME NEW s, NEW cl, Ordered(s, cl), NEW o \in Obj, NEW cd, SameBut(cl, cd, o),
         NEW m, NEW t, Brought(s, t, m, o)
  PROVE  Ordered(t, cd)
<1> USE DEF Brought, SameBut
<1> SUFFICES ASSUME NEW S \in SUBSET {x \in Obj : cd[x] = "fiber"}, S # {}
             PROVE  \E x \in S : \A f \in S : ~Keeps(t[f], x)
  BY DEF Ordered
<1> DEFINE T == S \ {o}
<1>1. T \in SUBSET {x \in Obj : cl[x] = "fiber"} OBVIOUS
<1>2. CASE o \notin S \/ m \in S
  <2>1. T # {} BY <1>2
  <2>2. PICK x \in T : \A f \in T : ~Keeps(s[f], x) BY <1>1, <2>1 DEF Ordered
  <2>3. ASSUME NEW f \in S PROVE ~Keeps(t[f], x)
    <3>1. CASE f = o
      <4>1. m \in T BY <1>2, <3>1
      <4> QED BY <2>2, <3>1, <4>1 DEF NoMore
    <3>2. CASE f = m BY <2>2, <3>2
    <3>3. CASE f # o /\ f # m BY <2>2, <3>3
    <3> QED BY <3>1, <3>2, <3>3
  <2> QED BY <2>2, <2>3
<1>3. CASE o \in S /\ m \notin S
  <2>1. ASSUME NEW f \in S PROVE ~Keeps(t[f], o)
    <3>1. CASE f = o BY <3>1 DEF NoMore
    <3>2. CASE f # o BY <1>3, <3>2
    <3> QED BY <3>1, <3>2
  <2> QED BY <1>3, <2>1
<1> QED BY <1>2, <1>3

\* What a return leaves on the stack s was there, or is the result.
LEMMA LandedKeeps ==
  ASSUME NEW s \in Seq(Value), NEW fr, fr.base \in 1..Len(s), NEW res \in Value,
         NEW o, Keeps(Returned(s, fr, res), o)
  PROVE  Keeps(s, o) \/ res = Fiber(o)
<1> DEFINE t == Returned(s, fr, res)
           b == fr.base
<1>1. Landed(t, s, b, res) BY ReturnedFacts
<1>2. PICK i \in 1..Len(t) : t[i] = Fiber(o) BY DEF Keeps
<1>3. Len(s) \in Nat BY LenProperties
<1> HIDE DEF t, b
<1>4. CASE i = b BY <1>1, <1>2, <1>4 DEF Landed
<1>5. CASE i # b
  <2>1. i \in 1..(b - 1) /\ i \in 1..Len(s) BY <1>1, <1>3, <1>5 DEF Landed, b
  <2> QED BY <1>1, <1>2, <2>1 DEF Landed, Keeps
<1> QED BY <1>4, <1>5

\* A fiber that waits in resume keeps the one it waits for.
LEMMA ResumerKeeps ==
  ASSUME FiberInv, Len(chain) > 1
  PROVE  LET p == LastOf(ButLast(chain)) IN
         /\ p \in FiberId /\ p # Me /\ Keeps(stk[p], Me) /\ Me \in Obj /\ class[Me] = "fiber"
         /\ stk[p] \in Seq(Value) /\ TopOf(p).base \in 1..Len(stk[p])
<1> DEFINE n == Len(chain)
           p == LastOf(ButLast(chain))
           c == cstk[p]
<1>1. TypeOK /\ Standing /\ FramesAnchored BY DEF FiberInv
<1>2. chain # <<>> /\ chain \in Seq(FiberId)
  <2>1. Len(<<>>) = 0 BY EmptySeq
  <2> QED BY <1>1, <2>1 DEF TypeOK
<1>3. /\ n \in Nat /\ Me = chain[n] /\ \A i \in 1..n : chain[i] \in FiberId
      /\ \A i \in 1..(n - 1) : chain[i] # Me
      /\ Me # Root => Me \in Obj /\ class[Me] = "fiber"
  BY <1>1, <1>2, ChainFacts
<1>4. n - 1 \in 1..(n - 1) /\ n - 1 \in 1..n /\ 1 \in 1..(n - 1) /\ (n - 1) + 1 = n
  BY <1>3
<1>5. Me # Root BY <1>1, <1>2, <1>3, <1>4 DEF Standing
<1>6. p = chain[n - 1]
  <2>1. Len(ButLast(chain)) = n - 1 /\ \A i \in 1..(n - 1) : ButLast(chain)[i] = chain[i]
    BY <1>2, LastFacts
  <2> QED BY <1>4, <2>1 DEF LastOf
<1>7. p \in FiberId /\ p # Me BY <1>3, <1>4, <1>6
<1> DEFINE b == LastOf(c).base
<1>8. c # <<>> /\ b + 1 <= Len(stk[p]) BY <1>1, <1>4, <1>6 DEF Standing, HasArgument
<1>9. stk[p] \in Seq(Value) /\ Len(stk[p]) \in Nat /\ c \in Seq(Frame)
  BY <1>1, <1>7, FiberFacts
<1>10. Anchored(stk[p], c, class) BY <1>1, <1>7 DEF FramesAnchored
<1>11. stk[p][b + 1] = Fiber(Me)
  BY <1>1, <1>3, <1>4, <1>6, ChainSoundNow DEF Standing, Waits
<1> HIDE DEF p, c
<1>12. b \in 1..Len(stk[p]) BY <1>8, <1>9, <1>10, AnchoredTop
<1>13. TopOf(p).base = b BY DEF TopOf, c
<1> HIDE DEF b
<1>14. b + 1 \in 1..Len(stk[p]) BY <1>8, <1>9, <1>12
<1>15. Keeps(stk[p], Me) BY <1>11, <1>14 DEF Keeps
<1> QED BY <1>3, <1>5, <1>7, <1>9, <1>12, <1>13, <1>15 DEF p

LEMMA HandOverOrder == FiberInv /\ Ordered(stk, class) /\ HandOver => Ordered(stk', class')
<1> SUFFICES ASSUME FiberInv, Ordered(stk, class), HandOver
             PROVE  Ordered(stk', class')
  OBVIOUS
<1> DEFINE p == LastOf(ButLast(chain))
           fr == TopOf(p)
           res == LastOf(Stack)
<1>1. /\ p \in FiberId /\ p # Me /\ Keeps(stk[p], Me) /\ Me \in Obj /\ class[Me] = "fiber"
      /\ stk[p] \in Seq(Value) /\ fr.base \in 1..Len(stk[p])
  BY ResumerKeeps DEF HandOver
<1>2. CASE stk' = stk /\ class' = class BY <1>2, SameOrder
<1>3. CASE /\ stk' = [stk EXCEPT ![Me] = ButLast(@), ![p] = Returned(@, fr, res)]
           /\ class' = class
  <2>1. /\ stk \in [FiberId -> Seq(Value)] /\ Me \in FiberId /\ Obj \subseteq FiberId
        /\ cstk[Me] \in Seq(Frame)
    BY <1>1 DEF FiberInv, TypeOK, FiberId
  <2>2. Stack \in Seq(Value) /\ Len(Stack) \in Nat BY <2>1, FiberFacts DEF FiberInv, Stack
  <2>3. Stack # <<>>
    <3>1. chain # <<>> /\ Len(chain) \in 1..Len(chain) /\ Me = chain[Len(chain)]
      <4>1. Len(<<>>) = 0 BY EmptySeq
      <4>2. chain # <<>> BY <4>1 DEF HandOver
      <4> QED BY <4>2, ChainFacts DEF FiberInv
    <3>2. CASE cstk[Me] # <<>>
      <4>1. Anchored(Stack, cstk[Me], class) BY <3>1, StackValues
      <4>2. Top.base \in 1..Len(Stack) BY <2>1, <3>2, <4>1, AnchoredTop DEF Top, TopOf
      <4>3. Len(<<>>) = 0 BY EmptySeq
      <4> QED BY <2>2, <4>2, <4>3
    <3>3. CASE cstk[Me] = <<>> BY <3>1, <3>3 DEF FiberInv, Standing, Stack
    <3> QED BY <3>2, <3>3
  <2>4. res \in Value /\ res = Stack[Len(Stack)] /\ Len(Stack) \in 1..Len(Stack)
    BY <2>2, <2>3, LastFacts
  <2>5. \A o : res = Fiber(o) => Keeps(stk[Me], o) BY <2>4 DEF Keeps, Stack
  <2> HIDE DEF p, fr, res
  <2>6. /\ stk'[Me] = ButLast(Stack) /\ stk'[p] = Returned(stk[p], fr, res)
        /\ \A f \in Obj : f # Me /\ f # p => stk'[f] = stk[f]
    BY <1>1, <1>3, <2>1 DEF Stack
  <2>7. NoMore(stk'[Me], stk[Me]) BY <2>2, <2>3, <2>6, ButLastFewer DEF Stack
  <2>8. \A o : Keeps(stk'[p], o) => Keeps(stk[p], o) \/ Keeps(stk[Me], o)
    BY <1>1, <2>4, <2>5, <2>6, LandedKeeps
  <2>9. Handed(stk, stk', Me, p) BY <1>1, <2>6, <2>7, <2>8 DEF Handed
  <2>10. Ordered(stk', class) BY <1>1, <2>9, HandedOrder
  <2> QED BY <1>3, <2>10
<1> QED BY <1>2, <1>3 DEF HandOver

\* A new fiber starts with the arguments of fiber().
LEMMA InitialKeeps ==
  ASSUME NEW val1, NEW val2, Arity[class[val1.data]] \in Nat, val1 \in Value, val2 \in Value,
         NEW s, \E j \in 1..Len(s) : s[j] = val1, \E j \in 1..Len(s) : s[j] = val2
  PROVE  NoMore(InitialStack(val1, val2), s)
<1> DEFINE u == IF val2.type = "nil" THEN <<val1>> ELSE <<val1, val2>>
           k == Arity[class[val1.data]]
           c == 1
           t == Adjusted(u, c, k)
<1>1. u \in Seq(Value) /\ \A i \in Nat : i >= 1 /\ i <= Len(u) => u[i] = val1 \/ u[i] = val2
  OBVIOUS
<1>2. Nil.type # "fiber" BY DEF Nil
<1>3. c \in Nat /\ k \in Nat OBVIOUS
<1> HIDE DEF u, c, k
<1>4. Len(t) = c + k /\ \A i \in 1..(c + k) : t[i] = IF i <= Len(u) THEN u[i] ELSE Nil
  BY <1>1, <1>3, AdjustedFacts
<1> HIDE DEF t, Nil
<1>5. ASSUME NEW i \in 1..Len(t)
      PROVE  (\E j \in 1..Len(s) : s[j] = t[i]) \/ t[i].type # "fiber"
  <2>1. i \in 1..(c + k) /\ i \in Nat /\ i >= 1 BY <1>3, <1>4
  <2> QED BY <1>1, <1>2, <1>4, <2>1
<1>6. NoMore(t, s) BY <1>5, Drawn
<1> QED BY <1>6 DEF InitialStack, t, u, k, c

LEMMA FiberNativeOrder ==
  FiberInv /\ Ordered(stk, class) /\ FiberNative => Ordered(stk', class')
<1> SUFFICES ASSUME FiberInv, Ordered(stk, class), FiberNative
             PROVE  Ordered(stk', class')
  OBVIOUS
<1> DEFINE val1 == Local(1)
           val2 == Local(2)
           s == InitialStack(val1, val2)
<1>1. CASE stk' = stk /\ class' = class BY <1>1, SameOrder
<1>2. CASE /\ val1.type = "closure"
           /\ \E o \in Free : class' = [class EXCEPT ![o] = "fiber"] /\ stk' = Created(s, o)
  <2>1. PICK o \in Free : class' = [class EXCEPT ![o] = "fiber"] /\ stk' = Created(s, o)
    BY <1>2
  <2>2. /\ At("FIBER") /\ HasLocal(2) /\ TypeOK /\ Standing /\ FramesAnchored /\ WellTyped
    BY DEF FiberNative, FiberInv
  <2>3. /\ chain # <<>> /\ Stack \in Seq(Value) /\ Len(Stack) \in Nat /\ Top.base \in Nat
        /\ Top.base \in 1..Len(Stack)
    BY <2>2, AtFacts
  <2>4. /\ val1 \in Value /\ Agrees(class, val1) /\ val2 \in Value
        /\ \E j \in 1..Len(Stack) : Stack[j] = val1
        /\ \E j \in 1..Len(Stack) : Stack[j] = val2
    <3> DEFINE i == 1
               j == 2
    <3>1. i \in Nat /\ j \in Nat /\ HasLocal(i) /\ HasLocal(j) BY <2>2, <2>3 DEF HasLocal
    <3> HIDE DEF i, j
    <3>2. /\ Local(i) \in Value /\ Agrees(class, Local(i)) /\ Local(j) \in Value
          /\ \E k \in 1..Len(Stack) : Stack[k] = Local(i)
          /\ \E k \in 1..Len(Stack) : Stack[k] = Local(j)
      BY <2>2, <3>1, LocalFacts
    <3> QED BY <3>2 DEF i, j
  <2> HIDE DEF val1, val2
  <2>5. Arity[class[val1.data]] \in Nat
    <3>1. class[val1.data] \in Fun BY <1>2, <2>4, ClosureValue
    <3> QED BY <3>1, FiberAssumption DEF FiberAssumption
  <2>6. NoMore(s, Stack) BY <2>4, <2>5, InitialKeeps
  <2> HIDE DEF s
  <2>7. o \in Obj /\ o \in FiberId /\ class[o] = "free" BY DEF Free, FiberId
  <2>8. Me \in FiberId /\ (Me # Root => class[Me] = "fiber") BY <2>2, <2>3, ChainFacts
  <2>9. Me # o BY <2>7, <2>8, ClassNames
  <2>10. ASSUME NEW f \in FiberId PROVE ~Keeps(stk[f], o)
    <3>1. ASSUME NEW i \in 1..Len(stk[f]), stk[f][i] = Fiber(o) PROVE FALSE
      <4>1. Agrees(class, stk[f][i]) BY <2>2 DEF WellTyped
      <4>2. /\ IsObject(Fiber(o)) /\ Fiber(o).data = o /\ Fiber(o) # Closure(o)
        BY <2>7, ValueFacts
      <4> HIDE DEF Fiber, Closure
      <4> QED BY <2>7, <3>1, <4>1, <4>2 DEF Agrees
    <3> QED BY <3>1 DEF Keeps
  <2>11. stk \in [FiberId -> Seq(Value)] /\ class \in [Obj -> {"free", "fiber", "array"} \cup Fun]
    BY <2>2 DEF TypeOK
  <2>12. /\ stk'[o] = s /\ stk'[Me] = Returned(Stack, Top, Fiber(o))
         /\ \A f \in FiberId : f # o /\ f # Me => stk'[f] = stk[f]
    BY <2>1, <2>7, <2>8, <2>9, <2>11 DEF Created, Stack, LastOf
  <2>13. SameBut(class, class', o) BY <2>1, <2>11 DEF SameBut
  <2>14. \A x : Keeps(stk'[Me], x) => Keeps(stk[Me], x) \/ x = o
    <3>1. Fiber(o) \in Value BY <2>7, ValueFacts
    <3>2. \A x : Fiber(o) = Fiber(x) => x = o BY DEF Fiber
    <3> DEFINE v == Fiber(o)
    <3> HIDE DEF v
    <3>3. ASSUME NEW x, Keeps(Returned(Stack, Top, v), x), v \in Value
          PROVE  Keeps(Stack, x) \/ v = Fiber(x)
      BY <2>3, <3>3, LandedKeeps
    <3> QED BY <2>12, <3>1, <3>2, <3>3 DEF v, Stack
  <2>15. NoMore(stk'[o], stk[Me]) BY <2>6, <2>12 DEF Stack
  <2>16. \A f \in Obj \cup {Me} : ~Keeps(stk[f], o) BY <2>8, <2>10 DEF FiberId
  <2>17. \A f \in Obj : f # o /\ f # Me => stk'[f] = stk[f] BY <2>12 DEF FiberId
  <2>18. Brought(stk, stk', Me, o) BY <2>9, <2>14, <2>15, <2>16, <2>17 DEF Brought
  <2> QED BY <2>7, <2>13, <2>18, BroughtOrder
<1> QED BY <1>1, <1>2 DEF FiberNative, Fail, Raise

-----------------------------------------------------------------------------
LEMMA OrderedNext ==
  FiberInv /\ Ordered(stk, class) /\ [Next]_vars => Ordered(stk', class')
<1> SUFFICES ASSUME FiberInv, Ordered(stk, class), [Next]_vars PROVE Ordered(stk', class')
  OBVIOUS
<1>1. CASE Instructions
  <2>1. CASE Yield \/ Resume BY <2>1, SameOrder DEF Yield, Resume, Fail
  <2> QED BY <1>1, <2>1, PushNilOrder, PushIntOrder, LoadGlobalOrder, LoadLocalOrder, PopOrder,
          StoreLocalOrder, CallOrder, ReturnOrder, FiberNativeOrder DEF Instructions
<1>2. CASE Loops
  <2>1. CASE RootDone \/ Unwind \/ NextStatement \/ Stop
    BY <2>1, SameOrder DEF RootDone, Unwind, NextStatement, Stop, vars
  <2> QED BY <1>2, <2>1, HandOverOrder, RootContinuesOrder, DeinitOrder, FreeObjectOrder
          DEF Loops
<1>3. CASE UNCHANGED vars BY <1>3, SameOrder DEF vars
<1> QED BY <1>1, <1>2, <1>3 DEF Next

\* No fiber is reachable from its own stack, through whatever it keeps: what
\* fiber() makes gets only what its maker had, and resume() hands back only what
\* the resumed fiber had, which its resumer keeps. Counting references therefore
\* frees every fiber (fiber_native_call and resume_native_call of
\* src/src/builtin.c, rak_fiber_resume).
THEOREM FibersAcyclic == Spec => []Acyclic
<1>1. Init => Ordered(stk, class) BY StartFibers DEF Ordered
<1>2. FiberInv /\ Ordered(stk, class) => Acyclic BY AcyclicOrdered
<1> DEFINE Order == Ordered(stk, class)
<1>3. Init => Order BY <1>1
<1>4. FiberInv /\ Order /\ [Next]_vars => Order' BY OrderedNext
<1>5. FiberInv /\ Order => Acyclic BY <1>2
<1> HIDE DEF Order
<1> QED BY <1>3, <1>4, <1>5, FiberSafety, PTL DEF Spec

-----------------------------------------------------------------------------
(***************************************************************************)
(* What no longer has a holder is condemned at once, and so nothing is     *)
(* left of a script that ended.                                            *)
(***************************************************************************)
Unused == {o \in Obj : class[o] = "free"}

Tidy == Caught(Mem, Unused)

LEMMA TidyKept ==
  ASSUME class' = class, NEW m, Becomes(m), Caught(m, Unused)
  PROVE  Tidy'
  BY DEF Tidy, Caught, Mem, Becomes, Unused

LEMMA TidySame == Tidy /\ UNCHANGED <<class, rc, dying>> => Tidy'
  BY DEF Tidy, Caught, Mem, Unused

LEMMA DroppedCaught ==
  ASSUME NEW m \in MemType, NEW U, Caught(m, U), NEW s \in Seq(Value), NEW fr, fr.base \in Nat
  PROVE  Caught(Dropped(m, s, fr), U)
<1> DEFINE m1 == Release(m, Closure(fr.cl))
           d == fr.base + 1
           n == Len(s)
<1>1. m1 \in MemType /\ Caught(m1, U) BY ReleaseType, ReleaseCaught
<1>2. d \in Int /\ n \in Int BY LenProperties
<1> HIDE DEF m1, d, n
<1>3. IsFiniteSet(d..n) BY <1>2, FS_Interval
<1>4. Caught(ReleaseAll(m1, s, d..n), U) BY <1>1, <1>3, ReleaseAllCaught
<1> QED BY <1>4 DEF Dropped, m1, d, n

LEMMA PushValueTidy ==
  ASSUME FiberInv, Tidy, NEW v, PushValue(v)
  PROVE  Tidy'
<1>1. CASE Fail BY <1>1, TidySame DEF Fail
<1>2. CASE Becomes(Retain(Mem, v)) /\ class' = class
  <2>1. Caught(Retain(Mem, v), Unused) BY MemFacts, RetainCaught DEF Tidy
  <2> QED BY <1>2, <2>1, TidyKept
<1> QED BY <1>1, <1>2 DEF PushValue

LEMMA ReleaseTidy ==
  ASSUME FiberInv, Tidy, NEW v, Becomes(Release(Mem, v)), class' = class
  PROVE  Tidy'
<1>1. Caught(Release(Mem, v), Unused) BY MemFacts, ReleaseCaught DEF Tidy
<1> QED BY <1>1, TidyKept

LEMMA CallTidy == FiberInv /\ Tidy /\ Call => Tidy'
<1> SUFFICES ASSUME FiberInv, Tidy, Call PROVE Tidy' OBVIOUS
<1> DEFINE n == Len(Stack)
           c == n - A
           val == Stack[c]
           k == Arity[class[val.data]]
           s == Adjusted(Stack, c, k)
<1>1. /\ chain # <<>> /\ Stack \in Seq(Value) /\ n \in Nat /\ Top.base \in 1..n /\ A \in Nat
  <2>1. At("CALL") /\ TypeOK /\ Standing /\ FramesAnchored BY DEF FiberInv, Call
  <2> QED BY <2>1, AtFacts
<1>2. c \in 1..n
  <2>1. HasLocal(A + 1) BY DEF Call
  <2> QED BY <1>1, <2>1 DEF HasLocal
<1>3. val \in Value /\ Agrees(class, val) BY <1>1, <1>2, StackValues
<1>4. ASSUME val.type = "closure" PROVE Len(s) \in Nat
  <2>1. class[val.data] \in Fun BY <1>3, <1>4, ClosureValue
  <2>2. k \in Nat BY <2>1, FiberAssumption DEF FiberAssumption
  <2>3. c \in Nat BY <1>2
  <2> HIDE DEF k, c
  <2>4. Len(s) = c + k BY <1>1, <2>2, <2>3, AdjustedFacts
  <2> HIDE DEF s
  <2> QED BY <2>2, <2>3, <2>4
<1> HIDE DEF s, c, val, k
<1>5. CASE UNCHANGED <<class, rc, dying>> BY <1>5, TidySame
<1>6. CASE /\ val.type = "closure" /\ class' = class
           /\ Becomes(ReleaseAll(Mem, Stack, (Len(s) + 1)..n))
  <2> DEFINE d == Len(s) + 1
  <2>1. d \in Int /\ n \in Int BY <1>1, <1>4, <1>6
  <2> HIDE DEF d, n
  <2>2. IsFiniteSet(d..n) BY <2>1, FS_Interval
  <2>3. Caught(ReleaseAll(Mem, Stack, d..n), Unused)
    BY <2>2, MemFacts, ReleaseAllCaught DEF Tidy
  <2> QED BY <1>6, <2>3, TidyKept DEF d
<1> QED BY <1>5, <1>6 DEF Call, Fail, s, c, val, k

LEMMA ReturnTidy == FiberInv /\ Tidy /\ Return => Tidy'
<1> SUFFICES ASSUME FiberInv, Tidy, Return PROVE Tidy' OBVIOUS
<1>1. At("RETURN") /\ TypeOK /\ Standing /\ FramesAnchored BY DEF FiberInv, Return
<1>2. Stack \in Seq(Value) /\ Len(Stack) \in Nat /\ Top.base \in 1..Len(Stack) /\ Top.base \in Nat
  BY <1>1, AtFacts
<1>3. Stack # <<>>
  <2>1. Len(<<>>) = 0 BY EmptySeq
  <2> QED BY <1>2, <2>1
<1>4. ButLast(Stack) \in Seq(Value) BY <1>2, <1>3, LastFacts
<1>5. Caught(Dropped(Mem, ButLast(Stack), Top), Unused)
  BY <1>2, <1>4, MemFacts, DroppedCaught DEF Tidy
<1>6. Becomes(Dropped(Mem, ButLast(Stack), Top)) /\ class' = class BY DEF Return
<1> QED BY <1>5, <1>6, TidyKept

LEMMA HandOverTidy == FiberInv /\ Tidy /\ HandOver => Tidy'
<1> SUFFICES ASSUME FiberInv, Tidy, HandOver PROVE Tidy' OBVIOUS
<1> DEFINE p == LastOf(ButLast(chain))
           fr == TopOf(p)
           m == Release(Retain(Mem, LastOf(Stack)), LastOf(Stack))
<1>1. stk[p] \in Seq(Value) /\ fr.base \in 1..Len(stk[p]) BY ResumerKeeps DEF HandOver
<1>2. fr.base \in Nat BY <1>1
<1>3. m \in MemType /\ Caught(m, Unused)
  BY MemFacts, RetainType, ReleaseType, RetainCaught, ReleaseCaught DEF Tidy
<1> HIDE DEF m, fr
<1>4. Caught(Dropped(m, stk[p], fr), Unused) BY <1>1, <1>2, <1>3, DroppedCaught
<1>5. CASE UNCHANGED <<class, rc, dying>> BY <1>5, TidySame
<1>6. CASE Becomes(Dropped(m, stk[p], fr)) /\ class' = class BY <1>4, <1>6, TidyKept
<1> QED BY <1>5, <1>6 DEF HandOver, m, fr

\* A fiber that is on a stack has a count.
LEMMA KeptCounted ==
  ASSUME FiberInv, NEW f \in Fibers, NEW o \in Obj, Keeps(stk[f], o)
  PROVE  rc[o] >= 1
<1>1. TypeOK /\ Counts BY DEF FiberInv
<1>2. IsFiniteSet(Fibers) /\ Stacks(Fibers, stk) BY <1>1, FibersFinite, FiberStacks
<1>3. /\ OnStacks(Fibers, stk, o) = OnStacks(Fibers \ {f}, stk, o) + OnStack(stk[f], o)
      /\ OnStacks(Fibers \ {f}, stk, o) \in Nat /\ OnStack(stk[f], o) \in Nat
  BY <1>2, OnStacksSplit
<1>4. OnStack(stk[f], o) # 0
  <2>1. stk[f] \in Seq(Value) BY <1>2 DEF Stacks
  <2>2. IsFiniteSet(DOMAIN stk[f]) /\ DOMAIN stk[f] = 1..Len(stk[f]) BY <2>1, OnStackInterval
  <2>3. PICK i \in 1..Len(stk[f]) : stk[f][i] = Fiber(o) BY DEF Keeps
  <2>4. Holds(stk[f][i], o) BY <2>3, ValueFacts DEF Holds
  <2> QED BY <2>2, <2>4, OccZero DEF OnStack
<1>5. OnStack(GlobalsHeld, o) \in Nat /\ Cardinality(Fibers) \in Nat
  BY <1>2, GlobalsCount, FS_CardinalityType
<1>6. rc[o] \in Int /\ rc[o] >= Holders(Fibers, stk, class, o)
  <2>1. rc[o] \in Int BY <1>1 DEF TypeOK
  <2>2. Holders(Fibers, stk, class, o) \in Nat BY <1>2, HoldersMoved
  <2> QED BY <1>1, <2>1, <2>2 DEF Counts
<1> QED BY <1>3, <1>4, <1>5, <1>6 DEF Holders

Counted == \A o \in Obj : chain # <<>> /\ Keeps(Stack, o) => ~(rc[o] <= 0)

LEMMA MyKeptCounted == FiberInv => Counted
<1>1. ASSUME FiberInv, chain # <<>> PROVE Me \in Fibers BY <1>1, ChainFacts DEF FiberInv
<1>2. ASSUME FiberInv, NEW o \in Obj, chain # <<>>, Keeps(Stack, o) PROVE ~(rc[o] <= 0)
  <2>1. rc[o] >= 1 BY <1>1, <1>2, KeptCounted DEF Stack
  <2>2. rc[o] \in Int BY <1>2, MemFacts
  <2> QED BY <2>1, <2>2
<1> QED BY <1>2 DEF Counted

LEMMA FiberNativeTidy == FiberInv /\ Counted' /\ Tidy /\ FiberNative => Tidy'
<1> SUFFICES ASSUME FiberInv, Counted', Tidy, FiberNative PROVE Tidy' OBVIOUS
<1> DEFINE val1 == Local(1)
           val2 == Local(2)
           s == InitialStack(val1, val2)
           m == RetainAll(Mem, s, DOMAIN s)
           r(o) == Dropped(Retain(Retain(m, Array(GlobalsObj)), Fiber(o)), Stack, Top)
<1>1. /\ At("FIBER") /\ HasLocal(2) /\ TypeOK /\ Standing /\ FramesAnchored /\ WellTyped
  BY DEF FiberNative, FiberInv
<1>2. /\ chain # <<>> /\ Stack \in Seq(Value) /\ Len(Stack) \in Nat /\ Top.base \in Nat
      /\ Top.base \in 1..Len(Stack)
  BY <1>1, AtFacts
<1>3. /\ val1 \in Value /\ Agrees(class, val1) /\ val2 \in Value /\ Agrees(class, val2)
  <2> DEFINE i == 1
             j == 2
  <2>1. i \in Nat /\ j \in Nat /\ HasLocal(i) /\ HasLocal(j) BY <1>1, <1>2 DEF HasLocal
  <2> HIDE DEF i, j
  <2>2. /\ Local(i) \in Value /\ Agrees(class, Local(i))
        /\ Local(j) \in Value /\ Agrees(class, Local(j))
    BY <1>1, <2>1, LocalFacts
  <2> QED BY <2>2 DEF i, j
<1> HIDE DEF val1, val2
<1>4. ASSUME val1.type = "closure" PROVE m \in MemType /\ Caught(m, Unused)
  <2>1. s \in Seq(Value) BY <1>3, <1>4, InitialFacts
  <2> HIDE DEF s
  <2>2. IsFiniteSet(DOMAIN s) BY <2>1, OnStackInterval
  <2> QED BY <2>2, MemFacts, RetainAllType, RetainAllCaught DEF Tidy
<1> HIDE DEF s, m
<1>5. CASE UNCHANGED <<class, rc, dying>> BY <1>5, TidySame
<1>6. CASE val1.type = "closure" /\ Becomes(m) /\ class' = class BY <1>4, <1>6, TidyKept
<1>7. CASE /\ val1.type = "closure" /\ chain' = chain
           /\ \E o \in Free : /\ class' = [class EXCEPT ![o] = "fiber"]
                              /\ stk' = Created(s, o) /\ Becomes(r(o))
  <2>1. PICK o \in Free : /\ class' = [class EXCEPT ![o] = "fiber"]
                          /\ stk' = Created(s, o) /\ Becomes(r(o))
    BY <1>7
  <2>2. o \in Obj /\ o \in FiberId /\ class[o] = "free" BY DEF Free, FiberId
  <2>3. Caught(r(o), Unused)
    <3> DEFINE m1 == Retain(m, Array(GlobalsObj))
               m2 == Retain(m1, Fiber(o))
    <3>1. m1 \in MemType /\ Caught(m1, Unused) BY <1>4, <1>7, RetainType, RetainCaught
    <3> HIDE DEF m1
    <3>2. m2 \in MemType /\ Caught(m2, Unused) BY <3>1, RetainType, RetainCaught
    <3> HIDE DEF m2
    <3>3. Caught(Dropped(m2, Stack, Top), Unused) BY <1>2, <3>2, DroppedCaught
    <3> QED BY <3>3 DEF m2, m1
  <2> HIDE DEF r
  <2>4. Me \in FiberId /\ (Me # Root => class[Me] = "fiber") BY <1>1, <1>2, ChainFacts
  <2>5. Me # o /\ stk \in [FiberId -> Seq(Value)] BY <1>1, <2>2, <2>4, ClassNames DEF TypeOK
  <2>6. stk'[Me] = Returned(Stack, Top, Fiber(o))
    BY <2>1, <2>4, <2>5 DEF Created, Stack, LastOf
  <2>7. Keeps(stk'[Me], o)
    <3> DEFINE v == Fiber(o)
               t == Returned(Stack, Top, v)
    <3>1. v \in Value BY <2>2, ValueFacts
    <3> HIDE DEF v
    <3>2. Landed(t, Stack, Top.base, v) BY <1>2, <3>1, ReturnedFacts
    <3> HIDE DEF t
    <3>3. Top.base \in 1..Len(t) /\ t[Top.base] = v BY <1>2, <3>2 DEF Landed
    <3>4. stk'[Me] = t BY <2>6 DEF t, v
    <3> QED BY <3>3, <3>4 DEF Keeps, v
  <2>8. chain' # <<>> /\ Stack' = stk'[Me] BY <1>2, <1>7 DEF Stack, Me
  <2>9. ~(rc'[o] <= 0) BY <2>2, <2>7, <2>8 DEF Counted
  <2>10. \A x \in Obj : x # o => class'[x] = class[x] BY <1>1, <2>1 DEF TypeOK
  <2>11. ASSUME NEW x \in Obj, rc'[x] <= 0 PROVE x \in dying' \cup Unused'
    <3>1. x # o BY <2>9, <2>11
    <3>2. rc' = r(o).rc /\ dying' = r(o).dying BY <2>1 DEF Becomes
    <3> QED BY <2>3, <2>10, <2>11, <3>1, <3>2 DEF Caught, Unused
  <2> QED BY <2>11 DEF Tidy, Caught, Mem
<1> QED BY <1>5, <1>6, <1>7 DEF FiberNative, Fail, Raise, s, m, val1, val2

LEMMA DeinitTidy == FiberInv /\ Tidy /\ Deinit => Tidy'
<1> SUFFICES ASSUME FiberInv, Tidy, Deinit PROVE Tidy' OBVIOUS
<1> DEFINE s == stk[Root]
           m == Release(Mem, Array(GlobalsObj))
<1>1. IsFiniteSet(DOMAIN s) BY FiberFacts DEF FiberInv, FiberId
<1>2. m \in MemType /\ Caught(m, Unused) BY MemFacts, ReleaseType, ReleaseCaught DEF Tidy
<1> HIDE DEF m, s
<1>3. Caught(ReleaseAll(m, s, DOMAIN s), Unused) BY <1>1, <1>2, ReleaseAllCaught
<1>4. Becomes(ReleaseAll(m, s, DOMAIN s)) /\ class' = class BY DEF Deinit, m, s
<1> QED BY <1>3, <1>4, TidyKept

LEMMA FreeObjectTidy == FiberInv /\ Tidy /\ FreeObject => Tidy'
<1> SUFFICES ASSUME FiberInv, Tidy, FreeObject PROVE Tidy' OBVIOUS
<1>1. PICK o \in dying :
        /\ Becomes(ReleaseAll([rc |-> rc, dying |-> dying \ {o}], Held(o), DOMAIN Held(o)))
        /\ class' = [class EXCEPT ![o] = "free"]
  BY DEF FreeObject
<1> DEFINE m == [rc |-> rc, dying |-> dying \ {o}]
           U == Unused \cup {o}
           h == Held(o)
<1>2. /\ o \in Obj /\ class \in [Obj -> {"free", "fiber", "array"} \cup Fun]
      /\ rc \in [Obj -> Int] /\ dying \subseteq Obj
  BY DEF FiberInv, TypeOK
<1>3. m \in MemType /\ Caught(m, U) BY <1>2 DEF MemType, Tidy, Caught, Mem
<1>4. IsFiniteSet(DOMAIN h)
  <2> DEFINE cd == [x \in Obj |-> IF x = o THEN "free" ELSE class[x]]
  <2>1. cd[o] = "free" /\ \A x \in Obj : x # o => cd[x] = class[x] BY <1>2
  <2> HIDE DEF cd
  <2>2. h \in Seq(Value) BY <2>1, FreedHolders
  <2> QED BY <2>2, OnStackInterval
<1>5. Unused' = U BY <1>1, <1>2 DEF Unused
<1> HIDE DEF m, U, h
<1>6. Caught(ReleaseAll(m, h, DOMAIN h), U) BY <1>3, <1>4, ReleaseAllCaught
<1>7. Becomes(ReleaseAll(m, h, DOMAIN h)) BY <1>1 DEF m, h
<1> QED BY <1>5, <1>6, <1>7 DEF Tidy, Caught, Mem, Becomes

LEMMA TidyNext == FiberInv /\ Counted' /\ Tidy /\ [Next]_vars => Tidy'
<1> SUFFICES ASSUME FiberInv, Counted', Tidy, [Next]_vars PROVE Tidy' OBVIOUS
<1>1. CASE Instructions
  <2>1. CASE Yield \/ Resume BY <2>1, TidySame DEF Yield, Resume, Fail
  <2>2. CASE PushNil \/ PushInt \/ LoadGlobal \/ LoadLocal
    BY <2>2, PushValueTidy DEF PushNil, PushInt, LoadGlobal, LoadLocal
  <2>3. CASE Pop \/ StoreLocal BY <2>3, ReleaseTidy DEF Pop, StoreLocal
  <2> QED BY <1>1, <2>1, <2>2, <2>3, CallTidy, ReturnTidy, FiberNativeTidy DEF Instructions
<1>2. CASE Loops
  <2>1. CASE RootDone \/ Unwind \/ NextStatement \/ Stop
    BY <2>1, TidySame DEF RootDone, Unwind, NextStatement, Stop, vars
  <2>2. CASE RootContinues BY <2>2, ReleaseTidy DEF RootContinues
  <2> QED BY <1>2, <2>1, <2>2, HandOverTidy, DeinitTidy, FreeObjectTidy DEF Loops
<1>3. CASE UNCHANGED vars BY <1>3, TidySame DEF vars
<1> QED BY <1>1, <1>2, <1>3 DEF Next

LEMMA StartTidy == Init => Tidy
<1> SUFFICES ASSUME Init, NEW o \in Obj, rc[o] <= 0 PROVE o \in Unused
  BY DEF Tidy, Caught, Mem
<1>1. o \notin DOMAIN FunOf /\ o # GlobalsObj BY DEF Init
<1>2. class[o] = "free" BY <1>1, StartFibers
<1> QED BY <1>2 DEF Unused

\* A fiber that nobody keeps has no count; so has the array of globals without a fiber.
LEMMA FiberUnheld ==
  ASSUME FiberInv, Ended, NEW o \in Obj, class[o] = "fiber",
         \A f \in Fibers : ~Keeps(stk[f], o)
  PROVE  Holders(Fibers, stk, class, o) = 0
<1> DEFINE s == [p \in PlacesOf(Fibers, stk) |-> stk[p[1]][p[2]]]
<1>1. TypeOK /\ WellTyped /\ Fibers \subseteq FiberId BY FibersFinite DEF FiberInv
<1>2. ASSUME NEW p \in PlacesOf(Fibers, stk) PROVE Count(s[p], o) = 0
  <2>1. PICK f \in Fibers : p \in {f} \X DOMAIN stk[f] BY DEF PlacesOf
  <2>2. p[1] = f /\ p[2] \in DOMAIN stk[f] /\ f \in FiberId BY <1>1, <2>1
  <2>3. stk[f] \in Seq(Value) BY <1>1, <2>2, FiberFacts
  <2>4. p[2] \in 1..Len(stk[f]) BY <2>2, <2>3, LenProperties
  <2> DEFINE v == stk[f][p[2]]
  <2>5. Agrees(class, v) /\ v # Fiber(o) BY <1>1, <2>2, <2>4 DEF WellTyped, Keeps
  <2>6. s[p] = v BY <2>2
  <2> HIDE DEF v, s
  <2>7. ~Holds(v, o) BY <2>5, ClassNames DEF Agrees, Holds
  <2> QED BY <2>6, <2>7 DEF Count
<1> HIDE DEF s
<1>3. Occ(s, PlacesOf(Fibers, stk), o) = 0 BY <1>2, OccNone
<1>4. o # GlobalsObj /\ class[GlobalsObj] = "array"
  <2>1. o \in Fibers BY DEF Fibers
  <2> QED BY <1>1, <2>1, GlobalsThere
<1>5. OnStack(GlobalsHeld, o) = 0
  <2>1. ASSUME NEW i \in DOMAIN GlobalsHeld PROVE Count(GlobalsHeld[i], o) = 0
    <3>1. Globals[i] \in Obj /\ GlobalsHeld[i] = Closure(Globals[i]) /\ i \in DOMAIN Globals
      BY <2>1, GlobalsCount
    <3>2. class[Globals[i]] \in Fun BY <1>1, <1>4, <3>1 DEF WellTyped
    <3>3. Globals[i] # o BY <3>2, ClassNames
    <3>4. ~Holds(GlobalsHeld[i], o) BY <3>1, <3>3, ValueFacts DEF Holds
    <3> QED BY <3>4 DEF Count
  <2> QED BY <2>1, OccNone DEF OnStack
<1> QED BY <1>3, <1>4, <1>5 DEF Holders, OnStacks, s

LEMMA NothingLeft ==
  ASSUME FiberInv, Ordered(stk, class), Tidy, Ended, dying = {}, ~err
  PROVE  \A o \in Obj : class[o] = "free"
<1>1. TypeOK /\ WellTyped /\ Counts BY DEF FiberInv
<1>2. ASSUME NEW o \in Obj, Holders(Fibers, stk, class, o) = 0 PROVE class[o] = "free"
  <2>1. rc[o] = 0 BY <1>1, <1>2 DEF Counts
  <2> QED BY <2>1 DEF Tidy, Caught, Mem, Unused
<1>3. Fibers = {}
  <2>1. SUFFICES ASSUME Fibers # {} PROVE FALSE OBVIOUS
  <2>2. Fibers = {o \in Obj : class[o] = "fiber"} BY DEF Fibers
  <2>3. PICK o \in Fibers : \A f \in Fibers : ~Keeps(stk[f], o) BY <2>1, <2>2 DEF Ordered
  <2>4. o \in Obj /\ class[o] = "fiber" BY <2>2
  <2>5. Holders(Fibers, stk, class, o) = 0 BY <2>3, <2>4, FiberUnheld
  <2> QED BY <1>2, <2>4, <2>5
<1>4. \A o : OnStacks(Fibers, stk, o) = 0
  <2>1. PlacesOf(Fibers, stk) = {} BY <1>3 DEF PlacesOf
  <2> QED BY <2>1, OccNone DEF OnStacks
<1>5. Cardinality(Fibers) = 0 BY <1>3, FS_EmptySet
<1>6. class[GlobalsObj] # "array"
  <2>1. SUFFICES ASSUME class[GlobalsObj] = "array" PROVE FALSE OBVIOUS
  <2>2. GlobalsObj \in Obj BY ClassNames
  <2>3. OnStack(GlobalsHeld, GlobalsObj) = 0
    <3>1. ASSUME NEW i \in DOMAIN GlobalsHeld PROVE Count(GlobalsHeld[i], GlobalsObj) = 0
      <4>1. Globals[i] \in Obj /\ GlobalsHeld[i] = Closure(Globals[i]) /\ i \in DOMAIN Globals
        BY <3>1, GlobalsCount
      <4>2. class[Globals[i]] \in Fun BY <1>1, <2>1, <4>1 DEF WellTyped
      <4>3. Globals[i] # GlobalsObj BY <2>1, <4>2, ClassNames
      <4>4. ~Holds(GlobalsHeld[i], GlobalsObj) BY <4>1, <4>3, ValueFacts DEF Holds
      <4> QED BY <4>4 DEF Count
    <3> QED BY <3>1, OccNone DEF OnStack
  <2>4. Holders(Fibers, stk, class, GlobalsObj) = 0 BY <1>4, <1>5, <2>1, <2>3 DEF Holders
  <2> QED BY <1>2, <2>1, <2>2, <2>4
<1>7. \A o \in Obj : Holders(Fibers, stk, class, o) = 0 BY <1>4, <1>5, <1>6 DEF Holders
<1> QED BY <1>2, <1>7

\* When a script has ended without an error and the fiber of main() is torn down, no
\* object is left: every fiber, suspended ones included, has gone when the last
\* value naming it did, and the globals and the closures with them
\* (rak_fiber_deinit, rak_fiber_free, rak_array_free).
THEOREM FibersReclaimed == Spec => [](err \/ NoLeak)
<1> DEFINE Order == Ordered(stk, class)
<1>1. Init => Order BY StartFibers DEF Ordered
<1>2. FiberInv /\ Order /\ [Next]_vars => Order' BY OrderedNext
<1>3. FiberInv /\ Order /\ Tidy => err \/ NoLeak BY NothingLeft DEF NoLeak
<1> HIDE DEF Order
<1> QED BY <1>1, <1>2, <1>3, FiberSafety, MyKeptCounted, StartTidy, TidyNext, PTL DEF Spec
==============================================================================
