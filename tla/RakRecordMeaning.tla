-------------------------- MODULE RakRecordMeaning --------------------------
(***************************************************************************)
(* RakRecord implements RakRecordSource: when the code of a statement has  *)
(* run, the variables hold what the source says they hold.  What a         *)
(* variable means is recorded at the end of each statement, and so are the *)
(* references that leak, in history variables that no action of RakRecord  *)
(* reads.                                                                  *)
(***************************************************************************)
EXTENDS RakRecordTrees, RakRecordForgotten

CONSTANTS
  Program,      \* the statements of the script, as trees
  MaxForgotten  \* bound: references to one object that are forgotten before
                \* the script is made to stop

VARIABLES
  seen,     \* what the variables meant when the last statement had ended
  todo      \* the statement whose code runs

RECURSIVE MeaningAt(_, _)
\* The value a word stands for.  A record nested deeper than there are objects
\* contains itself, and stands for no value.
MeaningAt(v, depth) ==
  CASE v.type = "string" -> <<"string", Text(v.data)>>
    [] v.type = "range"  -> <<"range", <<heap[v.data].start, heap[v.data].end>>>>
    [] v.type = "record" ->
         LET fs == Fields(v.data) IN
         IF depth = 0 THEN <<"cyclic", 0>>
         ELSE <<"record", [i \in 1..Len(fs) |->
                             <<Text(fs[i].name), MeaningAt(fs[i].val, depth - 1)>>]>>
    [] OTHER -> <<v.type, v.data>>

Meaning(v) == MeaningAt(v, Cardinality(Obj))

Running == status = "running"

Source == INSTANCE RakRecordSource WITH
  env <- seen, todo <- (IF Running THEN todo ELSE Nothing), running <- Running

-----------------------------------------------------------------------------
\* The statement of the script with this code.
Trees == [c \in Stmts |-> CHOOSE s \in Program : StmtCode(s) = c]

Variables == SubSeq([s \in 1..sp |-> Meaning(stk[s])], 1, sp)

Begins == code = <<>> /\ code' # <<>>
Ends   == code # <<>> /\ code' = <<>> /\ Running'

Remember ==
  /\ seen' = IF Ends THEN Variables' ELSE seen
  /\ todo' = IF Begins THEN Trees[code'] ELSE IF Ends THEN Nothing ELSE todo
  /\ Forget

SeenInit == Init /\ seen = Variables /\ todo = Nothing /\ NoneForgotten
SeenNext ==
  /\ Next
  /\ Begins => \A o \in Obj : forgotten[o] < MaxForgotten
  /\ Remember
SeenSpec == SeenInit /\ [][SeenNext]_<<vars, seen, todo, forgotten>>

-----------------------------------------------------------------------------
\* Each statement of a script does to the variables what the source says, as
\* one assignment, whatever the machine shares, copies or writes in place.
SourceMeaning == Source!Spec

\* A record was to grow past what the allocator serves.
Overgrown(v, name) ==
  IsRecord(v) /\ Len(With(Fields(v.data), name, Nil)) > MaxFields

\* The instruction that failed could not do its work.
Exhausted ==
  \/ Free = {}
  \/ /\ Head(code).op = "ADD" /\ BothAre("string")
     /\ Len(Text(Get(1).data)) + Len(Text(Get(0).data)) > MaxText
  \/ sp = MaxSlots
  \/ Head(code).op = "NEW_RECORD" /\ A > MaxFields
  \/ Head(code).op = "PUT_FIELD" /\ Overgrown(Get(1), Name)
  \/ Head(code).op = "SET_ELEMENT" /\ IsText(Get(1)) /\ Overgrown(Get(2), Get(1).data)

\* A statement fails only when it has no meaning, or for want of room.
FailsRightly ==
  status = "error" => Exhausted \/ Results(seen, todo) = {}

RECURSIVE Below(_)
\* The objects of S and those below them.
Below(S) ==
  LET T == S \cup {o \in Obj : \E l \in InNames(o) \cup InVals(o) : l[1] \in S}
  IN  IF T = S THEN S ELSE Below(T)

Kept == Below({o \in Obj : forgotten[o] > 0})

\* When the script is over nothing is left but what was forgotten, what that
\* holds, and an empty record no stack ever held: no record contains itself.
OnlyForgottenLeak ==
  status = "ended" /\ dying = {} =>
    \A o \in Obj : \/ heap[o].class = "free" \/ o \in Kept
                   \/ rc[o] = 0 /\ Fields(o) = <<>>
==============================================================================
