--------------------------- MODULE RakCompilerProofs ---------------------------
(***************************************************************************)
(* Proofs about RakCompiler: the compiler's account of its scopes, and     *)
(* that every jump of the code that is run has been patched and lands on   *)
(* an instruction.                                                         *)
(***************************************************************************)
EXTENDS RakCompiler, FiniteSetTheorems, SequenceTheorems, WellFoundedInduction, TLAPS

-----------------------------------------------------------------------------
(***************************************************************************)
(* Recursive definitions.                                                  *)
(***************************************************************************)
\* F gives the value at x of the function that is to be defined, from a function
\* that is right at what comes before x in R, which is well founded; T says what
\* the value may be.
Recurses(D, R, U, T, F) ==
  /\ \A S \in SUBSET D : S # {} => \E x \in S : \A y \in S : <<y, x>> \notin R
  /\ \A x \in D : T[x] \subseteq U /\ T[x] # {}
  /\ \A g \in [D -> U] : \A x \in D :
       (\A y \in D : g[y] \in T[y]) => F[<<g, x>>] \in T[x]
  /\ \A g, h \in [D -> U] : \A x \in D :
       /\ \A y \in D : g[y] \in T[y]
       /\ \A y \in D : h[y] \in T[y]
       /\ \A y \in D : <<y, x>> \in R => g[y] = h[y]
       => F[<<g, x>>] = F[<<h, x>>]

\* Then some function is right everywhere.
LEMMA Recursion ==
  ASSUME NEW D, NEW R, NEW U, NEW T, NEW F, Recurses(D, R, U, T, F)
  PROVE  \E g \in [D -> U] : \A x \in D : g[x] \in T[x] /\ g[x] = F[<<g, x>>]
<1>a. /\ \A S \in SUBSET D : S # {} => \E x \in S : \A y \in S : <<y, x>> \notin R
      /\ \A x \in D : T[x] \subseteq U /\ T[x] # {}
      /\ \A g \in [D -> U] : \A x \in D :
           (\A y \in D : g[y] \in T[y]) => F[<<g, x>>] \in T[x]
      /\ \A g, h \in [D -> U] : \A x \in D :
           /\ \A y \in D : g[y] \in T[y]
           /\ \A y \in D : h[y] \in T[y]
           /\ \A y \in D : <<y, x>> \in R => g[y] = h[y]
           => F[<<g, x>>] = F[<<h, x>>]
  BY DEF Recurses
<1> USE <1>a
<1> DEFINE G == {g \in [D -> U] : \A x \in D : g[x] \in T[x]}
           Closed(S) == S \subseteq D /\ \A x \in S : \A y \in D : <<y, x>> \in R => y \in S
           Sol(g, S) == g \in G /\ Closed(S) /\ \A x \in S : g[x] = F[<<g, x>>]
           V == {x \in D : \E g, S : Sol(g, S) /\ x \in S}
           some(x) == CHOOSE g : \E S : Sol(g, S) /\ x \in S
           H == [x \in D |-> IF x \in V THEN some(x)[x] ELSE CHOOSE t \in T[x] : TRUE]
<1>0. \A g, h \in G : \A x \in D :
        (\A y \in D : <<y, x>> \in R => g[y] = h[y]) => F[<<g, x>>] = F[<<h, x>>]
  OBVIOUS
<1>1. ASSUME NEW g, NEW S, Sol(g, S), NEW h, NEW Q, Sol(h, Q)
      PROVE  \A x \in S \cap Q : g[x] = h[x]
  <2> DEFINE W == {x \in S \cap Q : g[x] # h[x]}
  <2> SUFFICES ASSUME W # {} PROVE FALSE OBVIOUS
  <2>1. W \in SUBSET D BY <1>1
  <2>2. PICK x \in W : \A y \in W : <<y, x>> \notin R
    <3> HIDE DEF W
    <3> QED BY <2>1
  <2>3. \A y \in D : <<y, x>> \in R => y \in S /\ y \in Q BY <1>1, <2>2
  <2>4. \A y \in D : <<y, x>> \in R => g[y] = h[y] BY <2>2, <2>3
  <2>5. g \in G /\ h \in G /\ x \in D BY <1>1, <2>2
  <2>6. F[<<g, x>>] = F[<<h, x>>] BY <1>0, <2>4, <2>5
  <2> QED BY <1>1, <2>2, <2>6
<1>2. ASSUME NEW x \in V
      PROVE  \E S : Sol(some(x), S) /\ x \in S
  <2> HIDE DEF Sol
  <2> QED OBVIOUS
<1>3. H \in G
  <2>1. \A x \in D : H[x] \in T[x] /\ T[x] \subseteq U
    <3> SUFFICES ASSUME NEW x \in D PROVE H[x] \in T[x] OBVIOUS
    <3>1. CASE x \in V
      <4>1. some(x) \in G BY <1>2, <3>1
      <4>2. H[x] = some(x)[x] BY <3>1
      <4> HIDE DEF H, some
      <4> QED BY <4>1, <4>2
    <3>2. CASE x \notin V BY <3>2
    <3> QED BY <3>1, <3>2
  <2> DEFINE at(x) == IF x \in V THEN some(x)[x] ELSE CHOOSE t \in T[x] : TRUE
  <2>2. \A x \in D : H[x] = at(x) OBVIOUS
  <2>3. \A x \in D : at(x) \in U
    <3> HIDE DEF at, H
    <3> QED BY <2>1, <2>2
  <2>4. H = [x \in D |-> at(x)] OBVIOUS
  <2>5. H \in [D -> U]
    <3> HIDE DEF at, H
    <3> QED BY <2>3, <2>4
  <2> HIDE DEF H
  <2> QED BY <2>1, <2>5
<1>4. Sol(H, V)
  <2>1. Closed(V)
    <3> SUFFICES ASSUME NEW x \in V, NEW y \in D, <<y, x>> \in R PROVE y \in V OBVIOUS
    <3>1. PICK S : Sol(some(x), S) /\ x \in S BY <1>2
    <3>2. y \in S BY <3>1
    <3> QED BY <3>1, <3>2
  <2>2. ASSUME NEW x \in V PROVE H[x] = F[<<H, x>>]
    <3>1. PICK S : Sol(some(x), S) /\ x \in S BY <1>2
    <3>2. ASSUME NEW y \in D, <<y, x>> \in R PROVE some(x)[y] = H[y]
      <4>1. y \in S /\ y \in V BY <2>1, <3>1, <3>2
      <4>2. PICK Q : Sol(some(y), Q) /\ y \in Q BY <1>2, <4>1
      <4>3. some(x)[y] = some(y)[y]
        <5> HIDE DEF Sol, some
        <5> QED BY <1>1, <3>1, <4>1, <4>2
      <4>4. H[y] = some(y)[y] BY <4>1
      <4> QED BY <4>3, <4>4
    <3>3. F[<<some(x), x>>] = F[<<H, x>>]
      <4>1. some(x) \in G /\ x \in D BY <3>1
      <4> HIDE DEF some, H, G
      <4> QED BY <1>0, <1>3, <3>2, <4>1
    <3>4. H[x] = some(x)[x] OBVIOUS
    <3>5. some(x)[x] = F[<<some(x), x>>] BY <3>1
    <3> QED BY <3>3, <3>4, <3>5
  <2> HIDE DEF H
  <2> QED BY <1>3, <2>1, <2>2
<1>5. V = D
  <2> SUFFICES ASSUME D \ V # {} PROVE FALSE OBVIOUS
  <2>1. PICK x \in D \ V : \A y \in D \ V : <<y, x>> \notin R
    <3>1. D \ V \in SUBSET D OBVIOUS
    <3> HIDE DEF V
    <3> QED BY <3>1
  <2>2. \A y \in D : <<y, x>> \in R => y \in V BY <2>1
  <2> HIDE DEF H
  <2> DEFINE K == [H EXCEPT ![x] = F[<<H, x>>]]
             S == V \cup {x}
  <2>3. F[<<H, x>>] \in T[x] BY <1>3
  <2>4. K \in G BY <1>3, <2>3
  <2>5. \A y \in V : K[y] = H[y] BY <1>3, <2>1
  <2>6. K[x] = F[<<H, x>>] BY <1>3
  <2>7. Closed(S) BY <1>4, <2>1, <2>2
  <2> HIDE DEF K
  <2>8. \A y \in V : F[<<K, y>>] = F[<<H, y>>]
    <3> SUFFICES ASSUME NEW y \in V PROVE F[<<K, y>>] = F[<<H, y>>] OBVIOUS
    <3>1. \A z \in D : <<z, y>> \in R => z \in V BY <1>4
    <3>2. \A z \in D : <<z, y>> \in R => K[z] = H[z] BY <2>5, <3>1
    <3>3. y \in D OBVIOUS
    <3> HIDE DEF G, V
    <3> QED BY <1>0, <1>3, <2>4, <3>2, <3>3
  <2>9. F[<<K, x>>] = F[<<H, x>>]
    <3>1. \A z \in D : <<z, x>> \in R => K[z] = H[z] BY <2>2, <2>5
    <3> HIDE DEF G, V
    <3> QED BY <1>0, <1>3, <2>1, <2>4, <3>1
  <2>10. \A y \in S : K[y] = F[<<K, y>>]
    <3>1. \A y \in V : H[y] = F[<<H, y>>] BY <1>4
    <3> HIDE DEF V
    <3> QED BY <2>5, <2>6, <2>8, <2>9, <3>1
  <2>11. Sol(K, S) BY <2>4, <2>7, <2>10
  <2>12. x \in V
    <3> HIDE DEF Sol, S
    <3>1. x \in S BY DEF S
    <3> QED BY <2>1, <2>11, <3>1
  <2> QED BY <2>1, <2>12
<1>6. H \in G /\ \A x \in D : H[x] = F[<<H, x>>]
  <2> HIDE DEF H, V
  <2> QED BY <1>4, <1>5
<1> HIDE DEF H
<1> QED BY <1>6

-----------------------------------------------------------------------------
(***************************************************************************)
(* Code.                                                                   *)
(***************************************************************************)
\* d is c and what was emitted after it: no instruction to be patched but those
\* at the offsets of holes, and no jump past the end.
Continues(c, d, holes) ==
  /\ d \in Seq(Instr) /\ Len(d) >= Len(c)
  /\ \A i \in 1..Len(c) : d[i] = c[i]
  /\ \A i \in (Len(c) + 1)..Len(d) :
       /\ d[i] = Nop => i - 1 \in holes
       /\ d[i][1] \in Jumps => d[i][2] <= Len(d)

\* d is c and the code of an expression, which does not end in two loads.
Pushes(c, d) ==
  /\ Continues(c, d, {}) /\ Len(d) > Len(c)
  /\ Len(d) > Len(c) + 1 =>
       ~ (d[Len(d) - 1][1] = "LOAD_LOCAL" /\ d[Len(d)][1] = "LOAD_LOCAL")

Plain(i) == i \in Instr /\ i # Nop /\ i[1] \notin Jumps

LEMMA InstrFacts ==
  /\ Nop \in Instr /\ Nop[1] \notin Jumps
  /\ \A op \in {"PUSH_NIL", "POP", "ADD", "CALL", "TAIL_CALL", "RETURN", "RETURN_NIL"} :
       Plain(<<op>>)
  /\ \A a \in Int : Plain(<<"LOAD_LOCAL", a>>) /\ Plain(<<"STORE_LOCAL", a>>)
  /\ \A a, b \in Int : Plain(<<"MOVE", a, b>>) /\ Plain(<<"ADD2", a, b>>)
  /\ \A a, b, d \in Int : Plain(<<"ADD3", a, b, d>>)
  /\ \A op \in Jumps, a \in Int :
       /\ <<op, a>> \in Instr /\ <<op, a>> # Nop
       /\ <<op, a>>[1] = op /\ <<op, a>>[2] = a
<1>1. Nop \in Instr /\ Nop[1] \notin Jumps BY DEF Nop, Instr, Jumps
<1>2. \A op \in {"PUSH_NIL", "POP", "ADD", "CALL", "TAIL_CALL", "RETURN", "RETURN_NIL"} :
       Plain(<<op>>)
  BY DEF Plain, Nop, Instr, Jumps
<1>3. \A a \in Int : Plain(<<"LOAD_LOCAL", a>>) /\ Plain(<<"STORE_LOCAL", a>>)
  BY DEF Plain, Nop, Instr, Jumps
<1>4. \A a, b \in Int : Plain(<<"MOVE", a, b>>) /\ Plain(<<"ADD2", a, b>>)
  BY DEF Plain, Nop, Instr, Jumps
<1>5. \A a, b, d \in Int : Plain(<<"ADD3", a, b, d>>) BY DEF Plain, Nop, Instr, Jumps
<1>6. \A op \in Jumps, a \in Int :
       /\ <<op, a>> \in Instr /\ <<op, a>> # Nop
       /\ <<op, a>>[1] = op /\ <<op, a>>[2] = a
  BY DEF Nop, Instr, Jumps
<1> QED BY <1>1, <1>2, <1>3, <1>4, <1>5, <1>6

LEMMA JumpFacts ==
  ASSUME NEW op \in Jumps, NEW t \in Int
  PROVE  LET i == <<op, t>> IN
           /\ i \in Instr /\ i # Nop /\ i[1] = op /\ i[2] = t
           /\ i[1] \in Jumps /\ i[1] # "LOAD_LOCAL"
BY InstrFacts DEF Jumps

LEMMA JumpNames ==
  {"JUMP", "JUMP_IF_FALSE", "JUMP_IF_FALSE_OR_POP", "JUMP_IF_TRUE_OR_POP"} \subseteq Jumps
BY DEF Jumps

LEMMA OperandFacts ==
  ASSUME NEW i \in Instr
  PROVE  /\ i[1] \in {"LOAD_LOCAL", "STORE_LOCAL"} \cup Jumps => i[2] \in Int
         /\ i[1] = "ADD2" => i[2] \in Int /\ i[3] \in Int
<1>1. CASE i \in {<<op>> : op \in {"NOP", "PUSH_NIL", "POP", "ADD", "CALL", "TAIL_CALL",
                                   "RETURN", "RETURN_NIL"}}
  BY <1>1 DEF Jumps
<1>2. CASE i \in (Jumps \cup {"LOAD_LOCAL", "STORE_LOCAL"}) \X Int
  BY <1>2 DEF Jumps
<1>3. CASE i \in {"MOVE", "ADD2"} \X Int \X Int BY <1>3 DEF Jumps
<1>4. CASE i \in {"ADD3"} \X Int \X Int \X Int BY <1>4 DEF Jumps
<1> QED BY <1>1, <1>2, <1>3, <1>4 DEF Instr

LEMMA OffsetFacts ==
  ASSUME NEW c, Len(c) \in Nat
  PROVE  Offset(c) \in Nat /\ Offset(c) <= Len(c)
<1>1. MaxInstrs \in Nat /\ MaxInstrs > 0 BY CompilerAssumption
<1>2. \A n \in Nat : n % MaxInstrs \in Nat /\ n % MaxInstrs <= n BY <1>1
<1> QED BY <1>2 DEF Offset

LEMMA Unchanged == ASSUME NEW c \in Seq(Instr) PROVE Continues(c, c, {})
BY DEF Continues

LEMMA Together ==
  ASSUME NEW c, NEW d, NEW e, NEW X, NEW Y, c \in Seq(Instr),
         Continues(c, d, X), Continues(d, e, Y)
  PROVE  Continues(c, e, X \cup Y)
<1>1. Len(c) \in Nat /\ Len(d) \in Nat /\ Len(e) \in Nat BY DEF Continues
<1>2. \A i \in (Len(c) + 1)..Len(e) :
        /\ e[i] = Nop => i - 1 \in X \cup Y
        /\ e[i][1] \in Jumps => e[i][2] <= Len(e)
  <2> SUFFICES ASSUME NEW i \in (Len(c) + 1)..Len(e)
               PROVE  /\ e[i] = Nop => i - 1 \in X \cup Y
                      /\ e[i][1] \in Jumps => e[i][2] <= Len(e)
    OBVIOUS
  <2>1. CASE i <= Len(d)
    <3>1. i \in (Len(c) + 1)..Len(d) /\ e[i] = d[i] /\ d[i] \in Instr
      BY <1>1, <2>1 DEF Continues
    <3>2. d[i][1] \in Jumps => d[i][2] \in Int BY <3>1, OperandFacts
    <3> QED BY <1>1, <3>1, <3>2 DEF Continues
  <2>2. CASE i > Len(d) BY <1>1, <2>2 DEF Continues
  <2> QED BY <1>1, <2>1, <2>2
<1> QED BY <1>1, <1>2 DEF Continues

LEMMA AppendOne ==
  ASSUME NEW c, NEW d, NEW X, NEW i, c \in Seq(Instr), Continues(c, d, X), i \in Instr,
         i[1] \notin Jumps
  PROVE  /\ Continues(c, Append(d, i), X \cup {Len(d)})
         /\ i # Nop => Continues(c, Append(d, i), X)
         /\ Len(Append(d, i)) = Len(d) + 1 /\ Append(d, i)[Len(d) + 1] = i
<1> DEFINE e == Append(d, i)
<1>1. Len(c) \in Nat /\ Len(d) \in Nat BY DEF Continues
<1>2. e \in Seq(Instr) /\ Len(e) = Len(d) + 1 /\ e[Len(d) + 1] = i
      /\ \A k \in 1..Len(d) : e[k] = d[k]
  BY DEF Continues
<1>3. \A k \in 1..Len(d) : d[k] \in Instr BY DEF Continues
<1>4. \A k \in 1..Len(d) : d[k][1] \in Jumps => d[k][2] \in Int BY <1>3, OperandFacts
<1> HIDE DEF e
<1>5. \A k \in (Len(c) + 1)..Len(e) :
        /\ e[k] = Nop => k - 1 \in X \/ (k - 1 = Len(d) /\ i = Nop)
        /\ e[k][1] \in Jumps => e[k][2] <= Len(e)
  <2> SUFFICES ASSUME NEW k \in (Len(c) + 1)..Len(e)
               PROVE  /\ e[k] = Nop => k - 1 \in X \/ (k - 1 = Len(d) /\ i = Nop)
                      /\ e[k][1] \in Jumps => e[k][2] <= Len(e)
    OBVIOUS
  <2>1. CASE k = Len(d) + 1 BY <1>1, <1>2, <2>1
  <2>2. CASE k # Len(d) + 1
    <3>1. k \in (Len(c) + 1)..Len(d) /\ k \in 1..Len(d) /\ e[k] = d[k] BY <1>1, <1>2, <2>2
    <3> QED BY <1>1, <1>2, <1>4, <3>1 DEF Continues
  <2> QED BY <2>1, <2>2
<1>6. Continues(c, e, X \cup {Len(d)}) BY <1>1, <1>2, <1>5 DEF Continues
<1>7. i # Nop => Continues(c, e, X) BY <1>1, <1>2, <1>5 DEF Continues
<1> QED BY <1>2, <1>6, <1>7 DEF e

LEMMA More ==
  ASSUME NEW c, NEW d, NEW X, NEW Y, Continues(c, d, X), X \subseteq Y
  PROVE  Continues(c, d, Y)
BY DEF Continues

LEMMA ExceptOne ==
  ASSUME NEW d \in Seq(Instr), NEW j \in Nat \ {0}, NEW i \in Instr
  PROVE  LET e == [d EXCEPT ![j] = i] IN
           /\ e \in Seq(Instr) /\ Len(e) = Len(d)
           /\ \A k \in 1..Len(d) : e[k] = IF k = j THEN i ELSE d[k]
<1>1. CASE j \in 1..Len(d)
  <2> DEFINE e == [d EXCEPT ![j] = i]
  <2>1. e \in Seq(Instr) BY <1>1, ExceptSeq
  <2>2. Len(e) = Len(d) BY <1>1, ExceptSeq
  <2>3. \A k \in 1..Len(d) : e[k] = IF k = j THEN i ELSE d[k] BY <1>1, ExceptSeq
  <2> QED BY <2>1, <2>2, <2>3
<1>2. CASE j \notin 1..Len(d)
  <2>1. DOMAIN d = 1..Len(d) OBVIOUS
  <2>2. [d EXCEPT ![j] = i] = d BY <1>2, <2>1
  <2> QED BY <1>2, <2>2
<1> QED BY <1>1, <1>2

LEMMA PatchFacts ==
  ASSUME NEW d \in Seq(Instr), NEW off \in Nat, NEW i \in Instr
  PROVE  /\ Patch(d, off, i) \in Seq(Instr)
         /\ Len(Patch(d, off, i)) = Len(d)
         /\ \A k \in 1..Len(d) : Patch(d, off, i)[k] = IF k = off + 1 THEN i ELSE d[k]
<1>1. off + 1 \in Nat \ {0} OBVIOUS
<1> QED BY <1>1, ExceptOne DEF Patch

LEMMA PatchOne ==
  ASSUME NEW c, NEW d, NEW X, NEW off \in Nat, NEW i \in Instr,
         c \in Seq(Instr), Continues(c, d, X), off >= Len(c), i # Nop, i[2] <= Len(d)
  PROVE  Continues(c, Patch(d, off, i), X \ {off})
<1> DEFINE e == Patch(d, off, i)
<1>1. Len(c) \in Nat /\ Len(d) \in Nat /\ d \in Seq(Instr) BY DEF Continues
<1>5. e \in Seq(Instr) /\ Len(e) = Len(d)
      /\ \A k \in 1..Len(d) : e[k] = IF k = off + 1 THEN i ELSE d[k]
  BY <1>1, PatchFacts
<1> HIDE DEF e
<1>6. \A k \in 1..Len(c) : e[k] = c[k]
  <2> SUFFICES ASSUME NEW k \in 1..Len(c) PROVE e[k] = c[k] OBVIOUS
  <2>1. k \in 1..Len(d) /\ k # off + 1 /\ d[k] = c[k] BY <1>1 DEF Continues
  <2> QED BY <1>5, <2>1
<1>7. \A k \in (Len(c) + 1)..Len(e) :
        /\ e[k] = Nop => k - 1 \in X \ {off}
        /\ e[k][1] \in Jumps => e[k][2] <= Len(e)
  <2> SUFFICES ASSUME NEW k \in (Len(c) + 1)..Len(e)
               PROVE  /\ e[k] = Nop => k - 1 \in X \ {off}
                      /\ e[k][1] \in Jumps => e[k][2] <= Len(e)
    OBVIOUS
  <2>1. k \in 1..Len(d) /\ k \in (Len(c) + 1)..Len(d) BY <1>1, <1>5
  <2>2. CASE k = off + 1 BY <1>5, <2>1, <2>2
  <2>3. CASE k # off + 1
    <3>1. e[k] = d[k] /\ k - 1 # off BY <1>5, <2>1, <2>3
    <3> QED BY <1>5, <2>1, <3>1 DEF Continues
  <2> QED BY <2>2, <2>3
<1>8. Continues(c, e, X \ {off}) BY <1>1, <1>5, <1>6, <1>7 DEF Continues
<1> QED BY <1>8 DEF e

-----------------------------------------------------------------------------
(***************************************************************************)
(* The code of an expression.                                              *)
(***************************************************************************)
\* The greatest element of a set of numbers.
LEMMA MaxFacts ==
  ASSUME NEW n \in Nat, NEW S, S \subseteq 0..n, S # {}
  PROVE  Max(S) \in S
<1> DEFINE R == {ss \in Nat \X Nat : ss[1] < ss[2]}
           T == {n - x : x \in S}
<1>1. IsWellFoundedOn(R, Nat) BY NatLessThanWellFounded DEF OpToRel
<1>2. \A x \in S : x \in 0..n /\ n - x \in Nat OBVIOUS
<1>3. T \subseteq Nat /\ T # {} BY <1>2
<1>4. PICK m \in T : \A k \in T : ~ (<<k, m>> \in R)
  <2> HIDE DEF R, T
  <2> QED BY <1>1, <1>3, WFMin
<1>5. PICK x \in S : m = n - x BY <1>4
<1>6. ASSUME NEW y \in S PROVE x >= y
  <2>1. n - y \in T /\ <<n - y, m>> \in Nat \X Nat BY <1>2, <1>5
  <2>2. ~ (n - y < m) BY <1>4, <2>1
  <2> QED BY <1>2, <1>5, <2>2
<1> QED BY <1>5, <1>6 DEF Max

LEMMA SlotFacts == ASSUME Len(symbols) \in Nat, NEW n PROVE Slot(n) \in Int
<1> DEFINE S == {i \in 1..Len(symbols) : symbols[i].name = n}
<1>1. Slot(n) = (IF S # {} THEN Max(S) ELSE 0) - 1 BY DEF Slot, SelectLastInSeq
<1>2. S \subseteq 0..Len(symbols) OBVIOUS
<1>3. S # {} => Max(S) \in S
  <2> HIDE DEF S
  <2> QED BY <1>2, MaxFacts
<1>4. S # {} => Max(S) \in Int
  <2>1. S \subseteq Int OBVIOUS
  <2> HIDE DEF S
  <2> QED BY <1>3, <2>1
<1> HIDE DEF S
<1> QED BY <1>1, <1>4

LEMMA PushOne ==
  ASSUME NEW c \in Seq(Instr), NEW i, Plain(i)
  PROVE  Pushes(c, Append(c, i))
<1>1. i \in Instr /\ i # Nop /\ i[1] \notin Jumps BY DEF Plain
<1>2. Continues(c, Append(c, i), {}) BY <1>1, Unchanged, AppendOne
<1>3. Len(Append(c, i)) = Len(c) + 1 BY <1>1
<1> QED BY <1>2, <1>3 DEF Pushes

\* What a part does is not changed by one instruction after it that is not a load.
LEMMA PushOneMore ==
  ASSUME NEW c \in Seq(Instr), NEW d, NEW i, Pushes(c, d), Plain(i), i[1] # "LOAD_LOCAL"
  PROVE  Pushes(c, Append(d, i))
<1>1. i \in Instr /\ i # Nop /\ i[1] \notin Jumps BY DEF Plain
<1>2. Continues(c, d, {}) /\ Len(d) > Len(c) BY DEF Pushes
<1>3. Continues(c, Append(d, i), {}) BY <1>1, <1>2, AppendOne
<1>4. Len(Append(d, i)) = Len(d) + 1 /\ Append(d, i)[Len(d) + 1] = i
  BY <1>1, <1>2, AppendOne
<1>5. Len(c) \in Nat /\ Len(d) \in Nat BY <1>2 DEF Continues
<1> QED BY <1>2, <1>3, <1>4, <1>5 DEF Pushes

LEMMA PushSum ==
  ASSUME NEW c \in Seq(Instr), NEW d, NEW e, Pushes(c, d), Pushes(d, e)
  PROVE  Pushes(c, EmitSum(e))
<1> DEFINE n == Len(e)
<1>1. Continues(c, d, {}) /\ Len(d) > Len(c) /\ Continues(d, e, {}) /\ n > Len(d)
  BY DEF Pushes
<1>2. Len(c) \in Nat /\ Len(d) \in Nat /\ n \in Nat /\ e \in Seq(Instr) /\ d \in Seq(Instr)
  BY <1>1 DEF Continues
<1>3. Continues(c, e, {})
  <2>1. Continues(c, e, {} \cup {}) BY <1>1, Together
  <2> QED BY <2>1
<1>4. CASE e[n - 1][1] = "LOAD_LOCAL" /\ e[n][1] = "LOAD_LOCAL"
  <2>1. n = Len(d) + 1 BY <1>2, <1>4, <1>1 DEF Pushes
  <2>2. n - 1 \in 1..n /\ n \in 1..n BY <1>1, <1>2
  <2>3. e[n - 1] \in Instr /\ e[n] \in Instr BY <1>2, <2>2
  <2>4. e[n - 1][2] \in Int /\ e[n][2] \in Int BY <1>4, <2>3, OperandFacts
  <2> DEFINE i == <<"ADD2", e[n - 1][2], e[n][2]>>
             b == SubSeq(e, 1, n - 2)
  <2>5. Plain(i) BY <2>4, InstrFacts
  <2>6. b \in Seq(Instr) /\ Len(b) = n - 2 /\ \A k \in 1..(n - 2) : b[k] = e[k]
    <3>1. n - 2 \in 0..Len(e) BY <1>1, <1>2, <2>1
    <3>2. \A s \in Seq(Instr) : \A m \in 0..Len(s) :
            SubSeq(s, 1, m) \in Seq(Instr) /\ Len(SubSeq(s, 1, m)) = m
            /\ \A k \in 1..m : SubSeq(s, 1, m)[k] = s[k]
      OBVIOUS
    <3> QED BY <1>2, <3>1, <3>2
  <2>7. EmitSum(e) = Append(b, i) BY <1>4 DEF EmitSum, Op
  <2> HIDE DEF i, b
  <2> DEFINE r == Append(b, i)
  <2>8. r \in Seq(Instr) /\ Len(r) = n - 1 /\ r[n - 1] = i /\ \A k \in 1..(n - 2) : r[k] = e[k]
    BY <1>2, <2>5, <2>6 DEF Plain
  <2> HIDE DEF r
  <2>9. i # Nop /\ i[1] \notin Jumps /\ i[1] # "LOAD_LOCAL" BY <2>5 DEF Plain, i
  <2>10. \A k \in 1..Len(c) : r[k] = c[k] BY <1>1, <1>2, <1>3, <2>1, <2>8 DEF Continues
  <2>11. \A k \in (Len(c) + 1)..Len(r) :
          r[k] # Nop /\ (r[k][1] \in Jumps => r[k][2] <= Len(r))
    <3> SUFFICES ASSUME NEW k \in (Len(c) + 1)..Len(r)
                 PROVE  r[k] # Nop /\ (r[k][1] \in Jumps => r[k][2] <= Len(r))
      OBVIOUS
    <3>1. CASE k = n - 1 BY <2>8, <2>9, <3>1
    <3>2. CASE k # n - 1
      <4>1. k \in 1..(n - 2) /\ k \in (Len(c) + 1)..Len(d) /\ k \in 1..Len(d)
        BY <1>2, <2>1, <2>8, <3>2
      <4>2. r[k] = d[k] BY <1>1, <2>8, <4>1 DEF Continues
      <4> QED BY <1>1, <2>1, <2>8, <4>1, <4>2 DEF Continues
    <3> QED BY <3>1, <3>2
  <2>12. Continues(c, r, {}) BY <1>1, <1>2, <2>1, <2>8, <2>10, <2>11 DEF Continues
  <2>13. Pushes(c, r) BY <1>1, <1>2, <2>1, <2>8, <2>9, <2>12 DEF Pushes
  <2> QED BY <2>7, <2>13 DEF r
<1>5. CASE ~ (e[n - 1][1] = "LOAD_LOCAL" /\ e[n][1] = "LOAD_LOCAL")
  <2>1. EmitSum(e) = Append(e, <<"ADD">>) BY <1>5 DEF EmitSum, Op
  <2>2. Plain(<<"ADD">>) /\ <<"ADD">>[1] # "LOAD_LOCAL" BY InstrFacts
  <2> DEFINE i == <<"ADD">>
  <2>3. i \in Instr /\ i # Nop /\ i[1] \notin Jumps BY <2>2 DEF Plain
  <2>4. Continues(c, Append(e, i), {}) /\ Len(Append(e, i)) = n + 1 /\ Append(e, i)[n + 1] = i
    <3> HIDE DEF i
    <3>1. Continues(c, Append(e, i), {}) BY <1>3, <2>3, AppendOne
    <3>2. Len(Append(e, i)) = n + 1 /\ Append(e, i)[n + 1] = i BY <1>2, <2>3
    <3> QED BY <3>1, <3>2
  <2> QED BY <1>1, <1>2, <2>1, <2>2, <2>4 DEF Pushes
<1> QED BY <1>4, <1>5

\* The jump at the end of p, once patched, is not a load.
LEMMA NoLoadsAfterJump ==
  ASSUME NEW c \in Seq(Instr), NEW p \in Seq(Instr), NEW a, NEW off \in Nat,
         NEW i \in Instr, i # Nop, i[1] # "LOAD_LOCAL", i[2] <= Len(a),
         Len(p) = off + 1, off >= Len(c), Pushes(p, a), Continues(c, a, {off})
  PROVE  Pushes(c, Patch(a, off, i))
<1> DEFINE r == Patch(a, off, i)
<1>0. Continues(c, r, {off} \ {off}) BY PatchOne
<1>1. /\ Continues(c, r, {off} \ {off}) /\ Len(r) = Len(a)
      /\ \A k \in 1..Len(a) : r[k] = IF k = off + 1 THEN i ELSE a[k]
  <2>1. a \in Seq(Instr) BY DEF Continues
  <2> QED BY <1>0, <2>1, PatchFacts
<1>2. Continues(c, r, {}) BY <1>1, More
<1> HIDE DEF r
<1>4. Len(a) \in Nat /\ Len(c) \in Nat /\ Len(a) > off + 1 BY DEF Pushes, Continues
<1>5. ~ (r[Len(r) - 1][1] = "LOAD_LOCAL" /\ r[Len(r)][1] = "LOAD_LOCAL")
  <2>1. Len(a) - 1 \in 1..Len(a) /\ Len(a) \in 1..Len(a) /\ Len(a) # off + 1 BY <1>4
  <2>2. CASE Len(a) - 1 = off + 1 BY <1>1, <2>1, <2>2
  <2>3. CASE Len(a) - 1 # off + 1
    <3>1. Len(a) > Len(p) + 1 BY <1>4, <2>3
    <3>2. ~ (a[Len(a) - 1][1] = "LOAD_LOCAL" /\ a[Len(a)][1] = "LOAD_LOCAL")
      BY <3>1 DEF Pushes
    <3> QED BY <1>1, <2>1, <2>3, <3>2
  <2> QED BY <2>2, <2>3
<1>6. Pushes(c, r) BY <1>1, <1>2, <1>4, <1>5 DEF Pushes
<1> QED BY <1>6 DEF r

LEMMA PushShortCut ==
  ASSUME NEW c \in Seq(Instr), NEW l, NEW a, NEW op \in Jumps,
         Pushes(c, l), Pushes(Append(l, Nop), a)
  PROVE  Pushes(c, Patch(a, Len(l), <<op, Offset(a)>>))
<1> DEFINE p == Append(l, Nop)
<1>1. Continues(c, l, {}) /\ Len(l) > Len(c) /\ Nop \in Instr /\ Nop[1] \notin Jumps
  BY InstrFacts DEF Pushes
<1>2. Len(c) \in Nat /\ Len(l) \in Nat /\ l \in Seq(Instr) BY <1>1 DEF Continues
<1>3. p \in Seq(Instr) /\ Len(p) = Len(l) + 1 BY <1>1, <1>2
<1>4. Continues(c, p, {} \cup {Len(l)}) BY <1>1, AppendOne
<1> HIDE DEF p
<1>5. Pushes(p, a) /\ Continues(p, a, {}) BY DEF Pushes, p
<1>6. Continues(c, a, ({} \cup {Len(l)}) \cup {}) BY <1>4, <1>5, Together
<1>7. Continues(c, a, {Len(l)}) BY <1>6, More
<1>8. Len(a) \in Nat BY <1>7 DEF Continues
<1>9. Offset(a) \in Int /\ Offset(a) <= Len(a) BY <1>8, OffsetFacts
<1>10. Len(l) >= Len(c) BY <1>1, <1>2
<1> DEFINE off == Len(l)
<1>11. off \in Nat /\ Len(p) = off + 1 /\ off >= Len(c) /\ Continues(c, a, {off})
  BY <1>2, <1>3, <1>7, <1>10
<1> DEFINE i == <<op, Offset(a)>>
<1>12. i \in Instr /\ i # Nop /\ i[1] # "LOAD_LOCAL" /\ i[2] <= Len(a)
  BY <1>9, JumpFacts
<1> HIDE DEF off, i
<1>13. Pushes(c, Patch(a, off, i)) BY <1>3, <1>5, <1>11, <1>12, NoLoadsAfterJump
<1> QED BY <1>13 DEF off, i

LEMMA PushBranch ==
  ASSUME NEW c \in Seq(Instr), NEW t, NEW y, NEW yes, NEW p, NEW no,
         Pushes(c, t), Pushes(Append(t, Nop), y), yes = Append(y, Nop),
         p = Patch(yes, Len(t), <<"JUMP_IF_FALSE", Offset(yes)>>), Pushes(p, no)
  PROVE  p \in Seq(Instr) /\ Pushes(c, Patch(no, Len(yes) - 1, <<"JUMP", Offset(no)>>))
<1> DEFINE q == Append(t, Nop)
           z == Append(y, Nop)
<1>1. Continues(c, t, {}) /\ Len(t) > Len(c) /\ Nop \in Instr /\ Nop[1] \notin Jumps
  BY InstrFacts DEF Pushes
<1>2. Len(c) \in Nat /\ Len(t) \in Nat /\ t \in Seq(Instr) BY <1>1 DEF Continues
<1>3. q \in Seq(Instr) /\ Len(q) = Len(t) + 1 BY <1>1, <1>2
<1>4. Continues(c, q, {} \cup {Len(t)}) BY <1>1, AppendOne
<1> HIDE DEF q
<1>5. Continues(q, y, {}) /\ Len(y) > Len(q) BY DEF Pushes, q
<1>6. Continues(c, y, ({} \cup {Len(t)}) \cup {}) BY <1>4, <1>5, Together
<1>7. Len(y) \in Nat /\ y \in Seq(Instr) BY <1>5 DEF Continues
<1>8. Continues(c, z, (({} \cup {Len(t)}) \cup {}) \cup {Len(y)}) BY <1>1, <1>6, AppendOne
<1>9. z \in Seq(Instr) /\ Len(z) = Len(y) + 1 BY <1>1, <1>7
<1> HIDE DEF z
<1>10. Continues(c, z, {Len(t), Len(y)}) BY <1>8, More
<1>11. Offset(z) \in Int /\ Offset(z) <= Len(z) BY <1>7, <1>9, OffsetFacts
<1>12. Len(t) >= Len(c) /\ Len(t) \in Nat BY <1>1, <1>2
<1> DEFINE o == Patch(z, Len(t), <<"JUMP_IF_FALSE", Offset(z)>>)
<1>13. Continues(c, o, {Len(t), Len(y)} \ {Len(t)}) /\ Len(o) = Len(z)
  <2> DEFINE off == Len(t)
             i == <<"JUMP_IF_FALSE", Offset(z)>>
  <2>1. i \in Instr /\ i # Nop /\ i[2] <= Len(z) BY <1>11, JumpNames, JumpFacts
  <2>2. off \in Nat /\ off >= Len(c) BY <1>12
  <2> HIDE DEF off, i
  <2>3. Continues(c, Patch(z, off, i), {Len(t), Len(y)} \ {off})
    BY <1>10, <2>1, <2>2, PatchOne
  <2>4. Len(Patch(z, off, i)) = Len(z) BY <1>9, <2>1, <2>2, PatchFacts
  <2> QED BY <2>3, <2>4 DEF off, i
<1>14. p = o BY DEF z
<1> HIDE DEF o
<1>15. Continues(c, o, {Len(y)}) BY <1>13, More
<1>16. o \in Seq(Instr) /\ Len(o) = Len(y) + 1 BY <1>9, <1>13 DEF Continues
<1>17. Pushes(o, no) /\ Continues(o, no, {}) BY <1>14 DEF Pushes
<1>18. Continues(c, no, {Len(y)} \cup {}) BY <1>15, <1>17, Together
<1>19. Continues(c, no, {Len(y)}) BY <1>18, More
<1>20. Len(no) \in Nat BY <1>19 DEF Continues
<1>21. Offset(no) \in Int /\ Offset(no) <= Len(no) BY <1>20, OffsetFacts
<1> DEFINE off == Len(y)
<1>22. off \in Nat /\ off >= Len(c) /\ Len(o) = off + 1 /\ Continues(c, no, {off})
  BY <1>1, <1>2, <1>3, <1>5, <1>7, <1>16, <1>19
<1>23. Len(yes) - 1 = off BY <1>7, <1>9 DEF z
<1> HIDE DEF off
<1>24. Pushes(c, Patch(no, off, <<"JUMP", Offset(no)>>))
  <2> DEFINE i == <<"JUMP", Offset(no)>>
  <2>1. i \in Instr /\ i # Nop /\ i[1] # "LOAD_LOCAL" /\ i[2] <= Len(no)
    BY <1>21, JumpNames, JumpFacts
  <2> HIDE DEF i
  <2>2. Pushes(c, Patch(no, off, i)) BY <1>16, <1>17, <1>22, <2>1, NoLoadsAfterJump
  <2> QED BY <2>2 DEF i
<1> QED BY <1>14, <1>16, <1>23, <1>24

\* What Compiled says at x, of a function g that gives the code of the parts.
PartCode(g, x, d, i) == g[<<d, x[2].of[i]>>]

ShortCutCode(g, x, op) ==
  LET left == PartCode(g, x, x[1], 1)
      all  == PartCode(g, x, Append(left, Nop), 2)
  IN  Patch(all, Len(left), <<op, Offset(all)>>)

BranchCode(g, x) ==
  LET test == PartCode(g, x, x[1], 1)
      yes  == Append(PartCode(g, x, Append(test, Nop), 2), Nop)
      no   == PartCode(g, x, Patch(yes, Len(test), <<"JUMP_IF_FALSE", Offset(yes)>>), 3)
  IN  Patch(no, Len(yes) - 1, <<"JUMP", Offset(no)>>)

Code(g, x) ==
  CASE x[2].op = "var"  -> Append(x[1], <<"LOAD_LOCAL", Slot(x[2].name)>>)
    [] x[2].op = "nil"  -> Append(x[1], <<"PUSH_NIL">>)
    [] x[2].op = "and"  -> ShortCutCode(g, x, "JUMP_IF_FALSE_OR_POP")
    [] x[2].op = "or"   -> ShortCutCode(g, x, "JUMP_IF_TRUE_OR_POP")
    [] x[2].op = "sum"  -> EmitSum(PartCode(g, x, PartCode(g, x, x[1], 1), 2))
    [] x[2].op = "call" -> Append(PartCode(g, x, x[1], 1), <<"CALL">>)
    [] x[2].op = "if"   -> BranchCode(g, x)

Sources == Seq(Instr) \X Expr

LEMMA CompiledDef ==
  ASSUME NEW c, NEW e
  PROVE  Compiled(c, e) = (CHOOSE g : g = [x \in Sources |-> Code(g, x)])[<<c, e>>]
BY DEF Compiled, Code, PartCode, ShortCutCode, BranchCode, Sources

LEMMA CodeCases ==
  ASSUME NEW g, NEW x
  PROVE  /\ x[2].op = "var" => Code(g, x) = Append(x[1], <<"LOAD_LOCAL", Slot(x[2].name)>>)
         /\ x[2].op = "nil" => Code(g, x) = Append(x[1], <<"PUSH_NIL">>)
         /\ x[2].op = "and" => Code(g, x) = ShortCutCode(g, x, "JUMP_IF_FALSE_OR_POP")
         /\ x[2].op = "or" => Code(g, x) = ShortCutCode(g, x, "JUMP_IF_TRUE_OR_POP")
         /\ x[2].op = "sum" =>
              Code(g, x) = EmitSum(PartCode(g, x, PartCode(g, x, x[1], 1), 2))
         /\ x[2].op = "call" => Code(g, x) = Append(PartCode(g, x, x[1], 1), <<"CALL">>)
         /\ x[2].op = "if" => Code(g, x) = BranchCode(g, x)
<1>1. x[2].op = "var" => Code(g, x) = Append(x[1], <<"LOAD_LOCAL", Slot(x[2].name)>>)
  BY Zenon DEF Code
<1>2. x[2].op = "nil" => Code(g, x) = Append(x[1], <<"PUSH_NIL">>) BY Zenon DEF Code
<1>3. x[2].op = "and" => Code(g, x) = ShortCutCode(g, x, "JUMP_IF_FALSE_OR_POP")
  BY Zenon DEF Code
<1>4. x[2].op = "or" => Code(g, x) = ShortCutCode(g, x, "JUMP_IF_TRUE_OR_POP")
  BY Zenon DEF Code
<1>5. x[2].op = "sum" => Code(g, x) = EmitSum(PartCode(g, x, PartCode(g, x, x[1], 1), 2))
  BY Zenon DEF Code
<1>6. x[2].op = "call" => Code(g, x) = Append(PartCode(g, x, x[1], 1), <<"CALL">>)
  BY Zenon DEF Code
<1>7. x[2].op = "if" => Code(g, x) = BranchCode(g, x) BY Zenon DEF Code
<1> QED BY <1>1, <1>2, <1>3, <1>4, <1>5, <1>6, <1>7

\* y is the code before a part of the expression of x, and that part.
Part(y, x) == x[2].op # "var" /\ \E i \in DOMAIN x[2].of : y[2] = x[2].of[i]

LEMMA PartsFirst ==
  ASSUME NEW S \in SUBSET Sources, S # {}
  PROVE  \E x \in S : \A y \in S : ~ Part(y, x)
<1> DEFINE E == {x[2] : x \in S}
<1>1. E \in (SUBSET Expr) \ {{}}
  <2>1. \A x \in S : x[2] \in Expr BY DEF Sources
  <2>2. E \subseteq Expr /\ E # {} BY <2>1
  <2> QED BY <2>2
<1>2. PICK e \in E : e.op = "var" \/ \A i \in DOMAIN e.of : e.of[i] \notin E
  <2> HIDE DEF E
  <2> QED BY <1>1, ExprAssumption
<1>3. PICK x \in S : x[2] = e OBVIOUS
<1>4. \A y \in S : y[2] \in E OBVIOUS
<1> HIDE DEF E
<1> QED BY <1>2, <1>3, <1>4 DEF Part

LEMMA PartFacts ==
  ASSUME NEW x \in Sources
  PROVE  /\ x[1] \in Seq(Instr)
         /\ x[2].op \in {"var", "nil", "and", "or", "sum", "call", "if"}
         /\ x[2].op \in {"and", "or", "sum", "call", "if"} =>
              \A d \in Seq(Instr) : <<d, x[2].of[1]>> \in Sources /\ Part(<<d, x[2].of[1]>>, x)
         /\ x[2].op \in {"and", "or", "sum", "if"} =>
              \A d \in Seq(Instr) : <<d, x[2].of[2]>> \in Sources /\ Part(<<d, x[2].of[2]>>, x)
         /\ x[2].op = "if" =>
              \A d \in Seq(Instr) : <<d, x[2].of[3]>> \in Sources /\ Part(<<d, x[2].of[3]>>, x)
<1> DEFINE e == x[2]
<1>1. x[1] \in Seq(Instr) /\ e \in Expr BY DEF Sources
<1> HIDE DEF e
<1>2. \/ e.op = "var" /\ e.name \in Name
      \/ e.op = "nil" /\ e.of = <<>>
      \/ e.op = "call" /\ \E d \in Expr : e.of = <<d>>
      \/ e.op \in {"and", "or", "sum"} /\ e.of \in Expr \X Expr
      \/ e.op = "if" /\ e.of \in Expr \X Expr \X Expr
  BY <1>1, ExprAssumption
<1>3. e.op \in {"var", "nil", "and", "or", "sum", "call", "if"} BY <1>2
<1>4. e.op \in {"and", "or", "sum", "call", "if"} =>
        e.op # "var" /\ 1 \in DOMAIN e.of /\ e.of[1] \in Expr
  BY <1>2
<1>5. e.op \in {"and", "or", "sum", "if"} =>
        e.op # "var" /\ 2 \in DOMAIN e.of /\ e.of[2] \in Expr
  BY <1>2
<1>6. e.op = "if" => e.op # "var" /\ 3 \in DOMAIN e.of /\ e.of[3] \in Expr
  BY <1>2
<1>7. \A i, d : e.op # "var" /\ i \in DOMAIN e.of /\ e.of[i] \in Expr /\ d \in Seq(Instr) =>
        <<d, e.of[i]>> \in Sources /\ Part(<<d, e.of[i]>>, x)
  BY DEF Sources, Part, e
<1>8. e = x[2] BY DEF e
<1> QED BY <1>1, <1>3, <1>4, <1>5, <1>6, <1>7, <1>8

LEMMA CodeIsLocal ==
  ASSUME NEW x \in Sources, NEW g, NEW h,
         \A y \in Sources : Part(y, x) => g[y] \in Seq(Instr) /\ h[y] = g[y]
  PROVE  Code(g, x) = Code(h, x)
<1> DEFINE E == x[2]
<1>1. /\ x[1] \in Seq(Instr) /\ Nop \in Instr
      /\ \A i \in Instr, d \in Seq(Instr) : Append(d, i) \in Seq(Instr)
  BY PartFacts, InstrFacts
<1>2. ASSUME NEW i, NEW d, <<d, E.of[i]>> \in Sources, Part(<<d, E.of[i]>>, x)
      PROVE  PartCode(h, x, d, i) = PartCode(g, x, d, i) /\ PartCode(g, x, d, i) \in Seq(Instr)
  BY <1>2 DEF PartCode
<1>3. E.op \in {"var", "nil"} => Code(g, x) = Code(h, x) BY CodeCases
<1>4. E.op \in {"and", "or", "sum", "call", "if"} =>
        \A d \in Seq(Instr) :
          PartCode(h, x, d, 1) = PartCode(g, x, d, 1) /\ PartCode(g, x, d, 1) \in Seq(Instr)
  BY <1>2, PartFacts
<1>5. E.op \in {"and", "or", "sum", "if"} =>
        \A d \in Seq(Instr) :
          PartCode(h, x, d, 2) = PartCode(g, x, d, 2) /\ PartCode(g, x, d, 2) \in Seq(Instr)
  BY <1>2, PartFacts
<1>6. E.op = "if" =>
        \A d \in Seq(Instr) :
          PartCode(h, x, d, 3) = PartCode(g, x, d, 3) /\ PartCode(g, x, d, 3) \in Seq(Instr)
  BY <1>2, PartFacts
<1>7. CASE E.op = "call"
  <2>1. PartCode(h, x, x[1], 1) = PartCode(g, x, x[1], 1) BY <1>1, <1>4, <1>7
  <2>2. /\ Code(g, x) = Append(PartCode(g, x, x[1], 1), <<"CALL">>)
        /\ Code(h, x) = Append(PartCode(h, x, x[1], 1), <<"CALL">>)
    BY <1>7, CodeCases
  <2> QED BY <2>1, <2>2
<1>8. CASE E.op = "sum"
  <2>1. PartCode(h, x, x[1], 1) = PartCode(g, x, x[1], 1) /\ PartCode(g, x, x[1], 1) \in Seq(Instr)
    BY <1>1, <1>4, <1>8
  <2>2. PartCode(h, x, PartCode(g, x, x[1], 1), 2) = PartCode(g, x, PartCode(g, x, x[1], 1), 2)
    BY <1>5, <1>8, <2>1
  <2> QED BY <1>8, <2>1, <2>2, CodeCases
<1>9. CASE E.op \in {"and", "or"}
  <2> DEFINE left == PartCode(g, x, x[1], 1)
             all == PartCode(g, x, Append(left, Nop), 2)
  <2>1. PartCode(h, x, x[1], 1) = left /\ left \in Seq(Instr) BY <1>1, <1>4, <1>9
  <2>2. Append(left, Nop) \in Seq(Instr) BY <1>1, <2>1
  <2>3. PartCode(h, x, Append(left, Nop), 2) = all BY <1>5, <1>9, <2>2
  <2>4. \A op : ShortCutCode(g, x, op) = ShortCutCode(h, x, op)
    BY <2>1, <2>3 DEF ShortCutCode
  <2> QED BY <1>9, <2>4, CodeCases
<1>10. CASE E.op = "if"
  <2> DEFINE test == PartCode(g, x, x[1], 1)
             mid  == PartCode(g, x, Append(test, Nop), 2)
             yes  == Append(mid, Nop)
             skip == Patch(yes, Len(test), <<"JUMP_IF_FALSE", Offset(yes)>>)
             no   == PartCode(g, x, skip, 3)
  <2>1. PartCode(h, x, x[1], 1) = test /\ test \in Seq(Instr) BY <1>1, <1>4, <1>10
  <2>2. Append(test, Nop) \in Seq(Instr) BY <1>1, <2>1
  <2>3. PartCode(h, x, Append(test, Nop), 2) = mid /\ mid \in Seq(Instr)
    BY <1>5, <1>10, <2>2
  <2>4. skip \in Seq(Instr)
    <3>1. yes \in Seq(Instr) BY <1>1, <2>3
    <3>2. Len(yes) \in Nat /\ Len(test) \in Nat BY <2>1, <3>1
    <3>3. <<"JUMP_IF_FALSE", Offset(yes)>> \in Instr
      BY <3>2, OffsetFacts, JumpNames, JumpFacts
    <3> HIDE DEF yes, test
    <3> QED BY <3>1, <3>2, <3>3, PatchFacts
  <2>5. PartCode(h, x, skip, 3) = no
    <3> HIDE DEF skip
    <3> QED BY <1>6, <1>10, <2>4
  <2>6. BranchCode(g, x) = Patch(no, Len(yes) - 1, <<"JUMP", Offset(no)>>) BY DEF BranchCode
  <2>7. BranchCode(h, x) = Patch(no, Len(yes) - 1, <<"JUMP", Offset(no)>>)
    BY Zenon, <2>1, <2>3, <2>5 DEF BranchCode
  <2> QED BY <1>10, <2>6, <2>7, CodeCases
<1> QED BY <1>3, <1>7, <1>8, <1>9, <1>10, PartFacts

LEMMA CodePushes ==
  ASSUME Len(symbols) \in Nat, NEW x \in Sources, NEW g,
         \A y \in Sources : Part(y, x) => Pushes(y[1], g[y])
  PROVE  Pushes(x[1], Code(g, x))
<1> DEFINE E == x[2]
<1>1. /\ x[1] \in Seq(Instr) /\ Nop \in Instr
      /\ \A i \in Instr, d \in Seq(Instr) : Append(d, i) \in Seq(Instr)
  BY PartFacts, InstrFacts
<1>2. \A c, d : Pushes(c, d) => d \in Seq(Instr) BY DEF Pushes, Continues
<1>3. ASSUME NEW i, NEW d, <<d, E.of[i]>> \in Sources, Part(<<d, E.of[i]>>, x)
      PROVE  Pushes(d, PartCode(g, x, d, i))
  <2>1. Pushes(<<d, E.of[i]>>[1], g[<<d, E.of[i]>>]) BY <1>3
  <2> QED BY <2>1 DEF PartCode
<1>4. E.op \in {"and", "or", "sum", "call", "if"} =>
        \A d \in Seq(Instr) : Pushes(d, PartCode(g, x, d, 1))
  BY <1>3, PartFacts
<1>5. E.op \in {"and", "or", "sum", "if"} =>
        \A d \in Seq(Instr) : Pushes(d, PartCode(g, x, d, 2))
  BY <1>3, PartFacts
<1>6. E.op = "if" => \A d \in Seq(Instr) : Pushes(d, PartCode(g, x, d, 3))
  BY <1>3, PartFacts
<1>7. CASE E.op = "var"
  <2> DEFINE i == <<"LOAD_LOCAL", Slot(E.name)>>
  <2>1. Slot(E.name) \in Int BY SlotFacts
  <2>2. Plain(i) BY <2>1, InstrFacts
  <2>3. Code(g, x) = Append(x[1], i) BY <1>7, CodeCases
  <2> HIDE DEF i
  <2> QED BY <1>1, <2>2, <2>3, PushOne
<1>8. CASE E.op = "nil"
  <2> DEFINE i == <<"PUSH_NIL">>
  <2>2. Plain(i) BY InstrFacts
  <2>3. Code(g, x) = Append(x[1], i) BY <1>8, CodeCases
  <2> HIDE DEF i
  <2> QED BY <1>1, <2>2, <2>3, PushOne
<1>9. CASE E.op = "call"
  <2> DEFINE i == <<"CALL">>
  <2>1. Plain(i) /\ i[1] # "LOAD_LOCAL" BY InstrFacts
  <2>2. Pushes(x[1], PartCode(g, x, x[1], 1)) BY <1>1, <1>4, <1>9
  <2>3. Code(g, x) = Append(PartCode(g, x, x[1], 1), i) BY <1>9, CodeCases
  <2> HIDE DEF i
  <2> QED BY <1>1, <2>1, <2>2, <2>3, PushOneMore
<1>10. CASE E.op = "sum"
  <2>1. Pushes(x[1], PartCode(g, x, x[1], 1)) BY <1>1, <1>4, <1>10
  <2>2. Pushes(PartCode(g, x, x[1], 1), PartCode(g, x, PartCode(g, x, x[1], 1), 2))
    BY <1>2, <1>5, <1>10, <2>1
  <2>3. Code(g, x) = EmitSum(PartCode(g, x, PartCode(g, x, x[1], 1), 2)) BY <1>10, CodeCases
  <2> QED BY <1>1, <2>1, <2>2, <2>3, PushSum
<1>11. ASSUME E.op \in {"and", "or"}, NEW op \in Jumps
       PROVE  Pushes(x[1], ShortCutCode(g, x, op))
  <2> DEFINE left == PartCode(g, x, x[1], 1)
             all == PartCode(g, x, Append(left, Nop), 2)
  <2>1. Pushes(x[1], left) BY <1>1, <1>4, <1>11
  <2>2. Append(left, Nop) \in Seq(Instr) BY <1>1, <1>2, <2>1
  <2>3. Pushes(Append(left, Nop), all) BY <1>5, <1>11, <2>2
  <2>4. ShortCutCode(g, x, op) = Patch(all, Len(left), <<op, Offset(all)>>)
    BY DEF ShortCutCode
  <2> HIDE DEF left, all
  <2> QED BY <1>1, <2>1, <2>3, <2>4, PushShortCut
<1>12. CASE E.op \in {"and", "or"} BY <1>11, <1>12, JumpNames, CodeCases
<1>13. CASE E.op = "if"
  <2> DEFINE test == PartCode(g, x, x[1], 1)
             mid  == PartCode(g, x, Append(test, Nop), 2)
             yes  == Append(mid, Nop)
             skip == Patch(yes, Len(test), <<"JUMP_IF_FALSE", Offset(yes)>>)
             no   == PartCode(g, x, skip, 3)
  <2>1. Pushes(x[1], test) BY <1>1, <1>4, <1>13
  <2>2. Append(test, Nop) \in Seq(Instr) BY <1>1, <1>2, <2>1
  <2>3. Pushes(Append(test, Nop), mid) BY <1>5, <1>13, <2>2
  <2>4. skip \in Seq(Instr)
    <3>1. yes \in Seq(Instr) BY <1>1, <1>2, <2>3
    <3>2. Len(yes) \in Nat /\ Len(test) \in Nat BY <1>2, <2>1, <3>1
    <3>3. <<"JUMP_IF_FALSE", Offset(yes)>> \in Instr
      BY <3>2, OffsetFacts, JumpNames, JumpFacts
    <3> HIDE DEF yes, test
    <3> QED BY <3>1, <3>2, <3>3, PatchFacts
  <2>5. Pushes(skip, no)
    <3> HIDE DEF skip
    <3> QED BY <1>6, <1>13, <2>4
  <2>6. BranchCode(g, x) = Patch(no, Len(yes) - 1, <<"JUMP", Offset(no)>>) BY DEF BranchCode
  <2>7. yes = Append(mid, Nop)
        /\ skip = Patch(yes, Len(test), <<"JUMP_IF_FALSE", Offset(yes)>>)
    OBVIOUS
  <2>8. Code(g, x) = BranchCode(g, x) BY <1>13, CodeCases
  <2> HIDE DEF test, mid, yes, skip, no
  <2> QED BY <1>1, <2>1, <2>3, <2>5, <2>6, <2>7, <2>8, PushBranch
<1> QED BY <1>7, <1>8, <1>9, <1>10, <1>12, <1>13, PartFacts

(***************************************************************************)
(* The code of an expression, whatever the expression and however deep:    *)
(* it follows the code before it, of which nothing is changed (the sum of  *)
(* two loads is rewritten, but never a load that was there before), no NOP *)
(* in it is left unpatched, its jumps land in it or at its end, and it     *)
(* does not end in two loads, so that the ADD of an enclosing sum finds    *)
(* only the loads of its own operands (compile_expr, emit_add_instr).      *)
(***************************************************************************)
THEOREM ExpressionsCompiled ==
  ASSUME Len(symbols) \in Nat, NEW c \in Seq(Instr), NEW e \in Expr
  PROVE  Pushes(c, Compiled(c, e))
<1> DEFINE U == Seq(Instr)
           R == {p \in Sources \X Sources : Part(p[1], p[2])}
           T == [x \in Sources |-> {r \in U : Pushes(x[1], r)}]
           F == [p \in [Sources -> U] \X Sources |-> Code(p[1], p[2])]
<1>1. \A x, y \in Sources : <<y, x>> \in R <=> Part(y, x) OBVIOUS
<1>2. \A x \in Sources : \A r : r \in T[x] <=> r \in U /\ Pushes(x[1], r) OBVIOUS
<1>3. \A g \in [Sources -> U], x \in Sources : F[<<g, x>>] = Code(g, x) OBVIOUS
<1>4. \A d, r : Pushes(d, r) => r \in U BY DEF Pushes, Continues
<1>5. \A S \in SUBSET Sources : S # {} => \E x \in S : \A y \in S : <<y, x>> \notin R
  <2> SUFFICES ASSUME NEW S \in SUBSET Sources, S # {}
               PROVE  \E x \in S : \A y \in S : <<y, x>> \notin R
    OBVIOUS
  <2>1. PICK x \in S : \A y \in S : ~ Part(y, x) BY PartsFirst
  <2> QED BY <1>1, <2>1
<1>6. \A x \in Sources : T[x] \subseteq U /\ T[x] # {}
  <2> SUFFICES ASSUME NEW x \in Sources PROVE T[x] \subseteq U /\ T[x] # {} OBVIOUS
  <2>1. x[1] \in Seq(Instr) BY PartFacts
  <2>2. Plain(<<"PUSH_NIL">>) BY InstrFacts
  <2>3. Pushes(x[1], Append(x[1], <<"PUSH_NIL">>)) BY <2>1, <2>2, PushOne
  <2> HIDE DEF T, U
  <2> QED BY <1>2, <1>4, <2>3
<1>7. ASSUME NEW g \in [Sources -> U], NEW x \in Sources, \A y \in Sources : g[y] \in T[y]
      PROVE  F[<<g, x>>] \in T[x]
  <2>1. \A y \in Sources : Pushes(y[1], g[y]) BY <1>2, <1>7
  <2>2. Pushes(x[1], Code(g, x)) BY <2>1, CodePushes
  <2> HIDE DEF T, F, U
  <2> QED BY <1>2, <1>3, <1>4, <2>2
<1>8. ASSUME NEW g \in [Sources -> U], NEW h \in [Sources -> U], NEW x \in Sources,
             \A y \in Sources : g[y] \in T[y],
             \A y \in Sources : <<y, x>> \in R => g[y] = h[y]
      PROVE  F[<<g, x>>] = F[<<h, x>>]
  <2>1. \A y \in Sources : Part(y, x) => g[y] \in Seq(Instr) /\ h[y] = g[y]
    BY <1>1, <1>8
  <2>2. Code(g, x) = Code(h, x) BY <2>1, CodeIsLocal
  <2> HIDE DEF F, U
  <2> QED BY <1>3, <2>2
<1>9. PICK g \in [Sources -> U] : \A x \in Sources : g[x] \in T[x] /\ g[x] = F[<<g, x>>]
  <2> HIDE DEF U, R, T, F
  <2>1. \A k \in [Sources -> U] : \A x \in Sources :
          (\A y \in Sources : k[y] \in T[y]) => F[<<k, x>>] \in T[x]
    BY <1>7
  <2>2. \A k, h \in [Sources -> U] : \A x \in Sources :
          /\ \A y \in Sources : k[y] \in T[y]
          /\ \A y \in Sources : h[y] \in T[y]
          /\ \A y \in Sources : <<y, x>> \in R => k[y] = h[y]
          => F[<<k, x>>] = F[<<h, x>>]
    BY <1>8
  <2>3. Recurses(Sources, R, U, T, F) BY Zenon, <1>5, <1>6, <2>1, <2>2 DEF Recurses
  <2> QED BY <2>3, Recursion
<1>10. \A x \in Sources : g[x] = Code(g, x) /\ Pushes(x[1], g[x]) /\ g[x] \in Seq(Instr)
  BY <1>2, <1>3, <1>9
<1> DEFINE h == CHOOSE k : k = [x \in Sources |-> Code(k, x)]
<1>11. h = [x \in Sources |-> Code(h, x)]
  <2>1. g = [x \in Sources |-> Code(g, x)]
    <3> HIDE DEF T, F
    <3> QED BY <1>9, <1>10
  <2> QED BY <2>1
<1> HIDE DEF h, R, T, F
<1>12. \A x \in Sources : h[x] = Code(h, x) BY <1>11
<1>13. \A x \in Sources : h[x] = g[x]
  <2> DEFINE W == {x \in Sources : h[x] # g[x]}
  <2> SUFFICES ASSUME W # {} PROVE FALSE OBVIOUS
  <2>1. W \in SUBSET Sources OBVIOUS
  <2>2. PICK x \in W : \A y \in W : ~ Part(y, x)
    <3> HIDE DEF W
    <3> QED BY <2>1, PartsFirst
  <2>3. x \in Sources /\ h[x] # g[x] OBVIOUS
  <2>4. \A y \in Sources : Part(y, x) => g[y] \in Seq(Instr) /\ h[y] = g[y]
    BY <1>10, <2>2
  <2> HIDE DEF W
  <2>5. Code(g, x) = Code(h, x) BY <2>3, <2>4, CodeIsLocal
  <2> QED BY <1>10, <1>12, <2>3, <2>5
<1>14. <<c, e>> \in Sources /\ <<c, e>>[1] = c BY DEF Sources
<1>15. Compiled(c, e) = h[<<c, e>>] BY CompiledDef DEF h
<1>16. Pushes(<<c, e>>[1], g[<<c, e>>]) BY <1>10, <1>14
<1> QED BY <1>13, <1>14, <1>15, <1>16

-----------------------------------------------------------------------------
(***************************************************************************)
(* The inductive invariant.                                                *)
(***************************************************************************)
Kinds == Blocks \cup {"if", "while", "rest", "ending"}
Block == [kind : Kinds, level : Nat, jump : Nat, from : Nat, test : Expr]
Loop == [off : Nat, level : Nat, inner : Nat, jumps : Seq(Nat)]
Sym == [name : Name, depth : Nat]

\* What is open: the body, and in it blocks and heads; the block of an if or a
\* while is right inside its head, and the head has nothing else in it.
Heads(blocks) ==
  /\ blocks \in Seq(Block) /\ Len(blocks) > 0
  /\ \A j \in DOMAIN blocks :
       /\ blocks[j].kind = "body" <=> j = 1
       /\ blocks[j].kind = "then" <=> j > 1 /\ blocks[j - 1].kind = "if"
       /\ blocks[j].kind = "do" <=> j > 1 /\ blocks[j - 1].kind = "while"

\* Each symbol is of the scope of a block, and each block began after the outer ones.
Nested(syms, blocks) ==
  /\ syms \in Seq(Sym)
  /\ \A i, j \in DOMAIN blocks : i <= j => blocks[i].level <= blocks[j].level
  /\ Last(blocks).level <= Len(syms)
  /\ \A i \in DOMAIN syms :
       syms[i].depth = Cardinality({j \in DOMAIN blocks : blocks[j].level < i})

LoopsIn(blocks) == {i \in DOMAIN blocks : blocks[i].kind \in {"loop", "while"}}

\* The offsets that a block, a head or a loop holds for its end to patch: a head
\* holds one when its block has begun or ended.
Awaits(blocks, j) ==
  \/ blocks[j].kind \in {"rest", "ending"}
  \/ blocks[j].kind \in {"if", "while"} /\ j < Len(blocks)
Holes(blocks, ls) ==
  {off \in Nat : \/ \E j \in DOMAIN blocks : Awaits(blocks, j) /\ blocks[j].jump = off
                 \/ \E k \in DOMAIN ls : \E m \in DOMAIN ls[k].jumps : ls[k].jumps[m] = off}

\* Every loop began in the code that there is.
Within(ls, n) == ls \in Seq(Loop) /\ \A k \in DOMAIN ls : ls[k].off <= n

\* Only what is held is yet to be patched; every other jump lands in the code, or at
\* its end, as the end of a loop will.
Targets(c, blocks, ls) == Continues(<<>>, c, Holes(blocks, ls)) /\ Within(ls, Len(c))

Compiling(c, syms, blocks, ls) ==
  /\ Heads(blocks) /\ Nested(syms, blocks)
  /\ Len(ls) = Cardinality(LoopsIn(blocks))
  /\ Targets(c, blocks, ls)

CompilerInv ==
  /\ status = "compiling" => scopeDepth = Len(open) /\ Compiling(code, symbols, open, loops)
  /\ Sealed

-----------------------------------------------------------------------------
(***************************************************************************)
(* What statements emit.                                                   *)
(***************************************************************************)
LEMMA SeqFacts ==
  ASSUME NEW S, NEW s \in Seq(S), Len(s) > 0
  PROVE  /\ Front(s) \in Seq(S) /\ Len(Front(s)) = Len(s) - 1 /\ Last(s) = s[Len(s)]
         /\ \A k \in 1..(Len(s) - 1) : Front(s)[k] = s[k]
         /\ Len(s) \in Nat /\ Len(s) \in 1..Len(s) /\ Last(s) \in S
<1>1. Len(s) \in Nat /\ Len(s) \in 1..Len(s) /\ Len(s) - 1 \in 0..Len(s) OBVIOUS
<1>2. \A m \in 0..Len(s) :
        SubSeq(s, 1, m) \in Seq(S) /\ Len(SubSeq(s, 1, m)) = m
        /\ \A k \in 1..m : SubSeq(s, 1, m)[k] = s[k]
  OBVIOUS
<1>3. Front(s) = SubSeq(s, 1, Len(s) - 1) /\ Last(s) = s[Len(s)] BY DEF Front, Last
<1>4. s[Len(s)] \in S BY <1>1
<1> QED BY <1>1, <1>2, <1>3, <1>4

LEMMA AppendFacts ==
  ASSUME NEW S, NEW s \in Seq(S), NEW e \in S
  PROVE  /\ Append(s, e) \in Seq(S) /\ Len(Append(s, e)) = Len(s) + 1 /\ Len(s) \in Nat
         /\ Append(s, e)[Len(s) + 1] = e /\ Last(Append(s, e)) = e
         /\ \A k \in 1..Len(s) : Append(s, e)[k] = s[k]
BY DEF Last

\* The last instruction is joined with what follows it.
LEMMA ReplaceLast ==
  ASSUME NEW c \in Seq(Instr), NEW d, NEW X, NEW i, Plain(i), Continues(c, d, X),
         Len(d) > Len(c)
  PROVE  Continues(c, Append(Front(d), i), X)
<1> DEFINE b == Front(d)
           e == Append(b, i)
<1>1. i \in Instr /\ i # Nop /\ i[1] \notin Jumps BY DEF Plain
<1>2. d \in Seq(Instr) /\ Len(c) \in Nat /\ Len(d) \in Nat BY DEF Continues
<1>3. b \in Seq(Instr) /\ Len(b) = Len(d) - 1 /\ \A k \in 1..(Len(d) - 1) : b[k] = d[k]
  BY <1>2, SeqFacts
<1> HIDE DEF b
<1>4. e \in Seq(Instr) /\ Len(e) = Len(d) /\ e[Len(d)] = i
      /\ \A k \in 1..(Len(d) - 1) : e[k] = d[k]
  <2>1. /\ e \in Seq(Instr) /\ Len(e) = Len(b) + 1 /\ e[Len(b) + 1] = i
        /\ \A k \in 1..Len(b) : e[k] = b[k]
    BY <1>1, <1>3, AppendFacts
  <2> HIDE DEF e
  <2>2. Len(b) + 1 = Len(d) BY <1>2, <1>3
  <2> QED BY <1>3, <2>1, <2>2
<1> HIDE DEF e
<1>5. \A k \in (Len(c) + 1)..Len(e) :
        /\ e[k] = Nop => k - 1 \in X
        /\ e[k][1] \in Jumps => e[k][2] <= Len(e)
  <2> SUFFICES ASSUME NEW k \in (Len(c) + 1)..Len(e)
               PROVE  /\ e[k] = Nop => k - 1 \in X
                      /\ e[k][1] \in Jumps => e[k][2] <= Len(e)
    OBVIOUS
  <2>1. CASE k = Len(d) BY <1>1, <1>4, <2>1
  <2>2. CASE k # Len(d)
    <3>1. k \in 1..(Len(d) - 1) /\ k \in (Len(c) + 1)..Len(d) BY <1>2, <1>4, <2>2
    <3> QED BY <1>4, <3>1 DEF Continues
  <2> QED BY <2>1, <2>2
<1>6. \A k \in 1..Len(c) : e[k] = c[k] BY <1>2, <1>4 DEF Continues
<1>7. Continues(c, e, X) BY <1>2, <1>4, <1>5, <1>6 DEF Continues
<1> QED BY <1>7 DEF e, b

LEMMA AppendPlain ==
  ASSUME NEW c \in Seq(Instr), NEW d, NEW X, NEW i, Plain(i), Continues(c, d, X)
  PROVE  Continues(c, Append(d, i), X)
<1>1. i \in Instr /\ i # Nop /\ i[1] \notin Jumps BY DEF Plain
<1> QED BY <1>1, AppendOne

LEMMA AppendJump ==
  ASSUME NEW c \in Seq(Instr), NEW d, NEW X, NEW op \in Jumps, NEW t \in Nat,
         Continues(c, d, X), t <= Len(d)
  PROVE  Continues(c, Append(d, <<op, t>>), X)
<1> DEFINE i == <<op, t>>
           e == Append(d, i)
<1>1. i \in Instr /\ i # Nop /\ i[2] = t
  <2>1. t \in Int OBVIOUS
  <2> QED BY <2>1, JumpFacts
<1>2. d \in Seq(Instr) /\ Len(c) \in Nat /\ Len(d) \in Nat BY DEF Continues
<1> HIDE DEF i
<1>3. e \in Seq(Instr) /\ Len(e) = Len(d) + 1 /\ e[Len(d) + 1] = i
      /\ \A k \in 1..Len(d) : e[k] = d[k]
  BY <1>1, <1>2
<1>4. \A k \in 1..Len(d) : d[k][1] \in Jumps => d[k][2] \in Int BY <1>2, OperandFacts
<1> HIDE DEF e
<1>5. \A k \in (Len(c) + 1)..Len(e) :
        /\ e[k] = Nop => k - 1 \in X
        /\ e[k][1] \in Jumps => e[k][2] <= Len(e)
  <2> SUFFICES ASSUME NEW k \in (Len(c) + 1)..Len(e)
               PROVE  /\ e[k] = Nop => k - 1 \in X
                      /\ e[k][1] \in Jumps => e[k][2] <= Len(e)
    OBVIOUS
  <2>1. CASE k = Len(d) + 1
    <3>1. t <= Len(e) BY <1>2, <1>3
    <3> QED BY <1>1, <1>3, <2>1, <3>1
  <2>2. CASE k # Len(d) + 1
    <3>1. k \in (Len(c) + 1)..Len(d) /\ k \in 1..Len(d) BY <1>2, <1>3, <2>2
    <3>2. e[k] = d[k] BY <1>3, <3>1
    <3>3. d[k] = Nop => k - 1 \in X BY <3>1 DEF Continues
    <3>4. d[k][1] \in Jumps => d[k][2] <= Len(d) BY <3>1 DEF Continues
    <3>5. d[k][1] \in Jumps => d[k][2] <= Len(e) BY <1>2, <1>3, <1>4, <3>1, <3>4
    <3> QED BY <3>2, <3>3, <3>5
  <2> QED BY <2>1, <2>2
<1>6. Continues(c, e, X) BY <1>2, <1>3, <1>5 DEF Continues
<1> QED BY <1>6 DEF e, i

LEMMA StoreFacts ==
  ASSUME NEW c \in Seq(Instr), NEW d, NEW X, NEW dst \in Int, Continues(c, d, X),
         Len(d) > Len(c)
  PROVE  Continues(c, EmitStore(d, dst), X)
<1> DEFINE l == Last(d)
<1>1. d \in Seq(Instr) /\ Len(d) > 0 BY DEF Continues
<1>2. l \in Instr BY <1>1, SeqFacts
<1>3. CASE l[1] = "LOAD_LOCAL"
  <2> DEFINE i == <<"MOVE", dst, l[2]>>
  <2>1. Plain(i) BY <1>2, <1>3, OperandFacts, InstrFacts
  <2>2. EmitStore(d, dst) = Append(Front(d), i) BY <1>3 DEF EmitStore
  <2> HIDE DEF i
  <2> QED BY <2>1, <2>2, ReplaceLast
<1>4. CASE l[1] = "ADD2"
  <2> DEFINE i == <<"ADD3", dst, l[2], l[3]>>
  <2>1. Plain(i) BY <1>2, <1>4, OperandFacts, InstrFacts
  <2>2. EmitStore(d, dst) = Append(Front(d), i) BY <1>4 DEF EmitStore
  <2> HIDE DEF i
  <2> QED BY <2>1, <2>2, ReplaceLast
<1>5. CASE l[1] # "LOAD_LOCAL" /\ l[1] # "ADD2"
  <2> DEFINE i == <<"STORE_LOCAL", dst>>
  <2>1. Plain(i) BY InstrFacts
  <2>2. EmitStore(d, dst) = Append(d, i) BY <1>5 DEF EmitStore
  <2> HIDE DEF i
  <2> QED BY <2>1, <2>2, AppendPlain
<1> QED BY <1>3, <1>4, <1>5

LEMMA ReturnFacts ==
  ASSUME NEW c \in Seq(Instr), NEW d, NEW X, Continues(c, d, X), Len(d) > Len(c)
  PROVE  Continues(c, EmitReturn(d), X)
<1> DEFINE i == IF Last(d)[1] = "CALL" THEN <<"TAIL_CALL">> ELSE <<"RETURN">>
<1>1. Plain(i) BY InstrFacts
<1>2. EmitReturn(d) = Append(Front(d), i) \/ EmitReturn(d) = Append(d, i) BY DEF EmitReturn
<1> HIDE DEF i
<1> QED BY <1>1, <1>2, ReplaceLast, AppendPlain

LEMMA DiscardFacts ==
  ASSUME NEW c \in Seq(Instr), NEW syms, Len(syms) \in Nat, DOMAIN syms = 1..Len(syms), NEW depth
  PROVE  /\ Continues(c, Discarded(c, syms, depth), {})
         /\ Discarded(c, syms, depth) \in Seq(Instr)
<1> DEFINE n == Cardinality(Inner(syms, depth))
           i == <<"POP">>
           t == [k \in 1..n |-> i]
           d == c \o t
<1>1. n \in Nat
  <2>1. IsFiniteSet(1..Len(syms)) BY FS_Interval
  <2>2. Inner(syms, depth) \subseteq 1..Len(syms) BY DEF Inner
  <2>3. IsFiniteSet(Inner(syms, depth)) BY <2>1, <2>2, FS_Subset
  <2> QED BY <2>3, FS_CardinalityType
<1>2. Discarded(c, syms, depth) = d BY DEF Discarded
<1>3. Plain(i) BY InstrFacts
<1> HIDE DEF n, i
<1>4. i \in Instr /\ i # Nop /\ i[1] \notin Jumps BY <1>3 DEF Plain
<1>5. t \in Seq(Instr) /\ Len(t) = n /\ \A k \in 1..n : t[k] = i BY <1>1, <1>4
<1> HIDE DEF t
<1>6. d \in Seq(Instr) /\ Len(d) = Len(c) + n
      /\ \A k \in 1..(Len(c) + n) : d[k] = IF k <= Len(c) THEN c[k] ELSE t[k - Len(c)]
  BY <1>5, ConcatProperties
<1> HIDE DEF d
<1>7. Len(c) \in Nat OBVIOUS
<1>8. \A k \in (Len(c) + 1)..Len(d) : d[k] = i BY <1>1, <1>5, <1>6, <1>7
<1>9. \A k \in 1..Len(c) : d[k] = c[k] BY <1>1, <1>6, <1>7
<1>10. Continues(c, d, {}) BY <1>1, <1>4, <1>6, <1>7, <1>8, <1>9 DEF Continues
<1> QED BY <1>2, <1>6, <1>10

LEMMA JoinedFacts ==
  ASSUME NEW c, NEW X, NEW loop \in Loop, Continues(<<>>, c, X)
  PROVE  /\ Continues(<<>>, Joined(c, loop),
                      {off \in X : \A j \in DOMAIN loop.jumps : loop.jumps[j] # off})
         /\ Joined(c, loop) \in Seq(Instr) /\ Len(Joined(c, loop)) = Len(c)
<1> DEFINE Left(k) == \E j \in DOMAIN loop.jumps : loop.jumps[j] = k - 1
           i == <<"JUMP", Offset(c)>>
           d == Joined(c, loop)
<1>1. c \in Seq(Instr) /\ Len(c) \in Nat /\ DOMAIN c = 1..Len(c) BY DEF Continues
<1>2. Offset(c) \in Nat /\ Offset(c) <= Len(c) BY <1>1, OffsetFacts
<1>3. i \in Instr /\ i # Nop /\ i[2] <= Len(c) BY <1>2, JumpNames, JumpFacts
<1> HIDE DEF i
<1>4. d = [k \in DOMAIN c |-> IF Left(k) THEN i ELSE c[k]] BY DEF Joined, i
<1>5. \A k \in 1..Len(c) : d[k] = IF Left(k) THEN i ELSE c[k] BY <1>1, <1>4
<1> DEFINE at(k) == IF Left(k) THEN i ELSE c[k]
<1>6. \A k \in 1..Len(c) : at(k) \in Instr
  <2>1. \A k \in 1..Len(c) : c[k] \in Instr BY <1>1
  <2> HIDE DEF Left
  <2> QED BY <1>3, <2>1
<1>7. d = [k \in 1..Len(c) |-> at(k)] BY <1>1, <1>4
<1>8. d \in Seq(Instr) /\ Len(d) = Len(c)
  <2> HIDE DEF at, d
  <2> QED BY <1>1, <1>6, <1>7
<1> HIDE DEF d, at
<1> DEFINE Y == {off \in X : \A j \in DOMAIN loop.jumps : loop.jumps[j] # off}
<1>9. ASSUME NEW k \in 1..Len(d)
      PROVE  /\ d[k] = Nop => k - 1 \in Y
             /\ d[k][1] \in Jumps => d[k][2] <= Len(d)
  <2>1. k \in (Len(<<>>) + 1)..Len(c) BY <1>1, <1>8
  <2>2. CASE Left(k) BY <1>3, <1>5, <1>8, <2>2
  <2>3. CASE ~Left(k)
    <3>1. d[k] = c[k] BY <1>5, <1>8, <2>3
    <3>2. c[k] = Nop => k - 1 \in X BY <2>1 DEF Continues
    <3>3. c[k][1] \in Jumps => c[k][2] <= Len(c) BY <2>1 DEF Continues
    <3> QED BY <1>8, <2>3, <3>1, <3>2, <3>3
  <2> QED BY <2>2, <2>3
<1> HIDE DEF Y
<1>10. Continues(<<>>, d, Y) BY <1>1, <1>8, <1>9 DEF Continues
<1> QED BY <1>8, <1>10 DEF d, Y

-----------------------------------------------------------------------------
(***************************************************************************)
(* Scopes.                                                                 *)
(***************************************************************************)
LEMMA BlockFacts ==
  ASSUME NEW b \in Block
  PROVE  b.kind \in Kinds /\ b.level \in Nat /\ b.jump \in Nat /\ b.from \in Nat /\ b.test \in Expr
BY DEF Block

LEMMA OpenFacts ==
  ASSUME NEW blocks, Heads(blocks)
  PROVE  /\ blocks \in Seq(Block) /\ Len(blocks) \in Nat /\ Len(blocks) > 0
         /\ DOMAIN blocks = 1..Len(blocks) /\ Len(blocks) \in 1..Len(blocks)
         /\ Last(blocks) = blocks[Len(blocks)] /\ Last(blocks) \in Block
         /\ \A j \in 1..Len(blocks) : blocks[j] \in Block /\ blocks[j].level \in Nat
         /\ Front(blocks) \in Seq(Block) /\ Len(Front(blocks)) = Len(blocks) - 1
         /\ \A k \in 1..(Len(blocks) - 1) : Front(blocks)[k] = blocks[k]
<1>1. blocks \in Seq(Block) /\ Len(blocks) > 0 BY DEF Heads
<1>2. /\ Front(blocks) \in Seq(Block) /\ Len(Front(blocks)) = Len(blocks) - 1
      /\ Last(blocks) = blocks[Len(blocks)]
      /\ \A k \in 1..(Len(blocks) - 1) : Front(blocks)[k] = blocks[k]
      /\ Len(blocks) \in Nat /\ Len(blocks) \in 1..Len(blocks) /\ Last(blocks) \in Block
  BY <1>1, SeqFacts
<1>3. DOMAIN blocks = 1..Len(blocks) BY <1>1
<1>4. \A j \in 1..Len(blocks) : blocks[j] \in Block BY <1>1
<1>5. \A j \in 1..Len(blocks) : blocks[j].level \in Nat BY <1>4, BlockFacts
<1> QED BY <1>1, <1>2, <1>3, <1>4, <1>5

LEMMA ReplacedFacts ==
  ASSUME NEW S, NEW s \in Seq(S), Len(s) > 0, NEW e \in S
  PROVE  /\ Append(Front(s), e) \in Seq(S) /\ Len(Append(Front(s), e)) = Len(s)
         /\ Append(Front(s), e)[Len(s)] = e /\ Last(Append(Front(s), e)) = e
         /\ \A k \in 1..(Len(s) - 1) : Append(Front(s), e)[k] = s[k]
         /\ DOMAIN Append(Front(s), e) = 1..Len(s)
<1> DEFINE f == Front(s)
           r == Append(f, e)
<1>1. f \in Seq(S) /\ Len(f) = Len(s) - 1 /\ Len(s) \in Nat
      /\ \A k \in 1..(Len(s) - 1) : f[k] = s[k]
  BY SeqFacts
<1> HIDE DEF f
<1>2. r \in Seq(S) /\ Len(r) = Len(f) + 1 /\ r[Len(f) + 1] = e /\ Last(r) = e
      /\ \A k \in 1..Len(f) : r[k] = f[k]
  BY <1>1, AppendFacts
<1>3. Len(f) + 1 = Len(s) BY <1>1
<1> HIDE DEF r
<1>4. DOMAIN r = 1..Len(s) BY <1>1, <1>2, <1>3
<1> QED BY <1>1, <1>2, <1>3, <1>4 DEF r, f

\* The scope of the innermost block has the symbols added since it began.
LEMMA InnerFacts ==
  ASSUME NEW syms, NEW blocks, Heads(blocks), Nested(syms, blocks)
  PROVE  /\ Inner(syms, Len(blocks)) = (Last(blocks).level + 1)..Len(syms)
         /\ Without(syms, Len(blocks)) = SubSeq(syms, 1, Last(blocks).level)
         /\ Last(blocks).level \in 0..Len(syms)
<1> DEFINE n == Len(blocks)
           level == Last(blocks).level
           below(i) == {j \in DOMAIN blocks : blocks[j].level < i}
<1>1. /\ blocks \in Seq(Block) /\ n \in Nat /\ n > 0 /\ DOMAIN blocks = 1..n
      /\ Last(blocks) = blocks[n] /\ n \in 1..n
  BY OpenFacts
<1>2. /\ syms \in Seq(Sym) /\ Len(syms) \in Nat /\ DOMAIN syms = 1..Len(syms)
      /\ level <= Len(syms)
      /\ \A i \in 1..Len(syms) : syms[i].depth = Cardinality(below(i))
  BY DEF Nested
<1>3. \A j \in 1..n : blocks[j].level \in Nat /\ blocks[j].level <= level
  <2>1. \A j \in 1..n : blocks[j].level \in Nat BY OpenFacts
  <2>2. \A j \in 1..n : blocks[j].level <= blocks[n].level BY <1>1 DEF Nested
  <2> QED BY <1>1, <2>1, <2>2
<1>4. level \in Nat BY <1>1, <1>3
<1>5. IsFiniteSet(1..n) /\ Cardinality(1..n) = n BY <1>1, FS_Interval
<1>6. ASSUME NEW i \in 1..Len(syms) PROVE syms[i].depth = n <=> i > level
  <2>1. CASE i > level
    <3>1. \A j \in 1..n : blocks[j].level < i BY <1>3, <1>4, <2>1
    <3>2. below(i) = 1..n BY <1>1, <3>1
    <3> QED BY <1>2, <1>5, <2>1, <3>2
  <2>2. CASE ~ (i > level)
    <3>1. n \notin below(i) BY <1>1, <1>4, <2>2
    <3>2. below(i) \subseteq 1..n BY <1>1
    <3>3. below(i) # 1..n BY <1>1, <3>1
    <3> HIDE DEF below
    <3>4. Cardinality(below(i)) # n BY <1>5, <3>2, <3>3, FS_Subset
    <3> QED BY <1>2, <2>2, <3>4
  <2> QED BY <2>1, <2>2
<1> HIDE DEF below
<1>7. Inner(syms, n) = (level + 1)..Len(syms)
  <2>1. ASSUME NEW i \in Inner(syms, n) PROVE i \in (level + 1)..Len(syms)
    <3>1. i \in 1..Len(syms) /\ i \in i..Len(syms) BY <1>2 DEF Inner
    <3>2. syms[i].depth = n BY <3>1 DEF Inner
    <3>3. i > level BY <1>6, <3>1, <3>2
    <3> HIDE DEF level
    <3> QED BY <1>2, <1>4, <3>1, <3>3
  <2>2. ASSUME NEW i \in (level + 1)..Len(syms) PROVE i \in Inner(syms, n)
    <3> HIDE DEF level
    <3>1. i \in 1..Len(syms) BY <1>2, <1>4
    <3>2. \A j \in i..Len(syms) : j \in 1..Len(syms) /\ j > level BY <1>2, <1>4
    <3>3. \A j \in i..Len(syms) : syms[j].depth = n BY <1>6, <3>2
    <3> QED BY <1>2, <3>1, <3>3 DEF Inner
  <2> QED BY <2>1, <2>2
<1>8. Cardinality((level + 1)..Len(syms)) = Len(syms) - level
  <2> HIDE DEF level
  <2>1. level + 1 \in Int /\ Len(syms) \in Int BY <1>2, <1>4
  <2>2. Cardinality((level + 1)..Len(syms)) =
          IF level + 1 > Len(syms) THEN 0 ELSE Len(syms) - (level + 1) + 1
    BY <2>1, FS_Interval
  <2> QED BY <1>2, <1>4, <2>2
<1>9. Len(syms) - (Len(syms) - level) = level
  <2> HIDE DEF level
  <2> QED BY <1>2, <1>4
<1>10. Without(syms, n) = SubSeq(syms, 1, level) BY <1>7, <1>8, <1>9 DEF Without
<1>11. level \in 0..Len(syms)
  <2> HIDE DEF level
  <2> QED BY <1>2, <1>4
<1> QED BY <1>7, <1>10, <1>11

LEMMA CloseHeads ==
  ASSUME NEW blocks, Heads(blocks), Last(blocks).kind # "body"
  PROVE  Heads(Front(blocks)) /\ Len(blocks) > 1
<1> DEFINE n == Len(blocks)
           outer == Front(blocks)
<1>1. /\ blocks \in Seq(Block) /\ n \in Nat /\ DOMAIN blocks = 1..n
      /\ outer \in Seq(Block) /\ Len(outer) = n - 1 /\ Last(blocks) = blocks[n] /\ n \in 1..n
      /\ \A k \in 1..(n - 1) : outer[k] = blocks[k]
  BY OpenFacts
<1>2. n > 1 BY <1>1 DEF Heads
<1>3. DOMAIN outer = 1..(n - 1) BY <1>1
<1>4. Heads(outer)
  <2>1. ASSUME NEW j \in 1..(n - 1)
        PROVE  /\ outer[j].kind = "body" <=> j = 1
               /\ outer[j].kind = "then" <=> j > 1 /\ outer[j - 1].kind = "if"
               /\ outer[j].kind = "do" <=> j > 1 /\ outer[j - 1].kind = "while"
    <3>1. j \in DOMAIN blocks /\ outer[j] = blocks[j] BY <1>1
    <3>2. j > 1 => outer[j - 1] = blocks[j - 1] BY <1>1
    <3> QED BY <3>1, <3>2 DEF Heads
  <2> QED BY <1>1, <1>2, <1>3, <2>1 DEF Heads
<1> QED BY <1>2, <1>4

LEMMA CloseBlock ==
  ASSUME NEW syms, NEW blocks, Heads(blocks), Nested(syms, blocks),
         Last(blocks).kind # "body"
  PROVE  /\ Heads(Front(blocks)) /\ Nested(Without(syms, Len(blocks)), Front(blocks))
         /\ Len(Front(blocks)) = Len(blocks) - 1
<1> DEFINE n == Len(blocks)
           outer == Front(blocks)
           level == Last(blocks).level
           rest == SubSeq(syms, 1, level)
<1>1. /\ blocks \in Seq(Block) /\ n \in Nat /\ DOMAIN blocks = 1..n
      /\ outer \in Seq(Block) /\ Len(outer) = n - 1 /\ Last(blocks) = blocks[n] /\ n \in 1..n
      /\ \A k \in 1..(n - 1) : outer[k] = blocks[k]
  BY OpenFacts
<1>2. n > 1 BY <1>1 DEF Heads
<1>3. DOMAIN outer = 1..(n - 1) BY <1>1
<1>4. Heads(outer) BY CloseHeads
<1>5. Without(syms, n) = rest /\ level \in 0..Len(syms) BY InnerFacts
<1>6. syms \in Seq(Sym) /\ Len(syms) \in Nat BY DEF Nested
<1>7. rest \in Seq(Sym) /\ Len(rest) = level /\ DOMAIN rest = 1..level
      /\ \A k \in 1..level : rest[k] = syms[k]
  <2>1. \A s \in Seq(Sym) : \A m \in 0..Len(s) :
          SubSeq(s, 1, m) \in Seq(Sym) /\ Len(SubSeq(s, 1, m)) = m
          /\ \A k \in 1..m : SubSeq(s, 1, m)[k] = s[k]
    OBVIOUS
  <2> QED BY <1>5, <1>6, <2>1
<1>8. Last(outer) = outer[n - 1] BY <1>1, <1>4, OpenFacts
<1> HIDE DEF rest, outer
<1>9. Last(outer).level <= level BY <1>1, <1>2, <1>8 DEF Nested
<1>10. \A i \in 1..level : rest[i].depth = Cardinality({j \in DOMAIN outer : outer[j].level < i})
  <2> SUFFICES ASSUME NEW i \in 1..level
               PROVE  rest[i].depth = Cardinality({j \in DOMAIN outer : outer[j].level < i})
    OBVIOUS
  <2>1. i \in DOMAIN syms /\ rest[i] = syms[i] BY <1>5, <1>6, <1>7
  <2>2. ~ (blocks[n].level < i) BY <1>1, <1>5
  <2>3. {j \in DOMAIN blocks : blocks[j].level < i} = {j \in DOMAIN outer : outer[j].level < i}
    BY <1>1, <1>3, <2>2
  <2> QED BY <2>1, <2>3 DEF Nested
<1>11. \A i, j \in DOMAIN outer : i <= j => outer[i].level <= outer[j].level
  BY <1>1, <1>3 DEF Nested
<1>12. Nested(rest, outer) BY <1>7, <1>9, <1>10, <1>11 DEF Nested
<1> QED BY <1>1, <1>4, <1>5, <1>12 DEF outer

LEMMA OpenBlock ==
  ASSUME NEW syms, NEW blocks, NEW b \in Block, Heads(blocks), Nested(syms, blocks),
         b.level = Len(syms), b.kind # "body",
         b.kind = "then" <=> Last(blocks).kind = "if",
         b.kind = "do" <=> Last(blocks).kind = "while"
  PROVE  /\ Heads(Append(blocks, b)) /\ Nested(syms, Append(blocks, b))
         /\ Len(Append(blocks, b)) = Len(blocks) + 1
<1> DEFINE n == Len(blocks)
           more == Append(blocks, b)
<1>1. /\ blocks \in Seq(Block) /\ n \in Nat /\ n > 0 /\ DOMAIN blocks = 1..n
      /\ Last(blocks) = blocks[n] /\ n \in 1..n
  BY OpenFacts
<1>2. /\ more \in Seq(Block) /\ Len(more) = n + 1 /\ more[n + 1] = b /\ Last(more) = b
      /\ \A k \in 1..n : more[k] = blocks[k]
  BY <1>1, AppendFacts
<1>3. DOMAIN more = 1..(n + 1) BY <1>1, <1>2
<1> HIDE DEF more
<1>4. Heads(more)
  <2>1. ASSUME NEW j \in 1..(n + 1)
        PROVE  /\ more[j].kind = "body" <=> j = 1
               /\ more[j].kind = "then" <=> j > 1 /\ more[j - 1].kind = "if"
               /\ more[j].kind = "do" <=> j > 1 /\ more[j - 1].kind = "while"
    <3>1. CASE j = n + 1
      <4>1. j - 1 = n /\ more[j] = b /\ more[j - 1] = blocks[n] BY <1>1, <1>2, <3>1
      <4> QED BY <1>1, <3>1, <4>1
    <3>2. CASE j # n + 1
      <4>1. j \in 1..n /\ more[j] = blocks[j] BY <1>1, <1>2, <3>2
      <4>2. j > 1 => more[j - 1] = blocks[j - 1] BY <1>1, <1>2, <3>2
      <4>3. j \in DOMAIN blocks BY <1>1, <4>1
      <4> QED BY <4>1, <4>2, <4>3 DEF Heads
    <3> QED BY <3>1, <3>2
  <2> QED BY <1>1, <1>2, <1>3, <2>1 DEF Heads
<1>5. syms \in Seq(Sym) /\ Len(syms) \in Nat /\ DOMAIN syms = 1..Len(syms) BY DEF Nested
<1>6. \A j \in 1..n : blocks[j].level \in Nat /\ blocks[j].level <= Len(syms)
  <2>0. \A j \in 1..n : blocks[j].level \in Nat BY OpenFacts
  <2>1. \A j \in 1..n : blocks[j].level \in Nat /\ blocks[j].level <= blocks[n].level
    BY <1>1, <2>0 DEF Nested
  <2>2. blocks[n].level <= Len(syms) BY <1>1 DEF Nested
  <2>3. blocks[n].level \in Nat BY <1>1, <2>1
  <2> QED BY <1>5, <2>1, <2>2, <2>3
<1>7. \A i, j \in DOMAIN more : i <= j => more[i].level <= more[j].level
  <2> SUFFICES ASSUME NEW i \in 1..(n + 1), NEW j \in 1..(n + 1), i <= j
               PROVE  more[i].level <= more[j].level
    BY <1>3
  <2>1. CASE j = n + 1
    <3>1. CASE i = n + 1 BY <1>2, <1>5, <2>1, <3>1
    <3>2. CASE i # n + 1
      <4>1. i \in 1..n /\ more[i] = blocks[i] BY <1>1, <1>2, <3>2
      <4> QED BY <1>2, <1>6, <2>1, <4>1
    <3> QED BY <3>1, <3>2
  <2>2. CASE j # n + 1
    <3>1. i \in 1..n /\ j \in 1..n /\ more[i] = blocks[i] /\ more[j] = blocks[j]
      BY <1>1, <1>2, <2>2
    <3> QED BY <1>1, <3>1 DEF Nested
  <2> QED BY <2>1, <2>2
<1>8. \A i \in DOMAIN syms : syms[i].depth = Cardinality({j \in DOMAIN more : more[j].level < i})
  <2> SUFFICES ASSUME NEW i \in 1..Len(syms)
               PROVE  syms[i].depth = Cardinality({j \in DOMAIN more : more[j].level < i})
    BY <1>5
  <2>1. ~ (b.level < i) BY <1>5
  <2>2. {j \in DOMAIN blocks : blocks[j].level < i} = {j \in DOMAIN more : more[j].level < i}
    BY <1>1, <1>2, <1>3, <2>1
  <2> QED BY <1>5, <2>2 DEF Nested
<1>9. Nested(syms, more) BY <1>2, <1>5, <1>7, <1>8 DEF Nested
<1> QED BY <1>2, <1>4, <1>9 DEF more

\* A head that waits changes what it is waiting for.
LEMMA ChangeHead ==
  ASSUME NEW syms, NEW blocks, NEW b \in Block, Heads(blocks), Nested(syms, blocks),
         b.level = Last(blocks).level,
         \/ b.kind = Last(blocks).kind
         \/ b.kind \in {"rest", "ending"} /\ Last(blocks).kind \notin {"body", "then", "do"}
  PROVE  /\ Heads(Append(Front(blocks), b)) /\ Nested(syms, Append(Front(blocks), b))
         /\ Len(Append(Front(blocks), b)) = Len(blocks)
<1> DEFINE n == Len(blocks)
           outer == Front(blocks)
           more == Append(outer, b)
<1>1. /\ blocks \in Seq(Block) /\ n \in Nat /\ n > 0 /\ DOMAIN blocks = 1..n
      /\ Last(blocks) = blocks[n] /\ n \in 1..n
      /\ outer \in Seq(Block) /\ Len(outer) = n - 1
      /\ \A k \in 1..(n - 1) : outer[k] = blocks[k]
  BY OpenFacts
<1>2. /\ more \in Seq(Block) /\ Len(more) = n /\ more[n] = b /\ Last(more) = b
      /\ \A k \in 1..(n - 1) : more[k] = blocks[k]
  <2>1. blocks \in Seq(Block) /\ Len(blocks) > 0 BY OpenFacts
  <2>2. /\ more \in Seq(Block) /\ Len(more) = n /\ more[n] = b /\ Last(more) = b
        /\ \A k \in 1..(Len(blocks) - 1) : more[k] = blocks[k]
    BY <2>1, ReplacedFacts
  <2> QED BY <2>2
<1>3. DOMAIN more = 1..n
  <2>1. blocks \in Seq(Block) /\ Len(blocks) > 0 BY OpenFacts
  <2> QED BY <2>1, ReplacedFacts
<1> HIDE DEF more, outer
<1>4. Heads(more)
  <2>1. ASSUME NEW j \in 1..n
        PROVE  /\ more[j].kind = "body" <=> j = 1
               /\ more[j].kind = "then" <=> j > 1 /\ more[j - 1].kind = "if"
               /\ more[j].kind = "do" <=> j > 1 /\ more[j - 1].kind = "while"
    <3>1. j > 1 => more[j - 1] = blocks[j - 1] BY <1>1, <1>2
    <3>2. CASE j = n
      <4>1. more[j] = b /\ blocks[n] = Last(blocks) BY <1>1, <1>2, <3>2
      <4>0. j \in DOMAIN blocks BY <1>1
      <4>2. CASE b.kind = Last(blocks).kind BY <3>1, <3>2, <4>0, <4>1, <4>2 DEF Heads
      <4>3. CASE /\ b.kind \in {"rest", "ending"}
                 /\ Last(blocks).kind \notin {"body", "then", "do"}
        <5>1. /\ ~ (j = 1) /\ ~ (j > 1 /\ blocks[j - 1].kind = "if")
              /\ ~ (j > 1 /\ blocks[j - 1].kind = "while")
          BY <3>2, <4>0, <4>1, <4>3 DEF Heads
        <5> QED BY <3>1, <4>1, <4>3, <5>1
      <4> QED BY <4>2, <4>3
    <3>3. CASE j # n
      <4>1. n \in Nat /\ j \in 1..(n - 1)
        <5>1. n \in Nat BY OpenFacts
        <5> HIDE DEF n
        <5> QED BY <3>3, <5>1
      <4>2. more[j] = blocks[j] /\ j \in DOMAIN blocks BY <1>1, <1>2, <4>1
      <4> QED BY <3>1, <4>2 DEF Heads
    <3> QED BY <3>2, <3>3
  <2> QED BY <1>1, <1>2, <1>3, <2>1 DEF Heads
<1>5. \A j \in 1..n : more[j].level = blocks[j].level
  <2> SUFFICES ASSUME NEW j \in 1..n PROVE more[j].level = blocks[j].level OBVIOUS
  <2>1. CASE j = n BY <1>1, <1>2, <2>1
  <2>2. CASE j # n
    <3>1. j \in 1..(n - 1)
      <4>1. n \in Nat BY OpenFacts
      <4> HIDE DEF n
      <4> QED BY <2>2, <4>1
    <3> QED BY <1>2, <3>1
  <2> QED BY <2>1, <2>2
<1>6. \A i : {j \in DOMAIN blocks : blocks[j].level < i} = {j \in DOMAIN more : more[j].level < i}
  BY <1>1, <1>3, <1>5
<1>7. Nested(syms, more) BY <1>1, <1>2, <1>3, <1>5, <1>6 DEF Nested
<1> QED BY <1>2, <1>4, <1>7 DEF more, outer

LEMMA Declare ==
  ASSUME NEW syms, NEW blocks, NEW n \in Name, Heads(blocks), Nested(syms, blocks)
  PROVE  Nested(Append(syms, Symbol(n, Len(blocks))), blocks)
<1> DEFINE s == Symbol(n, Len(blocks))
           more == Append(syms, s)
           m == Len(syms)
<1>1. /\ blocks \in Seq(Block) /\ Len(blocks) \in Nat /\ DOMAIN blocks = 1..Len(blocks)
      /\ Last(blocks) = blocks[Len(blocks)] /\ Len(blocks) \in 1..Len(blocks)
  BY OpenFacts
<1>2. syms \in Seq(Sym) /\ m \in Nat /\ DOMAIN syms = 1..m BY DEF Nested
<1>3. s \in Sym /\ s.depth = Len(blocks) BY <1>1 DEF Symbol, Sym
<1> HIDE DEF s
<1>4. /\ more \in Seq(Sym) /\ Len(more) = m + 1 /\ more[m + 1] = s
      /\ \A k \in 1..m : more[k] = syms[k]
  BY <1>2, <1>3, AppendFacts
<1>5. DOMAIN more = 1..(m + 1) BY <1>2, <1>4
<1> HIDE DEF more
<1>6. \A j \in DOMAIN blocks : blocks[j].level < m + 1
  <2>1. \A j \in DOMAIN blocks : blocks[j].level \in Nat BY <1>1, OpenFacts
  <2>2. \A j \in DOMAIN blocks : blocks[j].level <= blocks[Len(blocks)].level
    BY <1>1 DEF Nested
  <2>3. blocks[Len(blocks)].level <= m BY <1>1 DEF Nested
  <2>4. blocks[Len(blocks)].level \in Nat BY <1>1, <2>1
  <2> QED BY <1>2, <2>1, <2>2, <2>3, <2>4
<1>7. Last(blocks).level <= Len(more)
  <2>1. Last(blocks).level < m + 1 /\ Last(blocks).level \in Nat BY <1>1, <1>6, OpenFacts
  <2> QED BY <1>2, <1>4, <2>1
<1>8. \A i \in DOMAIN more : more[i].depth = Cardinality({j \in DOMAIN blocks : blocks[j].level < i})
  <2> SUFFICES ASSUME NEW i \in 1..(m + 1)
               PROVE  more[i].depth = Cardinality({j \in DOMAIN blocks : blocks[j].level < i})
    BY <1>5
  <2>1. CASE i = m + 1
    <3>1. {j \in DOMAIN blocks : blocks[j].level < i} = 1..Len(blocks) BY <1>1, <1>6, <2>1
    <3>2. Cardinality(1..Len(blocks)) = Len(blocks)
      <4>1. \A q \in Nat : Cardinality(1..q) = q BY FS_Interval
      <4>2. Len(blocks) \in Nat BY <1>1
      <4> QED BY <4>1, <4>2
    <3> QED BY <1>3, <1>4, <2>1, <3>1, <3>2
  <2>2. CASE i # m + 1
    <3>1. i \in 1..m /\ more[i] = syms[i] BY <1>2, <1>4, <2>2
    <3> QED BY <1>2, <3>1 DEF Nested
  <2> QED BY <2>1, <2>2
<1>9. Nested(more, blocks) BY <1>4, <1>7, <1>8 DEF Nested
<1> QED BY <1>9 DEF more, s

-----------------------------------------------------------------------------
(***************************************************************************)
(* Loops, and what is yet to be patched.                                   *)
(***************************************************************************)
IsLoop(b) == b.kind \in {"loop", "while"}

LEMMA LoopsInFinite ==
  ASSUME NEW blocks \in Seq(Block)
  PROVE  IsFiniteSet(LoopsIn(blocks)) /\ Cardinality(LoopsIn(blocks)) \in Nat
<1>1. IsFiniteSet(1..Len(blocks)) BY FS_Interval
<1>2. LoopsIn(blocks) \subseteq 1..Len(blocks) BY DEF LoopsIn
<1>3. IsFiniteSet(LoopsIn(blocks)) BY <1>1, <1>2, FS_Subset
<1> QED BY <1>3, FS_CardinalityType

LEMMA OpenLoops ==
  ASSUME NEW blocks \in Seq(Block), NEW b \in Block
  PROVE  Cardinality(LoopsIn(Append(blocks, b))) =
           IF IsLoop(b) THEN Cardinality(LoopsIn(blocks)) + 1 ELSE Cardinality(LoopsIn(blocks))
<1> DEFINE n == Len(blocks)
           more == Append(blocks, b)
<1>1. n \in Nat /\ more[n + 1] = b /\ DOMAIN more = 1..(n + 1) /\ DOMAIN blocks = 1..n
      /\ \A k \in 1..n : more[k] = blocks[k]
  OBVIOUS
<1> HIDE DEF more
<1>2. LoopsIn(more) = IF IsLoop(b) THEN LoopsIn(blocks) \cup {n + 1} ELSE LoopsIn(blocks)
  BY <1>1 DEF LoopsIn, IsLoop
<1>3. n + 1 \notin LoopsIn(blocks) BY <1>1 DEF LoopsIn
<1>4. Cardinality(LoopsIn(blocks) \cup {n + 1}) = Cardinality(LoopsIn(blocks)) + 1
  BY <1>3, LoopsInFinite, FS_AddElement
<1> QED BY <1>2, <1>4 DEF more

LEMMA CloseLoops ==
  ASSUME NEW blocks, Heads(blocks)
  PROVE  /\ Cardinality(LoopsIn(Front(blocks))) =
              IF IsLoop(Last(blocks)) THEN Cardinality(LoopsIn(blocks)) - 1
              ELSE Cardinality(LoopsIn(blocks))
         /\ Cardinality(LoopsIn(blocks)) \in Nat
         /\ IsLoop(Last(blocks)) => Cardinality(LoopsIn(blocks)) > 0
<1> DEFINE n == Len(blocks)
           outer == Front(blocks)
           last == Last(blocks)
<1>1. /\ blocks \in Seq(Block) /\ outer \in Seq(Block) /\ last \in Block
      /\ n \in Nat /\ n > 0 /\ Len(outer) = n - 1 /\ DOMAIN blocks = 1..n /\ last = blocks[n]
      /\ \A k \in 1..(n - 1) : outer[k] = blocks[k]
  BY OpenFacts
<1>2. DOMAIN outer = 1..(n - 1) BY <1>1
<1> HIDE DEF outer, last
<1>3. LoopsIn(blocks) = IF IsLoop(last) THEN LoopsIn(outer) \cup {n} ELSE LoopsIn(outer)
  BY <1>1, <1>2 DEF LoopsIn, IsLoop
<1>4. n \notin LoopsIn(outer) BY <1>1, <1>2 DEF LoopsIn
<1>5. Cardinality(LoopsIn(outer) \cup {n}) = Cardinality(LoopsIn(outer)) + 1
  BY <1>1, <1>4, LoopsInFinite, FS_AddElement
<1>6. Cardinality(LoopsIn(outer)) \in Nat BY <1>1, LoopsInFinite
<1> QED BY <1>3, <1>5, <1>6 DEF outer, last

LEMMA ChangeLoops ==
  ASSUME NEW blocks, NEW b \in Block, Heads(blocks), IsLoop(b) <=> IsLoop(Last(blocks))
  PROVE  LoopsIn(Append(Front(blocks), b)) = LoopsIn(blocks)
<1> DEFINE n == Len(blocks)
           more == Append(Front(blocks), b)
<1>1. blocks \in Seq(Block) /\ n > 0 BY OpenFacts
<1>2. more[n] = b /\ DOMAIN more = 1..n /\ \A k \in 1..(n - 1) : more[k] = blocks[k]
  BY <1>1, ReplacedFacts
<1>3. n \in Nat /\ DOMAIN blocks = 1..n /\ Last(blocks) = blocks[n] BY OpenFacts
<1> HIDE DEF more
<1>4. \A k \in 1..n : IsLoop(more[k]) <=> IsLoop(blocks[k])
  <2> SUFFICES ASSUME NEW k \in 1..n PROVE IsLoop(more[k]) <=> IsLoop(blocks[k]) OBVIOUS
  <2>1. CASE k = n BY <1>2, <1>3, <2>1
  <2>2. CASE k # n
    <3>1. k \in 1..(n - 1)
      <4>1. n \in Nat BY <1>3
      <4> HIDE DEF n
      <4> QED BY <2>2, <4>1
    <3> QED BY <1>2, <3>1
  <2> QED BY <2>1, <2>2
<1> QED BY <1>2, <1>3, <1>4 DEF LoopsIn, IsLoop, more

LEMMA HoleFacts ==
  ASSUME NEW blocks, NEW ls, NEW off
  PROVE  off \in Holes(blocks, ls) <=>
           /\ off \in Nat
           /\ \/ \E j \in DOMAIN blocks : Awaits(blocks, j) /\ blocks[j].jump = off
              \/ \E k \in DOMAIN ls : \E m \in DOMAIN ls[k].jumps : ls[k].jumps[m] = off
BY DEF Holes

LEMMA OpenHoles ==
  ASSUME NEW blocks, NEW b \in Block, NEW ls, Heads(blocks)
  PROVE  /\ Holes(blocks, ls) \subseteq Holes(Append(blocks, b), ls)
         /\ Last(blocks).kind \in {"if", "while"} =>
              Last(blocks).jump \in Holes(Append(blocks, b), ls)
         /\ b.kind \in {"rest", "ending"} => b.jump \in Holes(Append(blocks, b), ls)
<1> DEFINE n == Len(blocks)
           more == Append(blocks, b)
<1>1. /\ blocks \in Seq(Block) /\ n \in Nat /\ DOMAIN blocks = 1..n
      /\ n \in 1..n /\ Last(blocks) = blocks[n] /\ Last(blocks) \in Block
  BY OpenFacts
<1>2. /\ more[n + 1] = b /\ DOMAIN more = 1..(n + 1) /\ Len(more) = n + 1
      /\ \A k \in 1..n : more[k] = blocks[k]
  BY <1>1
<1> HIDE DEF more
<1>3. \A j \in 1..n : j \in DOMAIN more /\ (Awaits(blocks, j) => Awaits(more, j))
  <2>1. \A j \in 1..n : j < Len(more) BY <1>1, <1>2
  <2> QED BY <1>1, <1>2, <2>1 DEF Awaits
<1>4. \A off \in Holes(blocks, ls) : off \in Holes(more, ls)
  <2> SUFFICES ASSUME NEW off \in Holes(blocks, ls) PROVE off \in Holes(more, ls) OBVIOUS
  <2>1. CASE \E j \in DOMAIN blocks : Awaits(blocks, j) /\ blocks[j].jump = off
    <3>1. \E j \in DOMAIN more : Awaits(more, j) /\ more[j].jump = off BY <1>1, <1>2, <1>3, <2>1
    <3> QED BY <3>1, HoleFacts
  <2>2. CASE \E k \in DOMAIN ls : \E m \in DOMAIN ls[k].jumps : ls[k].jumps[m] = off
    BY <2>2, HoleFacts
  <2> QED BY <2>1, <2>2, HoleFacts
<1>5. ASSUME Last(blocks).kind \in {"if", "while"} PROVE Last(blocks).jump \in Holes(more, ls)
  <2>1. n \in DOMAIN more /\ more[n] = Last(blocks) /\ n < Len(more) BY <1>1, <1>2
  <2>2. Awaits(more, n) BY <1>5, <2>1 DEF Awaits
  <2>3. Last(blocks).jump \in Nat BY <1>1, BlockFacts
  <2> QED BY <2>1, <2>2, <2>3, HoleFacts
<1>6. ASSUME b.kind \in {"rest", "ending"} PROVE b.jump \in Holes(more, ls)
  <2>1. n + 1 \in DOMAIN more /\ more[n + 1] = b BY <1>1, <1>2
  <2>2. Awaits(more, n + 1) BY <1>6, <2>1 DEF Awaits
  <2>3. b.jump \in Nat BY BlockFacts
  <2> QED BY <2>1, <2>2, <2>3, HoleFacts
<1> QED BY <1>4, <1>5, <1>6 DEF more

LEMMA ChangeHoles ==
  ASSUME NEW blocks, NEW b \in Block, NEW ls, Heads(blocks),
         Last(blocks).kind \in {"rest", "ending"} =>
           b.kind \in {"rest", "ending"} /\ b.jump = Last(blocks).jump
  PROVE  Holes(blocks, ls) \subseteq Holes(Append(Front(blocks), b), ls)
<1> DEFINE n == Len(blocks)
           more == Append(Front(blocks), b)
<1>1. blocks \in Seq(Block) /\ n > 0 BY OpenFacts
<1>2. /\ more[n] = b /\ DOMAIN more = 1..n /\ Len(more) = n
      /\ \A k \in 1..(n - 1) : more[k] = blocks[k]
  BY <1>1, ReplacedFacts
<1>3. n \in Nat /\ DOMAIN blocks = 1..n /\ Last(blocks) = blocks[n] BY OpenFacts
<1> HIDE DEF more
<1>4. ASSUME NEW j \in 1..n, Awaits(blocks, j)
      PROVE  Awaits(more, j) /\ more[j].jump = blocks[j].jump
  <2>1. CASE j = n
    <3>1. Last(blocks).kind \in {"rest", "ending"} BY <1>3, <1>4, <2>1 DEF Awaits
    <3> QED BY <1>2, <1>3, <2>1, <3>1 DEF Awaits
  <2>2. CASE j # n
    <3>1. j \in 1..(n - 1)
      <4>1. n \in Nat BY <1>3
      <4> HIDE DEF n
      <4> QED BY <2>2, <4>1
    <3> QED BY <1>2, <1>4, <3>1 DEF Awaits
  <2> QED BY <2>1, <2>2
<1>5. \A off \in Holes(blocks, ls) : off \in Holes(more, ls)
  <2> SUFFICES ASSUME NEW off \in Holes(blocks, ls) PROVE off \in Holes(more, ls) OBVIOUS
  <2>1. CASE \E j \in DOMAIN blocks : Awaits(blocks, j) /\ blocks[j].jump = off
    <3>1. \E j \in DOMAIN more : Awaits(more, j) /\ more[j].jump = off BY <1>2, <1>3, <1>4, <2>1
    <3> QED BY <3>1, HoleFacts
  <2>2. CASE \E k \in DOMAIN ls : \E m \in DOMAIN ls[k].jumps : ls[k].jumps[m] = off
    BY <2>2, HoleFacts
  <2> QED BY <2>1, <2>2, HoleFacts
<1> QED BY <1>5 DEF more

\* A block that ends holds nothing; a head that ends, the jump it has patched.
LEMMA CloseHoles ==
  ASSUME NEW blocks, NEW ls, Heads(blocks), Last(blocks).kind \notin {"then", "do"},
         NEW off \in Holes(blocks, ls)
  PROVE  \/ off \in Holes(Front(blocks), ls)
         \/ Last(blocks).kind \in {"rest", "ending"} /\ off = Last(blocks).jump
<1> DEFINE n == Len(blocks)
           outer == Front(blocks)
<1>1. /\ blocks \in Seq(Block) /\ outer \in Seq(Block) /\ n \in Nat /\ n > 0 /\ Len(outer) = n - 1
      /\ DOMAIN blocks = 1..n /\ Last(blocks) = blocks[n]
      /\ \A k \in 1..(n - 1) : outer[k] = blocks[k]
  BY OpenFacts
<1>2. DOMAIN outer = 1..(n - 1) BY <1>1
<1> HIDE DEF outer
<1>3. ASSUME NEW j \in 1..n, Awaits(blocks, j), j # n
      PROVE  j \in DOMAIN outer /\ Awaits(outer, j) /\ outer[j].jump = blocks[j].jump
  <2>1. j \in 1..(n - 1) /\ n \in 1..n /\ n > 1
    <3>1. n \in Nat BY <1>1
    <3> HIDE DEF n
    <3> QED BY <1>3, <3>1
  <2>2. j = n - 1 => blocks[j].kind \notin {"if", "while"}
    <3>1. n \in DOMAIN blocks BY <1>1, <2>1
    <3> QED BY <1>1, <2>1, <3>1 DEF Heads
  <2>3. CASE j = n - 1 BY <1>1, <1>2, <1>3, <2>1, <2>2, <2>3 DEF Awaits
  <2>4. CASE j # n - 1
    <3>1. j < Len(outer)
      <4>1. n \in Nat /\ Len(outer) = n - 1 BY <1>1
      <4> HIDE DEF n
      <4> QED BY <2>1, <2>4, <4>1
    <3> QED BY <1>1, <1>2, <1>3, <2>1, <3>1 DEF Awaits
  <2> QED BY <2>3, <2>4
<1>4. CASE \E j \in DOMAIN blocks : Awaits(blocks, j) /\ blocks[j].jump = off
  <2>1. PICK j \in 1..n : Awaits(blocks, j) /\ blocks[j].jump = off BY <1>1, <1>4
  <2>2. CASE j = n
    <3>1. Last(blocks).kind \in {"rest", "ending"} BY <1>1, <2>1, <2>2 DEF Awaits
    <3> QED BY <1>1, <2>1, <2>2, <3>1
  <2>3. CASE j # n
    <3>1. \E i \in DOMAIN outer : Awaits(outer, i) /\ outer[i].jump = off BY <1>3, <2>1, <2>3
    <3> QED BY <3>1, HoleFacts DEF outer
  <2> QED BY <2>2, <2>3
<1>5. CASE \E k \in DOMAIN ls : \E m \in DOMAIN ls[k].jumps : ls[k].jumps[m] = off
  BY <1>5, HoleFacts
<1> QED BY <1>4, <1>5, HoleFacts

\* The block of an if or a while ends: its head has patched its own jump.
LEMMA CloseTwoHoles ==
  ASSUME NEW blocks, NEW ls, Heads(blocks), Last(blocks).kind \in {"then", "do"},
         NEW off \in Holes(blocks, ls)
  PROVE  off \in Holes(Front(Front(blocks)), ls) \/ off = blocks[Len(blocks) - 1].jump
<1> DEFINE n == Len(blocks)
           outer == Front(Front(blocks))
<1>1. n \in Nat /\ DOMAIN blocks = 1..n /\ Last(blocks) = blocks[n] /\ n \in 1..n
      /\ blocks \in Seq(Block)
  BY OpenFacts
<1>2. n - 1 \in 1..n /\ n - 2 \in Nat /\ blocks[n - 1].kind \in {"if", "while"}
  <2>1. n \in DOMAIN blocks BY <1>1
  <2>2. n > 1 /\ blocks[n - 1].kind \in {"if", "while"} BY <1>1, <2>1 DEF Heads
  <2> QED BY <1>1, <2>2
<1>3. /\ outer \in Seq(Block) /\ Len(outer) = n - 2 /\ DOMAIN outer = 1..(n - 2)
      /\ \A k \in 1..(n - 2) : outer[k] = blocks[k]
  <2>1. Last(blocks).kind # "body" OBVIOUS
  <2>2. Heads(Front(blocks)) /\ Len(Front(blocks)) = n - 1
        /\ \A k \in 1..(n - 1) : Front(blocks)[k] = blocks[k]
    BY <2>1, CloseHeads, OpenFacts
  <2>3. /\ outer \in Seq(Block) /\ Len(outer) = Len(Front(blocks)) - 1
        /\ \A k \in 1..(Len(Front(blocks)) - 1) : outer[k] = Front(blocks)[k]
    BY <2>2, OpenFacts
  <2>4. Len(Front(blocks)) - 1 = n - 2 BY <1>1, <2>2
  <2>5. \A k \in 1..(n - 2) : k \in 1..(n - 1) BY <1>1
  <2> HIDE DEF outer
  <2>6. DOMAIN outer = 1..(n - 2) BY <2>3, <2>4
  <2> QED BY <2>2, <2>3, <2>4, <2>5, <2>6
<1> HIDE DEF outer
<1>4. ASSUME NEW j \in 1..n, Awaits(blocks, j), j # n - 1
      PROVE  j \in DOMAIN outer /\ Awaits(outer, j) /\ outer[j].jump = blocks[j].jump
  <2>1. j # n BY <1>1, <1>4 DEF Awaits
  <2>2. j \in 1..(n - 2) /\ j + 1 \in 1..n /\ (j + 1) - 1 = j /\ j + 1 > 1
    <3>1. n \in Nat BY <1>1
    <3> HIDE DEF n
    <3> QED BY <1>4, <2>1, <3>1
  <2>3. j = n - 2 => blocks[j].kind \notin {"if", "while"}
    <3>1. j + 1 \in DOMAIN blocks BY <1>1, <2>2
    <3>2. blocks[j].kind \in {"if", "while"} => blocks[j + 1].kind \in {"then", "do"}
      BY <2>2, <3>1 DEF Heads
    <3>3. j = n - 2 => j + 1 = n - 1 BY <1>1
    <3> QED BY <1>2, <3>2, <3>3
  <2>4. j < Len(outer) \/ j = n - 2
    <3>1. n \in Nat BY <1>1
    <3>2. Len(outer) = n - 2 BY <1>3
    <3> HIDE DEF n
    <3> QED BY <2>2, <3>1, <3>2
  <2> QED BY <1>3, <1>4, <2>2, <2>3, <2>4 DEF Awaits
<1>5. CASE \E j \in DOMAIN blocks : Awaits(blocks, j) /\ blocks[j].jump = off
  <2>1. PICK j \in 1..n : Awaits(blocks, j) /\ blocks[j].jump = off BY <1>1, <1>5
  <2>2. CASE j = n - 1 BY <2>1, <2>2
  <2>3. CASE j # n - 1
    <3>1. \E i \in DOMAIN outer : Awaits(outer, i) /\ outer[i].jump = off BY <1>4, <2>1, <2>3
    <3> QED BY <3>1, HoleFacts DEF outer
  <2> QED BY <2>2, <2>3
<1>6. CASE \E k \in DOMAIN ls : \E m \in DOMAIN ls[k].jumps : ls[k].jumps[m] = off
  BY <1>6, HoleFacts
<1> QED BY <1>5, <1>6, HoleFacts

LEMMA LoopFacts ==
  ASSUME NEW l \in Loop
  PROVE  l.off \in Nat /\ l.level \in Nat /\ l.inner \in Nat /\ l.jumps \in Seq(Nat)
BY DEF Loop

LEMMA WithinMore ==
  ASSUME NEW ls, NEW n \in Nat, NEW m \in Nat, n <= m, Within(ls, n)
  PROVE  Within(ls, m)
<1>1. \A k \in DOMAIN ls : ls[k].off \in Nat
  <2>1. \A k \in DOMAIN ls : ls[k] \in Loop BY DEF Within
  <2> QED BY <2>1, LoopFacts
<1> QED BY <1>1 DEF Within

LEMMA BeginFacts ==
  ASSUME NEW blocks, NEW ls, NEW n \in Nat, NEW l \in Loop, Within(ls, n), l.off <= n
  PROVE  /\ Within(Append(ls, l), n) /\ Len(Append(ls, l)) = Len(ls) + 1
         /\ Holes(blocks, ls) \subseteq Holes(blocks, Append(ls, l))
<1> DEFINE more == Append(ls, l)
           k0 == Len(ls)
<1>1. ls \in Seq(Loop) /\ k0 \in Nat /\ DOMAIN ls = 1..k0 BY DEF Within
<1>2. /\ more \in Seq(Loop) /\ Len(more) = k0 + 1 /\ more[k0 + 1] = l
      /\ \A k \in 1..k0 : more[k] = ls[k]
  BY <1>1, AppendFacts
<1>3. DOMAIN more = 1..(k0 + 1) BY <1>1, <1>2
<1> HIDE DEF more
<1>4. \A k \in DOMAIN more : more[k].off <= n
  <2> SUFFICES ASSUME NEW k \in 1..(k0 + 1) PROVE more[k].off <= n BY <1>3
  <2>1. CASE k = k0 + 1 BY <1>2, <2>1
  <2>2. CASE k # k0 + 1
    <3>1. k \in 1..k0 BY <1>1, <2>2
    <3> QED BY <1>1, <1>2, <3>1 DEF Within
  <2> QED BY <2>1, <2>2
<1>5. \A off \in Holes(blocks, ls) : off \in Holes(blocks, more)
  <2> SUFFICES ASSUME NEW off \in Holes(blocks, ls) PROVE off \in Holes(blocks, more) OBVIOUS
  <2>1. CASE \E j \in DOMAIN blocks : Awaits(blocks, j) /\ blocks[j].jump = off
    BY <2>1, HoleFacts
  <2>2. CASE \E k \in DOMAIN ls : \E m \in DOMAIN ls[k].jumps : ls[k].jumps[m] = off
    <3>1. PICK k \in 1..k0 : \E m \in DOMAIN ls[k].jumps : ls[k].jumps[m] = off
      BY <1>1, <2>2
    <3>2. k \in DOMAIN more /\ more[k] = ls[k] BY <1>1, <1>2, <1>3
    <3>3. \E i \in DOMAIN more : \E m \in DOMAIN more[i].jumps : more[i].jumps[m] = off
      BY <3>1, <3>2
    <3> QED BY <3>3, HoleFacts
  <2> QED BY <2>1, <2>2, HoleFacts
<1> QED BY <1>2, <1>4, <1>5 DEF Within, more

\* The innermost loop is replaced by one that began where it did, and has its breaks.
LEMMA ChangeFacts ==
  ASSUME NEW blocks, NEW ls, NEW n \in Nat, NEW l \in Loop, Within(ls, n), Len(ls) > 0,
         l.off = Last(ls).off,
         \A m \in DOMAIN Last(ls).jumps : m \in DOMAIN l.jumps /\ l.jumps[m] = Last(ls).jumps[m]
  PROVE  LET r == [ls EXCEPT ![Len(ls)] = l] IN
           /\ Within(r, n) /\ Len(r) = Len(ls)
           /\ Holes(blocks, ls) \subseteq Holes(blocks, r)
           /\ \A m \in DOMAIN l.jumps : l.jumps[m] \in Holes(blocks, r)
<1> DEFINE k0 == Len(ls)
           r == [ls EXCEPT ![k0] = l]
<1>1. /\ ls \in Seq(Loop) /\ k0 \in Nat /\ DOMAIN ls = 1..k0 /\ k0 \in 1..k0
      /\ Last(ls) = ls[k0]
  <2>1. ls \in Seq(Loop) BY DEF Within
  <2>2. DOMAIN ls = 1..k0 BY <2>1
  <2> QED BY <2>1, <2>2, SeqFacts
<1>2. r \in Seq(Loop) /\ Len(r) = k0 /\ \A k \in 1..k0 : r[k] = IF k = k0 THEN l ELSE ls[k]
  <2>1. k0 \in 1..Len(ls) BY <1>1
  <2>2. r \in Seq(Loop) BY <1>1, <2>1, ExceptSeq
  <2>3. Len(r) = k0 BY <1>1, <2>1, ExceptSeq
  <2>4. \A k \in 1..k0 : r[k] = IF k = k0 THEN l ELSE ls[k] BY <1>1
  <2> QED BY <2>2, <2>3, <2>4
<1> HIDE DEF r
<1>3. DOMAIN r = 1..k0 BY <1>2
<1>4. \A k \in 1..k0 : r[k].off <= n
  <2>1. \A k \in 1..k0 : ls[k].off <= n BY <1>1 DEF Within
  <2> QED BY <1>1, <1>2, <2>1
<1>5. \A k \in 1..k0 : \A m \in DOMAIN ls[k].jumps :
        m \in DOMAIN r[k].jumps /\ r[k].jumps[m] = ls[k].jumps[m]
  BY <1>1, <1>2
<1>6. \A off \in Holes(blocks, ls) : off \in Holes(blocks, r)
  <2> SUFFICES ASSUME NEW off \in Holes(blocks, ls) PROVE off \in Holes(blocks, r) OBVIOUS
  <2>1. CASE \E j \in DOMAIN blocks : Awaits(blocks, j) /\ blocks[j].jump = off
    BY <2>1, HoleFacts
  <2>2. CASE \E k \in DOMAIN ls : \E m \in DOMAIN ls[k].jumps : ls[k].jumps[m] = off
    <3>1. \E k \in DOMAIN r : \E m \in DOMAIN r[k].jumps : r[k].jumps[m] = off
      BY <1>1, <1>3, <1>5, <2>2
    <3> QED BY <3>1, HoleFacts
  <2> QED BY <2>1, <2>2, HoleFacts
<1>7. ASSUME NEW m \in DOMAIN l.jumps PROVE l.jumps[m] \in Holes(blocks, r)
  <2>1. r[k0] = l /\ k0 \in DOMAIN r BY <1>1, <1>2, <1>3
  <2>2. l.jumps[m] \in Nat BY LoopFacts
  <2>3. \E k \in DOMAIN r : \E i \in DOMAIN r[k].jumps : r[k].jumps[i] = l.jumps[m] BY <2>1
  <2> QED BY <2>2, <2>3, HoleFacts
<1>8. Within(r, n) BY <1>2, <1>3, <1>4 DEF Within
<1> QED BY <1>2, <1>6, <1>7, <1>8 DEF r

LEMMA EndFacts ==
  ASSUME NEW ls, NEW n \in Nat, Within(ls, n), Len(ls) > 0
  PROVE  /\ Within(Front(ls), n) /\ Len(Front(ls)) = Len(ls) - 1
         /\ Last(ls) \in Loop /\ Last(ls).off \in Nat /\ Last(ls).off <= n
<1> DEFINE k0 == Len(ls)
           f == Front(ls)
<1>1. /\ ls \in Seq(Loop) /\ k0 \in Nat /\ DOMAIN ls = 1..k0 /\ k0 \in 1..k0
      /\ Last(ls) = ls[k0] /\ Last(ls) \in Loop
      /\ f \in Seq(Loop) /\ Len(f) = k0 - 1 /\ \A k \in 1..(k0 - 1) : f[k] = ls[k]
  <2>1. ls \in Seq(Loop) BY DEF Within
  <2>2. DOMAIN ls = 1..k0 BY <2>1
  <2> QED BY <2>1, <2>2, SeqFacts
<1>2. DOMAIN f = 1..(k0 - 1) BY <1>1
<1> HIDE DEF f
<1>3. Within(f, n) BY <1>1, <1>2 DEF Within
<1>4. Last(ls).off \in Nat /\ Last(ls).off <= n BY <1>1, LoopFacts DEF Within
<1> QED BY <1>1, <1>3, <1>4 DEF f

LEMMA EndHoles ==
  ASSUME NEW blocks, NEW ls \in Seq(Loop), Len(ls) > 0, NEW off \in Holes(blocks, ls)
  PROVE  \/ off \in Holes(blocks, Front(ls))
         \/ \E m \in DOMAIN Last(ls).jumps : Last(ls).jumps[m] = off
<1> DEFINE k0 == Len(ls)
           f == Front(ls)
<1>1. /\ k0 \in Nat /\ DOMAIN ls = 1..k0 /\ k0 \in 1..k0 /\ Last(ls) = ls[k0]
      /\ f \in Seq(Loop) /\ Len(f) = k0 - 1 /\ \A k \in 1..(k0 - 1) : f[k] = ls[k]
  <2>2. DOMAIN ls = 1..k0 OBVIOUS
  <2> QED BY <2>2, SeqFacts
<1>2. DOMAIN f = 1..(k0 - 1) BY <1>1
<1> HIDE DEF f
<1>3. \A k \in 1..k0 : k = k0 \/ k \in 1..(k0 - 1)
  <2>1. k0 \in Nat BY <1>1
  <2> HIDE DEF k0
  <2> QED BY <2>1
<1>4. CASE \E j \in DOMAIN blocks : Awaits(blocks, j) /\ blocks[j].jump = off
  BY <1>4, HoleFacts
<1>5. CASE \E k \in DOMAIN ls : \E m \in DOMAIN ls[k].jumps : ls[k].jumps[m] = off
  <2>1. PICK k \in 1..k0 : \E m \in DOMAIN ls[k].jumps : ls[k].jumps[m] = off BY <1>1, <1>5
  <2>2. CASE k = k0 BY <1>1, <2>1, <2>2
  <2>3. CASE k # k0
    <3>1. k \in DOMAIN f /\ f[k] = ls[k] BY <1>1, <1>2, <1>3, <2>3
    <3>2. \E i \in DOMAIN f : \E m \in DOMAIN f[i].jumps : f[i].jumps[m] = off
      BY <2>1, <3>1
    <3> QED BY <3>2, HoleFacts DEF f
  <2> QED BY <2>2, <2>3
<1> QED BY <1>4, <1>5, HoleFacts

-----------------------------------------------------------------------------
(***************************************************************************)
(* The invariant, one action at a time.                                    *)
(***************************************************************************)
LEMMA TargetsFacts ==
  ASSUME NEW c, NEW blocks, NEW ls, Targets(c, blocks, ls)
  PROVE  /\ c \in Seq(Instr) /\ Len(c) \in Nat /\ Within(ls, Len(c))
         /\ ls \in Seq(Loop) /\ Len(ls) \in Nat
BY DEF Targets, Continues, Within

\* The code grows, and what is new in it to be patched is held.
LEMMA Emitted ==
  ASSUME NEW c, NEW d, NEW X, NEW blocks, NEW ls, NEW blocks2, NEW ls2,
         Targets(c, blocks, ls), Continues(c, d, X), Within(ls2, Len(c)),
         Holes(blocks, ls) \subseteq Holes(blocks2, ls2), X \subseteq Holes(blocks2, ls2)
  PROVE  Targets(d, blocks2, ls2)
<1>1. c \in Seq(Instr) /\ Len(c) \in Nat BY TargetsFacts
<1>2. <<>> \in Seq(Instr) OBVIOUS
<1>3. Continues(<<>>, c, Holes(blocks, ls)) BY DEF Targets
<1>4. Continues(<<>>, d, Holes(blocks, ls) \cup X) BY <1>2, <1>3, Together
<1>5. Continues(<<>>, d, Holes(blocks2, ls2)) BY <1>4, More
<1>6. Len(d) \in Nat /\ Len(c) <= Len(d) BY <1>1 DEF Continues
<1>7. Within(ls2, Len(d)) BY <1>1, <1>6, WithinMore
<1> QED BY <1>5, <1>7 DEF Targets

LEMMA EmittedSame ==
  ASSUME NEW c, NEW d, NEW blocks, NEW ls, Targets(c, blocks, ls), Continues(c, d, {})
  PROVE  Targets(d, blocks, ls)
<1>1. Within(ls, Len(c)) BY TargetsFacts
<1> QED BY <1>1, Emitted

LEMMA CompilingFacts ==
  ASSUME CompilerInv, status = "compiling"
  PROVE  /\ scopeDepth = Len(open) /\ Heads(open) /\ Nested(symbols, open)
         /\ Len(loops) = Cardinality(LoopsIn(open)) /\ Targets(code, open, loops)
         /\ code \in Seq(Instr) /\ Len(code) \in Nat /\ Within(loops, Len(code))
         /\ loops \in Seq(Loop) /\ Len(loops) \in Nat
         /\ symbols \in Seq(Sym) /\ Len(symbols) \in Nat /\ DOMAIN symbols = 1..Len(symbols)
         /\ Continues(code, code, {})
<1>1. /\ scopeDepth = Len(open) /\ Heads(open) /\ Nested(symbols, open)
      /\ Len(loops) = Cardinality(LoopsIn(open)) /\ Targets(code, open, loops)
  BY DEF CompilerInv, Compiling
<1>2. symbols \in Seq(Sym) /\ Len(symbols) \in Nat /\ DOMAIN symbols = 1..Len(symbols)
  BY <1>1 DEF Nested
<1>3. /\ code \in Seq(Instr) /\ Len(code) \in Nat /\ Within(loops, Len(code))
      /\ loops \in Seq(Loop) /\ Len(loops) \in Nat
  BY <1>1, TargetsFacts
<1> QED BY <1>1, <1>2, <1>3, Unchanged

\* The code of an expression after that which there is.
LEMMA ExprCode ==
  ASSUME CompilerInv, status = "compiling", NEW e \in Expr
  PROVE  /\ Pushes(code, Compiled(code, e)) /\ Continues(code, Compiled(code, e), {})
         /\ Len(Compiled(code, e)) > Len(code)
<1>1. Pushes(code, Compiled(code, e)) BY CompilingFacts, ExpressionsCompiled
<1> QED BY <1>1 DEF Pushes

LEMMA RejectedInv == ASSUME status' = "rejected" PROVE CompilerInv'
BY DEF CompilerInv, Sealed

LEMMA LetDeclInv == ASSUME CompilerInv, LetDecl PROVE CompilerInv'
<1>1. PICK a \in Assigned["let"] :
        \/ /\ status = "compiling" /\ status' = status /\ code' = Compiled(code, a[2])
           /\ symbols' = Append(symbols, Symbol(a[1], scopeDepth))
           /\ scopeDepth' = scopeDepth /\ loops' = loops /\ open' = open
        \/ status' = "rejected"
  BY DEF LetDecl, NextStmt, Reading, Emit, Reject
<1>2. CASE status' = "rejected" BY <1>2, RejectedInv
<1>3. CASE /\ status = "compiling" /\ status' = status /\ code' = Compiled(code, a[2])
           /\ symbols' = Append(symbols, Symbol(a[1], scopeDepth))
           /\ scopeDepth' = scopeDepth /\ loops' = loops /\ open' = open
  <2>1. a[1] \in Name /\ a[2] \in Expr
    <3>1. a \in Name \X Expr BY ExprAssumption
    <3> QED BY <3>1
  <2>2. Nested(symbols', open)
    <3>1. Nested(Append(symbols, Symbol(a[1], Len(open))), open)
      BY <1>3, <2>1, CompilingFacts, Declare
    <3> QED BY <1>3, <3>1, CompilingFacts
  <2>3. Targets(code', open, loops)
    <3>1. Targets(Compiled(code, a[2]), open, loops)
      BY <1>3, <2>1, ExprCode, CompilingFacts, EmittedSame
    <3> QED BY <1>3, <3>1
  <2>4. Compiling(code', symbols', open', loops')
    BY <1>3, <2>2, <2>3, CompilingFacts DEF Compiling
  <2> QED BY <1>3, <2>4, CompilingFacts DEF CompilerInv, Sealed
<1> QED BY <1>1, <1>2, <1>3

\* A statement that leaves the scopes as they are.
LEMMA SameScopeInv ==
  ASSUME CompilerInv, status = "compiling", status' = status, Continues(code, code', {}),
         symbols' = symbols, scopeDepth' = scopeDepth, loops' = loops, open' = open
  PROVE  CompilerInv'
<1>1. PICK d : d = code' OBVIOUS
<1>2. Targets(d, open, loops) BY <1>1, CompilingFacts, EmittedSame
<1>3. Compiling(code', symbols', open', loops') BY <1>1, <1>2, CompilingFacts DEF Compiling
<1> QED BY <1>3, CompilingFacts DEF CompilerInv, Sealed

LEMMA AssignStmtInv == ASSUME CompilerInv, AssignStmt PROVE CompilerInv'
<1>1. PICK a \in Assigned["assign"] :
        /\ status = "compiling" /\ status' = status
        /\ code' = EmitStore(Compiled(code, a[2]), Slot(a[1]))
        /\ symbols' = symbols /\ scopeDepth' = scopeDepth /\ loops' = loops /\ open' = open
  BY DEF AssignStmt, NextStmt, Reading, Emit, SameScope
<1>2. a[2] \in Expr
  <2>1. a \in Name \X Expr BY ExprAssumption
  <2> QED BY <2>1
<1>3. Slot(a[1]) \in Int BY <1>1, CompilingFacts, SlotFacts
<1>4. Continues(code, Compiled(code, a[2]), {}) /\ Len(Compiled(code, a[2])) > Len(code)
      /\ code \in Seq(Instr)
  BY <1>1, <1>2, ExprCode, CompilingFacts
<1>5. Continues(code, EmitStore(Compiled(code, a[2]), Slot(a[1])), {}) BY <1>3, <1>4, StoreFacts
<1> QED BY <1>1, <1>5, SameScopeInv

LEMMA AssignOpInv == ASSUME CompilerInv, AssignOp PROVE CompilerInv'
<1> DEFINE load(n) == Append(code, <<"LOAD_LOCAL", Slot(n)>>)
<1>1. PICK a \in Assigned["op"] :
        /\ status = "compiling" /\ status' = status
        /\ code' = EmitStore(Append(Compiled(load(a[1]), a[2]), <<"ADD">>), Slot(a[1]))
        /\ symbols' = symbols /\ scopeDepth' = scopeDepth /\ loops' = loops /\ open' = open
  BY DEF AssignOp, NextStmt, Reading, Emit, SameScope
<1>2. a[2] \in Expr
  <2>1. a \in Name \X Expr BY ExprAssumption
  <2> QED BY <2>1
<1>3. Slot(a[1]) \in Int /\ Plain(<<"LOAD_LOCAL", Slot(a[1])>>) /\ Plain(<<"ADD">>)
  BY <1>1, CompilingFacts, SlotFacts, InstrFacts
<1> DEFINE l == load(a[1])
           i == <<"LOAD_LOCAL", Slot(a[1])>>
           both == Compiled(l, a[2])
           add == <<"ADD">>
<1>4. code \in Seq(Instr) /\ Len(symbols) \in Nat BY <1>1, CompilingFacts
<1>5. Continues(code, l, {}) /\ l \in Seq(Instr) /\ Len(l) > Len(code) /\ Len(code) \in Nat
  <2>1. Plain(i) BY <1>3
  <2> HIDE DEF i
  <2>2. Pushes(code, Append(code, i)) BY <1>4, <2>1, PushOne
  <2> QED BY <1>4, <2>2 DEF Pushes, Continues, i
<1> HIDE DEF l, load
<1>6. Pushes(l, both) BY <1>2, <1>4, <1>5, ExpressionsCompiled
<1>7. Continues(l, both, {}) /\ Len(both) > Len(l) BY <1>6 DEF Pushes
<1> HIDE DEF both
<1>8. Continues(code, both, {} \cup {}) BY <1>4, <1>5, <1>7, Together
<1>9. Continues(code, both, {}) /\ both \in Seq(Instr) /\ Len(both) > Len(code)
  <2>1. Len(l) \in Nat /\ both \in Seq(Instr) BY <1>7 DEF Continues
  <2>2. {} \cup {} = {} OBVIOUS
  <2> QED BY <1>5, <1>7, <1>8, <2>1, <2>2
<1>10. Plain(add) BY <1>3
<1> HIDE DEF add
<1>11. Continues(code, Append(both, add), {}) BY <1>4, <1>9, <1>10, AppendPlain
<1>12. Len(Append(both, add)) > Len(code)
  <2>1. Len(both) \in Nat /\ Len(Append(both, add)) = Len(both) + 1
    BY <1>9, <1>10 DEF Plain
  <2> QED BY <1>5, <1>9, <2>1
<1>13. Continues(code, EmitStore(Append(both, add), Slot(a[1])), {})
  BY <1>3, <1>4, <1>11, <1>12, StoreFacts
<1>14. code' = EmitStore(Append(both, add), Slot(a[1])) BY <1>1 DEF both, add, l, load
<1>15. Continues(code, code', {}) BY <1>13, <1>14
<1> QED BY <1>1, <1>15, SameScopeInv

LEMMA ExprStmtInv == ASSUME CompilerInv, ExprStmt PROVE CompilerInv'
<1>1. PICK e \in Exprs["do"] :
        /\ status = "compiling" /\ status' = status
        /\ code' = Append(Compiled(code, e), <<"POP">>)
        /\ symbols' = symbols /\ scopeDepth' = scopeDepth /\ loops' = loops /\ open' = open
  BY DEF ExprStmt, NextStmt, Reading, Emit, SameScope
<1>2. e \in Expr BY ExprAssumption
<1> DEFINE i == <<"POP">>
<1>3. Plain(i) BY InstrFacts
<1>4. code' = Append(Compiled(code, e), i) BY <1>1
<1> HIDE DEF i
<1>5. Continues(code, Append(Compiled(code, e), i), {})
  BY <1>1, <1>2, <1>3, ExprCode, CompilingFacts, AppendPlain
<1> QED BY <1>1, <1>4, <1>5, SameScopeInv

LEMMA ReturnStmtInv == ASSUME CompilerInv, ReturnStmt PROVE CompilerInv'
<1>1. PICK e \in Exprs["return"] :
        /\ status = "compiling" /\ status' = status
        /\ code' = EmitReturn(Compiled(code, e))
        /\ symbols' = symbols /\ scopeDepth' = scopeDepth /\ loops' = loops /\ open' = open
  BY DEF ReturnStmt, NextStmt, Reading, Emit, SameScope
<1>2. e \in Expr BY ExprAssumption
<1>3. Continues(code, EmitReturn(Compiled(code, e)), {})
  BY <1>1, <1>2, ExprCode, CompilingFacts, ReturnFacts
<1> QED BY <1>1, <1>3, SameScopeInv

LEMMA UndefinedInv == ASSUME Undefined PROVE CompilerInv'
BY RejectedInv DEF Undefined, Reject

LEMMA BegunFacts ==
  ASSUME Len(symbols) \in Nat, NEW kind \in Kinds
  PROVE  Begun(kind) \in Block /\ Begun(kind).kind = kind /\ Begun(kind).level = Len(symbols)
BY ExprAssumption DEF Begun, Block

\* A block or a head begins.
LEMMA BeginInv ==
  ASSUME CompilerInv, status = "compiling", status' = status, Last(open).kind \in Blocks,
         NEW kind \in {"block", "if"}, open' = Append(open, Begun(kind)),
         code' = code, symbols' = symbols, scopeDepth' = scopeDepth + 1, loops' = loops
  PROVE  CompilerInv'
<1> DEFINE b == Begun(kind)
<1>1. b \in Block /\ b.kind = kind /\ b.level = Len(symbols)
  <2>1. kind \in Kinds BY DEF Kinds, Blocks
  <2> QED BY <2>1, BegunFacts, CompilingFacts
<1>2. /\ b.kind # "body" /\ ~ IsLoop(b)
      /\ b.kind = "then" <=> Last(open).kind = "if"
      /\ b.kind = "do" <=> Last(open).kind = "while"
  BY <1>1 DEF IsLoop, Blocks
<1> HIDE DEF b
<1> DEFINE more == Append(open, b)
<1>3. Heads(more) /\ Nested(symbols, more) /\ Len(more) = Len(open) + 1
  BY <1>1, <1>2, CompilingFacts, OpenBlock
<1>4. Cardinality(LoopsIn(more)) = Len(loops)
  <2>1. open \in Seq(Block) BY CompilingFacts, OpenFacts
  <2> QED BY <1>1, <1>2, <2>1, CompilingFacts, OpenLoops
<1>5. Holes(open, loops) \subseteq Holes(more, loops) BY <1>1, CompilingFacts, OpenHoles
<1>6. Targets(code, more, loops) BY <1>5, CompilingFacts DEF Targets, Continues
<1> HIDE DEF more
<1>7. Compiling(code, symbols, more, loops) BY <1>3, <1>4, <1>6 DEF Compiling
<1>8. open' = more BY DEF more, b
<1>9. Compiling(code', symbols', open', loops') BY <1>7, <1>8
<1> QED BY <1>3, <1>8, <1>9, CompilingFacts DEF CompilerInv, Sealed

LEMMA BeginBlockInv == ASSUME CompilerInv, BeginBlock PROVE CompilerInv'
<1>1. /\ status = "compiling" /\ status' = status /\ Last(open).kind \in Blocks
      /\ open' = Append(open, Begun("block"))
      /\ code' = code /\ symbols' = symbols /\ scopeDepth' = scopeDepth + 1 /\ loops' = loops
  BY DEF BeginBlock, NextStmt, Reading, Emit
<1> QED BY <1>1, BeginInv

LEMMA BeginIfInv == ASSUME CompilerInv, BeginIf PROVE CompilerInv'
<1>1. /\ status = "compiling" /\ status' = status /\ Last(open).kind \in Blocks
      /\ open' = Append(open, Begun("if"))
      /\ code' = code /\ symbols' = symbols /\ scopeDepth' = scopeDepth + 1 /\ loops' = loops
  BY DEF BeginIf, NextStmt, Reading, Emit
<1> QED BY <1>1, BeginInv

LEMMA BeginLoopInv == ASSUME CompilerInv, BeginLoop PROVE CompilerInv'
<1> DEFINE l == [off |-> Offset(code), level |-> Len(symbols),
                 inner |-> Len(symbols), jumps |-> <<>>]
<1>1. PICK kind \in {"loop", "while"} :
        /\ status = "compiling" /\ status' = status /\ Last(open).kind \in Blocks
        /\ loops' = Append(loops, l) /\ open' = Append(open, Begun(kind))
        /\ code' = code /\ symbols' = symbols /\ scopeDepth' = scopeDepth + 1
  BY DEF BeginLoop, NextStmt, Reading, Emit
<1>2. Offset(code) \in Nat /\ Offset(code) <= Len(code) BY <1>1, CompilingFacts, OffsetFacts
<1>3. l \in Loop /\ l.off <= Len(code)
  <2>1. Len(symbols) \in Nat /\ <<>> \in Seq(Nat) BY <1>1, CompilingFacts
  <2> QED BY <1>2, <2>1 DEF Loop
<1> HIDE DEF l
<1> DEFINE b == Begun(kind)
<1>4. b \in Block /\ b.kind = kind /\ b.level = Len(symbols)
  <2>1. kind \in Kinds BY DEF Kinds, Blocks
  <2> QED BY <1>1, <2>1, BegunFacts, CompilingFacts
<1>5. /\ b.kind # "body" /\ IsLoop(b)
      /\ b.kind = "then" <=> Last(open).kind = "if"
      /\ b.kind = "do" <=> Last(open).kind = "while"
  BY <1>1, <1>4 DEF IsLoop, Blocks
<1> HIDE DEF b
<1> DEFINE more == Append(open, b)
           ls == Append(loops, l)
<1>6. Heads(more) /\ Nested(symbols, more) /\ Len(more) = Len(open) + 1
  BY <1>1, <1>4, <1>5, CompilingFacts, OpenBlock
<1>7. /\ Within(ls, Len(code)) /\ Len(ls) = Len(loops) + 1
      /\ Holes(more, loops) \subseteq Holes(more, ls)
  BY <1>1, <1>3, CompilingFacts, BeginFacts
<1>8. Cardinality(LoopsIn(more)) = Len(ls)
  <2>1. open \in Seq(Block) BY <1>1, CompilingFacts, OpenFacts
  <2>2. Cardinality(LoopsIn(more)) = Cardinality(LoopsIn(open)) + 1
    BY <1>4, <1>5, <2>1, OpenLoops
  <2> QED BY <1>1, <1>7, <2>2, CompilingFacts
<1>9. Holes(open, loops) \subseteq Holes(more, ls)
  <2>1. Holes(open, loops) \subseteq Holes(more, loops) BY <1>1, <1>4, CompilingFacts, OpenHoles
  <2> QED BY <1>7, <2>1
<1>10. Targets(code, more, ls) BY <1>1, <1>7, <1>9, CompilingFacts DEF Targets, Continues
<1> HIDE DEF more, ls
<1>11. Compiling(code, symbols, more, ls) BY <1>6, <1>8, <1>10 DEF Compiling
<1>12. open' = more /\ loops' = ls BY <1>1 DEF more, b, ls
<1>13. Compiling(code', symbols', open', loops') BY <1>1, <1>11, <1>12
<1> QED BY <1>1, <1>6, <1>12, <1>13, CompilingFacts DEF CompilerInv, Sealed

LEMMA BreakStmtInv == ASSUME CompilerInv, BreakStmt PROVE CompilerInv'
<1> DEFINE n == Len(loops)
           r == [loops EXCEPT ![n].jumps = Append(@, Len(code))]
<1>1. \/ /\ status = "compiling" /\ status' = status /\ loops # <<>>
         /\ code' = Append(code, Nop) /\ loops' = r
         /\ symbols' = symbols /\ scopeDepth' = scopeDepth /\ open' = open
      \/ status' = "rejected"
  BY DEF BreakStmt, NextStmt, Reading, Emit, Reject, Here
<1>2. CASE status' = "rejected" BY <1>2, RejectedInv
<1>3. CASE /\ status = "compiling" /\ status' = status /\ loops # <<>>
           /\ code' = Append(code, Nop) /\ loops' = r
           /\ symbols' = symbols /\ scopeDepth' = scopeDepth /\ open' = open
  <2>1. /\ loops \in Seq(Loop) /\ n \in Nat /\ n > 0 /\ n \in 1..n /\ n \in DOMAIN loops
        /\ Last(loops) = loops[n] /\ Last(loops) \in Loop /\ Within(loops, Len(code))
        /\ code \in Seq(Instr) /\ Len(code) \in Nat /\ Targets(code, open, loops)
        /\ Continues(code, code, {})
    <3>1. loops \in Seq(Loop) /\ loops # <<>> BY <1>3, CompilingFacts
    <3>2. n > 0 /\ DOMAIN loops = 1..n BY <3>1
    <3> QED BY <1>3, <3>1, <3>2, CompilingFacts, SeqFacts
  <2> DEFINE old == Last(loops)
             l == [old EXCEPT !.jumps = Append(@, Len(code))]
             js == Append(old.jumps, Len(code))
  <2>2. old.jumps \in Seq(Nat) /\ old.off \in Nat /\ old.level \in Nat /\ old.inner \in Nat
    BY <2>1, LoopFacts
  <2>3. /\ js \in Seq(Nat) /\ Len(js) = Len(old.jumps) + 1 /\ Len(old.jumps) \in Nat
        /\ js[Len(old.jumps) + 1] = Len(code)
        /\ \A m \in 1..Len(old.jumps) : js[m] = old.jumps[m]
    BY <2>1, <2>2, AppendFacts
  <2>4. DOMAIN js = 1..(Len(old.jumps) + 1) /\ DOMAIN old.jumps = 1..Len(old.jumps)
    BY <2>2, <2>3
  <2>5. l \in Loop /\ l.jumps = js /\ l.off = old.off BY <2>1, <2>2, <2>3 DEF Loop
  <2>6. r = [loops EXCEPT ![n] = l] BY <2>1
  <2> HIDE DEF l, js
  <2>7. \A m \in DOMAIN old.jumps : m \in DOMAIN l.jumps /\ l.jumps[m] = old.jumps[m]
    BY <2>3, <2>4, <2>5
  <2>8. \E m \in DOMAIN l.jumps : l.jumps[m] = Len(code)
    <3>1. Len(old.jumps) + 1 \in DOMAIN js BY <2>3, <2>4
    <3> QED BY <2>3, <2>5, <3>1
  <2> DEFINE ls == [loops EXCEPT ![n] = l]
  <2>9. /\ Within(ls, Len(code)) /\ Len(ls) = n
        /\ Holes(open, loops) \subseteq Holes(open, ls)
        /\ \A m \in DOMAIN l.jumps : l.jumps[m] \in Holes(open, ls)
    BY <2>1, <2>5, <2>7, ChangeFacts
  <2> HIDE DEF ls
  <2>10. Continues(code, Append(code, Nop), {} \cup {Len(code)})
    BY <2>1, InstrFacts, AppendOne
  <2>11. {} \cup {Len(code)} \subseteq Holes(open, ls) BY <2>8, <2>9
  <2>12. Targets(Append(code, Nop), open, ls) BY <2>1, <2>9, <2>10, <2>11, Emitted
  <2>13. loops' = ls BY <1>3, <2>6 DEF ls
  <2>14. Compiling(code', symbols', open', loops')
    BY <1>3, <2>9, <2>12, <2>13, CompilingFacts DEF Compiling
  <2> QED BY <1>3, <2>14, CompilingFacts DEF CompilerInv, Sealed
<1> QED BY <1>1, <1>2, <1>3

LEMMA ContinueStmtInv == ASSUME CompilerInv, ContinueStmt PROVE CompilerInv'
<1>1. \/ /\ status = "compiling" /\ status' = status /\ loops # <<>>
         /\ code' = Append(code, <<"JUMP", Last(loops).off>>)
         /\ symbols' = symbols /\ scopeDepth' = scopeDepth /\ loops' = loops /\ open' = open
      \/ status' = "rejected"
  BY DEF ContinueStmt, NextStmt, Reading, Emit, Reject, SameScope
<1>2. CASE status' = "rejected" BY <1>2, RejectedInv
<1>3. CASE /\ status = "compiling" /\ status' = status /\ loops # <<>>
           /\ code' = Append(code, <<"JUMP", Last(loops).off>>)
           /\ symbols' = symbols /\ scopeDepth' = scopeDepth /\ loops' = loops /\ open' = open
  <2>1. Last(loops).off \in Nat /\ Last(loops).off <= Len(code)
    <3>1. loops \in Seq(Loop) /\ loops # <<>> BY <1>3, CompilingFacts
    <3>2. Len(loops) > 0 BY <3>1
    <3> QED BY <1>3, <3>2, CompilingFacts, EndFacts
  <2>2. Continues(code, Append(code, <<"JUMP", Last(loops).off>>), {})
    BY <1>3, <2>1, CompilingFacts, JumpNames, AppendJump
  <2> QED BY <1>3, <2>2, SameScopeInv
<1> QED BY <1>1, <1>2, <1>3

LEMMA FrontFront ==
  ASSUME NEW S, NEW s \in Seq(S), Len(s) > 1
  PROVE  /\ SubSeq(s, 1, Len(s) - 2) = Front(Front(s))
         /\ Last(Front(s)) = s[Len(s) - 1]
<1> DEFINE n == Len(s)
           f == Front(s)
           g == Front(f)
           t == SubSeq(s, 1, n - 2)
<1>1. /\ n \in Nat /\ n > 0 /\ n - 1 \in 1..n /\ n - 1 \in 1..(n - 1) /\ n - 2 \in 0..n
      /\ (n - 1) - 1 = n - 2
  OBVIOUS
<1>2. f \in Seq(S) /\ Len(f) = n - 1 /\ \A k \in 1..(n - 1) : f[k] = s[k]
  <2>1. Len(s) > 0 BY <1>1
  <2> QED BY <2>1, SeqFacts
<1>3. Len(f) > 0 BY <1>1, <1>2
<1> HIDE DEF f
<1>4. /\ g \in Seq(S) /\ Len(g) = n - 2 /\ \A k \in 1..(n - 2) : g[k] = f[k]
      /\ Last(f) = f[n - 1]
  <2>1. g \in Seq(S) /\ Len(g) = Len(f) - 1 /\ \A k \in 1..(Len(f) - 1) : g[k] = f[k]
    BY <1>2, <1>3, SeqFacts
  <2>2. Last(f) = f[Len(f)] BY <1>2, <1>3, SeqFacts
  <2>3. Len(f) - 1 = n - 2 BY <1>1, <1>2
  <2> QED BY <1>2, <2>1, <2>2, <2>3
<1>5. t \in Seq(S) /\ Len(t) = n - 2 /\ \A k \in 1..(n - 2) : t[k] = s[k]
  <2>1. \A q \in Seq(S) : \A m \in 0..Len(q) :
          SubSeq(q, 1, m) \in Seq(S) /\ Len(SubSeq(q, 1, m)) = m
          /\ \A k \in 1..m : SubSeq(q, 1, m)[k] = q[k]
    OBVIOUS
  <2> QED BY <1>1, <2>1
<1> HIDE DEF g, t
<1>6. \A k \in 1..(n - 2) : k \in 1..(n - 1) BY <1>1
<1>7. \A k \in 1..Len(t) : t[k] = g[k] BY <1>2, <1>4, <1>5, <1>6
<1>8. t = g BY <1>4, <1>5, <1>7, SeqEqual
<1>9. Last(f) = s[n - 1]
  <2>1. n - 1 \in 1..(n - 1) BY <1>1
  <2>2. f[n - 1] = s[n - 1] BY <1>2, <2>1
  <2> QED BY <1>4, <2>2
<1> QED BY <1>8, <1>9 DEF f, g, t

\* What the end of the block or head that is innermost does to the compiler's account.
LEMMA ClosedFacts ==
  ASSUME CompilerInv, status = "compiling", Last(open).kind # "body"
  PROVE  /\ Heads(Front(open)) /\ Nested(Without(symbols, scopeDepth), Front(open))
         /\ Len(Front(open)) = scopeDepth - 1
         /\ Len(loops) = IF IsLoop(Last(open)) THEN Cardinality(LoopsIn(Front(open))) + 1
                         ELSE Cardinality(LoopsIn(Front(open)))
         /\ Continues(code, Discarded(code, symbols, scopeDepth), {})
         /\ Discarded(code, symbols, scopeDepth) \in Seq(Instr)
         /\ Targets(Discarded(code, symbols, scopeDepth), open, loops)
         /\ Len(Discarded(code, symbols, scopeDepth)) \in Nat
<1>1. /\ Heads(Front(open)) /\ Nested(Without(symbols, scopeDepth), Front(open))
      /\ Len(Front(open)) = scopeDepth - 1
  BY CompilingFacts, CloseBlock
<1>2. Len(loops) = IF IsLoop(Last(open)) THEN Cardinality(LoopsIn(Front(open))) + 1
                   ELSE Cardinality(LoopsIn(Front(open)))
  <2>1. /\ Cardinality(LoopsIn(Front(open))) =
             IF IsLoop(Last(open)) THEN Cardinality(LoopsIn(open)) - 1
             ELSE Cardinality(LoopsIn(open))
        /\ Cardinality(LoopsIn(open)) \in Nat
    BY CompilingFacts, CloseLoops
  <2> QED BY <2>1, CompilingFacts
<1>3. /\ Continues(code, Discarded(code, symbols, scopeDepth), {})
      /\ Discarded(code, symbols, scopeDepth) \in Seq(Instr)
  BY CompilingFacts, DiscardFacts
<1>4. Targets(Discarded(code, symbols, scopeDepth), open, loops)
  BY <1>3, CompilingFacts, EmittedSame
<1>5. Len(Discarded(code, symbols, scopeDepth)) \in Nat BY <1>4, TargetsFacts
<1> QED BY <1>1, <1>2, <1>3, <1>4, <1>5

LEMMA EndBlockInv == ASSUME CompilerInv, EndBlock PROVE CompilerInv'
<1> DEFINE d == Discarded(code, symbols, scopeDepth)
           outer == Without(symbols, scopeDepth)
           rest == Front(open)
<1>1. /\ status = "compiling" /\ status' = status /\ Last(open).kind \in {"block", "else"}
      /\ code' = d /\ symbols' = outer /\ scopeDepth' = scopeDepth - 1
      /\ open' = rest /\ loops' = loops
  BY DEF EndBlock, Reading, Emit
<1>2. /\ Heads(rest) /\ Nested(outer, rest) /\ Len(rest) = scopeDepth - 1
      /\ Len(loops) = Cardinality(LoopsIn(rest)) /\ Targets(d, open, loops)
  BY <1>1, ClosedFacts DEF IsLoop
<1>3. Holes(open, loops) \subseteq Holes(rest, loops) BY <1>1, CompilingFacts, CloseHoles
<1>4. Targets(d, rest, loops) BY <1>2, <1>3, More DEF Targets
<1> HIDE DEF d, outer, rest
<1>5. Compiling(code', symbols', open', loops') BY <1>1, <1>2, <1>4 DEF Compiling
<1> QED BY <1>1, <1>2, <1>5 DEF CompilerInv, Sealed

\* A jump that was held is patched.
LEMMA PatchedHole ==
  ASSUME NEW d, NEW X, NEW off \in Nat, NEW op \in Jumps, Continues(<<>>, d, X)
  PROVE  /\ Continues(<<>>, Patch(d, off, <<op, Offset(d)>>), X \ {off})
         /\ Patch(d, off, <<op, Offset(d)>>) \in Seq(Instr)
         /\ Len(Patch(d, off, <<op, Offset(d)>>)) = Len(d)
<1> DEFINE i == <<op, Offset(d)>>
<1>1. d \in Seq(Instr) /\ Len(d) \in Nat /\ <<>> \in Seq(Instr) /\ off >= Len(<<>>)
  BY DEF Continues
<1>2. Offset(d) \in Nat /\ Offset(d) <= Len(d) BY <1>1, OffsetFacts
<1>3. Offset(d) \in Int BY <1>2
<1>4. i \in Instr /\ i # Nop /\ i[2] <= Len(d) BY <1>2, <1>3, JumpFacts
<1> HIDE DEF i
<1>5. Continues(<<>>, Patch(d, off, i), X \ {off}) BY <1>1, <1>4, PatchOne
<1>6. Patch(d, off, i) \in Seq(Instr) /\ Len(Patch(d, off, i)) = Len(d)
  BY <1>1, <1>4, PatchFacts
<1> QED BY <1>5, <1>6 DEF i

LEMMA EndIfInv == ASSUME CompilerInv, EndIf PROVE CompilerInv'
<1> DEFINE head == Last(open)
           p == Patch(code, head.jump, <<"JUMP", Offset(code)>>)
           d == Discarded(p, symbols, scopeDepth)
           outer == Without(symbols, scopeDepth)
           rest == Front(open)
<1>1. /\ status = "compiling" /\ status' = status /\ head.kind \in {"rest", "ending"}
      /\ code' = d /\ symbols' = outer /\ scopeDepth' = scopeDepth - 1
      /\ open' = rest /\ loops' = loops
  BY DEF EndIf, Reading, Emit
<1>2. /\ Heads(rest) /\ Nested(outer, rest) /\ Len(rest) = scopeDepth - 1
      /\ Len(loops) = Cardinality(LoopsIn(rest))
  BY <1>1, ClosedFacts DEF IsLoop
<1>3. head.jump \in Nat BY <1>1, CompilingFacts, OpenFacts, BlockFacts
<1>4. Continues(<<>>, code, Holes(open, loops)) BY <1>1, CompilingFacts DEF Targets
<1>5. /\ Continues(<<>>, p, Holes(open, loops) \ {head.jump}) /\ p \in Seq(Instr)
      /\ Len(p) = Len(code)
  BY <1>3, <1>4, JumpNames, PatchedHole
<1> HIDE DEF p
<1>6. Continues(p, d, {}) BY <1>1, <1>5, CompilingFacts, DiscardFacts
<1>7. Continues(<<>>, d, (Holes(open, loops) \ {head.jump}) \cup {})
  <2>1. <<>> \in Seq(Instr) OBVIOUS
  <2> QED BY <1>5, <1>6, <2>1, Together
<1>8. \A off \in Holes(open, loops) : off \in Holes(rest, loops) \/ off = head.jump
  BY <1>1, CompilingFacts, CloseHoles
<1>9. (Holes(open, loops) \ {head.jump}) \cup {} \subseteq Holes(rest, loops) BY <1>8
<1>10. Continues(<<>>, d, Holes(rest, loops)) BY <1>7, <1>9, More
<1>11. Within(loops, Len(d))
  <2>1. Len(d) \in Nat /\ Len(d) >= Len(p) BY <1>6 DEF Continues
  <2>2. Within(loops, Len(code)) /\ Len(code) \in Nat BY <1>1, CompilingFacts
  <2>3. Len(code) <= Len(d) BY <1>5, <2>1, <2>2
  <2> QED BY <2>1, <2>2, <2>3, WithinMore
<1>12. Targets(d, rest, loops) BY <1>10, <1>11 DEF Targets
<1> HIDE DEF d, outer, rest
<1>13. Compiling(code', symbols', open', loops') BY <1>1, <1>2, <1>12 DEF Compiling
<1> QED BY <1>1, <1>2, <1>13 DEF CompilerInv, Sealed

LEMMA EndLoopInv == ASSUME CompilerInv, EndLoop PROVE CompilerInv'
<1> DEFINE loop == Last(loops)
           left == Discarded(code, symbols, scopeDepth)
           c == Append(left, <<"JUMP", loop.off>>)
           d == Joined(c, loop)
           outer == Without(symbols, scopeDepth)
           rest == Front(open)
           ls == Front(loops)
<1>1. /\ status = "compiling" /\ status' = status /\ Last(open).kind = "loop"
      /\ code' = d /\ symbols' = outer /\ scopeDepth' = scopeDepth - 1
      /\ open' = rest /\ loops' = ls
  BY DEF EndLoop, Reading, Emit
<1>2. /\ Heads(rest) /\ Nested(outer, rest) /\ Len(rest) = scopeDepth - 1
      /\ Len(loops) = Cardinality(LoopsIn(rest)) + 1
      /\ Continues(code, left, {}) /\ left \in Seq(Instr) /\ Len(left) \in Nat
  BY <1>1, ClosedFacts DEF IsLoop
<1>3. /\ Len(loops) > 0 /\ Cardinality(LoopsIn(rest)) \in Nat
  <2>1. rest \in Seq(Block) BY <1>2, OpenFacts
  <2>2. Cardinality(LoopsIn(rest)) \in Nat BY <2>1, LoopsInFinite
  <2> QED BY <1>2, <2>2
<1>4. /\ Within(ls, Len(code)) /\ Len(ls) = Len(loops) - 1 /\ loop \in Loop
      /\ loop.off \in Nat /\ loop.off <= Len(code)
      /\ \A off \in Holes(open, loops) :
           \/ off \in Holes(open, ls)
           \/ \E m \in DOMAIN loop.jumps : loop.jumps[m] = off
  <2>1. Within(loops, Len(code)) /\ Len(code) \in Nat BY <1>1, CompilingFacts
  <2>2. Within(Front(loops), Len(code)) /\ Len(Front(loops)) = Len(loops) - 1
        /\ Last(loops) \in Loop /\ Last(loops).off \in Nat /\ Last(loops).off <= Len(code)
    BY <1>3, <2>1, EndFacts
  <2>3. \A off \in Holes(open, loops) :
           \/ off \in Holes(open, Front(loops))
           \/ \E m \in DOMAIN Last(loops).jumps : Last(loops).jumps[m] = off
    BY <1>1, <1>3, CompilingFacts, EndHoles
  <2> QED BY <2>2, <2>3
<1>5. Continues(code, c, {})
  <2>1. Len(code) \in Nat /\ Len(code) <= Len(left) BY <1>1, <1>2, CompilingFacts DEF Continues
  <2>2. loop.off <= Len(left) BY <1>2, <1>4, <2>1
  <2> HIDE DEF left, loop
  <2> QED BY <1>1, <1>2, <1>4, <2>2, CompilingFacts, JumpNames, AppendJump
<1>6. Targets(c, open, loops) BY <1>1, <1>5, CompilingFacts, EmittedSame
<1>7. Len(code) \in Nat /\ Len(c) \in Nat /\ Len(code) <= Len(c)
  BY <1>1, <1>5, CompilingFacts DEF Continues
<1> HIDE DEF c
<1> DEFINE X == {off \in Holes(open, loops) : \A j \in DOMAIN loop.jumps : loop.jumps[j] # off}
<1>8. Continues(<<>>, d, X) /\ Len(d) = Len(c)
  <2>1. Continues(<<>>, c, Holes(open, loops)) BY <1>6 DEF Targets
  <2> QED BY <1>4, <2>1, JoinedFacts
<1>9. X \subseteq Holes(rest, ls)
  <2>1. \A off \in Holes(open, ls) : off \in Holes(rest, ls)
    BY <1>1, CompilingFacts, CloseHoles
  <2> QED BY <1>4, <2>1
<1>10. Continues(<<>>, d, Holes(rest, ls)) BY <1>8, <1>9, More
<1>11. Within(ls, Len(d)) BY <1>4, <1>7, <1>8, WithinMore
<1>12. Targets(d, rest, ls) BY <1>10, <1>11 DEF Targets
<1>13. Len(ls) = Cardinality(LoopsIn(rest)) BY <1>2, <1>3, <1>4
<1> HIDE DEF d, outer, rest, ls
<1>14. Compiling(code', symbols', open', loops') BY <1>1, <1>2, <1>12, <1>13 DEF Compiling
<1> QED BY <1>1, <1>2, <1>14 DEF CompilerInv, Sealed

\* A head has its block begun, or its end awaited: it is still the innermost head.
LEMMA HeadChanged ==
  ASSUME NEW syms, NEW blocks, NEW b \in Block, Heads(blocks), Nested(syms, blocks),
         b.level = Last(blocks).level,
         \/ b.kind = Last(blocks).kind
         \/ /\ b.kind \in {"rest", "ending"}
            /\ Last(blocks).kind \in {"if", "rest", "ending"}
  PROVE  /\ Heads(Append(Front(blocks), b)) /\ Nested(syms, Append(Front(blocks), b))
         /\ Len(Append(Front(blocks), b)) = Len(blocks)
         /\ Cardinality(LoopsIn(Append(Front(blocks), b))) = Cardinality(LoopsIn(blocks))
         /\ Last(Append(Front(blocks), b)) = b
<1>1. /\ Heads(Append(Front(blocks), b)) /\ Nested(syms, Append(Front(blocks), b))
      /\ Len(Append(Front(blocks), b)) = Len(blocks)
  BY ChangeHead
<1>2. IsLoop(b) <=> IsLoop(Last(blocks)) BY DEF IsLoop
<1>3. LoopsIn(Append(Front(blocks), b)) = LoopsIn(blocks) BY <1>2, ChangeLoops
<1>4. blocks \in Seq(Block) /\ Len(blocks) > 0 BY OpenFacts
<1>5. Last(Append(Front(blocks), b)) = b BY <1>4, ReplacedFacts
<1> QED BY <1>1, <1>3, <1>5

\* `Front(open) \o <<head, block>>'
LEMMA TwoMore ==
  ASSUME NEW s \in Seq(Block), NEW a \in Block, NEW b \in Block
  PROVE  s \o <<a, b>> = Append(Append(s, a), b)
<1> DEFINE l == s \o <<a, b>>
           r == Append(Append(s, a), b)
           n == Len(s)
<1>1. n \in Nat /\ <<a, b>> \in Seq(Block) OBVIOUS
<1>2. l \in Seq(Block) /\ Len(l) = n + 2
      /\ \A k \in 1..(n + 2) : l[k] = IF k <= n THEN s[k] ELSE <<a, b>>[k - n]
  BY <1>1, ConcatProperties
<1>3. Append(s, a) \in Seq(Block) /\ Len(Append(s, a)) = n + 1 /\ Append(s, a)[n + 1] = a
      /\ \A k \in 1..n : Append(s, a)[k] = s[k]
  OBVIOUS
<1>4. r \in Seq(Block) /\ Len(r) = n + 2 /\ r[n + 2] = b
      /\ \A k \in 1..(n + 1) : r[k] = Append(s, a)[k]
  BY <1>1, <1>3
<1> HIDE DEF l, r
<1>5. \A k \in 1..(n + 2) : l[k] = r[k]
  <2> SUFFICES ASSUME NEW k \in 1..(n + 2) PROVE l[k] = r[k] OBVIOUS
  <2>1. CASE k = n + 2 BY <1>1, <1>2, <1>4, <2>1
  <2>2. CASE k = n + 1 BY <1>1, <1>2, <1>3, <1>4, <2>2
  <2>3. CASE k # n + 2 /\ k # n + 1
    <3>1. k \in 1..n /\ k \in 1..(n + 1) BY <1>1, <2>3
    <3> QED BY <1>1, <1>2, <1>3, <1>4, <3>1
  <2> QED BY <2>1, <2>2, <2>3
<1>6. \A k \in 1..Len(l) : l[k] = r[k] BY <1>2, <1>5
<1>7. l = r BY <1>2, <1>4, <1>6, SeqEqual
<1> QED BY <1>7 DEF l, r

LEMMA BeginElseInv == ASSUME CompilerInv, BeginElse PROVE CompilerInv'
<1> DEFINE last == Last(open)
           h == [last EXCEPT !.kind = "ending"]
<1>1. PICK kind \in {"else", "if"} :
        /\ status = "compiling" /\ status' = status /\ last.kind = "rest"
        /\ open' = Front(open) \o <<h, Begun(kind)>>
        /\ code' = code /\ symbols' = symbols /\ scopeDepth' = scopeDepth + 1 /\ loops' = loops
  BY DEF BeginElse, NextStmt, Reading, Emit
<1>2. last \in Block /\ open \in Seq(Block) /\ Front(open) \in Seq(Block)
  BY <1>1, CompilingFacts, OpenFacts
<1>3. h \in Block /\ h.kind = "ending" /\ h.jump = last.jump /\ h.level = last.level
  BY <1>2 DEF Block, Kinds
<1> DEFINE b == Begun(kind)
<1>4. b \in Block /\ b.kind = kind /\ b.level = Len(symbols)
  <2>1. kind \in Kinds BY DEF Kinds, Blocks
  <2> QED BY <1>1, <2>1, BegunFacts, CompilingFacts
<1>5. open' = Append(Append(Front(open), h), b)
  <2> HIDE DEF h, b
  <2>1. Front(open) \o <<h, b>> = Append(Append(Front(open), h), b)
    BY <1>2, <1>3, <1>4, TwoMore
  <2> QED BY <1>1, <2>1 DEF b
<1> HIDE DEF h, b
<1> DEFINE m == Append(Front(open), h)
           more == Append(m, b)
<1>6. /\ Heads(m) /\ Nested(symbols, m) /\ Len(m) = Len(open)
      /\ Cardinality(LoopsIn(m)) = Len(loops) /\ Last(m) = h
      /\ Holes(open, loops) \subseteq Holes(m, loops)
  <2>1. Heads(open) /\ Nested(symbols, open) BY <1>1, CompilingFacts
  <2>2. /\ Heads(m) /\ Nested(symbols, m) /\ Len(m) = Len(open)
        /\ Cardinality(LoopsIn(m)) = Cardinality(LoopsIn(open)) /\ Last(m) = h
    BY <1>1, <1>3, <2>1, HeadChanged
  <2>3. Holes(open, loops) \subseteq Holes(m, loops) BY <1>3, <2>1, ChangeHoles
  <2> QED BY <1>1, <2>2, <2>3, CompilingFacts
<1> HIDE DEF m
<1>7. ~ IsLoop(b) /\ b.kind # "body" /\ (b.kind = "then" <=> Last(m).kind = "if")
      /\ (b.kind = "do" <=> Last(m).kind = "while")
  BY <1>3, <1>4, <1>6 DEF IsLoop
<1>8. Heads(more) /\ Nested(symbols, more) /\ Len(more) = Len(m) + 1
  BY <1>4, <1>6, <1>7, OpenBlock
<1>9. Cardinality(LoopsIn(more)) = Len(loops)
  <2>1. m \in Seq(Block) BY <1>6, OpenFacts
  <2> QED BY <1>4, <1>6, <1>7, <2>1, OpenLoops
<1>10. Holes(m, loops) \subseteq Holes(more, loops) BY <1>4, <1>6, OpenHoles
<1>11. Holes(open, loops) \subseteq Holes(more, loops) BY <1>6, <1>10
<1>12. Targets(code, more, loops) BY <1>1, <1>11, CompilingFacts DEF Targets, Continues
<1>13. open' = more BY <1>5 DEF m
<1> HIDE DEF more
<1>14. Compiling(code, symbols, more, loops) BY <1>8, <1>9, <1>12 DEF Compiling
<1>15. Compiling(code', symbols', open', loops') BY <1>1, <1>13, <1>14
<1>16. scopeDepth' = Len(open') BY <1>1, <1>6, <1>8, <1>13, CompilingFacts
<1> QED BY <1>1, <1>15, <1>16 DEF CompilerInv, Sealed

LEMMA ConditionInv == ASSUME CompilerInv, Condition PROVE CompilerInv'
<1> DEFINE last == Last(open)
           c(e) == Append(Compiled(code, e), Nop)
           head(e) == [last EXCEPT !.jump = Len(c(e)) - 1, !.from = Len(code), !.test = e]
           inner == [loops EXCEPT ![Len(loops)].inner = Len(symbols)]
<1>1. PICK e \in Exprs["test"], body \in {"then", "do"} :
        /\ status = "compiling" /\ status' = status
        /\ last.kind = IF body = "then" THEN "if" ELSE "while"
        /\ open' = Front(open) \o <<head(e), Begun(body)>>
        /\ code' = c(e) /\ symbols' = symbols /\ scopeDepth' = scopeDepth + 1
        /\ loops' = IF body = "then" THEN loops ELSE inner
  BY DEF Condition, Reading, Emit, Here
<1>2. e \in Expr BY ExprAssumption
<1>3. last \in Block /\ open \in Seq(Block) /\ Front(open) \in Seq(Block)
  BY <1>1, CompilingFacts, OpenFacts
<1> DEFINE d == Compiled(code, e)
           off == Len(c(e)) - 1
           h == head(e)
           b == Begun(body)
<1>4. Continues(code, d, {}) /\ code \in Seq(Instr) /\ d \in Seq(Instr) /\ Len(d) \in Nat
  <2>1. Continues(code, d, {}) BY <1>1, <1>2, ExprCode
  <2> QED BY <1>1, <2>1, CompilingFacts DEF Continues
<1>5. Continues(code, c(e), {} \cup {Len(d)}) /\ Len(c(e)) = Len(d) + 1
  <2> HIDE DEF d
  <2>1. Nop \in Instr BY InstrFacts
  <2>2. Nop[1] \notin Jumps BY InstrFacts
  <2>3. Continues(code, Append(d, Nop), {} \cup {Len(d)}) BY <1>4, InstrFacts, AppendOne
  <2>4. Len(Append(d, Nop)) = Len(d) + 1 BY <1>4, <2>1
  <2> QED BY <2>3, <2>4 DEF d
<1>6. off = Len(d) /\ off \in Nat BY <1>4, <1>5
<1>7. h \in Block /\ h.kind = last.kind /\ h.jump = off /\ h.level = last.level
  <2>1. Len(code) \in Nat BY <1>4
  <2> HIDE DEF off, c
  <2>2. h = [last EXCEPT !.jump = off, !.from = Len(code), !.test = e] BY DEF off
  <2> HIDE DEF h, last
  <2> QED BY <1>2, <1>3, <1>6, <2>1, <2>2 DEF Block
<1>8. b \in Block /\ b.kind = body /\ b.level = Len(symbols)
  <2>1. body \in Kinds BY DEF Kinds, Blocks
  <2> QED BY <1>1, <2>1, BegunFacts, CompilingFacts
<1> DEFINE m == Append(Front(open), h)
           more == Append(m, b)
<1>9. open' = more
  <2>1. open' = Front(open) \o <<h, b>> BY <1>1
  <2> HIDE DEF h, b, head
  <2>2. Front(open) \o <<h, b>> = Append(Append(Front(open), h), b)
    BY <1>3, <1>7, <1>8, TwoMore
  <2> QED BY <2>1, <2>2
<1>10. code' = c(e) BY <1>1
<1> HIDE DEF h, b, head, off, c
<1>11. /\ Heads(m) /\ Nested(symbols, m) /\ Len(m) = Len(open)
       /\ Cardinality(LoopsIn(m)) = Len(loops) /\ Last(m) = h
       /\ Holes(open, loops) \subseteq Holes(m, loops)
  <2>1. Heads(open) /\ Nested(symbols, open) BY <1>1, CompilingFacts
  <2>2. /\ Heads(m) /\ Nested(symbols, m) /\ Len(m) = Len(open)
        /\ Cardinality(LoopsIn(m)) = Cardinality(LoopsIn(open)) /\ Last(m) = h
    BY <1>7, <2>1, HeadChanged
  <2>3. last.kind \notin {"rest", "ending"} BY <1>1
  <2>4. Holes(open, loops) \subseteq Holes(m, loops) BY <1>7, <2>1, <2>3, ChangeHoles
  <2> QED BY <1>1, <2>2, <2>4, CompilingFacts
<1> HIDE DEF m
<1>12. ~ IsLoop(b) /\ b.kind # "body" /\ (b.kind = "then" <=> Last(m).kind = "if")
       /\ (b.kind = "do" <=> Last(m).kind = "while")
  BY <1>1, <1>7, <1>8, <1>11 DEF IsLoop
<1>13. Heads(more) /\ Nested(symbols, more) /\ Len(more) = Len(m) + 1
  BY <1>8, <1>11, <1>12, OpenBlock
<1>14. Cardinality(LoopsIn(more)) = Len(loops)
  <2>1. m \in Seq(Block) BY <1>11, OpenFacts
  <2> QED BY <1>8, <1>11, <1>12, <2>1, OpenLoops
<1>15. /\ Holes(m, loops) \subseteq Holes(more, loops)
       /\ Last(m).kind \in {"if", "while"} => Last(m).jump \in Holes(more, loops)
  BY <1>8, <1>11, OpenHoles
<1>16. off \in Holes(more, loops) BY <1>1, <1>7, <1>11, <1>15
<1> HIDE DEF more
<1>17. /\ Within(loops', Len(code)) /\ Len(loops') = Len(loops)
       /\ Holes(more, loops) \subseteq Holes(more, loops')
  <2>1. CASE loops' = loops BY <1>1, <2>1, CompilingFacts
  <2>2. CASE loops' # loops
    <3>1. loops' = inner /\ last.kind = "while" BY <1>1, <2>2
    <3>2. IsLoop(last) BY <3>1 DEF IsLoop
    <3>3. Heads(open) /\ Len(loops) = Cardinality(LoopsIn(open)) BY <1>1, CompilingFacts
    <3>4. Len(loops) > 0 BY <3>2, <3>3, CloseLoops
    <3>5. loops \in Seq(Loop) /\ Within(loops, Len(code)) /\ Len(code) \in Nat /\ Len(symbols) \in Nat
      BY <1>1, CompilingFacts
    <3> DEFINE old == Last(loops)
               l == [old EXCEPT !.inner = Len(symbols)]
    <3>6. old \in Loop /\ old = loops[Len(loops)] /\ Len(loops) \in DOMAIN loops
      <4>1. DOMAIN loops = 1..Len(loops) BY <3>5
      <4> QED BY <3>4, <3>5, <4>1, SeqFacts
    <3>7. l \in Loop /\ l.off = old.off /\ l.jumps = old.jumps BY <3>5, <3>6 DEF Loop
    <3>8. inner = [loops EXCEPT ![Len(loops)] = l] BY <3>6
    <3> HIDE DEF l, inner
    <3> DEFINE r == [loops EXCEPT ![Len(loops)] = l]
    <3>9. Within(r, Len(code)) /\ Len(r) = Len(loops) /\ Holes(more, loops) \subseteq Holes(more, r)
      <4>1. \A i \in DOMAIN old.jumps : i \in DOMAIN l.jumps /\ l.jumps[i] = old.jumps[i]
        BY <3>7
      <4> QED BY <3>4, <3>5, <3>7, <4>1, ChangeFacts
    <3> HIDE DEF r
    <3>10. loops' = r BY <3>1, <3>8 DEF r
    <3> QED BY <3>9, <3>10
  <2> QED BY <2>1, <2>2
<1>18. PICK ls : ls = loops' OBVIOUS
<1>19. Targets(c(e), more, ls)
  <2>1. Holes(open, loops) \subseteq Holes(more, ls) BY <1>11, <1>15, <1>17, <1>18
  <2>2. {} \cup {Len(d)} \subseteq Holes(more, ls) BY <1>6, <1>16, <1>17, <1>18
  <2>3. Within(ls, Len(code)) BY <1>17, <1>18
  <2>4. Targets(code, open, loops) BY <1>1, CompilingFacts
  <2> HIDE DEF d
  <2> QED BY <1>5, <2>1, <2>2, <2>3, <2>4, Emitted
<1>20. Len(ls) = Cardinality(LoopsIn(more)) BY <1>14, <1>17, <1>18
<1>21. Compiling(c(e), symbols, more, ls) BY <1>13, <1>19, <1>20 DEF Compiling
<1>22. Compiling(code', symbols', open', loops') BY <1>1, <1>9, <1>10, <1>18, <1>21
<1>23. scopeDepth' = Len(open') BY <1>1, <1>9, <1>11, <1>13, CompilingFacts
<1> QED BY <1>1, <1>22, <1>23 DEF CompilerInv, Sealed

\* The head of the block of an if or of a while.
LEMMA HeadFacts ==
  ASSUME NEW blocks, Heads(blocks), Last(blocks).kind \in {"then", "do"}
  PROVE  /\ Len(blocks) > 1 /\ Heads(Front(blocks)) /\ Heads(Front(Front(blocks)))
         /\ blocks[Len(blocks) - 1] = Last(Front(blocks))
         /\ blocks[Len(blocks) - 1] \in Block /\ blocks[Len(blocks) - 1].jump \in Nat
         /\ blocks[Len(blocks) - 1].kind = IF Last(blocks).kind = "then" THEN "if" ELSE "while"
         /\ SubSeq(blocks, 1, Len(blocks) - 2) = Front(Front(blocks))
<1> DEFINE n == Len(blocks)
           head == blocks[n - 1]
<1>1. Len(blocks) > 1 /\ Heads(Front(blocks)) BY CloseHeads
<1>2. blocks \in Seq(Block) /\ n \in Nat BY OpenFacts
<1>3. /\ SubSeq(blocks, 1, n - 2) = Front(Front(blocks)) /\ head = Last(Front(blocks))
  BY <1>1, <1>2, FrontFront
<1>4. head \in Block BY <1>1, <1>3, OpenFacts
<1>5. head.jump \in Nat BY <1>4, BlockFacts
<1>6. head.kind = IF Last(blocks).kind = "then" THEN "if" ELSE "while"
  <2>1. n \in DOMAIN blocks /\ Last(blocks) = blocks[n] BY OpenFacts
  <2> QED BY <2>1 DEF Heads
<1>7. Heads(Front(Front(blocks)))
  <2>1. Last(Front(blocks)).kind # "body" BY <1>3, <1>6
  <2> QED BY <1>1, <2>1, CloseHeads
<1> QED BY <1>1, <1>3, <1>4, <1>5, <1>6, <1>7

LEMMA EndThenInv == ASSUME CompilerInv, EndThen PROVE CompilerInv'
<1> DEFINE n == Len(open)
           head == open[n - 1]
           left == Discarded(code, symbols, scopeDepth)
           c == Append(left, Nop)
           d == Patch(c, head.jump, <<"JUMP_IF_FALSE", Offset(c)>>)
           outer == Without(symbols, scopeDepth)
           b == [head EXCEPT !.kind = "rest", !.jump = Len(left)]
           rest == Append(SubSeq(open, 1, n - 2), b)
<1>1. /\ status = "compiling" /\ status' = status /\ Last(open).kind = "then"
      /\ code' = d /\ symbols' = outer /\ scopeDepth' = scopeDepth - 1
      /\ open' = rest /\ loops' = loops
  BY DEF EndThen, Reading, Emit
<1> DEFINE f == Front(open)
           g == Front(f)
<1>2. /\ Heads(f) /\ Nested(outer, f) /\ Len(f) = scopeDepth - 1
      /\ Len(loops) = Cardinality(LoopsIn(f))
      /\ Continues(code, left, {}) /\ left \in Seq(Instr) /\ Len(left) \in Nat
      /\ Targets(left, open, loops)
  BY <1>1, ClosedFacts DEF IsLoop
<1>3. /\ head = Last(f) /\ head \in Block /\ head.jump \in Nat /\ head.kind = "if"
      /\ Heads(g) /\ SubSeq(open, 1, n - 2) = g
  BY <1>1, CompilingFacts, HeadFacts
<1>4. b \in Block /\ b.kind = "rest" /\ b.jump = Len(left) /\ b.level = head.level
  <2> HIDE DEF head, left
  <2> QED BY <1>2, <1>3 DEF Block, Kinds
<1>5. rest = Append(g, b) BY <1>3
<1> HIDE DEF b, rest
<1>6. /\ Heads(rest) /\ Nested(outer, rest) /\ Len(rest) = scopeDepth - 1
      /\ Len(loops) = Cardinality(LoopsIn(rest))
  <2> HIDE DEF outer, f, head
  <2>1. b.level = Last(f).level /\ b.kind \in {"rest", "ending"}
        /\ Last(f).kind \in {"if", "rest", "ending"}
    BY <1>3, <1>4
  <2>2. b \in Block /\ Heads(f) /\ Nested(outer, f) BY <1>2, <1>4
  <2>3. /\ Heads(Append(Front(f), b)) /\ Nested(outer, Append(Front(f), b))
        /\ Len(Append(Front(f), b)) = Len(f)
        /\ Cardinality(LoopsIn(Append(Front(f), b))) = Cardinality(LoopsIn(f))
    BY <2>1, <2>2, HeadChanged
  <2> QED BY <1>2, <1>5, <2>3
<1>7. /\ Continues(left, c, {} \cup {Len(left)}) /\ Len(c) = Len(left) + 1
  <2> HIDE DEF left
  <2>1. Nop \in Instr BY InstrFacts
  <2>2. Continues(left, left, {}) BY <1>2, Unchanged
  <2>3. Continues(left, Append(left, Nop), {} \cup {Len(left)})
    BY <1>2, <2>2, InstrFacts, AppendOne
  <2>4. Len(Append(left, Nop)) = Len(left) + 1 BY <1>2, <2>1
  <2> QED BY <2>3, <2>4 DEF left
<1> HIDE DEF left, c
<1> DEFINE X == Holes(open, loops) \cup ({} \cup {Len(left)})
<1>8. Continues(<<>>, c, X)
  <2>1. <<>> \in Seq(Instr) OBVIOUS
  <2>2. Continues(<<>>, left, Holes(open, loops)) BY <1>2 DEF Targets
  <2> QED BY <1>7, <2>1, <2>2, Together
<1> HIDE DEF X
<1>9. /\ Continues(<<>>, d, X \ {head.jump}) /\ Len(d) = Len(c)
  <2>1. head.jump \in Nat BY <1>3
  <2> HIDE DEF head
  <2> QED BY <1>8, <2>1, JumpNames, PatchedHole
<1> HIDE DEF d
<1>10. Holes(g, loops) \subseteq Holes(rest, loops) /\ b.jump \in Holes(rest, loops)
  BY <1>3, <1>4, <1>5, OpenHoles
<1>11. \A off \in Holes(open, loops) : off \in Holes(g, loops) \/ off = head.jump
  BY <1>1, CompilingFacts, CloseTwoHoles
<1>12. X \ {head.jump} \subseteq Holes(rest, loops) BY <1>4, <1>10, <1>11 DEF X
<1>13. Continues(<<>>, d, Holes(rest, loops)) BY <1>9, <1>12, More
<1>14. Within(loops, Len(d))
  <2>1. Within(loops, Len(left)) BY <1>2, TargetsFacts
  <2>2. Len(d) \in Nat /\ Len(left) <= Len(d) BY <1>2, <1>7, <1>9
  <2> QED BY <1>2, <2>1, <2>2, WithinMore
<1>15. Targets(d, rest, loops) BY <1>13, <1>14 DEF Targets
<1> HIDE DEF outer
<1>16. Compiling(code', symbols', open', loops') BY <1>1, <1>6, <1>15 DEF Compiling
<1> QED BY <1>1, <1>6, <1>16 DEF CompilerInv, Sealed

LEMMA EndWhileInv == ASSUME CompilerInv, EndWhile PROVE CompilerInv'
<1> DEFINE loop == Last(loops)
           head == open[Len(open) - 1]
           outer == Without(symbols, scopeDepth)
           left == Discarded(code, symbols, scopeDepth)
           body == Discarded(left, outer, scopeDepth - 1)
           again == Append(body, <<"JUMP", loop.off>>)
           exit == Patch(again, head.jump, <<"JUMP_IF_FALSE", Offset(again)>>)
           join == Joined(exit, loop)
           c == Discarded(join, outer, scopeDepth - 1)
           syms == Without(outer, scopeDepth - 1)
           rest == SubSeq(open, 1, Len(open) - 2)
           ls == Front(loops)
           f == Front(open)
           g == Front(f)
<1>1. /\ status = "compiling" /\ status' = status /\ Last(open).kind = "do"
      /\ code' = c /\ symbols' = syms /\ scopeDepth' = scopeDepth - 2
      /\ open' = rest /\ loops' = ls
  BY DEF EndWhile, Reading, Emit
<1>2. /\ Heads(f) /\ Nested(outer, f) /\ Len(f) = scopeDepth - 1
      /\ Len(loops) = Cardinality(LoopsIn(f))
      /\ Continues(code, left, {}) /\ left \in Seq(Instr) /\ Len(left) \in Nat
      /\ Targets(left, open, loops)
  BY <1>1, ClosedFacts DEF IsLoop
<1>3. /\ head = Last(f) /\ head.jump \in Nat /\ head.kind = "while"
      /\ Heads(g) /\ rest = g
  BY <1>1, CompilingFacts, HeadFacts
<1>4. Len(code) \in Nat /\ Within(loops, Len(code)) /\ scopeDepth = Len(open) /\ Len(open) \in Nat
  BY <1>1, CompilingFacts, OpenFacts
<1> HIDE DEF left, rest, head
<1>5. /\ Nested(syms, rest) /\ Len(rest) = scopeDepth - 2
      /\ Len(loops) = Cardinality(LoopsIn(rest)) + 1 /\ Len(loops) > 0
      /\ Cardinality(LoopsIn(rest)) \in Nat
  <2>1. Last(f).kind # "body" /\ IsLoop(Last(f)) BY <1>3 DEF IsLoop
  <2> HIDE DEF f, outer
  <2>2. Nested(Without(outer, Len(f)), Front(f)) /\ Len(Front(f)) = Len(f) - 1
    BY <1>2, <2>1, CloseBlock
  <2>3. Cardinality(LoopsIn(Front(f))) = Cardinality(LoopsIn(f)) - 1
        /\ Cardinality(LoopsIn(f)) \in Nat /\ Cardinality(LoopsIn(f)) > 0
    BY <1>2, <2>1, CloseLoops
  <2>4. Len(Front(f)) = scopeDepth - 2 BY <1>2, <1>4, <2>2
  <2>5. Nested(syms, Front(f)) BY <1>2, <2>2
  <2> QED BY <1>2, <1>3, <2>3, <2>4, <2>5
<1>6. outer \in Seq(Sym) /\ Len(outer) \in Nat /\ DOMAIN outer = 1..Len(outer)
  <2>1. outer \in Seq(Sym) BY <1>2 DEF Nested
  <2> HIDE DEF outer
  <2> QED BY <2>1
<1> HIDE DEF outer, syms
<1>7. Continues(left, body, {}) /\ body \in Seq(Instr) BY <1>2, <1>6, DiscardFacts
<1> HIDE DEF body
<1>8. Targets(body, open, loops) BY <1>2, <1>7, EmittedSame
<1>9. /\ Within(ls, Len(code)) /\ Len(ls) = Len(loops) - 1 /\ loop \in Loop
      /\ loop.off \in Nat /\ loop.off <= Len(code)
      /\ \A off \in Holes(open, loops) :
           \/ off \in Holes(open, ls)
           \/ \E m \in DOMAIN loop.jumps : loop.jumps[m] = off
  <2>1. Within(Front(loops), Len(code)) /\ Len(Front(loops)) = Len(loops) - 1
        /\ Last(loops) \in Loop /\ Last(loops).off \in Nat /\ Last(loops).off <= Len(code)
    BY <1>4, <1>5, EndFacts
  <2>2. \A off \in Holes(open, loops) :
           \/ off \in Holes(open, Front(loops))
           \/ \E m \in DOMAIN Last(loops).jumps : Last(loops).jumps[m] = off
    BY <1>1, <1>5, CompilingFacts, EndHoles
  <2> QED BY <2>1, <2>2
<1> HIDE DEF loop, ls
<1>10. Continues(body, again, {})
  <2>1. Len(code) <= Len(left) BY <1>2 DEF Continues
  <2>2. Len(body) \in Nat /\ Len(left) <= Len(body) BY <1>7 DEF Continues
  <2>3. loop.off <= Len(body) BY <1>2, <1>4, <1>9, <2>1, <2>2
  <2>4. Continues(body, body, {}) BY <1>7, Unchanged
  <2> QED BY <1>7, <1>9, <2>3, <2>4, JumpNames, AppendJump
<1> HIDE DEF again
<1>11. Targets(again, open, loops) BY <1>8, <1>10, EmittedSame
<1>12. Len(again) \in Nat /\ Len(code) <= Len(again)
  <2>1. Len(code) <= Len(left) BY <1>2 DEF Continues
  <2>2. Len(body) \in Nat /\ Len(left) <= Len(body) BY <1>7 DEF Continues
  <2>3. Len(again) \in Nat /\ Len(body) <= Len(again) BY <1>10 DEF Continues
  <2> QED BY <1>2, <1>4, <2>1, <2>2, <2>3
<1> DEFINE X == Holes(open, loops)
           Y == {off \in X \ {head.jump} : \A j \in DOMAIN loop.jumps : loop.jumps[j] # off}
<1>13. Continues(<<>>, exit, X \ {head.jump}) /\ Len(exit) = Len(again)
  <2>1. Continues(<<>>, again, X) BY <1>11 DEF Targets
  <2>2. head.jump \in Nat BY <1>3
  <2> HIDE DEF X
  <2> QED BY <2>1, <2>2, JumpNames, PatchedHole
<1> HIDE DEF exit
<1>14. Continues(<<>>, join, Y) /\ join \in Seq(Instr) /\ Len(join) = Len(exit)
  <2> DEFINE Z == X \ {head.jump}
  <2>1. Continues(<<>>, exit, Z) /\ loop \in Loop BY <1>9, <1>13
  <2> HIDE DEF X, Z
  <2>2. /\ Continues(<<>>, Joined(exit, loop),
                      {off \in Z : \A j \in DOMAIN loop.jumps : loop.jumps[j] # off})
        /\ Joined(exit, loop) \in Seq(Instr) /\ Len(Joined(exit, loop)) = Len(exit)
    BY <2>1, JoinedFacts
  <2> QED BY <2>2 DEF Z
<1> HIDE DEF join
<1>15. Continues(join, c, {}) BY <1>6, <1>14, DiscardFacts
<1> HIDE DEF c
<1>16. Continues(<<>>, c, Y \cup {})
  <2>1. <<>> \in Seq(Instr) OBVIOUS
  <2> HIDE DEF Y
  <2> QED BY <1>14, <1>15, <2>1, Together
<1>17. Y \cup {} \subseteq Holes(rest, ls)
  <2>1. \A off \in Holes(open, ls) : off \in Holes(Front(Front(open)), ls) \/ off = head.jump
    BY <1>1, CompilingFacts, CloseTwoHoles DEF head
  <2> QED BY <1>3, <1>9, <2>1
<1>18. Continues(<<>>, c, Holes(rest, ls)) BY <1>16, <1>17, More
<1>19. Within(ls, Len(c))
  <2>1. Len(c) \in Nat /\ Len(join) <= Len(c) BY <1>15 DEF Continues
  <2>2. Len(code) <= Len(c) BY <1>4, <1>12, <1>13, <1>14, <2>1
  <2> QED BY <1>4, <1>9, <2>1, <2>2, WithinMore
<1>20. Targets(c, rest, ls) BY <1>18, <1>19 DEF Targets
<1>21. Len(ls) = Cardinality(LoopsIn(rest)) BY <1>5, <1>9
<1>22. Heads(rest) BY <1>3
<1>23. Compiling(code', symbols', open', loops')
  BY <1>1, <1>5, <1>20, <1>21, <1>22 DEF Compiling
<1> QED BY <1>1, <1>5, <1>23 DEF CompilerInv, Sealed

\* At the end of the body nothing is left to be patched.
LEMMA EndBodyInv == ASSUME CompilerInv, EndBody PROVE CompilerInv'
<1> DEFINE left == Discarded(code, symbols, scopeDepth)
           c == Append(left, <<"RETURN_NIL">>)
<1>1. \/ status = "compiling" /\ Last(open).kind = "body" /\ status' = "running" /\ code' = c
      \/ status' = "rejected"
  BY DEF EndBody, Reading, Reject
<1>2. CASE status' = "rejected" BY <1>2, RejectedInv
<1>3. CASE status = "compiling" /\ Last(open).kind = "body" /\ status' = "running" /\ code' = c
  <2>1. Heads(open) /\ Len(loops) = Cardinality(LoopsIn(open)) /\ Targets(code, open, loops)
        /\ loops \in Seq(Loop)
    BY <1>3, CompilingFacts
  <2>2. DOMAIN open = {1} /\ open[1].kind = "body"
    <3>1. Len(open) \in DOMAIN open /\ Last(open) = open[Len(open)]
          /\ DOMAIN open = 1..Len(open)
      BY <2>1, OpenFacts
    <3>2. Len(open) = 1 BY <1>3, <2>1, <3>1 DEF Heads
    <3> QED BY <1>3, <3>1, <3>2
  <2>3. DOMAIN loops = {}
    <3>1. LoopsIn(open) = {} BY <2>2 DEF LoopsIn
    <3>2. Len(loops) = 0 BY <2>1, <3>1, FS_EmptySet
    <3> QED BY <2>1, <3>2
  <2>4. Holes(open, loops) = {} BY <2>2, <2>3 DEF Holes, Awaits
  <2>5. Continues(code, left, {}) /\ left \in Seq(Instr)
    BY <1>3, CompilingFacts, DiscardFacts
  <2>6. Continues(<<>>, left, {})
    <3>1. Targets(left, open, loops) BY <2>1, <2>5, EmittedSame
    <3> QED BY <2>4, <3>1 DEF Targets
  <2> HIDE DEF left
  <2>7. DOMAIN left = 1..Len(left) /\ Len(left) \in Nat BY <2>5
  <2>8. /\ DOMAIN c = 1..(Len(left) + 1) /\ Len(c) = Len(left) + 1
        /\ c[Len(left) + 1] = <<"RETURN_NIL">> /\ \A i \in 1..Len(left) : c[i] = left[i]
    <3> DEFINE ret == <<"RETURN_NIL">>
    <3>1. ret \in Instr BY InstrFacts DEF Plain
    <3> HIDE DEF ret
    <3>2. Append(left, ret) \in Seq(Instr) /\ Len(Append(left, ret)) = Len(left) + 1
          /\ Append(left, ret)[Len(left) + 1] = ret
          /\ \A i \in 1..Len(left) : Append(left, ret)[i] = left[i]
      BY <2>5, <3>1, AppendFacts
    <3>3. DOMAIN Append(left, ret) = 1..(Len(left) + 1) BY <3>2
    <3> QED BY <3>2, <3>3 DEF ret
  <2> HIDE DEF c
  <2>9. \A i \in DOMAIN c : c[i] # Nop /\ (c[i][1] \in Jumps => c[i][2] < Len(c))
    <3> SUFFICES ASSUME NEW i \in DOMAIN c
                 PROVE  c[i] # Nop /\ (c[i][1] \in Jumps => c[i][2] < Len(c))
      OBVIOUS
    <3>1. CASE i = Len(left) + 1
      <4>1. Plain(c[i]) BY <2>8, <3>1, InstrFacts
      <4> QED BY <4>1 DEF Plain
    <3>2. CASE i # Len(left) + 1
      <4>1. i \in 1..Len(left) /\ c[i] = left[i] BY <2>7, <2>8, <3>2
      <4>2. i \in (Len(<<>>) + 1)..Len(left) BY <4>1
      <4>3. left[i] # Nop /\ (left[i][1] \in Jumps => left[i][2] <= Len(left))
        BY <2>6, <4>2 DEF Continues
      <4>4. left[i][1] \in Jumps => left[i][2] \in Int
        <5>1. left[i] \in Instr BY <2>5, <4>1
        <5> QED BY <5>1, OperandFacts
      <4> QED BY <2>7, <2>8, <4>1, <4>3, <4>4
    <3> QED BY <3>1, <3>2
  <2>10. Sealed' BY <1>3, <2>9 DEF Sealed
  <2> QED BY <1>3, <2>10 DEF CompilerInv
<1> QED BY <1>1, <1>2, <1>3

\* The code that runs is not changed.
LEMMA InstructionsInv == ASSUME CompilerInv, Instructions PROVE CompilerInv'
<1>1. status = "running" /\ code' = code /\ status' \in {"running", "returned"}
  BY DEF Instructions, PushNil, Pop, LoadLocal, StoreLocal, Move, Add, Add2, Add3, Jump,
         JumpIfFalse, JumpIfFalseOrPop, JumpIfTrueOrPop, CallValue, TailCall, Return,
         ReturnNil, Becomes, Leaves, At
<1> QED BY <1>1 DEF CompilerInv, Sealed

LEMMA StutterInv == ASSUME CompilerInv, UNCHANGED vars PROVE CompilerInv'
BY DEF CompilerInv, Compiling, Sealed, vars, compiling

LEMMA InitInv == ASSUME Init PROVE CompilerInv
<1> DEFINE b == Begun("body")
           n == Len(Params)
<1>1. /\ status = "compiling" /\ code = <<>> /\ scopeDepth = 1 /\ loops = <<>>
      /\ symbols = [i \in 1..n |-> Symbol(Params[i], 0)] /\ open = <<b>> /\ n \in Nat
      /\ \A i \in 1..n : Params[i] \in Name
  BY CompilerAssumption DEF Init
<1>2. symbols \in Seq(Sym) /\ Len(symbols) = n /\ DOMAIN symbols = 1..n
      /\ \A i \in 1..n : symbols[i].depth = 0
  BY <1>1 DEF Symbol, Sym
<1>3. b \in Block /\ b.kind = "body" /\ b.level = n
  <2>1. "body" \in Kinds BY DEF Kinds, Blocks
  <2> QED BY <1>1, <1>2, <2>1, BegunFacts
<1> HIDE DEF b
<1>4. /\ open \in Seq(Block) /\ Len(open) = 1 /\ DOMAIN open = {1} /\ open[1] = b
      /\ Last(open) = b
  BY <1>1, <1>3 DEF Last
<1>5. Heads(open) BY <1>3, <1>4 DEF Heads
<1>6. Nested(symbols, open)
  <2>1. \A i \in DOMAIN symbols : {j \in DOMAIN open : open[j].level < i} = {}
    BY <1>1, <1>2, <1>3, <1>4
  <2>2. \A i \in DOMAIN symbols :
          symbols[i].depth = Cardinality({j \in DOMAIN open : open[j].level < i})
    BY <1>2, <2>1, FS_EmptySet
  <2> QED BY <1>1, <1>2, <1>3, <1>4, <2>2 DEF Nested
<1>7. Len(loops) = Cardinality(LoopsIn(open))
  <2>1. LoopsIn(open) = {} BY <1>3, <1>4 DEF LoopsIn
  <2> QED BY <1>1, <2>1, FS_EmptySet
<1>8. Targets(code, open, loops)
  <2>1. Continues(<<>>, <<>>, Holes(open, loops)) BY DEF Continues
  <2>2. Within(<<>>, 0) BY DEF Within
  <2> QED BY <1>1, <2>1, <2>2 DEF Targets
<1>9. scopeDepth = Len(open) BY <1>1, <1>4
<1> QED BY <1>1, <1>5, <1>6, <1>7, <1>8, <1>9 DEF CompilerInv, Compiling, Sealed

LEMMA NextInv == ASSUME CompilerInv, [Next]_vars PROVE CompilerInv'
<1>1. CASE LetDecl BY <1>1, LetDeclInv
<1>2. CASE AssignStmt BY <1>2, AssignStmtInv
<1>3. CASE AssignOp BY <1>3, AssignOpInv
<1>4. CASE ExprStmt BY <1>4, ExprStmtInv
<1>5. CASE ReturnStmt BY <1>5, ReturnStmtInv
<1>6. CASE Undefined BY <1>6, UndefinedInv
<1>7. CASE BeginBlock BY <1>7, BeginBlockInv
<1>8. CASE BeginIf BY <1>8, BeginIfInv
<1>9. CASE BeginLoop BY <1>9, BeginLoopInv
<1>10. CASE Condition BY <1>10, ConditionInv
<1>11. CASE EndBlock BY <1>11, EndBlockInv
<1>12. CASE EndThen BY <1>12, EndThenInv
<1>13. CASE BeginElse BY <1>13, BeginElseInv
<1>14. CASE EndIf BY <1>14, EndIfInv
<1>15. CASE EndLoop BY <1>15, EndLoopInv
<1>16. CASE EndWhile BY <1>16, EndWhileInv
<1>17. CASE EndBody BY <1>17, EndBodyInv
<1>18. CASE BreakStmt BY <1>18, BreakStmtInv
<1>19. CASE ContinueStmt BY <1>19, ContinueStmtInv
<1>20. CASE Instructions BY <1>20, InstructionsInv
<1>21. CASE Stop \/ UNCHANGED vars BY <1>21, StutterInv DEF Stop
<1> QED BY <1>1, <1>2, <1>3, <1>4, <1>5, <1>6, <1>7, <1>8, <1>9, <1>10, <1>11, <1>12, <1>13,
           <1>14, <1>15, <1>16, <1>17, <1>18, <1>19, <1>20, <1>21 DEF Next, Statements

LEMMA InvImpliesScopes == ASSUME CompilerInv PROVE ScopesNest
<1> SUFFICES ASSUME status = "compiling"
             PROVE  /\ \A i \in 1..(Len(open) - 1) : open[i].level <= open[i + 1].level
                    /\ Last(open).level <= Len(symbols)
                    /\ scopeDepth = Len(open)
                    /\ \A i \in DOMAIN symbols :
                         symbols[i].depth = Cardinality({j \in DOMAIN open : open[j].level < i})
                    /\ Len(loops) =
                         Cardinality({i \in DOMAIN open : open[i].kind \in {"loop", "while"}})
  BY DEF ScopesNest
<1>1. /\ scopeDepth = Len(open) /\ Heads(open) /\ Nested(symbols, open)
      /\ Len(loops) = Cardinality(LoopsIn(open))
  BY CompilingFacts
<1>2. \A i \in 1..(Len(open) - 1) : open[i].level <= open[i + 1].level
  <2>1. DOMAIN open = 1..Len(open) /\ Len(open) \in Nat BY <1>1, OpenFacts
  <2> QED BY <1>1, <2>1 DEF Nested
<1> QED BY <1>1, <1>2 DEF Nested, LoopsIn

\* The programs in which no break or continue leaves the scope of a variable are
\* among those the theorems are about.
LEMMA LevelPrograms == LevelSpec => Spec
<1>1. LevelNext => Next BY DEF LevelNext, Next
<1> QED BY <1>1, PTL DEF LevelSpec, Spec

LEMMA InvAlways == Spec => []CompilerInv
<1>1. Init => CompilerInv BY InitInv
<1>2. CompilerInv /\ [Next]_vars => CompilerInv' BY NextInv
<1> QED BY <1>1, <1>2, PTL DEF Spec

(***************************************************************************)
(* The scopes of the compiler nest, for every program: the blocks that are *)
(* open began one inside the other, comp->scopeDepth counts them, every    *)
(* symbol left belongs to the scope it was declared in, so that            *)
(* discard_scope pops the slots of the scope that ends and no others, and  *)
(* comp->loop has as many parents as loops that are open (begin_scope,     *)
(* end_scope, begin_loop, end_loop).                                       *)
(***************************************************************************)
THEOREM ScopesNested == Spec => []ScopesNest
<1>1. CompilerInv => ScopesNest BY InvImpliesScopes
<1> QED BY <1>1, InvAlways, PTL

(***************************************************************************)
(* In the code of every function, of any length and nesting, all the NOPs  *)
(* that stood for jumps have been patched, and every jump lands on an      *)
(* instruction: the offset that an and, an or, an if, a while or a break   *)
(* keeps is patched once the end is known (patch_instr, end_loop), and no  *)
(* path runs off the end of the code.                                      *)
(***************************************************************************)
THEOREM JumpsSealed == Spec => []Sealed
<1>1. CompilerInv => Sealed BY DEF CompilerInv
<1> QED BY <1>1, InvAlways, PTL
==============================================================================
