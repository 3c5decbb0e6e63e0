------------------------------- MODULE RakLexer -------------------------------
(***************************************************************************)
(* The lexer (src/src/lexer.c) and the reading of string literals          *)
(* (parse_escaped_string in src/src/string.c).                             *)
(*                                                                         *)
(* The compiler asks for one token at a time and turns a string token into *)
(* a constant before it asks for the next.  A source is a sequence of      *)
(* characters; the NUL that ends a C string stands at every position past  *)
(* it.  A step is a whole call of rak_lexer_next.                          *)
(***************************************************************************)
EXTENDS Integers, Sequences, SequencesExt, FiniteSetsExt

CONSTANTS
  Char,     \* the characters a source is made of
  Ascii,    \* [Char -> 1..127]: their codes
  Sources   \* SUBSET Seq(Char): the texts that are compiled

NUL   == "NUL"
Quote == "\""

ASSUME AsciiAssumption ==
  /\ Ascii \in [Char -> 1..127]
  /\ \A c, d \in Char : Ascii[c] = Ascii[d] => c = d
  /\ NUL \notin Char
  /\ \A c \in Char :
       /\ c = "\n" <=> Ascii[c] = 10
       /\ c = Quote <=> Ascii[c] = 34
       /\ c = "+" <=> Ascii[c] = 43
       /\ c = "-" <=> Ascii[c] = 45
       /\ c = "." <=> Ascii[c] = 46
       /\ c = "E" <=> Ascii[c] = 69
       /\ c = "\\" <=> Ascii[c] = 92
       /\ c = "e" <=> Ascii[c] = 101

ASSUME SourcesAssumption == Sources \subseteq Seq(Char)

VARIABLES
  source,   \* the text
  curr,     \* the position of the next character, from 1
  ln, col,  \* the line and column lexer keeps for it
  toks,     \* the tokens the compiler was given so far
  consts,   \* the string constants it made of them
  fault,    \* what the error message names, or NoFault
  status    \* "init" or "running"; "eof", "error", "invalid", "overrun" or
            \* "stopped" in the end

vars == <<source, curr, ln, col, toks, consts, fault, status>>

-----------------------------------------------------------------------------
(***************************************************************************)
(* Characters.                                                             *)
(***************************************************************************)
CharAt(i) == IF i \in 1..Len(source) THEN source[i] ELSE NUL

InAscii(codes) == {c \in Char : Ascii[c] \in codes}

Space  == InAscii(9..13 \cup {32})
Digit  == InAscii(48..57)
Letter == InAscii(65..90 \cup 97..122)
Hex    == InAscii(48..57 \cup 65..70 \cup 97..102)

WordStart == Letter \cup InAscii({95})
WordPart  == WordStart \cup Digit

Chars(str) == [i \in 1..Len(str) |-> SubSeq(str, i, i)]

\* The texts match_char and match_chars look for, in the order they are tried.
Marks ==
  <<",", ":", ";", "(", ")", "[", "]", "{", "}", "||", "&&", "&", "==", "=",
    "!=", "!", ">=", ">", "<=", "<", "..", ".", "+=", "+", "-=", "-", "*=", "*",
    "/=", "/", "%=", "%">>

Keywords ==
  {"break", "continue", "else", "false", "fn", "if", "inout", "let", "loop",
   "nil", "return", "true", "while", "yield"}

\* Texts have characters, which do not end a line.  Marks begin neither words
\* nor numbers nor strings, // is no blank, and keywords are made of letters.
ASSUME TextsAssumption ==
  /\ \A t \in Range(Marks) \cup Keywords \cup {"//", "#!"} :
       /\ Len(t) \in Nat \ {0}
       /\ \A k \in 1..Len(t) : SubSeq(t, k, k) \notin {"\n", NUL}
  /\ \A t \in Range(Marks) :
       SubSeq(t, 1, 1) \notin Space \cup Digit \cup WordStart \cup {Quote}
  /\ (Range(Marks) \cup Keywords) \cap {"number", "string", "ident", "eof"} = {}
  /\ SubSeq("//", 1, 1) \notin Space
  /\ \A t \in Keywords : \A k \in 1..Len(t) : 
       SubSeq(t, k, k) \in Char => SubSeq(t, k, k) \in Letter

Begins(s, t) ==
  Len(t) <= Len(s) /\ \A k \in 1..Len(t) : SubSeq(s, k, k) = SubSeq(t, k, k)

\* No mark begins with one that is tried before it: match_chars(">=") comes before
\* match_char('>').  Keywords are told apart by their characters.
ASSUME OrderAssumption ==
  /\ \A k, l \in 1..Len(Marks) : k < l => ~Begins(Marks[l], Marks[k])
  /\ \A s, t \in Keywords : Begins(s, t) /\ Begins(t, s) => s = t

\* The position after the longest run of characters of S that starts at i.
RunEnd(S, i) == Min({j \in i..(Len(source) + 1) : CharAt(j) \notin S})

LooksAt(i, str) == \A k \in 1..Len(str) : CharAt(i + k - 1) = SubSeq(str, k, k)

Place == [at : Nat, ln : Nat, col : Nat]
Here  == [at |-> curr, ln |-> ln, col |-> col]

\* Mutant: columns count from 0 after a newline.
NextCharFromZero(p) ==
  IF CharAt(p.at) = "\n" THEN [at |-> p.at + 1, ln |-> p.ln + 1, col |-> 0]
  ELSE [at |-> p.at + 1, ln |-> p.ln, col |-> p.col + 1]

NextChar(p) ==
  IF CharAt(p.at) = "\n" THEN [at |-> p.at + 1, ln |-> p.ln + 1, col |-> 1]
  ELSE [at |-> p.at + 1, ln |-> p.ln, col |-> p.col + 1]

\* The place reached from p by next_char, once for each character before i.
Reach(p, i) ==
  LET place[n \in 0..(i - p.at)] == IF n = 0 THEN p ELSE NextChar(place[n - 1])
  IN  place[i - p.at]

-----------------------------------------------------------------------------
(***************************************************************************)
(* What comes before a token.                                              *)
(***************************************************************************)
\* The end of the line that i is on: after its newline, or at the NUL.
LineEnd(i) ==
  LET eol == Min({j \in i..(Len(source) + 1) : CharAt(j) \in {"\n", NUL}})
  IN  IF CharAt(eol) = "\n" THEN eol + 1 ELSE eol

\* skip_shebang
SkipShebang(p) == IF LooksAt(p.at, "#!") THEN Reach(p, LineEnd(p.at)) ELSE p

\* Mutant: after a comment only blanks are skipped.
SkipOneComment(p) ==
  LET j == RunEnd(Space, p.at)
  IN  Reach(p, IF LooksAt(j, "//") THEN RunEnd(Space, LineEnd(j)) ELSE j)

\* skip_whitespace_comments: blanks, comments, blanks ..., while there are any.
Skip(p) ==
  LET skip[i \in 1..(Len(source) + 1)] ==
        LET j == RunEnd(Space, i)
        IN  IF LooksAt(j, "//") THEN skip[LineEnd(j)] ELSE j
  IN  Reach(p, skip[p.at])

-----------------------------------------------------------------------------
(***************************************************************************)
(* The matches, each at a place p.  An outcome is a token and the place    *)
(* after it, or a fault, or nothing.                                       *)
(***************************************************************************)
NoFault == [at |-> 0, ln |-> 0, col |-> 0]

Token(p, kind, first, last) ==
  [kind |-> kind, ln |-> p.ln, col |-> p.col, first |-> first, last |-> last]

\* A token of the characters from p up to end, and the place after them.
Found(p, kind, end) ==
  [tok |-> <<Token(p, kind, p.at, end - 1)>>, after |-> Reach(p, end), fault |-> NoFault]

FaultAt(p, after) == [tok |-> <<>>, after |-> after, fault |-> p]

\* match_char and match_chars, in turn.
FirstMark(p) == Min({k \in 1..Len(Marks) : LooksAt(p.at, Marks[k])})

IsMark(p) == \E k \in 1..Len(Marks) : LooksAt(p.at, Marks[k])
MatchMark(p) ==
  LET mark == Marks[FirstMark(p)] IN Found(p, mark, p.at + Len(mark))

\* Mutant: a point belongs to the number whatever follows it.
NumberPartsGreedy(p) ==
  LET whole == RunEnd(Digit, p.at)
      frac  == IF CharAt(whole) = "." THEN RunEnd(Digit, whole + 1) ELSE whole
      exp   == CharAt(frac) \in {"e", "E"}
      sign  == IF CharAt(frac + 1) \in {"+", "-"} THEN frac + 2 ELSE frac + 1
      bad   == exp /\ CharAt(sign) \notin Digit
  IN  [whole |-> whole, cut |-> FALSE,
       end |-> IF bad THEN sign ELSE IF exp THEN RunEnd(Digit, sign) ELSE frac,
       bad |-> bad]

\* Where the digits before the point end, where the number ends or goes wrong,
\* and whether it is cut short by a point that belongs to what follows.
NumberParts(p) ==
  LET whole == RunEnd(Digit, p.at)
      point == CharAt(whole) = "."
      cut   == point /\ CharAt(whole + 1) \notin Digit
      frac  == IF point THEN RunEnd(Digit, whole + 1) ELSE whole
      exp   == CharAt(frac) \in {"e", "E"}
      sign  == IF CharAt(frac + 1) \in {"+", "-"} THEN frac + 2 ELSE frac + 1
      bad   == exp /\ CharAt(sign) \notin Digit
  IN  [whole |-> whole, cut |-> cut,
       end |-> IF bad THEN sign ELSE IF exp THEN RunEnd(Digit, sign) ELSE frac,
       bad |-> bad]

\* match_number
MatchNumber(p) ==
  LET n == NumberParts(p) IN
  IF n.cut THEN Found(p, "number", n.whole)
  ELSE IF n.bad \/ CharAt(n.end) \in WordStart
       THEN FaultAt([at |-> n.end, ln |-> p.ln, col |-> p.col + (n.end - p.at)], p)
       ELSE Found(p, "number", n.end)

\* Mutant: an escaped quote ends the string.
StopsAtAnyQuote(i) == CharAt(i) \in {Quote, "\n", NUL}

\* The characters match_string stops at.  isEscape holds after any backslash.
Stops(i) ==
  \/ CharAt(i) \in {"\n", NUL}
  \/ CharAt(i) = Quote /\ CharAt(i - 1) # "\\"

\* Mutant: the token is given the place of the opening quote.
StringAtOpeningQuote(p) ==
  LET stop == Min({i \in (p.at + 1)..(Len(source) + 1) : Stops(i)})
      q    == Reach(p, stop)
  IN  IF CharAt(stop) # Quote THEN FaultAt(q, q)
      ELSE [tok |-> <<Token(p, "string", p.at + 1, stop - 1)>>,
            after |-> NextChar(q), fault |-> NoFault]

\* match_string.  The token is made when the closing quote is reached: it holds
\* the text between the quotes, and the line and column of the second.
MatchString(p) ==
  LET stop == Min({i \in (p.at + 1)..(Len(source) + 1) : Stops(i)})
      q    == Reach(p, stop)
  IN  IF CharAt(stop) # Quote THEN FaultAt(q, q)
      ELSE [tok |-> <<Token(q, "string", p.at + 1, stop - 1)>>,
            after |-> NextChar(q), fault |-> NoFault]

\* Mutant: a keyword is recognised at the start of a longer word.
KeywordPrefixAt(p, kw) == LooksAt(p.at, kw)

\* match_keyword
KeywordAt(p, kw) == LooksAt(p.at, kw) /\ CharAt(p.at + Len(kw)) \notin WordPart

\* The keywords, and after them match_ident.
MatchWord(p) ==
  LET kws == {kw \in Keywords : KeywordAt(p, kw)}
      kw  == CHOOSE k \in kws : TRUE
  IN  IF kws # {} THEN Found(p, kw, p.at + Len(kw))
      ELSE Found(p, "ident", RunEnd(WordPart, p.at))

\* rak_lexer_next, after what it skips.
Match(p) ==
  CASE CharAt(p.at) = NUL         -> Found(p, "eof", p.at + 1)
    [] IsMark(p)                  -> MatchMark(p)
    [] CharAt(p.at) \in Digit     -> MatchNumber(p)
    [] CharAt(p.at) = Quote       -> MatchString(p)
    [] CharAt(p.at) \in WordStart -> MatchWord(p)
    [] OTHER                      -> FaultAt(p, p)

-----------------------------------------------------------------------------
(***************************************************************************)
(* String literals.                                                        *)
(***************************************************************************)
HexValue(c) ==
  IF Ascii[c] \in 48..57 THEN Ascii[c] - 48
  ELSE IF Ascii[c] \in 65..70 THEN Ascii[c] - 65 + 10
  ELSE IF Ascii[c] \in 97..102 THEN Ascii[c] - 97 + 10
  ELSE 0

\* Mutant: the two digits of \x are taken in the other order.
HexCodeSwapped(c, d) == 16 * HexValue(d) + HexValue(c)

HexCode(c, d) == 16 * HexValue(c) + HexValue(d)

\* The escapes \n \r \t \" \\ \0 and the codes they stand for.
OneChar == InAscii({110, 114, 116, 34, 92, 48})
Escape(c) ==
  CASE c = "n" -> 10
    [] c = "r" -> 13
    [] c = "t" -> 9
    [] c = "0" -> 0
    [] OTHER   -> Ascii[c]

\* handle_hex_escape takes s[i] and s[i + 1].
HexAt(s, i) ==
  /\ i + 1 <= Len(s) /\ s[i] \in Hex /\ s[i + 1] \in Hex
  /\ HexCode(s[i], s[i + 1]) <= 127

\* parse_escaped_string: the codes of the characters of s.  They end in Invalid
\* at an escape there is not, and in Overrun at a backslash that ends s, after
\* which the code reads whatever follows the token.
Invalid == -1
Overrun == -2
Unescape(s) ==
  LET from[i \in 1..(Len(s) + 1)] ==
        IF i > Len(s) THEN <<>>
        ELSE IF s[i] # "\\" THEN <<Ascii[s[i]]>> \o from[i + 1]
        ELSE IF i = Len(s) THEN <<Overrun>>
        ELSE IF s[i + 1] \in OneChar THEN <<Escape(s[i + 1])>> \o from[i + 2]
        ELSE IF s[i + 1] = "x" /\ HexAt(s, i + 2)
             THEN <<HexCode(s[i + 2], s[i + 3])>> \o from[i + 4]
        ELSE <<Invalid>>
  IN  from[1]

-----------------------------------------------------------------------------
(***************************************************************************)
(* The steps.                                                              *)
(***************************************************************************)
TextOf(t) == SubSeq(source, t.first, t.last)

\* The strings among the tokens that were passed: prim_expr asks for the token
\* after a string before it reads the string.
Strings == {n \in 1..(Len(toks) - 1) : toks[n].kind = "string"}
Unread  == Len(consts) < Cardinality(Strings)

NextTokenFrom(p) ==
  LET m == Match(Skip(p)) IN
  /\ curr' = m.after.at /\ ln' = m.after.ln /\ col' = m.after.col
  /\ toks' = toks \o m.tok
  /\ fault' = m.fault
  /\ status' = IF m.tok = <<>> THEN "error"
               ELSE IF m.tok[1].kind = "eof" THEN "eof" ELSE "running"
  /\ UNCHANGED <<source, consts>>

Init ==
  /\ source \in Sources
  /\ curr = 1 /\ ln = 1 /\ col = 1
  /\ toks = <<>> /\ consts = <<>>
  /\ fault = NoFault
  /\ status = "init"

\* rak_lexer_init
InitLexer == status = "init" /\ NextTokenFrom(SkipShebang(Here))

NextToken == status = "running" /\ ~Unread /\ NextTokenFrom(Here)

ReadString ==
  /\ status \in {"running", "eof"} /\ Unread
  /\ LET codes == Unescape(TextOf(toks[Max(Strings)])) IN
     /\ consts' = Append(consts, codes)
     /\ status' = CASE Invalid \in Range(codes) -> "invalid"
                    [] Overrun \in Range(codes) -> "overrun"
                    [] OTHER                    -> status
  /\ UNCHANGED <<source, curr, ln, col, toks, fault>>

\* The compiler finds the tokens at odds with the grammar.
SyntaxError ==
  /\ status = "running" /\ ~Unread
  /\ status' = "stopped"
  /\ UNCHANGED <<source, curr, ln, col, toks, consts, fault>>

Next == InitLexer \/ NextToken \/ ReadString \/ SyntaxError

Spec == Init /\ [][Next]_vars

-----------------------------------------------------------------------------
(***************************************************************************)
(* What a token is, said of the text alone.                                *)
(***************************************************************************)
Over(S, i, j) == \A k \in i..j : CharAt(k) \in S

\* Digits, then perhaps a point and digits, then perhaps an exponent.
IsNumber(i, j) ==
  \E p \in i..j, q \in i..j :
    /\ p <= q /\ Over(Digit, i, p)
    /\ q = p \/ (CharAt(p + 1) = "." /\ p + 2 <= q /\ Over(Digit, p + 2, q))
    /\ \/ q = j
       \/ /\ CharAt(q + 1) \in {"e", "E"}
          /\ \E r \in {q + 2} \cup {k \in {q + 3} : CharAt(q + 2) \in {"+", "-"}} :
               r <= j /\ Over(Digit, r, j)

\* Where a number from i may end: neither a word nor its fraction goes on there.
Bounded(i, j) ==
  /\ CharAt(j + 1) \notin WordPart
  /\ Over(Digit, i, j) => ~(CharAt(j + 1) = "." /\ CharAt(j + 2) \in Digit)

\* k, past the opening quote at i, comes after an odd number of backslashes.
Escaped(i, k) ==
  LET other == Max({m \in i..(k - 1) : CharAt(m) # "\\"}) IN (k - 1 - other) % 2 = 1

IsString(i, j) ==
  /\ i < j /\ CharAt(i) = Quote /\ CharAt(j) = Quote /\ ~Escaped(i, j)
  /\ \A k \in (i + 1)..(j - 1) :
       CharAt(k) # "\n" /\ (CharAt(k) = Quote => Escaped(i, k))

IsWord(i, j) == CharAt(i) \in WordStart /\ Over(WordPart, i, j)

Lexeme(i, j) ==
  \/ \E k \in 1..Len(Marks) : Chars(Marks[k]) = SubSeq(source, i, j)
  \/ IsNumber(i, j) \/ IsString(i, j) \/ IsWord(i, j)

Positions == 1..Len(source)

\* The quotes of a string are not part of what its token holds.
From(t) == IF t.kind = "string" THEN t.first - 1 ELSE t.first
To(t)   == IF t.kind = "string" THEN t.last + 1 ELSE t.last

KindOf(i, j) ==
  LET word == {kw \in Keywords : Chars(kw) = SubSeq(source, i, j)} IN
  CASE CharAt(i) \in Digit                   -> "number"
    [] CharAt(i) = Quote                     -> "string"
    [] CharAt(i) \in WordStart /\ word = {}  -> "ident"
    [] CharAt(i) \in WordStart /\ word # {}  -> CHOOSE kw \in word : TRUE
    [] OTHER -> CHOOSE m \in Range(Marks) : Chars(m) = SubSeq(source, i, j)

NewlinesBefore(i) == {k \in Positions : k < i /\ CharAt(k) = "\n"}

\* The line and column an editor would show for i.
IsAt(l, c, i) ==
  /\ l = 1 + Cardinality(NewlinesBefore(i))
  /\ c = i - Max({0} \cup NewlinesBefore(i))

\* Position k, in a gap between tokens that starts at i, is not part of a token:
\* it is blank, or a comment or the line #! reaches over it.
Opener(i, m) == LooksAt(m, "//") \/ (i = 1 /\ m = 1 /\ LooksAt(1, "#!"))
Silent(i, k) ==
  \/ CharAt(k) \in Space
  \/ \E m \in i..k : Opener(i, m) /\ \A l \in m..k : CharAt(l) \notin {"\n", NUL}

\* Where the token that follows i starts.
StartAfter(i) == Min({k \in i..(Len(source) + 1) : ~Silent(i, k)})

EndOf(n) == IF n = 0 THEN 0 ELSE To(toks[n])

\* The value of an escaped text, said of each of its characters.
Opens(s, k) ==
  /\ s[k] = "\\"
  /\ LET other == Max({0} \cup {m \in 1..(k - 1) : s[m] # "\\"})
     IN  (k - 1 - other) % 2 = 0
Takes(s, k) == IF ~Opens(s, k) THEN 0 ELSE IF s[k + 1] = "x" THEN 3 ELSE 1
Heads(s) ==
  {k \in 1..Len(s) : \A m \in 1..(k - 1) : k > m + Takes(s, m)}
Stands(s, k) ==
  CASE ~Opens(s, k)  -> Ascii[s[k]]
    [] s[k + 1] = "x" /\ Opens(s, k) -> 16 * HexValue(s[k + 2]) + HexValue(s[k + 3])
    [] OTHER -> Escape(s[k + 1])
Meaning(s) ==
  LET heads == SetToSortSeq(Heads(s), <)
  IN  [n \in 1..Len(heads) |-> Stands(s, heads[n])]
Sound(s) ==
  \A k \in 1..Len(s) : Opens(s, k) =>
    /\ k < Len(s)
    /\ s[k + 1] \in OneChar \/ (s[k + 1] = "x" /\ HexAt(s, k + 2))

\* No two backslashes stand side by side.
NoDoubledBackslash ==
  \A k \in Positions : ~(CharAt(k) = "\\" /\ CharAt(k + 1) = "\\")

-----------------------------------------------------------------------------
(***************************************************************************)
(* Properties.                                                             *)
(***************************************************************************)
\* The lexer holds a place in the text or just past its NUL, and tokens that
\* lie in the text.
TypeOK ==
  /\ source \in Sources
  /\ curr \in 1..(Len(source) + 2) /\ ln \in Nat \ {0} /\ col \in Nat \ {0}
  /\ \A i \in 1..Len(toks) :
       /\ toks[i].first \in 1..(Len(source) + 1)
       /\ toks[i].last \in 0..(Len(source) + 1)
       /\ toks[i].kind \in Range(Marks) \cup Keywords
                             \cup {"number", "string", "ident", "eof"}
  /\ fault \in Place
  /\ status \in {"init", "running", "eof", "error", "invalid", "overrun", "stopped"}

\* The tokens and the silent text between them make up the source: nothing that
\* could be a token is skipped, nothing is read twice, and the end of file is
\* only found at the end.
Tiled ==
  toks # <<>> =>
    LET n == Len(toks) IN
    /\ From(toks[n]) = StartAfter(EndOf(n - 1) + 1)
    /\ toks[n].kind = "eof" <=> From(toks[n]) = Len(source) + 1

\* Every token is the longest there is at its place, of the kind its text has:
\* a word that begins like a keyword is an identifier, a point is part of a
\* number only if digits follow, a quote after a backslash does not end a string.
Longest ==
  toks # <<>> /\ NoDoubledBackslash =>
    LET t == Last(toks) IN
    t.kind # "eof" =>
      /\ Lexeme(From(t), To(t))
      /\ \A j \in Positions : j > To(t) => ~Lexeme(From(t), j)
      /\ t.kind = "number" => Bounded(From(t), To(t))
      /\ t.kind = KindOf(From(t), To(t))

\* Lines and columns are those of the text: for a token where it starts, for a
\* string its closing quote, for a fault the character at fault.
PositionsRight ==
  /\ toks # <<>> =>
       LET t == Last(toks) IN
       IsAt(t.ln, t.col, IF t.kind = "string" THEN To(t) ELSE t.first)
  /\ status = "error" => IsAt(fault.ln, fault.col, fault.at)

\* An error is raised only where no token can be: a character that starts none, a
\* number that runs into a word or lacks its exponent, a string left open.
FaultsRight ==
  status = "error" /\ NoDoubledBackslash =>
    LET i == StartAfter(EndOf(Len(toks)) + 1) IN
    /\ i \in Positions
    /\ \A j \in i..Len(source) :
         Lexeme(i, j) => CharAt(i) \in Digit /\ ~Bounded(i, j)

\* The constant made of a string literal is what the literal means, and literals
\* with an escape there is not are the ones refused.
StringsMean ==
  consts # <<>> /\ ~Unread =>
    LET s == TextOf(toks[Max(Strings)]) IN
    IF Sound(s) THEN Last(consts) = Meaning(s) ELSE status \in {"invalid", "overrun"}

\* The text of a string token never ends inside an escape, so that reading it
\* stays within the token: the lexer and the reader agree on what is escaped.
ReadsInside == status # "overrun"

\* What the table of escapes in the language's documentation says of \\: it is
\* a backslash, so the quote after it ends the string.
StringsClose ==
  status = "error" =>
    LET i == StartAfter(EndOf(Len(toks)) + 1)
    IN  \A j \in i..Len(source) : ~IsString(i, j)
===============================================================================
