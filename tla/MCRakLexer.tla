----------------------------- MODULE MCRakLexer -----------------------------
(***************************************************************************)
(* Sources for RakLexer: every short text over the characters that matter, *)
(* and longer ones over those that matter to numbers, strings, comments    *)
(* and keywords.                                                           *)
(***************************************************************************)
EXTENDS RakLexer, TLC

MCAscii ==
  "\t" :> 9 @@ "\n" :> 10 @@ " " :> 32 @@ "!" :> 33 @@ "\"" :> 34 @@ "#" :> 35
    @@ "$" :> 36 @@ "%" :> 37 @@ "&" :> 38 @@ "+" :> 43 @@ "-" :> 45 @@ "." :> 46
    @@ "/" :> 47 @@ "0" :> 48 @@ "1" :> 49 @@ "4" :> 52 @@ "8" :> 56 @@ ";" :> 59
    @@ "=" :> 61 @@ "E" :> 69 @@ "\\" :> 92 @@ "_" :> 95 @@ "a" :> 97 @@ "b" :> 98
    @@ "c" :> 99 @@ "d" :> 100 @@ "e" :> 101 @@ "f" :> 102 @@ "h" :> 104
    @@ "i" :> 105 @@ "k" :> 107 @@ "l" :> 108 @@ "n" :> 110 @@ "o" :> 111
    @@ "p" :> 112 @@ "r" :> 114 @@ "s" :> 115 @@ "t" :> 116 @@ "u" :> 117
    @@ "w" :> 119 @@ "x" :> 120 @@ "y" :> 121

MCChar == DOMAIN MCAscii

UpTo(S, n) == UNION {[1..m -> S] : m \in 0..n}

ShortSources ==
  UpTo({"\n", " ", "!", "\"", "#", "$", "&", "+", ".", "/", "1", ";", "=", "\\",
        "_", "f", "n"}, 3)

NumberSources == UpTo({"1", ".", "e", "+", "_"}, 5)

\* "..." and what comes after it
StringSources ==
  {Chars("\"") \o w \o Chars("\"") : w \in UpTo({"\"", "\\", "n", "x", "4", "8"}, 5)}

CommentSources ==
  {start \o w : start \in {<<>>, Chars("#!")}, w \in UpTo({"/", "\n", " ", "="}, 5)}

\* A keyword, alone and next to other characters, or with a letter missing.
KeywordSources ==
  {before \o Chars(kw) \o after :
     kw \in Keywords, before, after \in {<<>>} \cup {<<c>> : c \in {"a", "1", "_", " ", "."}}}
  \cup {Front(Chars(kw)) : kw \in Keywords}

MCSources ==
  ShortSources \cup NumberSources \cup StringSources \cup CommentSources
    \cup KeywordSources

\* "\\";
DoubledSources ==
  {Chars("\"") \o w \o Chars("\";") : w \in UpTo({"\\", "n"}, 3)}
=============================================================================
