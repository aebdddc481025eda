------------------------------- MODULE Lexer -------------------------------
(***************************************************************************)
(* The lexical analyser (llex.c).  A text is a sequence of character codes; *)
(* LLex reads one token from position i.  A token has its kind t, a value v *)
(* (the content of a string or the text of a name or numeral), the position *)
(* behind it and the line there; its kind is "error" when the text is       *)
(* refused.                                                                 *)
(***************************************************************************)
EXTENDS Integers, Sequences, FiniteSets, Strings

Eoz == -1
LF == 10
CR == 13
Quote == 34
SingleQuote == 39
Dash == 45
Dot == 46
Equal == 61
Open == 91
BackSlash == 92
Close == 93

Current(s, i) == IF i <= Len(s) THEN s[i] ELSE Eoz
IsNewline(c) == c \in {LF, CR}
IsBlank(c) == c \in {9, 11, 12, 32}
IsDigit(c) == c \in 48 .. 57
IsXDigit(c) == IsDigit(c) \/ c \in 65 .. 70 \/ c \in 97 .. 102
IsAlpha(c) == c \in 65 .. 90 \/ c \in 97 .. 122 \/ c = 95
HexValue(c) == IF IsDigit(c) THEN c - 48 ELSE IF c >= 97 THEN c - 87 ELSE c - 55

Token(t, v, i, line) == [t |-> t, v |-> v, i |-> i, line |-> line]
Refused(i, line) == Token("error", <<>>, i, line)

(* inclinenumber: two different newline characters are one line break.      *)
AfterNewline(s, i) ==
  IF IsNewline(Current(s, i + 1)) /\ s[i + 1] # s[i] THEN i + 2 ELSE i + 1

RECURSIVE Equals(_, _)
Equals(s, i) == IF Current(s, i) = Equal THEN 1 + Equals(s, i + 1) ELSE 0

(* skip_sep at a bracket: behind the equal signs, and how many, or a        *)
(* negative number when they do not end in the same bracket.                *)
SkipSep(s, i) ==
  LET count == Equals(s, i + 1)
  IN [i |-> i + 1 + count,
      sep |-> IF Current(s, i + 1 + count) = s[i] THEN count ELSE (-count) - 1]

RECURSIVE LongString(_, _, _, _, _)
(* read_long_string behind the opening bracket, with buf read.              *)
LongString(s, i, sep, line, buf) ==
  LET c == Current(s, i)
      k == SkipSep(s, i)
  IN CASE c = Eoz -> Refused(i, line)
       [] c = Close ->
            (IF k.sep = sep THEN Token("string", buf, k.i + 1, line)
             ELSE LongString(s, k.i, sep, line, buf \o SubSeq(s, i, k.i - 1)))
       [] IsNewline(c) -> LongString(s, AfterNewline(s, i), sep, line + 1, Append(buf, LF))
       [] OTHER -> LongString(s, i + 1, sep, line, Append(buf, c))

ReadLong(s, i, sep, line) ==
  IF IsNewline(Current(s, i)) THEN LongString(s, AfterNewline(s, i), sep, line + 1, <<>>)
  ELSE LongString(s, i, sep, line, <<>>)

-----------------------------------------------------------------------------
Simple(c) ==   \* \a \b \f \n \r \t \v
  CASE c = 97 -> 7 [] c = 98 -> 8 [] c = 102 -> 12 [] c = 110 -> LF
    [] c = 114 -> CR [] c = 116 -> 9 [] c = 118 -> 11 [] OTHER -> Eoz

RECURSIVE Decimal(_, _, _, _)
(* readdecesc: at most three digits. *)
Decimal(s, i, n, r) ==
  IF n < 3 /\ IsDigit(Current(s, i)) THEN Decimal(s, i + 1, n + 1, 10 * r + s[i] - 48) ELSE [i |-> i, c |-> r]

RECURSIVE CodePoint(_, _, _)
(* readutf8esc behind the opening brace: behind the closing one, and the    *)
(* code, -1 when it is refused.                                             *)
CodePoint(s, i, r) ==
  LET next == (16 * r) + HexValue(s[i])
  IN IF IsXDigit(Current(s, i))
     THEN IF next > MaxUnicode THEN [i |-> i, c |-> -1] ELSE CodePoint(s, i + 1, next)
     ELSE [i |-> i + 1, c |-> IF Current(s, i) = 125 THEN r ELSE -1]

RECURSIVE Zap(_, _, _)
Zap(s, i, line) ==
  IF IsNewline(Current(s, i)) THEN Zap(s, AfterNewline(s, i), line + 1)
  ELSE IF IsBlank(Current(s, i)) THEN Zap(s, i + 1, line) ELSE [i |-> i, line |-> line]

RECURSIVE ReadString(_, _, _, _, _), Escape(_, _, _, _, _)
ReadString(s, i, del, line, buf) ==
  LET c == Current(s, i)
  IN CASE c = del -> Token("string", buf, i + 1, line)
       [] c = Eoz \/ IsNewline(c) -> Refused(i, line)
       [] c = BackSlash -> Escape(s, i + 1, del, line, buf)
       [] OTHER -> ReadString(s, i + 1, del, line, Append(buf, c))

(* The escape sequence whose character after the backslash is at i.         *)
Escape(s, i, del, line, buf) ==
  LET c == Current(s, i)
      d == Decimal(s, i, 0, 0)
      z == Zap(s, i + 1, line)
      u == CodePoint(s, i + 2, 0)
      Go(j, x) == ReadString(s, j, del, line, Append(buf, x))
  IN CASE Simple(c) # Eoz -> Go(i + 1, Simple(c))
       [] c = 120 ->
            (IF IsXDigit(Current(s, i + 1)) /\ IsXDigit(Current(s, i + 2))
             THEN Go(i + 3, 16 * HexValue(s[i + 1]) + HexValue(s[i + 2])) ELSE Refused(i, line))
       [] c = 117 ->
            (IF Current(s, i + 1) = 123 /\ IsXDigit(Current(s, i + 2)) /\ u.c # -1
             THEN ReadString(s, u.i, del, line, buf \o Utf8Esc(u.c)) ELSE Refused(i, line))
       [] IsNewline(c) -> ReadString(s, AfterNewline(s, i), del, line + 1, Append(buf, LF))
       [] c \in {BackSlash, Quote, SingleQuote} -> Go(i + 1, c)
       [] c = Eoz -> Refused(i, line)
       [] c = 122 -> ReadString(s, z.i, del, z.line, buf)
       [] IsDigit(c) -> (IF d.c > 255 THEN Refused(i, line) ELSE Go(d.i, d.c))
       [] OTHER -> Refused(i, line)

-----------------------------------------------------------------------------
RECURSIVE NumeralEnd(_, _, _)
(* read_numeral takes whatever looks like a part of one ...                 *)
NumeralEnd(s, i, expo) ==
  LET c == Current(s, i)
      signed == Current(s, i + 1) \in {43, Dash}
  IN IF c \in expo
     THEN LET j == IF signed THEN i + 2 ELSE i + 1
          IN IF IsXDigit(Current(s, j)) \/ Current(s, j) = Dot THEN NumeralEnd(s, j + 1, expo) ELSE j
     ELSE IF IsXDigit(c) \/ c = Dot THEN NumeralEnd(s, i + 1, expo) ELSE i

AllOf(text, P(_)) == \A i \in DOMAIN text : P(text[i])

(* ... and leaves it to luaO_str2num to refuse it.                          *)
Mantissa(text, P(_)) ==
  /\ Cardinality({i \in DOMAIN text : text[i] = Dot}) <= 1
  /\ AllOf(text, LAMBDA c : P(c) \/ c = Dot)
  /\ \E i \in DOMAIN text : P(text[i])

Exponent(text) ==
  LET digits == IF text # <<>> /\ text[1] \in {43, Dash} THEN Tail(text) ELSE text
  IN digits # <<>> /\ AllOf(digits, IsDigit)

Numeral(text, P(_), expo) ==
  \/ Mantissa(text, P)
  \/ \E i \in DOMAIN text :
       text[i] \in expo /\ Mantissa(SubSeq(text, 1, i - 1), P) /\ Exponent(SubSeq(text, i + 1, Len(text)))

IsHex(text) == Len(text) >= 2 /\ text[1] = 48 /\ text[2] \in {88, 120}

ValidNumeral(text) ==
  IF IsHex(text) THEN Numeral(SubSeq(text, 3, Len(text)), IsXDigit, {80, 112})
  ELSE Numeral(text, IsDigit, {69, 101})

ReadNumeral(s, i, line) ==
  LET hex == s[i] = 48 /\ Current(s, i + 1) \in {88, 120}
      end == NumeralEnd(s, IF hex THEN i + 2 ELSE i + 1, IF hex THEN {80, 112} ELSE {69, 101})
      text == SubSeq(s, i, end - 1)
  IN IF ValidNumeral(text) THEN Token("number", text, end, line) ELSE Refused(i, line)

RECURSIVE NameEnd(_, _)
NameEnd(s, i) == IF IsAlpha(Current(s, i)) \/ IsDigit(Current(s, i)) THEN NameEnd(s, i + 1) ELSE i

RECURSIVE CommentEnd(_, _)
CommentEnd(s, i) == IF IsNewline(Current(s, i)) \/ Current(s, i) = Eoz THEN i ELSE CommentEnd(s, i + 1)

(* Operators of two characters: the first, and those that may follow it.    *)
Doubles == [c \in {Equal, 60, 62, 47, 126, 58} |->
              CASE c = 60 -> {Equal, 60} [] c = 62 -> {Equal, 62}
                [] c \in {Equal, 126} -> {Equal} [] OTHER -> {c}]

RECURSIVE LLex(_, _, _)
LLex(s, i, line) ==
  LET c == Current(s, i)
      k == SkipSep(s, i)
      comment == SkipSep(s, i + 2)
      long == ReadLong(s, comment.i + 1, comment.sep, line)
      dots == IF Current(s, i + 1) # Dot THEN 1 ELSE IF Current(s, i + 2) # Dot THEN 2 ELSE 3
  IN CASE c = Eoz -> Token("eos", <<>>, i, line)
       [] IsNewline(c) -> LLex(s, AfterNewline(s, i), line + 1)
       [] IsBlank(c) -> LLex(s, i + 1, line)
       [] c = Dash ->
            (IF Current(s, i + 1) # Dash THEN Token("symbol", <<c>>, i + 1, line)
             ELSE IF Current(s, i + 2) # Open THEN LLex(s, CommentEnd(s, i + 2), line)
             ELSE IF comment.sep < 0 THEN LLex(s, CommentEnd(s, comment.i), line)
             ELSE IF long.t = "error" THEN long
             ELSE LLex(s, long.i, long.line))
       [] c = Open ->
            (IF k.sep >= 0 THEN ReadLong(s, k.i + 1, k.sep, line)
             ELSE IF k.sep = -1 THEN Token("symbol", <<c>>, i + 1, line)
             ELSE Refused(i, line))
       [] c \in DOMAIN Doubles ->
            (IF Current(s, i + 1) \in Doubles[c] THEN Token("symbol", <<c, s[i + 1]>>, i + 2, line)
             ELSE Token("symbol", <<c>>, i + 1, line))
       [] c \in {Quote, SingleQuote} -> ReadString(s, i + 1, c, line, <<>>)
       [] c = Dot /\ ~(dots = 1 /\ IsDigit(Current(s, i + 1))) ->
            Token("symbol", SubSeq(s, i, i + dots - 1), i + dots, line)
       [] IsDigit(c) \/ c = Dot -> ReadNumeral(s, i, line)
       [] IsAlpha(c) -> Token("name", SubSeq(s, i, NameEnd(s, i) - 1), NameEnd(s, i), line)
       [] OTHER -> Token("symbol", <<c>>, i + 1, line)

RECURSIVE Tokens(_, _, _)
(* luaX_next until the end or an error. *)
Tokens(s, i, line) ==
  LET t == LLex(s, i, line)
  IN IF t.t \in {"eos", "error"} THEN <<[t |-> t.t, v |-> t.v, line |-> t.line]>>
     ELSE <<[t |-> t.t, v |-> t.v, line |-> t.line]>> \o Tokens(s, t.i, t.line)
=============================================================================
