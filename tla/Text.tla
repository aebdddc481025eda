-------------------------------- MODULE Text --------------------------------
(***************************************************************************)
(* Algorithms on text outside the string library: tonumber with a base      *)
(* (lbaselib.c), the name of a chunk in messages (lobject.c), the search    *)
(* path of require (loadlib.c, lauxlib.c), numbers and lines of files       *)
(* (liolib.c) and the classes of patterns as they are written (lstrlib.c).  *)
(*                                                                         *)
(* Text is a sequence of ASCII codes.                                       *)
(***************************************************************************)
EXTENDS Integers, Sequences, SequencesExt

Digit == 48 .. 57
Upper == 65 .. 90
Lower == 97 .. 122
Alnum == Digit \cup Upper \cup Lower
XDigit == Digit \cup (65 .. 70) \cup (97 .. 102)
Space == {32} \cup 9 .. 13
Minus == 45
Plus == 43
Newline == 10
None == <<-1>>    \* NULL, nil
EOF == -1

CharAt(s, i) == IF i \in DOMAIN s THEN s[i] ELSE 0
From(s, i) == SubSeq(s, i, Len(s))
(* The first place from i on whose character is not in S (strspn).          *)
RECURSIVE Skip(_, _, _)
Skip(s, i, S) == IF CharAt(s, i) \in S THEN Skip(s, i + 1, S) ELSE i

-----------------------------------------------------------------------------
(* b_str2int: n is an unsigned number of so many values.                    *)
DigitValue(c) == IF c \in Digit THEN c - 48 ELSE IF c \in Lower THEN c - 97 + 10 ELSE c - 65 + 10
Str2IntBase(s, base, values) ==
  LET sign == Skip(s, 1, Space)
      neg == CharAt(s, sign) = Minus
      first == IF CharAt(s, sign) \in {Minus, Plus} THEN sign + 1 ELSE sign
      end == Skip(s, first, Alnum)
      digits == [i \in 1 .. (end - first) |-> DigitValue(s[first + i - 1])]
      n == FoldLeft(LAMBDA acc, d : (acc * base + d) % values, 0, digits)
      signed == IF neg THEN (-n) % values ELSE n
  IN IF digits = <<>> \/ (\E i \in DOMAIN digits : digits[i] >= base) THEN None
     ELSE IF Skip(s, end, Space) # Len(s) + 1 THEN None
     ELSE <<IF signed >= values \div 2 THEN signed - values ELSE signed>>

-----------------------------------------------------------------------------
(* luaO_chunkid: what is written into a buffer of bufflen bytes, with the   *)
(* zero at its end.                                                         *)
Dots == <<46, 46, 46>>
Prefix == <<91, 115, 34>>            \* [string " , abbreviated
Suffix == <<34, 93>>
ChunkId(source, bufflen) ==
  LET l == Len(source)
      name == Tail(source)
      room == bufflen - Len(Prefix \o Dots \o Suffix) - 1
      line == IF Newline \in ToSet(source) THEN SelectInSeq(source, LAMBDA c : c = Newline) - 1 ELSE l
      shown == IF line > room THEN room ELSE line
  IN IF CharAt(source, 1) = 61
     THEN IF l <= bufflen THEN name \o <<0>> ELSE SubSeq(name, 1, bufflen - 1) \o <<0>>
     ELSE IF CharAt(source, 1) = 64
     THEN IF l <= bufflen THEN name \o <<0>>
          ELSE Dots \o SubSeq(source \o <<0>>, 2 + l - (bufflen - Len(Dots)), l + 1)
     ELSE Prefix \o (IF l < room /\ line = l THEN source ELSE SubSeq(source, 1, shown) \o Dots)
                 \o Suffix \o <<0>>

-----------------------------------------------------------------------------
(* luaL_gsub: every occurrence of p, from left to right.                    *)
RECURSIVE GSubPlain(_, _, _)
GSubPlain(s, p, r) ==
  LET found == {i \in 1 .. (Len(s) - Len(p) + 1) : SubSeq(s, i, i + Len(p) - 1) = p}
      i == CHOOSE x \in found : \A y \in found : x <= y
  IN IF found = {} THEN s ELSE SubSeq(s, 1, i - 1) \o r \o GSubPlain(From(s, i + Len(p)), p, r)

PathSep == 59
PathMark == <<63>>

(* pushnexttemplate: where the next template starts and ends, or 0. *)
NextTemplate(path, i) ==
  LET start == Skip(path, i, {PathSep})
  IN IF start > Len(path) THEN [start |-> 0, end |-> 0]
     ELSE [start |-> start, end |-> Skip(path, start, 1 .. 127 \ {PathSep})]

(* searchpath: the first file that is readable, or all that were tried.     *)
RECURSIVE SearchFrom(_, _, _, _, _)
SearchFrom(name, path, i, readable, tried) ==
  LET t == NextTemplate(path, i)
      filename == GSubPlain(SubSeq(path, t.start, t.end - 1), PathMark, name)
  IN IF t.start = 0 THEN [found |-> None, tried |-> tried]
     ELSE IF filename \in readable THEN [found |-> filename, tried |-> tried]
     ELSE SearchFrom(name, path, t.end, readable, Append(tried, filename))
SearchPath(name, path, sep, dirsep, readable) ==
  SearchFrom(IF sep = <<>> THEN name ELSE GSubPlain(name, sep, dirsep), path, 1, readable, <<>>)

-----------------------------------------------------------------------------
(* read_number.  A reading is the place of the current character in the     *)
(* file, which l_getc has taken, and the buffer, of at most max characters. *)
NextC(rn, s, max) ==
  IF Len(rn.buff) >= max THEN [rn EXCEPT !.buff = <<0>> \o Tail(@), !.ok = FALSE]
  ELSE [rn EXCEPT !.buff = Append(@, s[rn.at]), !.at = @ + 1, !.ok = TRUE]

Test2(rn, s, set, max) ==
  IF CharAt(s, rn.at) \in set THEN NextC(rn, s, max) ELSE [rn EXCEPT !.ok = FALSE]

RECURSIVE ReadDigits(_, _, _, _)
ReadDigits(rn, s, set, max) ==
  IF CharAt(s, rn.at) \in set
  THEN LET next == NextC(rn, s, max)
       IN IF next.ok THEN ReadDigits([next EXCEPT !.count = @ + 1], s, set, max) ELSE next
  ELSE rn

(* The text given to lua_stringtonumber, up to its first zero, and where    *)
(* the file is afterwards.                                                  *)
ReadNumber(s, at, max) ==
  LET start == [at |-> Skip(s, at, Space), buff |-> <<>>, ok |-> TRUE, count |-> 0]
      sign == Test2(start, s, {Minus, Plus}, max)
      zero == Test2(sign, s, {48}, max)
      mark == IF zero.ok THEN Test2(zero, s, {120, 88}, max) ELSE zero
      hex == zero.ok /\ mark.ok
      set == IF hex THEN XDigit ELSE Digit
      whole == ReadDigits([mark EXCEPT !.count = IF zero.ok /\ ~hex THEN 1 ELSE 0], s, set, max)
      point == Test2(whole, s, {46}, max)
      fraction == IF point.ok THEN ReadDigits(point, s, set, max) ELSE point
      exponent == IF fraction.count > 0
                  THEN Test2(fraction, s, IF hex THEN {112, 80} ELSE {101, 69}, max)
                  ELSE [fraction EXCEPT !.ok = FALSE]
      last == IF exponent.ok THEN ReadDigits(Test2(exponent, s, {Minus, Plus}, max), s, Digit, max) ELSE exponent
  IN [text |-> SubSeq(last.buff, 1, Skip(last.buff, 1, 1 .. 127) - 1), next |-> last.at]

(* read_line: pieces of at most size characters until the newline.          *)
RECURSIVE ReadLine(_, _, _, _, _)
ReadLine(s, at, chop, size, got) ==
  LET stop == Skip(s, at, 1 .. 127 \ {Newline})
      end == IF stop > at + size THEN at + size ELSE stop
      line == got \o SubSeq(s, at, end - 1)
  IN IF CharAt(s, end) = Newline /\ end < at + size
     THEN [line |-> IF chop THEN line ELSE Append(line, Newline), next |-> end + 1, ok |-> TRUE]
     ELSE IF end > Len(s) /\ end < at + size THEN [line |-> line, next |-> end, ok |-> line # <<>>]
     ELSE ReadLine(s, end, chop, size, line)

-----------------------------------------------------------------------------
(* Classes of patterns.  Escaped is the %, and classes are its letters.     *)
Escaped == 37
ClassSets ==
  [a |-> Upper \cup Lower, d |-> Digit, l |-> Lower, s |-> Space, u |-> Upper, w |-> Alnum, x |-> XDigit,
   c |-> (0 .. 31) \cup {127}, g |-> 33 .. 126, p |-> (33 .. 126) \ Alnum, z |-> {0}]
Letters == [a |-> 97, c |-> 99, d |-> 100, g |-> 103, l |-> 108, p |-> 112, s |-> 115, u |-> 117, w |-> 119, x |-> 120, z |-> 122]
ToLower(c) == IF c \in Upper THEN c + 32 ELSE c

MatchClass(c, cl) ==
  LET known == {n \in DOMAIN Letters : Letters[n] = ToLower(cl)}
  IN IF known = {} THEN cl = c
     ELSE \A n \in known : (c \in ClassSets[n]) = (cl \in Lower)

(* classend: the place behind the item at i, or 0 if it is malformed.       *)
RECURSIVE SetEnd(_, _)
SetEnd(p, i) ==
  IF i > Len(p) THEN 0
  ELSE LET next == IF p[i] = Escaped /\ i < Len(p) THEN i + 2 ELSE i + 1
       IN IF CharAt(p, next) = 93 THEN next + 1 ELSE SetEnd(p, next)
ClassEnd(p, i) ==
  IF p[i] = Escaped THEN IF i = Len(p) THEN 0 ELSE i + 2
  ELSE IF p[i] = 91 THEN SetEnd(p, IF CharAt(p, i + 1) = 94 THEN i + 2 ELSE i + 1)
  ELSE i + 1

(* matchbracketclass: from the place after i on, up to the ] at ec.         *)
RECURSIVE InSet(_, _, _, _)
InSet(c, p, i, ec) ==
  IF i >= ec THEN FALSE
  ELSE IF p[i] = Escaped THEN MatchClass(c, CharAt(p, i + 1)) \/ InSet(c, p, i + 2, ec)
  ELSE IF CharAt(p, i + 1) = 45 /\ i + 2 < ec THEN c \in p[i] .. p[i + 2] \/ InSet(c, p, i + 3, ec)
  ELSE p[i] = c \/ InSet(c, p, i + 1, ec)
MatchBracketClass(c, p, i, ec) ==
  LET sig == CharAt(p, i + 1) # 94
  IN InSet(c, p, IF sig THEN i + 1 ELSE i + 2, ec) = sig

(* singlematch, without the end of the subject. *)
MatchesItem(c, p, i) ==
  CASE p[i] = 46 -> TRUE
    [] p[i] = Escaped -> MatchClass(c, p[i + 1])
    [] p[i] = 91 -> MatchBracketClass(c, p, i, ClassEnd(p, i) - 1)
    [] OTHER -> p[i] = c
=============================================================================
