------------------------------ MODULE Strings ------------------------------
(***************************************************************************)
(* Positions in strings (lstrlib.c) and UTF-8 (lutf8lib.c, lobject.c).  A   *)
(* string is a sequence of bytes, positions count from 1 and negative ones  *)
(* from the end.  The plug-in is a 32-bit library: a size_t has fewer bits  *)
(* than a lua_Integer, which Sizes, the number of values of a size_t, lets  *)
(* a model make as small as it needs.                                       *)
(***************************************************************************)
EXTENDS Integers, Sequences

CONSTANT Sizes      \* 2^32 in the program

StringError == -1

(* The negation is computed in a size_t, the sum in a lua_Integer.          *)
PosRelat(pos, len) ==
  IF pos >= 0 THEN pos ELSE IF (-pos) % Sizes > len THEN 0 ELSE len + pos + 1

(* string.sub: where the result starts and ends.                            *)
StrSub(s, i, j) ==
  LET start == PosRelat(i, Len(s))
      end == PosRelat(j, Len(s))
      from == IF start < 1 THEN 1 ELSE start
      to == IF end > Len(s) THEN Len(s) ELSE end
  IN IF from <= to THEN SubSeq(s, from, to) ELSE <<>>

(* string.byte: as sub, but counted in an int.                              *)
StrByte(s, i, j) ==
  LET posi == PosRelat(i, Len(s))
      pose == PosRelat(j, Len(s))
      from == IF posi < 1 THEN 1 ELSE posi
      to == IF pose > Len(s) THEN Len(s) ELSE pose
  IN IF from > to THEN <<>> ELSE [k \in 1 .. (to - from + 1) |-> s[from + k - 1]]

(* string.rep: the length of the result, or an error when it may overflow.  *)
RepLength(l, lsep, n, maxSize) ==
  IF n <= 0 THEN 0
  ELSE IF (l + lsep) % Sizes < l \/ (l + lsep) % Sizes > maxSize \div n THEN StringError
  ELSE ((n * l) + (n - 1) * lsep) % Sizes

RECURSIVE MemFind(_, _, _, _)
(* lmemfind: a plain search from position i, by the first character first.  *)
MemFind(s, i, l1, p) ==
  IF p = <<>> THEN i
  ELSE IF Len(p) > l1 THEN 0
  ELSE LET firsts == {k \in i .. (i + l1 - Len(p)) : s[k] = p[1]}
           k == CHOOSE m \in firsts : \A n \in firsts : m <= n
       IN IF firsts = {} THEN 0
          ELSE IF SubSeq(s, k + 1, k + Len(p) - 1) = Tail(p) THEN k
          ELSE MemFind(s, k + 1, l1 - (k + 1 - i), p)

-----------------------------------------------------------------------------
(* Bytes 128 to 191 continue a sequence. *)
MaxUnicode == 1114111
ByteAt(s, pos) == IF pos < Len(s) THEN s[pos + 1] ELSE 0   \* the final zero
IsCont(s, pos) == ByteAt(s, pos) \div 64 = 2

RECURSIVE EscapeTail(_, _)
(* luaO_utf8esc: the bytes of x, from the last, while they do not fit in a  *)
(* first byte with room for values up to mfb.                               *)
EscapeTail(x, mfb) ==
  IF x > mfb THEN Append(EscapeTail(x \div 64, mfb \div 2), 128 + (x % 64))
  ELSE <<(254 - 2 * mfb) + x>>

Utf8Esc(x) ==
  IF x < 128 THEN <<x>> ELSE Append(EscapeTail(x \div 64, 31), 128 + (x % 64))

RECURSIVE Continued(_, _, _, _, _)
(* The value of the continuation bytes that the bits of c, the first byte   *)
(* shifted count times, announce: <<value, count, c>>, or a value of -1.    *)
Continued(s, pos, c, count, res) ==
  IF (c \div 64) % 2 = 0 THEN <<res, count, c>>
  ELSE IF ~IsCont(s, pos + count + 1) THEN <<-1, count, c>>
  ELSE Continued(s, pos, 2 * c, count + 1, (res * 64) + (ByteAt(s, pos + count + 1) % 64))

Limit(count) == CASE count = 0 -> 255 [] count = 1 -> 127 [] count = 2 -> 2047 [] OTHER -> 65535

(* utf8_decode at pos: the code and the position behind it, -1 when the     *)
(* bytes there are no character.                                            *)
Utf8Decode(s, pos) ==
  LET c == ByteAt(s, pos)
      r == Continued(s, pos, c, 0, 0)
      code == r[1] + (r[3] % 128) * 2^(5 * r[2])
      Bad == [code |-> -1, next |-> -1]
  IN IF c < 128 THEN [code |-> c, next |-> pos + 1]
     ELSE IF r[1] = -1 \/ r[2] > 3 THEN Bad
     ELSE IF code > MaxUnicode \/ code <= Limit(r[2]) THEN Bad
     ELSE [code |-> code, next |-> pos + r[2] + 1]

RECURSIVE CountChars(_, _, _, _)
CountChars(s, posi, posj, n) ==
  IF posi > posj THEN [n |-> n, bad |-> 0]
  ELSE LET d == Utf8Decode(s, posi)
       IN IF d.code = -1 THEN [n |-> -1, bad |-> posi + 1] ELSE CountChars(s, d.next, posj, n + 1)

(* utf8.len: the characters that start in i .. j, or where one is bad.      *)
Utf8Len(s, i, j) ==
  LET posi == PosRelat(i, Len(s))
      posj == PosRelat(j, Len(s))
  IN IF posi < 1 \/ posi - 1 > Len(s) \/ posj - 1 >= Len(s) THEN [n |-> StringError, bad |-> StringError]
     ELSE CountChars(s, posi - 1, posj - 1, 0)

RECURSIVE Back(_, _), Backwards(_, _, _), Onwards(_, _), Forwards(_, _, _)
Back(s, pos) == IF pos > 0 /\ IsCont(s, pos) THEN Back(s, pos - 1) ELSE pos
Onwards(s, pos) == IF IsCont(s, pos) THEN Onwards(s, pos + 1) ELSE pos
Backwards(s, pos, n) ==
  IF n < 0 /\ pos > 0 THEN Backwards(s, Back(s, pos - 1), n + 1) ELSE <<pos, n>>
Forwards(s, pos, n) ==
  IF n > 0 /\ pos < Len(s) THEN Forwards(s, Onwards(s, pos + 1), n - 1) ELSE <<pos, n>>

(* utf8.offset: where the n-th character from position i starts, 0 for nil. *)
ByteOffset(s, n, i) ==
  LET posi == PosRelat(i, Len(s)) - 1
      moved == IF n = 0 THEN <<Back(s, posi), 0>>
               ELSE IF n < 0 THEN Backwards(s, posi, n) ELSE Forwards(s, posi, n - 1)
  IN IF posi < 0 \/ posi > Len(s) THEN StringError
     ELSE IF n # 0 /\ IsCont(s, posi) THEN StringError
     ELSE IF moved[2] = 0 THEN moved[1] + 1 ELSE 0

RECURSIVE Codes(_, _, _)
(* utf8.codes: the codes that the iterator yields after position n, and an  *)
(* error at the first byte sequence that is no character.                   *)
Codes(s, n, out) ==
  LET from == IF n = 0 THEN 0 ELSE IF n - 1 < Len(s) THEN Onwards(s, n) ELSE n - 1
      d == Utf8Decode(s, from)
  IN IF from >= Len(s) THEN out
     ELSE IF d.code = -1 THEN Append(out, StringError)
     ELSE IF IsCont(s, d.next) THEN Append(out, StringError)
     ELSE Codes(s, from + 1, Append(out, d.code))
=============================================================================
