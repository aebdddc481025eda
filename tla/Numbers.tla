------------------------------ MODULE Numbers ------------------------------
(***************************************************************************)
(* Integers of Lua: their arithmetic (lvm.c, lobject.c), numerical for      *)
(* loops, the functions of bit32 (lbitlib.c) and some of math (lmathlib.c). *)
(* A lua_Integer has W bits, an operand of bit32 NBits.  A float is given   *)
(* as a number of halves.                                                   *)
(***************************************************************************)
EXTENDS Integers, Sequences, Bitwise

CONSTANTS W, NBits

ASSUME NBits < W

MaxInteger == 2^(W - 1) - 1
MinInteger == -(2^(W - 1))
Cast(n) == n % (2^W)                         \* l_castS2U
Signed(n) == IF n % (2^W) > MaxInteger THEN (n % (2^W)) - 2^W ELSE n % (2^W)
NumberError == 2^W                         \* no integer: a raised error

(* Division of C, which rounds towards zero. *)
Magnitude(n) == IF n < 0 THEN -n ELSE n
CDiv(m, n) == LET q == Magnitude(m) \div Magnitude(n) IN IF (m < 0) = (n < 0) THEN q ELSE -q
CMod(m, n) == m - (n * CDiv(m, n))

(* The divisor -1 is apart because MinInteger / -1 overflows.               *)
VDiv(m, n) ==
  IF n = 0 THEN NumberError
  ELSE IF n = -1 THEN Signed(-m)
  ELSE IF (m < 0) # (n < 0) /\ CMod(m, n) # 0 THEN CDiv(m, n) - 1 ELSE CDiv(m, n)

VMod(m, n) ==
  IF n = 0 THEN NumberError
  ELSE IF n = -1 THEN 0
  ELSE LET r == CMod(m, n) IN IF r # 0 /\ (m < 0) # (n < 0) THEN r + n ELSE r

ShiftL(x, y) ==
  IF y < 0 THEN IF y <= -W THEN 0 ELSE Signed(Cast(x) \div 2^(-y))
  ELSE IF y >= W THEN 0 ELSE Signed(Cast(x) * 2^y)

IntArith(op, a, b) ==
  CASE op = "+" -> Signed(a + b)
    [] op = "-" -> Signed(a - b)
    [] op = "*" -> Signed(a * b)
    [] op = "%" -> VMod(a, b)
    [] op = "//" -> VDiv(a, b)
    [] op = "&" -> Signed(Cast(a) & Cast(b))
    [] op = "|" -> Signed(Cast(a) | Cast(b))
    [] op = "~" -> Signed(Cast(a) ^^ Cast(b))
    [] op = "<<" -> ShiftL(a, b)
    [] op = ">>" -> ShiftL(a, Signed(-b))
    [] op = "unm" -> Signed(-a)
    [] op = "bnot" -> Signed((2^W - 1) ^^ Cast(a))

(* math.fmod, abs and ult of integers. *)
FMod(a, d) == IF d = 0 THEN NumberError ELSE IF d = -1 THEN 0 ELSE CMod(a, d)
Abs(n) == IF n < 0 THEN Signed(-n) ELSE n
Ult(a, b) == Cast(a) < Cast(b)

(* math.random with r of R for the fraction that the generator gives.       *)
Random(low, up, r, R) ==
  IF low > up \/ ~(low >= 0 \/ up <= MaxInteger + low) THEN NumberError
  ELSE low + ((r * (up - low + 1)) \div R)

-----------------------------------------------------------------------------
(* A number is an integer, or a float of h halves.  mode rounds a float:    *)
(* 0 fails, 1 takes the floor, 2 the ceiling (tointeger_aux).               *)
ToInteger(x, mode) ==
  LET f == x.n \div 2
      rounded == IF x.n % 2 = 0 THEN f ELSE IF mode = 2 THEN f + 1 ELSE f
  IN IF x.k = "int" THEN x.n
     ELSE IF x.n % 2 # 0 /\ mode = 0 THEN NumberError
     ELSE IF rounded \in MinInteger .. MaxInteger THEN rounded ELSE NumberError

(* The limit as an integer, and whether the loop should not run at all.     *)
ForLimit(x, step) ==
  LET p == ToInteger(x, IF step < 0 THEN 2 ELSE 1)
  IN IF p # NumberError THEN [p |-> p, stopnow |-> FALSE]
     ELSE IF x.n > 0 THEN [p |-> MaxInteger, stopnow |-> step < 0]
     ELSE [p |-> MinInteger, stopnow |-> step >= 0]

RECURSIVE ForLoop(_, _, _, _)
(* The values of the control variable, of which the first fuel are taken:   *)
(* the addition may wrap and the loop never end.                            *)
ForLoop(i, limit, step, fuel) ==
  LET idx == Signed(i + step)
  IN IF fuel = 0 \/ ~(IF 0 < step THEN idx <= limit ELSE limit <= idx) THEN <<>>
     ELSE <<idx>> \o ForLoop(idx, limit, step, fuel - 1)

ForPrep(init, x, step, fuel) ==
  LET l == ForLimit(x, step)
  IN ForLoop(Signed((IF l.stopnow THEN 0 ELSE init) - step), l.p, step, fuel)

-----------------------------------------------------------------------------
(* A size as a float byte, for the constructor's sizes in an instruction.   *)
RECURSIVE Int2Fb(_, _)
Int2Fb(x, e) ==
  IF e = 0 /\ x < 8 THEN x
  ELSE IF x >= 16 THEN Int2Fb((x + 1) \div 2, e + 1)
  ELSE (e + 1) * 8 + (x - 8)

Fb2Int(x) ==
  LET e == (x \div 8) % 32 IN IF e = 0 THEN x ELSE ((x % 8) + 8) * 2^(e - 1)

-----------------------------------------------------------------------------
(* bit32.  An argument is any integer, of which NBits bits count.           *)
Trim(x) == Cast(x) % (2^NBits)
Mask(n) == 2^n - 1

BShift(r, i) ==
  IF i < 0 THEN IF -i >= NBits THEN 0 ELSE Trim(r) \div 2^(-i)
  ELSE IF i >= NBits THEN 0 ELSE Trim(Cast(r) * 2^i)

ArShift(r, i) ==
  IF i < 0 \/ Trim(r) < 2^(NBits - 1) THEN BShift(r, -i)
  ELSE IF i >= NBits THEN Mask(NBits)
  ELSE Trim((Cast(r) \div 2^i) | (Mask(W) - (Mask(NBits) \div 2^i)))

(* NBits is a power of two, so that d & (NBits - 1) is d % NBits.           *)
BRot(x, d) ==
  LET r == Trim(x)
      i == d % NBits
  IN IF i = 0 THEN r ELSE Trim((r * 2^i) | (r \div 2^(NBits - i)))

FieldOK(f, w) == f >= 0 /\ w > 0 /\ f + w <= NBits
Extract(n, f, w) == IF FieldOK(f, w) THEN (Trim(n) \div 2^f) & Mask(w) ELSE NumberError
(* The mask is an int: of full width it is -1 and keeps all bits of v.      *)
Replace(n, v, f, w) ==
  LET kept == IF w = NBits THEN Cast(v) ELSE Cast(v) & Mask(w)
  IN IF FieldOK(f, w) THEN (Trim(n) & (Mask(NBits) - (Mask(w) * 2^f))) | (kept * 2^f)
     ELSE NumberError

-----------------------------------------------------------------------------
(* Numerals.  A character is a digit's value or one of these.              *)
Space == 100
Minus == 101
Plus == 102
Letter == 103      \* the x of a prefix

CharIn(s, i) == IF i <= Len(s) THEN s[i] ELSE 200

RECURSIVE SkipSpaces(_, _), Digits(_, _, _, _)
SkipSpaces(s, i) == IF CharIn(s, i) = Space THEN SkipSpaces(s, i + 1) ELSE i
(* The digits from i in that base: their value so far, and where they end.  *)
Digits(s, i, base, a) ==
  IF CharIn(s, i) < base THEN Digits(s, i + 1, base, Cast((a * base) + s[i])) ELSE [a |-> a, i |-> i]

(* l_str2int: an integer that is too large wraps around.                    *)
Str2Int(s) ==
  LET start == SkipSpaces(s, 1)
      neg == CharIn(s, start) = Minus
      i == IF CharIn(s, start) \in {Minus, Plus} THEN start + 1 ELSE start
      hex == CharIn(s, i) = 0 /\ CharIn(s, i + 1) = Letter
      first == IF hex THEN i + 2 ELSE i
      d == Digits(s, first, IF hex THEN 16 ELSE 10, 0)
  IN IF d.i = first \/ SkipSpaces(s, d.i) <= Len(s) THEN NumberError
     ELSE Signed(IF neg THEN -d.a ELSE d.a)

-----------------------------------------------------------------------------
(* l_strcmp: strings are compared segment by segment up to their zeros.     *)
SegmentEnd(s, i) == CHOOSE j \in i .. Len(s) + 1 :
                      (j = Len(s) + 1 \/ s[j] = 0) /\ \A k \in i .. (j - 1) : s[k] # 0

(* strcoll on two segments: the sign of their order.                        *)
Coll(l, r) ==
  LET common == {n \in 0 .. Len(l) : n <= Len(r) /\ SubSeq(l, 1, n) = SubSeq(r, 1, n)}
      n == CHOOSE m \in common : \A k \in common : k <= m
  IN IF n = Len(l) THEN IF n = Len(r) THEN 0 ELSE -1
     ELSE IF n = Len(r) THEN 1
     ELSE IF l[n + 1] < r[n + 1] THEN -1 ELSE 1

RECURSIVE StrCmp(_, _)
StrCmp(l, r) ==
  LET le == SegmentEnd(l, 1)
      re == SegmentEnd(r, 1)
      c == Coll(SubSeq(l, 1, le - 1), SubSeq(r, 1, re - 1))
  IN IF c # 0 THEN c
     ELSE IF le = Len(r) + 1 THEN IF le = Len(l) + 1 THEN 0 ELSE 1
     ELSE IF le = Len(l) + 1 THEN -1
     ELSE StrCmp(SubSeq(l, le + 1, Len(l)), SubSeq(r, le + 1, Len(r)))
=============================================================================
