--------------------------- MODULE LibraryReference ---------------------------
(***************************************************************************)
(* What the functions of the library promise, said without their            *)
(* algorithms: as functions, sets, per-bit definitions and unbounded        *)
(* integers.  MCLibrary compares the answers of the code with these.        *)
(***************************************************************************)
EXTENDS Integers, Sequences, SequencesExt, FiniteSetsExt

IsError(a) == a = <<-1>>

-----------------------------------------------------------------------------
(* Tables as functions from indices. *)

Inserted(t, size, pos, v) ==
  [i \in DOMAIN t |-> IF i = pos THEN v ELSE IF i \in (pos + 1) .. (size + 1) THEN t[i - 1] ELSE t[i]]

Without(t, size, pos) ==
  LET lastMoved == IF pos < size THEN size ELSE pos
  IN [i \in DOMAIN t |-> IF i \in pos .. (lastMoved - 1) THEN t[i + 1] ELSE IF i = lastMoved THEN 0 ELSE t[i]]

RangeMoved(a, f, e, t) == [i \in DOMAIN a |-> IF i - t + f \in f .. e THEN a[i - t + f] ELSE a[i]]

SamePlural(a, b) ==
  /\ Len(a) = Len(b)
  /\ \A x \in Range(a) \cup Range(b) :
       Cardinality({i \in DOMAIN a : a[i] = x}) = Cardinality({i \in DOMAIN b : b[i] = x})

StrictWeakOrder(Lt, S) ==
  /\ \A x \in S : <<x, x>> \notin Lt
  /\ \A x, y, z \in S : <<x, y>> \in Lt /\ <<y, z>> \in Lt => <<x, z>> \in Lt
  /\ \A x, y, z \in S : <<x, y>> \in Lt => <<x, z>> \in Lt \/ <<z, y>> \in Lt

Sorted(b, Lt) == \A i, j \in DOMAIN b : i < j => <<b[j], b[i]>> \notin Lt

SortIsRight(a, Lt, b) ==
  IF IsError(b) THEN ~StrictWeakOrder(Lt, Range(a))
  ELSE SamePlural(a, b) /\ (StrictWeakOrder(Lt, Range(a)) => Sorted(b, Lt))

-----------------------------------------------------------------------------
(* All the ways in which the items of a pattern from p match at s, the      *)
(* preferred first, with the captures of each as a sequence of its own.     *)

InClass(q, s, class) == s < Len(q.src) /\ q.src[s + 1] \in class
Text(q, c) == SubSeq(q.src, c.init + 1, c.init + c.len)

Unfinished(caps) == Max({i \in DOMAIN caps : caps[i].len = -1})

(* The lengths of balanced texts from s. *)
Balanced(q, s, b, e) ==
  LET Level(n) == Cardinality({i \in 1 .. n : q.src[s + i] = b /\ b # e})
                  - Cardinality({i \in 1 .. n : q.src[s + i] = e})
      ends == {n \in 2 .. (Len(q.src) - s) : IF b = e THEN q.src[s + n] = e ELSE Level(n) = 0}
  IN IF InClass(q, s, {b}) /\ ends # {} THEN {Min(ends)} ELSE {}

RECURSIVE Ways(_, _, _, _)
Ways(q, s, p, caps) ==
  IF p > Len(q.pat) THEN <<[to |-> s, captures |-> caps]>>
  ELSE
    LET item == q.pat[p]
        After(n) == Ways(q, s + n, p + 1, caps)
        run == Max({n \in 0 .. (Len(q.src) - s) : \A k \in 0 .. (n - 1) : InClass(q, s + k, item.class)})
        Counts == CASE item.suffix = "" -> IF run >= 1 THEN <<1>> ELSE <<>>
                    [] item.suffix = "?" -> IF run >= 1 THEN <<1, 0>> ELSE <<0>>
                    [] item.suffix = "*" -> [i \in 1 .. (run + 1) |-> run + 1 - i]
                    [] item.suffix = "+" -> [i \in 1 .. run |-> run + 1 - i]
                    [] item.suffix = "-" -> [i \in 1 .. (run + 1) |-> i - 1]
        Zero == <<0>> \o q.src \o <<0>>
    IN CASE item.k = "one" -> FlattenSeq([i \in DOMAIN Counts |-> After(Counts[i])])
         [] item.k = "open" -> Ways(q, s, p + 1, Append(caps, [init |-> s, len |-> -1]))
         [] item.k = "position" -> Ways(q, s, p + 1, Append(caps, [init |-> s, len |-> -2]))
         [] item.k = "close" ->
              (LET u == Unfinished(caps) IN Ways(q, s, p + 1, [caps EXCEPT ![u].len = s - caps[u].init]))
         [] item.k = "back" ->
              (LET c == caps[item.n]
               IN IF c.len >= 0 /\ s + c.len <= Len(q.src) /\ SubSeq(q.src, s + 1, s + c.len) = Text(q, c) THEN After(c.len) ELSE <<>>)
         [] item.k = "end" -> IF s = Len(q.src) THEN After(0) ELSE <<>>
         [] item.k = "frontier" ->
              (IF Zero[s + 1] \notin item.class /\ Zero[s + 2] \in item.class THEN After(0) ELSE <<>>)
         [] item.k = "balance" ->
              (LET ends == Balanced(q, s, item.b, item.e)
               IN IF ends = {} THEN <<>> ELSE After(Max(ends)))

FirstMatch(q, s) ==
  LET starts == {i \in (IF q.anchor THEN {s} ELSE s .. Len(q.src)) : Ways(q, i, 1, <<>>) # <<>>}
      way == Head(Ways(q, Min(starts), 1, <<>>))
  IN IF starts = {} THEN [from |-> -1, to |-> -1, captures |-> <<>>]
     ELSE [from |-> Min(starts), to |-> way.to, captures |-> way.captures]

RECURSIVE AllMatches(_, _)
AllMatches(q, s) ==
  IF s > Len(q.src) THEN <<>>
  ELSE LET m == FirstMatch(q, s)
       IN IF m.from = -1 THEN <<>>
          ELSE <<m>> \o (IF q.anchor THEN <<>>
                         ELSE AllMatches(q, IF m.to = m.from THEN m.to + 1 ELSE m.to))

(* The subject with the first max matches replaced. *)
Replacement(q, m) ==
  LET One(x) == IF x.k = "char" THEN <<x.c>>
                ELSE IF x.n = 0 \/ m.captures = <<>> THEN SubSeq(q.src, m.from + 1, m.to)
                ELSE IF m.captures[x.n].len = -2 THEN <<m.captures[x.n].init + 1>>
                ELSE Text(q, m.captures[x.n])
  IN FlattenSeq([i \in DOMAIN q.repl |-> One(q.repl[i])])

Substituted(q) ==
  LET all == AllMatches(q, 0)
      n == IF Len(all) < q.max THEN Len(all) ELSE q.max
      end(i) == IF i = 0 THEN 0 ELSE all[i].to
      pieces == [i \in 1 .. n |-> SubSeq(q.src, end(i - 1) + 1, all[i].from) \o Replacement(q, all[i])]
  IN [text |-> FlattenSeq(pieces) \o SubSeq(q.src, end(n) + 1, Len(q.src)), n |-> n]

(* Calls of match nest once for each item that may be tried in two ways, so *)
(* the depth depends on the pattern and never on the subject.               *)
Nesting(q) ==
  1 + Cardinality({i \in DOMAIN q.pat : \/ q.pat[i].k \in {"open", "position", "close"}
                                        \/ q.pat[i].k = "one" /\ q.pat[i].suffix # ""})

-----------------------------------------------------------------------------
(* Packed data, with bytes of base values and integers of size bytes.       *)

SignedRange(base, size) == (-((base^size) \div 2)) .. ((base^size) \div 2 - 1)

(* Whether an option can hold its argument, an integer of width bytes.      *)
Holds(o, n, base, width) ==
  CASE o.k = "int" -> o.size >= width \/ n \in SignedRange(base, o.size)
    [] o.k = "uint" -> o.size >= width \/ n \in 0 .. (base^o.size - 1)
    [] o.k = "char" -> Len(n) = o.size
    [] o.k = "string" -> o.size >= width \/ Len(n) < base^o.size
    [] o.k = "zstr" -> \A i \in DOMAIN n : n[i] # 0
    [] OTHER -> TRUE

(* The alignment in force at option i, 1 when it is not aligned.            *)
AlignmentAt(fmt, i) ==
  LET settings == {j \in 1 .. i : fmt[j].k = "maxalign"}
      most == IF settings = {} THEN 1 ELSE fmt[Max(settings)].size
      o == IF fmt[i].k = "padalign" /\ i < Len(fmt) THEN fmt[i + 1] ELSE fmt[i]
  IN IF o.k \in {"int", "uint", "string"} THEN IF o.size < most THEN o.size ELSE most ELSE 1

Alignable(fmt) ==
  \A i \in DOMAIN fmt :
    /\ AlignmentAt(fmt, i) \in {1, 2, 4, 8}
    /\ fmt[i].k = "padalign" => i < Len(fmt) /\ fmt[i + 1].k \in {"int", "uint", "string", "padding"}

(* The options that take a value; the one behind a padalign gives it only   *)
(* its size.                                                                *)
Consumed(fmt, i) == i > 1 /\ fmt[i - 1].k = "padalign"
Taking(fmt) ==
  LET is == {i \in DOMAIN fmt : fmt[i].k \in {"int", "uint", "char", "string", "zstr"} /\ ~Consumed(fmt, i)}
  IN [j \in 1 .. Cardinality(is) |-> fmt[CHOOSE i \in is : Cardinality({k \in is : k <= i}) = j]]

(* a holds the data, what they unpack to and the size that packsize gives.  *)
PackIsRight(fmt, args, a, base, width) ==
  LET taking == Taking(fmt)
      n == Len(fmt)
      before == Len(a.data) - (IF Consumed(fmt, n) THEN 0 ELSE fmt[n].size)
  IN IF ~Alignable(fmt) \/ \E i \in DOMAIN taking : ~Holds(taking[i], args[i], base, width)
     THEN IsError(a.data)
     ELSE /\ a.values = Append(args, Len(a.data) + 1)
          /\ a.size = IF \E i \in DOMAIN taking : taking[i].k \in {"string", "zstr"} THEN -1 ELSE Len(a.data)
          /\ fmt[n].k \in {"int", "uint"} => before % AlignmentAt(fmt, n) = 0

-----------------------------------------------------------------------------
(* Strings. *)

Position(i, len) == IF i < 0 THEN len + i + 1 ELSE i
SliceOf(s, i, j) ==
  LET inside == {k \in DOMAIN s : Position(i, Len(s)) <= k /\ k <= Position(j, Len(s))}
  IN IF inside = {} THEN <<>> ELSE SubSeq(s, Min(inside), Max(inside))

FirstOccurrence(s, i, p) ==
  LET at == {k \in i .. (Len(s) - Len(p) + 1) : SubSeq(s, k, k + Len(p) - 1) = p}
  IN IF at = {} THEN 0 ELSE Min(at)

(* The encoding of Unicode, by its table. *)
Continuation(x, shift) == 128 + ((x \div 64^shift) % 64)
Encoding(x) ==
  CASE x < 128 -> <<x>>
    [] x \in 128 .. 2047 -> <<192 + x \div 64, Continuation(x, 0)>>
    [] x \in 2048 .. 65535 -> <<224 + x \div 4096, Continuation(x, 1), Continuation(x, 0)>>
    [] OTHER -> <<240 + x \div 262144, Continuation(x, 2), Continuation(x, 1), Continuation(x, 0)>>
Encoded(xs) == FlattenSeq([i \in DOMAIN xs |-> Encoding(xs[i])])

(* The characters that bytes can be read as: at most one, of 0 .. 10FFFF.   *)
Payload(bytes) ==
  LET first == bytes[1] % (2^(IF Len(bytes) = 1 THEN 7 ELSE 7 - Len(bytes)))
  IN FoldLeft(LAMBDA acc, b : (acc * 64) + (b % 64), first, Tail(bytes))
IsCharacter(bytes) == Payload(bytes) <= 1114111 /\ Encoding(Payload(bytes)) = bytes

RECURSIVE Characters(_, _)
(* Those of s from position i, as far as they go, with their places.        *)
Characters(s, i) ==
  LET lengths == {n \in 1 .. 4 : i + n - 1 <= Len(s) /\ IsCharacter(SubSeq(s, i, i + n - 1))}
      n == Min(lengths)
  IN IF i > Len(s) \/ lengths = {} THEN <<>>
     ELSE <<[at |-> i, code |-> Payload(SubSeq(s, i, i + n - 1)), behind |-> i + n]>> \o Characters(s, i + n)

WellEncoded(s) ==
  s = <<>> \/ LET cs == Characters(s, 1) IN cs # <<>> /\ cs[Len(cs)].behind = Len(s) + 1

-----------------------------------------------------------------------------
(* Integers of w bits. *)

Bit(n, i) == (n \div 2^i) % 2
OfBits(f(_), w) == FoldLeft(LAMBDA acc, i : acc + f(i - 1) * 2^(i - 1), 0, [i \in 1 .. w |-> i])
Wrap(n, w) == LET u == n % (2^w) IN IF u >= 2^(w - 1) THEN u - 2^w ELSE u

(* Shifts are logical and by any distance; bits that leave are lost.        *)
Shifted(x, d, w) == OfBits(LAMBDA i : IF i - d \in 0 .. (w - 1) THEN Bit(x % (2^w), i - d) ELSE 0, w)
Rotated(x, d, w) == OfBits(LAMBDA i : Bit(x % (2^w), (i - d) % w), w)

Floor(m, n) == IF n > 0 THEN m \div n ELSE (-m) \div (-n)

Arithmetic(op, a, b, w) ==
  LET Bits(f(_, _)) == Wrap(OfBits(LAMBDA i : f(Bit(a, i), Bit(b, i)), w), w)
  IN CASE op = "+" -> Wrap(a + b, w)
       [] op = "-" -> Wrap(a - b, w)
       [] op = "*" -> Wrap(a * b, w)
       [] op = "//" -> IF b = 0 THEN 2^w ELSE Wrap(Floor(a, b), w)
       [] op = "%" -> IF b = 0 THEN 2^w ELSE a - b * Floor(a, b)
       [] op = "&" -> Bits(LAMBDA x, y : x * y)
       [] op = "|" -> Bits(LAMBDA x, y : IF x + y > 0 THEN 1 ELSE 0)
       [] op = "~" -> Bits(LAMBDA x, y : (x + y) % 2)
       [] op = "<<" -> Wrap(Shifted(a, b, w), w)
       [] op = ">>" -> Wrap(Shifted(a, -b, w), w)
       [] op = "unm" -> Wrap(-a, w)
       [] op = "bnot" -> -a - 1

(* The remainder that has the sign of the dividend. *)
IsRemainder(r, a, d) ==
  /\ \E q \in (-(2^8)) .. 2^8 : a = q * d + r
  /\ r \in (-(IF d < 0 THEN -d ELSE d) + 1) .. ((IF d < 0 THEN -d ELSE d) - 1)
  /\ r = 0 \/ (r < 0) = (a < 0)

(* The values of a loop whose limit is given in halves.                     *)
LoopValues(init, halves, step, fuel) ==
  LET Within(k) == IF step > 0 THEN 2 * (init + k * step) <= halves ELSE 2 * (init + k * step) >= halves
      n == Cardinality({k \in 0 .. fuel - 1 : Within(k)})
  IN [k \in 1 .. n |-> init + (k - 1) * step]

BitFields(n, v, f, w, bits) ==
  OfBits(LAMBDA i : IF i \in f .. (f + w - 1) THEN Bit(v, i - f) ELSE Bit(n % (2^bits), i), bits)

(* The integer that a numeral spells between spaces, or none.               *)
IntegerOf(s, space, minus, plus, letter, w, none) ==
  LET dark == {i \in DOMAIN s : s[i] # space}
      core == SubSeq(s, Min(dark), Max(dark))
      body == IF Head(core) \in {minus, plus} THEN Tail(core) ELSE core
      hex == IsPrefix(<<0, letter>>, body)
      digits == IF hex THEN SubSeq(body, 3, Len(body)) ELSE body
      base == IF hex THEN 16 ELSE 10
      value == FoldLeft(LAMBDA acc, d : (acc * base) + d, 0, digits)
  IN IF dark = {} \/ digits = <<>> \/ \E i \in DOMAIN digits : digits[i] >= base THEN none
     ELSE Wrap(IF Head(core) = minus THEN -value ELSE value, w)

(* A byte string is before another at the first difference, or as a prefix. *)
Before(l, r) ==
  \E n \in 0 .. Len(l) :
    /\ n < Len(r) /\ SubSeq(l, 1, n) = SubSeq(r, 1, n)
    /\ n = Len(l) \/ l[n + 1] < r[n + 1]
=============================================================================
