------------------------------ MODULE MCLibrary ------------------------------
(* The questions of the model, the code's answers and how they are judged.  *)
EXTENDS Library, TableLibrary, Patterns, Packing, Strings, Numbers, Lexer, LibraryReference

Core == INSTANCE MCCore

-----------------------------------------------------------------------------
(* One table: keys that collide, floats that are integers and that are not. *)
Flt(halves) == [kind |-> "flt", n |-> halves, hash |-> 5]
Str(h) == [kind |-> "str", n |-> h, hash |-> h]
MCKeys == {Index(1), Index(2), Index(4), Flt(4), Flt(5), Str(1), Str(3)}

Ask(about, S) == {[about |-> about, args |-> a] : a \in S}
UpTo(n, S) == {SubSeq(s, 1, k) : s \in [1 .. n -> S], k \in 0 .. n}
Fields4 == -1 .. 5

-----------------------------------------------------------------------------
(* Functions of table. *)
Filled(size, top) == [i \in 0 .. top |-> IF i = 0 THEN 9 ELSE IF i <= size THEN 10 + i ELSE 0]
Places == {<<Filled(size, 6), size, pos>> : size \in 0 .. 3, pos \in Fields4}
Moves == {<<Filled(4, 9), f, e, t>> : f \in 0 .. 3, e \in 0 .. 4, t \in 1 .. 5}

(* Arrays up to renaming of their values, under every relation.             *)
Arrays(n) == {a \in [1 .. n -> 1 .. 3] : \A i \in 1 .. n : a[i] = 1 \/ \E j \in 1 .. (i - 1) : a[j] = a[i] - 1}
Orders(S) == SUBSET (S \X S)
Sorts == ((UNION {Arrays(n) : n \in 1 .. 4}) \X Orders(1 .. 3))
         \cup ([1 .. 6 -> 1 .. 3] \X {{<<1, 2>>, <<1, 3>>, <<2, 3>>}, {<<1, 2>>, <<1, 3>>}, {<<1, 2>>, <<2, 3>>, <<3, 1>>}})
Concats == [1 .. 3 -> {0, 4, 5}] \X (1 .. 4) \X (0 .. 3)

-----------------------------------------------------------------------------
(* Patterns over the characters 1 and 2. *)
A == {1}
B == {2}
Both == {1, 2}
One(class, suffix) == [k |-> "one", class |-> class, suffix |-> suffix]
O == [k |-> "open"]
C == [k |-> "close"]
At == [k |-> "position"]
End == [k |-> "end"]
BackTo(n) == [k |-> "back", n |-> n]
Bal(b, e) == [k |-> "balance", b |-> b, e |-> e]
Edge(class) == [k |-> "frontier", class |-> class]

PatternItems == {One(A, ""), One(A, "*"), One(B, "?"), One(Both, "-"), One(Both, "+"),
                 O, C, At, End, BackTo(1), Edge(A)}

OpenAt(pat, i) == Cardinality({j \in 1 .. i : pat[j].k = "open"})
                  - Cardinality({j \in 1 .. i : pat[j].k = "close"})
WellFormed(pat) ==
  /\ \A i \in DOMAIN pat : OpenAt(pat, i) >= 0 /\ (pat[i].k = "end" => i = Len(pat))
  /\ OpenAt(pat, Len(pat)) = 0
  /\ \A i \in DOMAIN pat : pat[i].k = "back" =>
       \E c \in 1 .. (i - 1) : pat[c].k \in {"close", "position"} /\ OpenAt(pat, c) = 0

LongPatterns == {
  <<O, One(A, "*"), C, O, One(B, "?"), C, BackTo(1)>>,
  <<O, O, One(Both, ""), C, O, One(B, "?"), C, C, BackTo(2)>>,
  <<At, One(A, "*"), At>>,
  <<O, One(Both, "-"), C, BackTo(1), End>>,
  <<O, One(Both, "*"), C, One(B, ""), BackTo(1)>>,
  <<One(B, "?"), O, One(A, "-"), C, One(B, ""), End>>,
  <<Bal(1, 2)>>, <<O, Bal(1, 1), C, One(B, "?")>>,
  <<Edge(A), One(A, "+"), Edge(B)>>,
  <<Edge({0}), At>>,
  <<One(A, "?"), One(A, "?"), One(A, "?"), O, O, One(Both, "*"), C, C, BackTo(2)>>}

Short == {p \in UpTo(3, PatternItems) : WellFormed(p)}
Tiny == {p \in UpTo(2, PatternItems) : WellFormed(p)}
Query(pat, src, anchor, max) ==
  [src |-> src, pat |-> pat, anchor |-> anchor, max |-> max,
   repl |-> <<[k |-> "char", c |-> 7], [k |-> "capture", n |-> 1]>>]
Subjects(n) == UpTo(n, Both)
Finds == {<<Query(p, s, FALSE, 1), 0>> : p \in Short, s \in Subjects(3)}
         \cup {<<Query(p, s, anchor, 1), i>> :
                 p \in LongPatterns, s \in Subjects(5) \ Subjects(0), anchor \in BOOLEAN, i \in {0, 1}}
Iterations == {<<Query(p, s, FALSE, 1)>> : p \in Tiny \cup LongPatterns, s \in Subjects(4)}
Substitutions == {<<Query(p, s, anchor, max)>> :
                    p \in Tiny \cup LongPatterns, s \in Subjects(4), anchor \in BOOLEAN, max \in {1, 9}}

-----------------------------------------------------------------------------
(* Packing with bytes of 2 bits and integers of 2 bytes: -8 .. 7.           *)
Opt(k, size) == [k |-> k, size |-> size]
Leads == {<<>>, <<Opt("big", 0)>>, <<Opt("maxalign", 2)>>, <<Opt("maxalign", 3), Opt("char", 1)>>,
          <<Opt("maxalign", 4), Opt("padding", 1)>>,
          <<Opt("maxalign", 4), Opt("little", 0), Opt("padding", 1), Opt("padalign", 0)>>}
ValueOptions == {Opt("int", 1), Opt("int", 2), Opt("int", 4), Opt("uint", 1), Opt("uint", 2),
                 Opt("uint", 4), Opt("char", 1), Opt("string", 1), Opt("zstr", 0)}
Formats == {lead \o body : lead \in Leads, body \in UpTo(2, ValueOptions) \ {<<>>}}
Choice(o, i) ==
  IF o.k \in {"int", "uint"} THEN <<-8, -3, -2, -1, 0, 1, 2, 3, 4, 7>>[i]
  ELSE << <<>>, <<3>>, <<0>>, <<1, 2>>, <<1, 2, 3, 1>> >>[(i \div 2) + 1]
Packs == {<<f, LET os == Taking(f) IN [n \in DOMAIN os |-> Choice(os[n], IF n = 1 THEN i ELSE j)]>> :
            f \in Formats, i \in 1 .. 9, j \in {1, 3, 5, 8, 9}}

-----------------------------------------------------------------------------
(* Strings, with a size_t of 8 values. *)
Slices == {<<[k \in 1 .. n |-> 10 + k], i, j>> : n \in 0 .. 3, i \in -9 .. 9, j \in -9 .. 9}
Reps == (0 .. 3) \X (0 .. 3) \X (-1 .. 6)
Searches == {<<s, i, p>> : s \in UpTo(5, Both), i \in 1 .. 6, p \in UpTo(3, Both)}
PlainSearches == {x \in Searches : x[2] <= Len(x[1]) + 1}
Borders == {0, 65, 127, 128, 2047, 2048, 65535, 65536, 1114111}
SomeBytes == {65, 127, 128, 143, 144, 191, 193, 194, 224, 237, 240, 244, 245}
ByteStrings == UpTo(3, SomeBytes) \cup {<<a, b, 128, 191>> : a \in SomeBytes, b \in SomeBytes}

-----------------------------------------------------------------------------
(* Integers of 5 bits, and of 4 in bit32. *)
Integers5 == -16 .. 15
Operators == {"+", "-", "*", "//", "%", "&", "|", "~", "<<", ">>", "unm", "bnot"}
Loops == {-16, -15, -2, 0, 3, 14, 15}
         \X ([k : {"int"}, n : {-16, -9, -1, 0, 7, 15}]
             \cup [k : {"flt"}, n : {-70, -33, -32, -31, -5, -1, 0, 1, 9, 29, 30, 31, 32, 70}])
         \X {-16, -7, -1, 1, 5, 15}
Halves(x) == IF x.k = "int" THEN 2 * x.n ELSE x.n
Fuel == 12
Shifts == (-16 .. 15) \X (-7 .. 7)
FieldQuestions == {-16, -1, 5, 10} \X {0, 1, 6, 15} \X Fields4 \X Fields4
Numerals == UpTo(4, {0, 1, 9, 15, Space, Minus, Letter})
Comparable == UpTo(3, {0, 1, 2}) \X UpTo(3, {0, 1, 2})

-----------------------------------------------------------------------------
(* Texts of tokens and what stands between them. *)
Piece(text, t, v, breaks) == [text |-> text, t |-> t, v |-> v, breaks |-> breaks]
Pieces == {
  Piece(<<97, 95, 49>>, "name", <<97, 95, 49>>, 0),
  Piece(<<61, 61>>, "symbol", <<61, 61>>, 0),
  Piece(<<62>>, "symbol", <<62>>, 0),
  Piece(<<126, 61>>, "symbol", <<126, 61>>, 0),
  Piece(<<46, 46>>, "symbol", <<46, 46>>, 0),
  Piece(<<45>>, "symbol", <<45>>, 0),
  Piece(<<91>>, "symbol", <<91>>, 0),
  Piece(<<48, 120, 65, 46, 56, 112, 45, 49>>, "number", <<48, 120, 65, 46, 56, 112, 45, 49>>, 0),
  Piece(<<46, 53, 69, 43, 50>>, "number", <<46, 53, 69, 43, 50>>, 0),
  Piece(<<34, 97, 92, 110, 39, 34>>, "string", <<97, 10, 39>>, 0),
  Piece(<<39, 92, 120, 52, 49, 92, 48, 54, 53, 53, 39>>, "string", <<65, 65, 53>>, 0),
  Piece(<<34, 92, 117, 123, 50, 48, 65, 99, 125, 34>>, "string", <<226, 130, 172>>, 0),
  Piece(<<39, 97, 92, 122, 32, 10, 32, 98, 92, 13, 10, 39>>, "string", <<97, 98, 10>>, 2),
  Piece(<<91, 91, 10, 97, 93, 13, 93, 93>>, "string", <<97, 93, 10>>, 2),
  Piece(<<91, 61, 91, 93, 93, 91, 91, 10, 13, 93, 61, 93>>, "string", <<93, 93, 91, 91, 10>>, 1)}
Gaps == {Piece(<<32>>, "", <<>>, 0), Piece(<<13, 10>>, "", <<>>, 1), Piece(<<10, 10>>, "", <<>>, 2),
         Piece(<<32, 45, 45, 97, 39, 10>>, "", <<>>, 1),
         Piece(<<32, 45, 45, 91, 61, 91, 10, 93, 93, 93, 61, 93>>, "", <<>>, 1),
         Piece(<<32, 45, 45, 91, 61, 97, 10>>, "", <<>>, 1)}
Sources == {<<<<p, g, q>>>> : p \in Pieces, g \in Gaps, q \in Pieces}
           \cup {<<<<g, p, h>>>> : g \in Gaps, p \in Pieces, h \in Gaps}
SourceText(ps) == FlattenSeq([i \in DOMAIN ps |-> ps[i].text])
LineAfter(ps, i) == 1 + FoldLeft(LAMBDA acc, p : acc + p.breaks, 0, SubSeq(ps, 1, i))
TokensOf(ps) ==
  FlattenSeq([i \in DOMAIN ps |->
               IF ps[i].t = "" THEN <<>> ELSE <<[t |-> ps[i].t, v |-> ps[i].v, line |-> LineAfter(ps, i)]>>])
  \o <<[t |-> "eos", v |-> <<>>, line |-> LineAfter(ps, Len(ps))]>>

(* Texts that end in an error, in some line. *)
BadTexts == {
  <<10, 34, 97>>, <<10, 34, 97, 10>>, <<10, 91, 91, 10>>, <<10, 91, 61, 97>>, <<10, 45, 45, 91, 91, 93>>,
  <<10, 39, 92, 117, 123, 49, 49, 48, 48, 48, 48, 125, 39>>, <<10, 39, 92, 117, 123, 125, 39>>,
  <<10, 39, 92, 113, 39>>, <<10, 39, 92, 51, 48, 48, 39>>, <<10, 39, 92, 120, 49, 39>>,
  <<10, 51, 97>>, <<10, 49, 46, 46, 50>>, <<10, 48, 120>>, <<10, 49, 101, 43>>}

-----------------------------------------------------------------------------
MCQuestions == <<
  Ask("find", Finds), Ask("gmatch", Iterations), Ask("gsub", Substitutions),
  Ask("insert", Places), Ask("remove", Places), Ask("move", Moves),
  Ask("sort", Sorts), Ask("concat", Concats), Ask("unpack", (-8 .. 7) \X (-8 .. 7)),
  Ask("pack", Packs),
  Ask("sub", Slices), Ask("rep", Reps), Ask("plainfind", PlainSearches),
  Ask("utf8", {<<xs>> : xs \in UpTo(2, Borders)}), Ask("bytes", {<<s>> : s \in ByteStrings}),
  Ask("arith", Operators \X Integers5 \X Integers5), Ask("math", Integers5 \X Integers5),
  Ask("random", Integers5 \X Integers5 \X (0 .. 7)), Ask("for", Loops), Ask("fb", (0 .. 300) \X {0}),
  Ask("bits", Shifts), Ask("fields", FieldQuestions), Ask("numeral", {<<s>> : s \in Numerals}),
  Ask("compare", Comparable), Ask("lex", Sources), Ask("badlex", {<<s>> : s \in BadTexts})>>
  \o Core!CoreQuestions

Limit15 == 10     \* results that table.unpack may have

(* What the code answers. *)
MCAnswer(q) ==
  LET a == q.args
  IN CASE q.about = "find" -> FindFrom(a[1], FreshState, a[2])
       [] q.about = "gmatch" -> GMatch(a[1], 0)
       [] q.about = "gsub" -> GSub(a[1], FreshState, 0, 0, <<>>)
       [] q.about = "insert" -> TInsert(a[1], a[2], a[3], 8)
       [] q.about = "remove" -> TRemove(a[1], a[2], a[3])
       [] q.about = "move" -> TMove(a[1], a[2], a[3], a[4])
       [] q.about = "sort" -> AuxSort(a[1], 1, Len(a[1]), a[2])
       [] q.about = "concat" -> Joined(a[1], a[2], a[3], 7)
       [] q.about = "unpack" -> Unpacked(a[1], a[2], 4, Limit15)
       [] q.about = "pack" ->
            (LET data == Pack(a[1], a[2], Native, 0, <<>>)
             IN [data |-> data, size |-> PackSize(a[1], Native, 0),
                 values |-> IF data = PackError THEN <<>> ELSE Unpack(a[1], data, 0, Native, <<>>)])
       [] q.about = "sub" -> <<StrSub(a[1], a[2], a[3]), StrByte(a[1], a[2], a[3])>>
       [] q.about = "rep" -> RepLength(a[1], a[2], a[3], 7)
       [] q.about = "plainfind" -> MemFind(a[1], a[2], Len(a[1]) - a[2] + 1, a[3])
       [] q.about = "utf8" ->
            (LET s == FlattenSeq([i \in DOMAIN a[1] |-> Utf8Esc(a[1][i])])
             IN [bytes |-> s, codes |-> Codes(s, 0, <<>>), len |-> Utf8Len(s, 1, -1).n,
                 forth |-> [n \in 1 .. Len(a[1]) |-> ByteOffset(s, n, 1)],
                 back |-> [n \in 1 .. Len(a[1]) |-> ByteOffset(s, n - 1 - Len(a[1]), Len(s) + 1)],
                 start |-> [i \in 1 .. Len(s) |-> ByteOffset(s, 0, i)]])
       [] q.about = "bytes" -> [len |-> Utf8Len(a[1], 1, -1), codes |-> Codes(a[1], 0, <<>>)]
       [] q.about = "arith" -> IntArith(a[1], a[2], a[3])
       [] q.about = "math" -> [fmod |-> FMod(a[1], a[2]), abs |-> Abs(a[1]), ult |-> Ult(a[1], a[2])]
       [] q.about = "random" -> Random(a[1], a[2], a[3], 8)
       [] q.about = "for" -> ForPrep(a[1], a[2], a[3], Fuel)
       [] q.about = "fb" -> Fb2Int(Int2Fb(a[1], 0))
       [] q.about = "bits" -> <<BShift(a[1], a[2]), ArShift(a[1], a[2]), BRot(a[1], a[2])>>
       [] q.about = "fields" -> <<Extract(a[1], a[3], a[4]), Replace(a[1], a[2], a[3], a[4])>>
       [] q.about = "numeral" -> Str2Int(a[1])
       [] q.about = "compare" -> StrCmp(a[1], a[2])
       [] q.about = "lex" -> Tokens(SourceText(a[1]), 1, 1)
       [] q.about = "badlex" -> Tokens(a[1], 1, 1)
       [] OTHER -> Core!CoreAnswer(q)

StartsOf(xs) == [i \in DOMAIN xs |-> 1 + Len(Encoded(SubSeq(xs, 1, i - 1)))]
Tiny8(n) == n \in {m * 2^e : m \in 8 .. 15, e \in 0 .. 6} \cup 0 .. 7

(* What the references say of it. *)
MCRight(q, r) ==
  LET a == q.args
      p == a[1]
  IN CASE q.about = "find" -> IF r = Raised(TooComplex) THEN Nesting(p) > MaxDepth ELSE r = FirstMatch(p, a[2])
       [] q.about = "gmatch" -> IF Raised(TooComplex) \in Range(r) THEN Nesting(p) > MaxDepth ELSE r = AllMatches(p, 0)
       [] q.about = "gsub" -> IF r.text = <<TooComplex>> THEN Nesting(p) > MaxDepth ELSE r = Substituted(p)
       [] q.about = "insert" -> IF a[3] \in 1 .. a[2] + 1 THEN r = Inserted(p, a[2], a[3], 8) ELSE IsError(r)
       [] q.about = "remove" ->
            (IF a[3] \in 1 .. a[2] + 1 \/ a[3] = a[2]
             THEN r = [removed |-> p[a[3]], table |-> Without(p, a[2], a[3])] ELSE IsError(r.table))
       [] q.about = "move" -> IF a[2] > 0 THEN r = RangeMoved(p, a[2], a[3], a[4]) ELSE IsError(r)
       [] q.about = "sort" -> SortIsRight(p, a[2], r)
       [] q.about = "concat" ->
            (LET n == IF a[3] < a[2] THEN 0 ELSE a[3] - a[2] + 1
             IN IF \E i \in a[2] .. a[3] : p[i] = 0 THEN IsError(r)
                ELSE r = [k \in 1 .. (IF n = 0 THEN 0 ELSE 2 * n - 1) |->
                            IF k % 2 = 0 THEN 7 ELSE p[a[2] + (k \div 2)]])
       [] q.about = "unpack" -> r = IF a[1] > a[2] THEN 0
                                    ELSE IF a[2] - a[1] + 1 > Limit15 THEN -1 ELSE a[2] - a[1] + 1
       [] q.about = "pack" -> PackIsRight(p, a[2], r, Byte, SzInt)
       [] q.about = "sub" -> r = <<SliceOf(p, a[2], a[3]), SliceOf(p, a[2], a[3])>>
       [] q.about = "rep" ->
            (LET exact == IF a[3] <= 0 THEN 0 ELSE a[3] * a[1] + (a[3] - 1) * a[2]
             IN r = exact \/ (r = StringError /\ a[3] * (a[1] + a[2]) > 7))
       [] q.about = "plainfind" -> r = FirstOccurrence(p, a[2], a[3])
       [] q.about = "utf8" ->
            /\ r.bytes = Encoded(p) /\ r.codes = p /\ r.len = Len(p)
            /\ r.forth = StartsOf(p) /\ r.back = StartsOf(p)
            /\ \A i \in DOMAIN r.bytes : r.start[i] = Max({x \in Range(StartsOf(p)) : x <= i})
       [] q.about = "bytes" ->
            (LET cs == Characters(p, 1)
                 codes == [i \in DOMAIN cs |-> cs[i].code]
             IN IF WellEncoded(p) THEN r.len.n = Len(cs) /\ r.codes = codes
                ELSE /\ r.len = [n |-> -1, bad |-> IF cs = <<>> THEN 1 ELSE cs[Len(cs)].behind]
                     /\ r.codes[Len(r.codes)] = StringError
                     /\ IsPrefix(SubSeq(r.codes, 1, Len(r.codes) - 1), codes))
       [] q.about = "arith" -> r = Arithmetic(p, a[2], a[3], W)
       [] q.about = "math" ->
            /\ IF a[2] = 0 THEN r.fmod = NumberError ELSE IsRemainder(r.fmod, p, a[2])
            /\ r.abs = Wrap(IF p < 0 THEN -p ELSE p, W)
            /\ r.ult = IF (p < 0) = (a[2] < 0) THEN p < a[2] ELSE a[2] < 0
       [] q.about = "random" -> IF p > a[2] \/ a[2] - p > 15 THEN r = NumberError ELSE r \in p .. a[2]
       [] q.about = "for" ->
            (LET values == LoopValues(p, Halves(a[2]), a[3], Fuel)
                 n == Len(values)
             IN (n > 0 => values[n] + a[3] \in Integers5) => r = values)
       [] q.about = "fb" -> r >= p /\ Tiny8(r) /\ \A y \in p .. (r - 1) : ~Tiny8(y)
       [] q.about = "bits" ->
            r = <<Shifted(p, a[2], NBits) % 16,
                  IF a[2] < 0 THEN Shifted(p, -a[2], NBits) ELSE (Wrap(p, NBits) \div 2^a[2]) % 16,
                  Rotated(p, a[2], NBits)>>
       [] q.about = "fields" ->
            (IF a[3] >= 0 /\ a[4] > 0 /\ a[3] + a[4] <= NBits
             THEN r = <<OfBits(LAMBDA i : Bit(p % 16, i + a[3]), a[4]), BitFields(p, a[2], a[3], a[4], NBits)>>
             ELSE r = <<NumberError, NumberError>>)
       [] q.about = "numeral" -> r = IntegerOf(p, Space, Minus, Plus, Letter, W, NumberError)
       [] q.about = "compare" -> r = IF p = a[2] THEN 0 ELSE IF Before(p, a[2]) THEN -1 ELSE 1
       [] q.about = "lex" -> r = TokensOf(p)
       [] q.about = "badlex" -> r[Len(r)].t = "error" /\ r[Len(r)].line >= 2
       [] OTHER -> Core!CoreRight(q, r)
=============================================================================
