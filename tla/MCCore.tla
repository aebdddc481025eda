-------------------------------- MODULE MCCore --------------------------------
(* The questions about the core of the interpreter, its API and the binding. *)
EXTENDS CoreReference, FiniteSetsExt

C == INSTANCE Chunk WITH Escape <- 7
N == INSTANCE Names WITH BitRK <- 100
S == INSTANCE Stack WITH RegistryIndex <- -100
T == INSTANCE Text
P == INSTANCE Pools WITH MaxStack <- 20, ExtraStack <- 2, ErrorExtra <- 4, MaxTable <- 4

Ask(about, A) == {[about |-> about, args |-> a] : a \in A}
UpTo(n, A) == {SubSeq(s, 1, k) : s \in [1 .. n -> A], k \in 0 .. n}

-----------------------------------------------------------------------------
(* Chunks. *)
Str5 == <<1, 2, 3, 4, 5>>
Leaf(source, code, k, upvalues, locvars) ==
  [source |-> source, linedefined |-> 9, lastlinedefined |-> 12, numparams |-> 1, is_vararg |-> 0,
   maxstacksize |-> 3, code |-> code, k |-> k, upvalues |-> upvalues, p |-> <<>>,
   lineinfo |-> code, locvars |-> locvars]
Constants == {<<>>, <<[t |-> 0, v |-> 0], [t |-> 1, v |-> 1], [t |-> 2, v |-> 10], [t |-> 3, v |-> 63]>>,
              <<[t |-> 4, v |-> <<>>], [t |-> 4, v |-> Str5], [t |-> 5, v |-> Str5 \o <<6>>],
                [t |-> 5, v |-> Str5 \o Str5]>>}
Upvalue(name, n) == [name |-> name, instack |-> n % 2, idx |-> n]
LocalVar(name, a) == [varname |-> name, startpc |-> a, endpc |-> a + 9]
Leaves(source) ==
  {Leaf(source, code, k, u, v) :
     code \in {<<>>, <<3, 17, 60>>}, k \in Constants,
     u \in {<<>>, <<Upvalue(<<1>>, 0), Upvalue(C!NoString, 5)>>},
     v \in {<<>>, <<LocalVar(<<4, 4>>, 1), LocalVar(Str5 \o <<0>>, 30)>>}}
WithInner(f, ps) == [f EXCEPT !.p = ps]
Source == <<5, 1, 1>>
Plain == CHOOSE f \in Leaves(Source) : f.code # <<>> /\ f.upvalues # <<>> /\ f.locvars # <<>> /\ f.k # <<>> /\ f.k[1].t = 4
Protos ==
  Leaves(Source) \cup Leaves(C!NoString)
    \cup {WithInner(Plain, <<f, g>>) : f \in {x \in Leaves(Source) : x.code # <<>>}, g \in {Plain, WithInner(Plain, <<Plain>>)}}
Blocks(data, size) ==
  [i \in 1 .. ((Len(data) + size - 1) \div size) |->
     SubSeq(data, (i - 1) * size + 1, IF i * size < Len(data) THEN i * size ELSE Len(data))]
Dumps == {<<f, strip, size>> : f \in Protos, strip \in BOOLEAN, size \in {1, 3, 500}}
PlainChunk == C!UDump(WithInner(Plain, <<Plain>>), FALSE)
Errors == <<"not a", "not a", "version mismatch in", "format mismatch in", "corrupted", "corrupted",
            "size mismatch in", "size mismatch in", "size mismatch in", "size mismatch in", "size mismatch in",
            "endianness mismatch in", "endianness mismatch in", "float format mismatch in", "float format mismatch in">>

-----------------------------------------------------------------------------
(* Names: x is in register 0 throughout, y in register 1 from the third     *)
(* instruction on.                                                          *)
I(op, a, b, c) == [op |-> op, a |-> a, b |-> b, c |-> c]
Test == I("TEST", 0, 0, 0)
Instructions == {I("MOVE", 1, 0, 0), I("MOVE", 2, 1, 0), I("MOVE", 1, 2, 0),
  I("GETTABUP", 1, 0, 100), I("GETTABLE", 2, 0, 1), I("LOADK", 1, 1, 0), I("LOADK", 1, 2, 0),
  I("LOADNIL", 1, 1, 0), I("CALL", 1, 0, 0), I("SELF", 2, 1, 100), I("GETUPVAL", 2, 1, 0)}
Jumps == {I("JMP", 0, b, 0) : b \in 0 .. 2}
Ways == {<<i>> : i \in Instructions} \cup {<<Test, j>> : j \in Jumps}
Codes == {c \in {a \o b \o d : a, b, d \in Ways} :
            /\ Len(c) <= 4
            /\ \A i \in DOMAIN c : c[i].op = "JMP" => i + c[i].b <= Len(c)}
ProtoOf(code, from) ==
  [code |-> code \o <<I("RETURN", 0, 0, 0)>>, upvalues |-> <<"_ENV", "u">>,
   k |-> <<[string |-> TRUE, value |-> "f"], [string |-> TRUE, value |-> "g"], [string |-> FALSE, value |-> "1"]>>,
   locvars |-> <<[varname |-> "x", startpc |-> 0, endpc |-> 9], [varname |-> "y", startpc |-> from, endpc |-> 9]>>]
NameQuestions == {<<ProtoOf(c, from), Len(c), reg>> : c \in Codes, from \in {9, 2}, reg \in {1, 2}}
Callers == {<<[ProtoOf(<<i, j>>, 9) EXCEPT !.code = <<i, j>>], hooked>> :
              i \in {I("GETTABUP", 1, 0, 100), I("LOADNIL", 1, 1, 0)}, hooked \in BOOLEAN,
              j \in {I("CALL", 1, 0, 0), I("TFORCALL", 1, 0, 0), I("SELF", 1, 1, 100), I("ADD", 1, 0, 0),
                     I("SETTABUP", 0, 0, 0), I("EQ", 0, 0, 0)}}
CalledAs(i, j, hooked) ==
  IF hooked THEN <<"hook", "?">>
  ELSE CASE j.op = "CALL" -> IF i.op = "GETTABUP" THEN <<"global", "f">> ELSE <<"">>
         [] j.op = "TFORCALL" -> <<"for iterator", "for iterator">>
         [] j.op = "SELF" -> <<"metamethod", "index">>
         [] j.op = "ADD" -> <<"metamethod", "add">>
         [] j.op = "SETTABUP" -> <<"metamethod", "newindex">>
         [] j.op = "EQ" -> <<"metamethod", "eq">>
Traces == {<<<<0>> \o t, lines, mask, base>> :
             t \in {u \in UpTo(4, 0 .. 3) : u # <<>>}, lines \in {<<1, 1, 2, 3>>, <<1, 2, 2, 1>>},
             mask \in {{"line"}, {"count"}, {"line", "count"}}, base \in {1, 3}}

-----------------------------------------------------------------------------
(* Stacks, buffers and classes. *)
Op(op, i, n) == [op |-> op, i |-> i, n |-> n]
Four == <<[k |-> "a"], [k |-> "b"], [k |-> "c"], [k |-> "d"]>>
Indices == {-4, -3, -1, 1, 2, 4}
Operations ==
  {Op("settop", i, 0) : i \in -4 .. 6} \cup {Op("push", i, 0) : i \in Indices}
  \cup {Op("copy", i, j) : i \in Indices, j \in {1, 3}}
  \cup {Op(o, i, 0) : o \in {"insert", "remove", "replace"}, i \in Indices}
  \cup {Op("rotate", i, n) : i \in {1, 2, -3}, n \in -3 .. 3}
ApplyTo(f, op) ==
  CASE op.op = "settop" -> S!SetTop(f, op.i)
    [] op.op = "push" -> S!PushValue(f, op.i)
    [] op.op = "copy" -> S!Copy(f, op.i, op.n)
    [] op.op = "insert" -> S!LuaInsert(f, op.i)
    [] op.op = "remove" -> S!LuaRemove(f, op.i)
    [] op.op = "replace" -> S!LuaReplace(f, op.i)
    [] op.op = "rotate" -> S!Rotate(f, op.i, op.n)
Frame(s) == [stack |-> s, upvalues |-> <<[k |-> "u"]>>, registry |-> [k |-> "r"], globals |-> {}]
StackQuestions == {<<a, b>> : a \in {Op("push", 2, 0), Op("push", -1, 0), Op("rotate", 1, 1)}, b \in Operations}

Additions == [how : {"bytes", "value"}, n : 0 .. 4]
BufferAfter(ops) ==
  LET Bytes(n) == [i \in 1 .. n |-> n]
      Add(s, op) ==
        IF s.failed THEN s
        ELSE IF op.how = "bytes" THEN S!AddLString(s, Bytes(op.n), 16)
        ELSE S!AddValue([s EXCEPT !.f = S!Push(@, [k |-> "string", bytes |-> Bytes(op.n)])], 16)
      end == FoldLeft(Add, [f |-> Frame(Four), b |-> S!BuffInit(2), failed |-> FALSE], ops)
  IN IF end.failed THEN <<-1>> ELSE S!PushResult(end).f.stack

PacketClass == [name |-> "packet", methods |-> <<"ReadInt8", "Print", "Send">>, properties |-> <<>>]
MemoryClass == [name |-> "memory", methods |-> <<"Print", "ReadInt8">>, properties |-> <<>>]
WithProperty == [name |-> "other", methods |-> <<"Print">>, properties |-> <<"first", "second">>]
Classes == {PacketClass, MemoryClass, WithProperty}
Fields == {"ReadInt8", "Print", "Send", "first", "second", "__gc", "none"}
Uses == {<<class, field, obj>> : class \in Classes, field \in Fields, obj \in {0, 5}}
Argument == [k |-> "argument"]
UsesOf(class, field, obj) ==
  LET ud == S!Userdata(class.name, obj)
      got == S!PropertyGetter(Frame(<<ud, S!Str(field)>>), class)
      registered == S!Register(S!Register(Frame(<<>>), class), PacketClass)
  IN [got |-> got,
      set |-> S!PropertySetter(Frame(<<ud, S!Str(field), Argument>>), class),
      called |-> IF got.does = "return" /\ got.value.k = "closure"
                 THEN S!FunctionDispatch(got.value, <<Argument, ud>>) ELSE [does |-> "nothing"],
      checked |-> [c \in {"packet", "memory", "other"} |->
                     S!LightCheck(Frame(<<Argument, ud>>), 2, [name |-> c])],
      wrong |-> S!Check(Frame(<<Argument, ud>>), 1, class),
      right |-> S!Check(Frame(<<Argument, ud>>), -1, class),
      equal |-> S!Equals(Frame(<<ud, S!Userdata("packet", 5)>>)),
      globals |-> registered.globals]
IndexIn(s, x) == CHOOSE i \in DOMAIN s : s[i] = x
UseIsRight(class, field, obj, r) ==
  LET isMethod == field \in ToSet(class.methods)
      isProperty == field \in ToSet(class.properties)
      method == [does |-> "call", method |-> IndexIn(class.methods, field) - 1, obj |-> obj,
                 args |-> <<Argument, S!Userdata(class.name, obj)>>]
      property == IndexIn(class.properties, field) - 1
  IN /\ IF isMethod THEN r.called = method ELSE r.called.does = "nothing"
     /\ IF isProperty THEN r.got.does = "get" /\ r.got.property = property /\ r.got.obj = obj
        ELSE r.got.does = "return"
     /\ CASE isProperty /\ obj # 0 -> r.set = [does |-> "set", property |-> property, args |-> <<Argument>>, obj |-> obj]
          [] isMethod \/ isProperty -> r.set.does = "error"
          [] OTHER -> r.set.does = "nothing"
     /\ \A c \in DOMAIN r.checked : r.checked[c] = IF c = class.name THEN obj ELSE 0
     /\ r.wrong.does = "error" /\ r.right = [does |-> "return", obj |-> obj]
     /\ r.equal = (obj = 5) /\ r.globals = {class.name, "packet"}

-----------------------------------------------------------------------------
(* Text. *)
BaseQuestions == UpTo(4, {32, 45, 48, 57, 97, 90}) \X {2, 10, 16, 36}
Names60 == {[i \in 1 .. n |-> IF i = 1 THEN c ELSE IF i = at THEN 10 ELSE 96 + i] :
              n \in 0 .. 14, c \in {61, 64, 98}, at \in {0, 3, 7}}
PathQuestions == {<<path, readable>> : path \in UpTo(5, {59, 63, 97}), readable \in SUBSET {<<97>>, <<47, 97>>, <<97, 47, 97>>}}
ModuleName == <<46>>
NumberTexts == {<<s>> : s \in UpTo(4, {32, 45, 46, 48, 97, 101, 112, 120})}
LineTexts == UpTo(6, {10, 97}) \X BOOLEAN
MaxNumeral == 3

Element(k, a, b) == [k |-> k, a |-> a, b |-> b]
SetElements == {Element("char", 97, 0), Element("char", 93, 0), Element("char", 45, 0), Element("char", 94, 0),
                Element("range", 49, 97), Element("range", 43, 45),
                Element("class", 100, 0), Element("class", 87, 0), Element("class", 37, 0)}
Shown(e) == CASE e.k = "char" -> <<e.a>> [] e.k = "range" -> <<e.a, 45, e.b>> [] e.k = "class" -> <<37, e.a>>
MembersOf(e) ==
  CASE e.k = "char" -> {e.a}
    [] e.k = "range" -> e.a .. e.b
    [] e.k = "class" -> (IF e.a = 100 THEN 48 .. 57
                         ELSE IF e.a = 87 THEN 0 .. 127 \ ((48 .. 57) \cup (65 .. 90) \cup (97 .. 122)) ELSE {37})
(* Where a ] or ^ or - stands for itself. *)
ReadsAsWritten(negated, es) ==
  \A i \in DOMAIN es :
    /\ (es[i].k = "char" /\ es[i].a = 93) => i = 1
    /\ (es[i].k = "char" /\ es[i].a = 94) => (negated \/ i > 1)
    /\ (es[i].k = "char" /\ es[i].a = 45) => i = Len(es)
SetQuestions ==
  {q \in BOOLEAN \X (UpTo(3, SetElements) \ {<<>>}) : ReadsAsWritten(q[1], q[2])}
SetText(q) == <<91>> \o (IF q[1] THEN <<94>> ELSE <<>>) \o FlattenSeq([i \in DOMAIN q[2] |-> Shown(q[2][i])]) \o <<93>>
Probes == {0, 9, 37, 43, 44, 45, 48, 53, 58, 65, 90, 93, 94, 95, 97, 98, 122, 127}

-----------------------------------------------------------------------------
(* Pools. *)
Contents == {<<1>>, <<2>>, <<1, 2>>, <<>>}
PoolOps == {[op |-> "intern", str |-> s, strs |-> {}] : s \in Contents}
           \cup {[op |-> "dead", str |-> <<>>, strs |-> D] : D \in {Contents, {<<1>>, <<2>>}}}
           \cup {[op |-> "sweep", str |-> <<>>, strs |-> {}]}
Pool(ops) ==
  LET Step(s, op) ==
        CASE op.op = "intern" -> (LET r == P!InternString(s.tb, op.str, P!Hash(op.str, 5, 3))
                                  IN [tb |-> r.tb, ids |-> Append(s.ids, r.id)])
          [] op.op = "dead" -> [s EXCEPT !.tb = P!MarkDead(@, op.strs)]
          [] op.op = "sweep" -> [s EXCEPT !.tb = P!SweepStrings(@)]
  IN FoldLeft(Step, [tb |-> P!EmptyTable(1), ids |-> <<>>], ops)
PoolIsRight(ops, r) ==
  LET want == PoolAfter(ops, {}, 0, <<>>)
      lists == r.tb.hash
      objects == UNION {ToSet(lists[h]) : h \in DOMAIN lists}
      size == Cardinality(DOMAIN lists)
  IN /\ r.ids = want.ids
     /\ {[str |-> o.str, id |-> o.id, dead |-> o.id \in r.tb.dead] : o \in objects} = want.pool
     /\ r.tb.nuse = Cardinality(want.pool)
     /\ \A h \in DOMAIN lists : \A i \in DOMAIN lists[h] : lists[h][i].h % size = h

StackOps == {[op |-> o, n |-> n] : o \in {"push", "check"}, n \in {1, 4, 9}}
            \cup {[op |-> o, n |-> 1] : o \in {"pop", "shrink", "unwind"}}
StackRun(ops) ==
  LET Step(ss, op) ==
        LET s == ss[Len(ss)]
        IN Append(ss, CASE op.op = "push" -> P!PushValues(s, op.n)
                        [] op.op = "check" -> P!CheckStack(s, op.n)
                        [] op.op = "pop" -> IF s.top > 1 THEN P!PopValues(s, 1) ELSE s
                        [] op.op = "shrink" -> P!ShrinkStack(s)
                        [] op.op = "unwind" -> P!Unwind(s))
  IN FoldLeft(Step, <<P!StackOf(4)>>, ops)

(* What is in use always fits; an overflow is reported when the values do   *)
(* not fit below the limit, a second one in what is kept for its handler.   *)
(* The exception, Cut: a collection during the handler, when the last slots *)
(* below the limit are in use, takes the extra slots away.                  *)
Fits(s) == s.top + 2 <= s.size /\ s.limit + 2 <= s.size
StackRunIsRight(ops, ss) ==
  \A i \in DOMAIN ops :
    LET s == ss[i]
        t == ss[i + 1]
        handling == s.size > 20
        Cut == ops[i].op = "shrink" /\ handling /\ s.limit + 1 \in 19 .. 20
    IN /\ Fits(s) /\ ~Cut => Fits(t)
       /\ t.size <= 20 \/ (t.size = 24 /\ (handling \/ t.failed = "stack overflow"))
       /\ ops[i].op = "push" =>
            /\ (t.failed = "stack overflow") = (~handling /\ s.top + ops[i].n + 2 > 20)
            /\ (t.failed = "error in error handling") = (handling /\ s.top + ops[i].n + 2 >= 24)
            /\ t.failed = "" => t.top = s.top + ops[i].n
       /\ ops[i].op = "check" => t.top = s.top
       /\ (ops[i].op = "check" /\ ~handling /\ s.top + ops[i].n + 2 <= 20) => t.limit >= s.top + ops[i].n
       /\ ops[i].op = "unwind" => t.size <= 20 /\ t.failed = ""

-----------------------------------------------------------------------------
CoreQuestions == <<
  Ask("dump", Dumps), Ask("cut", {<<n>> : n \in 0 .. Len(PlainChunk) - 1}),
  Ask("header", (1 .. 15) \X {0, 1}),
  Ask("name", NameQuestions), Ask("caller", Callers), Ask("trace", Traces),
  Ask("stack", StackQuestions), Ask("buffer", {<<ops>> : ops \in UpTo(4, Additions)}), Ask("class", Uses),
  Ask("tonumber", BaseQuestions), Ask("chunkid", {<<s>> : s \in Names60}), Ask("searchpath", PathQuestions),
  Ask("readnumber", NumberTexts), Ask("readline", LineTexts), Ask("set", SetQuestions),
  Ask("intern", {<<ops>> : ops \in UpTo(5, PoolOps)}), Ask("growaux", (0 .. 20) \X (4 .. 20)),
  Ask("cstack", {<<ops>> : ops \in UpTo(4, StackOps)})>>

CoreAnswer(q) ==
  LET a == q.args
  IN CASE q.about = "dump" -> C!Undump(Blocks(C!UDump(a[1], a[2]), a[3]))
       [] q.about = "cut" -> C!Undump(Blocks(SubSeq(PlainChunk, 1, a[1]), 5))
       [] q.about = "header" -> C!Undump(<<[PlainChunk EXCEPT ![a[1]] = (@ + 1 + a[2]) % 8]>>)
       [] q.about = "name" -> N!VarInfo(a[1], a[2], [where |-> "register", n |-> a[3]])
       [] q.about = "caller" -> N!FuncName(a[1], 1, a[2])
       [] q.about = "trace" -> N!Events(a[1], a[2], a[3], a[4])
       [] q.about = "stack" -> FoldLeft(ApplyTo, Frame(Four), a)
       [] q.about = "buffer" -> BufferAfter(a[1])
       [] q.about = "class" -> UsesOf(a[1], a[2], a[3])
       [] q.about = "tonumber" -> T!Str2IntBase(a[1], a[2], 64)
       [] q.about = "chunkid" -> T!ChunkId(a[1], 12)
       [] q.about = "searchpath" -> T!SearchPath(ModuleName, a[1], ModuleName, <<47>>, a[2])
       [] q.about = "readnumber" -> T!ReadNumber(a[1], 1, MaxNumeral)
       [] q.about = "readline" -> T!ReadLine(a[1], 1, a[2], 2, <<>>)
       [] q.about = "set" -> [c \in Probes |-> T!MatchesItem(c, SetText(a) \o <<120, 93>>, 1)]
       [] q.about = "intern" -> Pool(a[1])
       [] q.about = "growaux" -> P!GrowAux(a[1], a[2])
       [] q.about = "cstack" -> StackRun(a[1])

CoreRight(q, r) ==
  LET a == q.args
      p == a[1]
  IN CASE q.about = "dump" -> r = [nupvalues |-> Len(p.upvalues), p |-> AsLoaded(p, a[2], C!NoString)]
       [] q.about = "cut" -> r = [why |-> "truncated"]
       [] q.about = "header" -> r = [why |-> Errors[p]]
       [] q.about = "name" -> NameIsRight(p, a[2], a[3], r, 100)
       [] q.about = "caller" -> r = CalledAs(p.code[1], p.code[2], a[2])
       [] q.about = "trace" -> r = EventsOf(p, a[2], a[3], a[4])
       [] q.about = "stack" ->
            r = Frame(FoldLeft(LAMBDA s, op : StackAfter(s, op, [k |-> "nil"]), Four, a))
       [] q.about = "buffer" ->
            (LET bytes == FlattenSeq([i \in DOMAIN p |-> Chars(p[i].n, p[i].n)])
             IN r = Append(Four, [k |-> "string", bytes |-> bytes]) \/ (r = <<-1>> /\ Len(bytes) > 7))
       [] q.about = "class" -> UseIsRight(p, a[2], a[3], r)
       [] q.about = "tonumber" -> r = InBase(p, a[2], 64, T!Alnum, 32, T!None)
       [] q.about = "chunkid" -> ChunkIdIsRight(p, 12, r, T!Dots, T!Prefix, T!Suffix, 10)
       [] q.about = "searchpath" ->
            (LET files == Candidates(p, <<47>>, 59, 63)
                 found == {i \in DOMAIN files : files[i] \in a[2]}
             IN IF found = {} THEN r = [found |-> T!None, tried |-> files]
                ELSE r = [found |-> files[Min(found)], tried |-> SubSeq(files, 1, Min(found) - 1)])
       [] q.about = "readnumber" ->
            (LET blanks == Cardinality({i \in DOMAIN p : \A j \in 1 .. i : p[j] = 32})
                 rest == SubSeq(p, blanks + 1, Len(p))
                 n == LongestNumeral(rest, T!XDigit, T!Digit)
             IN r = IF n <= MaxNumeral THEN [text |-> SubSeq(rest, 1, n), next |-> blanks + n + 1]
                    ELSE [text |-> <<>>, next |-> blanks + MaxNumeral + 1])
       [] q.about = "readline" ->
            (LET ends == {i \in DOMAIN p : p[i] = 10}
             IN r = IF ends = {} THEN [line |-> p, next |-> Len(p) + 1, ok |-> p # <<>>]
                    ELSE [line |-> SubSeq(p, 1, Min(ends) - IF a[2] THEN 1 ELSE 0), next |-> Min(ends) + 1, ok |-> TRUE])
       [] q.about = "set" ->
            \A c \in Probes : r[c] = ((c \in UNION {MembersOf(a[2][i]) : i \in DOMAIN a[2]}) # a[1])
       [] q.about = "intern" -> PoolIsRight(p, r)
       [] q.about = "growaux" -> IF p >= a[2] THEN r = P!TooMany ELSE r \in p + 1 .. a[2] /\ (r = a[2] \/ r >= 2 * p)
       [] q.about = "cstack" -> StackRunIsRight(p, r)
===============================================================================
