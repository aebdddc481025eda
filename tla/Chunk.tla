-------------------------------- MODULE Chunk --------------------------------
(***************************************************************************)
(* Precompiled chunks: what string.dump makes of a function (ldump.c) and   *)
(* how load reads it back (lundump.c), through a reader that hands out its  *)
(* data block by block (lzio.c).                                            *)
(*                                                                         *)
(* A prototype is a record with the fields of Proto.  A byte has Escape + 1 *)
(* values instead of 256; an int, an instruction, a number and a size_t     *)
(* have two bytes, the low one first.  Strings are sequences of bytes.      *)
(***************************************************************************)
EXTENDS Integers, Sequences, SequencesExt

CONSTANT Escape    \* 0xFF: the size of the string is not in its byte

NoString == <<-1>> \* NULL
IntSize == 2
Bytes(x) == <<x % (Escape + 1), x \div (Escape + 1)>>
OfBytes(b) == b[1] + (Escape + 1) * b[2]

Kinds == [nil |-> 0, boolean |-> 1, float |-> 2, integer |-> 3, short |-> 4, long |-> 5]
IsString(t) == t \in {Kinds.short, Kinds.long}

-----------------------------------------------------------------------------
(* ldump.c *)
Concat(Dump(_), xs) == FlattenSeq([i \in DOMAIN xs |-> Dump(xs[i])])
Counted(Dump(_), xs) == Bytes(Len(xs)) \o Concat(Dump, xs)

DumpString(s) ==
  IF s = NoString THEN <<0>>
  ELSE LET size == Len(s) + 1
       IN (IF size < Escape THEN <<size>> ELSE <<Escape>> \o Bytes(size)) \o s

DumpConstant(o) ==
  <<o.t>> \o (IF o.t = Kinds.nil THEN <<>>
              ELSE IF o.t = Kinds.boolean THEN <<o.v>>
              ELSE IF IsString(o.t) THEN DumpString(o.v) ELSE Bytes(o.v))

DumpDebug(f, strip) ==
  LET Kept(xs) == IF strip THEN <<>> ELSE xs
  IN Counted(Bytes, Kept(f.lineinfo))
     \o Counted(LAMBDA v : DumpString(v.varname) \o Bytes(v.startpc) \o Bytes(v.endpc), Kept(f.locvars))
     \o Counted(LAMBDA u : DumpString(u.name), Kept(f.upvalues))

RECURSIVE DumpFunction(_, _, _)
DumpFunction(f, psource, strip) ==
  DumpString(IF strip \/ f.source = psource THEN NoString ELSE f.source)
  \o Bytes(f.linedefined) \o Bytes(f.lastlinedefined)
  \o <<f.numparams, f.is_vararg, f.maxstacksize>>
  \o Counted(Bytes, f.code)
  \o Counted(DumpConstant, f.k)
  \o Counted(LAMBDA u : <<u.instack, u.idx>>, f.upvalues)
  \o Bytes(Len(f.p)) \o FlattenSeq([i \in DOMAIN f.p |-> DumpFunction(f.p[i], f.source, strip)])
  \o DumpDebug(f, strip)

(* The signature, of which the caller has read the first byte; the version, *)
(* the format, LUAC_DATA, five sizes, LUAC_INT and LUAC_NUM.                *)
Literal == <<3, 5>>
Check == <<6, 2>>
Sizeof == <<IntSize, IntSize, IntSize, IntSize, IntSize>>
Version == 4
Format == 0
LuacInt == 21
LuacNum == 37
DumpHeader == Literal \o <<Version, Format>> \o Check \o Sizeof \o Bytes(LuacInt) \o Bytes(LuacNum)

UDump(f, strip) == DumpHeader \o <<Len(f.upvalues)>> \o DumpFunction(f, NoString, strip)

-----------------------------------------------------------------------------
(* lzio.c and lundump.c.  A reader is what is left of the buffer, the       *)
(* blocks to come, the value read last and what is wrong, if anything.      *)
Reader(blocks) == [buf |-> <<>>, rest |-> blocks, v |-> <<>>, why |-> ""]

(* luaZ_read: n bytes behind those got, unless the input ends before.       *)
RECURSIVE ZRead(_, _, _)
ZRead(z, n, got) ==
  IF n = 0 THEN [z EXCEPT !.v = got]
  ELSE IF z.buf = <<>>
       THEN IF z.rest = <<>> \/ Head(z.rest) = <<>> THEN [z EXCEPT !.why = "truncated"]
            ELSE ZRead([z EXCEPT !.buf = Head(z.rest), !.rest = Tail(z.rest)], n, got)
       ELSE LET m == IF n <= Len(z.buf) THEN n ELSE Len(z.buf)
            IN ZRead([z EXCEPT !.buf = SubSeq(@, m + 1, Len(@))], n - m, got \o SubSeq(z.buf, 1, m))

(* Behind an error, which does not return, nothing is read.                 *)
LoadBlock(z, n) ==
  LET r == IF z.why = "" THEN ZRead(z, n, <<>>) ELSE z
  IN IF r.why = "" THEN r ELSE [r EXCEPT !.v = [i \in 1 .. n |-> 0]]

Got(z, x) == [z EXCEPT !.v = x]
LoadByte(z) == LET r == LoadBlock(z, 1) IN Got(r, r.v[1])
LoadInt(z) == LET r == LoadBlock(z, IntSize) IN Got(r, OfBytes(r.v))

LoadString(z) ==
  LET byte == LoadByte(z)
      size == IF byte.v = Escape THEN LoadInt(byte) ELSE byte
  IN IF size.v = 0 THEN Got(size, NoString) ELSE LoadBlock(size, size.v - 1)

(* As many as the int says, each read by Load.                              *)
Vector(z, Load(_)) ==
  LET n == LoadInt(z)
      Next(r, i) == LET x == Load(r) IN Got(x, Append(r.v, x.v))
  IN FoldLeft(Next, Got(n, <<>>), [i \in 1 .. n.v |-> i])

LoadConstant(z) ==
  LET t == LoadByte(z)
      o == IF t.v = Kinds.nil THEN Got(t, 0)
           ELSE IF t.v = Kinds.boolean THEN LoadByte(t)
           ELSE IF IsString(t.v) THEN LoadString(t) ELSE LoadInt(t)
  IN Got(o, [t |-> t.v, v |-> o.v])

LoadUpvalue(z) ==
  LET a == LoadByte(z)
      b == LoadByte(a)
  IN Got(b, [name |-> NoString, instack |-> a.v, idx |-> b.v])

LoadLocVar(z) ==
  LET a == LoadString(z)
      b == LoadInt(a)
      c == LoadInt(b)
  IN Got(c, [varname |-> a.v, startpc |-> b.v, endpc |-> c.v])

(* LoadDebug: what it yields is f with its debug information.               *)
LoadDebug(z, f) ==
  LET lines == Vector(z, LoadInt)
      vars == Vector(lines, LoadLocVar)
      names == Vector(vars, LoadString)
      Named(i) == IF i \in DOMAIN names.v THEN names.v[i] ELSE NoString
  IN Got(names, [f EXCEPT !.lineinfo = lines.v, !.locvars = vars.v,
                          !.upvalues = [i \in DOMAIN @ |-> [@[i] EXCEPT !.name = Named(i)]]])

RECURSIVE LoadFunction(_, _)
LoadFunction(z, psource) ==
  LET named == LoadString(z)
      source == IF named.v = NoString THEN psource ELSE named.v
      first == LoadInt(named)
      last == LoadInt(first)
      params == LoadByte(last)
      vararg == LoadByte(params)
      stack == LoadByte(vararg)
      code == Vector(stack, LoadInt)
      k == Vector(code, LoadConstant)
      upvalues == Vector(k, LoadUpvalue)
      p == Vector(upvalues, LAMBDA r : LoadFunction(r, source))
  IN LoadDebug(p, [source |-> source, linedefined |-> first.v, lastlinedefined |-> last.v,
                   numparams |-> params.v, is_vararg |-> vararg.v, maxstacksize |-> stack.v,
                   code |-> code.v, k |-> k.v, upvalues |-> upvalues.v, p |-> p.v,
                   lineinfo |-> <<>>, locvars |-> <<>>])

(* Each check of the header that fails is an error of its own.              *)
Expect(r, right, why) ==
  IF r.why # "" THEN r ELSE IF r.v = right THEN r ELSE [r EXCEPT !.why = why]
CheckHeader(z) ==
  LET signature == Expect(LoadBlock(z, Len(Literal)), Literal, "not a")
      version == Expect(LoadByte(signature), Version, "version mismatch in")
      format == Expect(LoadByte(version), Format, "format mismatch in")
      data == Expect(LoadBlock(format, Len(Check)), Check, "corrupted")
      sizes == FoldLeft(LAMBDA r, s : Expect(LoadByte(r), s, "size mismatch in"), data, Sizeof)
      int == Expect(LoadInt(sizes), LuacInt, "endianness mismatch in")
  IN Expect(LoadInt(int), LuacNum, "float format mismatch in")

(* luaU_undump: the closure's number of upvalues, and its prototype.        *)
Undump(blocks) ==
  LET header == CheckHeader(Reader(blocks))
      n == LoadByte(header)
      f == LoadFunction(n, NoString)
  IN IF f.why = "" THEN [nupvalues |-> n.v, p |-> f.v] ELSE [why |-> f.why]
=============================================================================
