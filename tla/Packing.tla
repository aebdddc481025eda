------------------------------ MODULE Packing ------------------------------
(***************************************************************************)
(* string.pack, packsize and unpack (lstrlib.c).  A format is a sequence of *)
(* options with a kind and a size; how its letters name them is abstracted. *)
(* A byte has NB bits and an integer SzInt bytes, so that small models meet *)
(* sign extension and options longer than an integer.  Data are sequences   *)
(* of bytes, <<-1>> is a raised error.                                      *)
(***************************************************************************)
EXTENDS Integers, Sequences, SequencesExt

CONSTANTS
  NB,       \* bits of a byte
  SzInt     \* bytes of a lua_Integer

Byte == 2^NB
PackError == <<-1>>
Native == [little |-> TRUE, maxalign |-> 1]

Unsigned(n, size) == n % (Byte^size)
PowerOf2(n) == n \in {1, 2, 4, 8, 16}

(* getoption's effect on the header. *)
Header(h, o) ==
  CASE o.k = "little" -> [h EXCEPT !.little = TRUE]
    [] o.k = "big" -> [h EXCEPT !.little = FALSE]
    [] o.k = "maxalign" -> [h EXCEPT !.maxalign = o.size]
    [] OTHER -> h

SizeOf(o) == IF o.k \in {"int", "uint", "char", "string", "padding"} THEN o.size ELSE 0

(* getdetails: the header after the first option of fmt, the padding before *)
(* it (-1 for an error), and the options left.  padalign takes the size of  *)
(* the option that follows, and takes that option away.                     *)
Details(h, total, fmt) ==
  LET o == fmt[1]
      lacking == o.k = "padalign" /\ (Len(fmt) = 1 \/ fmt[2].k = "char" \/ SizeOf(fmt[2]) = 0)
      size == IF o.k = "padalign" THEN SizeOf(fmt[2]) ELSE SizeOf(o)
      h1 == Header(h, o)
      align == IF size > h1.maxalign THEN h1.maxalign ELSE size
      pad == IF size <= 1 \/ o.k = "char" THEN 0 ELSE (align - (total % align)) % align
  IN [h |-> h1,
      pad |-> IF lacking \/ (size > 1 /\ o.k # "char" /\ ~PowerOf2(align)) THEN -1 ELSE pad,
      rest |-> SubSeq(fmt, IF o.k = "padalign" THEN 3 ELSE 2, Len(fmt))]

(* A bug: the sign is not extended. *)
PackIntUnextended(n, h, size, neg) ==
  LET low == [i \in 1 .. size |->
                IF i <= SzInt THEN (Unsigned(n, SzInt) \div Byte^(i - 1)) % Byte ELSE 0]
  IN IF h.little THEN low ELSE Reverse(low)

(* The bytes of n from the lowest: those beyond an integer are its sign.    *)
PackInt(n, h, size, neg) ==
  LET low == [i \in 1 .. size |->
                IF i <= SzInt THEN (Unsigned(n, SzInt) \div Byte^(i - 1)) % Byte
                ELSE IF neg THEN Byte - 1 ELSE 0]
  IN IF h.little THEN low ELSE Reverse(low)

Fits(o, n) ==
  CASE o.k = "int" -> o.size >= SzInt \/ (-((Byte^o.size) \div 2) <= n /\ n < (Byte^o.size) \div 2)
    [] o.k = "uint" -> o.size >= SzInt \/ Unsigned(n, SzInt) < Byte^o.size
    [] o.k = "char" -> Len(n) = o.size
    [] o.k = "string" -> o.size >= SzInt \/ Len(n) < Byte^o.size
    [] o.k = "zstr" -> 0 \notin Range(n)

Item(o, h, n) ==
  CASE o.k = "int" -> PackInt(n, h, o.size, n < 0)
    [] o.k = "uint" -> PackInt(n, h, o.size, FALSE)
    [] o.k = "char" -> n
    [] o.k = "string" -> PackInt(Len(n), h, o.size, FALSE) \o n
    [] o.k = "zstr" -> Append(n, 0)

TakesArgument(o) == o.k \in {"int", "uint", "char", "string", "zstr"}
Zeros(n) == [i \in 1 .. n |-> 0]

RECURSIVE Pack(_, _, _, _, _)
(* str_pack, with total bytes counted and out written. *)
Pack(fmt, args, h, total, out) ==
  IF fmt = <<>> THEN out
  ELSE LET o == fmt[1]
           d == Details(h, total, fmt)
           item == IF TakesArgument(o) THEN Item(o, d.h, args[1]) ELSE Zeros(SizeOf(o))
           extra == IF o.k = "string" THEN Len(args[1]) ELSE IF o.k = "zstr" THEN Len(args[1]) + 1 ELSE 0
       IN IF d.pad = -1 \/ (TakesArgument(o) /\ ~Fits(o, args[1])) THEN PackError
          ELSE Pack(d.rest, IF TakesArgument(o) THEN Tail(args) ELSE args, d.h,
                    total + d.pad + SizeOf(o) + extra, out \o Zeros(d.pad) \o item)

RECURSIVE PackSize(_, _, _)
PackSize(fmt, h, total) ==
  IF fmt = <<>> THEN total
  ELSE LET d == Details(h, total, fmt)
       IN IF d.pad = -1 \/ fmt[1].k \in {"string", "zstr"} THEN -1
          ELSE PackSize(d.rest, d.h, total + d.pad + SizeOf(fmt[1]))

-----------------------------------------------------------------------------
(* unpackint: the integer in size bytes, or Byte^SzInt, which is none, when *)
(* the bytes beyond an integer are not its sign.                            *)
TooLong == Byte^SzInt
UnpackInt(bytes, h, size, signed) ==
  LET low == IF h.little THEN bytes ELSE Reverse(bytes)
      limit == IF size <= SzInt THEN size ELSE SzInt
      res == FoldLeft(LAMBDA acc, i : (acc * Byte) + low[limit + 1 - i], 0, [i \in 1 .. limit |-> i])
      extended == IF size < SzInt
                  THEN IF signed /\ res >= (Byte^size) \div 2 THEN res - Byte^size ELSE res
                  ELSE IF res >= (Byte^SzInt) \div 2 THEN res - Byte^SzInt ELSE res
      mask == IF ~signed \/ extended >= 0 THEN 0 ELSE Byte - 1
  IN IF \E i \in (limit + 1) .. size : low[i] # mask THEN TooLong ELSE extended

(* The length of the text up to its final zero.                             *)
StrLen(data, pos) ==
  CHOOSE n \in 0 .. Len(data) : (pos + n = Len(data) \/ data[pos + n + 1] = 0)
                                /\ \A i \in 1 .. n : data[pos + i] # 0

RECURSIVE Unpack(_, _, _, _, _)
(* str_unpack from pos: the values and then the next position.              *)
Unpack(fmt, data, pos, h, values) ==
  IF fmt = <<>> THEN Append(values, pos + 1)
  ELSE LET o == fmt[1]
           d == Details(h, pos, fmt)
           at == pos + d.pad
           size == SizeOf(o)
           bytes == SubSeq(data, at + 1, at + size)
           n == UnpackInt(bytes, d.h, size, o.k = "int")
           len == UnpackInt(bytes, d.h, size, FALSE)
           z == StrLen(data, at)
       IN IF d.pad = -1 \/ at + size > Len(data) THEN PackError
          ELSE CASE o.k \in {"int", "uint"} ->
                      (IF n = TooLong THEN PackError
                       ELSE Unpack(d.rest, data, at + size, d.h, Append(values, n)))
                 [] o.k = "char" -> Unpack(d.rest, data, at + size, d.h, Append(values, bytes))
                 [] o.k = "string" ->
                      (IF len = TooLong \/ at + size + Unsigned(len, SzInt) > Len(data) THEN PackError
                       ELSE Unpack(d.rest, data, at + size + len, d.h,
                                   Append(values, SubSeq(data, at + size + 1, at + size + len))))
                 [] o.k = "zstr" ->
                      Unpack(d.rest, data, at + z + 1, d.h, Append(values, SubSeq(data, at + 1, at + z)))
                 [] OTHER -> Unpack(d.rest, data, at + size, d.h, values)
=============================================================================
