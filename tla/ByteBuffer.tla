----------------------------- MODULE ByteBuffer -----------------------------
(***************************************************************************)
(* The buffer of src/src/ByteBuffer.h: bytes with a read and a write       *)
(* position, and one partial byte that bit reads and bit writes share.     *)
(*                                                                         *)
(* An operation is an operator from a buffer to a buffer, or to a result   *)
(* when it returns a value or may throw.  A number of n bytes is the       *)
(* sequence of its bytes, the least significant first, as in memory.       *)
(***************************************************************************)
EXTENDS Integers, Sequences

CONSTANTS
  SizeMax,  \* the largest size_t
  MaxSize,  \* the largest buffer that the program can hold
  Outside   \* the byte that is read outside the storage

Byte == 0..255

\* A size_t has at least 5 bits, and all bits of SizeMax are set.
ASSUME SizeAssumption ==
  SizeMax \in Nat /\ SizeMax % 32 = 31 /\ MaxSize \in 0..SizeMax /\ Outside \in Byte

Word == [1..8 -> Byte]
InitialBitPos == 8

\* bitpos is InitialBitPos when no byte is in progress.  A writer counts it down,
\* a reader counts it up; cur is the byte in progress of either.
Buffer == [storage : Seq(Byte), rpos : Nat, wpos : Nat, bitpos : 0..SizeMax, cur : Byte]

Size(b) == Len(b.storage)

\* An opcode is the first four bytes.
OpcodeSize == 4

\* 1 << n, the value of bit n: n doublings of 1, in the form that proofs can use.
Shifted(n) == LET power[i \in 0..n] == IF i = 0 THEN 1 ELSE 2 * power[i - 1] IN power[n]

\* Bit i of v, and the byte v with that bit set.
BitOf(v, i) == (v \div Shifted(i)) % 2
SetBit(v, i) == IF BitOf(v, i) = 1 THEN v ELSE v + Shifted(i)

\* v | (1 << n), stored in a byte.  A shift by 32 or more takes n modulo 32, as x86
\* does; one by 8 or more sets a bit that the byte does not have.
OrShifted(v, n) == LET i == n % 32 IN IF i < 8 THEN SetBit(v, i) ELSE v

\* What an operation that returns a value leaves and yields.
Returned(b, v) == [buf |-> b, ok |-> TRUE, value |-> v]
Thrown(b) == [buf |-> b, ok |-> FALSE, value |-> 0]

\* size_t arithmetic wraps.
Decremented(n) == IF n = 0 THEN SizeMax ELSE n - 1
Incremented(n) == IF n = SizeMax THEN 0 ELSE n + 1
Sum(p, n) == IF p + n > SizeMax THEN p + n - (SizeMax + 1) ELSE p + n

-----------------------------------------------------------------------------
(* Writing.                                                                *)

\* old with s at offset pos, grown with zeros when it is too short.
Overlay(old, pos, s) ==
  LET end == pos + Len(s)
  IN  [i \in 1..(IF end > Len(old) THEN end ELSE Len(old)) |->
         IF i > pos /\ i <= end THEN s[i - pos] ELSE IF i <= Len(old) THEN old[i] ELSE 0]

\* Mutant of Store: the bytes are inserted at the read position.
StoreAtRead(b, s) ==
  [b EXCEPT !.storage = Overlay(@, b.rpos, s), !.wpos = @ + Len(s)]

\* The end of append: the bytes go to the write position, which moves past them.
\* It holds up to MaxSize, see Overruns.
Store(b, s) ==
  [b EXCEPT !.storage = Overlay(@, b.wpos, s), !.wpos = @ + Len(s)]

\* The byte in progress is written, whoever has begun it.
FlushBits(b) ==
  IF b.bitpos = InitialBitPos THEN b
  ELSE Store([b EXCEPT !.bitpos = InitialBitPos, !.cur = 0], <<b.cur>>)

\* The byte in progress is dropped.
ResetBitPos(b) ==
  IF b.bitpos > 7 THEN b ELSE [b EXCEPT !.bitpos = InitialBitPos, !.cur = 0]

\* Mutant of Append_: the byte in progress is not flushed first.
AppendUnflushed(b, s) == Store(b, s)

\* append of a sequence that is not empty.
Append_(b, s) == Store(FlushBits(b), s)

\* One bit, from the most significant down; a full byte is written.
WriteBit(b, bit) ==
  LET p == Decremented(b.bitpos)
      c == IF bit # 0 THEN OrShifted(b.cur, p) ELSE b.cur
  IN  IF p = 0 THEN Store([b EXCEPT !.bitpos = InitialBitPos, !.cur = 0], <<c>>)
      ELSE [b EXCEPT !.bitpos = p, !.cur = c]

\* The lower n bits of v, the most significant first.
WriteBits(b, v, n) ==
  LET after[i \in 0..n] ==
        IF i = 0 THEN b ELSE WriteBit(after[i - 1], BitOf(v, n - i))
  IN  after[n]

\* WriteString: the characters alone.
WriteString(b, text) == IF text = <<>> THEN b ELSE Append_(b, text)

\* operator<<(std::string): the characters and a terminating zero.
WriteCString(b, text) == Append_(WriteString(b, text), <<0>>)

WriteByteSeq(b, v) ==
  IF v = 0 THEN b ELSE Append_(b, <<IF v % 2 = 0 THEN v + 1 ELSE v - 1>>)

\* PackUInt64: which bytes of w are not zero, and these bytes.
Mask(w) ==
  LET sum[i \in 0..8] == IF i = 0 THEN 0
                         ELSE sum[i - 1] + (IF w[i] # 0 THEN Shifted(i - 1) ELSE 0)
  IN  sum[8]
Packed(w) ==
  LET taken[i \in 0..8] == IF i = 0 THEN <<>>
                           ELSE IF w[i] # 0 THEN Append(taken[i - 1], w[i])
                           ELSE taken[i - 1]
  IN  taken[8]

\* A 128-bit number: both masks, then the bytes of the low and of the high half.
WritePacked(b, low, high) ==
  LET masks == Append_(Append_(b, <<Mask(low)>>), <<Mask(high)>>)
  IN  WriteString(WriteString(masks, Packed(low)), Packed(high))

\* One of the appends that made x out of b has ended behind MaxSize: its assertion has
\* failed, the memory did not suffice, or the end has wrapped so that nothing was
\* resized and the bytes went elsewhere.
Overruns(b, x) == x.wpos > b.wpos /\ x.wpos > MaxSize

-----------------------------------------------------------------------------
(* Reading.                                                                *)

\* Mutant of Read: the bounds check allows one byte too many.
ReadBeyond(b, n) ==
  LET r == ResetBitPos(b)
  IN  IF r.rpos + n > Size(r) + 1 THEN Thrown(r)
      ELSE Returned([r EXCEPT !.rpos = @ + n],
                    [i \in 1..n |-> IF r.rpos + i > Size(r) THEN 0 ELSE r.storage[r.rpos + i]])

\* read<T>() of n bytes.  It drops the byte in progress even when it throws.  From near
\* the largest position the sum wraps past the check, and the bytes come from elsewhere.
Read(b, n) ==
  LET r == ResetBitPos(b)
      end == Sum(r.rpos, n)
  IN  IF end > Size(r) THEN Thrown(r)
      ELSE IF r.rpos + n > Size(r) THEN Returned([r EXCEPT !.rpos = end], [i \in 1..n |-> Outside])
      ELSE Returned([r EXCEPT !.rpos = @ + n], SubSeq(r.storage, r.rpos + 1, r.rpos + n))

\* The exponent of the float or double s has all bits set.
NotFinite(s) ==
  IF Len(s) = 4 THEN s[4] % 128 = 127 /\ s[3] >= 128
  ELSE s[8] % 128 = 127 /\ s[7] >= 240

\* operator>>(float), operator>>(double): throw after the read.
ReadFloat(b, n) ==
  LET r == Read(b, n) IN IF r.ok /\ NotFinite(r.value) THEN Thrown(r.buf) ELSE r

\* The next bit; a new byte is begun when the last one is used up.  If there is
\* none, bitpos keeps the value it has been incremented to.
ReadBit(b) ==
  LET c == [b EXCEPT !.bitpos = Incremented(@)]
  IN  IF c.bitpos <= 7 THEN Returned(c, BitOf(c.cur, 7 - c.bitpos))
      ELSE LET r == Read(c, 1)
           IN  IF ~r.ok THEN r
               ELSE Returned([r.buf EXCEPT !.bitpos = 0, !.cur = r.value[1]],
                             BitOf(r.value[1], 7))

ReadBits(b, n) ==
  LET after[i \in 0..n] ==
        IF i = 0 THEN Returned(b, 0)
        ELSE LET r == after[i - 1]
                 next == ReadBit(r.buf)
             IN  IF ~r.ok THEN r
                 ELSE IF ~next.ok THEN next
                 ELSE Returned(next.buf, 2 * r.value + next.value)
  IN  after[n]

\* An empty string is read without touching the byte in progress.
ReadString(b, n) ==
  IF Sum(b.rpos, n) > Size(b) THEN Thrown(b)
  ELSE IF n = 0 THEN Returned(b, <<>>)
  ELSE Read(b, n)

\* operator>>(std::string): up to a zero, which is consumed, or to the end.
ReadCString(b) ==
  LET rest == SubSeq(b.storage, b.rpos + 1, Size(b))
      zeros == {i \in 1..Len(rest) : rest[i] = 0}
      first == CHOOSE i \in zeros : \A j \in zeros : i <= j
  IN  IF b.rpos >= Size(b) THEN Returned(b, <<>>)
      ELSE IF zeros = {} THEN Read(b, Len(rest))
      ELSE Returned(Read(b, first).buf, SubSeq(rest, 1, first - 1))

\* ReadPackedUInt64: a byte for every bit of mask.
ReadPacked(b, mask) ==
  LET after[i \in 0..8] ==
        IF i = 0 THEN Returned(b, <<>>)
        ELSE LET r == after[i - 1]
                 next == Read(r.buf, 1)
             IN  IF ~r.ok THEN r
                 ELSE IF BitOf(mask, i - 1) = 0 THEN Returned(r.buf, Append(r.value, 0))
                 ELSE IF ~next.ok THEN next
                 ELSE Returned(next.buf, Append(r.value, next.value[1]))
  IN  after[8]

\* LuaPacket::ReadInt128: both masks, then both halves.
ReadInt128(b) ==
  LET lowMask == Read(b, 1)
      highMask == Read(lowMask.buf, 1)
      low == ReadPacked(highMask.buf, lowMask.value[1])
      high == ReadPacked(low.buf, highMask.value[1])
  IN  IF ~lowMask.ok THEN lowMask
      ELSE IF ~highMask.ok THEN highMask
      ELSE IF ~low.ok THEN low
      ELSE IF ~high.ok THEN high
      ELSE Returned(high.buf, <<low.value, high.value>>)

\* put: over the bytes at pos, or an exception.
Put(b, pos, s) ==
  IF pos + Len(s) > Size(b) THEN Thrown(b)
  ELSE Returned([b EXCEPT !.storage = Overlay(@, pos, s)], 0)
=============================================================================
