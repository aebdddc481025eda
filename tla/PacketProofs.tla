------------------------------ MODULE PacketProofs ------------------------------
(***************************************************************************)
(* Proofs about module Packet, for packets of any size and any inputs that *)
(* its assumptions allow.                                                  *)
(*                                                                         *)
(* Two relations carry them.  A write leaves a buffer that has Grown from  *)
(* the one before; a read leaves one that is ReadFrom it.  Both are        *)
(* reflexive and transitive, so that they hold for the operations that     *)
(* repeat a smaller one as well.                                           *)
(*                                                                         *)
(* That a script reads back what it writes rests on two more.  Bytes Hold  *)
(* what has been written so far, up to the last bit, whatever follows, and *)
(* a reader of them is Synced when it has read exactly that.  Every method *)
(* that writes an item leaves a buffer that Follows: from bytes that hold  *)
(* it, a synced reader reads the item, and is synced again.                *)
(***************************************************************************)
EXTENDS Packet, Recursion, SequenceTheorems, TLAPS

-----------------------------------------------------------------------------
(* Bytes and bits.                                                         *)

\* A size_t holds InitialBitPos, and counts to its maximum and back.
LEMMA SizeMaxIsLarge == SizeMax \in Nat /\ SizeMax >= 31
BY SizeAssumption

\* A sum that wraps is smaller.
LEMMA SumIs == ASSUME NEW p \in Nat, NEW n \in Nat PROVE Sum(p, n) \in Nat /\ Sum(p, n) <= p + n
BY SizeMaxIsLarge DEF Sum

\* Counting stays within a size_t.
LEMMA CountsWrap ==
  ASSUME NEW n \in 0..SizeMax
  PROVE  Decremented(n) \in 0..SizeMax /\ Incremented(n) \in 0..SizeMax
BY SizeMaxIsLarge DEF Decremented, Incremented

\* A value of a bit is a doubling of the one below.
LEMMA ShiftedSteps ==
  ASSUME NEW n \in Nat
  PROVE  \E g \in [0..n -> Nat \ {0}] :
           /\ g[0] = 1
           /\ \A i \in 1..n : g[i] = 2 * g[i - 1]
           /\ g[n] = Shifted(n)
<1> DEFINE power[i \in 0..n] == IF i = 0 THEN 1 ELSE 2 * power[i - 1]
           S == Nat \ {0}
           step == [i \in 1..n |-> [x \in S |-> 2 * x]]
<1>1. Shifted(n) = power[n]
  BY DEF Shifted
<1>2. 1 \in S
  OBVIOUS
<1>3. step \in [1..n -> [S -> S]]
  OBVIOUS
<1>4. \A i \in 1..n, x \in S : step[i][x] = 2 * x
  OBVIOUS
<1>5. power = CHOOSE g : g = [i \in 0..n |-> IF i = 0 THEN 1 ELSE 2 * g[i - 1]]
  BY DEF power
<1> HIDE DEF S, step, power
<1>6. PICK g : Chain(g, n, S, 1, step)
  BY <1>2, <1>3, ChainExists
<1>7. g \in [0..n -> S] /\ g[0] = 1
  BY <1>6 DEF Chain
<1>8. ASSUME NEW i \in 1..n PROVE g[i] = 2 * g[i - 1]
  <2>1. i - 1 \in 0..n
    OBVIOUS
  <2>2. g[i - 1] \in S /\ g[i] = step[i][g[i - 1]]
    BY <2>1, <1>6, <1>7 DEF Chain
  <2> QED  BY <2>2, <1>4
<1>9. g = [i \in 0..n |-> IF i = 0 THEN 1 ELSE 2 * g[i - 1]]
  <2>1. \A i \in 0..n : g[i] = IF i = 0 THEN 1 ELSE 2 * g[i - 1]
    BY <1>7, <1>8
  <2> QED  BY <2>1, <1>7
<1>10. power = [i \in 0..n |-> IF i = 0 THEN 1 ELSE 2 * power[i - 1]]
  BY <1>5, <1>9
<1>11. power[0] = 1
  BY <1>10
<1>12. \A i \in 1..n : power[i] = 2 * power[i - 1]
  BY <1>10
<1>13. power \in [0..n -> S]
  <2>1. power[0] \in S
    BY <1>2, <1>11
  <2>2. \A i \in 1..n : power[i - 1] \in S => power[i] \in S
    BY <1>12 DEF S
  <2>3. \A i \in 0..n : power[i] \in S
    BY <2>1, <2>2, ChainStays
  <2> QED  BY <2>3, <1>10
<1> QED  BY <1>1, <1>11, <1>12, <1>13 DEF S

\* Two sequences of doublings are the same as far as both go.
LEMMA ShiftedGrows ==
  ASSUME NEW n \in Nat
  PROVE  Shifted(n) \in Nat \ {0} /\ Shifted(n + 1) = 2 * Shifted(n)
<1>1. PICK g \in [0..n -> Nat \ {0}] :
        g[0] = 1 /\ (\A i \in 1..n : g[i] = 2 * g[i - 1]) /\ g[n] = Shifted(n)
  BY ShiftedSteps
<1>2. n + 1 \in Nat
  OBVIOUS
<1>3. PICK h \in [0 .. n + 1 -> Nat \ {0}] :
        h[0] = 1 /\ (\A i \in 1 .. n + 1 : h[i] = 2 * h[i - 1]) /\ h[n + 1] = Shifted(n + 1)
  BY <1>2, ShiftedSteps
<1> DEFINE Same == {i \in 0..n : g[i] = h[i]}
<1>4. 0 \in Same
  BY <1>1, <1>3
<1>5. \A i \in 1..n : i - 1 \in Same => i \in Same
  BY <1>1, <1>3
<1>6. \A i \in 0..n : i \in Same
  BY <1>4, <1>5, UpTo
<1>7. g[n] = h[n] /\ n \in 0..n
  BY <1>6
<1>8. n + 1 \in 1 .. n + 1 /\ (n + 1) - 1 = n
  OBVIOUS
<1>9. h[n + 1] = 2 * h[n]
  BY <1>3, <1>8
<1> QED  BY <1>1, <1>3, <1>7, <1>9

\* The values of the bits of a byte.
LEMMA Powers ==
  /\ Shifted(0) = 1 /\ Shifted(1) = 2 /\ Shifted(2) = 4 /\ Shifted(3) = 8
  /\ Shifted(4) = 16 /\ Shifted(5) = 32 /\ Shifted(6) = 64 /\ Shifted(7) = 128
  /\ Shifted(8) = 256
<1>1. Shifted(0) = 1
  <2>1. PICK g \in [0..0 -> Nat \ {0}] : g[0] = 1 /\ g[0] = Shifted(0)
    BY ShiftedSteps
  <2> QED  BY <2>1
<1>2. Shifted(0 + 1) = 2 * Shifted(0) /\ Shifted(1 + 1) = 2 * Shifted(1)
      /\ Shifted(2 + 1) = 2 * Shifted(2) /\ Shifted(3 + 1) = 2 * Shifted(3)
      /\ Shifted(4 + 1) = 2 * Shifted(4) /\ Shifted(5 + 1) = 2 * Shifted(5)
      /\ Shifted(6 + 1) = 2 * Shifted(6) /\ Shifted(7 + 1) = 2 * Shifted(7)
  BY ShiftedGrows
<1>3. 0 + 1 = 1 /\ 1 + 1 = 2 /\ 2 + 1 = 3 /\ 3 + 1 = 4 /\ 4 + 1 = 5 /\ 5 + 1 = 6
      /\ 6 + 1 = 7 /\ 7 + 1 = 8
  OBVIOUS
<1>4. Shifted(1) = 2 * Shifted(0) /\ Shifted(2) = 2 * Shifted(1)
      /\ Shifted(3) = 2 * Shifted(2) /\ Shifted(4) = 2 * Shifted(3)
      /\ Shifted(5) = 2 * Shifted(4) /\ Shifted(6) = 2 * Shifted(5)
      /\ Shifted(7) = 2 * Shifted(6) /\ Shifted(8) = 2 * Shifted(7)
  BY <1>2, <1>3
<1> QED  BY <1>1, <1>4

\* They are natural numbers.
LEMMA PowerIsNat ==
  ASSUME NEW i \in 0..7
  PROVE  Shifted(i) \in Nat
BY ShiftedGrows

\* A byte stays a byte when one of its bits is set.
LEMMA SetBitIsByte ==
  ASSUME NEW v \in Byte, NEW i \in 0..7
  PROVE  SetBit(v, i) \in Byte /\ BitOf(v, i) \in {0, 1}
<1>1. i = 0 \/ i = 1 \/ i = 2 \/ i = 3 \/ i = 4 \/ i = 5 \/ i = 6 \/ i = 7
  OBVIOUS
<1>2. CASE i = 0
  BY <1>2, Powers DEF SetBit, BitOf, Byte
<1>3. CASE i = 1
  BY <1>3, Powers DEF SetBit, BitOf, Byte
<1>4. CASE i = 2
  BY <1>4, Powers DEF SetBit, BitOf, Byte
<1>5. CASE i = 3
  BY <1>5, Powers DEF SetBit, BitOf, Byte
<1>6. CASE i = 4
  BY <1>6, Powers DEF SetBit, BitOf, Byte
<1>7. CASE i = 5
  BY <1>7, Powers DEF SetBit, BitOf, Byte
<1>8. CASE i = 6
  BY <1>8, Powers DEF SetBit, BitOf, Byte
<1>9. CASE i = 7
  BY <1>9, Powers DEF SetBit, BitOf, Byte
<1> QED  BY <1>1, <1>2, <1>3, <1>4, <1>5, <1>6, <1>7, <1>8, <1>9

\* So does one that takes a shift of any width.
LEMMA OrShiftedIsByte ==
  ASSUME NEW v \in Byte, NEW n \in Nat
  PROVE  OrShifted(v, n) \in Byte
<1>1. n % 32 \in Nat
  OBVIOUS
<1>2. CASE n % 32 < 8
  <2>1. n % 32 \in 0..7
    BY <1>1, <1>2
  <2> QED  BY <2>1, <1>2, SetBitIsByte DEF OrShifted
<1>3. CASE ~(n % 32 < 8)
  BY <1>3 DEF OrShifted
<1> QED  BY <1>2, <1>3

-----------------------------------------------------------------------------
(* Writes.                                                                 *)

\* The bytes of a sequence that another one lies over.
LEMMA OverlayIs ==
  ASSUME NEW old \in Seq(Byte), NEW pos \in Nat, NEW s \in Seq(Byte)
  PROVE  /\ Overlay(old, pos, s) \in Seq(Byte)
         /\ Len(Overlay(old, pos, s)) = IF pos + Len(s) > Len(old) THEN pos + Len(s) ELSE Len(old)
         /\ \A i \in 1..Len(old) :
              i <= pos \/ i > pos + Len(s) => Overlay(old, pos, s)[i] = old[i]
         /\ \A i \in 1..Len(s) : Overlay(old, pos, s)[pos + i] = s[i]
<1> DEFINE end == pos + Len(s)
           len == IF end > Len(old) THEN end ELSE Len(old)
           at(i) == IF i > pos /\ i <= end THEN s[i - pos] ELSE IF i <= Len(old) THEN old[i] ELSE 0
           o == [i \in 1..len |-> at(i)]
<1>1. Overlay(old, pos, s) = o
  BY DEF Overlay
<1>2. len \in Nat /\ len >= end /\ len >= Len(old) /\ end \in Nat
  OBVIOUS
<1>3. ASSUME NEW i \in 1..len PROVE at(i) \in Byte
  <2>1. CASE i > pos /\ i <= end
    <3>1. i - pos \in 1..Len(s)
      BY <2>1
    <3>2. s[i - pos] \in Byte
      BY <3>1
    <3> QED  BY <3>2, <2>1
  <2>2. CASE ~(i > pos /\ i <= end) /\ i <= Len(old)
    <3>1. i \in 1..Len(old)
      BY <2>2, <1>2
    <3> QED  BY <3>1, <2>2
  <2>3. CASE ~(i > pos /\ i <= end) /\ ~(i <= Len(old))
    BY <2>3 DEF Byte
  <2> QED  BY <2>1, <2>2, <2>3
<1>4. \A i \in 1..Len(old) : i <= pos \/ i > end => at(i) = old[i]
  OBVIOUS
<1>5. \A i \in 1..Len(s) : at(pos + i) = s[i] /\ pos + i \in 1..len
  OBVIOUS
<1> HIDE DEF at, len
<1>6. o \in Seq(Byte) /\ Len(o) = len
  BY <1>2, <1>3
<1>7. \A i \in 1..Len(old) : i \in 1..len
  BY <1>2
<1> QED  BY <1>1, <1>4, <1>5, <1>6, <1>7 DEF len

\* What a write does: x is b with bytes between the two write positions that may
\* differ, and with zeros behind its former end.
Grown(b, x) ==
  /\ x \in Buffer
  /\ Size(x) >= Size(b)
  /\ x.wpos >= b.wpos
  /\ x.rpos = b.rpos
  /\ \A i \in 1..Size(b) : i <= b.wpos \/ i > x.wpos => x.storage[i] = b.storage[i]

\* Nothing written is a write of nothing.
LEMMA GrownReflexive ==
  ASSUME NEW b \in Buffer
  PROVE  Grown(b, b)
BY DEF Grown, Buffer, Size

\* Two writes are a write.
LEMMA GrownTransitive ==
  ASSUME NEW b \in Buffer, NEW x, NEW y, Grown(b, x), Grown(x, y)
  PROVE  Grown(b, y)
<1>1. x \in Buffer /\ y \in Buffer
  BY DEF Grown
<1>2. Size(b) \in Nat /\ Size(x) \in Nat /\ Size(y) \in Nat
  BY <1>1 DEF Buffer, Size
<1>3. b.wpos \in Nat /\ x.wpos \in Nat /\ y.wpos \in Nat
  BY <1>1 DEF Buffer
<1>4. ASSUME NEW i \in 1..Size(b), i <= b.wpos \/ i > y.wpos PROVE y.storage[i] = b.storage[i]
  <2>1. i \in 1..Size(x)
    BY <1>2 DEF Grown
  <2>2. i <= b.wpos \/ i > x.wpos
    BY <1>2, <1>3, <1>4 DEF Grown
  <2>3. i <= x.wpos \/ i > y.wpos
    BY <1>2, <1>3, <1>4 DEF Grown
  <2> QED  BY <2>1, <2>2, <2>3 DEF Grown
<1>5. Size(y) >= Size(b) /\ y.wpos >= b.wpos /\ y.rpos = b.rpos
  BY <1>2, <1>3 DEF Grown
<1> QED  BY <1>1, <1>4, <1>5 DEF Grown

\* The end of append.
LEMMA StoreIs ==
  ASSUME NEW b \in Buffer, NEW s \in Seq(Byte)
  PROVE  /\ Grown(b, Store(b, s))
         /\ Store(b, s).wpos = b.wpos + Len(s)
         /\ Store(b, s).wpos <= Size(Store(b, s))
<1> DEFINE o == Overlay(b.storage, b.wpos, s)
           x == Store(b, s)
<1>1. b.storage \in Seq(Byte) /\ b.wpos \in Nat /\ Len(s) \in Nat /\ Len(b.storage) \in Nat
  BY DEF Buffer
<1>2. /\ o \in Seq(Byte)
      /\ Len(o) = IF b.wpos + Len(s) > Len(b.storage) THEN b.wpos + Len(s) ELSE Len(b.storage)
      /\ \A i \in 1..Len(b.storage) :
           i <= b.wpos \/ i > b.wpos + Len(s) => o[i] = b.storage[i]
  BY <1>1, OverlayIs
<1> HIDE DEF o
<1>3. x = [b EXCEPT !.storage = o, !.wpos = b.wpos + Len(s)]
  BY DEF Store, o, Buffer
<1>4. x \in Buffer /\ x.storage = o /\ x.wpos = b.wpos + Len(s) /\ x.rpos = b.rpos
  <2> DEFINE w == b.wpos + Len(s)
  <2>1. w \in Nat
    BY <1>1
  <2>2. x = [b EXCEPT !.storage = o, !.wpos = w]
    BY <1>3
  <2> HIDE DEF w, x
  <2>3. x \in Buffer /\ x.storage = o /\ x.wpos = w /\ x.rpos = b.rpos
    BY <1>2, <2>1, <2>2 DEF Buffer
  <2> QED  BY <2>3 DEF w
<1> HIDE DEF x
<1>5. Size(x) >= Size(b) /\ x.wpos >= b.wpos /\ x.wpos <= Size(x)
  BY <1>1, <1>2, <1>4 DEF Size
<1>6. \A i \in 1..Size(b) : i <= b.wpos \/ i > x.wpos => x.storage[i] = b.storage[i]
  BY <1>2, <1>4 DEF Size
<1> QED  BY <1>4, <1>5, <1>6 DEF Grown, x

\* FlushBits.
LEMMA FlushBitsGrows ==
  ASSUME NEW b \in Buffer
  PROVE  Grown(b, FlushBits(b))
<1>1. CASE b.bitpos = InitialBitPos
  BY <1>1, GrownReflexive DEF FlushBits
<1>2. CASE b.bitpos # InitialBitPos
  <2> DEFINE c == [b EXCEPT !.bitpos = InitialBitPos, !.cur = 0]
  <2>1. InitialBitPos \in 0..SizeMax /\ 0 \in Byte
    BY SizeMaxIsLarge DEF InitialBitPos, Byte
  <2>2. c \in Buffer /\ c.storage = b.storage /\ c.wpos = b.wpos /\ c.rpos = b.rpos
    BY <2>1 DEF Buffer
  <2>3. Grown(b, c)
    BY <2>2 DEF Grown, Size, Buffer
  <2>4. b.cur \in Byte
    BY DEF Buffer
  <2>5. <<b.cur>> \in Seq(Byte)
    BY <2>4
  <2>6. FlushBits(b) = Store(c, <<b.cur>>)
    BY <1>2 DEF FlushBits
  <2> HIDE DEF c
  <2>7. Grown(c, Store(c, <<b.cur>>))
    BY <2>2, <2>5, StoreIs
  <2> QED  BY <2>3, <2>6, <2>7, GrownTransitive
<1> QED  BY <1>1, <1>2

\* append, and where it leaves the write position.
LEMMA AppendIs ==
  ASSUME NEW b \in Buffer, NEW s \in Seq(Byte)
  PROVE  /\ Grown(b, Append_(b, s))
         /\ Append_(b, s).wpos <= Size(Append_(b, s))
         /\ s # <<>> => Append_(b, s).wpos > 0
<1> DEFINE c == FlushBits(b)
<1>1. Grown(b, c)
  BY FlushBitsGrows
<1>2. c \in Buffer
  BY <1>1 DEF Grown
<1>3. Append_(b, s) = Store(c, s)
  BY DEF Append_
<1> HIDE DEF c
<1>4. /\ Grown(c, Store(c, s))
      /\ Store(c, s).wpos = c.wpos + Len(s)
      /\ Store(c, s).wpos <= Size(Store(c, s))
  BY <1>2, StoreIs
<1>5. s # <<>> => c.wpos + Len(s) > 0
  BY <1>2 DEF Buffer
<1> QED  BY <1>1, <1>3, <1>4, <1>5, GrownTransitive

\* WriteBit, also where its count has wrapped.
LEMMA WriteBitGrows ==
  ASSUME NEW b \in Buffer, NEW bit
  PROVE  Grown(b, WriteBit(b, bit))
<1> DEFINE p == Decremented(b.bitpos)
           c == IF bit # 0 THEN OrShifted(b.cur, p) ELSE b.cur
<1>1. p \in 0..SizeMax /\ p \in Nat
  BY CountsWrap, SizeMaxIsLarge DEF Buffer
<1>2. b.cur \in Byte
  BY DEF Buffer
<1>3. c \in Byte
  BY <1>1, <1>2, OrShiftedIsByte
<1>4. WriteBit(b, bit) =
        IF p = 0 THEN Store([b EXCEPT !.bitpos = InitialBitPos, !.cur = 0], <<c>>)
        ELSE [b EXCEPT !.bitpos = p, !.cur = c]
  BY DEF WriteBit
<1> HIDE DEF p, c
<1>5. CASE p = 0
  <2> DEFINE d == [b EXCEPT !.bitpos = InitialBitPos, !.cur = 0]
  <2>1. InitialBitPos \in 0..SizeMax /\ 0 \in Byte
    BY SizeMaxIsLarge DEF InitialBitPos, Byte
  <2>2. d \in Buffer /\ d.storage = b.storage /\ d.wpos = b.wpos /\ d.rpos = b.rpos
    BY <2>1 DEF Buffer
  <2>3. Grown(b, d)
    BY <2>2 DEF Grown, Size, Buffer
  <2>4. <<c>> \in Seq(Byte)
    BY <1>3
  <2>5. WriteBit(b, bit) = Store(d, <<c>>)
    BY <1>4, <1>5
  <2> HIDE DEF d
  <2> QED  BY <2>2, <2>3, <2>4, <2>5, StoreIs, GrownTransitive
<1>6. CASE p # 0
  <2> DEFINE d == [b EXCEPT !.bitpos = p, !.cur = c]
  <2>1. d \in Buffer /\ d.storage = b.storage /\ d.wpos = b.wpos /\ d.rpos = b.rpos
    BY <1>1, <1>3 DEF Buffer
  <2>2. Grown(b, d)
    BY <2>1 DEF Grown, Size, Buffer
  <2> QED  BY <1>4, <1>6, <2>2
<1> QED  BY <1>5, <1>6

\* WriteBits, bit by bit.
LEMMA WriteBitsSteps ==
  ASSUME NEW b \in Buffer, NEW v, NEW n \in Nat
  PROVE  \E w \in [0..n -> {x \in Buffer : Grown(b, x)}] :
           /\ w[0] = b
           /\ \A i \in 1..n : w[i] = WriteBit(w[i - 1], BitOf(v, n - i))
           /\ w[n] = WriteBits(b, v, n)
<1> DEFINE after[i \in 0..n] ==
             IF i = 0 THEN b ELSE WriteBit(after[i - 1], BitOf(v, n - i))
           S == {x \in Buffer : Grown(b, x)}
           step == [i \in 1..n |-> [x \in S |-> WriteBit(x, BitOf(v, n - i))]]
<1>1. WriteBits(b, v, n) = after[n]
  BY DEF WriteBits
<1>2. b \in S
  BY GrownReflexive
<1>3. ASSUME NEW i, NEW x \in S PROVE WriteBit(x, BitOf(v, n - i)) \in S
  <2>1. Grown(x, WriteBit(x, BitOf(v, n - i)))
    BY WriteBitGrows
  <2>2. Grown(b, WriteBit(x, BitOf(v, n - i)))
    BY <2>1, GrownTransitive
  <2> QED  BY <2>2 DEF Grown
<1> HIDE DEF S
<1>4. step \in [1..n -> [S -> S]]
  BY <1>3
<1>5. \A i \in 1..n, x \in S : step[i][x] = WriteBit(x, BitOf(v, n - i))
  OBVIOUS
<1>6. after = CHOOSE g : g = [i \in 0..n |-> IF i = 0 THEN b
                                             ELSE WriteBit(g[i - 1], BitOf(v, n - i))]
  BY DEF after
<1> HIDE DEF step, after
<1>7. PICK g : Chain(g, n, S, b, step)
  BY <1>2, <1>4, ChainExists
<1>8. ASSUME NEW i \in 0..n
      PROVE  g[i] = IF i = 0 THEN b ELSE WriteBit(g[i - 1], BitOf(v, n - i))
  <2>1. CASE i = 0
    BY <2>1, <1>7 DEF Chain
  <2>2. CASE i # 0
    <3>1. i \in 1..n /\ i - 1 \in 0..n
      BY <2>2
    <3>2. g[i - 1] \in S
      BY <3>1, <1>7 DEF Chain
    <3> QED  BY <3>1, <3>2, <2>2, <1>5, <1>7 DEF Chain
  <2> QED  BY <2>1, <2>2
<1>9. g = [i \in 0..n |-> IF i = 0 THEN b ELSE WriteBit(g[i - 1], BitOf(v, n - i))]
  BY <1>7, <1>8 DEF Chain
<1>10. after = [i \in 0..n |-> IF i = 0 THEN b ELSE WriteBit(after[i - 1], BitOf(v, n - i))]
  BY <1>6, <1>9
<1>11. after[0] = b
  <2>1. 0 \in 0..n
    OBVIOUS
  <2> QED  BY <1>10, <2>1
<1>12. ASSUME NEW i \in 1..n PROVE after[i] = WriteBit(after[i - 1], BitOf(v, n - i))
  <2>1. i \in 0..n /\ i # 0
    OBVIOUS
  <2> QED  BY <1>10, <2>1
<1>13. \A i \in 1..n : after[i - 1] \in S => after[i] \in S
  BY <1>12, <1>3
<1>14. \A i \in 0..n : after[i] \in S
  BY <1>2, <1>11, <1>13, ChainStays
<1>15. after \in [0..n -> S]
  BY <1>10, <1>14
<1> QED  BY <1>1, <1>11, <1>12, <1>15 DEF S

\* WriteBits, however many bits there are.
LEMMA WriteBitsGrows ==
  ASSUME NEW b \in Buffer, NEW v, NEW n \in Nat
  PROVE  Grown(b, WriteBits(b, v, n))
<1>1. PICK w \in [0..n -> {x \in Buffer : Grown(b, x)}] : w[n] = WriteBits(b, v, n)
  BY WriteBitsSteps
<1>2. n \in 0..n
  OBVIOUS
<1> QED  BY <1>1, <1>2

\* WriteString.
LEMMA WriteStringGrows ==
  ASSUME NEW b \in Buffer, NEW text \in Seq(Byte)
  PROVE  Grown(b, WriteString(b, text))
BY GrownReflexive, AppendIs DEF WriteString

\* operator<<(std::string).
LEMMA WriteCStringGrows ==
  ASSUME NEW b \in Buffer, NEW text \in Seq(Byte)
  PROVE  Grown(b, WriteCString(b, text))
<1> DEFINE c == WriteString(b, text)
<1>1. Grown(b, c)
  BY WriteStringGrows
<1>2. c \in Buffer /\ <<0>> \in Seq(Byte)
  BY <1>1 DEF Grown, Byte
<1>3. WriteCString(b, text) = Append_(c, <<0>>)
  BY DEF WriteCString
<1> HIDE DEF c
<1>4. Grown(c, Append_(c, <<0>>))
  BY <1>2, AppendIs
<1> QED  BY <1>1, <1>3, <1>4, GrownTransitive

\* WriteByteSeq.
LEMMA WriteByteSeqGrows ==
  ASSUME NEW b \in Buffer, NEW v \in Byte
  PROVE  Grown(b, WriteByteSeq(b, v))
<1> DEFINE w == IF v % 2 = 0 THEN v + 1 ELSE v - 1
<1>1. CASE v = 0
  BY <1>1, GrownReflexive DEF WriteByteSeq
<1>2. CASE v # 0
  <2>1. w \in Byte
    BY <1>2 DEF Byte
  <2>2. WriteByteSeq(b, v) = Append_(b, <<w>>)
    BY <1>2 DEF WriteByteSeq
  <2> HIDE DEF w
  <2>3. <<w>> \in Seq(Byte)
    BY <2>1
  <2> QED  BY <2>2, <2>3, AppendIs
<1> QED  BY <1>1, <1>2

\* The mask of a word, byte by byte.
LEMMA MaskSteps ==
  ASSUME NEW w \in Word
  PROVE  \E m \in [0..8 -> Nat] :
           /\ m[0] = 0
           /\ \A i \in 1..8 : m[i] = m[i - 1] + (IF w[i] # 0 THEN Shifted(i - 1) ELSE 0)
           /\ m[8] = Mask(w)
<1> DEFINE after[i \in 0..8] ==
             IF i = 0 THEN 0 ELSE after[i - 1] + (IF w[i] # 0 THEN Shifted(i - 1) ELSE 0)
           S == Nat
           step == [i \in 1..8 |-> [x \in S |-> x + (IF w[i] # 0 THEN Shifted(i - 1) ELSE 0)]]
<1>1. Mask(w) = after[8]
  BY DEF Mask, after
<1>2. 0 \in S
  OBVIOUS
<1>3. ASSUME NEW i \in 1..8, NEW x \in S
      PROVE  x + (IF w[i] # 0 THEN Shifted(i - 1) ELSE 0) \in S
  <2>1. i - 1 \in 0..7
    OBVIOUS
  <2>2. Shifted(i - 1) \in Nat
    BY <2>1, PowerIsNat
  <2> QED  BY <2>2
<1> HIDE DEF S
<1>4. step \in [1..8 -> [S -> S]]
  BY <1>3
<1>5. \A i \in 1..8, x \in S : step[i][x] = x + (IF w[i] # 0 THEN Shifted(i - 1) ELSE 0)
  OBVIOUS
<1>6. after = CHOOSE g : g = [i \in 0..8 |->
                IF i = 0 THEN 0 ELSE g[i - 1] + (IF w[i] # 0 THEN Shifted(i - 1) ELSE 0)]
  BY DEF after
<1> HIDE DEF step, after
<1>7. PICK g : Chain(g, 8, S, 0, step)
  BY <1>2, <1>4, ChainExists
<1>8. ASSUME NEW i \in 0..8
      PROVE  g[i] = IF i = 0 THEN 0 ELSE g[i - 1] + (IF w[i] # 0 THEN Shifted(i - 1) ELSE 0)
  <2>1. CASE i = 0
    BY <2>1, <1>7 DEF Chain
  <2>2. CASE i # 0
    <3>1. i \in 1..8 /\ i - 1 \in 0..8
      BY <2>2
    <3>2. g[i - 1] \in S
      BY <3>1, <1>7 DEF Chain
    <3>3. g[i] = step[i][g[i - 1]]
      BY <3>1, <1>7 DEF Chain
    <3>4. step[i][g[i - 1]] = g[i - 1] + (IF w[i] # 0 THEN Shifted(i - 1) ELSE 0)
      BY <3>1, <3>2, <1>5
    <3> QED  BY <3>3, <3>4, <2>2
  <2> QED  BY <2>1, <2>2
<1>9. g = [i \in 0..8 |->
              IF i = 0 THEN 0 ELSE g[i - 1] + (IF w[i] # 0 THEN Shifted(i - 1) ELSE 0)]
  BY <1>7, <1>8 DEF Chain
<1>10. after = [i \in 0..8 |->
              IF i = 0 THEN 0 ELSE after[i - 1] + (IF w[i] # 0 THEN Shifted(i - 1) ELSE 0)]
  BY <1>6, <1>9
<1>11. after[0] = 0
  <2>1. 0 \in 0..8
    OBVIOUS
  <2> QED  BY <1>10, <2>1
<1>12. ASSUME NEW i \in 1..8
       PROVE  after[i] = after[i - 1] + (IF w[i] # 0 THEN Shifted(i - 1) ELSE 0)
  <2>1. i \in 0..8 /\ i # 0
    OBVIOUS
  <2> QED  BY <1>10, <2>1
<1>13. \A i \in 1..8 : after[i - 1] \in S => after[i] \in S
  BY <1>12, <1>3
<1>14. \A i \in 0..8 : after[i] \in S
  BY <1>2, <1>11, <1>13, ChainStays
<1>15. after \in [0..8 -> S]
  BY <1>10, <1>14
<1> QED  BY <1>1, <1>11, <1>12, <1>15 DEF S

\* The mask of a word is a byte that has bit i - 1 set when byte i is not zero.
LEMMA MaskIsByte ==
  ASSUME NEW w \in Word
  PROVE  /\ Mask(w) \in Byte
         /\ \A i \in 1..8 : BitOf(Mask(w), i - 1) = IF w[i] # 0 THEN 1 ELSE 0
<1> DEFINE b(i) == IF w[i] # 0 THEN 1 ELSE 0
<1>1. PICK m \in [0..8 -> Nat] :
        /\ m[0] = 0
        /\ \A i \in 1..8 : m[i] = m[i - 1] + (IF w[i] # 0 THEN Shifted(i - 1) ELSE 0)
        /\ m[8] = Mask(w)
  BY MaskSteps
<1>2. ASSUME NEW i \in 1..8 PROVE b(i) \in {0, 1}
  OBVIOUS
<1>3. m[1] = b(1)
  <2>1. 1 \in 1..8 /\ 1 - 1 = 0
    OBVIOUS
  <2>2. m[1] = m[1 - 1] + (IF w[1] # 0 THEN Shifted(1 - 1) ELSE 0)
    BY <2>1, <1>1
  <2> QED  BY <2>1, <2>2, <1>1, Powers
<1>4. m[2] = m[1] + 2 * b(2)
  <2>1. 2 \in 1..8 /\ 2 - 1 = 1
    OBVIOUS
  <2>2. m[2] = m[2 - 1] + (IF w[2] # 0 THEN Shifted(2 - 1) ELSE 0)
    BY <2>1, <1>1
  <2>3. m[1] \in Nat
    BY <1>1
  <2> QED  BY <2>1, <2>2, <2>3, Powers
<1>5. m[3] = m[2] + 4 * b(3)
  <2>1. 3 \in 1..8 /\ 3 - 1 = 2
    OBVIOUS
  <2>2. m[3] = m[3 - 1] + (IF w[3] # 0 THEN Shifted(3 - 1) ELSE 0)
    BY <2>1, <1>1
  <2>3. m[2] \in Nat
    BY <1>1
  <2> QED  BY <2>1, <2>2, <2>3, Powers
<1>6. m[4] = m[3] + 8 * b(4)
  <2>1. 4 \in 1..8 /\ 4 - 1 = 3
    OBVIOUS
  <2>2. m[4] = m[4 - 1] + (IF w[4] # 0 THEN Shifted(4 - 1) ELSE 0)
    BY <2>1, <1>1
  <2>3. m[3] \in Nat
    BY <1>1
  <2> QED  BY <2>1, <2>2, <2>3, Powers
<1>7. m[5] = m[4] + 16 * b(5)
  <2>1. 5 \in 1..8 /\ 5 - 1 = 4
    OBVIOUS
  <2>2. m[5] = m[5 - 1] + (IF w[5] # 0 THEN Shifted(5 - 1) ELSE 0)
    BY <2>1, <1>1
  <2>3. m[4] \in Nat
    BY <1>1
  <2> QED  BY <2>1, <2>2, <2>3, Powers
<1>8. m[6] = m[5] + 32 * b(6)
  <2>1. 6 \in 1..8 /\ 6 - 1 = 5
    OBVIOUS
  <2>2. m[6] = m[6 - 1] + (IF w[6] # 0 THEN Shifted(6 - 1) ELSE 0)
    BY <2>1, <1>1
  <2>3. m[5] \in Nat
    BY <1>1
  <2> QED  BY <2>1, <2>2, <2>3, Powers
<1>9. m[7] = m[6] + 64 * b(7)
  <2>1. 7 \in 1..8 /\ 7 - 1 = 6
    OBVIOUS
  <2>2. m[7] = m[7 - 1] + (IF w[7] # 0 THEN Shifted(7 - 1) ELSE 0)
    BY <2>1, <1>1
  <2>3. m[6] \in Nat
    BY <1>1
  <2> QED  BY <2>1, <2>2, <2>3, Powers
<1>10. m[8] = m[7] + 128 * b(8)
  <2>1. 8 \in 1..8 /\ 8 - 1 = 7
    OBVIOUS
  <2>2. m[8] = m[8 - 1] + (IF w[8] # 0 THEN Shifted(8 - 1) ELSE 0)
    BY <2>1, <1>1
  <2>3. m[7] \in Nat
    BY <1>1
  <2> QED  BY <2>1, <2>2, <2>3, Powers
<1> DEFINE v == b(1) + 2 * b(2) + 4 * b(3) + 8 * b(4) + 16 * b(5) + 32 * b(6) + 64 * b(7)
                + 128 * b(8)
<1>11. /\ b(1) \in {0, 1} /\ b(2) \in {0, 1} /\ b(3) \in {0, 1} /\ b(4) \in {0, 1}
       /\ b(5) \in {0, 1} /\ b(6) \in {0, 1} /\ b(7) \in {0, 1} /\ b(8) \in {0, 1}
  BY <1>2
<1> HIDE DEF b
<1>12. Mask(w) = v
  BY <1>1, <1>3, <1>4, <1>5, <1>6, <1>7, <1>8, <1>9, <1>10, <1>11
<1>13. BitOf(v, 0) = b(1)
  BY <1>11, Powers DEF BitOf
<1>14. BitOf(v, 1) = b(2)
  BY <1>11, Powers DEF BitOf
<1>15. BitOf(v, 2) = b(3)
  BY <1>11, Powers DEF BitOf
<1>16. BitOf(v, 3) = b(4)
  BY <1>11, Powers DEF BitOf
<1>17. BitOf(v, 4) = b(5)
  BY <1>11, Powers DEF BitOf
<1>18. BitOf(v, 5) = b(6)
  BY <1>11, Powers DEF BitOf
<1>19. BitOf(v, 6) = b(7)
  BY <1>11, Powers DEF BitOf
<1>20. BitOf(v, 7) = b(8)
  BY <1>11, Powers DEF BitOf
<1>21. v \in Byte
  BY <1>11 DEF Byte
<1> HIDE DEF v
<1>22. ASSUME NEW i \in 1..8 PROVE BitOf(v, i - 1) = b(i)
  <2>1. i = 1 \/ i = 2 \/ i = 3 \/ i = 4 \/ i = 5 \/ i = 6 \/ i = 7 \/ i = 8
    OBVIOUS
  <2>2. 1 - 1 = 0 /\ 2 - 1 = 1 /\ 3 - 1 = 2 /\ 4 - 1 = 3 /\ 5 - 1 = 4 /\ 6 - 1 = 5
        /\ 7 - 1 = 6 /\ 8 - 1 = 7
    OBVIOUS
  <2> QED  BY <2>1, <2>2, <1>13, <1>14, <1>15, <1>16, <1>17, <1>18, <1>19, <1>20
<1> QED  BY <1>12, <1>21, <1>22 DEF b

\* Its bytes that are not zero, one after the other.
LEMMA PackedSteps ==
  ASSUME NEW w \in Word
  PROVE  \E p \in [0..8 -> Seq(Byte)] :
           /\ p[0] = <<>>
           /\ \A i \in 1..8 : p[i] = IF w[i] # 0 THEN Append(p[i - 1], w[i]) ELSE p[i - 1]
           /\ p[8] = Packed(w)
<1> DEFINE after[i \in 0..8] ==
             IF i = 0 THEN <<>> ELSE IF w[i] # 0 THEN Append(after[i - 1], w[i]) ELSE after[i - 1]
           S == Seq(Byte)
           step == [i \in 1..8 |-> [x \in S |-> IF w[i] # 0 THEN Append(x, w[i]) ELSE x]]
<1>2. <<>> \in S
  OBVIOUS
<1>3. ASSUME NEW i \in 1..8, NEW x \in S PROVE (IF w[i] # 0 THEN Append(x, w[i]) ELSE x) \in S
  <2>1. w[i] \in Byte
    BY DEF Word
  <2> QED  BY <2>1
<1> HIDE DEF S
<1>4. step \in [1..8 -> [S -> S]]
  BY <1>3
<1>5. \A i \in 1..8, x \in S : step[i][x] = IF w[i] # 0 THEN Append(x, w[i]) ELSE x
  OBVIOUS
<1>6. after = CHOOSE g : g = [i \in 0..8 |->
              IF i = 0 THEN <<>> ELSE IF w[i] # 0 THEN Append(g[i - 1], w[i]) ELSE g[i - 1]]
  BY DEF after
<1> HIDE DEF step, after
<1>7. PICK g : Chain(g, 8, S, <<>>, step)
  BY <1>2, <1>4, ChainExists
<1>8. ASSUME NEW i \in 0..8
      PROVE  g[i] = IF i = 0 THEN <<>> ELSE IF w[i] # 0 THEN Append(g[i - 1], w[i]) ELSE g[i - 1]
  <2>1. CASE i = 0
    BY <2>1, <1>7 DEF Chain
  <2>2. CASE i # 0
    <3>1. i \in 1..8 /\ i - 1 \in 0..8
      BY <2>2
    <3>2. g[i - 1] \in S
      BY <3>1, <1>7 DEF Chain
    <3>3. g[i] = step[i][g[i - 1]]
      BY <3>1, <1>7 DEF Chain
    <3>4. step[i][g[i - 1]] = IF w[i] # 0 THEN Append(g[i - 1], w[i]) ELSE g[i - 1]
      BY <3>1, <3>2, <1>5
    <3> QED  BY <3>3, <3>4, <2>2
  <2> QED  BY <2>1, <2>2
<1>9. g = [i \in 0..8 |->
              IF i = 0 THEN <<>> ELSE IF w[i] # 0 THEN Append(g[i - 1], w[i]) ELSE g[i - 1]]
  BY <1>7, <1>8 DEF Chain
<1>10. after = [i \in 0..8 |->
              IF i = 0 THEN <<>> ELSE IF w[i] # 0 THEN Append(after[i - 1], w[i]) ELSE after[i - 1]]
  BY <1>6, <1>9
<1>11. after[0] = <<>>
  <2>1. 0 \in 0..8
    OBVIOUS
  <2> QED  BY <1>10, <2>1
<1>12. ASSUME NEW i \in 1..8 PROVE after[i] = IF w[i] # 0 THEN Append(after[i - 1], w[i]) ELSE after[i - 1]
  <2>1. i \in 0..8 /\ i # 0
    OBVIOUS
  <2> QED  BY <1>10, <2>1
<1>13. \A i \in 1..8 : after[i - 1] \in S => after[i] \in S
  BY <1>12, <1>3
<1>14. \A i \in 0..8 : after[i] \in S
  BY <1>2, <1>11, <1>13, ChainStays
<1>15. after \in [0..8 -> S]
  BY <1>10, <1>14
<1>16. Packed(w) = after[8]
  BY DEF Packed, after
<1> QED  BY <1>11, <1>12, <1>15, <1>16 DEF S

\* They are bytes.
LEMMA PackedIsBytes ==
  ASSUME NEW w \in Word
  PROVE  Packed(w) \in Seq(Byte)
<1>1. PICK p \in [0..8 -> Seq(Byte)] : p[8] = Packed(w)
  BY PackedSteps
<1> QED  BY <1>1

\* LuaPacket::WriteInt128.
LEMMA WritePackedGrows ==
  ASSUME NEW b \in Buffer, NEW low \in Word, NEW high \in Word
  PROVE  Grown(b, WritePacked(b, low, high))
<1> DEFINE c == Append_(b, <<Mask(low)>>)
           d == Append_(c, <<Mask(high)>>)
           e == WriteString(d, Packed(low))
           f == WriteString(e, Packed(high))
<1>1. <<Mask(low)>> \in Seq(Byte) /\ <<Mask(high)>> \in Seq(Byte)
  BY MaskIsByte
<1>2. Packed(low) \in Seq(Byte) /\ Packed(high) \in Seq(Byte)
  BY PackedIsBytes
<1>3. WritePacked(b, low, high) = f
  BY DEF WritePacked
<1>4. Grown(b, c)
  BY <1>1, AppendIs
<1>5. c \in Buffer
  BY <1>4 DEF Grown
<1>6. Grown(c, d)
  <2> HIDE DEF c
  <2> QED  BY <1>1, <1>5, AppendIs
<1>7. d \in Buffer
  BY <1>6 DEF Grown
<1>8. Grown(d, e)
  <2> HIDE DEF d
  <2> QED  BY <1>2, <1>7, WriteStringGrows
<1>9. e \in Buffer
  BY <1>8 DEF Grown
<1>10. Grown(e, f)
  <2> HIDE DEF e
  <2> QED  BY <1>2, <1>9, WriteStringGrows
<1> HIDE DEF c, d, e, f
<1>11. Grown(b, d)
  BY <1>4, <1>6, GrownTransitive
<1>12. Grown(b, e)
  BY <1>11, <1>8, GrownTransitive
<1>13. Grown(b, f)
  BY <1>12, <1>10, GrownTransitive
<1> QED  BY <1>13, <1>3

-----------------------------------------------------------------------------
(* Reads.                                                                  *)

\* What a read does: x is b with another read position, which is not moved beyond the
\* end of the buffer, and with other bits in progress.
ReadFrom(b, x) ==
  /\ x \in Buffer
  /\ x.storage = b.storage
  /\ x.wpos = b.wpos
  /\ x.rpos = b.rpos \/ x.rpos <= Size(b)

\* Nothing read is a read of nothing, and two reads are a read.
LEMMA ReadFromReflexive ==
  ASSUME NEW b \in Buffer
  PROVE  ReadFrom(b, b)
BY DEF ReadFrom

\* Two reads are a read.
LEMMA ReadFromTransitive ==
  ASSUME NEW b, NEW x, NEW y, ReadFrom(b, x), ReadFrom(x, y)
  PROVE  ReadFrom(b, y)
BY DEF ReadFrom, Size

\* What a read of the buffer b yields: a value of V, or nothing when it throws.
ResultOf(b, V) ==
  {r \in [buf : Buffer, ok : BOOLEAN, value : V \cup {0}] :
     ReadFrom(b, r.buf) /\ IF r.ok THEN r.value \in V ELSE r.value = 0}

\* A read that returns.
LEMMA ReturnedIs ==
  ASSUME NEW b, NEW V, NEW x, ReadFrom(b, x), NEW v \in V
  PROVE  Returned(x, v) \in ResultOf(b, V)
BY DEF Returned, ResultOf, ReadFrom

\* A read that throws.
LEMMA ThrownIs ==
  ASSUME NEW b, NEW V, NEW x, ReadFrom(b, x)
  PROVE  Thrown(x) \in ResultOf(b, V)
BY DEF Thrown, ResultOf, ReadFrom

\* A read of what a read has left.
LEMMA ResultLater ==
  ASSUME NEW b, NEW V, NEW W, NEW x, ReadFrom(b, x), NEW r \in ResultOf(x, V),
         \A v \in V : v \in W
  PROVE  r \in ResultOf(b, W)
<1>1. r \in [buf : Buffer, ok : BOOLEAN, value : V \cup {0}]
  BY DEF ResultOf
<1>2. r \in [buf : Buffer, ok : BOOLEAN, value : W \cup {0}]
  BY <1>1
<1>3. ReadFrom(b, r.buf)
  BY ReadFromTransitive DEF ResultOf
<1> QED  BY <1>2, <1>3 DEF ResultOf

\* When the later one throws, what it would have yielded does not matter.
LEMMA ThrownLater ==
  ASSUME NEW b, NEW V, NEW W, NEW x, ReadFrom(b, x), NEW r \in ResultOf(x, V), ~r.ok
  PROVE  r \in ResultOf(b, W)
<1>1. r \in [buf : Buffer, ok : BOOLEAN, value : V \cup {0}] /\ r.value = 0
  BY DEF ResultOf
<1>2. r \in [buf : Buffer, ok : BOOLEAN, value : W \cup {0}]
  BY <1>1
<1>3. ReadFrom(b, r.buf)
  BY ReadFromTransitive DEF ResultOf
<1> QED  BY <1>1, <1>2, <1>3 DEF ResultOf

\* What the buffer of a result is.
LEMMA ResultReads ==
  ASSUME NEW b, NEW V, NEW r \in ResultOf(b, V)
  PROVE  r.buf \in Buffer /\ ReadFrom(b, r.buf) /\ (r.ok => r.value \in V) /\ r.ok \in BOOLEAN
BY DEF ResultOf

\* ResetBitPos.
LEMMA ResetBitPosReads ==
  ASSUME NEW b \in Buffer
  PROVE  ReadFrom(b, ResetBitPos(b)) /\ ResetBitPos(b).rpos = b.rpos
<1> DEFINE x == [b EXCEPT !.bitpos = InitialBitPos, !.cur = 0]
<1>1. InitialBitPos \in 0..SizeMax /\ 0 \in Byte
  BY SizeMaxIsLarge DEF InitialBitPos, Byte
<1>2. x \in Buffer /\ x.storage = b.storage /\ x.wpos = b.wpos /\ x.rpos = b.rpos
  BY <1>1 DEF Buffer
<1>3. ResetBitPos(b) = b \/ ResetBitPos(b) = x
  BY DEF ResetBitPos
<1> HIDE DEF x
<1> QED  BY <1>2, <1>3 DEF ReadFrom

\* The bytes of a string of n of them.
Bytes(n) == {s \in Seq(Byte) : Len(s) = n}

\* read<T>().
LEMMA ReadIs ==
  ASSUME NEW b \in Buffer, NEW n \in Nat
  PROVE  Read(b, n) \in ResultOf(b, Bytes(n))
<1> DEFINE r == ResetBitPos(b)
           end == Sum(r.rpos, n)
           x == [r EXCEPT !.rpos = @ + n]
           s == SubSeq(r.storage, r.rpos + 1, r.rpos + n)
           y == [r EXCEPT !.rpos = end]
           far == [i \in 1..n |-> Outside]
<1>1. Read(b, n) = IF end > Size(r) THEN Thrown(r)
                   ELSE IF r.rpos + n > Size(r) THEN Returned(y, far) ELSE Returned(x, s)
  BY DEF Read
<1>2. ReadFrom(b, r)
  BY ResetBitPosReads
<1> HIDE DEF r
<1>3. r \in Buffer /\ r.storage \in Seq(Byte) /\ r.rpos \in Nat /\ Size(r) = Len(r.storage)
  BY <1>2 DEF ReadFrom, Buffer, Size
<1>0. end \in Nat /\ end <= r.rpos + n
  BY <1>3, SumIs
<1> HIDE DEF end
<1>4. CASE end > Size(r)
  BY <1>1, <1>2, <1>4, ThrownIs
<1>6. CASE ~(end > Size(r)) /\ r.rpos + n > Size(r)
  <2>1. y \in Buffer /\ y.storage = r.storage /\ y.wpos = r.wpos /\ y.rpos = end
    BY <1>3, <1>0 DEF Buffer
  <2>2. far \in Seq(Byte) /\ Len(far) = n
    BY SizeAssumption
  <2> HIDE DEF y, far
  <2>3. far \in Bytes(n)
    BY <2>2 DEF Bytes
  <2>4. end <= Size(r)
    BY <1>0, <1>3, <1>6
  <2>5. ReadFrom(r, y)
    BY <2>1, <2>4 DEF ReadFrom
  <2>6. ReadFrom(b, y)
    BY <1>2, <2>5, ReadFromTransitive
  <2> QED  BY <1>1, <1>6, <2>3, <2>6, ReturnedIs
<1>5. CASE ~(r.rpos + n > Size(r))
  <2>0. ~(end > Size(r))
    BY <1>0, <1>3, <1>5
  <2>1. r.rpos + n \in Nat /\ r.rpos + n <= Size(r)
    BY <1>3, <1>5
  <2>2. x \in Buffer /\ x.storage = r.storage /\ x.wpos = r.wpos /\ x.rpos = r.rpos + n
    BY <1>3, <2>1 DEF Buffer
  <2>3. ReadFrom(r, x)
    BY <2>1, <2>2 DEF ReadFrom
  <2>4. \A i \in r.rpos + 1 .. r.rpos + n : r.storage[i] \in Byte
    BY <1>3, <2>1
  <2>5. r.rpos + 1 \in Int /\ r.rpos + n \in Int
    BY <1>3
  <2>6. s \in Seq(Byte)
        /\ Len(s) = IF r.rpos + 1 <= r.rpos + n THEN (r.rpos + n) - (r.rpos + 1) + 1 ELSE 0
    BY <2>4, <2>5, SubSeqProperties
  <2> HIDE DEF s, x
  <2>7. s \in Bytes(n)
    BY <1>3, <2>6 DEF Bytes
  <2>8. ReadFrom(b, x)
    BY <1>2, <2>3, ReadFromTransitive
  <2> QED  BY <1>1, <1>5, <2>0, <2>7, <2>8, ReturnedIs
<1> QED  BY <1>4, <1>5, <1>6

\* operator>>(float), operator>>(double).
LEMMA ReadFloatIs ==
  ASSUME NEW b \in Buffer, NEW n \in Nat
  PROVE  ReadFloat(b, n) \in ResultOf(b, Bytes(n))
<1> DEFINE r == Read(b, n)
<1>1. r \in ResultOf(b, Bytes(n))
  BY ReadIs
<1>2. ReadFloat(b, n) = Thrown(r.buf) \/ ReadFloat(b, n) = r
  BY DEF ReadFloat
<1> HIDE DEF r
<1>3. ReadFrom(b, r.buf)
  BY <1>1, ResultReads
<1>4. Thrown(r.buf) \in ResultOf(b, Bytes(n))
  BY <1>3, ThrownIs
<1> QED  BY <1>1, <1>2, <1>4

\* ReadBit, also where it throws with a count that has become too high.
LEMMA ReadBitIs ==
  ASSUME NEW b \in Buffer
  PROVE  ReadBit(b) \in ResultOf(b, {0, 1})
<1> DEFINE c == [b EXCEPT !.bitpos = Incremented(@)]
           r == Read(c, 1)
           d == [r.buf EXCEPT !.bitpos = 0, !.cur = r.value[1]]
<1>1. Incremented(b.bitpos) \in 0..SizeMax
  BY CountsWrap DEF Buffer
<1>2. c \in Buffer /\ c.storage = b.storage /\ c.wpos = b.wpos /\ c.rpos = b.rpos
  BY <1>1 DEF Buffer
<1>3. ReadFrom(b, c)
  BY <1>2 DEF ReadFrom
<1>4. ReadBit(b) = IF c.bitpos <= 7 THEN Returned(c, BitOf(c.cur, 7 - c.bitpos))
                   ELSE IF ~r.ok THEN r ELSE Returned(d, BitOf(r.value[1], 7))
  BY DEF ReadBit
<1>5. c.bitpos \in Nat /\ c.cur \in Byte
  BY <1>2, SizeMaxIsLarge DEF Buffer
<1> HIDE DEF c
<1>6. CASE c.bitpos <= 7
  <2>1. 7 - c.bitpos \in 0..7
    BY <1>5, <1>6
  <2>2. BitOf(c.cur, 7 - c.bitpos) \in {0, 1}
    BY <1>5, <2>1, SetBitIsByte
  <2> QED  BY <1>3, <1>4, <1>6, <2>2, ReturnedIs
<1>7. CASE ~(c.bitpos <= 7)
  <2>1. r \in ResultOf(c, Bytes(1))
    BY <1>2, ReadIs
  <2> HIDE DEF r
  <2>2. r.buf \in Buffer /\ ReadFrom(c, r.buf) /\ (r.ok => r.value \in Bytes(1))
    BY <2>1, ResultReads
  <2>3. ReadFrom(b, r.buf)
    BY <1>3, <2>2, ReadFromTransitive
  <2>4. CASE ~r.ok
    <3>1. ReadBit(b) = r
      BY <1>4, <1>7, <2>4
    <3> QED  BY <3>1, <2>1, <2>4, <1>3, ThrownLater
  <2>5. CASE r.ok
    <3>1. r.value[1] \in Byte
      BY <2>2, <2>5 DEF Bytes
    <3>2. 0 \in 0..SizeMax
      BY SizeMaxIsLarge
    <3>3. d \in Buffer /\ d.storage = r.buf.storage /\ d.wpos = r.buf.wpos /\ d.rpos = r.buf.rpos
      BY <2>2, <3>1, <3>2 DEF Buffer
    <3> HIDE DEF d
    <3>4. ReadFrom(b, d)
      BY <2>3, <3>3 DEF ReadFrom
    <3>5. 7 \in 0..7
      OBVIOUS
    <3>6. BitOf(r.value[1], 7) \in {0, 1}
      BY <3>1, <3>5, SetBitIsByte
    <3>7. ReadBit(b) = Returned(d, BitOf(r.value[1], 7))
      BY <1>4, <1>7, <2>5
    <3> QED  BY <3>4, <3>6, <3>7, ReturnedIs
  <2> QED  BY <2>4, <2>5
<1> QED  BY <1>6, <1>7

\* One more bit.
BitRead(r) ==
  LET next == ReadBit(r.buf)
  IN  IF ~r.ok THEN r
      ELSE IF ~next.ok THEN next
      ELSE Returned(next.buf, 2 * r.value + next.value)

\* ReadBits, bit by bit.
LEMMA ReadBitsSteps ==
  ASSUME NEW b \in Buffer, NEW n \in Nat
  PROVE  \E a \in [0..n -> ResultOf(b, Nat)] :
           /\ a[0] = Returned(b, 0)
           /\ \A i \in 1..n : a[i] = BitRead(a[i - 1])
           /\ a[n] = ReadBits(b, n)
<1> DEFINE after[i \in 0..n] ==
             IF i = 0 THEN Returned(b, 0) ELSE BitRead(after[i - 1])
           S == ResultOf(b, Nat)
           step == [i \in 1..n |-> [x \in S |-> BitRead(x)]]
<1>1. ReadBits(b, n) = after[n]
  BY DEF ReadBits, BitRead
<1>2. Returned(b, 0) \in S
  BY ReadFromReflexive, ReturnedIs
<1>3. ASSUME NEW i \in 1..n, NEW x \in S PROVE BitRead(x) \in S
  <2>1. x.buf \in Buffer /\ ReadFrom(b, x.buf) /\ x.ok \in BOOLEAN /\ (x.ok => x.value \in Nat)
    BY ResultReads
  <2> DEFINE next == ReadBit(x.buf)
  <2>2. next \in ResultOf(x.buf, {0, 1})
    BY <2>1, ReadBitIs
  <2>3. BitRead(x) = IF ~x.ok THEN x ELSE IF ~next.ok THEN next
                  ELSE Returned(next.buf, 2 * x.value + next.value)
    BY DEF BitRead
  <2> HIDE DEF next
  <2>4. next.buf \in Buffer /\ ReadFrom(x.buf, next.buf) /\ (next.ok => next.value \in {0, 1})
    BY <2>2, ResultReads
  <2>5. ReadFrom(b, next.buf)
    BY <2>1, <2>4, ReadFromTransitive
  <2>6. CASE ~x.ok
    BY <2>3, <2>6
  <2>7. CASE x.ok /\ ~next.ok
    <3>1. next \in ResultOf(b, Nat)
      BY <2>1, <2>2, <2>7, ThrownLater
    <3> QED  BY <3>1, <2>3, <2>7
  <2>8. CASE x.ok /\ next.ok
    <3>1. 2 * x.value + next.value \in Nat
      BY <2>1, <2>4, <2>8
    <3>2. Returned(next.buf, 2 * x.value + next.value) \in ResultOf(b, Nat)
      BY <3>1, <2>5, ReturnedIs
    <3> QED  BY <3>2, <2>3, <2>8
  <2> QED  BY <2>6, <2>7, <2>8
<1> HIDE DEF S
<1>4. step \in [1..n -> [S -> S]]
  BY <1>3
<1>5. \A i \in 1..n, x \in S : step[i][x] = BitRead(x)
  OBVIOUS
<1>6. after = CHOOSE g : g = [i \in 0..n |-> IF i = 0 THEN Returned(b, 0) ELSE BitRead(g[i - 1])]
  BY DEF after
<1> HIDE DEF step, after
<1>7. PICK g : Chain(g, n, S, Returned(b, 0), step)
  BY <1>2, <1>4, ChainExists
<1>8. ASSUME NEW i \in 0..n
      PROVE  g[i] = IF i = 0 THEN Returned(b, 0) ELSE BitRead(g[i - 1])
  <2>1. CASE i = 0
    BY <2>1, <1>7 DEF Chain
  <2>2. CASE i # 0
    <3>1. i \in 1..n /\ i - 1 \in 0..n
      BY <2>2
    <3>2. g[i - 1] \in S
      BY <3>1, <1>7 DEF Chain
    <3>3. g[i] = step[i][g[i - 1]]
      BY <3>1, <1>7 DEF Chain
    <3>4. step[i][g[i - 1]] = BitRead(g[i - 1])
      BY <3>1, <3>2, <1>5
    <3> QED  BY <3>3, <3>4, <2>2
  <2> QED  BY <2>1, <2>2
<1>9. g = [i \in 0..n |-> IF i = 0 THEN Returned(b, 0) ELSE BitRead(g[i - 1])]
  BY <1>7, <1>8 DEF Chain
<1>10. after = [i \in 0..n |-> IF i = 0 THEN Returned(b, 0) ELSE BitRead(after[i - 1])]
  BY <1>6, <1>9
<1>11. after[0] = Returned(b, 0)
  <2>1. 0 \in 0..n
    OBVIOUS
  <2> QED  BY <1>10, <2>1
<1>12. ASSUME NEW i \in 1..n PROVE after[i] = BitRead(after[i - 1])
  <2>1. i \in 0..n /\ i # 0
    OBVIOUS
  <2> QED  BY <1>10, <2>1
<1>13. \A i \in 1..n : after[i - 1] \in S => after[i] \in S
  BY <1>12, <1>3
<1>14. \A i \in 0..n : after[i] \in S
  BY <1>2, <1>11, <1>13, ChainStays
<1>15. after \in [0..n -> S]
  BY <1>10, <1>14
<1> QED  BY <1>1, <1>11, <1>12, <1>15 DEF S

\* ReadBits, however many bits there are.
LEMMA ReadBitsIs ==
  ASSUME NEW b \in Buffer, NEW n \in Nat
  PROVE  ReadBits(b, n) \in ResultOf(b, Nat)
<1>1. PICK a \in [0..n -> ResultOf(b, Nat)] : a[n] = ReadBits(b, n)
  BY ReadBitsSteps
<1>2. n \in 0..n
  OBVIOUS
<1> QED  BY <1>1, <1>2

\* ReadString.
LEMMA ReadStringIs ==
  ASSUME NEW b \in Buffer, NEW n \in Nat
  PROVE  ReadString(b, n) \in ResultOf(b, Seq(Byte))
<1>1. ReadFrom(b, b)
  BY ReadFromReflexive
<1>2. Thrown(b) \in ResultOf(b, Seq(Byte)) /\ Returned(b, <<>>) \in ResultOf(b, Seq(Byte))
  <2>1. <<>> \in Seq(Byte)
    OBVIOUS
  <2> QED  BY <2>1, <1>1, ThrownIs, ReturnedIs
<1>3. Read(b, n) \in ResultOf(b, Seq(Byte))
  <2>1. \A v \in Bytes(n) : v \in Seq(Byte)
    BY DEF Bytes
  <2> QED  BY <2>1, <1>1, ReadIs, ResultLater
<1> QED  BY <1>2, <1>3 DEF ReadString

\* operator>>(std::string).
LEMMA ReadCStringIs ==
  ASSUME NEW b \in Buffer
  PROVE  ReadCString(b) \in ResultOf(b, Seq(Byte))
<1> DEFINE rest == SubSeq(b.storage, b.rpos + 1, Size(b))
           zeros == {i \in 1..Len(rest) : rest[i] = 0}
           first == CHOOSE i \in zeros : \A j \in zeros : i <= j
           text == SubSeq(rest, 1, first - 1)
<1>1. ReadFrom(b, b)
  BY ReadFromReflexive
<1>2. ReadCString(b) = IF b.rpos >= Size(b) THEN Returned(b, <<>>)
                       ELSE IF zeros = {} THEN Read(b, Len(rest))
                       ELSE Returned(Read(b, first).buf, text)
  BY DEF ReadCString
<1>3. b.storage \in Seq(Byte) /\ b.rpos \in Nat /\ Size(b) = Len(b.storage)
  BY DEF Buffer, Size
<1>4. rest \in Seq(Byte)
  <2>1. \A i \in b.rpos + 1 .. Size(b) : b.storage[i] \in Byte
    BY <1>3
  <2>2. b.rpos + 1 \in Int /\ Size(b) \in Int
    BY <1>3
  <2> QED  BY <2>1, <2>2, SubSeqProperties
<1> HIDE DEF rest
<1>5. CASE b.rpos >= Size(b)
  <2>1. <<>> \in Seq(Byte)
    OBVIOUS
  <2> QED  BY <2>1, <1>1, <1>2, <1>5, ReturnedIs
<1>6. CASE ~(b.rpos >= Size(b)) /\ zeros = {}
  <2>1. \A v \in Bytes(Len(rest)) : v \in Seq(Byte)
    BY DEF Bytes
  <2>2. Len(rest) \in Nat
    BY <1>4
  <2>3. Read(b, Len(rest)) \in ResultOf(b, Seq(Byte))
    BY <2>1, <2>2, <1>1, ReadIs, ResultLater
  <2> QED  BY <2>3, <1>2, <1>6
<1>7. CASE ~(b.rpos >= Size(b)) /\ zeros # {}
  <2>1. zeros \in SUBSET Nat
    BY <1>4
  <2>2. \E i \in zeros : \A j \in zeros : i <= j
    BY <2>1, <1>7, NatMin
  <2>3. first \in zeros
    BY <2>2
  <2>4. first \in 1..Len(rest) /\ Len(rest) \in Nat
    BY <2>3, <1>4
  <2> HIDE DEF first, zeros
  <2>5. first \in Nat
    BY <2>4
  <2>6. Read(b, first) \in ResultOf(b, Bytes(first))
    BY <2>5, ReadIs
  <2>7. ReadFrom(b, Read(b, first).buf)
    BY <2>6, ResultReads
  <2>8. \A i \in 1 .. first - 1 : rest[i] \in Byte
    BY <1>4, <2>4
  <2>9. 1 \in Int /\ first - 1 \in Int
    BY <2>5
  <2>10. text \in Seq(Byte)
    BY <2>8, <2>9, SubSeqProperties
  <2> HIDE DEF text
  <2> QED  BY <2>7, <2>10, <1>2, <1>7, ReturnedIs
<1> QED  BY <1>5, <1>6, <1>7

\* One more byte of a number that is packed.
ByteRead(mask, r, i) ==
  LET next == Read(r.buf, 1)
  IN  IF ~r.ok THEN r
      ELSE IF BitOf(mask, i - 1) = 0 THEN Returned(r.buf, Append(r.value, 0))
      ELSE IF ~next.ok THEN next
      ELSE Returned(next.buf, Append(r.value, next.value[1]))

\* ReadPackedUInt64, byte by byte.
LEMMA ReadPackedSteps ==
  ASSUME NEW b \in Buffer, NEW mask
  PROVE  \E a \in [0..8 -> ResultOf(b, Seq(Byte))] :
           /\ a[0] = Returned(b, <<>>)
           /\ \A i \in 1..8 : a[i] = ByteRead(mask, a[i - 1], i)
           /\ a[8] = ReadPacked(b, mask)
<1> DEFINE after[i \in 0..8] ==
             IF i = 0 THEN Returned(b, <<>>) ELSE ByteRead(mask, after[i - 1], i)
           S == ResultOf(b, Seq(Byte))
           step == [i \in 1..8 |-> [x \in S |-> ByteRead(mask, x, i)]]
<1>1. ReadPacked(b, mask) = after[8]
  BY DEF ReadPacked, ByteRead
<1>2. Returned(b, <<>>) \in S
  <2>1. <<>> \in Seq(Byte)
    OBVIOUS
  <2> QED  BY <2>1, ReadFromReflexive, ReturnedIs
<1>3. ASSUME NEW i \in 1..8, NEW x \in S PROVE ByteRead(mask, x, i) \in S
  <2>1. x.buf \in Buffer /\ ReadFrom(b, x.buf) /\ x.ok \in BOOLEAN /\ (x.ok => x.value \in Seq(Byte))
    BY ResultReads
  <2> DEFINE next == Read(x.buf, 1)
  <2>2. next \in ResultOf(x.buf, Bytes(1))
    BY <2>1, ReadIs
  <2>3. ByteRead(mask, x, i) = IF ~x.ok THEN x
                     ELSE IF BitOf(mask, i - 1) = 0 THEN Returned(x.buf, Append(x.value, 0))
                     ELSE IF ~next.ok THEN next
                     ELSE Returned(next.buf, Append(x.value, next.value[1]))
    BY DEF ByteRead
  <2> HIDE DEF next
  <2>4. next.buf \in Buffer /\ ReadFrom(x.buf, next.buf) /\ (next.ok => next.value \in Bytes(1))
    BY <2>2, ResultReads
  <2>5. ReadFrom(b, next.buf)
    BY <2>1, <2>4, ReadFromTransitive
  <2>6. CASE ~x.ok
    BY <2>3, <2>6
  <2>7. CASE x.ok /\ BitOf(mask, i - 1) = 0
    <3>1. Append(x.value, 0) \in Seq(Byte)
      BY <2>1, <2>7 DEF Byte
    <3>2. Returned(x.buf, Append(x.value, 0)) \in ResultOf(b, Seq(Byte))
      BY <3>1, <2>1, ReturnedIs
    <3> QED  BY <3>2, <2>3, <2>7
  <2>8. CASE x.ok /\ BitOf(mask, i - 1) # 0 /\ ~next.ok
    <3>1. next \in ResultOf(b, Seq(Byte))
      BY <2>1, <2>2, <2>8, ThrownLater
    <3> QED  BY <3>1, <2>3, <2>8
  <2>9. CASE x.ok /\ BitOf(mask, i - 1) # 0 /\ next.ok
    <3>1. next.value[1] \in Byte
      BY <2>4, <2>9 DEF Bytes
    <3>2. Append(x.value, next.value[1]) \in Seq(Byte)
      BY <3>1, <2>1, <2>9
    <3>3. Returned(next.buf, Append(x.value, next.value[1])) \in ResultOf(b, Seq(Byte))
      BY <3>2, <2>5, ReturnedIs
    <3> QED  BY <3>3, <2>3, <2>9
  <2> QED  BY <2>6, <2>7, <2>8, <2>9
<1> HIDE DEF S
<1>4. step \in [1..8 -> [S -> S]]
  BY <1>3
<1>5. \A i \in 1..8, x \in S : step[i][x] = ByteRead(mask, x, i)
  OBVIOUS
<1>6. after = CHOOSE g : g = [i \in 0..8 |-> IF i = 0 THEN Returned(b, <<>>) ELSE ByteRead(mask, g[i - 1], i)]
  BY DEF after
<1> HIDE DEF step, after
<1>7. PICK g : Chain(g, 8, S, Returned(b, <<>>), step)
  BY <1>2, <1>4, ChainExists
<1>8. ASSUME NEW i \in 0..8
      PROVE  g[i] = IF i = 0 THEN Returned(b, <<>>) ELSE ByteRead(mask, g[i - 1], i)
  <2>1. CASE i = 0
    BY <2>1, <1>7 DEF Chain
  <2>2. CASE i # 0
    <3>1. i \in 1..8 /\ i - 1 \in 0..8
      BY <2>2
    <3>2. g[i - 1] \in S
      BY <3>1, <1>7 DEF Chain
    <3>3. g[i] = step[i][g[i - 1]]
      BY <3>1, <1>7 DEF Chain
    <3>4. step[i][g[i - 1]] = ByteRead(mask, g[i - 1], i)
      BY <3>1, <3>2, <1>5
    <3> QED  BY <3>3, <3>4, <2>2
  <2> QED  BY <2>1, <2>2
<1>9. g = [i \in 0..8 |-> IF i = 0 THEN Returned(b, <<>>) ELSE ByteRead(mask, g[i - 1], i)]
  BY <1>7, <1>8 DEF Chain
<1>10. after = [i \in 0..8 |-> IF i = 0 THEN Returned(b, <<>>) ELSE ByteRead(mask, after[i - 1], i)]
  BY <1>6, <1>9
<1>11. after[0] = Returned(b, <<>>)
  <2>1. 0 \in 0..8
    OBVIOUS
  <2> QED  BY <1>10, <2>1
<1>12. ASSUME NEW i \in 1..8 PROVE after[i] = ByteRead(mask, after[i - 1], i)
  <2>1. i \in 0..8 /\ i # 0
    OBVIOUS
  <2> QED  BY <1>10, <2>1
<1>13. \A i \in 1..8 : after[i - 1] \in S => after[i] \in S
  BY <1>12, <1>3
<1>14. \A i \in 0..8 : after[i] \in S
  BY <1>2, <1>11, <1>13, ChainStays
<1>15. after \in [0..8 -> S]
  BY <1>10, <1>14
<1> QED  BY <1>1, <1>11, <1>12, <1>15 DEF S

\* ReadPackedUInt64, whatever the mask.
LEMMA ReadPackedIs ==
  ASSUME NEW b \in Buffer, NEW mask
  PROVE  ReadPacked(b, mask) \in ResultOf(b, Seq(Byte))
<1>1. PICK a \in [0..8 -> ResultOf(b, Seq(Byte))] : a[8] = ReadPacked(b, mask)
  BY ReadPackedSteps
<1> QED  BY <1>1

\* LuaPacket::ReadInt128.
LEMMA ReadInt128Is ==
  ASSUME NEW b \in Buffer
  PROVE  ReadInt128(b) \in ResultOf(b, Seq(Byte) \X Seq(Byte))
<1> DEFINE V == Seq(Byte) \X Seq(Byte)
           lowMask == Read(b, 1)
           highMask == Read(lowMask.buf, 1)
           low == ReadPacked(highMask.buf, lowMask.value[1])
           high == ReadPacked(low.buf, highMask.value[1])
<1>1. ReadInt128(b) = IF ~lowMask.ok THEN lowMask
                      ELSE IF ~highMask.ok THEN highMask
                      ELSE IF ~low.ok THEN low
                      ELSE IF ~high.ok THEN high
                      ELSE Returned(high.buf, <<low.value, high.value>>)
  BY DEF ReadInt128
<1>2. ReadFrom(b, b)
  BY ReadFromReflexive
<1>3. lowMask \in ResultOf(b, Bytes(1))
  BY ReadIs
<1>4. lowMask.buf \in Buffer /\ ReadFrom(b, lowMask.buf)
  BY <1>3, ResultReads
<1>5. highMask \in ResultOf(lowMask.buf, Bytes(1))
  <2> HIDE DEF lowMask
  <2> QED  BY <1>4, ReadIs
<1>6. highMask.buf \in Buffer /\ ReadFrom(lowMask.buf, highMask.buf)
  BY <1>5, ResultReads
<1>7. low \in ResultOf(highMask.buf, Seq(Byte))
  <2> HIDE DEF lowMask, highMask
  <2> QED  BY <1>6, ReadPackedIs
<1>8. low.buf \in Buffer /\ ReadFrom(highMask.buf, low.buf) /\ (low.ok => low.value \in Seq(Byte))
  BY <1>7, ResultReads
<1>9. high \in ResultOf(low.buf, Seq(Byte))
  <2> HIDE DEF low, highMask
  <2> QED  BY <1>8, ReadPackedIs
<1>10. ReadFrom(low.buf, high.buf) /\ (high.ok => high.value \in Seq(Byte))
  BY <1>9, ResultReads
<1> HIDE DEF lowMask, highMask, low, high
<1>11. ReadFrom(b, highMask.buf)
  BY <1>4, <1>6, ReadFromTransitive
<1>12. ReadFrom(b, low.buf)
  BY <1>8, <1>11, ReadFromTransitive
<1>13. ReadFrom(b, high.buf)
  BY <1>10, <1>12, ReadFromTransitive
<1>14. ~lowMask.ok => lowMask \in ResultOf(b, V)
  BY <1>2, <1>3, ThrownLater
<1>15. ~highMask.ok => highMask \in ResultOf(b, V)
  BY <1>4, <1>5, ThrownLater
<1>16. ~low.ok => low \in ResultOf(b, V)
  BY <1>11, <1>7, ThrownLater
<1>17. ~high.ok => high \in ResultOf(b, V)
  BY <1>12, <1>9, ThrownLater
<1>18. ASSUME low.ok, high.ok PROVE Returned(high.buf, <<low.value, high.value>>) \in ResultOf(b, V)
  <2>1. <<low.value, high.value>> \in V
    BY <1>8, <1>10, <1>18
  <2> HIDE DEF V
  <2> QED  BY <2>1, <1>13, ReturnedIs
<1> HIDE DEF V
<1>19. ReadInt128(b) \in ResultOf(b, V)
  BY <1>1, <1>14, <1>15, <1>16, <1>17, <1>18
<1> QED  BY <1>19 DEF V

\* The values of a dump.
Dumped == Seq(Byte) \cup (Seq(Byte) \X Seq(Byte)) \cup {0, 1}

\* One word of a format, known or not.
LEMMA DumpPartIs ==
  ASSUME NEW b \in Buffer, NEW part
  PROVE  DumpPart(b, part) \in ResultOf(b, Dumped)
<1>1. ReadFrom(b, b)
  BY ReadFromReflexive
<1>2. ASSUME NEW n \in Nat
      PROVE  Read(b, n) \in ResultOf(b, Dumped) /\ ReadFloat(b, n) \in ResultOf(b, Dumped)
  <2>1. \A v \in Bytes(n) : v \in Dumped
    BY DEF Bytes, Dumped
  <2> QED  BY <2>1, <1>1, ReadIs, ReadFloatIs, ResultLater
<1>3. ReadInt128(b) \in ResultOf(b, Dumped)
  <2>1. \A v \in Seq(Byte) \X Seq(Byte) : v \in Dumped
    BY DEF Dumped
  <2> QED  BY <2>1, <1>1, ReadInt128Is, ResultLater
<1>4. ReadBit(b) \in ResultOf(b, Dumped)
  <2>1. \A v \in {0, 1} : v \in Dumped
    BY DEF Dumped
  <2> QED  BY <2>1, <1>1, ReadBitIs, ResultLater
<1>5. Thrown(b) \in ResultOf(b, Dumped) /\ Returned(b, 0) \in ResultOf(b, Dumped)
  <2>1. 0 \in Dumped
    BY DEF Dumped
  <2> QED  BY <2>1, <1>1, ThrownIs, ReturnedIs
<1>6. /\ Read(b, 1) \in ResultOf(b, Dumped)
      /\ Read(b, 2) \in ResultOf(b, Dumped)
      /\ Read(b, 4) \in ResultOf(b, Dumped)
      /\ Read(b, 8) \in ResultOf(b, Dumped)
      /\ ReadFloat(b, 4) \in ResultOf(b, Dumped)
      /\ ReadFloat(b, 8) \in ResultOf(b, Dumped)
  <2>1. 1 \in Nat /\ 2 \in Nat /\ 4 \in Nat /\ 8 \in Nat
    OBVIOUS
  <2> QED  BY <2>1, <1>2
<1> QED  BY <1>3, <1>4, <1>5, <1>6 DEF DumpPart

\* The words of a format are a read together, whatever they are.
LEMMA DumpPartsIs ==
  ASSUME NEW b \in Buffer, NEW format, Len(format) \in Nat
  PROVE  DumpParts(b, format) \in ResultOf(b, Dumped)
<1> DEFINE n == Len(format)
<1> DEFINE Step(r, i) == IF r.ok THEN DumpPart(r.buf, format[i]) ELSE r
<1> DEFINE after[i \in 0..n] ==
             IF i = 0 THEN Returned(b, 0) ELSE Step(after[i - 1], i)
           S == ResultOf(b, Dumped)
           step == [i \in 1..n |-> [x \in S |-> Step(x, i)]]
<1>1. DumpParts(b, format) = after[n]
  BY DEF DumpParts
<1> HIDE DEF n
<1> n \in Nat
  BY DEF n
<1>2. Returned(b, 0) \in S
  <2>1. 0 \in Dumped
    BY DEF Dumped
  <2> QED  BY <2>1, ReadFromReflexive, ReturnedIs
<1>3. ASSUME NEW i \in 1..n, NEW x \in S PROVE Step(x, i) \in S
  <2>1. x.buf \in Buffer /\ ReadFrom(b, x.buf) /\ x.ok \in BOOLEAN
    BY ResultReads
  <2> DEFINE next == DumpPart(x.buf, format[i])
  <2>2. next \in ResultOf(x.buf, Dumped)
    BY <2>1, DumpPartIs
  <2>3. Step(x, i) = IF x.ok THEN next ELSE x
    OBVIOUS
  <2> HIDE DEF next, Step
  <2>4. next \in ResultOf(b, Dumped)
    BY <2>1, <2>2, ResultLater
  <2> QED  BY <2>3, <2>4
<1> HIDE DEF S, Step
<1>4. step \in [1..n -> [S -> S]]
  BY <1>3
<1>5. \A i \in 1..n, x \in S : step[i][x] = Step(x, i)
  OBVIOUS
<1>6. after = CHOOSE g : g = [i \in 0..n |-> IF i = 0 THEN Returned(b, 0) ELSE Step(g[i - 1], i)]
  BY DEF after
<1> HIDE DEF step, after
<1>7. PICK g : Chain(g, n, S, Returned(b, 0), step)
  BY <1>2, <1>4, ChainExists
<1>8. ASSUME NEW i \in 0..n
      PROVE  g[i] = IF i = 0 THEN Returned(b, 0) ELSE Step(g[i - 1], i)
  <2>1. CASE i = 0
    BY <2>1, <1>7 DEF Chain
  <2>2. CASE i # 0
    <3>1. i \in 1..n /\ i - 1 \in 0..n
      BY <2>2
    <3>2. g[i - 1] \in S
      BY <3>1, <1>7 DEF Chain
    <3>3. g[i] = step[i][g[i - 1]]
      BY <3>1, <1>7 DEF Chain
    <3>4. step[i][g[i - 1]] = Step(g[i - 1], i)
      BY <3>1, <3>2, <1>5
    <3> QED  BY <3>3, <3>4, <2>2
  <2> QED  BY <2>1, <2>2
<1>9. g = [i \in 0..n |-> IF i = 0 THEN Returned(b, 0) ELSE Step(g[i - 1], i)]
  BY <1>7, <1>8 DEF Chain
<1>10. after = [i \in 0..n |-> IF i = 0 THEN Returned(b, 0) ELSE Step(after[i - 1], i)]
  BY <1>6, <1>9
<1>11. after[0] \in S
  <2>1. 0 \in 0..n
    OBVIOUS
  <2>2. after[0] = Returned(b, 0)
    BY <1>10, <2>1
  <2> QED  BY <2>2, <1>2
<1>12. ASSUME NEW i \in 1..n, after[i - 1] \in S PROVE after[i] \in S
  <2>1. i \in 0..n /\ i # 0
    OBVIOUS
  <2>2. after[i] = Step(after[i - 1], i)
    BY <1>10, <2>1
  <2> QED  BY <2>2, <1>3, <1>12
<1>13. \A i \in 0..n : after[i] \in S
  BY <1>11, <1>12, ChainStays
<1>14. n \in 0..n
  OBVIOUS
<1> QED  BY <1>1, <1>13, <1>14 DEF S

-----------------------------------------------------------------------------
(* The inductive invariant: that the types hold and that a changed packet  *)
(* is marked, with what TypeOK leaves open about the ghost variable.       *)

ItemKinds == {"number", "packed", "string", "cstring", "bits", "flush", "unmatched"}

\* A run of writes.
Runs == [clean : BOOLEAN, start : Nat, items : Seq([kind : ItemKinds, value : ItemValue])]

IInv ==
  /\ TypeOK
  /\ written \in Runs
  /\ ChangedIsSound

\* What WritesInPlace and ReadsInside say of a step.
WriteStep ==
  last' = "write" =>
       /\ Size(buf') >= Size(buf)
       /\ \A i \in 1..Size(buf) :
            i <= buf.wpos \/ i > buf'.wpos => buf'.storage[i] = buf.storage[i]
ReadStep ==
  /\ last' = "read" => buf'.rpos = buf.rpos \/ buf'.rpos <= Size(buf)
  /\ last' = "dump" => buf'.rpos \in {buf.rpos, OpcodeSize} \/ buf'.rpos <= Size(buf)

Good == IInv' /\ WriteStep /\ ReadStep

\* A run that begins.
LEMMA FreshIs ==
  ASSUME NEW b \in Buffer
  PROVE  Fresh(b) \in Runs /\ Len(Fresh(b).items) <= MaxItems
<1>1. b.wpos \in Nat /\ MaxItems \in Nat
  BY BoundsAssumption DEF Buffer
<1>2. <<>> \in Seq([kind : ItemKinds, value : ItemValue]) /\ Len(<<>>) = 0
  OBVIOUS
<1>3. Fresh(b) \in Runs
  BY <1>1, <1>2 DEF Fresh, Forgotten, Runs
<1>4. Fresh(b).items = <<>>
  BY DEF Fresh, Forgotten
<1> QED  BY <1>1, <1>2, <1>3, <1>4

\* A run that goes on.
LEMMA ExtendedIs ==
  ASSUME NEW run \in Runs, NEW item \in [kind : ItemKinds, value : ItemValue]
  PROVE  Extended(run, item) \in Runs /\ Len(Extended(run, item).items) <= MaxItems
<1> DEFINE I == [kind : ItemKinds, value : ItemValue]
           more == Append(run.items, item)
<1>1. run.items \in Seq(I) /\ MaxItems \in Nat /\ Len(run.items) \in Nat
  BY BoundsAssumption DEF Runs
<1>2. more \in Seq(I) /\ Len(more) = Len(run.items) + 1
  BY <1>1
<1> HIDE DEF more, I
<1>3. CASE run.clean /\ Len(run.items) < MaxItems /\ item.kind # "unmatched"
  <2>1. Extended(run, item) = [run EXCEPT !.items = more]
    BY <1>3 DEF Extended, more, Runs
  <2>2. run \in [clean : BOOLEAN, start : Nat, items : Seq(I)]
    BY DEF Runs, I
  <2>3. [run EXCEPT !.items = more] \in [clean : BOOLEAN, start : Nat, items : Seq(I)]
        /\ [run EXCEPT !.items = more].items = more
    BY <2>2, <1>2
  <2>4. Len(more) <= MaxItems
    BY <1>1, <1>2, <1>3
  <2> QED  BY <2>1, <2>3, <2>4 DEF Runs, I
<1>4. CASE ~(run.clean /\ Len(run.items) < MaxItems /\ item.kind # "unmatched")
  <2>1. Extended(run, item) = Forgotten
    BY <1>4 DEF Extended
  <2>2. Forgotten \in Runs
    BY DEF Forgotten, Runs
  <2>3. Len(Forgotten.items) = 0
    BY DEF Forgotten
  <2> QED  BY <2>1, <2>2, <2>3, <1>1
<1> QED  BY <1>3, <1>4

\* What the invariant says of the buffer.
LEMMA BufferIs ==
  ASSUME IInv
  PROVE  /\ buf \in Buffer
         /\ buf.storage \in Seq(Byte) /\ buf.storage # <<>>
         /\ Size(buf) \in Nat /\ Size(buf) > 0
         /\ buf.wpos \in Nat /\ buf.rpos \in Nat
<1>1. buf \in Buffer /\ buf.storage # <<>>
  BY DEF IInv, TypeOK
<1>2. buf.storage \in Seq(Byte) /\ buf.wpos \in Nat /\ buf.rpos \in Nat
  BY <1>1 DEF Buffer
<1> QED  BY <1>1, <1>2 DEF Size

CallKinds == {"none", "write", "read", "dump", "seek", "edit", "ended"}

\* The number of calls.
LEMMA CalledIs ==
  ASSUME IInv, NEW kind \in CallKinds, Called(kind)
  PROVE  calls' \in 0..MaxCalls /\ last' = kind /\ last' \in CallKinds
BY BoundsAssumption DEF IInv, TypeOK, Called, CallKinds

\* A call that ends the program.
LEMMA EndsGood == ASSUME IInv, Ends PROVE Good
<1>1. Called("ended") /\ UNCHANGED <<buf, changed, origin, written>>
  BY DEF Ends
<1>2. calls' \in 0..MaxCalls /\ last' = "ended" /\ last' \in CallKinds
  BY <1>1, CalledIs DEF CallKinds
<1>3. TypeOK'
  BY <1>1, <1>2 DEF IInv, TypeOK, CallKinds
<1>4. ChangedIsSound' /\ written' \in Runs
  BY <1>1 DEF IInv, ChangedIsSound
<1>5. WriteStep /\ ReadStep
  BY <1>2 DEF WriteStep, ReadStep
<1> QED  BY <1>3, <1>4, <1>5 DEF Good, IInv

\* Every method that writes.
LEMMA WroteGood ==
  ASSUME IInv, NEW b, Grown(buf, b), NEW item \in [kind : ItemKinds, value : ItemValue],
         Wrote(b, item)
  PROVE  Good
<1>0. CASE Ends
  BY <1>0, EndsGood
<1> SUFFICES ASSUME ~Ends PROVE Good
  BY <1>0
<1>1. Called("write") /\ buf' = b /\ changed' = TRUE /\ written' = Extended(written, item)
      /\ origin' = origin
  BY DEF Wrote
<1>2. calls' \in 0..MaxCalls /\ last' = "write" /\ last' \in CallKinds
  BY <1>1, CalledIs DEF CallKinds
<1>3. written \in Runs
  BY DEF IInv
<1>4. written' \in Runs /\ Len(written'.items) <= MaxItems
  BY <1>1, <1>3, ExtendedIs
<1>5. b \in Buffer /\ b.storage # <<>>
  <2>1. b \in Buffer /\ Size(b) >= Size(buf)
    BY DEF Grown
  <2>2. b.storage \in Seq(Byte) /\ Len(b.storage) > 0
    BY <2>1, BufferIs DEF Buffer, Size
  <2> QED  BY <2>1, <2>2
<1>6. TypeOK'
  <2>1. origin' \in Seq(Byte)
    BY <1>1 DEF IInv, TypeOK
  <2>2. written'.clean \in BOOLEAN /\ written'.start \in Nat
    BY <1>4 DEF Runs
  <2> QED  BY <1>1, <1>2, <1>4, <1>5, <2>1, <2>2 DEF TypeOK, CallKinds
<1>7. ChangedIsSound'
  BY <1>1 DEF ChangedIsSound
<1>8. WriteStep
  BY <1>1 DEF WriteStep, Grown
<1>9. ReadStep
  BY <1>2 DEF ReadStep
<1> QED  BY <1>4, <1>6, <1>7, <1>8, <1>9 DEF Good, IInv

\* What a call that leaves the bytes alone has to satisfy: every method that reads and
\* every one that sets a position.
LEMMA SameBytesGood ==
  ASSUME IInv, NEW b \in Buffer, b.storage = buf.storage, NEW kind \in {"read", "dump", "seek"},
         kind = "read" => b.rpos = buf.rpos \/ b.rpos <= Size(buf),
         kind = "dump" => b.rpos \in {buf.rpos, OpcodeSize} \/ b.rpos <= Size(buf),
         Called(kind), buf' = b, written' = Fresh(b), changed' = changed, origin' = origin
  PROVE  Good
<1>1. calls' \in 0..MaxCalls /\ last' = kind /\ last' \in CallKinds
  BY CalledIs DEF CallKinds
<1>2. written' \in Runs /\ Len(written'.items) <= MaxItems
  BY FreshIs
<1>3. b.storage # <<>>
  BY BufferIs
<1>4. TypeOK'
  <2>1. origin' \in Seq(Byte) /\ changed' \in BOOLEAN
    BY DEF IInv, TypeOK
  <2>2. written'.clean \in BOOLEAN /\ written'.start \in Nat
    BY <1>2 DEF Runs
  <2> QED  BY <1>1, <1>2, <1>3, <2>1, <2>2 DEF TypeOK, CallKinds
<1>5. ChangedIsSound'
  BY DEF ChangedIsSound, IInv
<1>6. WriteStep /\ ReadStep
  BY <1>1 DEF WriteStep, ReadStep
<1> QED  BY <1>2, <1>4, <1>5, <1>6 DEF Good, IInv

\* Every method that reads.
LEMMA WasGood ==
  ASSUME IInv, NEW b, ReadFrom(buf, b), Was("read", b)
  PROVE  Good
<1>1. b \in Buffer /\ b.storage = buf.storage /\ (b.rpos = buf.rpos \/ b.rpos <= Size(buf))
  BY DEF ReadFrom
<1>2. Called("read") /\ buf' = b /\ written' = Fresh(b) /\ changed' = changed /\ origin' = origin
  BY DEF Was
<1> QED  BY <1>1, <1>2, SameBytesGood

\* Every method that sets a position.
LEMMA SoughtGood ==
  ASSUME IInv, NEW b \in Buffer, b.storage = buf.storage, Sought(b)
  PROVE  Good
<1>1. Called("seek") /\ buf' = b /\ written' = Fresh(b) /\ changed' = changed /\ origin' = origin
  BY DEF Sought
<1> QED  BY <1>1, SameBytesGood

\* SetOpcode and Truncate.
LEMMA EditGood ==
  ASSUME IInv, NEW b \in Buffer, b.storage # <<>>,
         Called("edit"), buf' = b, changed' = TRUE, written' = Fresh(buf'), origin' = origin
  PROVE  Good
<1>1. calls' \in 0..MaxCalls /\ last' = "edit" /\ last' \in CallKinds
  BY CalledIs DEF CallKinds
<1>2. written' \in Runs /\ Len(written'.items) <= MaxItems
  BY FreshIs
<1>3. TypeOK'
  <2>1. origin' \in Seq(Byte)
    BY DEF IInv, TypeOK
  <2>2. written'.clean \in BOOLEAN /\ written'.start \in Nat
    BY <1>2 DEF Runs
  <2> QED  BY <1>1, <1>2, <2>1, <2>2 DEF TypeOK, CallKinds
<1>4. ChangedIsSound' /\ WriteStep /\ ReadStep
  BY <1>1 DEF ChangedIsSound, WriteStep, ReadStep
<1> QED  BY <1>2, <1>3, <1>4 DEF Good, IInv

-----------------------------------------------------------------------------
(* The steps.                                                              *)

\* The values that a script writes.
LEMMA ItemIs ==
  ASSUME NEW kind \in ItemKinds, NEW v \in ItemValue
  PROVE  Item(kind, v) \in [kind : ItemKinds, value : ItemValue]
BY DEF Item

\* What no method reads back.
LEMMA UnmatchedIs == Unmatched \in [kind : ItemKinds, value : ItemValue]
BY ItemIs DEF Unmatched, ItemKinds, ItemValue

\* The packet has been made.
LEMMA InitInv == Init => IInv
<1> SUFFICES ASSUME Init PROVE IInv
  OBVIOUS
<1>1. origin \in Seq(Byte) /\ Len(origin) >= 4
  <2>1. origin \in ClientPackets \/ origin \in Opcodes
    BY DEF Init
  <2>2. CASE origin \in ClientPackets
    BY <2>2, ClientAssumption DEF OpcodeSize
  <2>3. CASE origin \in Opcodes
    <3>1. origin \in Seq(Byte) /\ Len(origin) = OpcodeSize
      BY <2>3, InputsAssumption, Zenon
    <3> QED  BY <3>1 DEF OpcodeSize
  <2> QED  BY <2>1, <2>2, <2>3
<1>2. buf = New(origin)
  BY DEF Init
<1>3. 8 \in 0..SizeMax /\ 0 \in Byte
  BY SizeMaxIsLarge DEF Byte
<1>4. buf \in Buffer /\ buf.storage = origin
  BY <1>1, <1>2, <1>3 DEF New, Buffer, OpcodeSize, InitialBitPos
<1>5. buf.storage # <<>>
  BY <1>1, <1>4
<1>6. written \in Runs /\ Len(written.items) <= MaxItems
  BY <1>4, FreshIs DEF Init
<1>7. written.clean \in BOOLEAN /\ written.start \in Nat
  BY <1>6 DEF Runs
<1>8. changed = FALSE /\ calls = 0 /\ last = "none"
  BY Zenon DEF Init
<1>9. changed \in BOOLEAN /\ calls \in 0..MaxCalls /\ last \in CallKinds
  <2>1. changed \in BOOLEAN
    BY <1>8, Zenon
  <2>2. calls \in 0..MaxCalls
    BY <1>8, BoundsAssumption
  <2>3. last \in CallKinds
    BY <1>8, Zenon DEF CallKinds
  <2> QED  BY <2>1, <2>2, <2>3
<1> QED  BY <1>1, <1>4, <1>5, <1>6, <1>7, <1>9 DEF IInv, TypeOK, CallKinds, ChangedIsSound

\* The methods that write.
LEMMA WritingGood == IInv /\ Writing => Good
<1> SUFFICES ASSUME IInv, Writing PROVE Good
  OBVIOUS
<1> buf \in Buffer
  BY BufferIs
<1>1. CASE WriteNumber
  <2>1. PICK n \in Numbers : Wrote(Append_(buf, n), Item("number", n))
    BY <1>1 DEF WriteNumber
  <2>2. n \in Seq(Byte)
    BY InputsAssumption
  <2>3. Grown(buf, Append_(buf, n))
    BY <2>2, AppendIs
  <2>4. Item("number", n) \in [kind : ItemKinds, value : ItemValue]
    BY <2>2, ItemIs DEF ItemKinds, ItemValue
  <2> QED  BY <2>1, <2>3, <2>4, WroteGood
<1>2. CASE WriteBool
  <2>1. PICK v \in Flags : Wrote(Append_(buf, <<IF v = 0 THEN 0 ELSE 1, 0, 0, 0>>), Unmatched)
    BY <1>2 DEF WriteBool
  <2> DEFINE n == <<IF v = 0 THEN 0 ELSE 1, 0, 0, 0>>
  <2>2. n \in Seq(Byte)
    <3>1. (IF v = 0 THEN 0 ELSE 1) \in Byte /\ 0 \in Byte
      BY DEF Byte
    <3> QED  BY <3>1
  <2>3. Wrote(Append_(buf, n), Unmatched)
    BY <2>1
  <2> HIDE DEF n
  <2>4. Grown(buf, Append_(buf, n))
    BY <2>2, AppendIs
  <2> QED  BY <2>3, <2>4, UnmatchedIs, WroteGood
<1>3. CASE WriteInt128
  <2> SUFFICES ASSUME ~Ends PROVE Good
    BY EndsGood
  <2>1. PICK low \in Words, high \in Words :
          Wrote(WritePacked(buf, low, high), Item("packed", <<low, high>>))
    BY <1>3 DEF WriteInt128
  <2>2. low \in Word /\ high \in Word
    BY InputsAssumption
  <2>3. Grown(buf, WritePacked(buf, low, high))
    BY <2>2, WritePackedGrows
  <2>4. Item("packed", <<low, high>>) \in [kind : ItemKinds, value : ItemValue]
    BY <2>2, ItemIs DEF ItemKinds, ItemValue
  <2> QED  BY <2>1, <2>3, <2>4, WroteGood
<1>4. CASE WriteText
  <2>1. PICK t \in Texts : Wrote(WriteString(buf, t), Item("string", t))
    BY <1>4 DEF WriteText
  <2>2. t \in Seq(Byte)
    BY InputsAssumption
  <2>3. Grown(buf, WriteString(buf, t))
    BY <2>2, WriteStringGrows
  <2>4. Item("string", t) \in [kind : ItemKinds, value : ItemValue]
    BY <2>2, ItemIs DEF ItemKinds, ItemValue
  <2> QED  BY <2>1, <2>3, <2>4, WroteGood
<1>5. CASE WriteCText
  <2>1. PICK t \in Texts : Wrote(WriteCString(buf, t), Item("cstring", t))
    BY <1>5 DEF WriteCText
  <2>2. t \in Seq(Byte)
    BY InputsAssumption
  <2>3. Grown(buf, WriteCString(buf, t))
    BY <2>2, WriteCStringGrows
  <2>4. Item("cstring", t) \in [kind : ItemKinds, value : ItemValue]
    BY <2>2, ItemIs DEF ItemKinds, ItemValue
  <2> QED  BY <2>1, <2>3, <2>4, WroteGood
<1>6. CASE WriteSomeBits
  <2>1. PICK w \in Bits : Wrote(WriteBits(buf, w[1], w[2]), Item("bits", w))
    BY <1>6 DEF WriteSomeBits
  <2>2. w \in Nat \X Nat /\ w[2] \in Nat
    BY InputsAssumption
  <2>3. Grown(buf, WriteBits(buf, w[1], w[2]))
    BY <2>2, WriteBitsGrows
  <2>4. Item("bits", w) \in [kind : ItemKinds, value : ItemValue]
    BY <2>2, ItemIs DEF ItemKinds, ItemValue
  <2> QED  BY <2>1, <2>3, <2>4, WroteGood
<1>7. CASE WriteSeq
  <2>1. PICK v \in Flags : Wrote(WriteByteSeq(buf, v), Unmatched)
    BY <1>7 DEF WriteSeq
  <2>2. v \in Byte
    BY InputsAssumption
  <2>3. Grown(buf, WriteByteSeq(buf, v))
    BY <2>2, WriteByteSeqGrows
  <2> QED  BY <2>1, <2>3, UnmatchedIs, WroteGood
<1>8. CASE Flush
  <2>1. Wrote(FlushBits(buf), Item("flush", 0))
    BY <1>8 DEF Flush
  <2>2. Grown(buf, FlushBits(buf))
    BY FlushBitsGrows
  <2>3. Item("flush", 0) \in [kind : ItemKinds, value : ItemValue]
    BY ItemIs DEF ItemKinds, ItemValue
  <2> QED  BY <2>1, <2>2, <2>3, WroteGood
<1> QED  BY <1>1, <1>2, <1>3, <1>4, <1>5, <1>6, <1>7, <1>8 DEF Writing

\* The methods that read.
LEMMA ReadingGood == IInv /\ Reading => Good
<1> SUFFICES ASSUME IInv, Reading PROVE Good
  OBVIOUS
<1> buf \in Buffer
  BY BufferIs
<1>0. ASSUME NEW V, NEW r \in ResultOf(buf, V), Was("read", r.buf) PROVE Good
  BY <1>0, ResultReads, WasGood
<1>1. CASE ReadNumber
  <2>1. PICK n \in Widths : Was("read", Read(buf, n).buf)
    BY <1>1 DEF ReadNumber
  <2>2. n \in Nat
    BY DEF Widths
  <2>3. Read(buf, n) \in ResultOf(buf, Bytes(n))
    BY <2>2, ReadIs
  <2> QED  BY <2>1, <2>3, <1>0
<1>2. CASE ReadAFloat
  <2>1. PICK n \in {4, 8} : Was("read", ReadFloat(buf, n).buf)
    BY <1>2 DEF ReadAFloat
  <2>2. n \in Nat
    OBVIOUS
  <2>3. ReadFloat(buf, n) \in ResultOf(buf, Bytes(n))
    BY <2>2, ReadFloatIs
  <2> QED  BY <2>1, <2>3, <1>0
<1>3. CASE ReadAnInt128
  <2>1. ReadInt128(buf) \in ResultOf(buf, Seq(Byte) \X Seq(Byte))
    BY ReadInt128Is
  <2> QED  BY <2>1, <1>3, <1>0 DEF ReadAnInt128
<1>4. CASE ReadText
  <2> SUFFICES ASSUME ~Ends PROVE Good
    BY EndsGood
  <2>1. PICK n \in Positions : Was("read", ReadString(buf, n).buf)
    BY <1>4 DEF ReadText
  <2>2. n \in Nat
    BY InputsAssumption
  <2>3. ReadString(buf, n) \in ResultOf(buf, Seq(Byte))
    BY <2>2, ReadStringIs
  <2> QED  BY <2>1, <2>3, <1>0
<1>5. CASE ReadCText
  <2>1. ReadCString(buf) \in ResultOf(buf, Seq(Byte))
    BY ReadCStringIs
  <2> QED  BY <2>1, <1>5, <1>0 DEF ReadCText
<1>6. CASE ReadSomeBits
  <2>1. PICK w \in Bits : Was("read", ReadBits(buf, w[2]).buf)
    BY <1>6 DEF ReadSomeBits
  <2>2. w[2] \in Nat
    BY InputsAssumption
  <2>3. ReadBits(buf, w[2]) \in ResultOf(buf, Nat)
    BY <2>2, ReadBitsIs
  <2> QED  BY <2>1, <2>3, <1>0
<1>7. CASE ResetBitPosition
  BY <1>7, ResetBitPosReads, WasGood DEF ResetBitPosition
<1>8. CASE \E f \in Formats : Dump(f)
  <2>1. PICK f \in Formats : Dump(f)
    BY <1>8
  <2> DEFINE c == [buf EXCEPT !.rpos = OpcodeSize]
             r == DumpParts(c, f)
             x == [r.buf EXCEPT !.rpos = buf.rpos]
             y == IF f # <<>> /\ r.ok THEN x ELSE r.buf
  <2>2. Was("dump", y)
    BY <2>1 DEF Dump
  <2>3. Len(f) \in Nat
    BY InputsAssumption
  <2>4. c \in Buffer /\ c.storage = buf.storage /\ c.rpos = OpcodeSize
    BY DEF Buffer, OpcodeSize
  <2> HIDE DEF c
  <2>5. r \in ResultOf(c, Dumped)
    BY <2>3, <2>4, DumpPartsIs
  <2>6. r.buf \in Buffer /\ ReadFrom(c, r.buf)
    BY <2>5, ResultReads
  <2> HIDE DEF r
  <2>7. r.buf.storage = buf.storage /\ (r.buf.rpos = OpcodeSize \/ r.buf.rpos <= Size(buf))
    BY <2>4, <2>6 DEF ReadFrom, Size
  <2>8. x \in Buffer /\ x.storage = buf.storage /\ x.rpos = buf.rpos
    BY <2>6, <2>7, BufferIs DEF Buffer
  <2> HIDE DEF x
  <2>9. y \in Buffer /\ y.storage = buf.storage
        /\ (y.rpos \in {buf.rpos, OpcodeSize} \/ y.rpos <= Size(buf))
    BY <2>6, <2>7, <2>8
  <2>10. Called("dump") /\ buf' = y /\ written' = Fresh(y) /\ changed' = changed /\ origin' = origin
    BY <2>2 DEF Was
  <2> HIDE DEF y
  <2> QED  BY <2>9, <2>10, SameBytesGood
<1> QED  BY <1>1, <1>2, <1>3, <1>4, <1>5, <1>6, <1>7, <1>8 DEF Reading

\* The methods that set a position.
LEMMA SeekingGood ==
  IInv /\ (SetReadPosition \/ SetWritePosition \/ SyncReadPosition \/ SyncWritePosition) => Good
<1> SUFFICES ASSUME IInv,
                    SetReadPosition \/ SetWritePosition \/ SyncReadPosition \/ SyncWritePosition
             PROVE  Good
  OBVIOUS
<1>1. buf \in Buffer /\ buf.wpos \in Nat /\ buf.rpos \in Nat
  BY BufferIs
<1>2. ASSUME NEW p \in Nat, Sought([buf EXCEPT !.rpos = p]) PROVE Good
  <2>1. [buf EXCEPT !.rpos = p] \in Buffer /\ [buf EXCEPT !.rpos = p].storage = buf.storage
    BY <1>1 DEF Buffer
  <2> QED  BY <1>2, <2>1, SoughtGood
<1>3. ASSUME NEW p \in Nat, Sought([buf EXCEPT !.wpos = p]) PROVE Good
  <2>1. [buf EXCEPT !.wpos = p] \in Buffer /\ [buf EXCEPT !.wpos = p].storage = buf.storage
    BY <1>1 DEF Buffer
  <2> QED  BY <1>3, <2>1, SoughtGood
<1>4. \A p \in Positions : p \in Nat
  BY InputsAssumption
<1>5. CASE SetReadPosition
  BY <1>2, <1>4, <1>5 DEF SetReadPosition
<1>6. CASE SetWritePosition
  BY <1>3, <1>4, <1>6 DEF SetWritePosition
<1>7. CASE SyncReadPosition
  BY <1>1, <1>2, <1>7 DEF SyncReadPosition
<1>8. CASE SyncWritePosition
  BY <1>1, <1>3, <1>8 DEF SyncWritePosition
<1> QED  BY <1>5, <1>6, <1>7, <1>8

\* SetOpcode: the packet is long enough, or nothing happens.
LEMMA SetOpcodeGood == IInv /\ SetOpcode => Good
<1> SUFFICES ASSUME IInv, SetOpcode PROVE Good
  OBVIOUS
<1>1. PICK o \in Opcodes :
        /\ Put(buf, 0, o).ok
        /\ Called("edit")
        /\ buf' = Put(buf, 0, o).buf
        /\ changed' = TRUE
        /\ written' = Fresh(buf')
        /\ UNCHANGED origin
  BY DEF SetOpcode
<1> DEFINE s == Overlay(buf.storage, 0, o)
           b == [buf EXCEPT !.storage = s]
<1>2. Put(buf, 0, o) = Thrown(buf) \/ Put(buf, 0, o) = Returned(b, 0)
  BY DEF Put
<1>3. buf' = b
  BY <1>1, <1>2 DEF Thrown, Returned
<1>4. buf \in Buffer /\ buf.storage \in Seq(Byte) /\ buf.storage # <<>>
  BY BufferIs
<1>5. o \in Seq(Byte) /\ 0 \in Nat
  BY InputsAssumption
<1>6. s \in Seq(Byte) /\ Len(s) >= Len(buf.storage)
  <2>1. /\ s \in Seq(Byte)
        /\ Len(s) = IF 0 + Len(o) > Len(buf.storage) THEN 0 + Len(o) ELSE Len(buf.storage)
    BY <1>4, <1>5, OverlayIs
  <2> HIDE DEF s
  <2> QED  BY <1>4, <1>5, <2>1
<1> HIDE DEF s
<1>7. b \in Buffer /\ b.storage = s
  BY <1>4, <1>6 DEF Buffer
<1> HIDE DEF b
<1>8. b.storage # <<>>
  BY <1>4, <1>6, <1>7
<1> QED  BY <1>1, <1>3, <1>7, <1>8, EditGood

\* Truncate: at zero nothing happens, so that at least one byte is left.
LEMMA TruncateGood == ASSUME IInv, NEW p \in Positions, Truncate(p) PROVE Good
<1>1. p \in Nat /\ p > 0
  BY InputsAssumption DEF Truncate
<1>2. PICK behind \in [Size(buf) + 1 .. p -> Beyond] :
        buf' = [storage |-> [i \in 1..p |-> IF i <= Size(buf) THEN buf.storage[i] ELSE behind[i]],
                rpos |-> 0, wpos |-> p, bitpos |-> InitialBitPos, cur |-> 0]
  BY DEF Truncate
<1> DEFINE s == [i \in 1..p |-> IF i <= Size(buf) THEN buf.storage[i] ELSE behind[i]]
           b == [storage |-> s, rpos |-> 0, wpos |-> p, bitpos |-> InitialBitPos, cur |-> 0]
<1>3. buf.storage \in Seq(Byte) /\ Size(buf) = Len(buf.storage) /\ Size(buf) \in Nat
  BY BufferIs DEF Size
<1>4. ASSUME NEW i \in 1..p
      PROVE  (IF i <= Size(buf) THEN buf.storage[i] ELSE behind[i]) \in Byte
  <2>1. CASE i <= Size(buf)
    BY <1>3, <2>1
  <2>2. CASE ~(i <= Size(buf))
    <3>1. i \in Size(buf) + 1 .. p
      BY <1>1, <1>3, <2>2
    <3>2. behind[i] \in Beyond
      BY <3>1
    <3> QED  BY <2>2, <3>2, InputsAssumption
  <2> QED  BY <2>1, <2>2
<1>5. s \in Seq(Byte) /\ Len(s) = p
  BY <1>1, <1>4
<1> HIDE DEF s
<1>6. InitialBitPos \in 0..SizeMax /\ 0 \in Byte
  BY SizeMaxIsLarge DEF InitialBitPos, Byte
<1>7. b \in Buffer /\ b.storage = s
  BY <1>1, <1>5, <1>6 DEF Buffer
<1>8. b.storage # <<>>
  BY <1>1, <1>5, <1>7
<1>9. buf' = b
  BY <1>2 DEF s
<1> HIDE DEF b
<1>10. Called("edit") /\ changed' = TRUE /\ written' = Fresh(buf') /\ origin' = origin
  BY DEF Truncate
<1> QED  BY <1>7, <1>8, <1>9, <1>10, EditGood

\* Every call.
LEMMA NextGood == IInv /\ Next => Good
BY WritingGood, ReadingGood, SeekingGood, SetOpcodeGood, TruncateGood, EndsGood
   DEF Next, CannotTruncate

\* A step that changes nothing.
LEMMA StutterInv == IInv /\ UNCHANGED vars => IInv'
<1> SUFFICES ASSUME IInv, UNCHANGED vars PROVE IInv'
  OBVIOUS
<1>1. TypeOK'
  BY DEF vars, IInv, TypeOK
<1> QED  BY <1>1 DEF vars, IInv, ChangedIsSound

-----------------------------------------------------------------------------
(* Quotients and bits, for what is read back.                              *)

\* Division with a remainder has one quotient and one remainder.
LEMMA DivisionIs ==
  ASSUME NEW d \in Nat \ {0}, NEW q \in Nat, NEW m \in 0 .. d - 1
  PROVE  (q * d + m) \div d = q /\ ((q * d + m) % d) = m
OBVIOUS

\* A quotient and a remainder.
LEMMA DivisionExists ==
  ASSUME NEW d \in Nat \ {0}, NEW a \in Nat
  PROVE  \E q \in Nat, m \in 0 .. d - 1 : a = q * d + m
<1>1. a \div d \in Nat /\ (a % d) \in 0 .. d - 1 /\ a = (a \div d) * d + (a % d)
  OBVIOUS
<1> QED  BY <1>1

\* The bit of a number that is halved next.
LEMMA HalvedIs ==
  ASSUME NEW d \in Nat \ {0}, NEW a \in Nat
  PROVE  a \div d \in Nat /\ a \div (2 * d) = (a \div d) \div 2
OBVIOUS

\* A remainder takes one more bit.
LEMMA RemainderGrows ==
  ASSUME NEW d \in Nat \ {0}, NEW a \in Nat, NEW bit \in {0, 1}
  PROVE  ((2 * a + bit) % (2 * d)) = 2 * (a % d) + bit
<1>1. PICK q \in Nat, m \in 0 .. d - 1 : a = q * d + m
  BY DivisionExists
<1>2. (a % d) = m
  BY <1>1, DivisionIs
<1>3. 2 * a + bit = q * (2 * d) + (2 * m + bit)
  BY <1>1
<1>4. 2 * m + bit \in 0 .. (2 * d) - 1 /\ 2 * d \in Nat \ {0}
  OBVIOUS
<1>5. ((q * (2 * d) + (2 * m + bit)) % (2 * d)) = 2 * m + bit
  BY <1>4, DivisionIs
<1> QED  BY <1>2, <1>3, <1>5

\* Bit p of a byte whose lower bits are not set yet, and of the bytes that agree with it.
LEMMA NextBit ==
  ASSUME NEW cur \in Byte, NEW p \in 0..7, (cur % Shifted(p + 1)) = 0, NEW bit \in {0, 1}
  PROVE  LET c == IF bit # 0 THEN OrShifted(cur, p) ELSE cur
         IN  /\ c \in Byte
             /\ (c % Shifted(p)) = 0
             /\ \A v \in Byte : v \div Shifted(p) = c \div Shifted(p) =>
                                  /\ v \div Shifted(p + 1) = cur \div Shifted(p + 1)
                                  /\ BitOf(v, p) = bit
<1> DEFINE d == Shifted(p)
           c == IF bit # 0 THEN OrShifted(cur, p) ELSE cur
<1>1. d \in Nat \ {0} /\ Shifted(p + 1) = 2 * d /\ cur \in Nat /\ (p % 32) = p /\ p < 8
  <2>1. p \in Nat /\ cur \in Nat /\ (p % 32) = p /\ p < 8
    BY DEF Byte
  <2> QED  BY <2>1, ShiftedGrows
<1>2. BitOf(cur, p) = ((cur \div d) % 2)
  BY DEF BitOf
<1>3. OrShifted(cur, p) = IF BitOf(cur, p) = 1 THEN cur ELSE cur + d
  BY <1>1 DEF OrShifted, SetBit
<1>4. \A v \in Byte : v \in Nat /\ BitOf(v, p) = ((v \div d) % 2)
  BY DEF BitOf, Byte
<1>5. c \in Byte
  BY OrShiftedIsByte
<1> HIDE DEF d
<1>6. PICK k \in Nat : cur = (2 * k) * d
  <2> DEFINE e == 2 * d
  <2>0. e \in Nat \ {0}
    BY <1>1
  <2> HIDE DEF e
  <2>1. PICK q \in Nat, m \in 0 .. e - 1 : cur = q * e + m
    BY <1>1, <2>0, DivisionExists
  <2>2. (cur % e) = m
    BY <2>0, <2>1, DivisionIs
  <2>3. m = 0
    BY <1>1, <2>2 DEF e
  <2> QED  BY <1>1, <2>1, <2>3 DEF e
<1>7. cur \div d = 2 * k
  <2>1. 2 * k \in Nat /\ 0 \in 0 .. d - 1 /\ (2 * k) * d + 0 = (2 * k) * d
    BY <1>1
  <2> QED  BY <1>1, <1>6, <2>1, DivisionIs
<1>8. c = (2 * k + bit) * d
  <2>1. BitOf(cur, p) = 0
    BY <1>2, <1>7
  <2> QED  BY <1>1, <1>3, <1>6, <2>1
<1> HIDE DEF c
<1>9. c \div d = 2 * k + bit /\ (c % d) = 0
  <2>1. 2 * k + bit \in Nat /\ 0 \in 0 .. d - 1 /\ (2 * k + bit) * d + 0 = (2 * k + bit) * d
    BY <1>1
  <2> QED  BY <1>1, <1>8, <2>1, DivisionIs
<1>10. ASSUME NEW v \in Byte, v \div d = c \div d
       PROVE  v \div (2 * d) = cur \div (2 * d) /\ BitOf(v, p) = bit
  <2>1. v \div d = 2 * k + bit
    BY <1>9, <1>10
  <2>2. v \div (2 * d) = (v \div d) \div 2 /\ cur \div (2 * d) = (cur \div d) \div 2
    BY <1>1, <1>4, HalvedIs
  <2>3. (2 * k + bit) \div 2 = k /\ (2 * k) \div 2 = k /\ ((2 * k + bit) % 2) = bit
    OBVIOUS
  <2> QED  BY <1>4, <1>7, <2>1, <2>2, <2>3
<1> QED  BY <1>1, <1>5, <1>9, <1>10 DEF c, d

-----------------------------------------------------------------------------
(* What has been written, and who reads it.                                *)

\* A writer's buffer: the bits of the byte in progress that are still to come are not set.
Ready(b) ==
  /\ b \in Buffer
  /\ b.bitpos \in 1..InitialBitPos
  /\ (b.cur % Shifted(b.bitpos)) = 0
  /\ b.wpos <= Size(b)

\* The bytes S hold what has been written to b from the position start on, the bits of
\* the byte in progress included.
Holds(S, b, start) ==
  /\ Len(S) >= b.wpos
  /\ \A i \in start + 1 .. b.wpos : S[i] = b.storage[i]
  /\ b.bitpos # InitialBitPos =>
       /\ Len(S) > b.wpos
       /\ S[b.wpos + 1] \div Shifted(b.bitpos) = b.cur \div Shifted(b.bitpos)

\* A reader of S that has read all that has been written to b, and no more.
Synced(r, b, S) ==
  /\ r \in Buffer
  /\ r.storage = S
  /\ IF b.bitpos = InitialBitPos THEN r.rpos = b.wpos /\ r.bitpos \in {7, 8}
     ELSE r.rpos = b.wpos + 1 /\ r.bitpos = 7 - b.bitpos /\ r.cur = S[b.wpos + 1]

\* Where the next whole byte goes.
NextByte(b) == IF b.bitpos = InitialBitPos THEN b.wpos ELSE b.wpos + 1

\* x is b with the byte in progress written, and then the bytes s.
Appended(b, x, s) ==
  /\ Ready(x) /\ x.bitpos = InitialBitPos
  /\ x.wpos = NextByte(b) + Len(s)
  /\ \A i \in 1 .. b.wpos : x.storage[i] = b.storage[i]
  /\ b.bitpos # InitialBitPos => x.storage[b.wpos + 1] = b.cur
  /\ \A i \in 1 .. Len(s) : x.storage[NextByte(b) + i] = s[i]

\* What a writer's buffer is made of.
LEMMA ReadyIs ==
  ASSUME NEW b, Ready(b)
  PROVE  /\ b \in Buffer
         /\ b.storage \in Seq(Byte) /\ Size(b) = Len(b.storage) /\ Len(b.storage) \in Nat
         /\ b.wpos \in Nat /\ b.wpos <= Len(b.storage)
         /\ b.bitpos \in 1..8 /\ b.cur \in Byte
         /\ NextByte(b) \in Nat /\ NextByte(b) >= b.wpos
         /\ (b.bitpos = 8 => b.cur = 0)
<1>1. b \in Buffer /\ b.bitpos \in 1..8 /\ b.wpos <= Size(b)
  BY DEF Ready, InitialBitPos
<1>2. b.storage \in Seq(Byte) /\ Size(b) = Len(b.storage) /\ b.wpos \in Nat /\ b.cur \in Byte
  BY <1>1 DEF Buffer, Size
<1>3. Len(b.storage) \in Nat
  BY <1>2
<1>4. ASSUME b.bitpos = 8 PROVE b.cur = 0
  <2>1. (b.cur % Shifted(8)) = 0
    BY <1>4 DEF Ready
  <2>2. (b.cur % 256) = 0
    BY <2>1, Powers
  <2>3. \A v \in 0..255 : (v % 256) = 0 => v = 0
    OBVIOUS
  <2> QED  BY <1>2, <2>2, <2>3 DEF Byte
<1> QED  BY <1>1, <1>2, <1>3, <1>4 DEF NextByte

\* The end of append, with no byte in progress.
LEMMA StoreAppends ==
  ASSUME NEW b, Ready(b), b.bitpos = InitialBitPos, NEW s \in Seq(Byte)
  PROVE  Appended(b, Store(b, s), s)
<1> DEFINE o == Overlay(b.storage, b.wpos, s)
           x == Store(b, s)
           w == b.wpos + Len(s)
<1>1. b \in Buffer /\ b.storage \in Seq(Byte) /\ b.wpos \in Nat /\ Size(b) = Len(b.storage)
      /\ b.wpos <= Len(b.storage)
  BY ReadyIs
<1>2. Len(s) \in Nat /\ Len(b.storage) \in Nat /\ w \in Nat
  BY <1>1
<1>3. /\ o \in Seq(Byte)
      /\ Len(o) = IF w > Len(b.storage) THEN w ELSE Len(b.storage)
      /\ \A i \in 1..Len(b.storage) : i <= b.wpos \/ i > w => o[i] = b.storage[i]
      /\ \A i \in 1..Len(s) : o[b.wpos + i] = s[i]
  BY <1>1, OverlayIs
<1>4. x = [b EXCEPT !.storage = o, !.wpos = w]
  BY DEF Store, Buffer
<1> HIDE DEF o, w
<1>5. x \in Buffer /\ x.storage = o /\ x.wpos = w /\ x.bitpos = b.bitpos /\ x.cur = b.cur
  <2> HIDE DEF x
  <2> QED  BY <1>1, <1>2, <1>3, <1>4 DEF Buffer
<1> HIDE DEF x
<1>6. w <= Len(o)
  BY <1>2, <1>3
<1>7. Ready(x)
  BY <1>5, <1>6 DEF Ready, Size
<1>8. NextByte(b) = b.wpos
  BY DEF NextByte
<1>9. \A i \in 1..b.wpos : o[i] = b.storage[i]
  BY <1>1, <1>2, <1>3
<1> QED  BY <1>3, <1>5, <1>7, <1>8, <1>9 DEF Appended, w, x

\* FlushBits.
LEMMA FlushBitsAppends ==
  ASSUME NEW b, Ready(b)
  PROVE  Appended(b, FlushBits(b), <<>>)
<1>0. b \in Buffer /\ b.cur \in Byte /\ b.wpos \in Nat /\ b.wpos <= Size(b) /\ b.bitpos \in 1..8
  BY ReadyIs
<1>1. CASE b.bitpos = InitialBitPos
  BY <1>0, <1>1 DEF FlushBits, Appended, NextByte
<1>2. CASE b.bitpos # InitialBitPos
  <2> DEFINE c == [b EXCEPT !.bitpos = InitialBitPos, !.cur = 0]
             x == Store(c, <<b.cur>>)
  <2>1. InitialBitPos \in 0..SizeMax /\ 0 \in Byte
    BY SizeMaxIsLarge DEF InitialBitPos, Byte
  <2>2. c \in Buffer /\ c.storage = b.storage /\ c.wpos = b.wpos /\ c.bitpos = InitialBitPos
        /\ c.cur = 0
    BY <1>0, <2>1 DEF Buffer
  <2>3. FlushBits(b) = x
    BY <1>2 DEF FlushBits
  <2> HIDE DEF c
  <2>4. Ready(c)
    <3>1. (0 % 256) = 0
      OBVIOUS
    <3> QED  BY <1>0, <2>2, <3>1, Powers DEF Ready, Size, InitialBitPos
  <2>5. <<b.cur>> \in Seq(Byte) /\ Len(<<b.cur>>) = 1 /\ <<b.cur>>[1] = b.cur /\ 1 \in 1..1
    BY <1>0
  <2>6. Appended(c, x, <<b.cur>>)
    BY <2>2, <2>4, <2>5, StoreAppends
  <2> HIDE DEF x
  <2>7. NextByte(c) = b.wpos /\ NextByte(b) = b.wpos + 1
    BY <1>2, <2>2 DEF NextByte
  <2>8. x.wpos = b.wpos + 1 /\ x.storage[b.wpos + 1] = b.cur
    BY <2>5, <2>6, <2>7 DEF Appended
  <2>9. \A i \in 1..b.wpos : x.storage[i] = b.storage[i]
    BY <2>2, <2>6 DEF Appended
  <2>10. Len(<<>>) = 0
    OBVIOUS
  <2> QED  BY <1>0, <2>3, <2>6, <2>7, <2>8, <2>9, <2>10 DEF Appended
<1> QED  BY <1>1, <1>2

\* Two such writes are one.
LEMMA AppendedTransitive ==
  ASSUME NEW b, Ready(b), NEW x, NEW s \in Seq(Byte), NEW y, NEW t \in Seq(Byte),
         Appended(b, x, s), Appended(x, y, t)
  PROVE  Appended(b, y, s \o t)
<1>1. b.wpos \in Nat /\ NextByte(b) \in Nat /\ NextByte(b) >= b.wpos
  BY ReadyIs
<1>2. Len(s) \in Nat /\ Len(t) \in Nat /\ Len(s \o t) = Len(s) + Len(t)
  OBVIOUS
<1>3. NextByte(x) = x.wpos /\ x.wpos = NextByte(b) + Len(s)
  BY DEF Appended, NextByte
<1>4. y.wpos = NextByte(b) + Len(s \o t)
  BY <1>1, <1>2, <1>3 DEF Appended
<1>5. \A i \in 1 .. x.wpos : y.storage[i] = x.storage[i]
  BY DEF Appended
<1>6. \A i \in 1 .. b.wpos : y.storage[i] = b.storage[i]
  BY <1>1, <1>2, <1>3, <1>5 DEF Appended
<1>7. b.bitpos # InitialBitPos => y.storage[b.wpos + 1] = b.cur
  <2> SUFFICES ASSUME b.bitpos # InitialBitPos PROVE y.storage[b.wpos + 1] = b.cur
    OBVIOUS
  <2>1. b.wpos + 1 \in 1 .. x.wpos
    BY <1>1, <1>2, <1>3 DEF NextByte
  <2> QED  BY <2>1, <1>5 DEF Appended
<1>8. ASSUME NEW i \in 1 .. Len(s \o t) PROVE y.storage[NextByte(b) + i] = (s \o t)[i]
  <2>1. CASE i <= Len(s)
    <3>1. i \in 1 .. Len(s) /\ NextByte(b) + i \in 1 .. x.wpos /\ (s \o t)[i] = s[i]
      BY <1>1, <1>2, <1>3, <2>1
    <3> QED  BY <3>1, <1>5 DEF Appended
  <2>2. CASE ~(i <= Len(s))
    <3>1. i - Len(s) \in 1 .. Len(t) /\ (s \o t)[i] = t[i - Len(s)]
          /\ NextByte(x) + (i - Len(s)) = NextByte(b) + i
      BY <1>1, <1>2, <1>3, <2>2
    <3> QED  BY <3>1 DEF Appended
  <2> QED  BY <2>1, <2>2
<1> QED  BY <1>4, <1>6, <1>7, <1>8 DEF Appended

\* append.
LEMMA AppendAppends ==
  ASSUME NEW b, Ready(b), NEW s \in Seq(Byte)
  PROVE  Appended(b, Append_(b, s), s)
<1> DEFINE c == FlushBits(b)
<1>1. Appended(b, c, <<>>)
  BY FlushBitsAppends
<1>2. Append_(b, s) = Store(c, s)
  BY DEF Append_
<1> HIDE DEF c
<1>3. Ready(c) /\ c.bitpos = InitialBitPos
  BY <1>1 DEF Appended
<1>4. Appended(c, Store(c, s), s)
  BY <1>3, StoreAppends
<1>5. <<>> \in Seq(Byte) /\ <<>> \o s = s
  OBVIOUS
<1>6. Appended(b, Store(c, s), <<>> \o s)
  BY <1>1, <1>4, <1>5, AppendedTransitive
<1> QED  BY <1>2, <1>5, <1>6

\* WriteString with no byte in progress.
LEMMA WriteStringAppends ==
  ASSUME NEW b, Ready(b), b.bitpos = InitialBitPos, NEW text \in Seq(Byte)
  PROVE  Appended(b, WriteString(b, text), text)
<1>1. CASE text = <<>>
  <2>1. b.wpos \in Nat /\ Len(<<>>) = 0
    BY ReadyIs
  <2> QED  BY <2>1, <1>1 DEF WriteString, Appended, NextByte
<1>2. CASE text # <<>>
  BY <1>2, AppendAppends DEF WriteString
<1> QED  BY <1>1, <1>2

-----------------------------------------------------------------------------
(* Reading whole bytes.                                                    *)

\* A reader of S at the position p.
At(r, S, p) == r \in Buffer /\ r.storage = S /\ r.rpos = p

\* read<T>() of bytes that are there.
LEMMA ReadAt ==
  ASSUME NEW S \in Seq(Byte), NEW p \in Nat, NEW r, At(r, S, p),
         NEW n \in Nat, p + n <= Len(S)
  PROVE  LET read == Read(r, n)
         IN  /\ read.ok
             /\ read.value \in Bytes(n)
             /\ \A i \in 1..n : read.value[i] = S[p + i]
             /\ At(read.buf, S, p + n)
             /\ read.buf.bitpos = IF r.bitpos > 7 THEN r.bitpos ELSE 8
<1> DEFINE c == ResetBitPos(r)
           x == [c EXCEPT !.rpos = @ + n]
           s == SubSeq(S, p + 1, p + n)
           bits == IF r.bitpos > 7 THEN r.bitpos ELSE 8
<1>1. r \in Buffer /\ r.storage = S /\ r.rpos = p
  BY DEF At
<1>2. ReadFrom(r, c) /\ c.rpos = p
  BY <1>1, ResetBitPosReads
<1>3. c.bitpos = bits
  BY <1>1 DEF ResetBitPos, Buffer, InitialBitPos
<1>4. c \in Buffer /\ c.storage = S
  BY <1>1, <1>2 DEF ReadFrom
<1> DEFINE end == Sum(c.rpos, n)
<1>5. Read(r, n) = IF end > Size(c) THEN Thrown(c)
                   ELSE IF c.rpos + n > Size(c)
                        THEN Returned([c EXCEPT !.rpos = end], [i \in 1..n |-> Outside])
                   ELSE Returned(x, SubSeq(c.storage, c.rpos + 1, c.rpos + n))
  BY DEF Read
<1> HIDE DEF c
<1>9. end \in Nat /\ end <= p + n
  BY <1>2, SumIs
<1> HIDE DEF end
<1>6. Read(r, n) = Returned(x, s)
  <2>1. Size(c) = Len(S) /\ Len(S) \in Nat
    BY <1>4 DEF Size
  <2>2. ~(end > Size(c)) /\ ~(c.rpos + n > Size(c))
    BY <1>2, <1>9, <2>1
  <2> QED  BY <1>2, <1>4, <1>5, <2>2
<1>7. At(x, S, p + n) /\ x.bitpos = bits
  <2>1. p + n \in Nat
    OBVIOUS
  <2> QED  BY <1>2, <1>3, <1>4, <2>1 DEF At, Buffer
<1>8. s \in Bytes(n) /\ \A i \in 1..n : s[i] = S[p + i]
  <2>1. \A i \in p + 1 .. p + n : S[i] \in Byte
    OBVIOUS
  <2>2. p + 1 \in Int /\ p + n \in Int
    OBVIOUS
  <2>3. s \in Seq(Byte) /\ Len(s) = (IF p + 1 <= p + n THEN (p + n) - (p + 1) + 1 ELSE 0)
        /\ \A i \in 1 .. (p + n) - (p + 1) + 1 : s[i] = S[(p + 1) + i - 1]
    BY <2>1, <2>2, SubSeqProperties
  <2> HIDE DEF s
  <2> QED  BY <2>3 DEF Bytes
<1> HIDE DEF x, s, bits
<1> QED  BY <1>6, <1>7, <1>8 DEF Returned, bits

\* What the bytes say of a write of bytes.
LEMMA HoldsAppended ==
  ASSUME NEW b, Ready(b), NEW x, NEW s \in Seq(Byte), Appended(b, x, s),
         NEW S \in Seq(Byte), NEW start \in Nat, start <= b.wpos, Holds(S, x, start)
  PROVE  /\ Holds(S, b, start)
         /\ NextByte(b) + Len(s) <= Len(S)
         /\ \A i \in 1..Len(s) : S[NextByte(b) + i] = s[i]
<1>1. b.wpos \in Nat /\ NextByte(b) \in Nat /\ NextByte(b) >= b.wpos /\ Len(s) \in Nat
      /\ Len(S) \in Nat
  BY ReadyIs
<1>2. x.wpos = NextByte(b) + Len(s) /\ x.wpos <= Len(S)
  BY DEF Appended, Holds
<1>3. \A i \in start + 1 .. x.wpos : S[i] = x.storage[i]
  BY DEF Holds
<1>4. \A i \in start + 1 .. b.wpos : S[i] = b.storage[i]
  <2> TAKE i \in start + 1 .. b.wpos
  <2>1. i \in start + 1 .. x.wpos /\ i \in 1 .. b.wpos
    BY <1>1, <1>2
  <2> QED  BY <2>1, <1>3 DEF Appended
<1>5. ASSUME b.bitpos # InitialBitPos
      PROVE  Len(S) > b.wpos /\ S[b.wpos + 1] = b.cur
  <2>1. NextByte(b) = b.wpos + 1
    BY <1>5 DEF NextByte
  <2>2. b.wpos + 1 \in start + 1 .. x.wpos /\ Len(S) > b.wpos
    BY <2>1, <1>1, <1>2
  <2> QED  BY <2>2, <1>3, <1>5 DEF Appended
<1>6. ASSUME NEW i \in 1..Len(s) PROVE S[NextByte(b) + i] = s[i]
  <2>1. NextByte(b) + i \in start + 1 .. x.wpos
    BY <1>1, <1>2
  <2> QED  BY <2>1, <1>3 DEF Appended
<1>7. Holds(S, b, start)
  BY <1>1, <1>2, <1>4, <1>5 DEF Holds
<1> QED  BY <1>1, <1>2, <1>6, <1>7

\* A reader in step is in front of the next whole byte.
LEMMA SyncedAt ==
  ASSUME NEW b, Ready(b), NEW S, NEW r, Synced(r, b, S)
  PROVE  At(r, S, NextByte(b)) /\ r.bitpos \in 0..8
<1>1. b.bitpos \in 1..8
  BY ReadyIs
<1>2. CASE b.bitpos = 8
  BY <1>2 DEF Synced, At, NextByte, InitialBitPos
<1>3. CASE b.bitpos # 8
  <2>1. r \in Buffer /\ r.storage = S /\ r.rpos = b.wpos + 1 /\ r.bitpos = 7 - b.bitpos
    BY <1>3 DEF Synced, InitialBitPos
  <2> QED  BY <1>1, <1>3, <2>1 DEF At, NextByte, InitialBitPos
<1> QED  BY <1>2, <1>3

\* It is in step again when it has read the whole bytes.
LEMMA AtSynced ==
  ASSUME NEW b, NEW x, NEW s, Appended(b, x, s), NEW S, NEW r,
         At(r, S, NextByte(b) + Len(s)), r.bitpos = 8
  PROVE  Synced(r, x, S)
BY DEF Appended, Synced, At

\* Sequences with the same members are the same.
LEMMA SameBytes ==
  ASSUME NEW s \in Seq(Byte), NEW t \in Seq(Byte), Len(s) = Len(t),
         \A i \in 1..Len(s) : s[i] = t[i]
  PROVE  s = t
OBVIOUS

\* The bytes that append has written, read.
LEMMA AppendedRead ==
  ASSUME NEW b, Ready(b), NEW x, NEW s \in Seq(Byte), Appended(b, x, s),
         NEW S \in Seq(Byte), NEW start \in Nat, start <= b.wpos, Holds(S, x, start),
         NEW r, Synced(r, b, S)
  PROVE  LET read == Read(r, Len(s))
         IN  read.ok /\ read.value = s /\ Synced(read.buf, x, S)
<1> DEFINE n == Len(s)
           p == NextByte(b)
           read == Read(r, n)
<1>1. p \in Nat /\ n \in Nat
  BY ReadyIs
<1>2. p + n <= Len(S) /\ \A i \in 1..n : S[p + i] = s[i]
  BY HoldsAppended
<1>3. At(r, S, p) /\ r.bitpos \in 0..8
  BY SyncedAt
<1>4. s \in Seq(Byte) /\ n = Len(s) /\ Appended(b, x, s) /\ p = NextByte(b)
  OBVIOUS
<1> HIDE DEF n, p
<1>5. /\ read.ok
      /\ read.value \in Bytes(n)
      /\ \A i \in 1..n : read.value[i] = S[p + i]
      /\ At(read.buf, S, p + n)
      /\ read.buf.bitpos = IF r.bitpos > 7 THEN r.bitpos ELSE 8
  BY <1>1, <1>2, <1>3, ReadAt
<1> HIDE DEF read
<1>6. read.value = s
  BY <1>2, <1>4, <1>5, SameBytes DEF Bytes
<1>7. read.buf.bitpos = 8
  BY <1>3, <1>5
<1>8. Synced(read.buf, x, S)
  BY <1>4, <1>5, <1>7, AtSynced
<1> QED  BY <1>5, <1>6, <1>8 DEF read, n

-----------------------------------------------------------------------------
(* Packed numbers, byte by byte.                                           *)

\* A byte at the end of others.
LEMMA AppendByte ==
  ASSUME NEW s \in Seq(Byte), NEW v \in Byte
  PROVE  /\ Append(s, v) \in Seq(Byte)
         /\ Len(Append(s, v)) = Len(s) + 1
         /\ Append(s, v)[Len(s) + 1] = v
         /\ \A i \in 1..Len(s) : Append(s, v)[i] = s[i]
OBVIOUS

\* The sequence s lies in S behind the position p.
LiesAt(s, S, p) == p + Len(s) <= Len(S) /\ \A j \in 1..Len(s) : S[p + j] = s[j]

\* The sequence t begins with s.
Begins(s, t) == Len(s) <= Len(t) /\ \A j \in 1..Len(s) : t[j] = s[j]

\* q takes the bytes of w that are not zero.
PackedBy(q, w) ==
  /\ q \in [0..8 -> Seq(Byte)]
  /\ \A i \in 1..8 : q[i] = IF w[i] # 0 THEN Append(q[i - 1], w[i]) ELSE q[i - 1]

\* These are bytes.
LEMMA PackedBytes ==
  ASSUME NEW w, NEW q, PackedBy(q, w), NEW i \in 0..8
  PROVE  q[i] \in Seq(Byte) /\ Len(q[i]) \in Nat
<1>1. q[i] \in Seq(Byte)
  BY DEF PackedBy
<1> QED  BY <1>1

\* The bytes of a word that are not zero are taken in order.
LEMMA PackedGrows ==
  ASSUME NEW w \in Word, NEW q, PackedBy(q, w)
  PROVE  \A i \in 0..8 : Begins(q[i], q[8])
<1> DEFINE Prefix(i) == Begins(q[i], q[8])
           Done == {k \in 0..8 : Prefix(8 - k)}
<1>1. 0 \in Done
  <2>1. 0 \in 0..8 /\ 8 - 0 = 8 /\ 8 \in 0..8
    OBVIOUS
  <2>2. Len(q[8]) \in Nat
    BY <2>1, PackedBytes
  <2>3. Prefix(8)
    BY <2>2 DEF Begins
  <2> HIDE DEF Prefix
  <2> QED  BY <2>1, <2>3
<1>2. ASSUME NEW k \in 1..8, k - 1 \in Done PROVE k \in Done
  <2> DEFINE i == 8 - (k - 1)
  <2>1. i \in 1..8 /\ i - 1 = 8 - k /\ i - 1 \in 0..8 /\ i \in 0..8
    OBVIOUS
  <2>2. Prefix(i)
    BY <1>2
  <2>3. q[i - 1] \in Seq(Byte) /\ q[i] \in Seq(Byte) /\ q[8] \in Seq(Byte) /\ w[i] \in Byte
    <3>1. \A j \in 0..8 : q[j] \in Seq(Byte)
      BY ONLY PackedBy(q, w) DEF PackedBy
    <3>2. w[i] \in Byte
      BY <2>1 DEF Word
    <3>3. 8 \in 0..8
      OBVIOUS
    <3> HIDE DEF i
    <3> QED  BY ONLY <2>1, <3>1, <3>2, <3>3
  <2>4. q[i] = IF w[i] # 0 THEN Append(q[i - 1], w[i]) ELSE q[i - 1]
    BY <2>1 DEF PackedBy
  <2> HIDE DEF i
  <2>5. Len(q[i - 1]) <= Len(q[i]) /\ \A j \in 1..Len(q[i - 1]) : q[i][j] = q[i - 1][j]
    <3>1. CASE w[i] # 0
      BY <2>3, <2>4, <3>1, AppendByte
    <3>2. CASE w[i] = 0
      BY <2>3, <2>4, <3>2
    <3> QED  BY <3>1, <3>2
  <2>51. Len(q[i - 1]) \in Nat /\ Len(q[i]) \in Nat /\ Len(q[8]) \in Nat
    BY <2>3
  <2>52. Len(q[i]) <= Len(q[8]) /\ Len(q[i - 1]) <= Len(q[i])
    <3>1. Len(q[i]) <= Len(q[8])
      BY ONLY <2>2 DEF Begins
    <3>2. Len(q[i - 1]) <= Len(q[i])
      BY ONLY <2>5
    <3> QED  BY <3>1, <3>2
  <2>6. Len(q[i - 1]) <= Len(q[8])
    BY <2>51, <2>52
  <2>7. \A j \in 1..Len(q[i - 1]) : q[8][j] = q[i - 1][j]
    <3> TAKE j \in 1..Len(q[i - 1])
    <3>1. j \in 1..Len(q[i])
      BY <2>51, <2>52
    <3> QED  BY <3>1, <2>2, <2>5 DEF Begins
  <2>8. Prefix(8 - k)
    BY <2>1, <2>6, <2>7 DEF Begins
  <2> QED  BY <2>8
<1> HIDE DEF Prefix
<1>3. \A k \in 0..8 : k \in Done
  <2> HIDE DEF Done
  <2> QED  BY <1>1, <1>2, UpTo
<1>4. ASSUME NEW i \in 0..8 PROVE Prefix(i)
  <2>1. 8 - i \in 0..8 /\ 8 - (8 - i) = i
    OBVIOUS
  <2>2. 8 - i \in Done
    BY <2>1, <1>3
  <2>3. Prefix(8 - (8 - i))
    BY <2>2
  <2> QED  BY <2>1, <2>3
<1> QED  BY <1>4 DEF Prefix

\* ReadPackedUInt64 reads a word back.
LEMMA ReadPackedAt ==
  ASSUME NEW w \in Word, NEW S \in Seq(Byte), NEW p \in Nat, NEW r, At(r, S, p), r.bitpos = 8,
         LiesAt(Packed(w), S, p)
  PROVE  LET read == ReadPacked(r, Mask(w))
         IN  /\ read.ok
             /\ read.value = w
             /\ At(read.buf, S, p + Len(Packed(w)))
             /\ read.buf.bitpos = 8
<1>0. r \in Buffer
  BY DEF At
<1>1. PICK a :
        /\ a \in [0..8 -> ResultOf(r, Seq(Byte))]
        /\ a[0] = Returned(r, <<>>)
        /\ \A i \in 1..8 : a[i] = ByteRead(Mask(w), a[i - 1], i)
        /\ a[8] = ReadPacked(r, Mask(w))
  BY <1>0, ReadPackedSteps
<1>2. PICK q :
        q[0] = <<>> /\ PackedBy(q, w) /\ q[8] = Packed(w)
  BY PackedSteps DEF PackedBy
<1>3. \A i \in 0..8 : Begins(q[i], q[8])
  <2>1. PackedBy(q, w)
    BY <1>2
  <2> QED  BY <2>1, PackedGrows
<1> DEFINE Right(i) ==
             /\ a[i].ok
             /\ a[i].value \in Seq(Byte) /\ Len(a[i].value) = i
             /\ \A j \in 1..i : a[i].value[j] = w[j]
             /\ At(a[i].buf, S, p + Len(q[i])) /\ a[i].buf.bitpos = 8
           Done == {i \in 0..8 : Right(i)}
<1>4. 0 \in Done
  <2>1. a[0].ok /\ a[0].value = <<>> /\ a[0].buf = r
    BY <1>1 DEF Returned
  <2>2. p + Len(q[0]) = p /\ <<>> \in Seq(Byte) /\ Len(<<>>) = 0 /\ 0 \in 0..8
    BY <1>2
  <2>3. \A j \in 1..0 : a[0].value[j] = w[j]
    OBVIOUS
  <2> QED  BY <2>1, <2>2, <2>3
<1>5. ASSUME NEW i \in 1..8, i - 1 \in Done PROVE i \in Done
  <2> DEFINE x == a[i - 1]
             k == Len(q[i - 1])
  <2>1. i - 1 \in 0..8 /\ i \in 0..8 /\ i \in Nat /\ w[i] \in Byte
    BY DEF Word
  <2>2. q[i - 1] \in Seq(Byte) /\ q[i] \in Seq(Byte) /\ q[8] \in Seq(Byte)
    <3>1. PackedBy(q, w) /\ 8 \in 0..8
      BY <1>2
    <3> QED  BY <2>1, <3>1, PackedBytes
  <2>21. k \in Nat /\ Len(q[i]) \in Nat /\ Len(q[8]) \in Nat
    BY <2>2
  <2>3. q[i] = IF w[i] # 0 THEN Append(q[i - 1], w[i]) ELSE q[i - 1]
    BY <1>2 DEF PackedBy
  <2>4. a[i] = ByteRead(Mask(w), x, i)
    BY <1>1
  <2>5. x.ok /\ x.value \in Seq(Byte) /\ Len(x.value) = i - 1
        /\ (\A j \in 1 .. i - 1 : x.value[j] = w[j])
        /\ At(x.buf, S, p + k) /\ x.buf.bitpos = 8
    BY <1>5
  <2>6. BitOf(Mask(w), i - 1) = IF w[i] # 0 THEN 1 ELSE 0
    BY MaskIsByte
  <2> HIDE DEF x, k
  <2>7. ASSUME NEW v \in Byte, v = w[i]
        PROVE  LET s == Append(x.value, v)
               IN  s \in Seq(Byte) /\ Len(s) = i /\ \A j \in 1..i : s[j] = w[j]
    <3> DEFINE s == Append(x.value, v)
    <3>1. s \in Seq(Byte) /\ Len(s) = (i - 1) + 1 /\ s[(i - 1) + 1] = v
          /\ \A j \in 1 .. i - 1 : s[j] = x.value[j]
      BY <2>5, AppendByte
    <3> HIDE DEF s
    <3>2. (i - 1) + 1 = i
      BY <2>1
    <3>3. ASSUME NEW j \in 1..i PROVE s[j] = w[j]
      <4>1. j = i \/ j \in 1 .. i - 1
        BY <2>1
      <4> QED  BY <4>1, <3>1, <3>2, <2>5, <2>7
    <3> QED  BY <3>1, <3>2, <3>3 DEF s
  <2>8. CASE w[i] = 0
    <3>1. a[i] = Returned(x.buf, Append(x.value, 0))
      BY <2>4, <2>5, <2>6, <2>8 DEF ByteRead
    <3>2. 0 \in Byte /\ Len(q[i]) = k
      BY <2>3, <2>8 DEF Byte, k
    <3>3. a[i].ok /\ a[i].value = Append(x.value, 0) /\ a[i].buf = x.buf
      BY <3>1 DEF Returned
    <3>4. Append(x.value, 0) \in Seq(Byte) /\ Len(Append(x.value, 0)) = i
          /\ \A j \in 1..i : Append(x.value, 0)[j] = w[j]
      BY <3>2, <2>7, <2>8
    <3> QED  BY <3>2, <3>3, <3>4, <2>1, <2>5
  <2>9. CASE w[i] # 0
    <3> DEFINE next == Read(x.buf, 1)
    <3>1. a[i] = IF ~next.ok THEN next ELSE Returned(next.buf, Append(x.value, next.value[1]))
      BY <2>4, <2>5, <2>6, <2>9 DEF ByteRead
    <3>2. Len(q[i]) = k + 1 /\ q[i][k + 1] = w[i]
      BY <2>1, <2>2, <2>3, <2>9, AppendByte DEF k
    <3>3. k + 1 <= Len(q[8]) /\ q[8][k + 1] = w[i]
      <4>1. Len(q[i]) <= Len(q[8]) /\ k + 1 \in 1..Len(q[i])
        <5>1. Len(q[i]) <= Len(q[8])
          BY <1>3, <2>1 DEF Begins
        <5>2. k + 1 \in 1..Len(q[i])
          BY <2>21, <3>2
        <5> QED  BY <5>1, <5>2, <2>21, <3>2
      <4> QED  BY <4>1, <1>3, <2>1, <3>2 DEF Begins
    <3>4. (p + k) + 1 <= Len(S) /\ S[(p + k) + 1] = w[i]
      <4>1. k + 1 \in 1..Len(q[8])
        BY <2>21, <3>3
      <4>2. S[p + (k + 1)] = w[i] /\ p + Len(q[8]) <= Len(S)
        BY <4>1, <3>3, <1>2 DEF LiesAt
      <4>3. p + (k + 1) = (p + k) + 1 /\ Len(S) \in Nat /\ Len(q[8]) \in Nat
        BY <2>21
      <4> QED  BY <4>2, <4>3, <3>3, <2>21
    <3>5. p + k \in Nat
      BY <2>21
    <3>6. /\ next.ok
          /\ next.value \in Bytes(1)
          /\ \A j \in 1..1 : next.value[j] = S[(p + k) + j]
          /\ At(next.buf, S, (p + k) + 1)
          /\ next.buf.bitpos = IF x.buf.bitpos > 7 THEN x.buf.bitpos ELSE 8
      BY <2>5, <3>4, <3>5, ReadAt
    <3> HIDE DEF next
    <3>7. next.value[1] = w[i] /\ next.buf.bitpos = 8 /\ (p + k) + 1 = p + (k + 1)
      <4>1. 1 \in 1..1
        OBVIOUS
      <4> QED  BY <2>21, <2>5, <3>4, <3>6, <4>1
    <3>8. a[i].ok /\ a[i].value = Append(x.value, w[i]) /\ a[i].buf = next.buf
      BY <3>1, <3>6, <3>7 DEF Returned
    <3>9. Append(x.value, w[i]) \in Seq(Byte) /\ Len(Append(x.value, w[i])) = i
          /\ \A j \in 1..i : Append(x.value, w[i])[j] = w[j]
      BY <2>1, <2>7
    <3> QED  BY <3>2, <3>6, <3>7, <3>8, <3>9, <2>1
  <2> QED  BY <2>8, <2>9
<1>6. \A i \in 0..8 : i \in Done
  <2> HIDE DEF Done
  <2> QED  BY <1>4, <1>5, UpTo
<1>7. Right(8)
  <2>1. 8 \in 0..8
    OBVIOUS
  <2>2. 8 \in Done
    BY <2>1, <1>6
  <2> QED  BY <2>2
<1>8. a[8].value = w
  <2>1. w = [j \in 1..8 |-> w[j]] /\ \A j \in 1..8 : w[j] \in Byte
    BY DEF Word
  <2>2. w \in Seq(Byte) /\ Len(w) = 8
    BY <2>1
  <2>3. a[8].value \in Seq(Byte) /\ Len(a[8].value) = 8 /\ \A j \in 1..8 : a[8].value[j] = w[j]
    BY <1>7
  <2> QED  BY <2>2, <2>3, SameBytes
<1> QED  BY <1>1, <1>2, <1>7, <1>8

-----------------------------------------------------------------------------
(* Numbers, strings and flushes are read back.                             *)

\* The bits and bytes of x are those of b and then the item: a reader that has read all of
\* b reads the item, with the right value, and has then read all of x.
Follows(b, x, item) ==
  /\ Ready(x)
  /\ x.wpos >= b.wpos
  /\ \A S \in Seq(Byte), start \in Nat :
       start <= b.wpos /\ Holds(S, x, start) =>
         /\ Holds(S, b, start)
         /\ \A r : Synced(r, b, S) =>
              ItemRead(r, item).ok /\ Synced(ItemRead(r, item).buf, x, S)

\* It is enough to look at what a reader of the bytes reads.
LEMMA AppendedFollows ==
  ASSUME NEW b, Ready(b), NEW x, NEW s \in Seq(Byte), Appended(b, x, s), NEW item,
         \A S \in Seq(Byte), start \in Nat : \A r :
           start <= b.wpos /\ Holds(S, x, start) /\ Holds(S, b, start) /\ Synced(r, b, S) =>
             ItemRead(r, item).ok /\ Synced(ItemRead(r, item).buf, x, S)
  PROVE  Follows(b, x, item)
<1>1. Ready(x) /\ x.wpos = NextByte(b) + Len(s)
  BY DEF Appended
<1>2. Len(s) \in Nat /\ b.wpos \in Nat /\ NextByte(b) \in Nat /\ NextByte(b) >= b.wpos
  BY ReadyIs
<1>3. x.wpos >= b.wpos
  BY <1>1, <1>2
<1>4. \A S \in Seq(Byte), start \in Nat :
        start <= b.wpos /\ Holds(S, x, start) => Holds(S, b, start)
  BY HoldsAppended
<1> QED  BY <1>1, <1>3, <1>4 DEF Follows

\* A result that is right.
LEMMA RightResult ==
  ASSUME NEW result, NEW read, NEW value, read.ok, read.value = value,
         result = [buf |-> read.buf, ok |-> read.ok /\ read.value = value]
  PROVE  result.ok /\ result.buf = read.buf
<1>1. result.buf = read.buf
  BY ONLY result = [buf |-> read.buf, ok |-> read.ok /\ read.value = value]
<1>2. result.ok = (read.ok /\ read.value = value)
  BY ONLY result = [buf |-> read.buf, ok |-> read.ok /\ read.value = value]
<1> QED  BY <1>1, <1>2, Zenon

\* WriteInt8 to WriteInt64, WriteFloat, WriteDouble, WriteBool and WriteByteSeq.
LEMMA NumberFollows ==
  ASSUME NEW b, Ready(b), NEW x, NEW s \in Seq(Byte), Appended(b, x, s)
  PROVE  Follows(b, x, Item("number", s))
<1> DEFINE item == Item("number", s)
<1>1. ASSUME NEW S \in Seq(Byte), NEW start \in Nat, NEW r,
             start <= b.wpos, Holds(S, x, start), Synced(r, b, S)
      PROVE  ItemRead(r, item).ok /\ Synced(ItemRead(r, item).buf, x, S)
  <2> DEFINE read == Read(r, Len(s))
  <2>1. read.ok /\ read.value = s /\ Synced(read.buf, x, S)
    BY <1>1, AppendedRead
  <2>2. ItemRead(r, item) = [buf |-> read.buf, ok |-> read.ok /\ read.value = s]
    BY DEF ItemRead, Item
  <2> HIDE DEF read
  <2>3. ItemRead(r, item).ok /\ ItemRead(r, item).buf = read.buf
    BY <2>1, <2>2, RightResult
  <2> QED  BY <2>1, <2>3
<1> HIDE DEF item
<1>2. Follows(b, x, item)
  BY <1>1, AppendedFollows
<1> QED  BY <1>2 DEF item

\* WriteString: a string that is empty leaves the byte in progress alone, and so does its
\* reader.
LEMMA StringFollows ==
  ASSUME NEW b, Ready(b), NEW text \in Seq(Byte)
  PROVE  Follows(b, WriteString(b, text), Item("string", text))
<1> DEFINE item == Item("string", text)
           x == WriteString(b, text)
<1>0. b.wpos \in Nat /\ NextByte(b) \in Nat /\ b.bitpos \in 1..8
  BY ReadyIs
<1>1. ASSUME NEW r
      PROVE  ItemRead(r, item) =
               [buf |-> ReadString(r, Len(text)).buf,
                ok |-> ReadString(r, Len(text)).ok /\ ReadString(r, Len(text)).value = text]
  BY DEF ItemRead, Item
<1> HIDE DEF item
<1>2. CASE text = <<>>
  <2>1. x = b
    BY <1>2 DEF WriteString
  <2>2. ASSUME NEW S \in Seq(Byte), NEW start \in Nat, NEW r,
               start <= b.wpos, Holds(S, b, start), Synced(r, b, S)
        PROVE  ItemRead(r, item).ok /\ Synced(ItemRead(r, item).buf, b, S)
    <3>1. Len(text) = 0
      BY <1>2
    <3>2. r.rpos = NextByte(b) /\ r.storage = S
      BY <2>2, SyncedAt DEF At
    <3>3. NextByte(b) <= Len(S) /\ Len(S) \in Nat
      BY <1>0, <2>2 DEF Holds, NextByte
    <3>4. ~(Sum(r.rpos, 0) > Size(r))
      <4>1. Sum(r.rpos, 0) \in Nat /\ Sum(r.rpos, 0) <= NextByte(b) + 0
        BY <1>0, <3>2, SumIs
      <4> QED  BY <1>0, <3>2, <3>3, <4>1 DEF Size
    <3>5. ReadString(r, Len(text)) = Returned(r, <<>>)
      BY <3>1, <3>4 DEF ReadString
    <3>6. ItemRead(r, item).ok /\ ItemRead(r, item).buf = r
      <4>1. Returned(r, <<>>).ok /\ Returned(r, <<>>).value = text /\ Returned(r, <<>>).buf = r
        BY <1>2 DEF Returned
      <4> QED  BY <1>1, <3>5, <4>1, RightResult
    <3> QED  BY <2>2, <3>6
  <2>3. b.wpos >= b.wpos
    BY <1>0
  <2> HIDE DEF x
  <2>4. Follows(b, x, item)
    BY <2>1, <2>2, <2>3 DEF Follows
  <2> QED  BY <2>4 DEF x, item
<1>3. CASE text # <<>>
  <2>1. x = Append_(b, text)
    BY <1>3 DEF WriteString
  <2> HIDE DEF x
  <2>2. Appended(b, x, text)
    BY <2>1, AppendAppends
  <2>3. ASSUME NEW S \in Seq(Byte), NEW start \in Nat, NEW r,
               start <= b.wpos, Holds(S, x, start), Synced(r, b, S)
        PROVE  ItemRead(r, item).ok /\ Synced(ItemRead(r, item).buf, x, S)
    <3> DEFINE read == Read(r, Len(text))
    <3>1. read.ok /\ read.value = text /\ Synced(read.buf, x, S)
      BY <2>2, <2>3, AppendedRead
    <3> HIDE DEF read
    <3>2. NextByte(b) + Len(text) <= Len(S)
      BY <2>2, <2>3, HoldsAppended
    <3>3. r.rpos = NextByte(b) /\ r.storage = S
      BY <2>3, SyncedAt DEF At
    <3>4. ReadString(r, Len(text)) = read
      <4>1. Len(text) \in Nat /\ Len(text) # 0 /\ Len(S) \in Nat
        BY <1>3
      <4>2. ~(Sum(r.rpos, Len(text)) > Size(r))
        <5>1. Sum(r.rpos, Len(text)) \in Nat /\ Sum(r.rpos, Len(text)) <= NextByte(b) + Len(text)
          BY <1>0, <3>3, <4>1, SumIs
        <5> QED  BY <1>0, <3>2, <3>3, <4>1, <5>1 DEF Size
      <4> QED  BY <4>1, <4>2 DEF ReadString, read
    <3>5. ItemRead(r, item).ok /\ ItemRead(r, item).buf = read.buf
      BY <1>1, <3>1, <3>4, RightResult
    <3> QED  BY <3>1, <3>5
  <2>4. Follows(b, x, item)
    BY <2>2, <2>3, AppendedFollows
  <2> QED  BY <2>4 DEF x, item
<1> QED  BY <1>2, <1>3

\* FlushBits, and ResetBitPos.
LEMMA FlushFollows ==
  ASSUME NEW b, Ready(b)
  PROVE  Follows(b, FlushBits(b), Item("flush", 0))
<1> DEFINE item == Item("flush", 0)
           x == FlushBits(b)
<1>1. Appended(b, x, <<>>)
  BY FlushBitsAppends
<1>2. ASSUME NEW r
      PROVE  ItemRead(r, item) = [buf |-> ResetBitPos(r), ok |-> TRUE]
  BY DEF ItemRead, Item, Returned
<1>3. NextByte(b) \in Nat /\ NextByte(b) + Len(<<>>) = NextByte(b) /\ <<>> \in Seq(Byte)
  BY ReadyIs
<1> HIDE DEF x, item
<1>4. ASSUME NEW S \in Seq(Byte), NEW start \in Nat, NEW r,
             start <= b.wpos, Holds(S, x, start), Synced(r, b, S)
      PROVE  ItemRead(r, item).ok /\ Synced(ItemRead(r, item).buf, x, S)
  <2> DEFINE c == ResetBitPos(r)
  <2>1. r \in Buffer /\ r.storage = S /\ r.rpos = NextByte(b) /\ r.bitpos \in 0..8
    BY <1>4, SyncedAt DEF At
  <2>2. ReadFrom(r, c) /\ c.rpos = r.rpos
    BY <2>1, ResetBitPosReads
  <2>3. c.bitpos = 8
    BY <2>1 DEF ResetBitPos, Buffer, InitialBitPos
  <2> HIDE DEF c
  <2>4. At(c, S, NextByte(b) + Len(<<>>))
    BY <1>3, <2>1, <2>2 DEF At, ReadFrom
  <2>5. Synced(c, x, S)
    BY <1>1, <2>3, <2>4, AtSynced
  <2> QED  BY <1>2, <2>5 DEF c
<1>5. Follows(b, x, item)
  BY <1>1, <1>3, <1>4, AppendedFollows
<1> QED  BY <1>5 DEF x, item

-----------------------------------------------------------------------------
(* C strings are read back.                                                *)

\* A C string in memory.
Terminated(text) == text \o <<0>>

\* operator<<(std::string).
LEMMA WriteCStringAppends ==
  ASSUME NEW b, Ready(b), NEW text \in Seq(Byte)
  PROVE  Appended(b, WriteCString(b, text), Terminated(text))
<1>1. <<0>> \in Seq(Byte)
  BY DEF Byte
<1>2. CASE text = <<>>
  <2>1. WriteCString(b, text) = Append_(b, <<0>>) /\ Terminated(text) = <<0>>
    BY <1>2 DEF WriteCString, WriteString, Terminated
  <2> QED  BY <1>1, <2>1, AppendAppends
<1>3. CASE text # <<>>
  <2> DEFINE c == Append_(b, text)
  <2>1. WriteCString(b, text) = Append_(c, <<0>>)
    BY <1>3 DEF WriteCString, WriteString
  <2>2. Appended(b, c, text)
    BY AppendAppends
  <2> HIDE DEF c
  <2>3. Ready(c)
    BY <2>2 DEF Appended
  <2>4. Appended(c, Append_(c, <<0>>), <<0>>)
    BY <1>1, <2>3, AppendAppends
  <2> QED  BY <1>1, <2>1, <2>2, <2>4, AppendedTransitive DEF Terminated
<1> QED  BY <1>2, <1>3

\* operator>>(std::string) stops at the first zero, which it consumes.
LEMMA ReadCStringAt ==
  ASSUME NEW text \in Seq(Byte \ {0}), NEW S \in Seq(Byte), NEW p \in Nat, NEW r, At(r, S, p),
         r.bitpos \in 0..8, LiesAt(Terminated(text), S, p)
  PROVE  LET read == ReadCString(r)
         IN  /\ read.ok
             /\ read.value = text
             /\ At(read.buf, S, p + Len(Terminated(text)))
             /\ read.buf.bitpos = 8
<1> DEFINE n == Len(text)
           s == Terminated(text)
           rest == SubSeq(r.storage, r.rpos + 1, Size(r))
           zeros == {i \in 1..Len(rest) : rest[i] = 0}
           first == CHOOSE i \in zeros : \A j \in zeros : i <= j
           got == SubSeq(rest, 1, first - 1)
<1>1. r \in Buffer /\ r.storage = S /\ r.rpos = p /\ Size(r) = Len(S) /\ Len(S) \in Nat
  BY DEF At, Size
<1>2. n \in Nat /\ Len(s) = n + 1 /\ s[n + 1] = 0 /\ \A i \in 1..n : s[i] = text[i] /\ text[i] # 0
  <2>1. 0 \in Byte /\ text \in Seq(Byte) /\ \A i \in 1..n : text[i] \in Byte \ {0}
    BY DEF Byte
  <2> QED  BY <2>1 DEF Terminated
<1>3. p + (n + 1) <= Len(S) /\ S[p + (n + 1)] = 0 /\ \A i \in 1..n : S[p + i] = text[i] /\ text[i] # 0
  <2>1. p + Len(s) <= Len(S) /\ \A i \in 1..Len(s) : S[p + i] = s[i]
    BY DEF LiesAt
  <2>2. n + 1 \in 1..Len(s) /\ \A i \in 1..n : i \in 1..Len(s)
    BY <1>2
  <2> HIDE DEF s, n
  <2> QED  BY <1>2, <2>1, <2>2
<1>4. /\ rest \in Seq(Byte) /\ Len(rest) = Len(S) - p
      /\ \A i \in 1..Len(rest) : rest[i] = S[p + i]
  <2>1. \A i \in p + 1 .. Len(S) : S[i] \in Byte
    OBVIOUS
  <2>2. p + 1 \in Int /\ Len(S) \in Int /\ p + 1 <= Len(S)
    BY <1>1, <1>2, <1>3
  <2>3. rest = SubSeq(S, p + 1, Len(S))
    BY <1>1
  <2> HIDE DEF rest
  <2>4. /\ rest \in Seq(Byte)
        /\ Len(rest) = (IF p + 1 <= Len(S) THEN Len(S) - (p + 1) + 1 ELSE 0)
        /\ \A i \in 1 .. Len(S) - (p + 1) + 1 : rest[i] = S[(p + 1) + i - 1]
    BY <2>1, <2>2, <2>3, SubSeqProperties
  <2>5. Len(rest) = Len(S) - p /\ Len(S) - (p + 1) + 1 = Len(S) - p
    BY <1>1, <2>2, <2>4
  <2>6. ASSUME NEW i \in 1..Len(rest) PROVE rest[i] = S[p + i]
    <3>1. i \in 1 .. Len(S) - (p + 1) + 1 /\ (p + 1) + i - 1 = p + i
      BY <2>5
    <3>2. rest[i] = S[(p + 1) + i - 1]
      BY <2>4, <3>1
    <3> QED  BY <3>1, <3>2
  <2> QED  BY <2>4, <2>5, <2>6
<1>5. ReadCString(r) = IF r.rpos >= Size(r) THEN Returned(r, <<>>)
                       ELSE IF zeros = {} THEN Read(r, Len(rest))
                       ELSE Returned(Read(r, first).buf, got)
  BY DEF ReadCString
<1> HIDE DEF rest, s, n
<1>6. n + 1 \in zeros /\ \A j \in zeros : n + 1 <= j
  <2>1. n + 1 \in 1..Len(rest) /\ \A i \in 1..n : i \in 1..Len(rest)
    BY <1>1, <1>2, <1>3, <1>4
  <2>2. rest[n + 1] = 0 /\ \A i \in 1..n : rest[i] # 0
    BY <2>1, <1>3, <1>4
  <2> QED  BY <1>2, <2>1, <2>2
<1>7. first = n + 1
  <2>1. first \in zeros /\ \A j \in zeros : first <= j
    BY <1>6
  <2>2. \A j \in zeros : j \in Nat
    BY <1>4
  <2> HIDE DEF first, zeros
  <2>3. first <= n + 1 /\ n + 1 <= first /\ first \in Nat
    BY <1>6, <2>1, <2>2
  <2> QED  BY <1>2, <2>3
<1>8. ~(r.rpos >= Size(r)) /\ zeros # {}
  <2>1. zeros # {}
    BY <1>6
  <2> QED  BY <2>1, <1>1, <1>2, <1>3
<1> HIDE DEF first, zeros
<1>9. got = text
  <2>1. 1 \in Int /\ first - 1 \in Int /\ first - 1 = n
    BY <1>2, <1>7
  <2>2. \A i \in 1 .. first - 1 : i \in 1..Len(rest)
    BY <1>1, <1>2, <1>3, <1>4, <1>7
  <2>3. \A i \in 1 .. first - 1 : rest[i] \in Byte
    BY <1>4, <2>2
  <2>4. /\ got \in Seq(Byte)
        /\ Len(got) = (IF 1 <= first - 1 THEN (first - 1) - 1 + 1 ELSE 0)
        /\ \A i \in 1 .. (first - 1) - 1 + 1 : got[i] = rest[1 + i - 1]
    BY <2>1, <2>3, SubSeqProperties
  <2> HIDE DEF got
  <2>5. Len(got) = n /\ (first - 1) - 1 + 1 = n
    BY <1>2, <1>7, <2>4
  <2>6. ASSUME NEW i \in 1..n PROVE got[i] = text[i]
    <3>1. i \in 1 .. (first - 1) - 1 + 1 /\ 1 + i - 1 = i /\ i \in 1..Len(rest)
      BY <2>1, <2>2, <2>5
    <3>2. got[i] = rest[i]
      BY <2>4, <3>1
    <3> QED  BY <3>1, <3>2, <1>3, <1>4
  <2>7. text \in Seq(Byte) /\ Len(text) = n
    BY DEF n
  <2> QED  BY <2>4, <2>5, <2>6, <2>7, SameBytes
<1>10. At(Read(r, n + 1).buf, S, p + (n + 1)) /\ Read(r, n + 1).buf.bitpos = 8
  <2>1. n + 1 \in Nat
    BY <1>2
  <2>2. /\ At(Read(r, n + 1).buf, S, p + (n + 1))
        /\ Read(r, n + 1).buf.bitpos = IF r.bitpos > 7 THEN r.bitpos ELSE 8
    BY <1>3, <2>1, ReadAt
  <2> QED  BY <2>2
<1>11. ReadCString(r) = Returned(Read(r, n + 1).buf, text)
  BY <1>5, <1>7, <1>8, <1>9
<1> QED  BY <1>2, <1>10, <1>11 DEF Returned, s

\* The bytes that a write of bytes leaves.
LEMMA AppendedLies ==
  ASSUME NEW b, Ready(b), NEW x, NEW s \in Seq(Byte), Appended(b, x, s),
         NEW S \in Seq(Byte), NEW start \in Nat, start <= b.wpos, Holds(S, x, start)
  PROVE  LiesAt(s, S, NextByte(b))
BY HoldsAppended DEF LiesAt

\* operator<<(std::string) and operator>>(std::string).
LEMMA CStringFollows ==
  ASSUME NEW b, Ready(b), NEW text \in Seq(Byte \ {0})
  PROVE  Follows(b, WriteCString(b, text), Item("cstring", text))
<1> DEFINE item == Item("cstring", text)
           x == WriteCString(b, text)
           s == Terminated(text)
<1>0. text \in Seq(Byte) /\ <<0>> \in Seq(Byte) /\ s \in Seq(Byte)
  <2>1. text \in Seq(Byte) /\ <<0>> \in Seq(Byte)
    BY DEF Byte
  <2> QED  BY <2>1 DEF Terminated
<1>1. Appended(b, x, s)
  BY <1>0, WriteCStringAppends
<1>2. ASSUME NEW r
      PROVE  ItemRead(r, item) = [buf |-> ReadCString(r).buf,
                                  ok |-> ReadCString(r).ok /\ ReadCString(r).value = text]
  BY DEF ItemRead, Item
<1> HIDE DEF x, item
<1>3. ASSUME NEW S \in Seq(Byte), NEW start \in Nat, NEW r,
             start <= b.wpos, Holds(S, x, start), Synced(r, b, S)
      PROVE  ItemRead(r, item).ok /\ Synced(ItemRead(r, item).buf, x, S)
  <2> DEFINE read == ReadCString(r)
  <2>1. At(r, S, NextByte(b)) /\ r.bitpos \in 0..8 /\ NextByte(b) \in Nat
    BY <1>3, SyncedAt, ReadyIs
  <2>2. LiesAt(s, S, NextByte(b))
    <3> HIDE DEF s
    <3> QED  BY <1>0, <1>1, <1>3, AppendedLies
  <2>3. read.ok /\ read.value = text /\ At(read.buf, S, NextByte(b) + Len(s)) /\ read.buf.bitpos = 8
    BY <2>1, <2>2, ReadCStringAt
  <2> HIDE DEF read, s
  <2>4. Synced(read.buf, x, S)
    BY <1>1, <2>3, AtSynced
  <2>5. ItemRead(r, item).ok /\ ItemRead(r, item).buf = read.buf
    BY <1>2, <2>3, RightResult DEF read
  <2> QED  BY <2>4, <2>5
<1>4. Follows(b, x, item)
  <2> HIDE DEF s
  <2> QED  BY <1>0, <1>1, <1>3, AppendedFollows
<1> QED  BY <1>4 DEF x, item

-----------------------------------------------------------------------------
(* Packed numbers are read back.                                           *)

\* Two sequences that lie one after the other.
LEMMA LiesApart ==
  ASSUME NEW s \in Seq(Byte), NEW t \in Seq(Byte), NEW S \in Seq(Byte), NEW p \in Nat,
         LiesAt(s \o t, S, p)
  PROVE  LiesAt(s, S, p) /\ LiesAt(t, S, p + Len(s))
<1>1. Len(s) \in Nat /\ Len(t) \in Nat /\ Len(s \o t) = Len(s) + Len(t) /\ Len(S) \in Nat
  OBVIOUS
<1>2. p + (Len(s) + Len(t)) <= Len(S) /\ \A j \in 1..Len(s) + Len(t) : S[p + j] = (s \o t)[j]
  BY <1>1 DEF LiesAt
<1>3. \A j \in 1..Len(s) : (s \o t)[j] = s[j]
  OBVIOUS
<1>4. \A j \in 1..Len(t) : (s \o t)[Len(s) + j] = t[j]
  OBVIOUS
<1>5. \A j \in 1..Len(s) : S[p + j] = s[j]
  <2> TAKE j \in 1..Len(s)
  <2>1. j \in 1..Len(s) + Len(t)
    BY <1>1
  <2> QED  BY <2>1, <1>2, <1>3
<1>6. \A j \in 1..Len(t) : S[(p + Len(s)) + j] = t[j]
  <2> TAKE j \in 1..Len(t)
  <2>1. Len(s) + j \in 1..Len(s) + Len(t) /\ p + (Len(s) + j) = (p + Len(s)) + j
    BY <1>1
  <2> QED  BY <2>1, <1>2, <1>4
<1>7. p + Len(s) <= Len(S) /\ (p + Len(s)) + Len(t) <= Len(S)
  BY <1>1, <1>2
<1> QED  BY <1>5, <1>6, <1>7 DEF LiesAt

\* What a 128-bit number is written as.
PackedBytes128(low, high) == ((<<Mask(low)>> \o <<Mask(high)>>) \o Packed(low)) \o Packed(high)

\* LuaPacket::WriteInt128.
LEMMA WritePackedAppends ==
  ASSUME NEW b, Ready(b), NEW low \in Word, NEW high \in Word
  PROVE  Appended(b, WritePacked(b, low, high), PackedBytes128(low, high))
<1> DEFINE ml == <<Mask(low)>>
           mh == <<Mask(high)>>
           c == Append_(b, ml)
           d == Append_(c, mh)
           e == WriteString(d, Packed(low))
           f == WriteString(e, Packed(high))
<1>1. ml \in Seq(Byte) /\ mh \in Seq(Byte)
  BY MaskIsByte
<1>2. Packed(low) \in Seq(Byte) /\ Packed(high) \in Seq(Byte)
  BY PackedIsBytes
<1>3. WritePacked(b, low, high) = f
  BY DEF WritePacked
<1>4. PackedBytes128(low, high) = ((ml \o mh) \o Packed(low)) \o Packed(high)
  BY DEF PackedBytes128
<1> HIDE DEF ml, mh
<1>5. ml \o mh \in Seq(Byte) /\ (ml \o mh) \o Packed(low) \in Seq(Byte)
  BY <1>1, <1>2
<1>6. Appended(b, c, ml)
  BY <1>1, AppendAppends
<1>7. Ready(c)
  BY <1>6 DEF Appended
<1> HIDE DEF c
<1>8. Appended(c, d, mh)
  BY <1>1, <1>7, AppendAppends
<1>9. Ready(d) /\ d.bitpos = InitialBitPos
  BY <1>8 DEF Appended
<1> HIDE DEF d
<1>10. Appended(d, e, Packed(low))
  BY <1>2, <1>9, WriteStringAppends
<1>11. Ready(e) /\ e.bitpos = InitialBitPos
  BY <1>10 DEF Appended
<1> HIDE DEF e
<1>12. Appended(e, f, Packed(high))
  BY <1>2, <1>11, WriteStringAppends
<1> HIDE DEF f
<1>13. Appended(b, d, ml \o mh)
  BY <1>1, <1>6, <1>8, AppendedTransitive
<1>14. Appended(b, e, (ml \o mh) \o Packed(low))
  BY <1>2, <1>5, <1>10, <1>13, AppendedTransitive
<1>15. Appended(b, f, ((ml \o mh) \o Packed(low)) \o Packed(high))
  BY <1>2, <1>5, <1>12, <1>14, AppendedTransitive
<1> QED  BY <1>3, <1>4, <1>15

\* LuaPacket::ReadInt128 reads both halves back.
LEMMA ReadInt128At ==
  ASSUME NEW low \in Word, NEW high \in Word, NEW S \in Seq(Byte), NEW p \in Nat,
         NEW r, At(r, S, p), r.bitpos \in 0..8, LiesAt(PackedBytes128(low, high), S, p)
  PROVE  LET read == ReadInt128(r)
         IN  /\ read.ok
             /\ read.value = <<low, high>>
             /\ At(read.buf, S, p + Len(PackedBytes128(low, high)))
             /\ read.buf.bitpos = 8
<1> DEFINE ml == <<Mask(low)>>
           mh == <<Mask(high)>>
           pl == Packed(low)
           ph == Packed(high)
           m1 == Read(r, 1)
           m2 == Read(m1.buf, 1)
           w1 == ReadPacked(m2.buf, m1.value[1])
           w2 == ReadPacked(w1.buf, m2.value[1])
<1>1. ReadInt128(r) = IF ~m1.ok THEN m1
                      ELSE IF ~m2.ok THEN m2
                      ELSE IF ~w1.ok THEN w1
                      ELSE IF ~w2.ok THEN w2
                      ELSE Returned(w2.buf, <<w1.value, w2.value>>)
  BY DEF ReadInt128
<1>2. ml \in Seq(Byte) /\ mh \in Seq(Byte) /\ Len(ml) = 1 /\ Len(mh) = 1
      /\ ml[1] = Mask(low) /\ mh[1] = Mask(high)
  BY MaskIsByte
<1>3. pl \in Seq(Byte) /\ ph \in Seq(Byte) /\ Len(pl) \in Nat /\ Len(ph) \in Nat
  <2>1. pl \in Seq(Byte) /\ ph \in Seq(Byte)
    BY PackedIsBytes
  <2> HIDE DEF pl, ph
  <2> QED  BY <2>1
<1>4. LiesAt(((ml \o mh) \o pl) \o ph, S, p)
      /\ PackedBytes128(low, high) = ((ml \o mh) \o pl) \o ph
  BY DEF PackedBytes128
<1>5. pl = Packed(low) /\ ph = Packed(high)
  OBVIOUS
<1> HIDE DEF ml, mh, pl, ph
<1>6. ml \o mh \in Seq(Byte) /\ (ml \o mh) \o pl \in Seq(Byte)
      /\ Len(ml \o mh) = 2 /\ Len((ml \o mh) \o pl) = 2 + Len(pl)
      /\ Len(((ml \o mh) \o pl) \o ph) = 2 + Len(pl) + Len(ph)
  <2>1. \A s \in Seq(Byte), t \in Seq(Byte) : s \o t \in Seq(Byte) /\ Len(s \o t) = Len(s) + Len(t)
    OBVIOUS
  <2>2. ml \o mh \in Seq(Byte) /\ Len(ml \o mh) = 2
    <3>1. ml \in Seq(Byte) /\ mh \in Seq(Byte) /\ Len(ml) = 1 /\ Len(mh) = 1
      BY <1>2
    <3>2. ml \o mh \in Seq(Byte) /\ Len(ml \o mh) = Len(ml) + Len(mh)
      BY <2>1, <3>1
    <3> QED  BY <3>1, <3>2
  <2>3. (ml \o mh) \o pl \in Seq(Byte) /\ Len((ml \o mh) \o pl) = 2 + Len(pl)
    BY <1>3, <2>1, <2>2
  <2>4. Len(((ml \o mh) \o pl) \o ph) = 2 + Len(pl) + Len(ph)
    BY <1>3, <2>1, <2>3
  <2> QED  BY <2>2, <2>3, <2>4
<1>7. LiesAt((ml \o mh) \o pl, S, p) /\ LiesAt(ph, S, p + Len((ml \o mh) \o pl))
  BY <1>3, <1>4, <1>6, LiesApart
<1>8. LiesAt(ml \o mh, S, p) /\ LiesAt(pl, S, p + Len(ml \o mh))
  BY <1>3, <1>6, <1>7, LiesApart
<1>9. LiesAt(ml, S, p) /\ LiesAt(mh, S, p + Len(ml))
  BY <1>2, <1>8, LiesApart
<1>10. LiesAt(mh, S, p + 1) /\ LiesAt(pl, S, p + 2) /\ LiesAt(ph, S, p + (2 + Len(pl)))
  BY <1>2, <1>6, <1>7, <1>8, <1>9
<1>11. p + 1 <= Len(S) /\ S[p + 1] = Mask(low) /\ (p + 1) + 1 <= Len(S) /\ S[(p + 1) + 1] = Mask(high)
  <2>1. 1 \in 1..1
    OBVIOUS
  <2> QED  BY <2>1, <1>2, <1>9, <1>10 DEF LiesAt
<1>12. m1.ok /\ At(m1.buf, S, p + 1) /\ m1.value[1] = Mask(low) /\ m1.buf.bitpos = 8
  <2>0. /\ S \in Seq(Byte) /\ p \in Nat /\ At(r, S, p)
        /\ 1 \in Nat /\ p + 1 <= Len(S)
    BY <1>11
  <2>1. /\ m1.ok
        /\ \A i \in 1..1 : m1.value[i] = S[p + i]
        /\ At(m1.buf, S, p + 1)
        /\ m1.buf.bitpos = IF r.bitpos > 7 THEN r.bitpos ELSE 8
    BY ONLY <2>0, ReadAt
  <2> HIDE DEF m1
  <2>2. 1 \in 1..1
    OBVIOUS
  <2> QED  BY <2>1, <2>2, <1>11
<1>13. m2.ok /\ At(m2.buf, S, p + 2) /\ m2.value[1] = Mask(high) /\ m2.buf.bitpos = 8
  <2> HIDE DEF m1
  <2>0. p + 1 \in Nat /\ 1 \in Nat
    OBVIOUS
  <2>1. /\ m2.ok
        /\ \A i \in 1..1 : m2.value[i] = S[(p + 1) + i]
        /\ At(m2.buf, S, (p + 1) + 1)
        /\ m2.buf.bitpos = IF m1.buf.bitpos > 7 THEN m1.buf.bitpos ELSE 8
    BY <2>0, <1>11, <1>12, ReadAt
  <2> HIDE DEF m2
  <2>2. 1 \in 1..1 /\ (p + 1) + 1 = p + 2
    OBVIOUS
  <2> QED  BY <2>1, <2>2, <1>11, <1>12
<1> HIDE DEF m1, m2
<1>14. w1.ok /\ w1.value = low /\ At(w1.buf, S, (p + 2) + Len(pl)) /\ w1.buf.bitpos = 8
  <2>1. p + 2 \in Nat
    OBVIOUS
  <2>2. LiesAt(Packed(low), S, p + 2)
    BY <1>5, <1>10
  <2>3. w1 = ReadPacked(m2.buf, Mask(low))
    BY <1>12
  <2> HIDE DEF w1
  <2> QED  BY <2>1, <2>2, <2>3, <1>5, <1>13, ReadPackedAt
<1> HIDE DEF w1
<1>15. w2.ok /\ w2.value = high /\ At(w2.buf, S, (p + (2 + Len(pl))) + Len(ph)) /\ w2.buf.bitpos = 8
  <2>1. p + (2 + Len(pl)) \in Nat /\ (p + 2) + Len(pl) = p + (2 + Len(pl))
    BY <1>3
  <2>2. LiesAt(Packed(high), S, p + (2 + Len(pl)))
    BY <1>5, <1>10
  <2>3. w2 = ReadPacked(w1.buf, Mask(high))
    BY <1>13
  <2>4. At(w1.buf, S, p + (2 + Len(pl)))
    BY <2>1, <1>14
  <2> HIDE DEF w2
  <2> QED  BY <2>1, <2>2, <2>3, <2>4, <1>5, <1>14, ReadPackedAt
<1> HIDE DEF w2
<1>16. ReadInt128(r) = Returned(w2.buf, <<low, high>>)
  BY <1>1, <1>12, <1>13, <1>14, <1>15
<1>17. (p + (2 + Len(pl))) + Len(ph) = p + Len(PackedBytes128(low, high))
  BY <1>3, <1>4, <1>6
<1> QED  BY <1>15, <1>16, <1>17 DEF Returned

\* LuaPacket::WriteInt128 and ReadInt128.
LEMMA PackedFollows ==
  ASSUME NEW b, Ready(b), NEW low \in Word, NEW high \in Word
  PROVE  Follows(b, WritePacked(b, low, high), Item("packed", <<low, high>>))
<1> DEFINE item == Item("packed", <<low, high>>)
           x == WritePacked(b, low, high)
           s == PackedBytes128(low, high)
<1>0. s \in Seq(Byte)
  <2>1. <<Mask(low)>> \in Seq(Byte) /\ <<Mask(high)>> \in Seq(Byte)
    BY MaskIsByte
  <2>2. Packed(low) \in Seq(Byte) /\ Packed(high) \in Seq(Byte)
    BY PackedIsBytes
  <2> QED  BY <2>1, <2>2 DEF PackedBytes128
<1>1. Appended(b, x, s)
  BY WritePackedAppends
<1>2. ASSUME NEW r
      PROVE  ItemRead(r, item) = [buf |-> ReadInt128(r).buf,
                                  ok |-> ReadInt128(r).ok /\ ReadInt128(r).value = <<low, high>>]
  BY DEF ItemRead, Item
<1> HIDE DEF x, item
<1>3. ASSUME NEW S \in Seq(Byte), NEW start \in Nat, NEW r,
             start <= b.wpos, Holds(S, x, start), Synced(r, b, S)
      PROVE  ItemRead(r, item).ok /\ Synced(ItemRead(r, item).buf, x, S)
  <2> DEFINE read == ReadInt128(r)
  <2>1. At(r, S, NextByte(b)) /\ r.bitpos \in 0..8 /\ NextByte(b) \in Nat
    BY <1>3, SyncedAt, ReadyIs
  <2>2. LiesAt(s, S, NextByte(b))
    <3> HIDE DEF s
    <3> QED  BY <1>0, <1>1, <1>3, AppendedLies
  <2>3. /\ read.ok
        /\ read.value = <<low, high>>
        /\ At(read.buf, S, NextByte(b) + Len(s))
        /\ read.buf.bitpos = 8
    BY <2>1, <2>2, ReadInt128At
  <2> HIDE DEF read, s
  <2>4. Synced(read.buf, x, S)
    BY <1>1, <2>3, AtSynced
  <2>5. ItemRead(r, item).ok /\ ItemRead(r, item).buf = read.buf
    BY <1>2, <2>3, RightResult DEF read
  <2> QED  BY <2>4, <2>5
<1>4. Follows(b, x, item)
  <2> HIDE DEF s
  <2> QED  BY <1>0, <1>1, <1>3, AppendedFollows
<1> QED  BY <1>4 DEF x, item

-----------------------------------------------------------------------------
(* Bits are read back.                                                     *)

\* One bit, written and read.  A byte is begun by the first of its bits, for the writer as
\* for the reader, and it is stored with the last.
LEMMA BitFollows ==
  ASSUME NEW b, Ready(b), NEW bit \in {0, 1}, NEW x, x = WriteBit(b, bit)
  PROVE  /\ Ready(x) /\ x.wpos >= b.wpos
         /\ \A S \in Seq(Byte), start \in Nat :
              start <= b.wpos /\ Holds(S, x, start) =>
                /\ Holds(S, b, start)
                /\ \A r : Synced(r, b, S) =>
                     ReadBit(r).ok /\ ReadBit(r).value = bit /\ Synced(ReadBit(r).buf, x, S)
<1> DEFINE p == b.bitpos - 1
           c == IF bit # 0 THEN OrShifted(b.cur, p) ELSE b.cur
<1>1. /\ b \in Buffer /\ b.storage \in Seq(Byte) /\ Size(b) = Len(b.storage)
      /\ Len(b.storage) \in Nat /\ b.wpos \in Nat /\ b.wpos <= Len(b.storage)
      /\ b.bitpos \in 1..8 /\ b.cur \in Byte
  BY ReadyIs
<1>2. p \in 0..7 /\ p + 1 = b.bitpos /\ Decremented(b.bitpos) = p
  BY <1>1 DEF Decremented
<1>3. x = IF p = 0 THEN Store([b EXCEPT !.bitpos = InitialBitPos, !.cur = 0], <<c>>)
          ELSE [b EXCEPT !.bitpos = p, !.cur = c]
  BY <1>2 DEF WriteBit
<1>4. (b.cur % Shifted(p + 1)) = 0
  BY <1>2 DEF Ready
<1>5. /\ c \in Byte
      /\ (c % Shifted(p)) = 0
      /\ \A v \in Byte : v \div Shifted(p) = c \div Shifted(p) =>
                           /\ v \div Shifted(p + 1) = b.cur \div Shifted(p + 1)
                           /\ BitOf(v, p) = bit
  <2> HIDE DEF p
  <2> QED  BY <1>1, <1>2, <1>4, NextBit
<1> HIDE DEF p, c
<1>6. InitialBitPos = 8 /\ InitialBitPos \in 0..SizeMax /\ 0 \in Byte /\ SizeMax \in Nat
      /\ SizeMax >= 31
  BY SizeMaxIsLarge DEF InitialBitPos, Byte
\* The next byte that the writer begins or goes on with.
<1> DEFINE Agrees(S) == Len(S) > b.wpos /\ S[b.wpos + 1] \in Byte
                        /\ S[b.wpos + 1] \div Shifted(p) = c \div Shifted(p)
\* What of S the writer has not written is not looked at.
<1>7. ASSUME NEW S \in Seq(Byte), NEW start \in Nat, start <= b.wpos, Agrees(S),
             \A i \in start + 1 .. b.wpos : S[i] = b.storage[i]
      PROVE  Holds(S, b, start)
  <2>1. Len(S) \in Nat
    OBVIOUS
  <2>2. b.bitpos # InitialBitPos => S[b.wpos + 1] \div Shifted(b.bitpos) = b.cur \div Shifted(b.bitpos)
    BY <1>2, <1>5, <1>7
  <2> QED  BY <1>1, <1>7, <2>1, <2>2 DEF Holds
\* The reader gets the bit, and has the byte in progress.
<1>8. ASSUME NEW S \in Seq(Byte), NEW r, Synced(r, b, S), Agrees(S)
      PROVE  /\ ReadBit(r).ok /\ ReadBit(r).value = bit
             /\ At(ReadBit(r).buf, S, b.wpos + 1)
             /\ ReadBit(r).buf.bitpos = 7 - p /\ ReadBit(r).buf.cur = S[b.wpos + 1]
  <2> DEFINE v == S[b.wpos + 1]
             n == Incremented(r.bitpos)
             d == [r EXCEPT !.bitpos = n]
             read == Read(d, 1)
             e == [read.buf EXCEPT !.bitpos = 0, !.cur = read.value[1]]
  <2>1. v \in Byte /\ BitOf(v, p) = bit
    BY <1>5, <1>8
  <2>2. r \in Buffer /\ r.storage = S
    BY <1>8 DEF Synced
  <2>3. ReadBit(r) = IF d.bitpos <= 7 THEN Returned(d, BitOf(d.cur, 7 - d.bitpos))
                     ELSE IF ~read.ok THEN read ELSE Returned(e, BitOf(read.value[1], 7))
    BY DEF ReadBit
  <2>4. r.bitpos \in 0..8 /\ n = r.bitpos + 1
    <3>1. r.bitpos \in 0..8
      BY <1>8, SyncedAt
    <3> QED  BY <3>1, <1>6 DEF Incremented
  <2>5. n \in 0..SizeMax
    BY <2>4, <1>6
  <2> HIDE DEF n
  <2>6. d \in Buffer /\ d.storage = S /\ d.rpos = r.rpos /\ d.bitpos = n /\ d.cur = r.cur
    BY <2>2, <2>5 DEF Buffer
  <2> HIDE DEF d, v
  <2>7. CASE b.bitpos # InitialBitPos
    <3>1. r.rpos = b.wpos + 1 /\ r.bitpos = 7 - b.bitpos /\ r.cur = v
      BY <1>8, <2>7 DEF Synced, v
    <3>2. n = 7 - p /\ n <= 7 /\ 7 - n = p
      BY <1>1, <1>2, <2>4, <3>1
    <3>3. ReadBit(r) = Returned(d, BitOf(v, p))
      BY <2>3, <2>6, <3>1, <3>2
    <3> QED  BY <2>1, <2>6, <3>1, <3>2, <3>3 DEF Returned, At, v
  <2>8. CASE b.bitpos = InitialBitPos
    <3>1. r.rpos = b.wpos /\ r.bitpos \in {7, 8} /\ p = 7
      BY <1>2, <1>6, <1>8, <2>8 DEF Synced
    <3>2. n > 7
      BY <2>4, <3>1
    <3>3. At(d, S, b.wpos) /\ b.wpos + 1 <= Len(S) /\ 1 \in Nat
      <4>1. Len(S) \in Nat
        OBVIOUS
      <4> QED  BY <4>1, <1>1, <1>8, <2>6, <3>1 DEF At
    <3>4. /\ read.ok
          /\ read.value \in Bytes(1)
          /\ \A i \in 1..1 : read.value[i] = S[b.wpos + i]
          /\ At(read.buf, S, b.wpos + 1)
      BY <1>1, <3>3, ReadAt
    <3>5. 1 \in 1..1
      OBVIOUS
    <3> HIDE DEF read
    <3>6. read.value[1] = v
      BY <3>4, <3>5 DEF v
    <3>7. ReadBit(r) = Returned(e, BitOf(v, 7))
      <4>1. ~(d.bitpos <= 7)
        BY <2>4, <2>6, <3>2
      <4> HIDE DEF e
      <4> QED  BY <2>3, <3>4, <3>6, <4>1
    <3>8. At(e, S, b.wpos + 1) /\ e.bitpos = 0 /\ e.cur = v
      <4>1. read.buf \in Buffer /\ read.buf.storage = S /\ read.buf.rpos = b.wpos + 1
        BY <3>4 DEF At
      <4>2. 0 \in 0..SizeMax
        BY <1>6
      <4> QED  BY <4>1, <4>2, <3>6, <2>1 DEF At, Buffer
    <3> HIDE DEF e
    <3> QED  BY <2>1, <3>1, <3>7, <3>8 DEF Returned, v
  <2> QED  BY <2>7, <2>8
<1>9. CASE p # 0
  <2>1. x = [b EXCEPT !.bitpos = p, !.cur = c]
    BY <1>3, <1>9
  <2>2. p \in 0..SizeMax
    BY <1>2, <1>6
  <2>3. x \in Buffer /\ x.storage = b.storage /\ x.wpos = b.wpos /\ x.bitpos = p /\ x.cur = c
    BY <1>1, <1>5, <2>1, <2>2 DEF Buffer
  <2>4. Ready(x) /\ x.wpos >= b.wpos /\ p # InitialBitPos
    BY <1>1, <1>2, <1>5, <1>6, <1>9, <2>3 DEF Ready, Size
  <2>5. ASSUME NEW S \in Seq(Byte), NEW start \in Nat, start <= b.wpos, Holds(S, x, start)
        PROVE  Agrees(S) /\ \A i \in start + 1 .. b.wpos : S[i] = b.storage[i]
    <3>1. Len(S) > b.wpos /\ S[b.wpos + 1] \div Shifted(p) = c \div Shifted(p)
      BY <2>3, <2>4, <2>5 DEF Holds
    <3>2. S[b.wpos + 1] \in Byte
      BY <1>1, <3>1
    <3> QED  BY <2>3, <2>5, <3>1, <3>2 DEF Holds
  <2>6. ASSUME NEW S, NEW r, At(r, S, b.wpos + 1), r.bitpos = 7 - p, r.cur = S[b.wpos + 1]
        PROVE  Synced(r, x, S)
    BY <2>3, <2>4, <2>6 DEF Synced, At
  <2> HIDE DEF Agrees
  <2> QED  BY <2>4, <2>5, <2>6, <1>7, <1>8
<1>10. CASE p = 0
  <2> DEFINE d == [b EXCEPT !.bitpos = InitialBitPos, !.cur = 0]
  <2>1. x = Store(d, <<c>>)
    BY <1>3, <1>10
  <2>2. d \in Buffer /\ d.storage = b.storage /\ d.wpos = b.wpos /\ d.bitpos = InitialBitPos
        /\ d.cur = 0
    BY <1>1, <1>6 DEF Buffer
  <2> HIDE DEF d
  <2>3. Ready(d)
    <3>1. (0 % 256) = 0
      OBVIOUS
    <3> QED  BY <1>1, <2>2, <3>1, Powers DEF Ready, Size, InitialBitPos
  <2>4. <<c>> \in Seq(Byte) /\ Len(<<c>>) = 1 /\ <<c>>[1] = c /\ 1 \in 1..1
    BY <1>5
  <2>5. Appended(d, x, <<c>>)
    BY <2>1, <2>2, <2>3, <2>4, StoreAppends
  <2>6. NextByte(d) = b.wpos
    BY <2>2 DEF NextByte
  <2>7. Ready(x) /\ x.bitpos = InitialBitPos /\ x.wpos = b.wpos + 1 /\ x.wpos >= b.wpos
    BY <1>1, <2>4, <2>5, <2>6 DEF Appended
  <2>8. ASSUME NEW S \in Seq(Byte), NEW start \in Nat, start <= b.wpos, Holds(S, x, start)
        PROVE  Agrees(S) /\ \A i \in start + 1 .. b.wpos : S[i] = b.storage[i]
    <3>1. Holds(S, d, start) /\ NextByte(d) + Len(<<c>>) <= Len(S)
          /\ \A i \in 1..Len(<<c>>) : S[NextByte(d) + i] = <<c>>[i]
      <4>1. start <= d.wpos /\ Holds(S, x, start)
        BY <2>2, <2>8
      <4> DEFINE s == <<c>>
      <4>2. s \in Seq(Byte) /\ Appended(d, x, s)
        BY <2>4, <2>5
      <4> HIDE DEF s
      <4>3. Holds(S, d, start) /\ NextByte(d) + Len(s) <= Len(S)
            /\ \A i \in 1..Len(s) : S[NextByte(d) + i] = s[i]
        BY <2>3, <4>1, <4>2, HoldsAppended
      <4> QED  BY <4>3 DEF s
    <3>2. S[b.wpos + 1] = c /\ b.wpos + 1 <= Len(S)
      BY <2>4, <2>6, <3>1
    <3>3. Len(S) > b.wpos /\ S[b.wpos + 1] \in Byte
      BY <1>1, <1>5, <3>2
    <3> QED  BY <2>2, <3>1, <3>2, <3>3 DEF Holds
  <2>9. ASSUME NEW S, NEW r, At(r, S, b.wpos + 1), r.bitpos = 7 - p
        PROVE  Synced(r, x, S)
    BY <1>10, <2>7, <2>9 DEF Synced, At
  <2> HIDE DEF Agrees
  <2> QED  BY <2>7, <2>8, <2>9, <1>7, <1>8
<1> QED  BY <1>9, <1>10

\* The upper bits of a number take one more bit of it.
LEMMA BitsValue ==
  ASSUME NEW v \in Nat, NEW n \in Nat, NEW i \in 1..n
  PROVE  /\ BitOf(v, n - i) \in {0, 1}
         /\ ((v \div Shifted(n - i)) % Shifted(i))
              = 2 * ((v \div Shifted(n - (i - 1))) % Shifted(i - 1)) + BitOf(v, n - i)
<1> DEFINE d == Shifted(n - i)
           e == Shifted(i - 1)
           q == v \div d
<1>1. n - i \in Nat /\ (n - i) + 1 = n - (i - 1) /\ i - 1 \in Nat /\ (i - 1) + 1 = i
  OBVIOUS
<1>2. d \in Nat \ {0} /\ Shifted((n - i) + 1) = 2 * d
  BY <1>1, ShiftedGrows
<1>3. e \in Nat \ {0} /\ Shifted((i - 1) + 1) = 2 * e
  BY <1>1, ShiftedGrows
<1>4. Shifted(n - (i - 1)) = 2 * d /\ Shifted(i) = 2 * e
  BY <1>1, <1>2, <1>3
<1>5. BitOf(v, n - i) = (q % 2)
  BY DEF BitOf
<1> HIDE DEF d, e
<1>6. q \in Nat /\ v \div (2 * d) = q \div 2
  BY <1>2, HalvedIs
<1> HIDE DEF q
<1>7. q \div 2 \in Nat /\ (q % 2) \in {0, 1} /\ q = 2 * (q \div 2) + (q % 2)
  BY <1>6
<1>8. ((2 * (q \div 2) + (q % 2)) % (2 * e)) = 2 * ((q \div 2) % e) + (q % 2)
  BY <1>3, <1>7, RemainderGrows
<1>9. (q % (2 * e)) = 2 * ((q \div 2) % e) + (q % 2)
  BY <1>7, <1>8
<1> QED  BY <1>4, <1>5, <1>6, <1>7, <1>9 DEF d, e, q

\* a is how ReadBits reads n bits of r.
BitsReadBy(a, r, n) ==
  /\ a[0] = Returned(r, 0)
  /\ \A i \in 1..n : a[i] = BitRead(a[i - 1])

\* w is how WriteBits writes the lower n bits of v to b.
BitsWrittenBy(w, b, v, n) ==
  /\ w[0] = b
  /\ \A i \in 1..n : w[i] = WriteBit(w[i - 1], BitOf(v, n - i))

\* As many bits as have been written are read, and are the upper ones of n.
BitsRight(i, w, a, S, v, n) ==
  /\ a[i].ok
  /\ a[i].value = ((v \div Shifted(n - i)) % Shifted(i))
  /\ Synced(a[i].buf, w[i], S)

\* After i bits.
BitsDone(i, w, b, v, n) ==
  /\ Ready(w[i]) /\ w[i].wpos >= b.wpos
  /\ \A S \in Seq(Byte), start \in Nat :
       start <= b.wpos /\ Holds(S, w[i], start) =>
         /\ Holds(S, b, start)
         /\ \A r, a : Synced(r, b, S) /\ BitsReadBy(a, r, n) => BitsRight(i, w, a, S, v, n)

\* No bit has been written.
LEMMA BitsBegin ==
  ASSUME NEW b, Ready(b), NEW v \in Nat, NEW n \in Nat, NEW w, BitsWrittenBy(w, b, v, n)
  PROVE  BitsDone(0, w, b, v, n)
<1>1. w[0] = b /\ b.wpos \in Nat
  BY ReadyIs DEF BitsWrittenBy
<1>2. ASSUME NEW S, NEW r, NEW a, Synced(r, b, S), BitsReadBy(a, r, n)
      PROVE  BitsRight(0, w, a, S, v, n)
  <2>1. a[0].ok /\ a[0].value = 0 /\ a[0].buf = r
    BY <1>2 DEF BitsReadBy, Returned
  <2>2. ((v \div Shifted(n - 0)) % Shifted(0)) = 0
    <3>1. n - 0 = n /\ Shifted(n) \in Nat \ {0}
      BY ShiftedGrows
    <3> DEFINE q == v \div Shifted(n)
    <3>2. q \in Nat
      BY <3>1, HalvedIs
    <3> HIDE DEF q
    <3>3. (q % 1) = 0
      BY <3>2
    <3> QED  BY <3>1, <3>3, Powers DEF q
  <2> QED  BY <1>1, <1>2, <2>1, <2>2 DEF BitsRight
<1> QED  BY <1>1, <1>2 DEF BitsDone

\* One more bit has been written.
LEMMA BitsStep ==
  ASSUME NEW b, Ready(b), NEW v \in Nat, NEW n \in Nat, NEW w, BitsWrittenBy(w, b, v, n),
         NEW i \in 1..n, BitsDone(i - 1, w, b, v, n)
  PROVE  BitsDone(i, w, b, v, n)
<1> DEFINE y == w[i - 1]
           x == w[i]
           bit == BitOf(v, n - i)
<1>1. bit \in {0, 1}
      /\ ((v \div Shifted(n - i)) % Shifted(i))
           = 2 * ((v \div Shifted(n - (i - 1))) % Shifted(i - 1)) + bit
  BY BitsValue
<1>2. x = WriteBit(y, bit)
  BY DEF BitsWrittenBy
<1>3. Ready(y) /\ y.wpos >= b.wpos
  BY DEF BitsDone
<1> HIDE DEF bit
<1>4. /\ Ready(x) /\ x.wpos >= y.wpos
      /\ \A S \in Seq(Byte), start \in Nat :
           start <= y.wpos /\ Holds(S, x, start) =>
             /\ Holds(S, y, start)
             /\ \A r : Synced(r, y, S) =>
                  ReadBit(r).ok /\ ReadBit(r).value = bit /\ Synced(ReadBit(r).buf, x, S)
  <2> HIDE DEF x, y
  <2> QED  BY <1>1, <1>2, <1>3, BitFollows
<1>5. b.wpos \in Nat /\ y.wpos \in Nat /\ x.wpos \in Nat
  <2> HIDE DEF x, y
  <2> QED  BY <1>3, <1>4, ReadyIs
<1>6. x.wpos >= b.wpos
  <2> HIDE DEF x, y
  <2> QED  BY <1>3, <1>4, <1>5
<1>7. ASSUME NEW S \in Seq(Byte), NEW start \in Nat, start <= b.wpos, Holds(S, x, start)
      PROVE  /\ Holds(S, b, start)
             /\ \A r, a : Synced(r, b, S) /\ BitsReadBy(a, r, n) => BitsRight(i, w, a, S, v, n)
  <2>1. start <= y.wpos
    <3> HIDE DEF x, y
    <3> QED  BY <1>3, <1>5, <1>7
  <2>2. Holds(S, y, start)
    <3> HIDE DEF x, y
    <3> QED  BY <1>4, <1>7, <2>1
  <2>3. /\ Holds(S, b, start)
        /\ \A r, a : Synced(r, b, S) /\ BitsReadBy(a, r, n) => BitsRight(i - 1, w, a, S, v, n)
    BY <1>7, <2>2 DEF BitsDone
  <2>4. ASSUME NEW r, NEW a, Synced(r, b, S), BitsReadBy(a, r, n)
        PROVE  BitsRight(i, w, a, S, v, n)
    <3> DEFINE z == a[i - 1]
               next == ReadBit(z.buf)
    <3>1. z.ok /\ z.value = ((v \div Shifted(n - (i - 1))) % Shifted(i - 1)) /\ Synced(z.buf, y, S)
      BY <2>3, <2>4 DEF BitsRight
    <3>2. a[i] = BitRead(z)
      BY <2>4 DEF BitsReadBy
    <3> HIDE DEF x, y, z
    <3>3. next.ok /\ next.value = bit /\ Synced(next.buf, x, S)
      BY <1>4, <1>7, <2>1, <3>1
    <3> HIDE DEF next
    <3>4. a[i] = Returned(next.buf, 2 * z.value + next.value)
      BY <3>1, <3>2, <3>3 DEF BitRead, next
    <3>5. a[i].ok /\ a[i].buf = next.buf /\ a[i].value = 2 * z.value + next.value
      BY <3>4 DEF Returned
    <3>6. a[i].value = ((v \div Shifted(n - i)) % Shifted(i))
      BY <1>1, <3>1, <3>3, <3>5
    <3> QED  BY <3>3, <3>5, <3>6 DEF BitsRight, x
  <2> QED  BY <2>3, <2>4
<1> QED  BY <1>4, <1>6, <1>7 DEF BitsDone

\* WriteBits and ReadBits: a reader of n bits gets the lower n bits of the number.
LEMMA BitsFollow ==
  ASSUME NEW b, Ready(b), NEW v \in Nat, NEW n \in Nat
  PROVE  Follows(b, WriteBits(b, v, n), Item("bits", <<v, n>>))
<1> DEFINE item == Item("bits", <<v, n>>)
           x == WriteBits(b, v, n)
<1>0. b \in Buffer /\ n \in 0..n
  BY ReadyIs
<1>1. PICK w : BitsWrittenBy(w, b, v, n) /\ w[n] = x
  <2>1. PICK w \in [0..n -> {y \in Buffer : Grown(b, y)}] :
          /\ w[0] = b
          /\ \A i \in 1..n : w[i] = WriteBit(w[i - 1], BitOf(v, n - i))
          /\ w[n] = WriteBits(b, v, n)
    BY <1>0, WriteBitsSteps
  <2>2. BitsWrittenBy(w, b, v, n) /\ w[n] = x
    BY ONLY <2>1 DEF BitsWrittenBy
  <2> QED  BY ONLY <2>2
<1>2. ASSUME NEW r
      PROVE  ItemRead(r, item) =
               [buf |-> ReadBits(r, n).buf,
                ok |-> ReadBits(r, n).ok /\ ReadBits(r, n).value = (v % Shifted(n))]
  BY DEF ItemRead, Item
<1> HIDE DEF x, item
<1> DEFINE Done == {i \in 0..n : BitsDone(i, w, b, v, n)}
<1>3. 0 \in Done
  BY <1>1, BitsBegin
<1>4. ASSUME NEW i \in 1..n, i - 1 \in Done PROVE i \in Done
  <2>1. BitsDone(i - 1, w, b, v, n) /\ i \in 0..n
    BY <1>4
  <2> QED  BY <1>1, <2>1, BitsStep
<1>5. \A i \in 0..n : i \in Done
  <2> HIDE DEF Done
  <2> QED  BY <1>3, <1>4, UpTo
<1>6. BitsDone(n, w, b, v, n)
  BY <1>0, <1>5
<1>7. Ready(x) /\ x.wpos >= b.wpos
  BY <1>1, <1>6 DEF BitsDone
<1>8. ASSUME NEW S \in Seq(Byte), NEW start \in Nat, start <= b.wpos, Holds(S, x, start)
      PROVE  /\ Holds(S, b, start)
             /\ \A r : Synced(r, b, S) =>
                  ItemRead(r, item).ok /\ Synced(ItemRead(r, item).buf, x, S)
  <2>1. /\ Holds(S, b, start)
        /\ \A r, a : Synced(r, b, S) /\ BitsReadBy(a, r, n) => BitsRight(n, w, a, S, v, n)
    BY <1>1, <1>6, <1>8 DEF BitsDone
  <2>2. ASSUME NEW r, Synced(r, b, S)
        PROVE  ItemRead(r, item).ok /\ Synced(ItemRead(r, item).buf, x, S)
    <3> DEFINE read == ReadBits(r, n)
    <3>1. r \in Buffer
      BY <2>2 DEF Synced
    <3>2. PICK a : BitsReadBy(a, r, n) /\ a[n] = read
      BY <3>1, ReadBitsSteps DEF BitsReadBy
    <3>3. BitsRight(n, w, a, S, v, n)
      BY <2>1, <2>2, <3>2
    <3> HIDE DEF read
    <3>4. read.ok /\ read.value = ((v \div Shifted(n - n)) % Shifted(n)) /\ Synced(read.buf, x, S)
      BY <1>1, <3>2, <3>3 DEF BitsRight
    <3>5. v \div Shifted(n - n) = v
      <4>1. n - n = 0 /\ v \div 1 = v
        OBVIOUS
      <4> QED  BY <4>1, Powers
    <3>6. read.value = (v % Shifted(n))
      BY <3>4, <3>5
    <3>7. ItemRead(r, item).ok /\ ItemRead(r, item).buf = read.buf
      BY <1>2, <3>4, <3>6, RightResult DEF read
    <3> QED  BY <3>4, <3>7
  <2> QED  BY <2>1, <2>2
<1>9. Follows(b, x, item)
  BY <1>7, <1>8 DEF Follows
<1> QED  BY <1>9 DEF x, item

-----------------------------------------------------------------------------
(* Runs.                                                                   *)

\* g is how the items are read from r, one after the other, until one is wrong.
ItemsReadBy(g, items, r) ==
  /\ g[0] = [buf |-> r, ok |-> TRUE]
  /\ \A i \in 1..Len(items) :
       g[i] = IF g[i - 1].ok THEN ItemRead(g[i - 1].buf, items[i]) ELSE g[i - 1]

\* Whatever else is in the bytes S, and whatever is written behind the last bit of b: who
\* reads the items from S gets the right values, and has then read all of b.
Readable(items, start, b) ==
  /\ Ready(b) /\ start <= b.wpos
  /\ \A S \in Seq(Byte), r \in Buffer : \A g :
       Holds(S, b, start)
         /\ r.storage = S /\ r.rpos = start /\ r.bitpos = InitialBitPos
         /\ ItemsReadBy(g, items, r) =>
       g[Len(items)].ok /\ Synced(g[Len(items)].buf, b, S)

\* A run that begins.
LEMMA FreshReadable ==
  ASSUME NEW b \in Buffer, Fresh(b).clean
  PROVE  Readable(Fresh(b).items, Fresh(b).start, b)
<1>1. b.bitpos = InitialBitPos /\ b.cur = 0 /\ b.wpos <= Size(b)
      /\ Fresh(b).items = <<>> /\ Fresh(b).start = b.wpos
  BY DEF Fresh, Forgotten
<1>2. Ready(b)
  <2>1. (0 % 256) = 0
    OBVIOUS
  <2> QED  BY <1>1, <2>1, Powers DEF Ready, InitialBitPos
<1>3. b.wpos \in Nat
  BY DEF Buffer
<1>4. ASSUME NEW S, NEW r \in Buffer, NEW g, r.storage = S, r.rpos = b.wpos,
             r.bitpos = InitialBitPos, ItemsReadBy(g, <<>>, r)
      PROVE  g[Len(<<>>)].ok /\ Synced(g[Len(<<>>)].buf, b, S)
  <2>1. g[0].ok /\ g[0].buf = r /\ Len(<<>>) = 0
    BY <1>4 DEF ItemsReadBy
  <2> QED  BY <1>1, <1>4, <2>1 DEF Synced, InitialBitPos
<1>5. Readable(<<>>, b.wpos, b)
  BY ONLY <1>2, <1>3, <1>4 DEF Readable
<1> QED  BY ONLY <1>1, <1>5

\* A run that goes on.
LEMMA ExtendedReadable ==
  ASSUME NEW I, NEW items \in Seq(I), NEW start \in Nat, NEW b, Readable(items, start, b),
         NEW item \in I, NEW x, Follows(b, x, item)
  PROVE  Readable(Append(items, item), start, x)
<1> DEFINE n == Len(items)
           more == Append(items, item)
<1>1. n \in Nat /\ Len(more) = n + 1 /\ more[n + 1] = item /\ \A i \in 1..n : more[i] = items[i]
  OBVIOUS
<1>2. Ready(b) /\ start <= b.wpos /\ Ready(x) /\ x.wpos >= b.wpos
  BY DEF Readable, Follows
<1>3. start <= x.wpos
  <2>1. b.wpos \in Nat /\ x.wpos \in Nat
    BY <1>2, ReadyIs
  <2> QED  BY <1>2, <2>1
<1> HIDE DEF more
<1>4. ASSUME NEW S \in Seq(Byte), NEW r \in Buffer, NEW g, Holds(S, x, start),
             r.storage = S, r.rpos = start, r.bitpos = InitialBitPos, ItemsReadBy(g, more, r)
      PROVE  g[n + 1].ok /\ Synced(g[n + 1].buf, x, S)
  <2>1. Holds(S, b, start)
        /\ \A q : Synced(q, b, S) =>
             ItemRead(q, item).ok /\ Synced(ItemRead(q, item).buf, x, S)
    BY <1>2, <1>4 DEF Follows
  <2>2. ItemsReadBy(g, items, r)
    <3>1. ASSUME NEW i \in 1..n
          PROVE  g[i] = IF g[i - 1].ok THEN ItemRead(g[i - 1].buf, items[i]) ELSE g[i - 1]
      <4>1. i \in 1..Len(more) /\ more[i] = items[i]
        BY <1>1
      <4> QED  BY <1>4, <4>1 DEF ItemsReadBy
    <3> QED  BY <1>4, <3>1 DEF ItemsReadBy
  <2>3. g[n].ok /\ Synced(g[n].buf, b, S)
    BY <1>4, <2>1, <2>2 DEF Readable
  <2>4. g[n + 1] = ItemRead(g[n].buf, item)
    <3>1. n + 1 \in 1..Len(more) /\ (n + 1) - 1 = n
      BY <1>1
    <3>2. g[n + 1] = IF g[(n + 1) - 1].ok THEN ItemRead(g[(n + 1) - 1].buf, more[n + 1])
                     ELSE g[(n + 1) - 1]
      BY <1>4, <3>1 DEF ItemsReadBy
    <3> QED  BY <1>1, <2>3, <3>1, <3>2
  <2> QED  BY <2>1, <2>3, <2>4
<1> QED  BY <1>1, <1>2, <1>3, <1>4 DEF Readable, more

\* Reads one item more.
NextRead(x, item) == IF x.ok THEN ItemRead(x.buf, item) ELSE x

\* g is how they are read, one after the other, from base.
ReadInTurn(g, base, items, n) ==
  g = [i \in 0..n |-> IF i = 0 THEN base ELSE NextRead(g[i - 1], items[i])]

\* The items can be read one after the other, whatever becomes of it.
LEMMA ItemsReadExists ==
  ASSUME NEW base, NEW items, NEW n \in Nat
  PROVE  \E g : ReadInTurn(g, base, items, n)
<1> DEFINE Is(g, k) == g = [i \in 0..k |-> IF i = 0 THEN base ELSE NextRead(g[i - 1], items[i])]
           Done == {k \in 0..n : \E g : Is(g, k)}
<1>1. 0 \in Done
  <2> DEFINE one == [i \in 0..0 |-> base]
  <2>1. ASSUME NEW i \in 0..0 PROVE i = 0
    OBVIOUS
  <2>2. Is(one, 0)
    BY <2>1
  <2>3. 0 \in 0..n
    OBVIOUS
  <2>4. \E g : Is(g, 0)
    <3> HIDE DEF one
    <3> QED  BY ONLY <2>2
  <2> HIDE DEF Is
  <2> QED  BY ONLY <2>3, <2>4
<1>2. ASSUME NEW k \in 1..n, k - 1 \in Done PROVE k \in Done
  <2>1. PICK g : Is(g, k - 1)
    BY <1>2
  <2> DEFINE h == [i \in 0..k |-> IF i = k THEN NextRead(g[k - 1], items[k]) ELSE g[i]]
  <2>2. ASSUME NEW i \in 0..k PROVE h[i] = IF i = 0 THEN base ELSE NextRead(h[i - 1], items[i])
    <3>1. CASE i = 0
      <4>1. 0 # k /\ 0 \in 0 .. k - 1 /\ 0 \in 0..k
        OBVIOUS
      <4>2. g[0] = base
        BY <2>1, <4>1
      <4> QED  BY <3>1, <4>1, <4>2
    <3>2. CASE i # 0 /\ i # k
      <4>1. i \in 0 .. k - 1 /\ i - 1 # k /\ i - 1 \in 0..k
        BY <3>2
      <4>2. g[i] = NextRead(g[i - 1], items[i])
        BY <2>1, <3>2, <4>1
      <4> QED  BY <3>2, <4>1, <4>2
    <3>3. CASE i = k
      <4>1. k - 1 \in 0..k /\ k - 1 # k /\ k # 0
        OBVIOUS
      <4> QED  BY <3>3, <4>1
    <3> QED  BY <3>1, <3>2, <3>3
  <2>3. h = [i \in 0..k |-> IF i = 0 THEN base ELSE NextRead(h[i - 1], items[i])]
    BY <2>2
  <2> HIDE DEF h
  <2>4. Is(h, k) /\ k \in 0..n
    BY <2>3
  <2> QED  BY <2>4
<1>3. \A k \in 0..n : k \in Done
  <2> HIDE DEF Done
  <2> QED  BY <1>1, <1>2, UpTo
<1>4. n \in Done
  <2> HIDE DEF Done
  <2>1. n \in 0..n
    OBVIOUS
  <2> QED  BY <1>3, <2>1
<1>5. PICK g : Is(g, n)
  BY <1>4
<1>6. ReadInTurn(g, base, items, n)
  BY ONLY <1>5 DEF ReadInTurn
<1> QED  BY ONLY <1>6

\* A run that can be read back is read back at any time.
LEMMA ReadableReads ==
  ASSUME written.clean, written.start \in Nat,
         NEW I, written.items \in Seq(I),
         Readable(written.items, written.start, buf)
  PROVE  ReadsBack
<1> DEFINE items == written.items
           base == [buf |-> [FlushBits(buf) EXCEPT !.rpos = written.start], ok |-> TRUE]
           after[i \in 0..Len(items)] ==
             IF i = 0 THEN base
             ELSE IF after[i - 1].ok THEN ItemRead(after[i - 1].buf, items[i])
             ELSE after[i - 1]
<1>1. ReadsBack <=> (written.clean => after[Len(items)].ok)
  BY DEF ReadsBack
<1>2. after = CHOOSE g : g = [i \in 0..Len(items) |->
                 IF i = 0 THEN base ELSE NextRead(g[i - 1], items[i])]
  BY DEF after, NextRead
<1>3. Len(items) \in Nat
  OBVIOUS
<1> HIDE DEF after, base, items
<1>4. after = [i \in 0..Len(items) |-> IF i = 0 THEN base ELSE NextRead(after[i - 1], items[i])]
  <2>1. PICK g : ReadInTurn(g, base, items, Len(items))
    BY ONLY <1>3, ItemsReadExists
  <2>2. g = [i \in 0..Len(items) |-> IF i = 0 THEN base ELSE NextRead(g[i - 1], items[i])]
    BY ONLY <2>1 DEF ReadInTurn
  <2> QED  BY ONLY <1>2, <2>2
<1> DEFINE x == FlushBits(buf)
           r == [x EXCEPT !.rpos = written.start]
           S == x.storage
<1>5. Ready(buf) /\ written.start <= buf.wpos
  BY DEF Readable
<1>6. Appended(buf, x, <<>>)
  BY <1>5, FlushBitsAppends
<1>7. base = [buf |-> r, ok |-> TRUE]
  BY DEF base
<1> HIDE DEF x
<1>8. Ready(x) /\ x.bitpos = InitialBitPos
  BY <1>6 DEF Appended
<1>9. x \in Buffer /\ S \in Seq(Byte) /\ x.wpos <= Len(S)
  BY <1>8, ReadyIs
<1>10. r \in Buffer /\ r.storage = S /\ r.rpos = written.start /\ r.bitpos = InitialBitPos
  BY <1>8, <1>9 DEF Buffer
<1> HIDE DEF r, S
<1>11. Holds(S, buf, written.start)
  <2>1. Holds(S, x, written.start)
    BY <1>8, <1>9 DEF Holds, S
  <2>2. <<>> \in Seq(Byte)
    OBVIOUS
  <2> QED  BY <1>5, <1>6, <1>9, <2>1, <2>2, HoldsAppended
<1>12. ItemsReadBy(after, items, r)
  <2>1. after[0] = base
    <3>1. 0 \in 0..Len(items)
      BY <1>3
    <3> QED  BY <1>4, <3>1
  <2>2. ASSUME NEW i \in 1..Len(items)
        PROVE  after[i] = IF after[i - 1].ok THEN ItemRead(after[i - 1].buf, items[i])
                          ELSE after[i - 1]
    <3>1. i \in 0..Len(items) /\ i # 0
      BY <1>3
    <3>2. after[i] = NextRead(after[i - 1], items[i])
      BY <1>4, <3>1
    <3> QED  BY <3>2 DEF NextRead
  <2> QED  BY <1>7, <2>1, <2>2 DEF ItemsReadBy
<1>13. after[Len(items)].ok
  BY <1>9, <1>10, <1>11, <1>12 DEF Readable, items
<1> QED  BY <1>1, <1>13

-----------------------------------------------------------------------------
(* The calls, and what can be read back after them.                        *)

\* A clean run can be read back from the bytes that it has been written to.
RunInv == written.clean => Readable(written.items, written.start, buf)

\* A call that ends the program, and a write that is not read back.
LEMMA EndsReadable == ASSUME RunInv, Ends PROVE RunInv'
BY DEF Ends, RunInv

LEMMA UnmatchedReadable == ASSUME RunInv, NEW b, Wrote(b, Unmatched) PROVE RunInv'
<1>1. CASE Ends
  BY <1>1, EndsReadable
<1>2. CASE written' = Extended(written, Unmatched)
  <2>1. Unmatched.kind = "unmatched"
    BY DEF Unmatched, Item
  <2>2. written' = Forgotten
    BY <1>2, <2>1 DEF Extended
  <2> QED  BY <2>2 DEF RunInv, Forgotten
<1> QED  BY <1>1, <1>2 DEF Wrote

\* Every method that writes, when its item follows a clean run.
LEMMA WroteReadable ==
  ASSUME IInv, RunInv, NEW b, NEW item \in [kind : ItemKinds, value : ItemValue], Wrote(b, item),
         written.clean => Follows(buf, b, item)
  PROVE  RunInv'
<1>0. CASE Ends
  BY <1>0, EndsReadable
<1> SUFFICES ASSUME ~Ends PROVE RunInv'
  BY <1>0
<1> DEFINE I == [kind : ItemKinds, value : ItemValue]
<1>1. buf' = b /\ written' = Extended(written, item)
  BY DEF Wrote
<1>2. written \in Runs
  BY DEF IInv
<1>3. written.items \in Seq(I) /\ written.start \in Nat /\ item \in I
  BY <1>2 DEF Runs
<1>4. CASE written.clean /\ Len(written.items) < MaxItems /\ item.kind # "unmatched"
  <2>1. written'.items = Append(written.items, item) /\ written'.start = written.start
    BY <1>1, <1>2, <1>4 DEF Extended, Runs
  <2>2. Readable(written.items, written.start, buf) /\ Follows(buf, b, item)
    BY <1>4 DEF RunInv
  <2> HIDE DEF I
  <2>3. Readable(Append(written.items, item), written.start, b)
    BY <1>3, <2>2, ExtendedReadable
  <2> QED  BY <1>1, <2>1, <2>3 DEF RunInv
<1>5. CASE ~(written.clean /\ Len(written.items) < MaxItems /\ item.kind # "unmatched")
  <2>1. written' = Forgotten
    BY <1>1, <1>5 DEF Extended
  <2> QED  BY <2>1 DEF RunInv, Forgotten
<1> QED  BY <1>4, <1>5

\* The methods that write: what each one writes follows the run.
LEMMA WritingReadable == IInv /\ RunInv /\ Writing => RunInv'
<1> SUFFICES ASSUME IInv, RunInv, Writing PROVE RunInv'
  OBVIOUS
<1>0. written.clean => Ready(buf)
  BY DEF RunInv, Readable
<1>1. CASE WriteNumber
  <2>1. PICK n \in Numbers : Wrote(Append_(buf, n), Item("number", n))
    BY <1>1 DEF WriteNumber
  <2>2. n \in Seq(Byte)
    BY InputsAssumption
  <2>3. ASSUME Ready(buf) PROVE Follows(buf, Append_(buf, n), Item("number", n))
    BY <2>2, <2>3, AppendAppends, NumberFollows
  <2>4. Item("number", n) \in [kind : ItemKinds, value : ItemValue]
    BY <2>2, ItemIs DEF ItemKinds, ItemValue
  <2> QED  BY <1>0, <2>1, <2>3, <2>4, WroteReadable
<1>2. CASE WriteBool
  BY <1>2, UnmatchedReadable DEF WriteBool
<1>3. CASE WriteInt128
  <2> SUFFICES ASSUME ~Ends PROVE RunInv'
    BY EndsReadable
  <2>1. PICK low \in Words, high \in Words :
          Wrote(WritePacked(buf, low, high), Item("packed", <<low, high>>))
    BY <1>3 DEF WriteInt128
  <2>2. low \in Word /\ high \in Word
    BY InputsAssumption
  <2>3. ASSUME Ready(buf)
        PROVE  Follows(buf, WritePacked(buf, low, high), Item("packed", <<low, high>>))
    BY <2>2, <2>3, PackedFollows
  <2>4. Item("packed", <<low, high>>) \in [kind : ItemKinds, value : ItemValue]
    BY <2>2, ItemIs DEF ItemKinds, ItemValue
  <2> QED  BY <1>0, <2>1, <2>3, <2>4, WroteReadable
<1>4. CASE WriteText
  <2>1. PICK t \in Texts : Wrote(WriteString(buf, t), Item("string", t))
    BY <1>4 DEF WriteText
  <2>2. t \in Seq(Byte)
    BY InputsAssumption
  <2>3. ASSUME Ready(buf) PROVE Follows(buf, WriteString(buf, t), Item("string", t))
    BY <2>2, <2>3, StringFollows
  <2>4. Item("string", t) \in [kind : ItemKinds, value : ItemValue]
    BY <2>2, ItemIs DEF ItemKinds, ItemValue
  <2> QED  BY <1>0, <2>1, <2>3, <2>4, WroteReadable
<1>5. CASE WriteCText
  <2>1. PICK t \in Texts : Wrote(WriteCString(buf, t), Item("cstring", t))
    BY <1>5 DEF WriteCText
  <2>2. t \in Seq(Byte \ {0}) /\ t \in Seq(Byte)
    BY InputsAssumption
  <2>3. ASSUME Ready(buf) PROVE Follows(buf, WriteCString(buf, t), Item("cstring", t))
    BY <2>2, <2>3, CStringFollows
  <2>4. Item("cstring", t) \in [kind : ItemKinds, value : ItemValue]
    BY <2>2, ItemIs DEF ItemKinds, ItemValue
  <2> QED  BY <1>0, <2>1, <2>3, <2>4, WroteReadable
<1>6. CASE WriteSomeBits
  <2>1. PICK w \in Bits : Wrote(WriteBits(buf, w[1], w[2]), Item("bits", w))
    BY <1>6 DEF WriteSomeBits
  <2>2. w \in Nat \X Nat /\ w[1] \in Nat /\ w[2] \in Nat /\ w = <<w[1], w[2]>>
    BY InputsAssumption
  <2>3. ASSUME Ready(buf) PROVE Follows(buf, WriteBits(buf, w[1], w[2]), Item("bits", w))
    BY <2>2, <2>3, BitsFollow
  <2>4. Item("bits", w) \in [kind : ItemKinds, value : ItemValue]
    BY <2>2, ItemIs DEF ItemKinds, ItemValue
  <2> QED  BY <1>0, <2>1, <2>3, <2>4, WroteReadable
<1>7. CASE WriteSeq
  BY <1>7, UnmatchedReadable DEF WriteSeq
<1>8. CASE Flush
  <2>1. Wrote(FlushBits(buf), Item("flush", 0))
    BY <1>8 DEF Flush
  <2>2. ASSUME Ready(buf) PROVE Follows(buf, FlushBits(buf), Item("flush", 0))
    BY <2>2, FlushFollows
  <2>3. Item("flush", 0) \in [kind : ItemKinds, value : ItemValue]
    BY ItemIs DEF ItemKinds, ItemValue
  <2> QED  BY <1>0, <2>1, <2>2, <2>3, WroteReadable
<1> QED  BY <1>1, <1>2, <1>3, <1>4, <1>5, <1>6, <1>7, <1>8 DEF Writing

\* Every other call begins a new run, or none.
LEMMA OthersBegin ==
  ASSUME Reading \/ SetReadPosition \/ SetWritePosition \/ SyncReadPosition
           \/ SyncWritePosition \/ SetOpcode
           \/ (\E p \in Positions : Truncate(p) \/ CannotTruncate(p))
  PROVE  written' = Fresh(buf') \/ Ends
<1>1. CASE Reading
  BY <1>1 DEF Reading, ReadNumber, ReadAFloat, ReadAnInt128, ReadText, ReadCText, ReadSomeBits,
              ResetBitPosition, Dump, Was
<1>2. CASE SetReadPosition \/ SetWritePosition \/ SyncReadPosition \/ SyncWritePosition
  BY <1>2 DEF SetReadPosition, SetWritePosition, SyncReadPosition, SyncWritePosition, Sought
<1>3. CASE SetOpcode
  BY <1>3 DEF SetOpcode
<1>4. CASE \E p \in Positions : Truncate(p) \/ CannotTruncate(p)
  BY <1>4 DEF Truncate, CannotTruncate
<1> QED  BY <1>1, <1>2, <1>3, <1>4

\* A clean run can be read back, after any call.
LEMMA NextReadable == IInv /\ RunInv /\ Next => RunInv'
<1> SUFFICES ASSUME IInv, RunInv, Next PROVE RunInv'
  OBVIOUS
<1>1. CASE Writing
  BY <1>1, WritingReadable
<1>2. CASE Ends
  BY <1>2, EndsReadable
<1>3. CASE ~Writing /\ ~Ends
  <2>1. written' = Fresh(buf')
    BY <1>3, OthersBegin DEF Next
  <2>2. buf' \in Buffer
    BY NextGood DEF Good, IInv, TypeOK
  <2>3. Fresh(buf').clean => Readable(Fresh(buf').items, Fresh(buf').start, buf')
    BY <2>2, FreshReadable
  <2> QED  BY <2>1, <2>3 DEF RunInv
<1> QED  BY <1>1, <1>2, <1>3

-----------------------------------------------------------------------------
(* The theorems.                                                           *)

\* The invariant holds in every state.
THEOREM InductiveInvariant == Spec => []IInv
<1>1. Init => IInv
  BY InitInv
<1>2. IInv /\ [Next]_vars => IInv'
  BY NextGood, StutterInv DEF Good
<1> QED  BY <1>1, <1>2, PTL DEF Spec

\* Every variable has its type: whatever a script calls, and however the calls throw,
\* the packet keeps at least one byte, so that contents() never throws in the script
\* manager, and _bitpos and _curbitval hold a size_t and a byte.
THEOREM TypeCorrect == Spec => []TypeOK
<1>1. IInv => TypeOK
  BY DEF IInv
<1> QED  BY <1>1, InductiveInvariant, PTL

\* A packet whose bytes a script has changed is marked (IsChanged), so that the script
\* manager copies it back, also when the method that changed it threw.
THEOREM ChangesAreMarked == Spec => []ChangedIsSound
<1>1. IInv => ChangedIsSound
  BY DEF IInv
<1> QED  BY <1>1, InductiveInvariant, PTL

\* A write, of any number of bits or bytes and with a byte in progress or none, changes
\* no byte outside the old and the new write position (append).
THEOREM WritesStayInPlace == Spec => WritesInPlace
<1> DEFINE W == last' = "write" =>
                  /\ Size(buf') >= Size(buf)
                  /\ \A i \in 1..Size(buf) :
                       i <= buf.wpos \/ i > buf'.wpos => buf'.storage[i] = buf.storage[i]
<1>1. IInv /\ [Next]_vars => [W]_vars
  BY NextGood DEF Good, WriteStep
<1> QED  BY <1>1, InductiveInvariant, PTL DEF Spec, WritesInPlace

\* A read of any width, also one that throws and one whose bounds check wraps, leaves the
\* read position where it was or puts it inside the packet (read).  Of Dump it says that
\* the position is restored, or that of the opcode's end, or inside the packet: it does
\* not say that it is restored when a part throws, which it is not.
THEOREM ReadsStayInside == Spec => ReadsInside
<1> DEFINE R == /\ last' = "read" => buf'.rpos = buf.rpos \/ buf'.rpos <= Size(buf)
                /\ last' = "dump" => buf'.rpos \in {buf.rpos, OpcodeSize} \/ buf'.rpos <= Size(buf)
<1>1. IInv /\ [Next]_vars => [R]_vars
  BY NextGood DEF Good, ReadStep
<1> QED  BY <1>1, InductiveInvariant, PTL DEF Spec, ReadsInside

\* What a script has written to a packet in a row, beginning with no byte in progress, it
\* reads back with the matching methods, in the same order: numbers, strings, C strings,
\* packed 128-bit numbers and any number of bits, which begin and end within a byte.  It
\* says nothing of bools and byte sequences, which their own reading methods do not give
\* back, and nothing once a write has ended behind the largest packet.
THEOREM WrittenIsReadBack == Spec => []ReadsBack
<1>1. Init => RunInv
  <2> SUFFICES ASSUME Init PROVE RunInv
    OBVIOUS
  <2>1. buf \in Buffer
    BY InitInv DEF IInv, TypeOK
  <2>2. written = Fresh(buf)
    BY DEF Init
  <2>3. Fresh(buf).clean => Readable(Fresh(buf).items, Fresh(buf).start, buf)
    BY <2>1, FreshReadable
  <2> QED  BY <2>2, <2>3 DEF RunInv
<1>2. IInv /\ RunInv /\ [Next]_vars => RunInv'
  <2>1. UNCHANGED vars /\ RunInv => RunInv'
    BY DEF vars, RunInv
  <2> QED  BY <2>1, NextReadable
<1>3. IInv /\ RunInv => ReadsBack
  <2> SUFFICES ASSUME IInv, RunInv PROVE ReadsBack
    OBVIOUS
  <2>1. CASE written.clean
    <3>1. written.start \in Nat /\ written.items \in Seq([kind : ItemKinds, value : ItemValue])
      BY DEF IInv, Runs
    <3>2. Readable(written.items, written.start, buf)
      BY <2>1 DEF RunInv
    <3> QED  BY <2>1, <3>1, <3>2, ReadableReads
  <2>2. CASE ~written.clean
    BY <2>2 DEF ReadsBack
  <2> QED  BY <2>1, <2>2
<1> QED  BY <1>1, <1>2, <1>3, InductiveInvariant, PTL DEF Spec
=============================================================================
