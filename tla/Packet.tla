------------------------------- MODULE Packet -------------------------------
(***************************************************************************)
(* The Packet class that scripts use (src/src/LuaPacket.cpp), over the     *)
(* buffer of module ByteBuffer.                                            *)
(*                                                                         *)
(* One packet, and any sequence of calls of its methods.  A method that    *)
(* throws ends the script's callback but leaves the packet as it then is:  *)
(* the script may have kept it in a global variable, and the script        *)
(* manager reads it after the callback.  Any other exception than the      *)
(* buffer's ends the program, and nothing is claimed of it from there on.  *)
(* Values that are read are handed to Lua and forgotten.  Process and Send *)
(* copy the bytes and call the client (module Hooks); Print and the        *)
(* getters change nothing.                                                 *)
(***************************************************************************)
EXTENDS ByteBuffer

CONSTANTS
  ClientPackets,  \* the bytes of packets of the client
  Numbers,        \* numbers to write, as their bytes, with 1, 2, 4 or 8 of each
  Bits,           \* pairs of a value and a number of bits
  Flags,          \* values for WriteBool and WriteByteSeq
  Texts,          \* strings to write
  Words,          \* 64-bit words to write in halves of a 128-bit number
  Opcodes,        \* opcodes
  Positions,      \* positions to seek to and to truncate at
  Formats,        \* formats of Dump, as sequences of words
  Beyond,         \* bytes that may lie in memory behind a buffer
  MaxCalls,       \* bound: the calls of methods
  MaxItems        \* bound: the values that the ghost variable remembers

Widths == {1, 2, 4, 8}

ASSUME ClientAssumption == \A p \in ClientPackets : p \in Seq(Byte) /\ Len(p) >= OpcodeSize
ASSUME InputsAssumption ==
  /\ \A n \in Numbers : n \in Seq(Byte) /\ Len(n) \in Widths
  /\ Bits \subseteq Nat \X Nat
  /\ Flags \subseteq Byte
  \* A C string contains no zero.
  /\ \A t \in Texts : t \in Seq(Byte \ {0})
  /\ Words \subseteq Word
  /\ \A o \in Opcodes : o \in Seq(Byte) /\ Len(o) = OpcodeSize
  /\ Positions \subseteq 0..SizeMax
  /\ \A f \in Formats : f \in Seq(STRING)
  /\ Beyond \subseteq Byte
ASSUME BoundsAssumption == MaxCalls \in Nat /\ MaxItems \in Nat

VARIABLES
  buf,      \* the ByteBuffer
  changed,  \* changed_
  origin,   \* ghost: the bytes the packet was made with
  written,  \* ghost: the values written since the last call of another kind
  calls,    \* the number of calls so far
  last      \* ghost: what kind of method was called last

vars == <<buf, changed, origin, written, calls, last>>

-----------------------------------------------------------------------------
(* The ghost variable.  A run of writes is clean when it began inside the  *)
(* packet, with no byte in progress and nothing left of an earlier one, as *)
(* a ReadBit that threw may leave.                                         *)

Item(kind, v) == [kind |-> kind, value |-> v]

Forgotten == [clean |-> FALSE, start |-> 0, items |-> <<>>]

Fresh(b) ==
  IF b.bitpos = InitialBitPos /\ b.cur = 0 /\ b.wpos <= Size(b) /\ MaxItems > 0
  THEN [clean |-> TRUE, start |-> b.wpos, items |-> <<>>] ELSE Forgotten

\* What no method reads back.
Unmatched == Item("unmatched", 0)

\* The run with one more item; a run that gets too long, or that no methods read back,
\* is forgotten.
Extended(run, item) ==
  IF run.clean /\ Len(run.items) < MaxItems /\ item.kind # "unmatched"
  THEN [run EXCEPT !.items = Append(@, item)]
  ELSE Forgotten

-----------------------------------------------------------------------------
New(bytes) ==
  [storage |-> bytes, rpos |-> OpcodeSize, wpos |-> OpcodeSize,
   bitpos |-> InitialBitPos, cur |-> 0]

\* A packet of the client, or one that a script makes with Packet(opcode).
Init ==
  /\ origin \in ClientPackets \cup Opcodes
  /\ buf = New(origin)
  /\ changed = FALSE
  /\ written = Fresh(buf)
  /\ calls = 0
  /\ last = "none"

Called(kind) ==
  /\ calls < MaxCalls
  /\ last # "ended"
  /\ calls' = calls + 1
  /\ last' = kind

\* The call ends the program.
Ends == Called("ended") /\ UNCHANGED <<buf, changed, origin, written>>

\* Mutant of Wrote: the packet is not marked.
WroteUnmarked(b, item) ==
  /\ Called("write")
  /\ ~Overruns(buf, b)
  /\ buf' = b
  /\ written' = Extended(written, item)
  /\ UNCHANGED <<changed, origin>>

\* The end of every method that writes.
Wrote(b, item) ==
  \/ Ends /\ Overruns(buf, b)
  \/ /\ Called("write")
     /\ ~Overruns(buf, b)
     /\ buf' = b
     /\ changed' = TRUE
     /\ written' = Extended(written, item)
     /\ UNCHANGED origin

\* A method that reads, or Dump, whether it returns or throws.
Was(kind, b) ==
  /\ Called(kind)
  /\ buf' = b
  /\ written' = Fresh(b)
  /\ UNCHANGED <<changed, origin>>

\* A method that sets a position.
Sought(b) ==
  /\ Called("seek")
  /\ buf' = b
  /\ written' = Fresh(b)
  /\ UNCHANGED <<changed, origin>>

-----------------------------------------------------------------------------
(* Methods that write.                                                     *)

\* WriteInt8 to WriteInt64, WriteFloat and WriteDouble.
WriteNumber == \E n \in Numbers : Wrote(Append_(buf, n), Item("number", n))

\* A bool is promoted to an int32_t: four bytes, of which ReadBool reads one.
WriteBool ==
  \E v \in Flags : Wrote(Append_(buf, <<IF v = 0 THEN 0 ELSE 1, 0, 0, 0>>), Unmatched)

\* WriteInt128, WriteMyGUID, WriteTargetGUID and WriteMouseOverGUID.  For a text that
\* does not begin with a hexadecimal digit std::stoull throws an exception of its own.
WriteInt128 ==
  \/ Ends
  \/ \E low, high \in Words :
       Wrote(WritePacked(buf, low, high), Item("packed", <<low, high>>))

WriteText == \E t \in Texts : Wrote(WriteString(buf, t), Item("string", t))

WriteCText == \E t \in Texts : Wrote(WriteCString(buf, t), Item("cstring", t))

\* WriteBits; WriteBit of 0 or 1 is WriteBits of one bit.
WriteSomeBits == \E w \in Bits : Wrote(WriteBits(buf, w[1], w[2]), Item("bits", w))

\* Nothing is appended for 0, else one byte.  ReadByteSeq decides by a byte that it has
\* not initialised whether to read it.
WriteSeq == \E v \in Flags : Wrote(WriteByteSeq(buf, v), Unmatched)

Flush == Wrote(FlushBits(buf), Item("flush", 0))

Writing ==
  WriteNumber \/ WriteBool \/ WriteInt128 \/ WriteText \/ WriteCText \/ WriteSomeBits
    \/ WriteSeq \/ Flush

-----------------------------------------------------------------------------
(* Methods that read.                                                      *)

\* ReadInt8 to ReadInt64, ReadBool and a ReadByteSeq whose byte was not zero.
ReadNumber == \E n \in Widths : Was("read", Read(buf, n).buf)

ReadAFloat == \E n \in {4, 8} : Was("read", ReadFloat(buf, n).buf)

ReadAnInt128 == Was("read", ReadInt128(buf).buf)

\* No string has more than MaxSize characters: std::string throws.
ReadText ==
  \E n \in Positions :
    \/ Ends /\ n > MaxSize
    \/ Was("read", ReadString(buf, n).buf) /\ (n > MaxSize => ~ReadString(buf, n).ok)

ReadCText == Was("read", ReadCString(buf).buf)

\* ReadBits and ReadBit.
ReadSomeBits == \E w \in Bits : Was("read", ReadBits(buf, w[2]).buf)

ResetBitPosition == Was("read", ResetBitPos(buf))

\* One word of a format.  ReadString looks for a length at the index of the format
\* itself and finds a string; unknown words are skipped.
DumpPart(b, part) ==
  CASE part = "int8"   -> Read(b, 1)
    [] part = "int16"  -> Read(b, 2)
    [] part = "int32"  -> Read(b, 4)
    [] part = "int64"  -> Read(b, 8)
    [] part = "int128" -> ReadInt128(b)
    [] part = "float"  -> ReadFloat(b, 4)
    [] part = "double" -> ReadFloat(b, 8)
    [] part = "string" -> Thrown(b)
    [] part = "bit"    -> ReadBit(b)
    [] OTHER           -> Returned(b, 0)

\* The words one after the other, until one throws.
DumpParts(b, format) ==
  LET after[i \in 0..Len(format)] ==
        IF i = 0 THEN Returned(b, 0)
        ELSE IF after[i - 1].ok THEN DumpPart(after[i - 1].buf, format[i])
        ELSE after[i - 1]
  IN  after[Len(format)]

\* The read position is restored at the end, which an exception or a Lua error skips.
Dump(format) ==
  LET r == DumpParts([buf EXCEPT !.rpos = OpcodeSize], format)
  IN  Was("dump",
          IF format # <<>> /\ r.ok THEN [r.buf EXCEPT !.rpos = buf.rpos] ELSE r.buf)

Reading ==
  ReadNumber \/ ReadAFloat \/ ReadAnInt128 \/ ReadText \/ ReadCText \/ ReadSomeBits
    \/ ResetBitPosition \/ \E f \in Formats : Dump(f)

-----------------------------------------------------------------------------
(* Positions, the opcode and the size.                                     *)

SetReadPosition == \E p \in Positions : Sought([buf EXCEPT !.rpos = p])
SetWritePosition == \E p \in Positions : Sought([buf EXCEPT !.wpos = p])
SyncReadPosition == Sought([buf EXCEPT !.rpos = buf.wpos])
SyncWritePosition == Sought([buf EXCEPT !.wpos = buf.rpos])

SetOpcode ==
  \E o \in Opcodes :
    /\ Put(buf, 0, o).ok
    /\ Called("edit")
    /\ buf' = Put(buf, 0, o).buf
    /\ changed' = TRUE
    /\ written' = Fresh(buf')
    /\ UNCHANGED origin

\* Mutant of Truncate: at position 0 the packet is cleared.
TruncateToNothing(p) ==
  /\ Called("edit")
  /\ buf' = [New(SubSeq(buf.storage, 1, p)) EXCEPT !.rpos = 0, !.wpos = p]
  /\ changed' = TRUE
  /\ written' = Fresh(buf')
  /\ UNCHANGED origin

\* The first p bytes replace the packet.  At 0 append throws before anything has
\* changed; with p > size the copy reads what lies behind the buffer, if it may.
Truncate(p) ==
  /\ p > 0
  /\ p <= MaxSize
  /\ Called("edit")
  /\ \E behind \in [Size(buf) + 1 .. p -> Beyond] :
       buf' = [storage |-> [i \in 1..p |-> IF i <= Size(buf) THEN buf.storage[i] ELSE behind[i]],
               rpos |-> 0, wpos |-> p, bitpos |-> InitialBitPos, cur |-> 0]
  /\ changed' = TRUE
  /\ written' = Fresh(buf')
  /\ UNCHANGED origin

\* Past the end the copy may meet memory that cannot be read, or be too large to hold.
CannotTruncate(p) == Ends /\ p > Size(buf)

Next ==
  \/ Writing
  \/ Reading
  \/ SetReadPosition \/ SetWritePosition \/ SyncReadPosition \/ SyncWritePosition
  \/ SetOpcode
  \/ \E p \in Positions : Truncate(p) \/ CannotTruncate(p)

Spec == Init /\ [][Next]_vars

-----------------------------------------------------------------------------
(* Properties.                                                             *)

ItemValue == Seq(Byte) \cup (Nat \X Nat) \cup (Word \X Word) \cup {0}

\* The type invariant.
\* In particular a packet never becomes empty, whatever is truncated: the script manager
\* and Send copy contents(), which throws for an empty packet, outside any try block.
TypeOK ==
  /\ buf \in Buffer /\ buf.storage # <<>>
  /\ changed \in BOOLEAN
  /\ origin \in Seq(Byte)
  /\ written.clean \in BOOLEAN /\ written.start \in Nat
  /\ Len(written.items) <= MaxItems
  /\ calls \in 0..MaxCalls
  /\ last \in {"none", "write", "read", "dump", "seek", "edit", "ended"}

\* The script manager copies a packet back only if IsChanged: a packet whose bytes
\* differ from those it was made with is marked, through any calls that threw.
ChangedIsSound == buf.storage # origin => changed

\* Reads the items from the buffer b, in order, and compares.
ItemRead(b, item) ==
  LET v == item.value
      r == CASE item.kind = "number"  -> Read(b, Len(v))
             [] item.kind = "string"  -> ReadString(b, Len(v))
             [] item.kind = "cstring" -> ReadCString(b)
             [] item.kind = "packed"  -> ReadInt128(b)
             [] item.kind = "bits"    -> ReadBits(b, v[2])
             [] item.kind = "flush"   -> Returned(ResetBitPos(b), 0)
      expected == IF item.kind = "bits" THEN v[1] % Shifted(v[2]) ELSE v
  IN  [buf |-> r.buf, ok |-> r.ok /\ r.value = expected]

\* What a script has written in a row, beginning with no byte in progress, it reads
\* back with the matching methods, over bits, their padding, numbers, strings, C strings
\* and packed 128-bit numbers.  Bools and byte sequences are not among them: ReadBool
\* and ReadByteSeq do not give back what WriteBool and WriteByteSeq have written, and
\* nothing is claimed of a run that has one.
ReadsBack ==
  LET items == written.items
      after[i \in 0..Len(items)] ==
        IF i = 0 THEN [buf |-> [FlushBits(buf) EXCEPT !.rpos = written.start], ok |-> TRUE]
        ELSE IF after[i - 1].ok THEN ItemRead(after[i - 1].buf, items[i])
        ELSE after[i - 1]
  IN  written.clean => after[Len(items)].ok

\* A write touches only the bytes between the old and the new write position, apart
\* from zeros that fill a gap, and never shortens the packet.
WritesInPlace ==
  [][last' = "write" =>
       /\ Size(buf') >= Size(buf)
       /\ \A i \in 1..Size(buf) :
            i <= buf.wpos \/ i > buf'.wpos => buf'.storage[i] = buf.storage[i]]_vars

\* A reading method, even one that throws half way or whose bounds check wraps, either
\* leaves the read position where it was or moves it to a place inside the packet.
\* Dump may also leave it behind the opcode, which it has moved it to: what it saves
\* there it does not restore when a part throws.
ReadsInside ==
  [][/\ last' = "read" => buf'.rpos = buf.rpos \/ buf'.rpos <= Size(buf)
     /\ last' = "dump" => buf'.rpos \in {buf.rpos, OpcodeSize} \/ buf'.rpos <= Size(buf)]_vars

=============================================================================
