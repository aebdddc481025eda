------------------------------ MODULE MCPacket ------------------------------
(***************************************************************************)
(* Instances of Packet for TLC.                                            *)
(***************************************************************************)
EXTENDS Packet

\* A packet with a byte behind its opcode, and one that a script has made.
OneByteBody == {<<30, 5, 0, 0, 129>>}
Ping == {<<7, 0, 0, 0>>}

OneNumber == {<<170>>}
\* One and two bytes, and the float infinity, which ReadFloat refuses.
SomeNumbers == {<<170>>, <<1, 2>>, <<0, 0, 128, 127>>}

OneBit == {<<1, 1>>}
\* No bits, one, and more than fill a byte; some values have bits above those written.
ManyBits == {<<1, 0>>, <<0, 1>>, <<1, 1>>, <<5, 3>>, <<171, 8>>, <<693, 9>>}

SomeTexts == {<<>>, <<65>>, <<65, 66>>}

\* A word with bytes that are not packed between two that are, and zero.
SomeWords == {[i \in 1..8 |-> IF i \in {1, 3} THEN i ELSE 0], [i \in 1..8 |-> 0]}

\* Formats that end well, that meet the end of the packet, and that fail at once.
SomeFormats ==
  {<<>>, <<"int8", "bit">>, <<"other", "int64">>, <<"int8", "string">>, <<"int128">>, <<"float">>}
=============================================================================
