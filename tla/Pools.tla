-------------------------------- MODULE Pools --------------------------------
(***************************************************************************)
(* What grows and shrinks in a Lua state: the table of short strings        *)
(* (lstring.c, with checkSizes of lgc.c), the arrays of the compiler        *)
(* (lmem.c) and the stack (ldo.c, lapi.c).                                  *)
(***************************************************************************)
EXTENDS Integers, Sequences, SequencesExt, FiniteSets

CONSTANTS
  MaxStack,      \* LUAI_MAXSTACK
  ExtraStack,    \* EXTRA_STACK
  ErrorExtra,    \* 200 of ERRORSTACKSIZE
  MaxTable       \* MAX_INT / 2: how large a table of strings may be doubled

-----------------------------------------------------------------------------
(* Strings.  A string object has an identity, its contents and their hash.  *)
(* The table has a list of them for each remainder of the hash; dead are    *)
(* those that are found unreachable and not yet collected.                  *)
EmptyTable(size) == [hash |-> [h \in 0 .. size - 1 |-> <<>>], nuse |-> 0, objects |-> 0, dead |-> {}]
TableSize(tb) == Cardinality(DOMAIN tb.hash)

(* luaS_resize: each list in turn is taken apart, its strings go to the     *)
(* head of their new lists.                                                 *)
ResizeStrings(tb, newsize) ==
  LET old == TableSize(tb)
      larger == IF newsize > old THEN newsize ELSE old
      room == [h \in 0 .. larger - 1 |-> IF h < old THEN tb.hash[h] ELSE <<>>]
      Chain(hash, s) == [hash EXCEPT ![s.h % newsize] = <<s>> \o @]
      Rehash(hash, i) == FoldLeft(Chain, [hash EXCEPT ![i] = <<>>], hash[i])
      done == FoldLeft(Rehash, room, [i \in 1 .. old |-> i - 1])
  IN [tb EXCEPT !.hash = [h \in 0 .. newsize - 1 |-> done[h]]]

(* internshrstr: the string is found, and no longer dead, or made.          *)
InternString(tb, str, h) ==
  LET list == tb.hash[h % TableSize(tb)]
      at == SelectInSeq(list, LAMBDA s : s.str = str)
      full == tb.nuse >= TableSize(tb) /\ TableSize(tb) <= MaxTable
      room == IF full THEN ResizeStrings(tb, TableSize(tb) * 2) ELSE tb
      new == [id |-> tb.objects + 1, str |-> str, h |-> h]
  IN IF at # 0
     THEN [tb |-> [tb EXCEPT !.dead = @ \ {list[at].id}], id |-> list[at].id]
     ELSE [tb |-> [room EXCEPT !.hash[h % TableSize(room)] = <<new>> \o @,
                               !.nuse = @ + 1, !.objects = @ + 1],
           id |-> new.id]

(* A collection that found these contents unreachable: they are dead; the   *)
(* program may intern them again before the sweeper comes.                  *)
MarkDead(tb, strs) ==
  [tb EXCEPT !.dead = @ \cup {s.id : s \in {x \in UNION {ToSet(tb.hash[h]) : h \in DOMAIN tb.hash} : x.str \in strs}}]

(* luaS_remove, of every dead string of a list that the sweeper comes to.   *)
RemoveDead(tb, h) ==
  LET kept == SelectSeq(tb.hash[h], LAMBDA s : s.id \notin tb.dead)
  IN [tb EXCEPT !.hash[h] = kept, !.nuse = @ - (Len(tb.hash[h]) - Len(kept))]

(* The sweeper goes over all lists; checkSizes halves a table too large.    *)
SweepStrings(tb) ==
  LET swept == FoldLeft(RemoveDead, tb, [i \in 1 .. TableSize(tb) |-> i - 1])
  IN IF swept.nuse < TableSize(swept) \div 4 THEN ResizeStrings(swept, TableSize(swept) \div 2) ELSE swept

(* luaS_hash of a short string, whose step is 1: from its last byte on.     *)
HashXor(a, b, bits) ==
  FoldLeft(LAMBDA acc, i : acc + (IF (a \div 2^i) % 2 # (b \div 2^i) % 2 THEN 2^i ELSE 0),
           0, [i \in 1 .. bits |-> i - 1])
Hash(str, seed, bits) ==
  FoldLeft(LAMBDA h, c : HashXor(h, (h * 2^5 + (h \div 4) + c) % 2^bits, bits),
           HashXor(seed, Len(str), bits), Reverse(str))

-----------------------------------------------------------------------------
(* luaM_growaux_: the new size of an array that is full, or TooMany.        *)
TooMany == -1
GrowAux(size, limit) ==
  IF size >= limit \div 2
  THEN IF size >= limit THEN TooMany ELSE limit
  ELSE IF size * 2 < 4 THEN 4 ELSE size * 2

-----------------------------------------------------------------------------
(* The stack: its size and how much of it is in use, up to the top and up   *)
(* to the end of the highest frame, and the error it may end in.            *)
StackOf(size) == [size |-> size, top |-> 1, limit |-> 1, failed |-> ""]

(* luaD_growstack: room for n more. *)
GrowStack(s, n) ==
  LET needed == s.top + n + ExtraStack
      double == IF 2 * s.size > MaxStack THEN MaxStack ELSE 2 * s.size
      size == IF double < needed THEN needed ELSE double
  IN IF s.size > MaxStack THEN [s EXCEPT !.failed = "error in error handling"]
     ELSE IF size > MaxStack THEN [s EXCEPT !.size = MaxStack + ErrorExtra, !.failed = "stack overflow"]
     ELSE [s EXCEPT !.size = size]

(* luaD_checkstack and the n values that are pushed, in a frame of theirs.  *)
PushValues(s, n) ==
  LET calm == [s EXCEPT !.failed = ""]
      room == IF (s.size - ExtraStack) - s.top <= n THEN GrowStack(calm, n) ELSE calm
  IN IF room.failed # "" THEN room ELSE [room EXCEPT !.top = @ + n, !.limit = room.top + n]

(* A frame ends: what is in use is what was before it.                      *)
PopValues(s, n) == [s EXCEPT !.top = @ - n, !.limit = s.top - n]

(* luaD_shrinkstack, with stackinuse. *)
ShrinkStack(s) ==
  LET inuse == (IF s.limit > s.top THEN s.limit ELSE s.top) + 1
      good == inuse + (inuse \div 8) + 2 * ExtraStack
      size == IF good > MaxStack THEN MaxStack ELSE good
  IN IF inuse > MaxStack \/ size >= s.size THEN s ELSE [s EXCEPT !.size = size]

(* luaD_pcall behind an error: the stack of the caller is in use again.     *)
Unwind(s) == ShrinkStack([s EXCEPT !.top = 1, !.limit = 1, !.failed = ""])

(* lua_checkstack: 0 instead of an error, and then no room is promised.     *)
CheckStack(s, n) ==
  LET calm == [s EXCEPT !.failed = ""]
      grown == GrowStack(calm, n)
      Framed(t) == [t EXCEPT !.limit = IF @ < s.top + n THEN s.top + n ELSE @]
  IN IF (s.size - ExtraStack) - s.top > n THEN Framed(calm)
     ELSE IF s.top + ExtraStack > MaxStack - n \/ grown.failed # "" THEN calm
     ELSE Framed(grown)
=============================================================================
