---------------------------- MODULE TableLibrary ----------------------------
(***************************************************************************)
(* The functions of ltablib.c on a table without metamethods: a function    *)
(* from the indices within reach to values, Nil where the table has none.   *)
(* size is what the length operator answers.  Error is a raised error.      *)
(***************************************************************************)
EXTENDS Integers, Sequences, SequencesExt

LOCAL Nil == 0
Error == <<-1>>

Set(t, i, v) == [t EXCEPT ![i] = v]

RECURSIVE MoveUp(_, _, _), MoveDown(_, _, _)
(* t[i] = t[i - 1] for i from the end down to behind pos. *)
MoveUp(t, i, pos) == IF i <= pos THEN t ELSE MoveUp(Set(t, i, t[i - 1]), i - 1, pos)
(* t[pos] = t[pos + 1] up to the end. *)
MoveDown(t, pos, size) == IF pos >= size THEN t ELSE MoveDown(Set(t, pos, t[pos + 1]), pos + 1, size)

TInsert(t, size, pos, v) ==
  IF pos \in 1 .. size + 1 THEN Set(MoveUp(t, size + 1, pos), pos, v) ELSE Error

(* The removed value and the table; an empty table may lose its field 0.    *)
TRemove(t, size, pos) ==
  IF pos # size /\ pos \notin 1 .. size + 1 THEN [removed |-> Nil, table |-> Error]
  ELSE [removed |-> t[pos],
        table |-> Set(MoveDown(t, pos, size), IF pos < size THEN size ELSE pos, Nil)]

RECURSIVE CopyWithin(_, _, _, _)
CopyWithin(a, f, t, is) ==
  IF is = <<>> THEN a ELSE CopyWithin(Set(a, t + Head(is), a[f + Head(is)]), f, t, Tail(is))

(* table.move within one table: from the end when it moves upwards.         *)
TMove(a, f, e, t) ==
  LET n == e - f + 1
      up == [i \in 1 .. n |-> i - 1]
  IN IF f <= 0 THEN Error
     ELSE IF e < f THEN a
     ELSE CopyWithin(a, f, t, IF t > f THEN Reverse(up) ELSE up)

-----------------------------------------------------------------------------
(* table.sort, a quicksort by the order function Lt, which may be any       *)
(* relation.  A run of it is an array or Error.                             *)
SwapIf(a, i, j, c) == IF c THEN [a EXCEPT ![i] = a[j], ![j] = a[i]] ELSE a

MedianFirst(a, l, u, Lt) ==
  LET m == (l + u) \div 2
      b == SwapIf(a, l, u, <<a[u], a[l]>> \in Lt)
  IN IF u - l = 1 THEN b
     ELSE IF <<b[m], b[l]>> \in Lt THEN SwapIf(b, m, l, TRUE)
     ELSE SwapIf(b, m, u, <<b[u], b[m]>> \in Lt)

RECURSIVE ScanUp(_, _, _, _, _), ScanDown(_, _, _, _, _), Partition(_, _, _, _, _, _, _)
(* The first index from i whose element is not before the pivot; 0 is the   *)
(* error of an order that goes on to the limit.                             *)
ScanUp(a, i, u, P, Lt) ==
  IF <<a[i], P>> \notin Lt THEN i ELSE IF i >= u THEN 0 ELSE ScanUp(a, i + 1, u, P, Lt)
ScanDown(a, j, l, P, Lt) ==
  IF <<P, a[j]>> \notin Lt THEN j ELSE IF j <= l THEN 0 ELSE ScanDown(a, j - 1, l, P, Lt)

Partition(a, i, j, l, u, P, Lt) ==
  LET up == ScanUp(a, i + 1, u, P, Lt)
      down == ScanDown(a, j - 1, l, P, Lt)
  IN IF up = 0 \/ down = 0 THEN <<Error, 0>>
     ELSE IF down < up THEN <<SwapIf(a, u - 1, up, TRUE), up>>
     ELSE Partition(SwapIf(a, up, down, TRUE), up, down, l, u, P, Lt)

RECURSIVE AuxSort(_, _, _, _)
AuxSort(a, l, u, Lt) ==
  IF l >= u THEN a
  ELSE LET b == MedianFirst(a, l, u, Lt)
           m == (l + u) \div 2
           P == b[m]
           split == Partition(SwapIf(b, m, u - 1, TRUE), l, u - 1, l, u, P, Lt)
           i == split[2]
           smallIsLow == i - l < u - i
           small == IF smallIsLow THEN AuxSort(split[1], l, i - 1, Lt)
                    ELSE AuxSort(split[1], i + 1, u, Lt)
       IN IF u - l <= 2 THEN b
          ELSE IF i = 0 THEN Error
          ELSE IF small = Error THEN Error
          ELSE IF smallIsLow THEN AuxSort(small, i + 1, u, Lt)
          ELSE AuxSort(small, l, i - 1, Lt)

-----------------------------------------------------------------------------
RECURSIVE Joined(_, _, _, _)
(* table.concat: the values of t from i to last with the separator between, *)
(* or Error at the first that is no string.                                 *)
Joined(t, i, last, sep) ==
  IF i > last THEN <<>>
  ELSE IF t[i] = Nil THEN Error
  ELSE IF i = last THEN <<t[i]>>
  ELSE LET rest == Joined(t, i + 1, last, sep)
       IN IF rest = Error THEN Error ELSE <<t[i], sep>> \o rest

(* table.unpack in integers of w bits: how many results, or Error when they *)
(* are more than limit.  The distance is computed unsigned.                 *)
Unpacked(i, e, w, limit) ==
  LET n == (e - i) % 2^w
  IN IF i > e THEN 0 ELSE IF n >= limit THEN -1 ELSE n + 1
=============================================================================
