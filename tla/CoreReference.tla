---------------------------- MODULE CoreReference ----------------------------
(***************************************************************************)
(* What the functions of the core promise, said without their algorithms:   *)
(* what a stack of values, a set of strings or a chunk means, and what all  *)
(* the paths through a piece of code have in common.                        *)
(***************************************************************************)
EXTENDS Integers, Sequences, SequencesExt, FiniteSets

-----------------------------------------------------------------------------
(* A prototype that was dumped, and stripped, and read back. *)
RECURSIVE AsLoaded(_, _, _)
AsLoaded(f, strip, none) ==
  LET kept == IF strip
              THEN [f EXCEPT !.source = none, !.lineinfo = <<>>, !.locvars = <<>>,
                             !.upvalues = [i \in DOMAIN @ |-> [@[i] EXCEPT !.name = none]]]
              ELSE f
  IN [kept EXCEPT !.p = [i \in DOMAIN @ |-> AsLoaded(@[i], strip, none)]]

-----------------------------------------------------------------------------
(* Names: the value in a register, along one path through the code.         *)
RECURSIVE PathsFrom(_, _, _)
PathsFrom(code, pc, to) ==
  LET i == code[pc + 1]
      next == CASE i.op = "JMP" -> {pc + 1 + i.b} [] i.op = "TEST" -> {pc + 1, pc + 2} [] OTHER -> {pc + 1}
  IN IF pc = to THEN {<<>>}
     ELSE IF pc > to THEN {}
     ELSE {<<pc>> \o rest : rest \in UNION {PathsFrom(code, n, to) : n \in next}}

Writes(i) ==
  CASE i.op = "LOADNIL" -> i.a .. i.a + i.b
    [] i.op = "CALL" -> i.a .. 9
    [] i.op \in {"JMP", "TEST"} -> {}
    [] OTHER -> {i.a}

LocalAt(p, reg, pc) ==
  LET active == SelectSeq(p.locvars, LAMBDA v : v.startpc <= pc /\ pc < v.endpc)
  IN IF reg + 1 \in DOMAIN active THEN active[reg + 1].varname ELSE ""

Constant(p, c) == IF p.k[c + 1].string THEN p.k[c + 1].value ELSE "?"

(* Along the path up to its k-th instruction, at pc. *)
RECURSIVE OnPath(_, _, _, _, _, _)
OnPath(p, path, k, pc, reg, rk) ==
  LET writers == {j \in 1 .. k : reg \in Writes(p.code[path[j] + 1])}
      j == CHOOSE x \in writers : \A y \in writers : y <= x
      i == p.code[path[j] + 1]
      Key(c) == IF c >= rk THEN Constant(p, c - rk)
                ELSE LET n == OnPath(p, path, j - 1, path[j], c, rk)
                     IN IF n # <<"">> /\ n[1] = "constant" THEN n[2] ELSE "?"
  IN IF LocalAt(p, reg, pc) # "" THEN <<"local", LocalAt(p, reg, pc)>>
     ELSE IF writers = {} THEN <<"">>
     ELSE CASE i.op = "MOVE" -> OnPath(p, path, j - 1, path[j], i.b, rk)
            [] i.op = "GETTABUP" -> <<IF p.upvalues[i.b + 1] = "_ENV" THEN "global" ELSE "field", Key(i.c)>>
            [] i.op = "GETTABLE" ->
                 <<IF LocalAt(p, i.b, path[j]) = "_ENV" THEN "global" ELSE "field", Key(i.c)>>
            [] i.op = "GETUPVAL" -> <<"upvalue", p.upvalues[i.b + 1]>>
            [] i.op = "LOADK" -> IF p.k[i.b + 1].string THEN <<"constant", Constant(p, i.b)>> ELSE <<"">>
            [] i.op = "SELF" -> <<"method", Key(i.c)>>
            [] OTHER -> <<"">>

(* A name is that of the value whichever way the program came; and in code  *)
(* without jumps no value that has one goes without.                        *)
NameIsRight(p, lastpc, reg, name, rk) ==
  LET paths == PathsFrom(p.code, 0, lastpc)
      On(path) == OnPath(p, path, Len(path), lastpc, reg, rk)
      Downward == \A i \in ToSet(p.code) : i.op = "MOVE" => i.b < i.a
  IN IF name = <<"">>
     THEN (\A i \in ToSet(p.code) : i.op # "JMP") /\ Downward => \A path \in paths : On(path) = <<"">>
     ELSE \A path \in paths :
            \/ On(path) = name
            \/ On(path) # <<"">> /\ On(path)[1] = name[1] /\ name[2] = "?"

(* Line events where the program comes to another line or goes back, count  *)
(* events after every so many instructions.                                 *)
EventsOf(trace, lines, mask, base) ==
  LET Line(i) == lines[trace[i] + 1]
      New(i) == i = 1 \/ trace[i] <= trace[i - 1] \/ Line(i) # Line(i - 1)
      At(i) == (IF "count" \in mask /\ i % base = 0 THEN <<[at |-> i, line |-> -1]>> ELSE <<>>)
               \o (IF "line" \in mask /\ New(i) THEN <<[at |-> i, line |-> Line(i)]>> ELSE <<>>)
  IN FlattenSeq([i \in DOMAIN trace |-> At(i)])

-----------------------------------------------------------------------------
(* A stack is a sequence. *)
Rotated2(s, p, n) ==
  LET segment == SubSeq(s, p, Len(s))
      m == (IF n >= 0 THEN Len(segment) - n ELSE -n)
  IN SubSeq(s, 1, p - 1) \o SubSeq(segment, m + 1, Len(segment)) \o SubSeq(segment, 1, m)

StackAfter(s, op, nil) ==
  LET p == IF op.i > 0 THEN op.i ELSE Len(s) + 1 + op.i
  IN CASE op.op = "settop" -> (LET n == IF op.i >= 0 THEN op.i ELSE p
                               IN [j \in 1 .. n |-> IF j \in DOMAIN s THEN s[j] ELSE nil])
       [] op.op = "rotate" -> Rotated2(s, p, op.n)
       [] op.op = "push" -> Append(s, s[p])
       [] op.op = "copy" -> [s EXCEPT ![op.n] = s[p]]
       [] op.op = "insert" -> SubSeq(s, 1, p - 1) \o <<s[Len(s)]>> \o SubSeq(s, p, Len(s) - 1)
       [] op.op = "remove" -> SubSeq(s, 1, p - 1) \o SubSeq(s, p + 1, Len(s))
       [] op.op = "replace" -> Front([s EXCEPT ![p] = s[Len(s)]])

-----------------------------------------------------------------------------
(* Text. *)
Chars(c, n) == [i \in 1 .. n |-> c]
ValueOf(c) == IF c <= 57 THEN c - 48 ELSE IF c >= 97 THEN c - 87 ELSE c - 55
RECURSIVE Horner(_, _)
Horner(ds, base) == IF ds = <<>> THEN 0 ELSE Horner(Front(ds), base) * base + ds[Len(ds)]

(* The integer that a text is in a base: blanks, a sign, digits, blanks.    *)
InBase(s, base, values, alnum, blank, none) ==
  LET Digits(i, j) == [k \in 1 .. (j - i + 1) |-> ValueOf(s[i + k - 1])]
      Blank(i, j) == \A k \in i .. j : s[k] = blank
      fits == {<<i, j>> \in (1 .. Len(s)) \X (1 .. Len(s)) :
                 /\ i <= j /\ Blank(j + 1, Len(s))
                 /\ \A k \in i .. j : s[k] \in alnum /\ ValueOf(s[k]) < base
                 /\ \/ Blank(1, i - 1)
                    \/ i > 1 /\ s[i - 1] \in {43, 45} /\ Blank(1, i - 2)}
      x == CHOOSE y \in fits : \A z \in fits : y[2] - y[1] >= z[2] - z[1]
      n == Horner(Digits(x[1], x[2]), base)
      signed == (IF x[1] > 1 /\ s[x[1] - 1] = 45 THEN -n ELSE n) % values
  IN IF fits = {} THEN none ELSE <<IF signed * 2 >= values THEN signed - values ELSE signed>>

IsSuffixOf(s, t) == Len(s) <= Len(t) /\ SubSeq(t, Len(t) - Len(s) + 1, Len(t)) = s

(* The name of a chunk fits into its buffer, and is cut only if it must.    *)
ChunkIdIsRight(source, bufflen, r, dots, prefix, suffix, newline) ==
  LET text == Front(r)
      name == Tail(source)
      room == bufflen - Len(prefix \o dots \o suffix) - 1
      first == {i \in DOMAIN source : source[i] = newline /\ \A j \in 1 .. (i - 1) : source[j] # newline}
      line == IF first = {} THEN source ELSE SubSeq(source, 1, (CHOOSE i \in first : TRUE) - 1)
      shown == SubSeq(text, Len(prefix) + 1, Len(text) - Len(suffix))
  IN /\ r[Len(r)] = 0 /\ Len(r) <= bufflen
     /\ CASE source # <<>> /\ source[1] = 61 ->
               IF Len(name) < bufflen THEN text = name ELSE IsPrefix(text, name) /\ Len(r) = bufflen
          [] source # <<>> /\ source[1] = 64 ->
               IF Len(name) < bufflen THEN text = name
               ELSE /\ Len(r) = bufflen /\ IsPrefix(dots, text)
                    /\ IsSuffixOf(SubSeq(text, Len(dots) + 1, Len(text)), name)
          [] OTHER ->
               /\ IsPrefix(prefix, text) /\ IsSuffixOf(suffix, text)
               /\ \/ shown = source /\ first = {} /\ Len(source) < room
                  \/ /\ first # {} \/ Len(source) >= room
                     /\ shown = SubSeq(line, 1, IF Len(line) < room THEN Len(line) ELSE room) \o dots

(* The file names of a path: the templates between separators, with the     *)
(* name for each mark.                                                      *)
RECURSIVE Split(_, _)
Split(path, sep) ==
  IF ~\E i \in DOMAIN path : path[i] = sep THEN <<path>>
  ELSE LET i == CHOOSE x \in DOMAIN path : path[x] = sep /\ \A y \in 1 .. (x - 1) : path[y] # sep
       IN <<SubSeq(path, 1, i - 1)>> \o Split(SubSeq(path, i + 1, Len(path)), sep)
Exchanged(s, c, by) == FlattenSeq([i \in DOMAIN s |-> IF s[i] = c THEN by ELSE <<s[i]>>])
Candidates(path, name, sep, mark) ==
  LET templates == SelectSeq(Split(path, sep), LAMBDA t : t # <<>>)
  IN [i \in DOMAIN templates |-> Exchanged(templates[i], mark, name)]

(* The prefixes of numerals: sign, mantissa, exponent.                      *)
IsNumeralStart(s, Hex, Digits) ==
  LET signEnd == IF s # <<>> /\ s[1] \in {43, 45} THEN 1 ELSE 0
      body == SubSeq(s, signEnd + 1, Len(s))
      IsHexBody == Len(body) >= 2 /\ body[1] = 48 /\ body[2] \in {120, 88}
      rest == IF IsHexBody THEN SubSeq(body, 3, Len(body)) ELSE body
      set == IF IsHexBody THEN Hex ELSE Digits
      marks == IF IsHexBody THEN {112, 80} ELSE {101, 69}
      Mantissa(m) == \E i \in 0 .. Len(m) :
        /\ \A k \in 1 .. i : m[k] \in set
        /\ i < Len(m) => m[i + 1] = 46 /\ \A k \in (i + 2) .. Len(m) : m[k] \in set
      Exponent(e) == /\ e[1] \in marks
                     /\ \A k \in 2 .. Len(e) : e[k] \in Digits \/ (k = 2 /\ e[k] \in {43, 45})
  IN \/ Mantissa(rest)
     \/ \E i \in 1 .. Len(rest) - 1 :
          /\ Mantissa(SubSeq(rest, 1, i)) /\ \E k \in 1 .. i : rest[k] \in set
          /\ Exponent(SubSeq(rest, i + 1, Len(rest)))

LongestNumeral(s, Hex, Digits) ==
  LET good == {n \in 0 .. Len(s) : IsNumeralStart(SubSeq(s, 1, n), Hex, Digits)}
  IN CHOOSE n \in good : \A m \in good : m <= n

-----------------------------------------------------------------------------
(* A pool of strings is a set of objects, one for each contents.            *)
RECURSIVE PoolAfter(_, _, _, _)
PoolAfter(ops, pool, made, ids) ==
  LET op == Head(ops)
      same == {o \in pool : o.str = op.str}
      o == CHOOSE x \in same : TRUE
  IN IF ops = <<>> THEN [pool |-> pool, ids |-> ids]
     ELSE CASE op.op = "intern" ->
                 (IF same # {}
                  THEN PoolAfter(Tail(ops), (pool \ same) \cup {[o EXCEPT !.dead = FALSE]}, made, Append(ids, o.id))
                  ELSE PoolAfter(Tail(ops), pool \cup {[str |-> op.str, id |-> made + 1, dead |-> FALSE]},
                                 made + 1, Append(ids, made + 1)))
            [] op.op = "dead" ->
                 PoolAfter(Tail(ops), {IF x.str \in op.strs THEN [x EXCEPT !.dead = TRUE] ELSE x : x \in pool}, made, ids)
            [] op.op = "sweep" -> PoolAfter(Tail(ops), {x \in pool : ~x.dead}, made, ids)
=============================================================================
