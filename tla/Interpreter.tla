---------------------------- MODULE Interpreter ----------------------------
(***************************************************************************)
(* The virtual machine that runs a compiled script (lvm.c, with the        *)
(* calling convention of ldo.c and the upvalues of lfunc.c), one action    *)
(* per instruction or group of alike instructions.                         *)
(*                                                                         *)
(* All functions share one stack.  A register of a function is a slot      *)
(* above its base; a closure refers to a variable of an enclosing function *)
(* by an upvalue, which is open while the variable is on the stack and     *)
(* owns its value afterwards.                                              *)
(*                                                                         *)
(* Left out: metamethods, floats, coroutines, debug hooks, the size of the *)
(* stack and the garbage collector.                                        *)
(***************************************************************************)
EXTENDS Compiler, TLC

CONSTANTS
  Scripts,    \* the scripts to run
  Arguments,  \* the values a script may be given
  Malformed,  \* those the compiler must refuse
  Compiled(_),  \* what the compiler makes of a script
  Means(_, _)   \* what a well-formed script means, given the values: [out, result, failed]

VARIABLES
  script, args,  \* what runs, for good
  proto,         \* what it was compiled to, for good
  stack, top,    \* the slots, and the first free one
  ci,            \* the calls under way, the innermost one last
  upvals,        \* [at, val]: on the stack at slot at, or closed if at = 0
  closures,      \* [path, ups]: which function of the script, and its upvalues
  tables,        \* from keys to values
  cache,         \* the closure made last of every function
  out,           \* what the script has shown: the arguments of each call of emit
  status         \* "running", "done" or "error"

heap == <<upvals, closures, tables, cache>>
vars == <<script, args, proto, stack, top, ci, upvals, closures, tables, cache, out, status>>

Nil == <<"nil">>
Stale == <<"stale">>  \* what an unused slot happens to hold
Bool(b) == IF b THEN <<"true">> ELSE <<"false">>
Num(n) == <<"int", n>>
IsFalse(v) == v = Nil \/ v = <<"false">>
IsInt(v) == v[1] = "int"

\* Functions are known by the way to them from the main one.
ProtoAt(path) == FoldLeft(LAMBDA p, i : p.p[i], proto, path)

Ci == Last(ci)
Cl == closures[stack[Ci.func][2]]
P == ProtoAt(Cl.path)
Base == Ci.base
RA(i) == Base + i.a
Reg(x) == stack[Base + x]
RKValue(x) == IF IsK(x) THEN P.k[x - BitRK + 1] ELSE Reg(x)
Fetch == P.code[Ci.pc + 1]

UpvalValue(u) == IF upvals[u].at > 0 THEN stack[upvals[u].at] ELSE upvals[u].val

-----------------------------------------------------------------------------
(* The stack.                                                              *)

Grown(s, size) == IF size <= Len(s) THEN s ELSE s \o [i \in 1..(size - Len(s)) |-> Stale]

\* s with the values put from slot at on.
Put(s, at, values) ==
  [i \in DOMAIN Grown(s, at + Len(values) - 1) |->
     IF at <= i /\ i < at + Len(values) THEN values[i - at + 1] ELSE Grown(s, at + Len(values) - 1)[i]]

\* n values out of those given, missing ones are nil.
Adjusted(values, n) == [i \in 1..n |-> IF i <= Len(values) THEN values[i] ELSE Nil]

\* luaD_poscall: the values go to where the function was.
Results(s, func, values, wanted) ==
  LET r == IF wanted = MultRet THEN values ELSE Adjusted(values, wanted)
  IN  [stack |-> Put(s, func, r), top |-> func + Len(r)]

\* adjust_varargs: a vararg function gets its parameters copied above the arguments.
Params(p, given) ==
  LET fixed == Adjusted(given, p.numparams)
      rest == SubSeq(given, p.numparams + 1, Len(given))
      n == Len(fixed) + Len(rest)
  IN  IF ~p.vararg THEN [moved |-> fixed, base |-> 1]
      ELSE [moved |-> [i \in DOMAIN fixed |-> Nil] \o rest \o fixed, base |-> 1 + n]

\* luaD_precall of a Lua function at slot func, with the arguments up to slot t.
Enter(s, func, t, path, nresults) ==
  LET p == ProtoAt(path)
      q == Params(p, SubSeq(s, func + 1, t - 1))
      base == func + q.base
  IN  [stack |-> Grown(Put(s, func + 1, q.moved), base + p.maxstack - 1),
       frame |-> [func |-> func, base |-> base, top |-> base + p.maxstack, pc |-> 0, nresults |-> nresults]]

-----------------------------------------------------------------------------
(* Upvalues.                                                               *)

OpenAt(slot) == {u \in DOMAIN upvals : upvals[u].at = slot}

\* luaF_close
CloseFrom(level) ==
  [u \in DOMAIN upvals |->
     IF upvals[u].at > 0 /\ upvals[u].at >= level THEN [at |-> 0, val |-> stack[upvals[u].at]] ELSE upvals[u]]

\* Mutant of Capture: never shares a variable.
CaptureAnew(desc) ==
  FoldLeft(LAMBDA acc, d :
             IF ~d.instack THEN [acc EXCEPT !.ups = Append(@, Cl.ups[d.idx + 1])]
             ELSE [upvals |-> Append(acc.upvals, [at |-> Base + d.idx, val |-> Nil]),
                   ups |-> Append(acc.ups, Len(acc.upvals) + 1)],
           [upvals |-> upvals, ups |-> <<>>], desc)

\* pushclosure with luaF_findupval: a variable on the stack has one upvalue.
Capture(desc) ==
  FoldLeft(LAMBDA acc, d :
             LET slot == Base + d.idx
                 known == {u \in DOMAIN acc.upvals : acc.upvals[u].at = slot}
             IN  IF ~d.instack THEN [acc EXCEPT !.ups = Append(@, Cl.ups[d.idx + 1])]
                 ELSE IF known # {} THEN [acc EXCEPT !.ups = Append(@, CHOOSE u \in known : TRUE)]
                 ELSE [upvals |-> Append(acc.upvals, [at |-> slot, val |-> Nil]),
                       ups |-> Append(acc.ups, Len(acc.upvals) + 1)],
           [upvals |-> upvals, ups |-> <<>>], desc)

\* getcached: the last closure of the function serves again if it has the same variables.
Cached(path, desc) ==
  /\ path \in DOMAIN cache
  /\ \A n \in DOMAIN desc :
       LET u == closures[cache[path]].ups[n]
       IN  IF desc[n].instack THEN upvals[u].at = Base + desc[n].idx ELSE u = Cl.ups[desc[n].idx + 1]

-----------------------------------------------------------------------------
(* Tables: no metamethods.                                                 *)

IsTable(v) == v[1] = "table"
Get(t, k) == IF k \in DOMAIN tables[t[2]] THEN tables[t[2]][k] ELSE Nil
With(f, k, v) ==
  IF v = Nil THEN [x \in DOMAIN f \ {k} |-> f[x]] ELSE (k :> v) @@ f
Border(f) == CHOOSE n \in 0..Cardinality(DOMAIN f) :
               Num(n + 1) \notin DOMAIN f /\ \A j \in 1..n : Num(j) \in DOMAIN f

-----------------------------------------------------------------------------
Globals == (<<"str", "emit">> :> <<"emit">>)

Init ==
  /\ script \in Scripts /\ args \in Arguments
  /\ proto = Compiled(script)
  /\ upvals = <<[at |-> 0, val |-> <<"table", 1>>]>>
  /\ closures = <<[path |-> <<>>, ups |-> <<1>>]>>
  /\ tables = <<Globals>>
  /\ cache = << >>
  /\ out = <<>>
  /\ LET e == Enter(<<<<"fun", 1>>>> \o args, 1, Len(args) + 2, <<>>, MultRet)
     IN  IF proto.error THEN stack = <<>> /\ ci = <<>> /\ top = 1 /\ status = "error"
         ELSE stack = e.stack /\ ci = <<e.frame>> /\ top = e.frame.top /\ status = "running"

-----------------------------------------------------------------------------
(* Instructions.  i is the one being executed; it may skip d others.       *)

Skip(d) == ci' = [ci EXCEPT ![Len(ci)].pc = @ + 1 + d]
Set(a, v) == stack' = [stack EXCEPT ![a] = v]
Jumps(d) == Skip(d) /\ UNCHANGED <<stack, top, heap, out, status>>
Assign(i, v) == Set(RA(i), v) /\ Skip(0) /\ UNCHANGED <<top, heap, out, status>>

\* luaG_runerror, for want of pcall.
Fail == status' = "error" /\ UNCHANGED <<stack, top, ci, heap, out>>

Load(i) ==
  CASE i.op = "MOVE" -> Assign(i, Reg(i.b))
    [] i.op = "LOADK" -> Assign(i, P.k[i.b + 1])
    [] i.op = "GETUPVAL" -> Assign(i, UpvalValue(Cl.ups[i.b + 1]))
    [] i.op = "NOT" -> Assign(i, Bool(IsFalse(Reg(i.b))))

LoadBool(i) ==
  i.op = "LOADBOOL" /\ Set(RA(i), Bool(i.b = 1)) /\ Skip(i.c) /\ UNCHANGED <<top, heap, out, status>>

LoadNils(i) ==
  /\ i.op = "LOADNIL"
  /\ stack' = Put(stack, RA(i), [n \in 1..(i.b + 1) |-> Nil])
  /\ Skip(0) /\ UNCHANGED <<top, heap, out, status>>

SetUpval(i) ==
  LET u == Cl.ups[i.b + 1]
  IN  /\ i.op = "SETUPVAL"
      /\ IF upvals[u].at > 0 THEN Set(upvals[u].at, stack[RA(i)]) /\ UNCHANGED upvals
         ELSE upvals' = [upvals EXCEPT ![u].val = stack[RA(i)]] /\ UNCHANGED stack
      /\ Skip(0) /\ UNCHANGED <<top, closures, tables, cache, out, status>>

\* GETTABLE, GETTABUP and SELF: luaV_gettable
GetTable(i) ==
  LET t == IF i.op = "GETTABUP" THEN UpvalValue(Cl.ups[i.b + 1]) ELSE Reg(i.b)
      v == Get(t, RKValue(i.c))
  IN  /\ i.op \in {"GETTABLE", "GETTABUP", "SELF"}
      /\ IF ~IsTable(t) THEN Fail
         ELSE IF i.op = "SELF"
         THEN stack' = Put(stack, RA(i), <<v, t>>) /\ Skip(0) /\ UNCHANGED <<top, heap, out, status>>
         ELSE Assign(i, v)

\* SETTABLE and SETTABUP: luaV_settable
SetTable(i) ==
  LET t == IF i.op = "SETTABUP" THEN UpvalValue(Cl.ups[i.a + 1]) ELSE stack[RA(i)]
      k == RKValue(i.b)
  IN  /\ i.op \in {"SETTABLE", "SETTABUP"}
      /\ IF ~IsTable(t) \/ k = Nil THEN Fail
         ELSE /\ tables' = [tables EXCEPT ![t[2]] = With(@, k, RKValue(i.c))]
              /\ Skip(0) /\ UNCHANGED <<stack, top, upvals, closures, cache, out, status>>

NewTable(i) ==
  /\ i.op = "NEWTABLE"
  /\ tables' = Append(tables, << >>)
  /\ Set(RA(i), <<"table", Len(tables) + 1>>)
  /\ Skip(0) /\ UNCHANGED <<top, upvals, closures, cache, out, status>>

\* SETLIST: the values are those up to the top if their number is not in the instruction.
SetTableList(i) ==
  LET n == IF i.b = 0 THEN top - RA(i) - 1 ELSE i.b
      first == (i.c - 1) * FieldsPerFlush
      items == FoldLeft(LAMBDA f, j : With(f, Num(first + j), stack[RA(i) + j]),
                        tables[stack[RA(i)][2]], [j \in 1..n |-> j])
  IN  /\ i.op = "SETLIST"
      /\ tables' = [tables EXCEPT ![stack[RA(i)][2]] = items]
      /\ top' = Ci.top
      /\ Skip(0) /\ UNCHANGED <<stack, upvals, closures, cache, out, status>>

Arithmetic(i) ==
  LET x == RKValue(i.b)
      y == RKValue(i.c)
  IN  /\ i.op \in Arith
      /\ IF IsInt(x) /\ IsInt(y) THEN Assign(i, Num(Fold(i.op, x[2], y[2]))) ELSE Fail

Unary(i) ==
  LET v == Reg(i.b)
  IN  \/ i.op = "UNM" /\ (IF IsInt(v) THEN Assign(i, Num(-v[2])) ELSE Fail)
      \/ i.op = "LEN" /\ (IF IsTable(v) THEN Assign(i, Num(Border(tables[v[2]]))) ELSE Fail)

\* luaV_concat of registers b to c: strings and integers.
Text1(v) == IF IsInt(v) THEN ToString(v[2]) ELSE v[2]
Concat(i) ==
  /\ i.op = "CONCAT"
  /\ IF \A r \in i.b..i.c : Reg(r)[1] \in {"int", "str"}
     THEN LET s == FoldLeft(LAMBDA acc, n : acc \o Text1(Reg(n)), "", [n \in 1..(i.c - i.b + 1) |-> i.b + n - 1])
          IN  /\ stack' = [stack EXCEPT ![Base + i.b] = <<"str", s>>, ![RA(i)] = <<"str", s>>]
              /\ top' = Ci.top /\ Skip(0) /\ UNCHANGED <<heap, out, status>>
     ELSE Fail

\* dojump: a jump may close upvalues.
Jmp(i) ==
  /\ i.op = "JMP"
  /\ upvals' = IF i.a = 0 THEN upvals ELSE CloseFrom(Base + i.a - 1)
  /\ Skip(i.b) /\ UNCHANGED <<stack, top, closures, tables, cache, out, status>>

\* The jump that follows a test is taken with it (donextjump).
Follow(i) ==
  LET j == P.code[Ci.pc + 2]
  IN  /\ upvals' = IF j.a = 0 THEN upvals ELSE CloseFrom(Base + j.a - 1)
      /\ Skip(1 + j.b)

Compare(i) ==
  LET x == RKValue(i.b)
      y == RKValue(i.c)
      holds == CASE i.op = "EQ" -> x = y [] i.op = "LT" -> x[2] < y[2] [] i.op = "LE" -> x[2] <= y[2]
  IN  /\ i.op \in {"EQ", "LT", "LE"}
      /\ IF i.op # "EQ" /\ ~(IsInt(x) /\ IsInt(y)) THEN Fail
         ELSE IF holds # (i.a = 1) THEN Jumps(1)
         ELSE Follow(i) /\ UNCHANGED <<stack, top, closures, tables, cache, out, status>>

Test(i) ==
  LET v == IF i.op = "TEST" THEN stack[RA(i)] ELSE Reg(i.b)
  IN  /\ i.op \in {"TEST", "TESTSET"}
      /\ IF IsFalse(v) = (i.c = 1) THEN Jumps(1)
         ELSE /\ Follow(i)
              /\ IF i.op = "TEST" THEN UNCHANGED stack ELSE Set(RA(i), v)
              /\ UNCHANGED <<top, closures, tables, cache, out, status>>

-----------------------------------------------------------------------------
(* Calls.                                                                  *)

\* The arguments end at the top if their number is not in the instruction.
ArgsTop(i) == IF i.b # 0 THEN RA(i) + i.b ELSE top

\* A call of emit, which shows its arguments and returns them.
CallC(func, t, wanted) ==
  LET given == SubSeq(stack, func + 1, t - 1)
      r == Results(stack, func, given, wanted)
  IN  /\ stack[func] = <<"emit">>
      /\ out' = Append(out, given)
      /\ stack' = r.stack
      /\ top' = IF wanted = MultRet THEN r.top ELSE Ci.top
      /\ Skip(0) /\ UNCHANGED <<heap, status>>

CallLua(func, t, wanted) ==
  LET e == Enter(stack, func, t, closures[stack[func][2]].path, wanted)
  IN  /\ stack[func][1] = "fun"
      /\ stack' = e.stack
      /\ ci' = Append([ci EXCEPT ![Len(ci)].pc = @ + 1], e.frame)
      /\ top' = e.frame.top
      /\ UNCHANGED <<heap, out, status>>

NotCallable(func) == stack[func][1] \notin {"fun", "emit"} /\ Fail

Call(i) ==
  /\ i.op = "CALL"
  /\ \/ CallC(RA(i), ArgsTop(i), i.c - 1)
     \/ CallLua(RA(i), ArgsTop(i), i.c - 1)
     \/ NotCallable(RA(i))

\* The caller's upvalues before its frame goes.
TailFrame(i) == IF P.p # <<>> THEN CloseFrom(Base) ELSE upvals

\* TAILCALL of a Lua function: its frame is moved over the caller's.
TailCall(i) ==
  LET func == RA(i)
      t == ArgsTop(i)
      path == closures[stack[func][2]].path
      n == Enter(stack, func, t, path, MultRet)
      lim == n.frame.base + ProtoAt(path).numparams
      e == [n.frame EXCEPT !.func = Ci.func, !.base = @ - (func - Ci.func), !.top = @ - (func - Ci.func),
                           !.nresults = Ci.nresults]
  IN  /\ i.op = "TAILCALL"
      /\ \/ CallC(func, t, MultRet)
         \/ NotCallable(func)
         \/ /\ stack[func][1] = "fun"
            /\ upvals' = TailFrame(i)
            /\ stack' = Put(n.stack, Ci.func, SubSeq(n.stack, func, lim - 1))
            /\ ci' = Append(Front(ci), e)
            /\ top' = e.top
            /\ UNCHANGED <<closures, tables, cache, out, status>>

Return(i) ==
  LET t == IF i.b # 0 THEN RA(i) + i.b - 1 ELSE top
      r == Results(stack, Ci.func, SubSeq(stack, RA(i), t - 1), Ci.nresults)
      outer == Len(ci) = 1
  IN  /\ i.op = "RETURN"
      /\ upvals' = IF P.p # <<>> THEN CloseFrom(Base) ELSE upvals
      /\ stack' = r.stack
      /\ ci' = Front(ci)
      /\ top' = IF Ci.nresults = MultRet THEN r.top ELSE ci[Len(ci) - 1].top
      /\ status' = IF outer THEN "done" ELSE status
      /\ UNCHANGED <<closures, tables, cache, out>>

Closure(i) ==
  LET path == Append(Cl.path, i.b + 1)
      desc == ProtoAt(path).ups
      c == Capture(desc)
  IN  /\ i.op = "CLOSURE"
      /\ IF Cached(path, desc)
         THEN Set(RA(i), <<"fun", cache[path]>>) /\ UNCHANGED <<upvals, closures, cache>>
         ELSE /\ upvals' = c.upvals
              /\ closures' = Append(closures, [path |-> path, ups |-> c.ups])
              /\ cache' = (path :> Len(closures) + 1) @@ cache
              /\ Set(RA(i), <<"fun", Len(closures) + 1>>)
      /\ Skip(0) /\ UNCHANGED <<top, tables, out, status>>

Vararg(i) ==
  LET n == Base - Ci.func - P.numparams - 1
      given == SubSeq(stack, Base - n, Base - 1)
      v == IF i.b = 0 THEN given ELSE Adjusted(given, i.b - 1)
  IN  /\ i.op = "VARARG"
      /\ stack' = Put(stack, RA(i), v)
      /\ top' = IF i.b = 0 THEN RA(i) + n ELSE top
      /\ Skip(0) /\ UNCHANGED <<heap, out, status>>

-----------------------------------------------------------------------------
(* Loops, over integers.                                                   *)

ForPrep(i) ==
  LET a == RA(i)
  IN  /\ i.op = "FORPREP"
      /\ IF \A r \in a..(a + 2) : IsInt(stack[r])
         THEN Set(a, Num(stack[a][2] - stack[a + 2][2])) /\ Skip(i.b) /\ UNCHANGED <<top, heap, out, status>>
         ELSE Fail

ForLoop(i) ==
  LET a == RA(i)
      step == stack[a + 2][2]
      idx == stack[a][2] + step
      limit == stack[a + 1][2]
  IN  /\ i.op = "FORLOOP"
      /\ IF (IF 0 < step THEN idx <= limit ELSE limit <= idx)
         THEN /\ stack' = [stack EXCEPT ![a] = Num(idx), ![a + 3] = Num(idx)]
              /\ Skip(i.b) /\ UNCHANGED <<top, heap, out, status>>
         ELSE Jumps(0)

\* TFORCALL copies the generator, the state and the control variable and calls.
TForCall(i) ==
  LET cb == RA(i) + 3
      s == Put(stack, cb, SubSeq(stack, RA(i), RA(i) + 2))
      e == Enter(s, cb, cb + 3, closures[s[cb][2]].path, i.c)
  IN  /\ i.op = "TFORCALL"
      /\ IF stack[RA(i)][1] # "fun" THEN Fail
         ELSE /\ stack' = e.stack
              /\ ci' = Append([ci EXCEPT ![Len(ci)].pc = @ + 1], e.frame)
              /\ top' = e.frame.top
              /\ UNCHANGED <<heap, out, status>>

TForLoop(i) ==
  LET a == RA(i)
  IN  /\ i.op = "TFORLOOP"
      /\ IF stack[a + 1] = Nil THEN Jumps(0)
         ELSE Set(a, stack[a + 1]) /\ Skip(i.b) /\ UNCHANGED <<top, heap, out, status>>

-----------------------------------------------------------------------------
Execute(i) ==
  \/ i.op \in {"MOVE", "LOADK", "GETUPVAL", "NOT"} /\ Load(i)
  \/ LoadBool(i) \/ LoadNils(i) \/ SetUpval(i) \/ GetTable(i) \/ SetTable(i)
  \/ NewTable(i) \/ SetTableList(i) \/ Arithmetic(i) \/ Unary(i) \/ Concat(i)
  \/ Jmp(i) \/ Compare(i) \/ Test(i)
  \/ Call(i) \/ TailCall(i) \/ Return(i) \/ Closure(i) \/ Vararg(i)
  \/ ForPrep(i) \/ ForLoop(i) \/ TForCall(i) \/ TForLoop(i)

Next == status = "running" /\ Execute(Fetch) /\ UNCHANGED <<script, args, proto>>

Spec == Init /\ [][Next]_vars

-----------------------------------------------------------------------------
(* Properties.                                                             *)

TypeOK ==
  /\ top \in Nat /\ status \in {"running", "done", "error"}
  /\ \A n \in DOMAIN ci :
       /\ ci[n].func < ci[n].base /\ ci[n].base <= ci[n].top /\ ci[n].top <= Len(stack) + 1
       /\ stack[ci[n].func][1] = "fun" /\ ci[n].pc \in Nat
  /\ \A u \in DOMAIN upvals : upvals[u].at \in 0..Len(stack)
  /\ \A c \in DOMAIN closures : \A n \in DOMAIN closures[c].ups : closures[c].ups[n] \in DOMAIN upvals

\* What the compiled script shows and returns is what its text means, and it fails
\* where that does; a malformed one does not run (luaY_parser, luaV_execute).
SameMeaning ==
  status # "running" =>
    IF script \in Malformed THEN proto.error
    ELSE LET m == Means(script, args)
         IN  /\ ~proto.error
             /\ out = m.out
             /\ (status = "error") = m.failed
             /\ ~m.failed => SubSeq(stack, 1, top - 1) = m.result

\* Every open upvalue is a register of a call under way, and no variable has two: a
\* function that outlives a block owns what the block's registers held (luaF_close).
UpvaluesAreShared ==
  \A u \in DOMAIN upvals : upvals[u].at > 0 =>
    /\ \E n \in DOMAIN ci : ci[n].base <= upvals[u].at /\ upvals[u].at < ci[n].top
    /\ OpenAt(upvals[u].at) = {u}

\* What the interpreter takes on trust from the compiler: registers below maxstack,
\* jumps within the code, a jump after every test, open results used at once, and
\* none of the compiler's assertions failed.
Registers(i) ==
  CASE i.op \in {"LOADK", "LOADBOOL", "NEWTABLE", "GETUPVAL", "SETUPVAL", "CLOSURE", "TEST"} -> {i.a}
    [] i.op = "LOADNIL" -> {i.a, i.a + i.b}
    [] i.op \in {"MOVE", "NOT", "UNM", "LEN", "TESTSET"} -> {i.a, i.b}
    [] i.op \in {"CONCAT"} -> {i.a, i.b, i.c}
    [] i.op \in {"ADD", "SUB", "GETTABLE", "SETTABLE"} -> {i.a} \cup {y \in {i.b, i.c} : ~IsK(y)}
    [] i.op = "SELF" -> {i.a + 1, i.b}
    [] i.op \in {"EQ", "LT", "LE"} -> {y \in {i.b, i.c} : ~IsK(y)}
    [] i.op \in {"CALL", "TAILCALL"} -> {i.a, i.a + i.b - 1, i.a + i.c - 2}
    [] i.op \in {"FORPREP", "FORLOOP"} -> {i.a + 3}
    [] i.op = "TFORCALL" -> {i.a + 5, i.a + 2 + i.c}
    [] i.op = "SETLIST" -> {i.a + i.b}
    [] OTHER -> {}
Jumping == {"JMP", "FORPREP", "FORLOOP", "TFORLOOP"}
OpenResults(i) == (i.op \in {"CALL", "TAILCALL"} /\ i.c = 0) \/ (i.op = "VARARG" /\ i.b = 0)
TakesOpen(i) == i.op \in {"CALL", "TAILCALL", "RETURN", "SETLIST"} /\ i.b = 0

RECURSIVE WellFormed(_)
WellFormed(p) ==
  /\ p.ok /\ Last(p.code).op = "RETURN"
  /\ \A pc \in 1..Len(p.code) :
       LET i == p.code[pc]
       IN  /\ \A r \in Registers(i) : r < p.maxstack
           /\ i.op \in Jumping => pc + 1 + i.b \in 1..Len(p.code)
           /\ i.op \in TestOps => p.code[pc + 1].op = "JMP"
           /\ pc < Len(p.code) => (OpenResults(i) <=> TakesOpen(p.code[pc + 1]))
  /\ \A j \in DOMAIN p.p : WellFormed(p.p[j])

CodeIsWellFormed == TypeOK /\ (status = "running" /\ ci[1].pc = 0 => WellFormed(proto))
=============================================================================
