------------------------------- MODULE Parser -------------------------------
(***************************************************************************)
(* The productions of a script (lparser.c) over the code generator of      *)
(* Compiler: scopes, upvalues, labels and gotos, assignments, loops.       *)
(*                                                                         *)
(* A statement or an expression is a tuple: its kind and its parts, with   *)
(*   <<"var", n>>, <<"index", o, k>>, <<"call", f, args>>,                 *)
(*   <<"method", o, n, args>>, <<"fun", params, vararg, body>>,            *)
(*   <<"table", fields>> of <<"item", e>> and <<"field", k, e>>,           *)
(*   <<"if", clauses, else>> with else empty or <<block>>.                 *)
(***************************************************************************)
EXTENDS Compiler

-----------------------------------------------------------------------------
(* Variables.                                                              *)

NewLocals(fs, names) == [fs EXCEPT !.actvar = @ \o names]
AdjustLocals(fs, n) == [fs EXCEPT !.nactvar = @ + n]

\* The innermost variable, or upvalue, of that name; -1 if there is none.
SearchVar(fs, n) == SelectLastInSubSeq(fs.actvar, 1, fs.nactvar, LAMBDA v : v = n) - 1
SearchUpvalue(fs, n) == SelectInSeq(fs.ups, LAMBDA u : u.name = n) - 1

\* markupval: the block that declares the variable.
MarkUpval(fs, level) ==
  LET b == SelectLastInSeq(fs.bl, LAMBDA bl : bl.nactvar <= level)
  IN  [fs EXCEPT !.bl[b].upval = TRUE]

RECURSIVE SingleVarAux(_, _, _)
SingleVarAux(fs, n, base) ==
  IF SearchVar(fs, n) >= 0
  THEN R(IF base THEN fs ELSE MarkUpval(fs, SearchVar(fs, n)), Exp("LOCAL", SearchVar(fs, n)))
  ELSE IF SearchUpvalue(fs, n) >= 0 THEN R(fs, Exp("UPVAL", SearchUpvalue(fs, n)))
  ELSE IF fs.prev = <<>> THEN R(fs, Exp("VOID", 0))
  ELSE LET r == SingleVarAux(fs.prev[1], n, FALSE)
           up == [name |-> n, instack |-> r.e.k = "LOCAL", idx |-> r.e.info]
       IN  IF r.e.k = "VOID" THEN R(fs, r.e)
           ELSE R([fs EXCEPT !.prev = <<r.fs>>, !.ups = Append(@, up)], Exp("UPVAL", Len(fs.ups)))

CodeString(fs, s) == AddK(fs, Exp("K", 0), <<"str", s>>)

SingleVar(fs, n) ==
  LET r == SingleVarAux(fs, n, TRUE)
      env == SingleVarAux(fs, "_ENV", TRUE)
      key == CodeString(env.fs, n)
  IN  IF r.e.k = "VOID" THEN Indexed(key.fs, env.e, key.e) ELSE r

\* adjust_assign
AdjustAssign(r, nvars, nexps) ==
  LET extra == nvars - nexps
      many == Max({extra + 1, 0})
      f1 == SetReturns(r, many).fs
      f2 == IF r.e.k = "VOID" THEN r.fs ELSE Exp2NextReg(r).fs
  IN  IF HasMultRet(r.e) THEN IF many > 1 THEN ReserveRegs(f1, many - 1) ELSE f1
      ELSE IF extra > 0 THEN LoadNil(ReserveRegs(f2, extra), f2.freereg, extra) ELSE f2

-----------------------------------------------------------------------------
(* Blocks, labels and gotos.                                               *)

LabelEntry(fs, name, pc) == [name |-> name, nactvar |-> fs.nactvar, pc |-> pc]

EnterBlock(fs, loop) ==
  LET bl == [loop |-> loop, nactvar |-> fs.nactvar, firstlabel |-> Len(fs.label),
             firstgoto |-> Len(fs.gt), upval |-> FALSE]
  IN  [fs EXCEPT !.bl = Append(@, bl), !.ok = @ /\ fs.freereg = fs.nactvar]

\* closegoto: no jump into the scope of a local variable.
CloseGoto(fs, g, lb) ==
  LET f == PatchList(fs, fs.gt[g].pc, lb.pc)
  IN  [f EXCEPT !.gt = RemoveAt(@, g), !.error = @ \/ fs.gt[g].nactvar < lb.nactvar]

\* findlabel: the position of a label of the current block, 0 if there is none.
LabelFor(fs, g) ==
  SelectInSubSeq(fs.label, Last(fs.bl).firstlabel + 1, Len(fs.label), LAMBDA lb : lb.name = fs.gt[g].name)
FindLabel(fs, g) ==
  LET lb == fs.label[LabelFor(fs, g)]
      closes == /\ fs.gt[g].nactvar > lb.nactvar
                /\ Last(fs.bl).upval \/ Len(fs.label) > Last(fs.bl).firstlabel
  IN  IF LabelFor(fs, g) = 0 THEN fs
      ELSE CloseGoto(IF closes THEN PatchClose(fs, fs.gt[g].pc, lb.nactvar) ELSE fs, g, lb)

\* The gotos from position i on that are waiting for lb.
RECURSIVE FindGotos(_, _, _)
FindGotos(fs, lb, i) ==
  IF i > Len(fs.gt) THEN fs
  ELSE IF fs.gt[i].name = lb.name THEN FindGotos(CloseGoto(fs, i, lb), lb, i) ELSE FindGotos(fs, lb, i + 1)

\* Goto g leaves block bl.
Leaving(fs, bl, g) ==
  IF fs.gt[g].nactvar <= bl.nactvar THEN fs
  ELSE [(IF bl.upval THEN PatchClose(fs, fs.gt[g].pc, bl.nactvar) ELSE fs) EXCEPT !.gt[g].nactvar = bl.nactvar]

RECURSIVE MoveGotosOut(_, _, _)
MoveGotosOut(fs, bl, i) ==
  LET f == Leaving(fs, bl, i)
  IN  IF i > Len(fs.gt) THEN fs
      ELSE IF LabelFor(f, i) > 0 THEN MoveGotosOut(FindLabel(f, i), bl, i) ELSE MoveGotosOut(f, bl, i + 1)

LeaveBlock(fs) ==
  LET bl == Last(fs.bl)
      inner == Len(fs.bl) > 1
      q == Jump(fs)
      f1 == IF inner /\ bl.upval THEN PatchToHere(PatchClose(q.fs, q.j, bl.nactvar), q.j) ELSE fs
      f2 == IF bl.loop THEN FindGotos(f1, LabelEntry(f1, "break", PC(f1)), bl.firstgoto + 1) ELSE f1
      f3 == [f2 EXCEPT !.bl = Front(@), !.actvar = SubSeq(@, 1, bl.nactvar), !.nactvar = bl.nactvar,
                       !.freereg = bl.nactvar, !.label = SubSeq(@, 1, bl.firstlabel)]
  IN  IF inner THEN MoveGotosOut(f3, bl, bl.firstgoto + 1)
      ELSE [f3 EXCEPT !.error = @ \/ Len(f3.gt) > bl.firstgoto]

\* gotostat: the jumps in pc are to lead to the label.
GotoStat(fs, name, pc) ==
  LET f == [fs EXCEPT !.gt = Append(@, LabelEntry(fs, name, pc))] IN FindLabel(f, Len(f.gt))

\* labelstat: the labels at the start of a block's rest, and what comes after them.
RECURSIVE LabelStats(_, _, _)
LabelStats(fs, rest, until) ==
  LET name == rest[1][2]
      l == Len(fs.label) + 1
      repeated == SelectInSubSeq(fs.label, Last(fs.bl).firstlabel + 1, Len(fs.label), LAMBDA lb : lb.name = name) > 0
      q == LabelStats([fs EXCEPT !.label = Append(@, LabelEntry(fs, name, PC(fs))), !.error = @ \/ repeated],
                      Tail(rest), until)
      f == IF q.rest = <<>> /\ ~until THEN [q.fs EXCEPT !.label[l].nactvar = Last(fs.bl).nactvar] ELSE q.fs
  IN  IF rest = <<>> \/ rest[1][1] # "label" THEN [fs |-> fs, rest |-> rest]
      ELSE [fs |-> FindGotos(f, f.label[l], Last(fs.bl).firstgoto + 1), rest |-> q.rest]

-----------------------------------------------------------------------------
(* Expressions.                                                            *)

Ret(fs, first, nret) == Code(fs, "RETURN", first, nret + 1, 0)

RECURSIVE Expr(_, _), ExpList(_, _), StatList(_, _, _)

\* body, with open_func, parlist, codeclosure and close_func; main has no parent.
OpenFunc(prev, params, vararg) ==
  LET n == Len(params)
  IN  ReserveRegs(AdjustLocals(NewLocals([EnterBlock(NewFunc(prev), FALSE) EXCEPT !.numparams = n, !.vararg = vararg],
                                         params), n), n)
CloseFunc(fs) == LeaveBlock(Ret(fs, 0, 0))

Body(fs, params, vararg, body) ==
  LET f == CloseFunc(StatList(OpenFunc(<<fs>>, params, vararg), body, FALSE))
      up == f.prev[1]
      parent == [up EXCEPT !.p = Append(@, Proto(f)), !.ok = @ /\ f.ok, !.error = @ \/ f.error]
  IN  Exp2NextReg(Emit(parent, Exp("VOID", 0), "CLOSURE", 0, Len(up.p), 0, "RELOCABLE"))

\* funcargs: f is in a register.
FuncArgs(r, args) ==
  LET q == ExpList(r.fs, args)
      base == r.e.info
      fs == IF HasMultRet(q.e) THEN SetReturns(q, MultRet).fs ELSE IF q.e.k = "VOID" THEN q.fs ELSE Exp2NextReg(q).fs
      n == IF HasMultRet(q.e) THEN MultRet ELSE fs.freereg - (base + 1)
      c == Emit(fs, Exp("VOID", 0), "CALL", base, n + 1, 2, "CALL")
  IN  R([c.fs EXCEPT !.freereg = base + 1, !.ok = @ /\ r.e.k = "NONRELOC"], c.e)

\* closelistfield and lastlistfield; cc: the item read last, items in all and waiting.
CloseListField(cc, t) ==
  LET r == Exp2NextReg(R(cc.fs, cc.v))
      full == cc.tostore = FieldsPerFlush
  IN  IF cc.v.k = "VOID" THEN cc
      ELSE [cc EXCEPT !.fs = IF full THEN SetList(r.fs, t, cc.na, cc.tostore) ELSE r.fs,
                      !.v = Exp("VOID", 0), !.tostore = IF full THEN 0 ELSE @]
LastListField(cc, t) ==
  LET r == R(cc.fs, cc.v)
  IN  IF cc.tostore = 0 THEN cc.fs
      ELSE IF HasMultRet(cc.v) THEN SetList(SetReturns(r, MultRet).fs, t, cc.na, MultRet)
      ELSE SetList(IF cc.v.k = "VOID" THEN cc.fs ELSE Exp2NextReg(r).fs, t, cc.na, cc.tostore)

RecField(fs, t, k, v) ==
  LET key == Exp2RK(Expr(fs, k))
      val == Exp2RK(Expr(key.fs, v))
  IN  [Code(val.fs, "SETTABLE", t, RK(key.e), RK(val.e)) EXCEPT !.freereg = fs.freereg]

Field(cc, t, field) ==
  LET r == Expr(cc.fs, field[2])
  IN  IF field[1] = "item" THEN [cc EXCEPT !.fs = r.fs, !.v = r.e, !.na = @ + 1, !.tostore = @ + 1]
      ELSE [cc EXCEPT !.fs = RecField(cc.fs, t, field[2], field[3])]

Constructor(fs, fields) ==
  LET r == Exp2NextReg(Emit(fs, Exp("VOID", 0), "NEWTABLE", 0, 0, 0, "RELOCABLE"))
      t == r.e.info
      cc == FoldLeft(LAMBDA acc, field : Field(CloseListField(acc, t), t, field),
                     [fs |-> r.fs, v |-> Exp("VOID", 0), na |-> 0, tostore |-> 0], fields)
  IN  R(LastListField(cc, t), r.e)

ExpList(fs, list) ==
  IF fs.error \/ list = <<>> THEN R(fs, Exp("VOID", 0))
  ELSE IF Len(list) = 1 THEN Expr(fs, list[1])
  ELSE ExpList(Exp2NextReg(Expr(fs, list[1])).fs, Tail(list))

Expr(fs, x) ==
  CASE x[1] = "nil" -> R(fs, Exp("NIL", 0))
    [] x[1] = "true" -> R(fs, Exp("TRUE", 0))
    [] x[1] = "false" -> R(fs, Exp("FALSE", 0))
    [] x[1] = "int" -> R(fs, Exp("KINT", x[2]))
    [] x[1] = "str" -> CodeString(fs, x[2])
    [] x[1] = "vararg" -> Emit([fs EXCEPT !.error = @ \/ ~fs.vararg], Exp("VOID", 0), "VARARG", 0, 1, 0, "VARARG")
    [] x[1] = "fun" -> Body(fs, x[2], x[3], x[4])
    [] x[1] = "table" -> Constructor(fs, x[2])
    [] x[1] = "var" -> SingleVar(fs, x[2])
    [] x[1] = "paren" -> DischargeVars(Expr(fs, x[2]))
    [] x[1] = "index" -> LET r == Exp2AnyRegUp(Expr(fs, x[2]))
                             k == Exp2Val(Expr(r.fs, x[3]))
                         IN  Indexed(k.fs, r.e, k.e)
    [] x[1] = "call" -> FuncArgs(Exp2NextReg(Expr(fs, x[2])), x[3])
    [] x[1] = "method" -> LET r == Expr(fs, x[2])
                              key == CodeString(r.fs, x[3])
                          IN  FuncArgs(Self(R(key.fs, r.e), key.e), x[4])
    [] x[1] = "un" -> Prefix(Expr(fs, x[3]), x[2])
    [] x[1] = "bin" -> LET l == Infix(Expr(fs, x[3]), x[2]) IN Posfix(x[2], l.e, Expr(l.fs, x[4]))

-----------------------------------------------------------------------------
(* Statements.                                                             *)

\* Mutant of Conflicts: the index is not looked at.
ConflictsTable(w, v) == [w EXCEPT !.t = w.k = "INDEXED" /\ w.vt = v.k /\ w.info = v.info, !.f = FALSE]

\* check_conflict: is the variable v the table (t), the index (f) of an earlier target w?
Conflicts(w, v) == [w EXCEPT !.t = w.k = "INDEXED" /\ w.vt = v.k /\ w.info = v.info,
                             !.f = w.k = "INDEXED" /\ v.k = "LOCAL" /\ w.idx = v.info]

\* The earlier targets then use a copy in the next register.
CheckConflict(fs, lhs, v) ==
  LET c == [i \in DOMAIN lhs |-> Conflicts(lhs[i], v)]
      safe == [i \in DOMAIN lhs |->
                 [lhs[i] EXCEPT !.vt = IF c[i].t THEN "LOCAL" ELSE @, !.info = IF c[i].t THEN fs.freereg ELSE @,
                                !.idx = IF c[i].f THEN fs.freereg ELSE @]]
      op == IF v.k = "LOCAL" THEN "MOVE" ELSE "GETUPVAL"
  IN  IF v.k = "INDEXED" \/ \A i \in DOMAIN c : ~c[i].t /\ ~c[i].f THEN [fs |-> fs, lhs |-> Append(lhs, v)]
      ELSE [fs |-> ReserveRegs(Code(fs, op, fs.freereg, v.info, 0), 1), lhs |-> Append(safe, v)]

\* The other targets get what is on top of the stack, the last one first.
RECURSIVE StoreAll(_, _)
StoreAll(fs, lhs) ==
  IF lhs = <<>> THEN fs ELSE StoreAll(StoreVar(fs, Last(lhs), Exp("NONRELOC", fs.freereg - 1)), Front(lhs))

Assignment(fs, vars, exps) ==
  LET a == FoldLeft(LAMBDA acc, v : LET r == Expr(acc.fs, v) IN CheckConflict(r.fs, acc.lhs, r.e),
                    [fs |-> fs, lhs |-> <<>>], vars)
      q == ExpList(a.fs, exps)
      one == SetOneRet(q)
      n == Len(exps) - Len(vars)
      f == AdjustAssign(q, Len(vars), Len(exps))
  IN  IF n = 0 THEN StoreAll(StoreVar(one.fs, Last(a.lhs), one.e), Front(a.lhs))
      ELSE StoreAll([f EXCEPT !.freereg = @ - Max({n, 0})], a.lhs)

\* cond: the jumps for false.
Cond(fs, x) ==
  LET r == Expr(fs, x) IN GoIfTrue(R(r.fs, IF r.e.k = "NIL" THEN [r.e EXCEPT !.k = "FALSE"] ELSE r.e))

BlockStat(fs, b) == LeaveBlock(StatList(EnterBlock(fs, FALSE), b, FALSE))

WhileStat(fs, x, b) ==
  LET c == Cond(GetLabel(fs), x)
      f == LeaveBlock(JumpTo(BlockStat(EnterBlock(c.fs, TRUE), b), PC(fs)))
  IN  PatchToHere(f, c.e.f)

\* When the loop goes on, the variables of its body are closed too.
RepeatExit(c) == IF Last(c.fs.bl).upval THEN PatchClose(c.fs, c.e.f, Last(c.fs.bl).nactvar) ELSE c.fs

\* repeatstat: the condition sees the locals of the block.
RepeatStat(fs, b, x) ==
  LET c == Cond(StatList(EnterBlock(EnterBlock(GetLabel(fs), TRUE), FALSE), b, TRUE), x)
  IN  LeaveBlock(PatchList(LeaveBlock(RepeatExit(c)), c.e.f, PC(fs)))

ForBody(fs0, base, names, b, num) ==
  LET fs == AdjustLocals(fs0, 3)
      prep == PC(fs)
      p == IF num THEN [fs |-> Code(fs, "FORPREP", base, -1, 0), j |-> {prep}] ELSE Jump(fs)
      n == Len(names)
      f == LeaveBlock(BlockStat(ReserveRegs(AdjustLocals(EnterBlock(p.fs, FALSE), n), n), b))
      g == PatchToHere(f, p.j)
      h == IF num THEN Code(g, "FORLOOP", base, -1, 0)
           ELSE Code(Code(g, "TFORCALL", base, 0, n), "TFORLOOP", base + 2, -1, 0)
  IN  PatchList(h, {PC(h) - 1}, prep + 1)

\* fornum and forlist
ForNum(fs, name, exps, b) ==
  LET f0 == NewLocals(EnterBlock(fs, TRUE), <<"(index)", "(limit)", "(step)", name>>)
      f1 == Exp2NextReg(ExpList(f0, exps)).fs
      one == AddK(f1, Exp("K", 0), <<"int", 1>>)
      f2 == IF Len(exps) = 3 THEN f1 ELSE ReserveRegs(Code(one.fs, "LOADK", f1.freereg, one.e.info, 0), 1)
  IN  LeaveBlock(ForBody(f2, fs.freereg, <<name>>, b, TRUE))

ForIn(fs, names, exps, b) ==
  LET f0 == NewLocals(EnterBlock(fs, TRUE), <<"(generator)", "(state)", "(control)">> \o names)
      f1 == AdjustAssign(ExpList(f0, exps), 3, Len(exps))
  IN  LeaveBlock(ForBody([f1 EXCEPT !.maxstack = Max({@, f1.freereg + 3})], fs.freereg, names, b, FALSE))

\* test_then_block: `then goto` jumps if the condition holds.  Every block but the last escapes.
TestThenBlock(a, clause, last) ==
  LET b == clause[2]
      r == Expr(a.fs, clause[1])
      isgoto == b # <<>> /\ b[1][1] \in {"goto", "break"}
      g == GoIfFalse(r)
      after == LabelStats(GotoStat(EnterBlock(g.fs, FALSE), IF b[1][1] = "break" THEN "break" ELSE b[1][2], g.e.t),
                          Tail(b), FALSE)
      skip == Jump(after.fs)
      t == GoIfTrue(r)
      f1 == LeaveBlock(IF isgoto THEN StatList(skip.fs, after.rest, FALSE) ELSE StatList(EnterBlock(t.fs, FALSE), b, FALSE))
      q == IF last THEN [fs |-> f1, j |-> {}] ELSE Jump(f1)
  IN  IF isgoto /\ after.rest = <<>> THEN [a EXCEPT !.fs = LeaveBlock(after.fs)]
      ELSE [fs |-> PatchToHere(q.fs, IF isgoto THEN skip.j ELSE t.e.f), escape |-> a.escape \cup q.j]

IfStat(fs, clauses, else) ==
  LET n == Len(clauses)
      a == FoldLeft(LAMBDA acc, i : TestThenBlock(acc, clauses[i], i = n /\ else = <<>>),
                    [fs |-> fs, escape |-> {}], [i \in 1..n |-> i])
  IN  PatchToHere(IF else = <<>> THEN a.fs ELSE BlockStat(a.fs, else[1]), a.escape)

LocalStat(fs, names, exps) ==
  AdjustLocals(AdjustAssign(ExpList(NewLocals(fs, names), exps), Len(names), Len(exps)), Len(names))

\* localfunc: the function sees its own name.
LocalFun(fs, name, f) == Body(AdjustLocals(NewLocals(fs, <<name>>), 1), f[2], f[3], f[4]).fs

\* retstat: the values of all registers in use, or of one; a single call is a tail call.
RetStat(fs, exps) ==
  LET r == ExpList(fs, exps)
      m == SetReturns(r, MultRet).fs
      tail == r.e.k = "CALL" /\ Len(exps) = 1
      f == IF tail THEN [m EXCEPT !.code[r.e.info + 1].op = "TAILCALL", !.ok = @ /\ At(m, r.e.info).a = fs.nactvar] ELSE m
      one == Exp2AnyReg(r)
      all == Exp2NextReg(r).fs
  IN  IF exps = <<>> THEN Ret(fs, 0, 0)
      ELSE IF HasMultRet(r.e) THEN Ret(f, fs.nactvar, MultRet)
      ELSE IF Len(exps) = 1 THEN Ret(one.fs, one.e.info, 1)
      ELSE Ret([all EXCEPT !.ok = @ /\ Len(exps) = all.freereg - fs.nactvar], fs.nactvar, Len(exps))

Statement(fs, s) ==
  CASE s[1] = "local" -> LocalStat(fs, s[2], s[3])
    [] s[1] = "localfun" -> LocalFun(fs, s[2], s[3])
    [] s[1] = "assign" -> Assignment(fs, s[2], s[3])
    [] s[1] = "call" -> LET r == Expr(fs, s) IN [r.fs EXCEPT !.code[r.e.info + 1].c = 1]
    [] s[1] = "method" -> LET r == Expr(fs, s) IN [r.fs EXCEPT !.code[r.e.info + 1].c = 1]
    [] s[1] = "do" -> BlockStat(fs, s[2])
    [] s[1] = "while" -> WhileStat(fs, s[2], s[3])
    [] s[1] = "repeat" -> RepeatStat(fs, s[2], s[3])
    [] s[1] = "if" -> IfStat(fs, s[2], s[3])
    [] s[1] = "fornum" -> ForNum(fs, s[2], s[3], s[4])
    [] s[1] = "forin" -> ForIn(fs, s[2], s[3], s[4])
    [] s[1] = "return" -> RetStat(fs, s[2])
    [] s[1] = "goto" -> LET q == Jump(fs) IN GotoStat(q.fs, s[2], q.j)
    [] s[1] = "break" -> LET q == Jump(fs) IN GotoStat(q.fs, "break", q.j)

\* The end of statement: its registers are free again.
EndStatement(fs) ==
  [fs EXCEPT !.freereg = fs.nactvar, !.ok = @ /\ fs.maxstack >= fs.freereg /\ fs.freereg >= fs.nactvar]

\* statlist; a block before `until` does not end its scope.
StatList(fs, b, until) ==
  LET q == LabelStats(fs, b, until)
  IN  IF q.fs.error \/ q.rest = <<>> THEN q.fs
      ELSE StatList(EndStatement(Statement(q.fs, q.rest[1])), Tail(q.rest), until)

\* mainfunc: any number of arguments and the globals as an upvalue.
Compile(script) ==
  LET fs == [OpenFunc(<<>>, <<>>, TRUE) EXCEPT !.ups = <<[name |-> "_ENV", instack |-> TRUE, idx |-> 0]>>]
      f == CloseFunc(StatList(fs, script, FALSE))
  IN  Proto([f EXCEPT !.ok = @ /\ f.actvar = <<>> /\ f.label = <<>> /\ (f.gt = <<>> \/ f.error)])
=============================================================================
