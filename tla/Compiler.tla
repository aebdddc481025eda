------------------------------ MODULE Compiler ------------------------------
(***************************************************************************)
(* The compiler of a script (src/dep/lua-5.3.0: lparser.c, lcode.c): one   *)
(* pass over the text that emits instructions while it parses, patches     *)
(* jumps later, hands out registers like a stack, and finds upvalues.      *)
(*                                                                         *)
(* Here the text is a tree: a tuple whose first element names the          *)
(* production.  A jump list, threaded through the jumps in the code, is    *)
(* the set of their positions; lines, names for debugging and the limits   *)
(* of the encoding are left out.                                           *)
(***************************************************************************)
EXTENDS Integers, Sequences, SequencesExt, FiniteSetsExt

CONSTANT FieldsPerFlush  \* LFIELDS_PER_FLUSH

ASSUME CompilerAssumption == FieldsPerFlush \in Nat \ {0}

NoReg == 255
MultRet == -1
BitRK == 256
RKAsK(k) == k + BitRK
IsK(x) == x >= BitRK

-----------------------------------------------------------------------------
(* Descriptors.                                                            *)

\* expdesc: the kind, its register, position, constant or integer; for an indexed
\* variable info is the table and idx the key; the jumps if true (t) and if false (f).
Exp(k, info) == [k |-> k, info |-> info, idx |-> 0, vt |-> "", t |-> {}, f |-> {}]
HasJumps(e) == e.t # e.f
HasMultRet(e) == e.k \in {"CALL", "VARARG"}
Numeral(e) == e.k = "KINT" /\ e.t = {} /\ e.f = {}

\* FuncState; ok: no assertion of the compiler has failed; error: a message it would give.
NewFunc(prev) ==
  [prev |-> prev, code |-> <<>>, k |-> <<>>, p |-> <<>>, ups |-> <<>>,
   freereg |-> 0, nactvar |-> 0, actvar |-> <<>>, maxstack |-> 2,
   jpc |-> {}, lasttarget |-> 0, bl |-> <<>>, label |-> <<>>, gt |-> <<>>,
   numparams |-> 0, vararg |-> FALSE, ok |-> TRUE, error |-> FALSE]

Proto(fs) ==
  [code |-> fs.code, k |-> fs.k, p |-> fs.p, ups |-> fs.ups, maxstack |-> fs.maxstack,
   numparams |-> fs.numparams, vararg |-> fs.vararg, ok |-> fs.ok, error |-> fs.error]

PC(fs) == Len(fs.code)
At(fs, pc) == fs.code[pc + 1]
R(fs, e) == [fs |-> fs, e |-> e]

-----------------------------------------------------------------------------
(* lcode.c: jumps.                                                         *)

TestOps == {"EQ", "LT", "LE", "TEST", "TESTSET"}

\* getjumpcontrol: the position of the test that decides about the jump at pc.
Control(fs, pc) == IF pc >= 1 /\ At(fs, pc - 1).op \in TestOps THEN pc - 1 ELSE pc
Valued(fs, pc) == At(fs, Control(fs, pc)).op = "TESTSET"

NeedValue(fs, list) == \E pc \in list : ~Valued(fs, pc)

\* patchtestreg
TestReg(i, reg) ==
  IF reg # NoReg /\ reg # i.b THEN [i EXCEPT !.a = reg]
  ELSE [op |-> "TEST", a |-> i.b, b |-> 0, c |-> i.c]

\* patchlistaux: jumps that produce a value go to vtarget, with it in reg, others to dtarget.
PatchListAux(fs, list, vtarget, reg, dtarget) ==
  [fs EXCEPT !.code =
     [n \in DOMAIN fs.code |->
        LET pc == n - 1
            i == fs.code[n]
        IN  IF pc \in list THEN [i EXCEPT !.b = (IF Valued(fs, pc) THEN vtarget ELSE dtarget) - (pc + 1)]
            ELSE IF pc + 1 \in list /\ i.op = "TESTSET" THEN TestReg(i, reg)
            ELSE i]]

RemoveValues(fs, list) ==
  [fs EXCEPT !.code =
     [n \in DOMAIN fs.code |->
        IF n \in list /\ fs.code[n].op = "TESTSET" THEN TestReg(fs.code[n], NoReg) ELSE fs.code[n]]]

GetLabel(fs) == [fs EXCEPT !.lasttarget = PC(fs)]
PatchToHere(fs, list) == [GetLabel(fs) EXCEPT !.jpc = @ \cup list]
PatchList(fs, list, target) ==
  IF target = PC(fs) THEN PatchToHere(fs, list) ELSE PatchListAux(fs, list, target, NoReg, target)

\* luaK_patchclose: the jumps close the upvalues from level on.
PatchClose(fs, list, level) ==
  [fs EXCEPT !.code = [n \in DOMAIN fs.code |-> IF n - 1 \in list THEN [fs.code[n] EXCEPT !.a = level + 1]
                                                 ELSE fs.code[n]],
             !.ok = @ /\ \A pc \in list : At(fs, pc).op = "JMP" /\ At(fs, pc).a \in {0} \cup (level + 1 .. NoReg)]

-----------------------------------------------------------------------------
(* lcode.c: instructions, registers, constants.                            *)

\* luaK_code, after dischargejpc.
Code(fs, op, a, b, c) ==
  LET f == PatchListAux(fs, fs.jpc, PC(fs), NoReg, PC(fs))
  IN  [f EXCEPT !.jpc = {}, !.code = Append(@, [op |-> op, a |-> a, b |-> b, c |-> c])]

\* The result of e is what the next instruction, op, puts somewhere.
Emit(fs, e, op, a, b, c, k) == R(Code(fs, op, a, b, c), [e EXCEPT !.k = k, !.info = PC(fs)])

\* luaK_jump: the jumps that were to lead here are kept on hold with the new one, j.
Jump(fs) ==
  [fs |-> Code([fs EXCEPT !.jpc = {}], "JMP", 0, -1, 0), j |-> {PC(fs)} \cup fs.jpc]
CondJump(fs, op, a, b, c) == Jump(Code(fs, op, a, b, c)).fs
JumpTo(fs, target) == LET q == Jump(fs) IN PatchList(q.fs, q.j, target)

\* luaK_nil: joins the registers with those of a LOADNIL just before.
LoadNil(fs, from, n) ==
  LET last == from + n - 1
      prev == At(fs, PC(fs) - 1)
      plast == prev.a + prev.b
      first == Min({from, prev.a})
  IN  IF /\ PC(fs) > fs.lasttarget
         /\ prev.op = "LOADNIL"
         /\ \/ prev.a <= from /\ from <= plast + 1
            \/ from <= prev.a /\ prev.a <= last + 1
      THEN [fs EXCEPT !.code[PC(fs)] = [prev EXCEPT !.a = first, !.b = Max({last, plast}) - first]]
      ELSE Code(fs, "LOADNIL", from, n - 1, 0)

\* Mutant of ReserveRegs: luaK_checkstack is forgotten.
ReserveUnchecked(fs, n) == [fs EXCEPT !.freereg = @ + n]

ReserveRegs(fs, n) ==
  [fs EXCEPT !.freereg = @ + n, !.maxstack = Max({@, fs.freereg + n})]
FreeReg(fs, reg) ==
  IF ~IsK(reg) /\ reg >= fs.nactvar
  THEN [fs EXCEPT !.freereg = @ - 1, !.ok = @ /\ reg = fs.freereg - 1]
  ELSE fs
FreeExp(fs, e) == IF e.k = "NONRELOC" THEN FreeReg(fs, e.info) ELSE fs

\* addk: a constant is entered once.
AddK(fs, e, v) ==
  LET known == SelectInSeq(fs.k, LAMBDA c : c = v)
  IN  IF known > 0 THEN R(fs, [e EXCEPT !.k = "K", !.info = known - 1])
      ELSE R([fs EXCEPT !.k = Append(@, v)], [e EXCEPT !.k = "K", !.info = Len(fs.k)])

Constant(e) ==
  CASE e.k = "NIL" -> <<"nil">> [] e.k = "TRUE" -> <<"true">> [] e.k = "FALSE" -> <<"false">>
    [] e.k = "KINT" -> <<"int", e.info>>

-----------------------------------------------------------------------------
(* lcode.c: where the value of an expression is.  r is [fs, e].            *)

\* luaK_setreturns
SetReturns(r, n) ==
  CASE r.e.k = "CALL" -> R([r.fs EXCEPT !.code[r.e.info + 1].c = n + 1], r.e)
    [] r.e.k = "VARARG" -> R(ReserveRegs([r.fs EXCEPT !.code[r.e.info + 1].b = n + 1,
                                                      !.code[r.e.info + 1].a = r.fs.freereg], 1), r.e)
    [] OTHER -> r
SetOneRet(r) ==
  CASE r.e.k = "CALL" -> R(r.fs, [r.e EXCEPT !.k = "NONRELOC", !.info = At(r.fs, @).a])
    [] r.e.k = "VARARG" -> R([r.fs EXCEPT !.code[r.e.info + 1].b = 2], [r.e EXCEPT !.k = "RELOCABLE"])
    [] OTHER -> r

DischargeVars(r) ==
  LET e == r.e
  IN  CASE e.k = "LOCAL" -> R(r.fs, [e EXCEPT !.k = "NONRELOC"])
        [] e.k = "UPVAL" -> Emit(r.fs, e, "GETUPVAL", 0, e.info, 0, "RELOCABLE")
        [] e.k = "INDEXED" /\ e.vt = "LOCAL" ->
             Emit(FreeReg(FreeReg(r.fs, e.idx), e.info), e, "GETTABLE", 0, e.info, e.idx, "RELOCABLE")
        [] e.k = "INDEXED" /\ e.vt = "UPVAL" ->
             Emit(FreeReg(r.fs, e.idx), e, "GETTABUP", 0, e.info, e.idx, "RELOCABLE")
        [] OTHER -> SetOneRet(r)

Discharge2Reg(r0, reg) ==
  LET r == DischargeVars(r0)
      e == r.e
      known == AddK(r.fs, e, Constant(e))
      fs == CASE e.k = "NIL" -> LoadNil(r.fs, reg, 1)
              [] e.k \in {"TRUE", "FALSE"} -> Code(r.fs, "LOADBOOL", reg, IF e.k = "TRUE" THEN 1 ELSE 0, 0)
              [] e.k = "K" -> Code(r.fs, "LOADK", reg, e.info, 0)
              [] e.k = "KINT" -> Code(known.fs, "LOADK", reg, known.e.info, 0)
              [] e.k = "RELOCABLE" -> [r.fs EXCEPT !.code[e.info + 1].a = reg]
              [] e.k = "NONRELOC" -> IF reg = e.info THEN r.fs ELSE Code(r.fs, "MOVE", reg, e.info, 0)
              [] OTHER -> r.fs
  IN  IF e.k \in {"VOID", "JMP"} THEN r ELSE R(fs, [e EXCEPT !.k = "NONRELOC", !.info = reg])

Discharge2AnyReg(r) ==
  IF r.e.k = "NONRELOC" THEN r ELSE Discharge2Reg(R(ReserveRegs(r.fs, 1), r.e), r.fs.freereg)

\* The two LOADBOOL that jumps without a value lead to.
LoadBools(fs, e, reg) ==
  LET skip == IF e.k = "JMP" THEN [fs |-> fs, j |-> {}] ELSE Jump(fs)
      f1 == Code(GetLabel(skip.fs), "LOADBOOL", reg, 0, 1)
      f2 == Code(GetLabel(f1), "LOADBOOL", reg, 1, 0)
  IN  [fs |-> PatchToHere(f2, skip.j), pf |-> PC(skip.fs), pt |-> PC(f1)]

Exp2Reg(r0, reg) ==
  LET r == Discharge2Reg(r0, reg)
      e == IF r.e.k = "JMP" THEN [r.e EXCEPT !.t = @ \cup {r.e.info}] ELSE r.e
      q == IF NeedValue(r.fs, e.t) \/ NeedValue(r.fs, e.f) THEN LoadBools(r.fs, e, reg)
           ELSE [fs |-> r.fs, pf |-> -1, pt |-> -1]
      final == PC(q.fs)
      fs == IF ~HasJumps(e) THEN r.fs
            ELSE PatchListAux(PatchListAux(GetLabel(q.fs), e.f, final, reg, q.pf), e.t, final, reg, q.pt)
  IN  R(fs, Exp("NONRELOC", reg))

Exp2NextReg(r0) ==
  LET r == DischargeVars(r0)
      fs == ReserveRegs(FreeExp(r.fs, r.e), 1)
  IN  Exp2Reg(R(fs, r.e), fs.freereg - 1)

Exp2AnyReg(r0) ==
  LET r == DischargeVars(r0)
  IN  IF r.e.k = "NONRELOC" /\ ~HasJumps(r.e) THEN r
      ELSE IF r.e.k = "NONRELOC" /\ r.e.info >= r.fs.nactvar THEN Exp2Reg(r, r.e.info)
      ELSE Exp2NextReg(r)

Exp2AnyRegUp(r) == IF r.e.k # "UPVAL" \/ HasJumps(r.e) THEN Exp2AnyReg(r) ELSE r
Exp2Val(r) == IF HasJumps(r.e) THEN Exp2AnyReg(r) ELSE DischargeVars(r)

\* luaK_exp2RK: a constant, or in a register.
Exp2RK(r0) ==
  LET r == Exp2Val(r0)
  IN  CASE r.e.k \in {"TRUE", "FALSE", "NIL", "KINT"} -> AddK(r.fs, r.e, Constant(r.e))
        [] r.e.k = "K" -> r
        [] OTHER -> Exp2AnyReg(r)
RK(e) == IF e.k = "K" THEN RKAsK(e.info) ELSE e.info

StoreVar(fs, var, ex) ==
  CASE var.k = "LOCAL" -> Exp2Reg(R(FreeExp(fs, ex), ex), var.info).fs
    [] var.k = "UPVAL" ->
         LET r == Exp2AnyReg(R(fs, ex)) IN FreeExp(Code(r.fs, "SETUPVAL", r.e.info, var.info, 0), r.e)
    [] var.k = "INDEXED" ->
         LET r == Exp2RK(R(fs, ex))
         IN  FreeExp(Code(r.fs, IF var.vt = "LOCAL" THEN "SETTABLE" ELSE "SETTABUP", var.info, var.idx, RK(r.e)), r.e)

Self(r0, key) ==
  LET r == Exp2AnyReg(r0)
      f1 == FreeExp(r.fs, r.e)
      q == Exp2RK(R(ReserveRegs(f1, 2), key))
  IN  R(FreeExp(Code(q.fs, "SELF", f1.freereg, r.e.info, RK(q.e)), q.e), [r.e EXCEPT !.info = f1.freereg, !.k = "NONRELOC"])

InvertJump(fs, e) == [fs EXCEPT !.code[Control(fs, e.info) + 1].a = 1 - @]

\* jumponcond: the new jump is the last instruction.
JumpOnCond(r, cond) ==
  LET i == At(r.fs, r.e.info)
      q == Discharge2AnyReg(r)
  IN  IF r.e.k = "RELOCABLE" /\ i.op = "NOT"
      THEN CondJump([r.fs EXCEPT !.code = Front(@)], "TEST", i.b, 0, 1 - cond)
      ELSE CondJump(FreeExp(q.fs, q.e), "TESTSET", NoReg, q.e.info, cond)

GoIfTrue(r0) ==
  LET r == DischargeVars(r0)
      fs == CASE r.e.k = "JMP" -> InvertJump(r.fs, r.e)
              [] r.e.k \in {"K", "KINT", "TRUE"} -> r.fs
              [] OTHER -> JumpOnCond(r, 0)
      pc == CASE r.e.k = "JMP" -> {r.e.info} [] r.e.k \in {"K", "KINT", "TRUE"} -> {} [] OTHER -> {PC(fs) - 1}
  IN  R(PatchToHere(fs, r.e.t), [r.e EXCEPT !.f = @ \cup pc, !.t = {}])

GoIfFalse(r0) ==
  LET r == DischargeVars(r0)
      fs == IF r.e.k \in {"JMP", "NIL", "FALSE"} THEN r.fs ELSE JumpOnCond(r, 1)
      pc == CASE r.e.k = "JMP" -> {r.e.info} [] r.e.k \in {"NIL", "FALSE"} -> {} [] OTHER -> {PC(fs) - 1}
  IN  R(PatchToHere(fs, r.e.f), [r.e EXCEPT !.t = @ \cup pc, !.f = {}])

CodeNot(r0) ==
  LET r == DischargeVars(r0)
      d == Discharge2AnyReg(r)
      q == CASE r.e.k \in {"NIL", "FALSE"} -> R(r.fs, [r.e EXCEPT !.k = "TRUE"])
             [] r.e.k \in {"K", "KINT", "TRUE"} -> R(r.fs, [r.e EXCEPT !.k = "FALSE"])
             [] r.e.k = "JMP" -> R(InvertJump(r.fs, r.e), r.e)
             [] OTHER -> Emit(FreeExp(d.fs, d.e), d.e, "NOT", 0, d.e.info, 0, "RELOCABLE")
  IN  R(RemoveValues(q.fs, q.e.t \cup q.e.f), [q.e EXCEPT !.t = q.e.f, !.f = q.e.t])

\* luaK_indexed: t is an upvalue or in a register.
Indexed(fs, t, k) ==
  LET r == Exp2RK(R(fs, k))
  IN  R(r.fs, [t EXCEPT !.k = "INDEXED", !.idx = RK(r.e), !.vt = IF t.k = "UPVAL" THEN "UPVAL" ELSE "LOCAL"])

\* luaO_arith of two numerals.
Arith == {"ADD", "SUB"}
Fold(op, x, y) == IF op = "ADD" THEN x + y ELSE x - y

\* codeexpval of a binary operation.
CodeExpVal(fs, op, e1, e2) ==
  LET q2 == Exp2RK(R(fs, e2))
      q1 == Exp2RK(R(q2.fs, e1))
      free == IF RK(q1.e) > RK(q2.e) THEN FreeExp(FreeExp(q1.fs, q1.e), q2.e)
              ELSE FreeExp(FreeExp(q1.fs, q2.e), q1.e)
  IN  IF op \in Arith /\ Numeral(e1) /\ Numeral(e2) THEN R(fs, [e1 EXCEPT !.info = Fold(op, @, e2.info)])
      ELSE Emit(free, q1.e, op, 0, RK(q1.e), RK(q2.e), "RELOCABLE")

\* The operations with one operand.
Prefix(r, op) ==
  LET q == Exp2AnyReg(r)
  IN  CASE op = "NOT" -> CodeNot(r)
        [] op = "UNM" /\ Numeral(r.e) -> R(r.fs, [r.e EXCEPT !.info = -@])
        [] OTHER -> Emit(FreeExp(q.fs, q.e), q.e, op, 0, q.e.info, 0, "RELOCABLE")

\* codecomp: a > b is coded as b < a.
CodeComp(fs, op, cond, e1, e2) ==
  LET q1 == Exp2RK(R(fs, e1))
      q2 == Exp2RK(R(q1.fs, e2))
      f1 == FreeExp(FreeExp(q2.fs, q2.e), q1.e)
      swap == cond = 0 /\ op # "EQ"
      f2 == CondJump(f1, op, IF swap THEN 1 ELSE cond, RK(IF swap THEN q2.e ELSE q1.e), RK(IF swap THEN q1.e ELSE q2.e))
  IN  R(f2, [q1.e EXCEPT !.k = "JMP", !.info = PC(f2) - 1])

Infix(r, op) ==
  CASE op = "and" -> GoIfTrue(r)
    [] op = "or" -> GoIfFalse(r)
    [] op = "CONCAT" -> Exp2NextReg(r)
    [] op \in Arith -> IF Numeral(r.e) THEN r ELSE Exp2RK(r)
    [] OTHER -> Exp2RK(r)

Comparison == [EQ |-> <<"EQ", 1>>, LT |-> <<"LT", 1>>, LE |-> <<"LE", 1>>,
               NE |-> <<"EQ", 0>>, GT |-> <<"LT", 0>>, GE |-> <<"LE", 0>>]

Posfix(op, e1, r) ==
  CASE op = "and" -> LET q == DischargeVars(r)
                     IN  R([q.fs EXCEPT !.ok = @ /\ e1.t = {}], [q.e EXCEPT !.f = @ \cup e1.f])
    [] op = "or" -> LET q == DischargeVars(r)
                    IN  R([q.fs EXCEPT !.ok = @ /\ e1.f = {}], [q.e EXCEPT !.t = @ \cup e1.t])
    [] op = "CONCAT" ->
         LET q == Exp2Val(r)
             n == Exp2NextReg(q)
         IN  IF q.e.k = "RELOCABLE" /\ At(q.fs, q.e.info).op = "CONCAT"
             THEN R([FreeExp(q.fs, e1) EXCEPT !.code[q.e.info + 1].b = e1.info,
                                              !.ok = @ /\ e1.info = At(q.fs, q.e.info).b - 1],
                    [e1 EXCEPT !.k = "RELOCABLE", !.info = q.e.info])
             ELSE CodeExpVal(n.fs, "CONCAT", e1, n.e)
    [] op \in Arith -> CodeExpVal(r.fs, op, e1, r.e)
    [] OTHER -> CodeComp(r.fs, Comparison[op][1], Comparison[op][2], e1, r.e)

\* luaK_setlist
SetList(fs, base, nelems, tostore) ==
  [Code(fs, "SETLIST", base, IF tostore = MultRet THEN 0 ELSE tostore, ((nelems - 1) \div FieldsPerFlush) + 1)
     EXCEPT !.freereg = base + 1]
=============================================================================
