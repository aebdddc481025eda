-------------------------------- MODULE Names --------------------------------
(***************************************************************************)
(* Where an error is: the names that a message gives to the values it is    *)
(* about (ldebug.c, Symbolic Execution) and the events of the line and      *)
(* count hooks (luaG_traceexec).                                            *)
(*                                                                         *)
(* A prototype is a record of its code, k, locvars and upvalues, the names  *)
(* of its upvalues.  An instruction is a record of op, a, b and c, where b  *)
(* stands for sBx in a jump and for Bx in LOADK; instruction pc, counted    *)
(* from 0, is code[pc + 1].                                                 *)
(***************************************************************************)
EXTENDS Integers, Sequences, SequencesExt

CONSTANT BitRK      \* operands from here on are constants

NoName == <<"">>
Named(kind, name) == <<kind, name>>
At(p, pc) == p.code[pc + 1]

(* luaF_getlocalname: the variables are in the order of their startpc.      *)
LocalName(p, n, pc) ==
  LET before == SelectInSeq(p.locvars, LAMBDA v : v.startpc > pc)
      started == IF before = 0 THEN p.locvars ELSE SubSeq(p.locvars, 1, before - 1)
      active == SelectSeq(started, LAMBDA v : pc < v.endpc)
  IN IF n \in DOMAIN active THEN active[n].varname ELSE ""

UpvalName(p, i) == IF p.upvalues[i + 1] = "" THEN "?" ELSE p.upvalues[i + 1]

(* The instruction sets the register (findsetreg, testAMode).               *)
Sets(i, reg) ==
  CASE i.op = "LOADNIL" -> reg \in i.a .. i.a + i.b
    [] i.op = "TFORCALL" -> reg >= i.a + 2
    [] i.op \in {"CALL", "TAILCALL"} -> reg >= i.a
    [] i.op \in {"JMP", "TEST", "SETTABUP", "SETTABLE", "RETURN"} -> FALSE
    [] OTHER -> reg = i.a

(* The last instruction before lastpc that sets the register, or -1; code   *)
(* inside a forward jump is conditional, and what it sets is not known.     *)
FindSetReg(p, lastpc, reg) ==
  LET Step(s, pc) ==
        LET i == At(p, pc)
            dest == pc + 1 + i.b
        IN IF i.op = "JMP"
           THEN IF pc < dest /\ dest <= lastpc /\ dest > s.target
                THEN [s EXCEPT !.target = dest] ELSE s
           ELSE IF Sets(i, reg) THEN [s EXCEPT !.found = IF pc < s.target THEN -1 ELSE pc] ELSE s
  IN FoldLeft(Step, [found |-> -1, target |-> 0], [i \in 1 .. lastpc |-> i - 1]).found

RECURSIVE ObjName(_, _, _), KName(_, _, _)

KName(p, pc, c) ==
  IF c >= BitRK
  THEN IF p.k[c - BitRK + 1].string THEN p.k[c - BitRK + 1].value ELSE "?"
  ELSE LET n == ObjName(p, pc, c) IN IF n # NoName /\ n[1] = "constant" THEN n[2] ELSE "?"

(* getobjname: the kind and the name of the value in the register. *)
ObjName(p, lastpc, reg) ==
  LET pc == FindSetReg(p, lastpc, reg)
      i == At(p, pc)
  IN IF LocalName(p, reg + 1, lastpc) # "" THEN Named("local", LocalName(p, reg + 1, lastpc))
     ELSE IF pc = -1 THEN NoName
     ELSE CASE i.op = "MOVE" -> IF i.b < i.a THEN ObjName(p, pc, i.b) ELSE NoName
            [] i.op \in {"GETTABUP", "GETTABLE"} ->
                 (LET table == IF i.op = "GETTABLE" THEN LocalName(p, i.b + 1, pc) ELSE UpvalName(p, i.b)
                  IN Named(IF table = "_ENV" THEN "global" ELSE "field", KName(p, pc, i.c)))
            [] i.op = "GETUPVAL" -> Named("upvalue", UpvalName(p, i.b))
            [] i.op = "LOADK" ->
                 IF p.k[i.b + 1].string THEN Named("constant", p.k[i.b + 1].value) ELSE NoName
            [] i.op = "SELF" -> Named("method", KName(p, pc, i.c))
            [] OTHER -> NoName

(* getfuncname: what the instruction pc calls. *)
Metamethods ==
  [GETTABUP |-> "index", GETTABLE |-> "index", SELF |-> "index",
   SETTABUP |-> "newindex", SETTABLE |-> "newindex", ADD |-> "add", CONCAT |-> "concat", EQ |-> "eq"]
FuncName(p, pc, hooked) ==
  LET i == At(p, pc)
  IN IF hooked THEN Named("hook", "?")
     ELSE IF i.op \in {"CALL", "TAILCALL"} THEN ObjName(p, pc, i.a)
     ELSE IF i.op = "TFORCALL" THEN Named("for iterator", "for iterator")
     ELSE Named("metamethod", Metamethods[i.op])

(* varinfo, of an upvalue or of a register at the instruction pc.           *)
VarInfo(p, pc, o) ==
  IF o.where = "upvalue" THEN Named("upvalue", UpvalName(p, o.n)) ELSE ObjName(p, pc, o.n)

-----------------------------------------------------------------------------
(* Hooks.  trace is what the function executes, instruction by instruction, *)
(* lines its line information.  No hook of a script can yield.              *)

(* luaG_traceexec; savedpc is pc + 1, and oldpc that of the one before.     *)
TraceExec(h, pc, lines, mask, base) ==
  LET count == "count" \in mask /\ h.hookcount = 0
      line == "line" \in mask /\ (pc = 0 \/ pc + 1 <= h.oldpc \/ lines[pc + 1] # lines[h.oldpc])
  IN [hookcount |-> IF count THEN base ELSE h.hookcount,
      oldpc |-> pc + 1,
      events |-> h.events \o (IF count THEN <<[at |-> h.at, line |-> -1]>> ELSE <<>>)
                          \o (IF line THEN <<[at |-> h.at, line |-> lines[pc + 1]]>> ELSE <<>>),
      at |-> h.at]

(* vmfetch *)
Fetch(h, pc, lines, mask, base) ==
  LET due == [h EXCEPT !.hookcount = @ - 1, !.at = @ + 1]
  IN IF mask # {} /\ (due.hookcount = 0 \/ "line" \in mask)
     THEN TraceExec(due, pc, lines, mask, base) ELSE due

(* lua_sethook, then a call of the function.                                *)
Events(trace, lines, mask, base) ==
  FoldLeft(LAMBDA h, pc : Fetch(h, pc, lines, mask, base),
           [at |-> 0, hookcount |-> base, oldpc |-> 0, events |-> <<>>], trace).events
=============================================================================
