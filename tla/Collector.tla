----------------------------- MODULE Collector -----------------------------
(***************************************************************************)
(* The incremental garbage collector of a script's Lua state               *)
(* (src/dep/lua-5.3.0: lgc.c, lgc.h, internshrstr of lstring.c), step by   *)
(* step between the instructions of the script: colours, gray lists,       *)
(* barriers, weak tables and ephemerons, finalizers, resurrection, and the *)
(* sweep of three lists through a pointer that the script moves under it.  *)
(*                                                                         *)
(* Every packet a script sees is a userdata with a finalizer (gc_obj) in   *)
(* this heap.  Sizes and debts are left out: a step may come at any time.  *)
(***************************************************************************)
EXTENDS Integers, Sequences, FiniteSets, FiniteSetsExt, SequencesExt

CONSTANTS
  Main,       \* the main thread: its content is the stack
  Reg,        \* the registry and the globals, a strong table
  Tables,     \* tables a script may make
  Userdata, Closures, Strings,
  Modes,      \* weak modes of the tables made: subset of {"", "k", "v", "kv"}
  Heaps,      \* the heaps a behaviour may begin with, between two cycles
  Plain,      \* a number, a boolean, ...: nothing to collect
  MaxEntries, \* bound: entries of a table
  SweepMax,   \* GCSWEEPMAX: objects swept in a step
  MaxOps,     \* bound: operations of the script
  MaxCycles   \* bound: cycles begun

ASSUME CollectorAssumption ==
  /\ IsFiniteSet(Tables \cup Userdata \cup Closures \cup Strings)
  /\ Main # Reg /\ {Main, Reg} \cap (Tables \cup Userdata \cup Closures \cup Strings) = {}
  /\ Tables \cap (Userdata \cup Closures \cup Strings) = {}
  /\ Userdata \cap (Closures \cup Strings) = {} /\ Closures \cap Strings = {}
  /\ Plain \notin {Main, Reg} \cup Tables \cup Userdata \cup Closures \cup Strings
  /\ Modes \subseteq {"", "k", "v", "kv"}
  /\ MaxEntries \in Nat /\ SweepMax \in Nat \ {0} /\ MaxOps \in Nat /\ MaxCycles \in Nat

VARIABLES
  entries,   \* content of each object: pairs of key and value
  mode,      \* weak mode of each table
  m,         \* colours and gray lists
  list,      \* the lists allgc, finobj and tobefnz
  white,     \* currentwhite
  gcstate,
  sweepgc,   \* where the sweep goes on: a list's head, an object's next field, or None
  doomed,    \* objects nothing led to when the cycle began
  overtaken, \* a finalizer has taken the object whose next field is sweepgc
  leftBlack, \* a cycle has begun with an object that the last sweep had left black
  last,      \* the weak entries the last step has cleared
  ops,       \* operations of the script
  cycles     \* cycles begun

vars ==
  <<entries, mode, m, list, white, gcstate, sweepgc, doomed, overtaken, leftBlack, last, ops, cycles>>

Obj == {Main, Reg} \cup Tables \cup Userdata \cup Closures \cup Strings
Value == Obj \cup {Plain}

\* Heaps between two cycles: every object is in one list, and what an object leads to is there.
ASSUME HeapsAssumption ==
  \A h \in Heaps :
    LET there == {Main, Reg} \cup Range(h.allgc) \cup Range(h.finobj)
    IN  /\ h.entries \in [Obj -> SUBSET ((there \cup {Plain}) \X (there \cup {Plain}))]
        /\ \A o \in {Main} \cup Userdata : \A e \in h.entries[o] : e[1] = Plain
        /\ \A o \in Strings \cup (Obj \ there) : h.entries[o] = {}
        /\ h.mode \in [Tables \cup {Reg} -> {"", "k", "v", "kv"}]
        /\ h.allgc \in Seq(Obj \ {Main, Reg}) /\ h.finobj \in Seq(Tables \cup Userdata)
        /\ IsInjective(h.allgc) /\ IsInjective(h.finobj)
        /\ Range(h.allgc) \cap Range(h.finobj) = {}

Lists == {"allgc", "finobj", "tobefnz"}
None == <<"none">>

Colors == {"white0", "white1", "gray", "black"}
\* Colours and gray lists.
Marks == [color : [Obj -> Colors], gray : SUBSET Obj, grayagain : SUBSET Obj,
          weak : SUBSET Obj, ephemeron : SUBSET Obj, allweak : SUBSET Obj]

Other(w) == IF w = "white0" THEN "white1" ELSE "white0"
IsWhite(c) == c \in {"white0", "white1"}
Whites(n) == {o \in Obj : IsWhite(n.color[o])}

In(l) == Range(list[l])
Allocated == {Main} \cup UNION {In(l) : l \in Lists}
HasFinalizer == In("finobj") \cup In("tobefnz")

Keys(en, o) == {e[1] : e \in en[o]} \ {Plain}
Vals(en, o) == {e[2] : e \in en[o]} \ {Plain}

IsTable(o) == o \in Tables \cup {Reg}
Sweeping == gcstate \in {"swpallgc", "swpfinobj", "swptobefnz", "swpend"}
KeepInvariant == gcstate \in {"propagate", "atomic"}

-----------------------------------------------------------------------------
(* Marking.                                                                *)

\* The white objects that marking S visits: a userdata passes the mark on to its value.
Visited(n, en, S) ==
  LET next(X) == X \cup (Whites(n) \cap UNION {Vals(en, u) : u \in X \cap Userdata})
      visited[X \in SUBSET Obj] == IF next(X) = X THEN X ELSE visited[next(X)]
  IN  visited[S]

\* reallymarkobject of every white object of S.
Mark(n, en, S) ==
  LET new == Visited(n, en, S \cap Whites(n))
      black == new \cap (Strings \cup Userdata)
  IN  [n EXCEPT !.color = [o \in Obj |-> IF o \in black THEN "black"
                                         ELSE IF o \in new THEN "gray" ELSE @[o]],
                !.gray = @ \cup (new \ black)]

\* iscleared: strings are values, they are marked and never cleared.
Cleared(n, v) == v # Plain /\ v \notin Strings /\ IsWhite(n.color[v])

TraverseWeakValue(n, en, o, inAtomic) ==
  LET n1 == Mark(n, en, Keys(en, o) \cup (Vals(en, o) \cap Strings))
  IN  IF ~inAtomic THEN [n1 EXCEPT !.grayagain = @ \cup {o}]
      ELSE IF \E v \in Vals(en, o) : Cleared(n1, v) THEN [n1 EXCEPT !.weak = @ \cup {o}]
      ELSE n1

TraverseEphemeron(n, en, o, inAtomic) ==
  LET white1 == {e \in en[o] : Cleared(n, e[1])}
      n1 == Mark(n, en, {e[2] : e \in en[o] \ white1} \cup (Keys(en, o) \cap Strings))
  IN  IF ~inAtomic THEN [n1 EXCEPT !.grayagain = @ \cup {o}]
      ELSE IF \E e \in white1 : e[2] \in Whites(n) THEN [n1 EXCEPT !.ephemeron = @ \cup {o}]
      ELSE IF white1 # {} THEN [n1 EXCEPT !.allweak = @ \cup {o}]
      ELSE n1

\* propagatemark of o.
Traverse(n, en, o, inAtomic) ==
  LET gone == [n EXCEPT !.gray = @ \ {o}]
      black == [gone EXCEPT !.color[o] = "black"]
  IN  CASE o = Main -> Mark([gone EXCEPT !.grayagain = @ \cup {o}], en, Vals(en, o))
        [] IsTable(o) /\ mode[o] = "v" -> TraverseWeakValue(gone, en, o, inAtomic)
        [] IsTable(o) /\ mode[o] = "k" -> TraverseEphemeron(gone, en, o, inAtomic)
        [] IsTable(o) /\ mode[o] = "kv" -> [gone EXCEPT !.allweak = @ \cup {o}]
        [] OTHER -> Mark(black, en, Keys(en, o) \cup Vals(en, o))

PropagateAll(n, en) ==
  LET all[x \in Marks] == IF x.gray = {} THEN x
                         ELSE all[Traverse(x, en, CHOOSE o \in x.gray : TRUE, TRUE)]
  IN  all[n]

\* Every table of the list ephemeron is traversed, one of them after the other.
Pass(n, en) ==
  LET left[x \in Marks \X SUBSET Obj] ==
        IF x[2] = {} THEN x
        ELSE LET o == CHOOSE o \in x[2] : TRUE
             IN  left[<<PropagateAll(TraverseEphemeron(x[1], en, o, TRUE), en), x[2] \ {o}>>]
  IN  left[<<[n EXCEPT !.ephemeron = {}], n.ephemeron>>][1]

\* Mutant of ConvergeEphemerons: one pass.
ConvergeOnce(n, en) == Pass(n, en)

ConvergeEphemerons(n, en) ==
  LET stable[x \in Marks] == IF Pass(x, en).color = x.color THEN x ELSE stable[Pass(x, en)]
  IN  Pass(stable[n], en)

\* clearkeys and clearvalues: the entries of tables S whose key (1) or value (2) is dead
\* go, strings are marked.  a: the marks, the entries, and what they were before.
Clear(a, S, i) ==
  LET n == Mark(a.n, a.en, {e[i] : e \in UNION {a.en[o] : o \in S}} \cap Strings)
  IN  [a EXCEPT !.n = n, !.en = [o \in Obj |-> IF o \in S THEN {e \in @[o] : ~Cleared(n, e[i])} ELSE @[o]]]

-----------------------------------------------------------------------------
(* Sweeping.                                                               *)

\* The members of T in the list s, in their order.
Kept(s, T) ==
  LET kept[i \in 0..Len(s)] == IF i = 0 THEN <<>>
                              ELSE IF s[i] \in T THEN Append(kept[i - 1], s[i])
                              ELSE kept[i - 1]
  IN  kept[Len(s)]

\* The place of o in the list s.
Place(s, o) == CHOOSE i \in 1..Len(s) : s[i] = o

\* The list and the place in it that pointer p points to.
Where(p, ls) ==
  IF p[1] = "head" THEN <<p[2], 1>>
  ELSE LET l == CHOOSE k \in Lists : p[2] \in Range(ls[k])
       IN  <<l, Place(ls[l], p[2]) + 1>>

\* sweeplist: k objects from p on, in lists ls with colours col and current white w.
SweepList(p, k, ls, col, w) ==
  LET at == Where(p, ls)
      l == at[1]
      until == Min({Len(ls[l]), at[2] + k - 1})
      part == SubSeq(ls[l], at[2], until)
      live == Kept(part, {o \in Obj : col[o] # Other(w)})
      rest == SubSeq(ls[l], until + 1, Len(ls[l]))
  IN  [list |-> [ls EXCEPT ![l] = SubSeq(@, 1, at[2] - 1) \o live \o rest],
       color |-> [o \in Obj |-> IF o \in Range(live) THEN w ELSE col[o]],
       freed |-> Range(part) \ Range(live),
       p |-> IF rest = <<>> THEN None
             ELSE IF live = <<>> THEN p ELSE <<"next", live[Len(live)]>>]

\* sweeptolive: up to the first live object.
SweepToLive(p, ls, col, w) ==
  LET at == Where(p, ls)
      live == {i \in at[2]..Len(ls[at[1]]) : col[ls[at[1]][i]] # Other(w)}
      k == IF live = {} THEN Len(ls[at[1]]) ELSE Min(live) - at[2] + 1
  IN  SweepList(p, k, ls, col, w)

\* A freed object keeps its bytes, but its content is gone.
Free(en, S) == [o \in Obj |-> IF o \in S THEN {} ELSE en[o]]

\* The outcome s of a sweep.
Swept(s, en) ==
  /\ list' = s.list
  /\ m' = [m EXCEPT !.color = s.color]
  /\ entries' = Free(en, s.freed)
  /\ sweepgc' = s.p

-----------------------------------------------------------------------------
\* What luaC_newobj, the assignments and luaC_checkfinalizer have left in a heap h.
Init ==
  /\ \E h \in Heaps :
       /\ entries = h.entries
       /\ mode = h.mode
       /\ list = [l \in Lists |-> IF l = "allgc" THEN Append(h.allgc, Reg)
                                 ELSE IF l = "finobj" THEN h.finobj ELSE <<>>]
  /\ m = [color |-> [o \in Obj |-> "white0"],
          gray |-> {}, grayagain |-> {}, weak |-> {}, ephemeron |-> {}, allweak |-> {}]
  /\ white = "white0" /\ gcstate = "pause" /\ sweepgc = None
  /\ doomed = {} /\ overtaken = FALSE /\ leftBlack = FALSE /\ last = {} /\ ops = 0 /\ cycles = 0

(***************************************************************************)
(* What leads to what: Reach follows what keeps an object alive, Access    *)
(* everything that a script can read.                                      *)
(***************************************************************************)
Strong(en, o, S) ==
  IF IsTable(o) /\ mode[o] # ""
  THEN (IF mode[o] = "v" THEN Keys(en, o) ELSE {})
       \cup (IF mode[o] = "k" THEN {e[2] : e \in {f \in en[o] : f[1] \in S \cup Strings \cup {Plain}}} ELSE {})
       \cup ((Keys(en, o) \cup Vals(en, o)) \cap Strings)
  ELSE Keys(en, o) \cup Vals(en, o)

Reach(en, S) ==
  LET next(X) == X \cup ((UNION {Strong(en, o, X) : o \in X}) \ {Plain})
      reach[X \in SUBSET Obj] == IF next(X) = X THEN X ELSE reach[next(X)]
  IN  reach[S]

Access(en, S) ==
  LET next(X) == X \cup UNION {Keys(en, o) \cup Vals(en, o) : o \in X}
      access[X \in SUBSET Obj] == IF next(X) = X THEN X ELSE access[next(X)]
  IN  access[S]

-----------------------------------------------------------------------------
(* The script.                                                             *)

Held == Vals(entries, Main) \cup {Reg}

Operation ==
  /\ ops < MaxOps /\ ops' = ops + 1
  /\ last' = {}
  /\ UNCHANGED <<white, gcstate, overtaken, leftBlack, cycles>>

Push(en, v) == [en EXCEPT ![Main] = @ \cup {<<Plain, v>>}]

\* luaC_newobj.
New(o) ==
  /\ Operation
  /\ o \notin Allocated
  /\ list' = [list EXCEPT !["allgc"] = <<o>> \o @]
  /\ m' = [m EXCEPT !.color[o] = white]
  /\ entries' = Push([entries EXCEPT ![o] = {}], o)
  /\ \/ o \in Tables /\ \E w \in Modes : mode' = [mode EXCEPT ![o] = w]
     \/ o \in Userdata \cup Closures /\ UNCHANGED mode
  /\ doomed' = doomed \ {o}
  /\ UNCHANGED sweepgc

\* internshrstr: a string that is still there, though dead, is revived.
Intern(s) ==
  /\ Operation
  /\ s \in Strings
  /\ entries' = Push(entries, s)
  /\ doomed' = doomed \ {s}
  /\ IF s \in Allocated
     THEN /\ m' = IF m.color[s] = Other(white) THEN [m EXCEPT !.color[s] = white] ELSE m
          /\ UNCHANGED list
     ELSE /\ m' = [m EXCEPT !.color[s] = white]
          /\ list' = [list EXCEPT !["allgc"] = <<s>> \o @]
  /\ UNCHANGED <<mode, sweepgc>>

\* Mutant of BarrierBack: forgets to link the table.
BarrierBackUnlinked(t, S) ==
  IF m.color[t] = "black" /\ S \cap Whites(m) # {} THEN [m EXCEPT !.color[t] = "gray"] ELSE m

\* luaC_barrierback.
BarrierBack(t, S) ==
  IF m.color[t] = "black" /\ S \cap Whites(m) # {}
  THEN [m EXCEPT !.color[t] = "gray", !.grayagain = @ \cup {t}]
  ELSE m

\* t[k] = v, luaV_settable and luaH_newkey.
SetTable(t, k, v) ==
  LET others == {e \in entries[t] : e[1] # k}
  IN  /\ Operation
      /\ IsTable(t) /\ Cardinality(others) < MaxEntries
      /\ entries' = [entries EXCEPT ![t] = others \cup {<<k, v>>}]
      /\ m' = BarrierBack(t, {k, v})
      /\ UNCHANGED <<mode, list, sweepgc, doomed>>

\* t[k] = nil.
Unset(t, e) ==
  /\ Operation
  /\ IsTable(t)
  /\ entries' = [entries EXCEPT ![t] = @ \ {e}]
  /\ UNCHANGED <<mode, m, list, sweepgc, doomed>>

\* Reading t[k], next, the uservalue or the upvalue.
Get(o, e) ==
  /\ Operation
  /\ entries' = [entries EXCEPT ![Main] = @ \cup ({<<Plain, e[1]>>, <<Plain, e[2]>>} \ {<<Plain, Plain>>})]
  /\ UNCHANGED <<mode, m, list, sweepgc, doomed>>

\* A value leaves the stack.
Pop(v) ==
  /\ Operation
  /\ entries' = [entries EXCEPT ![Main] = @ \ {<<Plain, v>>}]
  /\ UNCHANGED <<mode, m, list, sweepgc, doomed>>

\* lua_setuservalue with luaC_barrier.
SetUserValue(u, v) ==
  LET en == [entries EXCEPT ![u] = {<<Plain, v>>}]
  IN  /\ Operation
      /\ u \in Userdata
      /\ entries' = en
      /\ m' = IF m.color[u] # "black" \/ v \notin Whites(m) THEN m
              ELSE IF KeepInvariant THEN Mark(m, en, {v})
              ELSE [m EXCEPT !.color[u] = white]
      /\ UNCHANGED <<mode, list, sweepgc, doomed>>

\* OP_SETUPVAL with luaC_upvalbarrier: the upvalue is closed, its closures are not known.
SetUpvalue(c, v) ==
  LET en == [entries EXCEPT ![c] = {<<Plain, v>>}]
  IN  /\ Operation
      /\ c \in Closures
      /\ entries' = en
      /\ m' = IF KeepInvariant THEN Mark(m, en, {v}) ELSE m
      /\ UNCHANGED <<mode, list, sweepgc, doomed>>

\* Mutant of SetFinalizer: leaves the sweep where it was.
SetFinalizerUnderSweep(o) ==
  /\ Operation
  /\ o \in Tables \cup Userdata /\ o \notin HasFinalizer
  /\ list' = [list EXCEPT !["allgc"] = Kept(@, Obj \ {o}), !["finobj"] = <<o>> \o @]
  /\ m' = IF Sweeping THEN [m EXCEPT !.color[o] = white] ELSE m
  /\ UNCHANGED <<entries, mode, sweepgc, doomed>>

\* setmetatable with __gc: luaC_checkfinalizer.
SetFinalizer(o) ==
  LET col == IF Sweeping THEN [m.color EXCEPT ![o] = white] ELSE m.color
      s == IF Sweeping /\ sweepgc = <<"next", o>> THEN SweepToLive(sweepgc, list, col, white)
           ELSE [list |-> list, color |-> col, freed |-> {}, p |-> sweepgc]
      moved == [s.list EXCEPT !["allgc"] = Kept(@, Obj \ {o}), !["finobj"] = <<o>> \o @]
  IN  /\ Operation
      /\ o \in Tables \cup Userdata /\ o \notin HasFinalizer
      /\ Swept([s EXCEPT !.list = moved], entries)
      /\ UNCHANGED <<mode, doomed>>

Script ==
  \/ \E o \in Tables \cup Userdata \cup Closures : New(o)
  \/ \E s \in Strings : Intern(s)
  \/ \E t \in Held, k, v \in Held \cup {Plain} : SetTable(t, k, v)
  \/ \E o \in Held : \E e \in entries[o] : Unset(o, e) \/ Get(o, e)
  \/ \E v \in Held \ {Reg} : Pop(v) \/ SetFinalizer(v)
  \/ \E o, v \in Held : SetUserValue(o, v) \/ SetUpvalue(o, v)

-----------------------------------------------------------------------------
(* The collector.                                                          *)

\* restartcollection.
Restart ==
  /\ gcstate = "pause" /\ cycles < MaxCycles
  /\ gcstate' = "propagate" /\ cycles' = cycles + 1
  /\ m' = Mark([m EXCEPT !.gray = {}, !.grayagain = {}, !.weak = {}, !.ephemeron = {}, !.allweak = {}],
               entries, {Main, Reg} \cup In("tobefnz"))
  /\ doomed' = Allocated \ Access(entries, {Main, Reg} \cup HasFinalizer)
  /\ leftBlack' = (leftBlack \/ \E o \in Allocated : m.color[o] # white)
  /\ last' = {}
  /\ UNCHANGED <<entries, mode, list, white, sweepgc, overtaken, ops>>

Propagate ==
  /\ gcstate = "propagate"
  /\ \E o \in m.gray : m' = Traverse(m, entries, o, FALSE)
  /\ gcstate' = IF m'.gray = {} THEN "atomic" ELSE "propagate"
  /\ last' = {}
  /\ UNCHANGED <<entries, mode, list, white, sweepgc, doomed, overtaken, leftBlack, ops, cycles>>

\* Mutant of Marked: the tables of grayagain are not visited again.
MarkedOnce(n, en) ==
  ConvergeEphemerons(PropagateAll(Mark(PropagateAll(n, en), en, Vals(en, Main)), en), en)

\* The marks when everything reachable is marked: the first half of atomic.
Marked(n, en) ==
  LET n1 == PropagateAll(Mark(n, en, {Main, Reg}), en)
      n2 == PropagateAll([n1 EXCEPT !.gray = n1.grayagain, !.grayagain = {}], en)
  IN  ConvergeEphemerons(n2, en)

\* atomic, second part: the values of weak tables that nothing led to are cleared.
ClearValues(n) ==
  Clear([n |-> n, en |-> entries, ls |-> list, weak |-> n.weak, allweak |-> n.allweak], n.weak \cup n.allweak, 2)

\* separatetobefnz, markbeingfnz: what waits for its finalizer lives on.
Resurrect(a) ==
  LET ls == [a.ls EXCEPT !["finobj"] = Kept(@, Obj \ Whites(a.n)),
                         !["tobefnz"] = @ \o Kept(a.ls["finobj"], Whites(a.n))]
  IN  [a EXCEPT !.ls = ls, !.n = ConvergeEphemerons(PropagateAll(Mark(@, a.en, Range(ls["tobefnz"])), a.en), a.en)]

\* Dead keys, and the values of tables that were resurrected.
ClearRest(a) ==
  Clear(Clear(a, a.n.ephemeron \cup a.n.allweak, 1), (a.n.weak \ a.weak) \cup (a.n.allweak \ a.allweak), 2)

\* The colour of the dead changes with the current white.
EnterSweep(a) ==
  LET s == SweepToLive(<<"head", "allgc">>, a.ls, a.n.color, Other(white))
  IN  /\ gcstate' = "swpallgc" /\ white' = Other(white)
      /\ last' = UNION {{<<o, e>> : e \in entries[o] \ a.en[o]} : o \in Obj}
      /\ list' = s.list /\ m' = [a.n EXCEPT !.color = s.color]
      /\ entries' = Free(a.en, s.freed) /\ sweepgc' = s.p

\* atomic, then entersweep.
Atomic ==
  /\ gcstate = "atomic"
  /\ EnterSweep(ClearRest(Resurrect(ClearValues(Marked(m, entries)))))
  /\ UNCHANGED <<mode, doomed, overtaken, leftBlack, ops, cycles>>

\* luaC_fullgc while marking: everything is swept back to white, nothing is collected.
Abandon ==
  /\ KeepInvariant
  /\ gcstate' = "swpallgc"
  /\ Swept(SweepToLive(<<"head", "allgc">>, list, m.color, white), entries)
  /\ doomed' = {} /\ last' = {}
  /\ UNCHANGED <<mode, white, overtaken, leftBlack, ops, cycles>>

NextList(s) ==
  CASE s = "swpallgc" -> <<"head", "finobj">>
    [] s = "swpfinobj" -> <<"head", "tobefnz">>
    [] s = "swptobefnz" -> None
NextState(s) ==
  CASE s = "swpallgc" -> "swpfinobj"
    [] s = "swpfinobj" -> "swptobefnz"
    [] s = "swptobefnz" -> "swpend"

SweepStep ==
  /\ gcstate \in {"swpallgc", "swpfinobj", "swptobefnz"}
  /\ LET done == [list |-> list, color |-> m.color, freed |-> {}, p |-> None]
         s == IF sweepgc = None THEN done ELSE SweepList(sweepgc, SweepMax, list, m.color, white)
     IN  /\ Swept([s EXCEPT !.p = IF @ = None THEN NextList(gcstate) ELSE @], entries)
         /\ gcstate' = IF s.p = None THEN NextState(gcstate) ELSE gcstate
  /\ last' = {}
  /\ UNCHANGED <<mode, white, doomed, overtaken, leftBlack, ops, cycles>>

SweepEnd ==
  /\ gcstate = "swpend"
  /\ gcstate' = "callfin"
  /\ m' = [m EXCEPT !.color[Main] = white]
  /\ last' = {}
  /\ UNCHANGED <<entries, mode, list, white, sweepgc, doomed, overtaken, leftBlack, ops, cycles>>

\* The end of a cycle; in an emergency finalizers stay pending.
Finish ==
  /\ gcstate = "callfin"
  /\ gcstate' = "pause"
  /\ last' = {}
  /\ UNCHANGED <<entries, mode, m, list, white, sweepgc, doomed, overtaken, leftBlack, ops, cycles>>

\* udata2finalize and GCTM, after any step: the finalizer gets the object.
RunFinalizer ==
  /\ gcstate # "pause" /\ list["tobefnz"] # <<>>
  /\ LET o == Head(list["tobefnz"])
     IN  /\ list' = [list EXCEPT !["tobefnz"] = Tail(@), !["allgc"] = <<o>> \o @]
         /\ m' = IF Sweeping THEN [m EXCEPT !.color[o] = white] ELSE m
         /\ entries' = Push(entries, o)
         /\ overtaken' = (overtaken \/ sweepgc = <<"next", o>>)
  /\ last' = {}
  /\ UNCHANGED <<mode, white, gcstate, sweepgc, doomed, leftBlack, ops, cycles>>

Step == Restart \/ Propagate \/ Atomic \/ Abandon \/ SweepStep \/ SweepEnd \/ Finish \/ RunFinalizer

Next == Script \/ Step

Spec == Init /\ [][Next]_vars

-----------------------------------------------------------------------------
(* Properties.                                                             *)

TypeOK ==
  /\ entries \in [Obj -> SUBSET (Value \X Value)]
  /\ mode \in [Tables \cup {Reg} -> {"", "k", "v", "kv"}]
  /\ m.color \in [Obj -> {"white0", "white1", "gray", "black"}]
  /\ white \in {"white0", "white1"}
  /\ \A l \in Lists : IsInjective(list[l])

\* Nothing that the script, or a finalizer still to be called, can get hold of has been
\* freed or is about to be: barriers, weak tables and resurrection together.  But for one
\* case: a finalizer that is run under the last sweep and takes the object whose next field
\* is sweepgc leads the sweep astray (udata2finalize), and what it leaves black the next
\* cycle does not visit, so that what only that leads to may be freed in it.
NoDangling ==
  ~leftBlack =>
    \A o \in Access(entries, {Main, Reg} \cup In("tobefnz")) :
      /\ o \in Allocated
      /\ Sweeping => m.color[o] # Other(white) \/ o = Main \/ o \in Strings

\* lgc.h: while marking, a black object never points to a white one, and every gray
\* object is in one gray list, so that it is visited again before the cycle ends.  Between
\* two cycles everything is white, so the next cycle begins as the first one did.
GrayLists(o) ==
  Cardinality({l \in {"gray", "grayagain", "weak", "ephemeron", "allweak"} : o \in m[l]})
BlackPointsToMarked ==
  \A o \in Allocated : m.color[o] = "black" => (Keys(entries, o) \cup Vals(entries, o)) \cap Whites(m) = {}
MainInvariant ==
  TypeOK /\ (~overtaken =>
    /\ KeepInvariant =>
         /\ BlackPointsToMarked
         /\ \A o \in Allocated : GrayLists(o) = IF m.color[o] = "gray" THEN 1 ELSE 0
    /\ gcstate = "pause" => \A o \in Allocated : m.color[o] = white)

\* What nothing led to when a cycle began is gone when it has ended.
GarbageGoes == (gcstate = "pause" /\ ~overtaken) => doomed \cap Allocated = {}

\* A weak table loses an entry only when its weak key or its weak value was reachable
\* neither from the script nor, for a key, from an object waiting for its finalizer.
OnlyGarbageCleared ==
  [][(last' # {} /\ ~overtaken) =>
       LET live == Reach(entries, {Main, Reg} \cup In("tobefnz"))
           resurrected == Reach(entries, live \cup In("tobefnz")')
       IN  \A c \in last' :
             \/ mode[c[1]] \in {"v", "kv"} /\ c[2][2] \notin live
             \/ mode[c[1]] \in {"k", "kv"} /\ c[2][1] \notin resurrected]_vars
=============================================================================
