------------------------------ MODULE Meaning ------------------------------
(***************************************************************************)
(* What a script means, by the structure of its text: the reference that   *)
(* the compiled script is compared with.  Every variable has a cell of its *)
(* own, every evaluation of a function a value of its own; there are no    *)
(* registers, instructions, jumps or upvalues.                             *)
(*                                                                         *)
(* A store is [cells, tabs, funs, out, err].  An environment is a sequence *)
(* of pairs of a name and a cell, the innermost last, after the values of  *)
(* `...`.  A statement ends normally ("next"), or it breaks, jumps to a    *)
(* label or returns values.                                                *)
(***************************************************************************)
EXTENDS Integers, Sequences, SequencesExt, FiniteSetsExt, TLC

LOCAL None == <<"nil">>
LOCAL Truth(b) == IF b THEN <<"true">> ELSE <<"false">>
LOCAL Holds(v) == v # None /\ v # <<"false">>
LOCAL One(vs) == IF vs = <<>> THEN None ELSE vs[1]
LOCAL Upto(vs, n) == [i \in 1..n |-> IF i <= Len(vs) THEN vs[i] ELSE None]

LOCAL Value(st, vs) == [st |-> st, vs |-> vs]
LOCAL Wrong(st) == Value([st EXCEPT !.err = TRUE], <<None>>)
LOCAL AsText(v) == IF v[1] = "int" THEN ToString(v[2]) ELSE v[2]
LOCAL Field(f, k) == IF k \in DOMAIN f THEN f[k] ELSE None
LOCAL Update(f, k, v) == IF v = None THEN [x \in DOMAIN f \ {k} |-> f[x]] ELSE (k :> v) @@ f
LOCAL Length(f) == CHOOSE n \in 0..Cardinality(DOMAIN f) :
                     <<"int", n + 1>> \notin DOMAIN f /\ \A j \in 1..n : <<"int", j>> \in DOMAIN f

\* The cell of a variable, 0 for a global one.
LOCAL Cell(env, n) == LET i == SelectLastInSeq(env.vars, LAMBDA p : p[1] = n) IN IF i = 0 THEN 0 ELSE env.vars[i][2]
LOCAL Declare(st, env, names, vs) ==
  LET c == Len(st.cells)
  IN  [st |-> [st EXCEPT !.cells = @ \o Upto(vs, Len(names))],
       env |-> [env EXCEPT !.vars = @ \o [i \in DOMAIN names |-> <<names[i], c + i>>]]]

LOCAL Apply2(op, x, y) ==
  CASE op = "ADD" -> <<"int", x[2] + y[2]>> [] op = "SUB" -> <<"int", x[2] - y[2]>>
    [] op = "CONCAT" -> <<"str", AsText(x) \o AsText(y)>>
    [] op = "EQ" -> Truth(x = y) [] op = "NE" -> Truth(x # y)
    [] op = "LT" -> Truth(x[2] < y[2]) [] op = "LE" -> Truth(x[2] <= y[2])
    [] op = "GT" -> Truth(x[2] > y[2]) [] op = "GE" -> Truth(x[2] >= y[2])
LOCAL Fits(op, x, y) ==
  CASE op \in {"EQ", "NE"} -> TRUE
    [] op = "CONCAT" -> {x[1], y[1]} \subseteq {"int", "str"}
    [] OTHER -> x[1] = "int" /\ y[1] = "int"

RECURSIVE Eval(_, _, _), EvalList(_, _, _), CallValue(_, _, _), Run(_, _, _, _), Step(_, _, _),
          Fields(_, _, _, _), While(_, _, _), Repeat(_, _, _), Count(_, _, _, _, _, _), Iterate(_, _, _, _, _)

LOCAL Eval1(x, env, st) == LET r == Eval(x, env, st) IN Value(r.st, <<One(r.vs)>>)

CallValue(f, given, st) ==
  IF st.err THEN Value(st, <<None>>)
  ELSE IF f = <<"emit">> THEN Value([st EXCEPT !.out = Append(@, given)], given)
  ELSE IF f[1] # "fun" THEN Wrong(st)
  ELSE LET fun == st.funs[f[2]]
           n == Len(fun.params)
           e == Declare(st, [vars |-> fun.vars, more |-> SubSeq(given, n + 1, Len(given))], fun.params, given)
           r == Run(fun.body, 1, <<e.env>>, e.st)
       IN  Value(r.st, IF r.sig[1] = "return" THEN r.sig[2] ELSE <<>>)

EvalList(list, env, st) ==
  IF list = <<>> THEN Value(st, <<>>)
  ELSE IF Len(list) = 1 THEN Eval(list[1], env, st)
  ELSE LET r == Eval1(list[1], env, st)
           q == EvalList(Tail(list), env, r.st)
       IN  Value(q.st, r.vs \o q.vs)

\* The fields of table t; n items so far.
Fields(fields, t, n, es) ==
  LET env == es.env
      f == fields[1]
      items == IF Len(fields) = 1 THEN Eval(f[2], env, es.st) ELSE Eval1(f[2], env, es.st)
      k == Eval1(f[2], env, es.st)
      v == Eval1(f[3], env, k.st)
      put(st, key, val) == [st EXCEPT !.tabs[t] = Update(@, key, val)]
  IN  IF fields = <<>> THEN es.st
      ELSE IF f[1] = "item"
      THEN Fields(Tail(fields), t, n + 1,
                  [env |-> env,
                   st |-> FoldLeft(LAMBDA st, j : put(st, <<"int", n + j>>, items.vs[j]), items.st,
                                   [j \in DOMAIN items.vs |-> j])])
      ELSE Fields(Tail(fields), t, n, [env |-> env, st |-> put(v.st, k.vs[1], v.vs[1])])

Eval(x, env, st) ==
  CASE x[1] \in {"nil", "true", "false", "int", "str"} -> Value(st, <<x>>)
    [] x[1] = "vararg" -> Value(st, env.more)
    [] x[1] = "paren" -> Eval1(x[2], env, st)
    [] x[1] = "var" ->
         Value(st, <<IF Cell(env, x[2]) > 0 THEN st.cells[Cell(env, x[2])] ELSE Field(st.tabs[1], <<"str", x[2]>>)>>)
    [] x[1] = "fun" ->
         Value([st EXCEPT !.funs = Append(@, [params |-> x[2], body |-> x[4], vars |-> env.vars])],
               <<<<"fun", Len(st.funs) + 1>>>>)
    [] x[1] = "table" ->
         Value(Fields(x[2], Len(st.tabs) + 1, 0, [env |-> env, st |-> [st EXCEPT !.tabs = Append(@, << >>)]]),
               <<<<"table", Len(st.tabs) + 1>>>>)
    [] x[1] = "index" ->
         LET t == Eval1(x[2], env, st)
             k == Eval1(x[3], env, t.st)
         IN  IF k.st.err THEN k
             ELSE IF t.vs[1][1] # "table" THEN Wrong(k.st) ELSE Value(k.st, <<Field(k.st.tabs[t.vs[1][2]], k.vs[1])>>)
    [] x[1] = "call" ->
         LET f == Eval1(x[2], env, st)
             a == EvalList(x[3], env, f.st)
         IN  CallValue(f.vs[1], a.vs, a.st)
    [] x[1] = "method" ->
         LET o == Eval1(x[2], env, st)
             f == IF o.vs[1][1] = "table" THEN Field(o.st.tabs[o.vs[1][2]], <<"str", x[3]>>) ELSE None
             a == EvalList(x[4], env, o.st)
         IN  IF o.st.err THEN o ELSE IF o.vs[1][1] # "table" THEN Wrong(o.st) ELSE CallValue(f, o.vs \o a.vs, a.st)
    [] x[1] = "un" ->
         LET r == Eval1(x[3], env, st)
             v == r.vs[1]
         IN  (CASE x[2] = "NOT" -> Value(r.st, <<Truth(~Holds(v))>>)
               [] x[2] = "UNM" -> IF v[1] = "int" THEN Value(r.st, <<<<"int", -v[2]>>>>) ELSE Wrong(r.st)
               [] x[2] = "LEN" -> IF v[1] = "table" THEN Value(r.st, <<<<"int", Length(r.st.tabs[v[2]])>>>>) ELSE Wrong(r.st))
    [] x[1] = "bin" ->
         LET a == Eval1(x[3], env, st)
             b == Eval1(x[4], env, a.st)
         IN  CASE x[2] = "and" -> IF Holds(a.vs[1]) THEN b ELSE a
               [] x[2] = "or" -> IF Holds(a.vs[1]) THEN a ELSE b
               [] OTHER -> IF b.st.err THEN b
                           ELSE IF Fits(x[2], a.vs[1], b.vs[1]) THEN Value(b.st, <<Apply2(x[2], a.vs[1], b.vs[1])>>)
                           ELSE Wrong(b.st)

-----------------------------------------------------------------------------
LOCAL Done(st, env, sig) == [st |-> st, env |-> env, sig |-> sig]
LOCAL On == <<"next">>
LOCAL Block(b, env, st) == LET r == Run(b, 1, <<env>>, st) IN Done(r.st, env, r.sig)

\* A block from statement i on; envs[j] is the environment before statement j.  A
\* jump to one of its labels takes back the declarations after the label.
Run(b, i, envs, st) ==
  LET r == Step(b[i], envs[i], st)
      l == SelectInSeq(b, LAMBDA s : s[1] = "label" /\ r.sig = <<"goto", s[2]>>)
      back == [j \in 1..l |-> IF j <= i THEN envs[j] ELSE envs[i]]
  IN  IF st.err THEN Done(st, envs[Len(envs)], On)
      ELSE IF i > Len(b) THEN Done(st, envs[i], On)
      ELSE IF r.sig = On THEN Run(b, i + 1, Append(SubSeq(envs, 1, i), r.env), r.st)
      ELSE IF r.sig[1] = "goto" /\ l > 0 THEN Run(b, l, back, r.st)
      ELSE r

\* The targets of an assignment: a variable, or a table and a key.
LOCAL Targets(vars, env, st) ==
  FoldLeft(LAMBDA acc, v :
             LET t == Eval1(v[2], env, acc.st)
                 k == Eval1(v[3], env, t.st)
             IN  IF v[1] = "var" THEN [acc EXCEPT !.to = Append(@, v)]
                 ELSE [st |-> k.st, to |-> Append(acc.to, <<"index", t.vs[1], k.vs[1]>>)],
           [st |-> st, to |-> <<>>], vars)
LOCAL Store(st, env, to, v) ==
  IF st.err THEN st
  ELSE IF to[1] = "var"
  THEN IF Cell(env, to[2]) > 0 THEN [st EXCEPT !.cells[Cell(env, to[2])] = v]
       ELSE [st EXCEPT !.tabs[1] = Update(@, <<"str", to[2]>>, v)]
  ELSE IF to[2][1] # "table" \/ to[3] = None THEN [st EXCEPT !.err = TRUE]
  ELSE [st EXCEPT !.tabs[to[2][2]] = Update(@, to[3], v)]

While(s, env, st) ==
  LET c == Eval1(s[2], env, st)
      r == Block(s[3], env, c.st)
  IN  IF c.st.err \/ ~Holds(c.vs[1]) THEN Done(c.st, env, On)
      ELSE IF r.sig = On /\ ~r.st.err THEN While(s, env, r.st)
      ELSE IF r.sig[1] = "break" THEN Done(r.st, env, On) ELSE r

Repeat(s, env, st) ==
  LET r == Run(s[2], 1, <<env>>, st)
      c == Eval1(s[3], r.env, r.st)
  IN  IF r.st.err \/ r.sig # On THEN Done(r.st, env, IF r.sig[1] = "break" THEN On ELSE r.sig)
      ELSE IF c.st.err \/ Holds(c.vs[1]) THEN Done(c.st, env, On) ELSE Repeat(s, env, c.st)

Count(s, env, i, limit, step, st) ==
  LET d == Declare(st, env, <<s[2]>>, <<<<"int", i>>>>)
      r == Block(s[4], d.env, d.st)
  IN  IF (step > 0 /\ i > limit) \/ (step <= 0 /\ i < limit) THEN Done(st, env, On)
      ELSE IF r.sig = On /\ ~r.st.err THEN Count(s, env, i + step, limit, step, r.st)
      ELSE Done(r.st, env, IF r.sig[1] = "break" THEN On ELSE r.sig)

Iterate(s, env, gen, control, st) ==
  LET c == CallValue(gen[1], <<gen[2], control>>, st)
      d == Declare(c.st, env, s[2], c.vs)
      r == Block(s[4], d.env, d.st)
  IN  IF c.st.err \/ One(c.vs) = None THEN Done(c.st, env, On)
      ELSE IF r.sig = On /\ ~r.st.err THEN Iterate(s, env, gen, c.vs[1], r.st)
      ELSE Done(r.st, env, IF r.sig[1] = "break" THEN On ELSE r.sig)

LOCAL If(s, env, st) ==
  LET RECURSIVE Clause(_, _)
      Clause(i, st1) ==
        LET c == Eval1(s[2][i][1], env, st1)
        IN  IF i > Len(s[2]) THEN IF s[3] = <<>> THEN Done(st1, env, On) ELSE Block(s[3][1], env, st1)
            ELSE IF c.st.err THEN Done(c.st, env, On)
            ELSE IF Holds(c.vs[1]) THEN Block(s[2][i][2], env, c.st) ELSE Clause(i + 1, c.st)
  IN  Clause(1, st)

Step(s, env, st) ==
  CASE s[1] = "label" -> Done(st, env, On)
    [] s[1] \in {"break", "goto"} -> Done(st, env, s)
    [] s[1] = "local" -> LET r == EvalList(s[3], env, st)
                             d == Declare(r.st, env, s[2], r.vs)
                         IN  Done(d.st, d.env, On)
    [] s[1] = "localfun" -> LET d == Declare(st, env, <<s[2]>>, <<>>)
                                f == Eval(s[3], d.env, d.st)
                            IN  Done([f.st EXCEPT !.cells[Cell(d.env, s[2])] = f.vs[1]], d.env, On)
    [] s[1] = "assign" ->
         LET t == Targets(s[2], env, st)
             r == EvalList(s[3], env, t.st)
             n == Len(s[2])
             vs == Upto(r.vs, n)
         IN  Done(FoldRight(LAMBDA j, acc : Store(acc, env, t.to[j], vs[j]), [j \in 1..n |-> j], r.st), env, On)
    [] s[1] \in {"call", "method"} -> Done(Eval(s, env, st).st, env, On)
    [] s[1] = "do" -> Block(s[2], env, st)
    [] s[1] = "while" -> While(s, env, st)
    [] s[1] = "repeat" -> Repeat(s, env, st)
    [] s[1] = "if" -> If(s, env, st)
    [] s[1] = "fornum" ->
         LET r == EvalList(s[3], env, st)
             v == Upto(r.vs, 3)
             step == IF Len(s[3]) = 3 THEN v[3] ELSE <<"int", 1>>
         IN  IF r.st.err THEN Done(r.st, env, On)
             ELSE IF {v[1][1], v[2][1], step[1]} # {"int"} THEN Done([r.st EXCEPT !.err = TRUE], env, On)
             ELSE Count(s, env, v[1][2], v[2][2], step[2], r.st)
    [] s[1] = "forin" -> LET r == EvalList(s[3], env, st)
                             v == Upto(r.vs, 3)
                         IN  Iterate(s, env, v, v[3], r.st)
    [] s[1] = "return" -> LET r == EvalList(s[2], env, st) IN Done(r.st, env, <<"return", r.vs>>)

\* What the script shows and returns when it is given the values, and whether it fails.
Meaning(text, given) ==
  LET st == [cells |-> <<>>, tabs |-> <<(<<"str", "emit">> :> <<"emit">>)>>, funs |-> <<>>, out |-> <<>>, err |-> FALSE]
      r == Run(text, 1, <<[vars |-> <<>>, more |-> given]>>, st)
  IN  [out |-> r.st.out, failed |-> r.st.err,
       result |-> IF ~r.st.err /\ r.sig[1] = "return" THEN r.sig[2] ELSE <<>>]
=============================================================================
