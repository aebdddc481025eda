--------------------------- MODULE MCInterpreter ---------------------------
(***************************************************************************)
(* Scripts that the compiled code and the meaning of the text are compared *)
(* on: every expression of two operators in every place an expression can  *)
(* stand, and for each production the cases where registers, jumps or      *)
(* upvalues could go wrong.                                                *)
(***************************************************************************)
EXTENDS Interpreter, Parser, Meaning

Var(n) == <<"var", n>>
Lit(n) == <<"int", n>>
Txt(s) == <<"str", s>>
Dots == <<"vararg">>
Bin(op, x, y) == <<"bin", op, x, y>>
Not(x) == <<"un", "NOT", x>>
At2(o, k) == <<"index", o, k>>
Dot(o, n) == <<"index", o, <<"str", n>>>>
Lam(params, b) == <<"fun", params, FALSE, b>>
LamV(params, b) == <<"fun", params, TRUE, b>>
Ap(f, given) == <<"call", f, given>>
Say(given) == Ap(Var("emit"), given)
Item(e) == <<"item", e>>
Items(list) == <<"table", [n \in DOMAIN list |-> <<"item", list[n]>>]>>
Let(names, exps) == <<"local", names, exps>>
Let1(n, e) == <<"local", <<n>>, <<e>>>>
LetFun(n, f) == <<"localfun", n, f>>
Asg(vs, exps) == <<"assign", vs, exps>>
Asg1(x, e) == <<"assign", <<x>>, <<e>>>>
Giv(exps) == <<"return", exps>>
When(c, b) == <<"if", <<<<c, b>>>>, <<>>>>
Either(c, b, d) == <<"if", <<<<c, b>>>>, <<d>>>>
Plus(x, n) == Bin("ADD", x, Lit(n))
Goto(l) == <<"goto", l>>
Label(l) == <<"label", l>>
Break == <<"break">>

a == Var("a")
b == Var("b")
f == Var("f")
n == Var("n")
t == Var("t")
x == Var("x")
k == Var("k")
True == <<"true">>

\* function() x = x + 1 return x end
Counter == Lam(<<>>, <<Asg1(x, Plus(x, 1)), Giv(<<x>>)>>)
Call0(e) == Ap(e, <<>>)
Element(j) == At2(t, Lit(j))

-----------------------------------------------------------------------------
(* Expressions of up to two operators, in four places.                     *)

Leaves == {a, b, Lit(1)}
Ops == {"and", "or", "EQ"}
Simple == {Not(e) : e \in Leaves} \cup {Bin(op, e, d) : op \in Ops, e \in Leaves, d \in Leaves}
Double == {Not(e) : e \in Simple} \cup {Bin(op, e, d) : op \in Ops, e \in Simple, d \in Leaves}
            \cup {Bin(op, d, e) : op \in Ops, e \in Simple, d \in Leaves}
Pairs == {Bin(op, Bin(p, a, d), Bin(q, b, e)) : op \in {"and", "or"}, p \in Ops, q \in Ops, d \in {a, b}, e \in {a, b}}
Begin == Let(<<"a", "b">>, <<Dots>>)
Places(e) ==
  {<<Begin, Let(<<"x", "y">>, <<e>>), Giv(<<x, Var("y"), a, b>>)>>,
   <<Begin, Either(e, <<Giv(<<Lit(1)>>)>>, <<Giv(<<Lit(2)>>)>>)>>,
   <<Begin, Asg1(a, e), <<"call", Var("emit"), <<a, e>>>>, Giv(<<Not(e)>>)>>,
   <<Begin, Let(<<"n">>, <<Lit(0)>>), <<"repeat", <<Asg1(n, Plus(n, 1)), Asg(<<a, b>>, <<b, e>>)>>,
      Bin("or", Bin("EQ", n, Lit(2)), e)>>, Giv(<<n, a, b>>)>>}
ExpressionScripts == UNION {Places(e) : e \in Leaves \cup Simple \cup Double \cup Pairs}

-----------------------------------------------------------------------------
(* Variables that outlive their block.                                     *)

Closures == <<
  \* a fresh variable for every turn of a loop
  <<Let1("t", Items(<<>>)), <<"fornum", "x", <<Lit(1), Lit(3)>>, <<Asg1(At2(t, x), Counter)>>>>,
    Giv(<<Call0(Element(1)), Call0(Element(1)), Call0(Element(2)), Call0(Element(3))>>)>>,
  <<Let(<<"t", "n">>, <<Items(<<>>), Lit(0)>>),
    <<"while", True, <<Let1("x", n), Asg1(n, Plus(n, 1)), Asg1(At2(t, n), Counter), When(Bin("EQ", n, Lit(2)), <<Break>>)>>>>,
    Let1("z", Lit(7)), Giv(<<Call0(Element(1)), Call0(Element(1)), Call0(Element(2)), Var("z")>>)>>,
  <<Let(<<"f", "n">>, <<<<"nil">>, Lit(0)>>),
    <<"repeat", <<Let1("x", n), When(Bin("EQ", n, Lit(0)), <<Asg1(f, Counter)>>), Asg1(n, Plus(n, 1))>>, Bin("EQ", x, Lit(2))>>,
    Let1("z", Lit(7)), Giv(<<Call0(f), Call0(f), n>>)>>,
  <<Let(<<"n", "t">>, <<Lit(0), Items(<<>>)>>), Label("top"), Let1("x", n), Asg1(n, Plus(n, 1)), Asg1(At2(t, n), Counter),
    When(Bin("LT", n, Lit(3)), <<Goto("top")>>), Giv(<<Call0(Element(1)), Call0(Element(2)), Call0(Element(1)), Call0(Element(3))>>)>>,
  <<Let(<<"f">>, <<>>), <<"do", <<Let1("x", Lit(1)), <<"do", <<Asg1(f, Counter), Goto("out")>>>>, Say(<<Lit(9)>>)>>>>, Label("out"),
    Let1("z", Lit(5)), Giv(<<Call0(f), Call0(f), Var("z")>>)>>,
  <<Let1("t", Items(<<>>)),
    <<"fornum", "k", <<Lit(1), Lit(3)>>, <<Let1("x", k), When(Bin("EQ", k, Lit(2)), <<Goto("cont")>>), Asg1(At2(t, k), Counter), Label("cont")>>>>,
    Giv(<<Call0(Element(1)), Call0(Element(1)), Call0(Element(3))>>)>>,
  \* two functions share a variable, a third level reaches it through the second
  <<Let1("x", Lit(10)), Let1("t", Items(<<Counter, Lam(<<>>, <<Giv(<<x>>)>>), Lam(<<>>, <<Giv(<<Counter>>)>>)>>)),
    Giv(<<Call0(Element(1)), Call0(Element(2)), Call0(Call0(Element(3))), Call0(Element(2)), x>>)>>,
  \* the same closure again, or not
  <<Begin, Let1("t", Items(<<>>)),
    <<"fornum", "k", <<Lit(1), Lit(2)>>, <<Asg1(At2(t, k), Lam(<<>>, <<Asg1(b, k), Giv(<<a>>)>>))>>>>,
    Giv(<<Call0(Element(1)), b, Call0(Element(2)), b>>)>>,
  \* a variable is gone when the call that follows its function reuses the stack
  <<Let1("f", Lam(<<>>, <<Let1("x", Lit(1)), Let1("g", Counter), Asg1(Var("keep"), Var("g")), Giv(<<Call0(Var("g"))>>)>>)),
    Let1("y", Call0(f)), Giv(<<Var("y"), Call0(Var("keep")), Call0(f), Call0(Var("keep"))>>)>>,
  <<LetFun("f", Lam(<<"n">>, <<When(Bin("EQ", n, Lit(0)), <<Giv(<<Lit(0)>>)>>), Giv(<<Bin("ADD", n, Ap(f, <<Bin("SUB", n, Lit(1))>>))>>)>>)),
    Giv(<<Ap(f, <<Lit(3)>>)>>)>>,
  <<Let1("f", Lam(<<>>, <<Giv(<<f>>)>>)), Giv(<<Call0(f)>>)>>,
  <<Let1("x", Lit(1)), <<"do", <<Let1("x", Plus(x, 1)), Say(<<x>>)>>>>, Let1("x", Plus(x, 5)), Giv(<<x>>)>> >>

-----------------------------------------------------------------------------
(* Jumps.                                                                  *)

Gotos == <<
  <<<<"fornum", "k", <<Lit(1), Lit(4)>>, <<When(Bin("EQ", k, Lit(2)), <<Goto("cont")>>), Say(<<k>>), Label("cont")>>>>>>,
  <<Let1("n", Lit(0)),
    <<"while", True, <<Asg1(n, Plus(n, 1)),
       <<"if", <<<<Bin("EQ", n, Lit(1)), <<Goto("next")>>>>, <<Bin("EQ", n, Lit(3)), <<Break>>>>>>, <<<<Say(<<n>>)>>>>>>, Label("next")>>>>,
    Giv(<<n>>)>>,
  \* `then goto`, followed by more of the block
  <<Begin, When(a, <<Goto("l"), Label("m"), Say(<<Lit(1)>>), Goto("l")>>), Say(<<Lit(2)>>), Label("l"), Giv(<<b>>)>>,
  <<Begin, Either(a, <<Goto("l")>>, <<Say(<<Lit(1)>>)>>), Say(<<Lit(2)>>), Label("l"), Label("m"), Giv(<<b>>)>>,
  <<Begin, When(<<"nil">>, <<Goto("l")>>), When(True, <<Goto("m")>>), Say(<<Lit(2)>>), Label("l"), Say(<<Lit(3)>>), Label("m")>>,
  <<Begin, <<"while", True, <<<<"fornum", "k", <<Lit(3), Lit(1), Lit(-1)>>, <<When(Bin("EQ", k, Lit(2)), <<Break>>), Say(<<k>>)>>>>, Break>>>>,
    Giv(<<a>>)>>,
  <<Begin, Let1("n", Lit(0)), <<"while", Bin("and", a, Bin("LT", n, Lit(2))), <<Asg1(n, Plus(n, 1))>>>>, Giv(<<n>>)>>,
  \* what is nil stays nil at the end of jumps
  <<Begin, Let1("p", Bin("and", a, b)), Let(<<"q">>, <<>>), Let(<<"r", "s">>, <<>>), Let1("u", <<"nil">>), Giv(<<Var("p"), Var("q"), Var("r"), Var("u")>>)>>,
  <<Begin, Let(<<"x">>, <<>>), When(a, <<Asg1(x, Lit(3))>>), Let(<<"y">>, <<>>), Giv(<<x, Var("y")>>)>>,
  <<<<"do", <<Let(<<"p", "q">>, <<Lit(1), Lit(2)>>)>>>>, <<"do", <<Let(<<"r">>, <<>>), Let(<<"s", "u">>, <<>>), Giv(<<Var("r"), Var("s"), Var("u")>>)>>>>>>,
  <<Begin, <<"do", <<Let(<<"p", "q">>, <<Lit(1), Lit(2)>>)>>>>, When(a, <<Let(<<"p", "q">>, <<>>)>>), Let(<<"y">>, <<>>), Giv(<<Var("y")>>)>>,
  \* a jump over locals to the end of their block
  <<Begin, <<"do", <<When(a, <<Goto("l")>>), Let1("x", b), Say(<<x>>), Label("l"), Label("m")>>>>, Giv(<<b>>)>>,
  <<<<"fornum", "k", <<Lit(1), Lit(0)>>, <<Say(<<k>>)>>>>, <<"fornum", "k", <<Lit(1), Lit(2)>>, <<Asg1(k, Plus(k, 5)), Say(<<k>>)>>>>,
    <<"repeat", <<Let1("x", True)>>, x>>>>,
  <<Begin, <<"fornum", "k", <<Lit(1), a>>, <<Say(<<k>>)>>>>>>,
  <<LetFun("f", Lam(<<"s", "c">>, <<When(Bin("LT", Var("c"), Var("s")), <<Giv(<<Plus(Var("c"), 1), Var("c")>>)>>)>>)), Let1("t", Items(<<>>)),
    <<"forin", <<"k", "x">>, <<f, Lit(3), Lit(0)>>, <<When(Bin("EQ", k, Lit(3)), <<Break>>), Asg1(At2(t, k), Counter), Say(<<k, x>>)>>>>,
    Giv(<<Call0(Element(1)), Call0(Element(2)), Call0(Element(1))>>)>>,
  <<<<"forin", <<"k">>, <<Lit(1)>>, <<>>>>>> >>

-----------------------------------------------------------------------------
(* Assignments, lists of values, calls.                                    *)

two == Say(<<Lit(1), Lit(2)>>)
Lists == <<
  <<Begin, Asg(<<a, b>>, <<b, a>>), Giv(<<a, b>>)>>,
  <<Let(<<"n", "t">>, <<Lit(1), Items(<<>>)>>), Asg(<<n, At2(t, n)>>, <<Plus(n, 1), Lit(20)>>), Giv(<<n, Element(1), Element(2)>>)>>,
  <<Let(<<"n", "t">>, <<Lit(1), Items(<<Lit(5), Lit(6)>>)>>), Asg(<<At2(t, n), n>>, <<n, Lit(2)>>), Giv(<<n, Element(1), Element(2)>>)>>,
  <<Let(<<"t">>, <<Items(<<Lit(5)>>)>>), Let1("x", t), Asg(<<Element(1), t>>, <<Lit(1), Lit(2)>>), Giv(<<t, At2(x, Lit(1))>>)>>,
  <<Let(<<"t">>, <<Items(<<Lit(5)>>)>>), Let1("x", t),
    Ap(Lam(<<>>, <<Asg(<<Element(1), t>>, <<Lit(1), Lit(2)>>)>>), <<>>), Giv(<<t, At2(x, Lit(1))>>)>>,
  <<Let(<<"x", "y", "z">>, <<two>>), Say(<<x, Var("y"), Var("z")>>), Asg(<<x, Var("y"), Var("z")>>, <<Lit(8), two>>), Asg1(n, Lit(4)), Giv(<<x, Var("y"), Var("z"), n>>)>>,
  <<Let(<<"x", "y">>, <<<<"paren", two>>>>), Asg(<<x>>, <<Plus(x, 1), two>>), Giv(<<x, Var("y"), <<"paren", two>>>>)>>,
  <<Let1("t", Items(<<>>)), Asg(<<Dot(t, "p"), Dot(t, "q"), Var("g")>>, <<two>>), Asg(<<Dot(t, "r"), Dot(t, "p")>>, <<Lit(6)>>), Giv(<<Dot(t, "p"), Dot(t, "q"), Dot(t, "r"), Var("g")>>)>>,
  <<Let1("t", Items(<<Lit(1), Lit(2), Lit(3), Lit(4), Lit(5)>>)), Giv(<<<<"un", "LEN", t>>, Element(3), Element(5)>>)>>,
  <<Let1("t", Items(<<two, Lit(7), two>>)), Giv(<<<<"un", "LEN", t>>, Element(1), Element(2), Element(4)>>)>>,
  <<Let1("t", <<"table", <<Item(Lit(1)), <<"field", Txt("p"), Lit(2)>>, Item(Lit(3)), <<"field", Lit(10), two>>, Item(Lit(8)), Item(Dots)>>>>),
    Giv(<<<<"un", "LEN", t>>, Element(2), Element(3), Element(10), Dot(t, "p"), Element(4)>>)>>,
  <<Let1("t", <<"table", <<Item(two), Item(two), Item(two), <<"field", Txt("p"), Lit(1)>>>>>>), Giv(<<<<"un", "LEN", t>>, Element(3)>>)>>,
  <<Let1("f", LamV(<<"x">>, <<Let(<<"p", "q">>, <<Dots>>), Giv(<<Var("q"), Var("p"), x, Dots>>)>>)),
    Giv(<<Ap(f, <<Lit(1), Lit(2), Lit(3)>>), <<"paren", Ap(f, <<>>)>>, Ap(f, <<Lit(4), Dots>>)>>)>>,
  <<Let1("f", LamV(<<>>, <<Giv(<<<<"un", "LEN", <<"table", <<Item(Dots)>>>>>>, <<"paren", Dots>>>>)>>)), Giv(<<Ap(f, <<Lit(3), Lit(4)>>), Call0(f)>>)>>,
  <<Let1("f", LamV(<<>>, <<Giv(<<Say(<<Dots>>)>>)>>)), Let1("g", LamV(<<"x">>, <<Giv(<<Ap(f, <<x, Dots>>)>>)>>)),
    Giv(<<Ap(Var("g"), <<Lit(1), Lit(2), Ap(Var("g"), <<Lit(3)>>)>>)>>)>>,
  <<LetFun("f", Lam(<<"n", "x">>, <<When(Bin("EQ", n, Lit(0)), <<Giv(<<x>>)>>), Giv(<<Ap(f, <<Bin("SUB", n, Lit(1)), Bin("ADD", x, n)>>)>>)>>)),
    Giv(<<Ap(f, <<Lit(3), Lit(0)>>)>>)>>,
  <<Let1("t", <<"table", <<<<"field", Txt("n"), Lit(5)>>>>>>), Asg1(Dot(t, "get"), Lam(<<"self", "x">>, <<Giv(<<Bin("ADD", Dot(Var("self"), "n"), x)>>)>>)),
    Asg1(Dot(t, "me"), Lam(<<"self">>, <<Giv(<<Var("self")>>)>>)),
    Giv(<<<<"method", t, "get", <<Lit(2)>>>>, <<"method", <<"method", t, "me", <<>>>>, "get", <<<<"method", t, "get", <<Lit(1)>>>>>>>>>>)>>,
  <<Begin, Giv(<<Bin("CONCAT", Txt("x"), Bin("CONCAT", Lit(1), Bin("CONCAT", <<"paren", Say(<<Lit(4)>>)>>, Txt("y")))), Bin("CONCAT", a, b)>>)>>,
  <<Giv(<<Bin("GT", Say(<<Lit(1)>>), Say(<<Lit(2)>>)), Bin("GE", Lit(2), Lit(2)), Bin("LE", Lit(3), Say(<<Lit(2)>>)), Bin("NE", <<"nil">>, <<"false">>), Bin("EQ", Txt("p"), Txt("p"))>>)>>,
  <<Giv(<<Bin("SUB", Bin("ADD", Lit(1), Lit(2)), Lit(4)), <<"un", "UNM", Lit(3)>>, <<"un", "UNM", Say(<<Lit(3)>>)>>, Bin("SUB", Say(<<Lit(9)>>), Bin("ADD", Say(<<Lit(2)>>), Lit(1)))>>)>>,
  <<Begin, Asg1(Var("g"), Lit(3)), Asg1(Var("g"), a), Giv(<<Var("g"), Var("h")>>)>>,
  <<Begin, Say(<<Lit(1)>>), Asg1(x, Plus(a, 1)), Say(<<Lit(2)>>)>>,
  <<Begin, Say(<<Lit(1)>>), Asg1(Dot(a, "p"), Lit(1)), Say(<<Lit(2)>>)>>,
  <<Let1("t", Items(<<>>)), Asg(<<At2(t, Var("h")), x>>, <<Lit(1), Lit(2)>>), Say(<<Lit(2)>>)>>,
  <<Let1("f", Lam(<<>>, <<Let1("p", Call0(Var("h"))), Giv(<<Var("p")>>)>>)), Giv(<<Call0(f)>>)>>,
  <<Giv(<<Ap(Var("h"), <<>>)>>)>>, <<Begin, Giv(<<<<"un", "UNM", a>>, <<"un", "LEN", Items(<<>>)>>>>)>>, <<Giv(<<<<"un", "LEN", Lit(1)>>>>)>>, <<Begin, Giv(<<Bin("LT", a, Lit(2))>>)>> >>

\* Texts the compiler must refuse.
Refused == <<
  <<<<"do", <<Goto("l"), Let1("x", Lit(1)), Label("l"), Say(<<x>>)>>>>>>,
  <<<<"repeat", <<When(a, <<Goto("l")>>), Let1("x", Lit(1)), Label("l")>>, x>>>>,
  <<Goto("l")>>, <<Break>>, <<Label("l"), Label("l")>>,
  <<Let1("f", Lam(<<>>, <<Goto("l")>>)), Label("l")>>,
  <<Let1("f", Lam(<<>>, <<Giv(<<Dots>>)>>))>>,
  <<<<"do", <<Label("l")>>>>, Goto("l")>> >>

\* Back to a label between two declarations.
Labels == <<
  <<Let1("n", Lit(0)), Let(<<"x">>, <<>>), Label("l"), Let(<<"y">>, <<>>), Asg1(n, Plus(n, 1)),
    When(Bin("EQ", n, Lit(1)), <<Asg1(Var("y"), Lit(5)), Goto("l")>>), Giv(<<Var("y")>>)>> >>

Named(list, name) == {<<name, j>> : j \in DOMAIN list}
MCScripts == Named(Closures, "closures") \cup Named(Gotos, "gotos") \cup Named(Lists, "lists")
               \cup Named(Refused, "refused") \cup {<<"expression", e>> : e \in ExpressionScripts}
MCLabels == Named(Labels, "labels")
MCText(s) ==
  CASE s[1] = "closures" -> Closures[s[2]] [] s[1] = "gotos" -> Gotos[s[2]] [] s[1] = "lists" -> Lists[s[2]]
    [] s[1] = "refused" -> Refused[s[2]] [] s[1] = "labels" -> Labels[s[2]] [] s[1] = "expression" -> s[2]
MCArguments == {<<>>, <<<<"false">>, <<"int", 1>>>>, <<<<"int", 2>>, <<"nil">>>>, <<<<"int", 1>>, <<"int", 2>>>>}
MCMalformed == Named(Refused, "refused")
MCCompiled(s) == LET text == MCText(s) IN Compile(text)
MCMeans(s, given) == LET text == MCText(s) IN Meaning(text, given)
=============================================================================
