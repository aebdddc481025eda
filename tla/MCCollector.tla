---------------------------- MODULE MCCollector ----------------------------
EXTENDS Collector

CONSTANTS main, reg, t1, t2, u, c, str, plain

\* A heap: content of the objects, the weak modes of t1 and t2, allgc and finobj.
Heap(main_, reg_, t1_, t2_, u_, c_, modes, all, fin) ==
  [entries |-> [o \in Obj |-> CASE o = main -> {<<plain, v>> : v \in main_} [] o = reg -> reg_
                                [] o = t1 -> t1_ [] o = t2 -> t2_ [] o = u -> u_ [] o = c -> c_ [] OTHER -> {}],
   mode |-> [o \in {t1, t2, reg} |-> IF o = t1 THEN modes[1] ELSE IF o = t2 THEN modes[2] ELSE ""],
   allgc |-> all, finobj |-> fin]

MCHeaps ==
  \* an empty one, and a chain: globals, closure, table, table, string
  {Heap({}, {}, {}, {}, {}, {}, <<"", "">>, <<>>, <<>>),
   Heap({}, {<<str, c>>}, {<<plain, t2>>}, {<<t2, str>>}, {}, {<<plain, t1>>}, <<"", "">>, <<c, str, t1, t2>>, <<>>)}
  \cup
  \* a weak table whose entry's value leads back to its key, with and without a finalizer
  {Heap({t1}, {}, {<<t2, u>>}, {}, {<<plain, t2>>}, {}, <<w, "">>, <<t1, u, t2>>, <<>>) : w \in {"k", "v"}}
  \cup
  {Heap({t1}, {}, {<<t2, u>>}, {}, {<<plain, t2>>}, {}, <<w, "">>, <<t1, t2>>, <<u>>) : w \in {"k", "kv"}}
  \cup
  \* a weak table whose entry's key has a finalizer and is held by the value
  {Heap({t1}, {}, {<<u, t2>>}, {<<plain, u>>}, {}, {}, <<w, "">>, <<t2, t1>>, <<u>>) : w \in {"v", "k"}}
  \cup
  \* a weak table that only a pending finalizer leads to
  {Heap({}, {}, {<<t2, str>>}, {}, {<<plain, t1>>}, {}, <<w, "">>, <<t1, str, t2>>, <<u>>) : w \in {"", "k"}}
  \cup
  \* ephemerons that wait for each other, in both orders
  {Heap({t1, t2}, {}, {<<c, str>>, <<u, c>>}, {<<t1, u>>}, {}, {}, <<"k", "k">>, <<t1, t2, c, u, str>>, <<>>),
   Heap({t1, t2}, {}, {<<t2, u>>}, {<<c, str>>, <<u, c>>}, {}, {}, <<"k", "k">>, <<t1, t2, c, u, str>>, <<>>)}
  \cup
  \* two objects with finalizers, one of them leading to a table
  {Heap({}, {}, {}, {<<plain, str>>}, {<<plain, t2>>}, {}, <<"", "">>, <<str, t2>>, <<t1, u>>)}
=============================================================================
