--------------------------- MODULE LuaCallProofs ---------------------------
(***************************************************************************)
(* Proofs about LuaCall: no activation on the C stack goes uncounted, a    *)
(* coroutine may yield exactly when nothing is in between, and an error    *)
(* ends in the innermost pcall, for every limit and every bound.           *)
(*                                                                         *)
(* All of it as long as the framework has not called out of a coroutine    *)
(* and no exception has ended inside an outer call: ~tangled.              *)
(***************************************************************************)
EXTENDS LuaCall, SequenceTheorems, WellFoundedInduction, TLAPS

-----------------------------------------------------------------------------
(* The inductive invariant.                                                *)

\* What the counts of a thread are once the activation a has begun.
CallsAfter(a) == IF a.op = "resume" THEN a.nCcalls ELSE a.nCcalls + 1
NnyAfter(a) == IF a.op = "resume" THEN 0 ELSE IF a.free THEN a.nny ELSE a.nny + 1

\* Activations that an error of t may jump to.
Handles(a, t) == a.th = t /\ a.op # "call"

\* A handler of a stack that an exception has unwound, or none; n exceptions so far.
Stale(n, e) == e = NoJmp \/ e[1] < n

\* e is the innermost handler of t below the place i of the C stack h.
Chained(h, n, e, t, i) ==
  \/ \E j \in 1 .. i - 1 : /\ Handles(h[j], t) /\ e = <<n, j>>
                           /\ \A k \in j + 1 .. i - 1 : ~Handles(h[k], t)
  \/ (\A j \in 1 .. i - 1 : ~Handles(h[j], t)) /\ Stale(n, e)

\* What a yield may leave.
Leaves(a) == a.op = "resume" \/ a.free

\* The main thread is below, the coroutine it has resumed above.
Shape(h, i) ==
  /\ i = 1 => h[i].th = Main /\ ~h[i].free
  /\ h[i].th = Main => h[i].op # "resume"
  /\ h[i].op = "resume" => h[i].th = Co /\ h[i].base = 0 /\ i > 1
  /\ i > 1 => (h[i].op = "resume" <=> h[i - 1].th # h[i].th)
  /\ h[i].free => h[i].op = "call"
  /\ \A j \in 1 .. i - 1 : /\ h[i].op = "resume" => h[j].th = Main
                           /\ h[i].th = Main => h[j].th = Main
                           /\ h[j].th = h[i].th => h[j].base < h[i].base

\* The counts saved at the places of the C stack, from that of the framework's call on.
Counted(h, i, n, l) ==
  /\ h[i].nCcalls < MaxCCalls
  /\ CallsAfter(h[i]) >= i + l
  /\ \A j \in 1 .. i - 1 : CallsAfter(h[j]) < CallsAfter(h[i])
  /\ h[i].th = Main => /\ h[i].nny >= 1 + n /\ NnyAfter(h[i]) >= 2 + n
                       /\ h[i].nny <= 1 + h[i].nCcalls
  /\ i = 1 => h[i].nCcalls = l /\ (n = 0 => h[i].nny = 1 /\ h[i].base = 0)
  /\ i > 1 /\ h[i].op # "resume" => h[i].nny = NnyAfter(h[i - 1])
  /\ h[i].th = Co =>
       (NnyAfter(h[i]) = 0 <=> \A j \in 1 .. i : h[j].th = Co => Leaves(h[j]))

SoundAt(h, i, n, l) ==
  /\ Shape(h, i)
  /\ Counted(h, i, n, l)
  /\ h[i].op # "call" => Chained(h, n, h[i].errorJmp, h[i].th, i)

SoundStack(h, n, l) == \A i \in 1 .. Len(h) : SoundAt(h, i, n, l)
SoundHost == SoundStack(host, thrown, lost)

\* The last activation of t.
LastOf(h, t, i) == /\ i \in 1 .. Len(h) /\ h[i].th = t
                   /\ \A j \in i + 1 .. Len(h) : h[j].th # t

\* What the interpreter knows of a thread, its handler e and its counts, is what it
\* knew after the last activation of the thread.
KnownAs(h, n, e, free, calls, depth, t) ==
  /\ Chained(h, n, e, t, Len(h) + 1)
  /\ \A i \in 1 .. Len(h) : LastOf(h, t, i) =>
       free = NnyAfter(h[i]) /\ calls >= CallsAfter(h[i]) /\ depth > h[i].base

Known(t) == KnownAs(host, thrown, errorJmp[t], nny[t], nCcalls[t], Len(ci[t]), t)

MainKnown ==
  /\ status[Main] = "ok"
  /\ nny[Main] >= 1 + thrown /\ nny[Main] <= 1 + nCcalls[Main]
  /\ host = <<>> => nCcalls[Main] = lost /\ (thrown = 0 => nny[Main] = 1 /\ ci[Main] = <<>>)
  /\ \A p \in 1 .. Len(ci[Main]) : ci[Main][p] # "ypcall"

CoKnown ==
  /\ (\E i \in 1 .. Len(host) : host[i].th = Co) => status[Co] = "ok"
  /\ status[Co] = "yield" =>
       Len(ci[Co]) >= 2 /\ \A p \in 1 .. Len(ci[Co]) : ci[Co][p] # "pcall"

\* luaD_pcall begins above the call of pcall, unless the framework's, and no yieldable
\* pcall is above it.
PCallAt(i) ==
  LET a == host[i]
  IN  a.op = "pcall" =>
        /\ a.by = "script" => a.base > 0 /\ ci[a.th][a.base] = "pcall"
        /\ \A p \in a.base + 1 .. Len(ci[a.th]) : ci[a.th][p] # "ypcall"

\* A pcall that has not just been finished has its luaD_pcall.
PCallHandled(t) ==
  \A p \in 1 .. Len(ci[t]) - 1 : \A k \in 1 .. Len(host) :
    ci[t][p] = "pcall" /\ host[k].th = t /\ host[k].base < p =>
      \E i \in 1 .. Len(host) : host[i].th = t /\ host[i].op = "pcall" /\ host[i].base = p

PCallsKnown ==
  /\ \A i \in 1 .. Len(host) : PCallAt(i)
  /\ \A t \in LuaThreads : PCallHandled(t)

\* The type invariant, with counts below the limit.
Types ==
  /\ ci \in [LuaThreads -> Seq(CallInfos)]
  /\ nCcalls \in [LuaThreads -> 0 .. MaxCCalls - 1]
  /\ nny \in [LuaThreads -> Nat]
  /\ status \in [LuaThreads -> {"new", "ok", "yield", "dead"}]
  /\ errorJmp \in [LuaThreads -> Nat \X Nat]
  /\ host \in Seq(Activation)
  /\ process \in {"runs", "aborts", "undefined", "confused"}
  /\ thrown \in 0..MaxThrown /\ lost \in Nat /\ callbacks \in 0..MaxCallbacks
  /\ tangled = FALSE
  /\ last \in {"init", "refused", "callback", "lookup", "exception", "error", "call", "create", "resume",
              "yield", "return"}

IInv ==
  /\ Types /\ SoundHost
  /\ \A t \in LuaThreads : Known(t)
  /\ MainKnown /\ CoKnown /\ PCallsKnown

-----------------------------------------------------------------------------
(* Sets of natural numbers and their least and greatest members.           *)

\* A set of natural numbers that is not empty has a least member.
LEMMA NatMin ==
  ASSUME NEW S \in SUBSET Nat, S # {}
  PROVE  \E n \in S : \A m \in S : n <= m
<1> DEFINE R == OpToRel(<, Nat)
<1>1. IsWellFoundedOn(R, Nat)
  BY NatLessThanWellFounded
<1>2. \A m, n \in Nat : <<m, n>> \in R <=> m < n
  BY DEF OpToRel
<1> HIDE DEF R
<1>3. PICK n \in S : \A m \in S : ~(<<m, n>> \in R)
  BY <1>1, WFMin
<1>4. ASSUME NEW m \in S PROVE n <= m
  <2>1. n \in Nat /\ m \in Nat
    OBVIOUS
  <2>2. ~(m < n)
    BY <2>1, <1>2, <1>3
  <2> QED  BY <2>1, <2>2
<1> QED  BY <1>4

\* Min and Max of the library are the least and the greatest member.
LEMMA MinIs ==
  ASSUME NEW S \in SUBSET Int, NEW m \in S, \A x \in S : m <= x
  PROVE  Min(S) = m
<1>1. \E x \in S : \A y \in S : x <= y
  OBVIOUS
<1>2. Min(S) \in S /\ \A y \in S : Min(S) <= y
  BY <1>1 DEF Min
<1>3. Min(S) \in Int /\ m \in Int /\ Min(S) <= m /\ m <= Min(S)
  BY <1>2
<1> QED  BY <1>3

\* Likewise the greatest member.
LEMMA MaxIs ==
  ASSUME NEW S \in SUBSET Int, NEW m \in S, \A x \in S : x <= m
  PROVE  Max(S) = m
<1>1. \E x \in S : \A y \in S : x >= y
  OBVIOUS
<1>2. Max(S) \in S /\ \A y \in S : Max(S) >= y
  BY <1>1 DEF Max
<1>3. Max(S) \in Int /\ m \in Int /\ Max(S) <= m /\ m <= Max(S)
  BY <1>2
<1> QED  BY <1>3

\* Positions up to k that are not none have a greatest one.
LEMMA MaxOfPositions ==
  ASSUME NEW k \in Nat, NEW S \in SUBSET (1 .. k), S # {}
  PROVE  Max(S) \in S /\ \A x \in S : x <= Max(S)
<1> DEFINE D == {d \in 0 .. k : k - d \in S}
<1>1. D # {}
  <2>1. PICK x \in S : TRUE
    OBVIOUS
  <2>2. k - x \in D
    BY <2>1
  <2> QED  BY <2>2
<1>2. D \in SUBSET Nat
  OBVIOUS
<1>3. PICK d \in D : \A c \in D : d <= c
  BY <1>1, <1>2, NatMin
<1>4. ASSUME NEW x \in S PROVE x <= k - d
  <2>1. k - x \in D
    OBVIOUS
  <2> QED  BY <2>1, <1>3
<1>5. k - d \in S
  BY <1>3
<1>6. S \in SUBSET Int
  OBVIOUS
<1>7. Max(S) = k - d
  BY <1>4, <1>5, <1>6, MaxIs
<1> QED  BY <1>4, <1>5, <1>7

-----------------------------------------------------------------------------
(* The C stack.                                                            *)

\* Handlers below a place depend on what is below only.
LEMMA ChainedLocal ==
  ASSUME NEW h, NEW g, NEW n, NEW e, NEW t, NEW i \in Nat,
         \A j \in 1 .. i - 1 : g[j] = h[j], Chained(h, n, e, t, i)
  PROVE  Chained(g, n, e, t, i)
BY DEF Chained

\* So does the soundness of a place on what is below and there.
LEMMA SoundLocal ==
  ASSUME NEW h, NEW g, NEW n, NEW l, NEW i \in Nat \ {0},
         \A j \in 1 .. i : g[j] = h[j], SoundAt(h, i, n, l)
  PROVE  SoundAt(g, i, n, l)
<1>1. Shape(g, i)
  BY DEF SoundAt, Shape
<1>2. Counted(g, i, n, l)
  <2>1. g[i] = h[i] /\ \A j \in 1 .. i - 1 : g[j] = h[j]
    OBVIOUS
  <2>2. i > 1 => g[i - 1] = h[i - 1]
    BY <2>1
  <2> QED  BY <2>1, <2>2 DEF SoundAt, Counted
<1>3. g[i].op # "call" => Chained(g, n, g[i].errorJmp, g[i].th, i)
  <2>1. g[i] = h[i] /\ \A j \in 1 .. i - 1 : g[j] = h[j]
    OBVIOUS
  <2> QED  BY <2>1, ChainedLocal DEF SoundAt
<1> QED  BY <1>1, <1>2, <1>3 DEF SoundAt

\* What is left of a sound stack is sound.
LEMMA PopSound ==
  ASSUME NEW h \in Seq(Activation), NEW n, NEW l, SoundStack(h, n, l), NEW m \in 0 .. Len(h)
  PROVE  /\ SubSeq(h, 1, m) \in Seq(Activation)
         /\ Len(SubSeq(h, 1, m)) = m
         /\ \A i \in 1 .. m : SubSeq(h, 1, m)[i] = h[i]
         /\ SoundStack(SubSeq(h, 1, m), n, l)
<1>1. /\ SubSeq(h, 1, m) \in Seq(Activation)
      /\ Len(SubSeq(h, 1, m)) = m
      /\ \A i \in 1 .. m : SubSeq(h, 1, m)[i] = h[i]
  OBVIOUS
<1>2. SoundStack(SubSeq(h, 1, m), n, l)
  <2> DEFINE g == SubSeq(h, 1, m)
  <2> HIDE DEF g
  <2> SUFFICES ASSUME NEW i \in 1 .. m PROVE SoundAt(g, i, n, l)
    BY <1>1 DEF SoundStack, g
  <2>1. i \in Nat \ {0} /\ \A j \in 1 .. i : g[j] = h[j]
    BY <1>1 DEF g
  <2>2. SoundAt(h, i, n, l)
    BY DEF SoundStack
  <2> QED  BY <2>1, <2>2, SoundLocal
<1> QED  BY <1>1, <1>2

\* A sound stack with one more sound activation is sound.
LEMMA PushSound ==
  ASSUME NEW h \in Seq(Activation), NEW n, NEW l, SoundStack(h, n, l), NEW a \in Activation,
         SoundAt(Append(h, a), Len(h) + 1, n, l)
  PROVE  SoundStack(Append(h, a), n, l)
<1> DEFINE g == Append(h, a)
<1>1. Len(g) = Len(h) + 1 /\ \A j \in 1 .. Len(h) : g[j] = h[j]
  OBVIOUS
<1> HIDE DEF g
<1> SUFFICES ASSUME NEW i \in 1 .. Len(g) PROVE SoundAt(g, i, n, l)
  BY DEF SoundStack, g
<1>2. CASE i = Len(h) + 1
  BY <1>2 DEF g
<1>3. CASE i \in 1 .. Len(h)
  <2>1. i \in Nat \ {0} /\ \A j \in 1 .. i : g[j] = h[j]
    BY <1>1, <1>3
  <2>2. SoundAt(h, i, n, l)
    BY <1>3 DEF SoundStack
  <2> QED  BY <2>1, <2>2, SoundLocal
<1> QED  BY <1>1, <1>2, <1>3

\* A thread that is on the C stack has a last activation there.
LEMMA HasLast ==
  ASSUME NEW h \in Seq(Activation), NEW t, NEW j \in 1 .. Len(h), h[j].th = t
  PROVE  \E i \in 1 .. Len(h) : j <= i /\ LastOf(h, t, i)
<1> DEFINE D == {d \in Nat : d <= Len(h) - j /\ h[Len(h) - d].th = t}
<1>1. Len(h) - j \in D
  OBVIOUS
<1>2. PICK d \in D : \A c \in D : d <= c
  BY <1>1, NatMin
<1>3. LastOf(h, t, Len(h) - d)
  <2>1. Len(h) - d \in 1 .. Len(h) /\ h[Len(h) - d].th = t
    BY <1>2
  <2>2. ASSUME NEW k \in Len(h) - d + 1 .. Len(h), h[k].th = t PROVE FALSE
    <3>1. Len(h) - k \in D
      BY <2>1, <2>2, <1>2
    <3>2. d <= Len(h) - k
      BY <3>1, <1>2
    <3>3. d \in Nat /\ Len(h) \in Nat /\ k \in Int /\ k >= Len(h) - d + 1
      BY <1>2, <2>2
    <3> QED  BY <3>2, <3>3
  <2> QED  BY <2>1, <2>2 DEF LastOf
<1> QED  BY <1>2, <1>3

\* The fields of an activation.
LEMMA ActivationFields ==
  ASSUME NEW a \in Activation
  PROVE  /\ a.op \in {"pcall", "call", "resume"} /\ a.th \in LuaThreads /\ a.free \in BOOLEAN
         /\ a.base \in Nat /\ a.nCcalls \in Nat /\ a.nny \in Nat /\ a.errorJmp \in Nat \X Nat
         /\ CallsAfter(a) \in Nat /\ NnyAfter(a) \in Nat
BY DEF Activation, CallsAfter, NnyAfter

\* Where no handler of t is in between, its innermost handler is the same.
LEMMA ChainedDown ==
  ASSUME NEW h, NEW n, NEW e, NEW t, NEW k \in Nat, NEW m \in 0 .. k,
         \A j \in m + 1 .. k : ~Handles(h[j], t)
  PROVE  Chained(h, n, e, t, k + 1) <=> Chained(h, n, e, t, m + 1)
<1>1. ASSUME Chained(h, n, e, t, k + 1) PROVE Chained(h, n, e, t, m + 1)
  <2>1. CASE \E j \in 1 .. k : /\ Handles(h[j], t) /\ e = <<n, j>>
                               /\ \A i \in j + 1 .. k : ~Handles(h[i], t)
    <3>1. PICK j \in 1 .. k : /\ Handles(h[j], t) /\ e = <<n, j>>
                              /\ \A i \in j + 1 .. k : ~Handles(h[i], t)
      BY <2>1
    <3>2. j \in 1 .. m
      BY <3>1
    <3> QED  BY <3>1, <3>2 DEF Chained
  <2>2. CASE (\A j \in 1 .. k : ~Handles(h[j], t)) /\ Stale(n, e)
    BY <2>2 DEF Chained
  <2>3. k + 1 - 1 = k
    OBVIOUS
  <2> QED  BY <1>1, <2>1, <2>2, <2>3 DEF Chained
<1>2. ASSUME Chained(h, n, e, t, m + 1) PROVE Chained(h, n, e, t, k + 1)
  <2>1. CASE \E j \in 1 .. m : /\ Handles(h[j], t) /\ e = <<n, j>>
                               /\ \A i \in j + 1 .. m : ~Handles(h[i], t)
    <3>1. PICK j \in 1 .. m : /\ Handles(h[j], t) /\ e = <<n, j>>
                              /\ \A i \in j + 1 .. m : ~Handles(h[i], t)
      BY <2>1
    <3>2. \A i \in j + 1 .. k : i \in j + 1 .. m \/ i \in m + 1 .. k
      OBVIOUS
    <3> QED  BY <3>1, <3>2 DEF Chained
  <2>2. CASE (\A j \in 1 .. m : ~Handles(h[j], t)) /\ Stale(n, e)
    <3>1. \A i \in 1 .. k : i \in 1 .. m \/ i \in m + 1 .. k
      OBVIOUS
    <3> QED  BY <2>2, <3>1 DEF Chained
  <2>3. m + 1 - 1 = m
    OBVIOUS
  <2> QED  BY <1>2, <2>1, <2>2, <2>3 DEF Chained
<1> QED  BY <1>1, <1>2

\* An activation of luaD_call is no handler.
LEMMA PushCall ==
  ASSUME NEW h \in Seq(Activation), NEW a \in Activation, NEW n, NEW e, NEW t,
         ~Handles(a, t), Chained(h, n, e, t, Len(h) + 1)
  PROVE  Chained(Append(h, a), n, e, t, Len(Append(h, a)) + 1)
<1> DEFINE g == Append(h, a)
<1>1. Len(g) = Len(h) + 1 /\ g[Len(h) + 1] = a /\ \A j \in 1 .. Len(h) : g[j] = h[j]
  OBVIOUS
<1> HIDE DEF g
<1>2. Chained(g, n, e, t, Len(h) + 1)
  BY <1>1, ChainedLocal
<1>3. \A j \in Len(h) + 1 .. Len(g) : ~Handles(g[j], t)
  BY <1>1
<1>4. Len(g) \in Nat /\ Len(h) \in 0 .. Len(g)
  BY <1>1
<1>5. Chained(g, n, e, t, Len(g) + 1)
  BY <1>2, <1>3, <1>4, ChainedDown
<1> QED  BY <1>5 DEF g

\* One more activation a of t: what is known of t is what a makes of it ...
LEMMA PushOwn ==
  ASSUME NEW h \in Seq(Activation), NEW a \in Activation, NEW n \in Nat, NEW e, NEW free,
         NEW calls \in Nat, NEW depth \in Nat,
         free = NnyAfter(a), calls >= CallsAfter(a), depth > a.base,
         IF a.op = "call" THEN Chained(h, n, e, a.th, Len(h) + 1) ELSE e = <<n, Len(h) + 1>>
  PROVE  KnownAs(Append(h, a), n, e, free, calls, depth, a.th)
<1> DEFINE g == Append(h, a)
<1>1. Len(g) = Len(h) + 1 /\ g[Len(h) + 1] = a /\ \A j \in 1 .. Len(h) : g[j] = h[j]
  OBVIOUS
<1> HIDE DEF g
<1>2. Chained(g, n, e, a.th, Len(g) + 1)
  <2>1. CASE a.op = "call"
    <3>1. ~Handles(a, a.th)
      BY <2>1 DEF Handles
    <3> QED  BY <2>1, <3>1, PushCall DEF g
  <2>2. CASE a.op # "call"
    <3>1. Handles(g[Len(h) + 1], a.th) /\ e = <<n, Len(h) + 1>> /\ Len(h) + 1 \in 1 .. Len(g)
      BY <1>1, <2>2 DEF Handles
    <3> QED  BY <1>1, <3>1 DEF Chained
  <2> QED  BY <2>1, <2>2
<1>3. ASSUME NEW i \in 1 .. Len(g), LastOf(g, a.th, i) PROVE i = Len(h) + 1
  BY <1>1, <1>3 DEF LastOf
<1> QED  BY <1>1, <1>2, <1>3 DEF KnownAs, g

\* ... and what is known of another thread stays.
LEMMA PushOther ==
  ASSUME NEW h \in Seq(Activation), NEW a \in Activation, NEW n \in Nat, NEW e, NEW free,
         NEW calls, NEW depth, NEW t, a.th # t,
         KnownAs(h, n, e, free, calls, depth, t)
  PROVE  KnownAs(Append(h, a), n, e, free, calls, depth, t)
<1> DEFINE g == Append(h, a)
<1>1. Len(g) = Len(h) + 1 /\ g[Len(h) + 1] = a /\ \A j \in 1 .. Len(h) : g[j] = h[j]
  OBVIOUS
<1> HIDE DEF g
<1>2. Chained(g, n, e, t, Len(g) + 1)
  <2>1. Chained(h, n, e, t, Len(h) + 1) /\ ~Handles(a, t)
    BY DEF KnownAs, Handles
  <2> QED  BY <2>1, PushCall DEF g
<1>3. ASSUME NEW i \in 1 .. Len(g), LastOf(g, t, i) PROVE i \in 1 .. Len(h) /\ LastOf(h, t, i)
  BY <1>1, <1>3 DEF LastOf
<1> QED  BY <1>1, <1>2, <1>3 DEF KnownAs, g

\* What the constants are.
LEMMA Limits ==
  /\ Main # Co /\ Main \in LuaThreads /\ Co \in LuaThreads
  /\ MaxCCalls \in Nat /\ MaxCCalls > 1 /\ MaxCCalls < 65536
  /\ MaxThrown \in Nat /\ MaxCallbacks \in Nat
BY LuaCallAssumption DEF LuaThreads

\* What is left of the C stack when the activations above m go, all of them b's thread:
\* what is known of that thread is what b has saved ...
LEMMA PopOwn ==
  ASSUME NEW h \in Seq(Activation), NEW n \in Nat, NEW l \in Nat, SoundStack(h, n, l),
         NEW m \in 0 .. Len(h) - 1, NEW b \in Activation, b = h[m + 1],
         NEW e, Chained(h, n, e, b.th, m + 1),
         NEW calls \in Nat, calls >= CallsAfter(b) - 1, NEW depth \in Nat, depth >= b.base
  PROVE  KnownAs(SubSeq(h, 1, m), n, e, b.nny, calls, depth, b.th)
<1> DEFINE g == SubSeq(h, 1, m)
<1>1. Len(g) = m /\ \A j \in 1 .. m : g[j] = h[j]
  OBVIOUS
<1> HIDE DEF g
<1>2. Chained(g, n, e, b.th, Len(g) + 1)
  BY <1>1, ChainedLocal
<1>3. ASSUME NEW i \in 1 .. m, LastOf(g, b.th, i)
      PROVE  b.nny = NnyAfter(g[i]) /\ calls >= CallsAfter(g[i]) /\ depth > g[i].base
  <2>1. SoundAt(h, m + 1, n, l) /\ SoundAt(h, i, n, l)
    BY <1>3 DEF SoundStack
  <2>2. h[i].th = b.th /\ h[i] \in Activation
    BY <1>1, <1>3 DEF LastOf
  <2>3. b.op # "resume" /\ m >= 1
    <3>1. i \in 1 .. m + 1 - 1 /\ m >= 1
      BY <1>3
    <3> QED  BY <2>1, <2>2, <3>1, Limits DEF SoundAt, Shape
  <2>4. h[m].th = b.th
    BY <2>1, <2>3 DEF SoundAt, Shape
  <2>5. i = m
    BY <1>1, <1>3, <2>3, <2>4, SMTT(30) DEF LastOf
  <2>6. b.nny = NnyAfter(h[m]) /\ CallsAfter(h[m]) < CallsAfter(b)
    BY <2>1, <2>3 DEF SoundAt, Counted
  <2>7. h[m].base < b.base
    BY <2>1, <2>3, <2>4 DEF SoundAt, Shape
  <2>8. CallsAfter(h[m]) \in Nat /\ CallsAfter(b) \in Nat /\ h[m].base \in Nat /\ b.base \in Nat
    BY <2>2, <2>5, ActivationFields
  <2>9. g[i] = h[m]
    BY <1>1, <2>5
  <2>10. calls >= CallsAfter(h[m]) /\ depth > h[m].base
    BY <2>6, <2>7, <2>8, SMTT(30)
  <2> QED  BY <2>6, <2>9, <2>10
<1> QED  BY <1>1, <1>2, <1>3 DEF KnownAs, g

\* ... and what is known of the other one stays.
LEMMA PopOther ==
  ASSUME NEW h \in Seq(Activation), NEW n \in Nat, NEW m \in 0 .. Len(h), NEW e, NEW free,
         NEW calls, NEW depth, NEW t, \A j \in m + 1 .. Len(h) : h[j].th # t,
         KnownAs(h, n, e, free, calls, depth, t)
  PROVE  KnownAs(SubSeq(h, 1, m), n, e, free, calls, depth, t)
<1> DEFINE g == SubSeq(h, 1, m)
<1>1. Len(g) = m /\ \A j \in 1 .. m : g[j] = h[j]
  OBVIOUS
<1> HIDE DEF g
<1>2. Chained(g, n, e, t, m + 1)
  <2>1. Chained(h, n, e, t, Len(h) + 1)
    BY DEF KnownAs
  <2>2. \A j \in m + 1 .. Len(h) : ~Handles(h[j], t)
    BY DEF Handles
  <2>3. Chained(h, n, e, t, m + 1)
    BY <2>1, <2>2, ChainedDown
  <2> QED  BY <1>1, <2>3, ChainedLocal
<1>3. ASSUME NEW i \in 1 .. m, LastOf(g, t, i) PROVE LastOf(h, t, i)
  BY <1>1, <1>3 DEF LastOf
<1> QED  BY <1>1, <1>2, <1>3 DEF KnownAs, g

-----------------------------------------------------------------------------
(* The running thread and its handler.                                     *)

\* What the invariant says of the state as a whole.
LEMMA StateTypes ==
  ASSUME IInv
  PROVE  /\ host \in Seq(Activation) /\ Len(host) \in Nat
         /\ thrown \in Nat /\ lost \in Nat
         /\ \A i \in 1 .. Len(host) : host[i] \in Activation /\ SoundAt(host, i, thrown, lost)
         /\ Main \in LuaThreads /\ Co \in LuaThreads /\ Main # Co
         /\ \A t \in LuaThreads : /\ ci[t] \in Seq(CallInfos) /\ Len(ci[t]) \in Nat
                                  /\ nny[t] \in Nat /\ nCcalls[t] \in Nat
                                  /\ nCcalls[t] < MaxCCalls /\ errorJmp[t] \in Nat \X Nat
         /\ MaxCCalls \in Nat
<1>1. Types
  BY DEF IInv
<1>2. host \in Seq(Activation) /\ thrown \in Nat /\ lost \in Nat
  BY <1>1, Limits DEF Types
<1>3. Len(host) \in Nat /\ \A i \in 1 .. Len(host) : host[i] \in Activation
  BY <1>2
<1>4. \A i \in 1 .. Len(host) : SoundAt(host, i, thrown, lost)
  BY DEF IInv, SoundHost, SoundStack
<1>5. \A t \in LuaThreads : /\ ci[t] \in Seq(CallInfos) /\ nny[t] \in Nat
                            /\ nCcalls[t] \in 0 .. MaxCCalls - 1 /\ errorJmp[t] \in Nat \X Nat
  BY <1>1 DEF Types
<1>6. \A t \in LuaThreads : /\ Len(ci[t]) \in Nat /\ nCcalls[t] \in Nat /\ nCcalls[t] < MaxCCalls
  BY <1>5, Limits
<1> QED  BY <1>2, <1>3, <1>4, <1>5, <1>6, Limits

\* Counts below the limit do not wrap.
LEMMA ShortIs == \A n \in 0 .. MaxCCalls : Short(n) = n
<1> SUFFICES ASSUME NEW n \in 0 .. MaxCCalls PROVE Short(n) = n
  OBVIOUS
<1>1. n \in Nat /\ n < 65536
  BY Limits
<1>2. (n % 65536) = n
  BY <1>1
<1> QED  BY <1>2 DEF Short

\* One more call is counted, or is one too many.
LEMMA CountsUp ==
  ASSUME IInv, NEW t \in LuaThreads
  PROVE  /\ Short(nCcalls[t] + 1) = nCcalls[t] + 1
         /\ Overflows(t) <=> nCcalls[t] + 1 >= MaxCCalls
<1>1. nCcalls[t] + 1 \in 0 .. MaxCCalls
  <2>1. nCcalls[t] \in Nat /\ nCcalls[t] < MaxCCalls /\ MaxCCalls \in Nat
    BY StateTypes
  <2> QED  BY <2>1
<1>2. Short(nCcalls[t] + 1) = nCcalls[t] + 1
  BY <1>1, ShortIs
<1> QED  BY <1>2 DEF Overflows

\* The thread that runs is that of the innermost activation.
LEMMA Running ==
  ASSUME IInv, NEW t \in LuaThreads, host # <<>>, Thread = t
  PROVE  /\ Len(host) \in Nat \ {0} /\ Len(host) \in 1 .. Len(host)
         /\ Innermost \in Activation /\ Innermost = host[Len(host)] /\ Innermost.th = t
         /\ SoundAt(host, Len(host), thrown, lost)
         /\ LastOf(host, t, Len(host))
         /\ nny[t] = NnyAfter(Innermost) /\ nCcalls[t] >= CallsAfter(Innermost)
         /\ Len(ci[t]) > Innermost.base
         /\ Chained(host, thrown, errorJmp[t], t, Len(host) + 1)
         /\ t = Main => \A i \in 1 .. Len(host) : host[i].th = Main
<1>1. Len(host) \in Nat \ {0} /\ Len(host) \in 1 .. Len(host)
  BY StateTypes
<1>2. Innermost = host[Len(host)] /\ Innermost \in Activation /\ Innermost.th = t
  BY <1>1, StateTypes DEF Innermost, Thread
<1>3. SoundAt(host, Len(host), thrown, lost)
  BY <1>1, StateTypes
<1>4. LastOf(host, t, Len(host))
  BY <1>1, <1>2 DEF LastOf
<1>5. KnownAs(host, thrown, errorJmp[t], nny[t], nCcalls[t], Len(ci[t]), t)
  BY DEF IInv, Known
<1>6. nny[t] = NnyAfter(host[Len(host)]) /\ nCcalls[t] >= CallsAfter(host[Len(host)])
      /\ Len(ci[t]) > host[Len(host)].base /\ Chained(host, thrown, errorJmp[t], t, Len(host) + 1)
  BY <1>1, <1>4, <1>5 DEF KnownAs
<1>7. ASSUME t = Main, NEW i \in 1 .. Len(host) PROVE host[i].th = Main
  <2>1. Shape(host, Len(host)) /\ host[Len(host)].th = Main
    BY <1>2, <1>3, <1>7 DEF SoundAt
  <2>2. i = Len(host) \/ i \in 1 .. Len(host) - 1
    BY <1>1
  <2> QED  BY <2>1, <2>2 DEF Shape
<1> QED  BY <1>1, <1>2, <1>3, <1>4, <1>6, <1>7

\* A handler that an error may jump to is on the C stack: the innermost one of its
\* thread, and what is above it are calls of that thread.
LEMMA LiveHandler ==
  ASSUME IInv, NEW t \in LuaThreads, host # <<>>, Thread = t,
         errorJmp[t] # NoJmp, errorJmp[t][1] = thrown
  PROVE  /\ errorJmp[t][2] \in 1 .. Len(host)
         /\ host[errorJmp[t][2]].th = t /\ host[errorJmp[t][2]].op # "call"
         /\ errorJmp[t] = <<thrown, errorJmp[t][2]>>
         /\ \A k \in errorJmp[t][2] + 1 .. Len(host) : host[k].th = t /\ host[k].op = "call"
<1> DEFINE e == errorJmp[t]
<1>1. Chained(host, thrown, e, t, Len(host) + 1)
  BY Running
<1>2. thrown \in Nat /\ Len(host) \in Nat
  BY StateTypes
<1>3. ~Stale(thrown, e)
  BY <1>2 DEF Stale
<1>4. PICK n \in 1 .. Len(host) : /\ Handles(host[n], t) /\ e = <<thrown, n>>
                                 /\ \A k \in n + 1 .. Len(host) : ~Handles(host[k], t)
  BY <1>1, <1>2, <1>3 DEF Chained
<1>5. ASSUME NEW k \in n + 1 .. Len(host) PROVE host[k].th = t
  <2>1. Shape(host, k) /\ host[k] \in Activation
    BY <1>4, StateTypes DEF SoundAt
  <2>2. host[k].th \in LuaThreads
    BY <2>1, ActivationFields
  <2>3. n \in 1 .. k - 1
    BY <1>4
  <2>4. host[n].th = t
    BY <1>4 DEF Handles
  <2>5. CASE t = Main
    BY <2>5, Running, <1>4
  <2>6. CASE t = Co
    BY <2>1, <2>2, <2>3, <2>4, <2>6, StateTypes DEF Shape, LuaThreads
  <2> QED  BY <2>5, <2>6 DEF LuaThreads
<1>6. ASSUME NEW k \in n + 1 .. Len(host) PROVE host[k].op = "call"
  BY <1>4, <1>5 DEF Handles
<1>7. e[2] = n
  BY <1>4
<1> QED  BY <1>4, <1>5, <1>6, <1>7 DEF Handles

\* Without the framework's protected call there is none.
LEMMA NoHandler ==
  ASSUME IInv, host = <<>>, NEW t \in LuaThreads
  PROVE  errorJmp[t] = NoJmp \/ errorJmp[t][1] < thrown
<1>1. Chained(host, thrown, errorJmp[t], t, Len(host) + 1)
  BY DEF IInv, Known, KnownAs
<1>2. Len(host) = 0
  OBVIOUS
<1> QED  BY <1>1, <1>2 DEF Chained, Stale

\* A thread may get more calls.
LEMMA KnownDeeper ==
  ASSUME NEW h \in Seq(Activation), NEW n, NEW e, NEW free, NEW t,
         NEW calls \in Nat, NEW more \in Nat, more >= calls,
         NEW depth \in Nat, NEW deeper \in Nat, deeper >= depth,
         KnownAs(h, n, e, free, calls, depth, t)
  PROVE  KnownAs(h, n, e, free, more, deeper, t)
<1> SUFFICES ASSUME NEW i \in 1 .. Len(h), LastOf(h, t, i)
             PROVE  free = NnyAfter(h[i]) /\ more >= CallsAfter(h[i]) /\ deeper > h[i].base
  BY DEF KnownAs
<1>1. free = NnyAfter(h[i]) /\ calls >= CallsAfter(h[i]) /\ depth > h[i].base
  BY DEF KnownAs
<1>2. h[i] \in Activation
  OBVIOUS
<1>3. CallsAfter(h[i]) \in Nat /\ h[i].base \in Nat
  BY <1>2, ActivationFields
<1> QED  BY <1>1, <1>3

\* A step that begins the activation a.
LEMMA PushStack ==
  ASSUME IInv, NEW a \in Activation, NEW t \in LuaThreads, a.th = t,
         host' = Append(host, a), thrown' = thrown, lost' = lost,
         SoundAt(Append(host, a), Len(host) + 1, thrown, lost),
         nCcalls' = [nCcalls EXCEPT ![t] = CallsAfter(a)],
         nny' = [nny EXCEPT ![t] = NnyAfter(a)],
         errorJmp' = IF a.op = "call" THEN errorJmp
                     ELSE [errorJmp EXCEPT ![t] = <<thrown, Len(host) + 1>>],
         \A u \in LuaThreads : Len(ci'[u]) \in Nat /\ (u # t => Len(ci'[u]) >= Len(ci[u])),
         Len(ci'[t]) > a.base
  PROVE  /\ host' \in Seq(Activation) /\ SoundHost'
         /\ \A u \in LuaThreads : Known(u)'
<1>1. host' \in Seq(Activation) /\ SoundHost'
  <2>1. SoundStack(host, thrown, lost)
    BY DEF IInv, SoundHost
  <2>2. SoundStack(Append(host, a), thrown, lost)
    BY <2>1, StateTypes, PushSound
  <2> QED  BY <2>2, StateTypes DEF SoundHost
<1>2. ASSUME NEW u \in LuaThreads PROVE Known(u)'
  <2>1. KnownAs(host, thrown, errorJmp[u], nny[u], nCcalls[u], Len(ci[u]), u)
    BY DEF IInv, Known
  <2>2. Types
    BY DEF IInv
  <2>3. CallsAfter(a) \in Nat /\ a.base \in Nat
    BY ActivationFields
  <2>4. CASE u = t
    <3>1. nny'[u] = NnyAfter(a) /\ nCcalls'[u] = CallsAfter(a)
      BY <2>2, <2>4 DEF Types
    <3>2. IF a.op = "call" THEN Chained(host, thrown, errorJmp'[u], u, Len(host) + 1)
                           ELSE errorJmp'[u] = <<thrown, Len(host) + 1>>
      BY <2>1, <2>2, <2>4 DEF Types, KnownAs
    <3>3. KnownAs(Append(host, a), thrown, errorJmp'[u], nny'[u], nCcalls'[u], Len(ci'[u]), a.th)
      <4>1. /\ nny'[u] = NnyAfter(a) /\ nCcalls'[u] \in Nat /\ nCcalls'[u] >= CallsAfter(a)
            /\ Len(ci'[u]) \in Nat /\ Len(ci'[u]) > a.base
        BY <2>3, <2>4, <3>1
      <4>2. IF a.op = "call" THEN Chained(host, thrown, errorJmp'[u], a.th, Len(host) + 1)
                             ELSE errorJmp'[u] = <<thrown, Len(host) + 1>>
        BY <2>4, <3>2
      <4>3. host \in Seq(Activation) /\ thrown \in Nat
        BY StateTypes
      <4> QED  BY <4>1, <4>2, <4>3, PushOwn
    <3> QED  BY <2>4, <3>3 DEF Known
  <2>5. CASE u # t
    <3>1. nny'[u] = nny[u] /\ nCcalls'[u] = nCcalls[u] /\ errorJmp'[u] = errorJmp[u]
      BY <2>2, <2>5 DEF Types
    <3>2. Len(ci'[u]) >= Len(ci[u]) /\ Len(ci'[u]) \in Nat /\ Len(ci[u]) \in Nat
          /\ nCcalls[u] \in Nat /\ nCcalls[u] >= nCcalls[u]
      BY <2>5, StateTypes
    <3>3. KnownAs(host, thrown, errorJmp[u], nny[u], nCcalls[u], Len(ci'[u]), u)
      BY <2>1, <3>2, KnownDeeper, StateTypes
    <3>4. KnownAs(Append(host, a), thrown, errorJmp[u], nny[u], nCcalls[u], Len(ci'[u]), u)
      BY <2>5, <3>3, PushOther, StateTypes
    <3> QED  BY <3>1, <3>4 DEF Known
  <2> QED  BY <2>4, <2>5
<1> QED  BY <1>1, <1>2

\* A step that ends the activations of the running thread above the place m.
LEMMA PopStack ==
  ASSUME IInv, NEW t \in LuaThreads, NEW m \in 0 .. Len(host) - 1,
         \A k \in m + 1 .. Len(host) : host[k].th = t,
         host' = Under(host, m), thrown' = thrown, lost' \in Nat, lost' = lost \/ m = 0,
         NEW calls \in Nat, calls >= CallsAfter(host[m + 1]) - 1,
         nCcalls' = [nCcalls EXCEPT ![t] = calls],
         nny' = [nny EXCEPT ![t] = host[m + 1].nny],
         Chained(host, thrown, errorJmp'[t], t, m + 1),
         \A u \in LuaThreads \ {t} : errorJmp'[u] = errorJmp[u] /\ ci'[u] = ci[u],
         Len(ci'[t]) \in Nat, Len(ci'[t]) >= host[m + 1].base
  PROVE  /\ host' \in Seq(Activation) /\ Len(host') = m
         /\ \A i \in 1 .. m : host'[i] = host[i]
         /\ SoundHost' /\ \A u \in LuaThreads : Known(u)'
<1>1. SoundStack(host, thrown, lost)
  BY DEF IInv, SoundHost
<1>2. m + 1 \in 1 .. Len(host) /\ m \in 0 .. Len(host)
  BY StateTypes
<1>3. /\ host' \in Seq(Activation) /\ Len(host') = m
      /\ \A i \in 1 .. m : host'[i] = host[i]
      /\ SoundStack(host', thrown, lost)
  BY <1>1, <1>2, StateTypes, PopSound DEF Under
<1>4. SoundHost'
  BY <1>3 DEF SoundHost, SoundStack
<1>5. ASSUME NEW u \in LuaThreads PROVE Known(u)'
  <2>1. KnownAs(host, thrown, errorJmp[u], nny[u], nCcalls[u], Len(ci[u]), u)
    BY DEF IInv, Known
  <2>2. Types
    BY DEF IInv
  <2>3. CASE u = t
    <3>1. nny'[u] = host[m + 1].nny /\ nCcalls'[u] = calls
      BY <2>2, <2>3 DEF Types
    <3>2. host[m + 1] \in Activation /\ host[m + 1].th = u
      BY <1>2, <2>3, StateTypes
    <3>3. KnownAs(SubSeq(host, 1, m), thrown, errorJmp'[u], host[m + 1].nny, calls, Len(ci'[u]),
                  host[m + 1].th)
      BY <1>1, <2>3, <3>2, PopOwn, StateTypes, ZenonT(20)
    <3> QED  BY <3>1, <3>2, <3>3 DEF Known, Under
  <2>4. CASE u # t
    <3>1. nny'[u] = nny[u] /\ nCcalls'[u] = nCcalls[u] /\ errorJmp'[u] = errorJmp[u]
          /\ ci'[u] = ci[u]
      BY <2>2, <2>4 DEF Types
    <3>2. KnownAs(SubSeq(host, 1, m), thrown, errorJmp[u], nny[u], nCcalls[u], Len(ci[u]), u)
      BY <1>2, <2>1, <2>4, PopOther, StateTypes
    <3> QED  BY <3>1, <3>2 DEF Known, Under
  <2> QED  BY <2>3, <2>4
<1> QED  BY <1>3, <1>4, <1>5

-----------------------------------------------------------------------------
(* Activations end.                                                        *)

\* Below a place of a sound stack: the bases of a thread grow, and what is below the
\* resumption of the coroutine is the main thread's.
LEMMA BelowPlace ==
  ASSUME IInv, NEW i \in 1 .. Len(host), NEW j \in 1 .. i - 1
  PROVE  /\ host[j] \in Activation /\ host[i] \in Activation /\ j \in 1 .. Len(host)
         /\ host[j].base \in Nat /\ host[i].base \in Nat
         /\ host[j].th = host[i].th => host[j].base < host[i].base
         /\ host[i].op = "resume" => host[j].th = Main
<1>1. Shape(host, i)
  BY StateTypes DEF SoundAt
<1>2. host[i] \in Activation /\ j \in 1 .. Len(host) /\ host[j] \in Activation
  BY StateTypes
<1>3. host[j].base \in Nat /\ host[i].base \in Nat
  BY <1>2, ActivationFields
<1> QED  BY <1>1, <1>2, <1>3 DEF Shape

\* luaD_call or luaD_pcall ends with all that is above it, by a return or by an error:
\* the calls of its thread are those below it, where a yieldable pcall may be finished.
LEMMA LeavePCalls ==
  ASSUME IInv, NEW t \in LuaThreads, NEW m \in 0 .. Len(host) - 1,
         \A k \in m + 1 .. Len(host) : host[k].th = t,
         Len(host') = m, \A i \in 1 .. m : host'[i] = host[i],
         \A u \in LuaThreads \ {t} : ci'[u] = ci[u],
         Len(ci'[t]) = host[m + 1].base, host[m + 1].base < Len(ci[t]),
         \A p \in 1 .. Len(ci'[t]) :
           ci'[t][p] = ci[t][p] \/ (p = Len(ci'[t]) /\ ci[t][p] = "ypcall" /\ ci'[t][p] = "pcall")
  PROVE  PCallsKnown'
<1> DEFINE b == host[m + 1]
<1>1. m + 1 \in 1 .. Len(host) /\ b.th = t /\ b.base \in Nat /\ Len(ci[t]) \in Nat
  <2>1. m + 1 \in 1 .. Len(host) /\ Len(ci[t]) \in Nat /\ Len(host) \in Nat
    BY StateTypes
  <2>2. b.th = t
    BY <2>1
  <2>3. b \in Activation
    BY <2>1, StateTypes
  <2> QED  BY <2>1, <2>2, <2>3, ActivationFields
<1>2. ASSUME NEW i \in 1 .. m PROVE PCallAt(i)'
  <2>1. i \in 1 .. Len(host) /\ PCallAt(i) /\ host'[i] = host[i]
    BY <1>1 DEF IInv, PCallsKnown
  <2>2. host[i] \in Activation /\ host[i].th \in LuaThreads /\ host[i].base \in Nat
    BY <2>1, StateTypes, ActivationFields
  <2>3. CASE host[i].th # t
    <3>1. ci'[host[i].th] = ci[host[i].th]
      BY <2>2, <2>3
    <3> QED  BY <2>1, <3>1 DEF PCallAt
  <2>4. CASE host[i].th = t
    <3>1. host[i].base < b.base
      <4>1. i \in 1 .. m + 1 - 1
        OBVIOUS
      <4> QED  BY <1>1, <2>4, <4>1, BelowPlace
    <3>2. SUFFICES ASSUME host[i].op = "pcall"
                   PROVE  /\ host[i].by = "script" => host[i].base > 0 /\ ci'[t][host[i].base] = "pcall"
                          /\ \A p \in host[i].base + 1 .. Len(ci'[t]) : ci'[t][p] # "ypcall"
      BY <2>1, <2>4 DEF PCallAt
    <3>3. /\ host[i].by = "script" => host[i].base > 0 /\ ci[t][host[i].base] = "pcall"
          /\ \A p \in host[i].base + 1 .. Len(ci[t]) : ci[t][p] # "ypcall"
      BY <2>1, <2>4, <3>2 DEF PCallAt
    <3>4. ASSUME host[i].by = "script" PROVE host[i].base > 0 /\ ci'[t][host[i].base] = "pcall"
      <4>1. host[i].base \in 1 .. Len(ci'[t])
        BY <1>1, <2>2, <3>1, <3>3, <3>4
      <4> QED  BY <3>3, <3>4, <4>1
    <3>5. ASSUME NEW p \in host[i].base + 1 .. Len(ci'[t]) PROVE ci'[t][p] # "ypcall"
      <4>1. p \in 1 .. Len(ci'[t]) /\ p \in host[i].base + 1 .. Len(ci[t])
        BY <1>1, <2>2, SMTT(30)
      <4> QED  BY <3>3, <4>1, SMTT(30)
    <3>6. \A p \in host[i].base + 1 .. Len(ci'[t]) : ci'[t][p] # "ypcall"
      BY <3>5
    <3> QED  BY <3>4, <3>6
  <2> QED  BY <2>3, <2>4
<1>3. ASSUME NEW u \in LuaThreads PROVE PCallHandled(u)'
  <2> SUFFICES ASSUME NEW p \in 1 .. Len(ci'[u]) - 1, NEW k \in 1 .. Len(host'),
                      ci'[u][p] = "pcall", host'[k].th = u, host'[k].base < p
               PROVE  \E i \in 1 .. Len(host') :
                        host'[i].th = u /\ host'[i].op = "pcall" /\ host'[i].base = p
    BY DEF PCallHandled
  <2>1. k \in 1 .. m /\ k \in 1 .. Len(host) /\ host[k].th = u /\ host[k].base < p
    BY <1>1
  <2>2. p \in 1 .. Len(ci[u]) - 1 /\ ci[u][p] = "pcall"
    <3>1. CASE u # t
      BY <3>1
    <3>2. CASE u = t
      <4>1. p \in 1 .. b.base - 1 /\ p \in 1 .. Len(ci'[t]) /\ p # Len(ci'[t])
        BY <1>1, <3>2
      <4>2. ci'[t][p] = ci[t][p]
        BY <4>1
      <4> QED  BY <1>1, <3>2, <4>1, <4>2
    <3> QED  BY <3>1, <3>2
  <2>3. PCallHandled(u)
    BY DEF IInv, PCallsKnown
  <2>4. PICK i \in 1 .. Len(host) : host[i].th = u /\ host[i].op = "pcall" /\ host[i].base = p
    BY <2>1, <2>2, <2>3 DEF PCallHandled
  <2>5. i \in 1 .. m
    <3>1. CASE u # t
      BY <2>4, <3>1, StateTypes
    <3>2. CASE u = t
      <4>1. p < b.base
        BY <1>1, <3>2
      <4>2. i # m + 1
        BY <1>1, <2>4, <4>1
      <4>3. ASSUME i > m + 1 PROVE FALSE
        <5>1. m + 1 \in 1 .. i - 1
          BY <4>3
        <5>2. host[m + 1].th = host[i].th
          BY <1>1, <2>4, <3>2
        <5>3. host[m + 1].base < host[i].base
          BY <5>1, <5>2, BelowPlace
        <5> QED  BY <1>1, <2>4, <4>1, <5>3
      <4> QED  BY <4>2, <4>3
    <3> QED  BY <3>1, <3>2
  <2> QED  BY <2>4, <2>5
<1> QED  BY <1>2, <1>3 DEF PCallsKnown

\* The whole invariant after such a step, which gives back what the activation has saved.
LEMMA LeaveCall ==
  ASSUME IInv, Types', NEW t \in LuaThreads, NEW m \in 0 .. Len(host) - 1,
         \A k \in m + 1 .. Len(host) : host[k].th = t, host[m + 1].op # "resume",
         host' = Under(host, m), status' = status, thrown' = thrown,
         lost' = lost \/ m = 0, m = 0 => nCcalls'[t] = lost',
         NEW calls \in Nat, calls >= host[m + 1].nCcalls,
         nCcalls' = [nCcalls EXCEPT ![t] = calls],
         nny' = [nny EXCEPT ![t] = host[m + 1].nny],
         Chained(host, thrown, errorJmp'[t], t, m + 1),
         \A u \in LuaThreads \ {t} : errorJmp'[u] = errorJmp[u] /\ ci'[u] = ci[u],
         Len(ci'[t]) = host[m + 1].base, host[m + 1].base < Len(ci[t]),
         \A p \in 1 .. Len(ci'[t]) :
           ci'[t][p] = ci[t][p] \/ (p = Len(ci'[t]) /\ ci[t][p] = "ypcall" /\ ci'[t][p] = "pcall")
  PROVE  IInv'
<1> DEFINE b == host[m + 1]
<1>1. m + 1 \in 1 .. Len(host) /\ b \in Activation /\ b.th = t /\ SoundAt(host, m + 1, thrown, lost)
  <2>1. m + 1 \in 1 .. Len(host)
    BY StateTypes
  <2> QED  BY <2>1, StateTypes
<1>2. b.base \in Nat /\ b.nCcalls \in Nat /\ b.nny \in Nat /\ CallsAfter(b) = b.nCcalls + 1
  BY <1>1, ActivationFields DEF CallsAfter
<1>3. /\ host' \in Seq(Activation) /\ Len(host') = m
      /\ \A i \in 1 .. m : host'[i] = host[i]
      /\ SoundHost' /\ \A u \in LuaThreads : Known(u)'
  <2>1. lost' \in Nat
    BY DEF Types
  <2>2. calls >= CallsAfter(b) - 1
    BY <1>2
  <2>3. Len(ci'[t]) \in Nat /\ Len(ci'[t]) >= b.base
    BY <1>2
  <2> QED  BY <2>1, <2>2, <2>3, PopStack
<1>4. MainKnown'
  <2>1. MainKnown /\ Types
    BY DEF IInv
  <2>2. CASE t = Main
    <3>1. Counted(host, m + 1, thrown, lost)
      BY <1>1 DEF SoundAt
    <3>2. nny'[Main] = b.nny /\ nCcalls'[Main] = calls
      BY <2>1, <2>2 DEF Types
    <3>3. nny'[Main] >= 1 + thrown' /\ nny'[Main] <= 1 + nCcalls'[Main]
      <4>1. b.nny >= 1 + thrown /\ b.nny <= 1 + b.nCcalls
        BY <1>1, <2>2, <3>1 DEF Counted
      <4> QED  BY <1>2, <3>2, <4>1, SMTT(30)
    <3>4. ASSUME host' = <<>>
          PROVE  nCcalls'[Main] = lost' /\ (thrown' = 0 => nny'[Main] = 1 /\ ci'[Main] = <<>>)
      <4>1. m = 0
        BY <1>3, <3>4
      <4>2. nCcalls'[Main] = lost'
        BY <2>2, <4>1
      <4>3. ASSUME thrown = 0 PROVE nny'[Main] = 1 /\ ci'[Main] = <<>>
        <5>1. b.nny = 1 /\ b.base = 0
          BY <3>1, <4>1, <4>3 DEF Counted
        <5>2. ci'[Main] \in Seq(CallInfos) /\ Len(ci'[Main]) = 0
          BY <2>2, <5>1 DEF Types, LuaThreads
        <5> QED  BY <3>2, <5>1, <5>2
      <4> QED  BY <4>2, <4>3
    <3>5. \A p \in 1 .. Len(ci'[Main]) : ci'[Main][p] # "ypcall"
      <4>1. \A p \in 1 .. Len(ci[Main]) : ci[Main][p] # "ypcall"
        BY <2>1 DEF MainKnown
      <4>2. \A p \in 1 .. Len(ci'[Main]) : p \in 1 .. Len(ci[Main])
        BY <1>2, <2>2, StateTypes
      <4> QED  BY <2>2, <4>1, <4>2, SMTT(30)
    <3> QED  BY <2>1, <3>3, <3>4, <3>5 DEF MainKnown
  <2>3. CASE t # Main
    <3>1. nny'[Main] = nny[Main] /\ nCcalls'[Main] = nCcalls[Main] /\ ci'[Main] = ci[Main]
      BY <2>1, <2>3 DEF Types, LuaThreads
    <3>2. m > 0 /\ lost' = lost
      <4>1. m + 1 = 1 => b.th = Main
        BY <1>1 DEF SoundAt, Shape
      <4> QED  BY <1>1, <2>3, <4>1
    <3>3. host' # <<>>
      BY <1>3, <3>2
    <3> QED  BY <2>1, <3>1, <3>3 DEF MainKnown
  <2> QED  BY <2>2, <2>3
<1>5. CoKnown'
  <2>1. CoKnown
    BY DEF IInv
  <2>2. ASSUME NEW i \in 1 .. Len(host'), host'[i].th = Co PROVE status'[Co] = "ok"
    <3>1. i \in 1 .. Len(host) /\ host[i].th = Co
      BY <1>1, <1>3, <2>2
    <3> QED  BY <2>1, <3>1 DEF CoKnown
  <2>3. ASSUME status'[Co] = "yield"
        PROVE  Len(ci'[Co]) >= 2 /\ \A p \in 1 .. Len(ci'[Co]) : ci'[Co][p] # "pcall"
    <3>1. t # Co
      BY <1>1, <2>1, <2>3 DEF CoKnown
    <3> QED  BY <2>1, <2>3, <3>1, StateTypes DEF CoKnown
  <2> QED  BY <2>2, <2>3 DEF CoKnown
<1>6. PCallsKnown'
  BY <1>3, LeavePCalls
<1> QED  BY <1>3, <1>4, <1>5, <1>6 DEF IInv

\* lua_resume ends, by a return, an error or a yield of the coroutine.
LEMMA LeaveCoroutine ==
  ASSUME IInv, Types', NEW m \in 0 .. Len(host) - 1,
         \A k \in m + 1 .. Len(host) : host[k].th = Co, host[m + 1].op = "resume",
         host' = Under(host, m), thrown' = thrown, lost' = lost,
         nCcalls' = [nCcalls EXCEPT ![Co] = host[m + 1].nCcalls - 1],
         nny' = [nny EXCEPT ![Co] = host[m + 1].nny],
         errorJmp' = [errorJmp EXCEPT ![Co] = host[m + 1].errorJmp],
         ci'[Main] = ci[Main], status'[Main] = status[Main],
         status'[Co] = "yield" =>
           Len(ci'[Co]) >= 2 /\ \A p \in 1 .. Len(ci'[Co]) : ci'[Co][p] # "pcall"
  PROVE  IInv'
<1> DEFINE b == host[m + 1]
<1>1. m + 1 \in 1 .. Len(host) /\ b \in Activation /\ b.th = Co /\ SoundAt(host, m + 1, thrown, lost)
  <2>1. m + 1 \in 1 .. Len(host)
    BY StateTypes
  <2> QED  BY <2>1, StateTypes
<1>2. b.base = 0 /\ b.nCcalls \in Nat /\ CallsAfter(b) = b.nCcalls /\ m > 0
  <2>1. Shape(host, m + 1)
    BY <1>1 DEF SoundAt
  <2> QED  BY <1>1, <2>1, ActivationFields DEF CallsAfter, Shape
<1>3. b.nCcalls - 1 \in Nat
  <2>1. CallsAfter(b) >= m + 1 + lost /\ lost \in Nat
    BY <1>1, StateTypes DEF SoundAt, Counted
  <2> QED  BY <1>2, <2>1
<1>4. /\ host' \in Seq(Activation) /\ Len(host') = m
      /\ \A i \in 1 .. m : host'[i] = host[i]
      /\ SoundHost' /\ \A u \in LuaThreads : Known(u)'
  <2>1. Types /\ Co \in LuaThreads /\ lost' \in Nat
    BY StateTypes DEF IInv
  <2>2. Chained(host, thrown, errorJmp'[Co], Co, m + 1)
    <3>1. Chained(host, thrown, b.errorJmp, Co, m + 1)
      BY <1>1 DEF SoundAt
    <3> QED  BY <2>1, <3>1 DEF Types
  <2>3. \A u \in LuaThreads \ {Co} : errorJmp'[u] = errorJmp[u] /\ ci'[u] = ci[u]
    BY <2>1 DEF Types, LuaThreads
  <2>4. Len(ci'[Co]) \in Nat /\ Len(ci'[Co]) >= b.base
    <3>1. ci'[Co] \in Seq(CallInfos)
      BY <2>1 DEF Types
    <3> QED  BY <1>2, <3>1
  <2>5. b.nCcalls - 1 >= CallsAfter(b) - 1
    BY <1>2
  <2> QED  BY <1>3, <2>1, <2>2, <2>3, <2>4, <2>5, PopStack
<1>5. \A i \in 1 .. m : host'[i].th = Main
  <2>1. \A i \in 1 .. m : i \in 1 .. m + 1 - 1
    OBVIOUS
  <2> QED  BY <1>1, <1>4, <2>1, BelowPlace
<1>6. MainKnown'
  <2>1. MainKnown /\ Types /\ Main # Co /\ Main \in LuaThreads
    BY StateTypes DEF IInv
  <2>2. nny'[Main] = nny[Main] /\ nCcalls'[Main] = nCcalls[Main]
    BY <2>1 DEF Types
  <2>3. host' # <<>>
    BY <1>2, <1>4
  <2> QED  BY <2>1, <2>2, <2>3 DEF MainKnown
<1>7. CoKnown'
  BY <1>4, <1>5, StateTypes DEF CoKnown
<1>8. PCallsKnown'
  <2>1. ASSUME NEW i \in 1 .. m PROVE PCallAt(i)'
    <3>1. i \in 1 .. Len(host) /\ host'[i] = host[i] /\ host[i].th = Main
      BY <1>1, <1>4, <1>5
    <3>2. PCallAt(i)
      BY <3>1 DEF IInv, PCallsKnown
    <3> QED  BY <3>1, <3>2 DEF PCallAt
  <2>2. PCallHandled(Co)'
    BY <1>4, <1>5, StateTypes DEF PCallHandled
  <2>3. PCallHandled(Main)'
    <3> SUFFICES ASSUME NEW p \in 1 .. Len(ci'[Main]) - 1, NEW k \in 1 .. Len(host'),
                        ci'[Main][p] = "pcall", host'[k].th = Main, host'[k].base < p
                 PROVE  \E i \in 1 .. Len(host') :
                          host'[i].th = Main /\ host'[i].op = "pcall" /\ host'[i].base = p
      BY DEF PCallHandled
    <3>1. k \in 1 .. Len(host) /\ host[k].th = Main /\ host[k].base < p
      BY <1>1, <1>4
    <3>2. PCallHandled(Main)
      BY StateTypes DEF IInv, PCallsKnown
    <3>3. PICK i \in 1 .. Len(host) :
            host[i].th = Main /\ host[i].op = "pcall" /\ host[i].base = p
      BY <3>1, <3>2 DEF PCallHandled
    <3>4. i \in 1 .. m
      BY <3>3, StateTypes
    <3> QED  BY <1>4, <3>3, <3>4
  <2> QED  BY <1>4, <2>1, <2>2, <2>3 DEF PCallsKnown, LuaThreads
<1> QED  BY <1>4, <1>6, <1>7, <1>8 DEF IInv

\* The calls s that an error is about to end: those of the thread, or one more that the
\* error prevents.
Ends(t, s) ==
  /\ s \in Seq(CallInfos)
  /\ \/ s = ci[t]
     \/ /\ ci[t][Len(ci[t])] = "lua"
        /\ s = Append(ci[t], "yield") \/ (s = Append(ci[t], "ypcall") /\ nny[t] = 0)

\* The calls an error is about to end begin with those of the thread.
LEMMA EndsFacts ==
  ASSUME IInv, NEW t \in LuaThreads, NEW s, Ends(t, s)
  PROVE  /\ s \in Seq(CallInfos) /\ Len(s) \in Nat
         /\ Len(s) = Len(ci[t]) \/ (Len(s) = Len(ci[t]) + 1 /\ ci[t][Len(ci[t])] = "lua")
         /\ \A p \in 1 .. Len(ci[t]) : s[p] = ci[t][p]
         /\ t = Main => \A p \in 1 .. Len(s) : s[p] # "ypcall"
<1>1. ci[t] \in Seq(CallInfos) /\ Len(ci[t]) \in Nat
  BY StateTypes
<1>2. MainKnown
  BY DEF IInv
<1>3. CASE s = ci[t]
  BY <1>1, <1>2, <1>3 DEF MainKnown, Ends
<1>4. CASE ci[t][Len(ci[t])] = "lua" /\ s = Append(ci[t], "yield")
  BY <1>1, <1>2, <1>4 DEF MainKnown, Ends
<1>5. CASE ci[t][Len(ci[t])] = "lua" /\ s = Append(ci[t], "ypcall") /\ nny[t] = 0
  <2>1. t # Main
    BY <1>2, <1>5, StateTypes DEF MainKnown
  <2> QED  BY <1>1, <1>5, <2>1 DEF Ends
<1> QED  BY <1>3, <1>4, <1>5 DEF Ends

\* An error that lua_resume catches for a pcall in the coroutine: all above it goes.
LEMMA Recovered ==
  ASSUME IInv, Types', host # <<>>, Thread = Co, NEW s, Ends(Co, s),
         NEW n \in 1 .. Len(host), host[n].op = "resume",
         \A k \in n + 1 .. Len(host) : host[k].th = Co /\ host[k].op = "call",
         NEW f \in 1 .. Len(s),
         ci' = [ci EXCEPT ![Co] = Append(Under(s, f - 1), "pcall")],
         nCcalls' = [nCcalls EXCEPT ![Co] = host[n].nCcalls],
         nny' = [nny EXCEPT ![Co] = 0],
         host' = Under(host, n), UNCHANGED <<status, errorJmp, thrown, lost>>
  PROVE  IInv'
<1> DEFINE b == host[n]
<1>1. b \in Activation /\ b.th = Co /\ b.base = 0
  <2>1. Shape(host, n) /\ b \in Activation
    BY StateTypes DEF SoundAt
  <2> QED  BY <2>1 DEF Shape
<1>2. /\ host' \in Seq(Activation) /\ Len(host') = n
      /\ \A i \in 1 .. n : host'[i] = host[i]
      /\ SoundStack(host', thrown, lost)
  <2>1. SoundStack(host, thrown, lost) /\ host \in Seq(Activation) /\ n \in 0 .. Len(host)
    BY StateTypes DEF IInv, SoundHost
  <2> QED  BY <2>1, PopSound DEF Under
<1>3. SoundHost'
  BY <1>2 DEF SoundHost
<1>4. Main \in LuaThreads /\ Co \in LuaThreads /\ Main # Co /\ Types
  BY StateTypes DEF IInv
<1>5. /\ ci'[Main] = ci[Main] /\ nny'[Main] = nny[Main] /\ nCcalls'[Main] = nCcalls[Main]
      /\ nny'[Co] = 0 /\ nCcalls'[Co] = b.nCcalls /\ errorJmp' = errorJmp
      /\ ci'[Co] = Append(Under(s, f - 1), "pcall")
  BY <1>4 DEF Types
<1>6. /\ Len(ci'[Co]) = f
      /\ \A p \in 1 .. f - 1 : ci'[Co][p] = s[p]
  <2>1. s \in Seq(CallInfos) /\ f - 1 \in 0 .. Len(s)
    BY DEF Ends
  <2>2. Under(s, f - 1) \in Seq(CallInfos) /\ Len(Under(s, f - 1)) = f - 1
        /\ \A p \in 1 .. f - 1 : Under(s, f - 1)[p] = s[p]
    BY <2>1 DEF Under
  <2> DEFINE r == Under(s, f - 1)
  <2>3. r \in Seq(CallInfos) /\ Len(r) = f - 1 /\ f \in Nat /\ \A p \in 1 .. f - 1 : r[p] = s[p]
    BY <2>1, <2>2
  <2> HIDE DEF r
  <2>4. Len(Append(r, "pcall")) = f /\ \A p \in 1 .. f - 1 : Append(r, "pcall")[p] = r[p]
    BY <2>3
  <2> QED  BY <1>5, <2>3, <2>4 DEF r
<1>7. \A i \in 1 .. n - 1 : host[i].th = Main
  BY BelowPlace
<1>8. Known(Main)'
  <2>1. KnownAs(host, thrown, errorJmp[Main], nny[Main], nCcalls[Main], Len(ci[Main]), Main)
    BY <1>4 DEF IInv, Known
  <2>2. \A j \in n + 1 .. Len(host) : host[j].th # Main
    BY <1>4
  <2>3. host \in Seq(Activation) /\ thrown \in Nat /\ n \in 0 .. Len(host)
    BY StateTypes
  <2>4. KnownAs(SubSeq(host, 1, n), thrown, errorJmp[Main], nny[Main], nCcalls[Main],
                Len(ci[Main]), Main)
    BY <2>1, <2>2, <2>3, PopOther
  <2> QED  BY <1>5, <2>4 DEF Known, Under
<1>9. Known(Co)'
  <2>1. Chained(host, thrown, errorJmp[Co], Co, Len(host) + 1)
    BY <1>4 DEF IInv, Known, KnownAs
  <2>2. \A j \in n + 1 .. Len(host) : ~Handles(host[j], Co)
    BY DEF Handles
  <2>3. Len(host) \in Nat /\ n \in 0 .. Len(host)
    BY StateTypes
  <2>4. Chained(host, thrown, errorJmp[Co], Co, n + 1)
    BY <2>1, <2>2, <2>3, ChainedDown
  <2>5. Chained(host', thrown', errorJmp'[Co], Co, Len(host') + 1)
    <3>1. n + 1 \in Nat /\ \A j \in 1 .. n + 1 - 1 : host'[j] = host[j]
      BY <1>2
    <3>2. Chained(host', thrown, errorJmp[Co], Co, n + 1)
      BY <2>4, <3>1, ChainedLocal
    <3> QED  BY <1>2, <1>5, <3>2
  <2>6. ASSUME NEW i \in 1 .. Len(host'), LastOf(host', Co, i)
        PROVE  /\ nny'[Co] = NnyAfter(host'[i]) /\ nCcalls'[Co] >= CallsAfter(host'[i])
               /\ Len(ci'[Co]) > host'[i].base
    <3>1. i = n
      BY <1>1, <1>2, <2>6 DEF LastOf
    <3>2. NnyAfter(b) = 0 /\ CallsAfter(b) = b.nCcalls /\ b.nCcalls \in Nat
      BY <1>1, ActivationFields DEF NnyAfter, CallsAfter
    <3> QED  BY <1>1, <1>2, <1>5, <1>6, <3>1, <3>2
  <2> QED  BY <2>5, <2>6 DEF Known, KnownAs
<1>10. MainKnown'
  <2>1. host' # <<>>
    BY <1>2
  <2> QED  BY <1>5, <2>1 DEF IInv, MainKnown
<1>11. CoKnown'
  <2>1. status[Co] = "ok"
    BY <1>1 DEF IInv, CoKnown
  <2> QED  BY <2>1 DEF CoKnown
<1>12. PCallsKnown'
  <2>1. ASSUME NEW i \in 1 .. n PROVE PCallAt(i)'
    <3>1. i \in 1 .. Len(host) /\ host'[i] = host[i]
      BY <1>2, StateTypes
    <3>2. PCallAt(i)
      BY <3>1 DEF IInv, PCallsKnown
    <3>3. i = n \/ host[i].th = Main
      BY <1>7
    <3> QED  BY <1>5, <3>1, <3>2, <3>3, ZenonT(40) DEF PCallAt
  <2>2. PCallHandled(Co)'
    <3> SUFFICES ASSUME NEW p \in 1 .. Len(ci'[Co]) - 1, ci'[Co][p] = "pcall" PROVE FALSE
      BY DEF PCallHandled
    <3>1. p \in 1 .. f - 1 /\ s[p] = "pcall"
      BY <1>6
    <3>2. p \in 1 .. Len(ci[Co]) - 1 /\ ci[Co][p] = "pcall"
      <4>1. Len(s) = Len(ci[Co]) \/ (Len(s) = Len(ci[Co]) + 1 /\ ci[Co][Len(ci[Co])] = "lua")
        BY <1>4, EndsFacts
      <4>2. \A q \in 1 .. Len(ci[Co]) : s[q] = ci[Co][q]
        BY <1>4, EndsFacts
      <4>3. Len(ci[Co]) \in Nat /\ p \in 1 .. Len(ci[Co])
        BY <1>4, <3>1, <4>1, StateTypes
      <4> QED  BY <3>1, <4>1, <4>2, <4>3, SMTT(30)
    <3>3. b.base < p
      BY <1>1
    <3>4. PCallHandled(Co)
      BY <1>4 DEF IInv, PCallsKnown
    <3>5. PICK i \in 1 .. Len(host) : host[i].th = Co /\ host[i].op = "pcall"
      BY <1>1, <3>2, <3>3, <3>4 DEF PCallHandled
    <3>6. i < n \/ i = n \/ i \in n + 1 .. Len(host)
      OBVIOUS
    <3> QED  BY <1>4, <1>7, <3>5, <3>6
  <2>3. PCallHandled(Main)'
    <3> SUFFICES ASSUME NEW p \in 1 .. Len(ci'[Main]) - 1, NEW k \in 1 .. Len(host'),
                        ci'[Main][p] = "pcall", host'[k].th = Main, host'[k].base < p
                 PROVE  \E i \in 1 .. Len(host') :
                          host'[i].th = Main /\ host'[i].op = "pcall" /\ host'[i].base = p
      BY DEF PCallHandled
    <3>1. k \in 1 .. Len(host) /\ host[k].th = Main /\ host[k].base < p
      BY <1>2, StateTypes, SMTT(30)
    <3>2. PCallHandled(Main)
      BY StateTypes DEF IInv, PCallsKnown
    <3>3. PICK i \in 1 .. Len(host) :
            host[i].th = Main /\ host[i].op = "pcall" /\ host[i].base = p
      BY <1>5, <3>1, <3>2 DEF PCallHandled
    <3>4. i \in 1 .. n
      BY <1>4, <3>3, StateTypes
    <3> QED  BY <1>2, <3>3, <3>4
  <2> QED  BY <1>2, <2>1, <2>2, <2>3 DEF PCallsKnown, LuaThreads
<1> QED  BY <1>3, <1>8, <1>9, <1>10, <1>11, <1>12 DEF IInv, LuaThreads

\* The interpreter as it was.
LEMMA Unmoved ==
  ASSUME IInv, Types', UNCHANGED <<ci, nCcalls, nny, status, errorJmp, host, thrown, lost>>
  PROVE  IInv'
<1>1. SoundHost' /\ PCallsKnown'
  BY DEF IInv, SoundHost, PCallsKnown, PCallAt, PCallHandled
<1>2. MainKnown' /\ CoKnown'
  BY DEF IInv, MainKnown, CoKnown
<1>3. \A t \in LuaThreads : Known(t)'
  BY DEF IInv, Known
<1> QED  BY <1>1, <1>2, <1>3 DEF IInv

\* luaD_throw with its three ends, wherever it is called.
LEMMA ErrorInv ==
  ASSUME IInv, NEW t \in LuaThreads, host # <<>>, Thread = t, NEW s, Ends(t, s), Unwind(t, s),
         UNCHANGED <<thrown, lost, tangled>>, callbacks' \in 0 .. MaxCallbacks,
         last' \in {"error", "lookup"}
  PROVE  IInv'
<1> DEFINE n == errorJmp[t][2]
           a == host[n]
           recovers == \E i \in 1..Len(s) : s[i] = "ypcall"
<1>1. Types /\ UNCHANGED <<thrown, lost, tangled>> /\ callbacks' \in 0 .. MaxCallbacks
      /\ last' \in {"error", "lookup"}
  BY DEF IInv
<1>2. s \in Seq(CallInfos) /\ Len(s) \in Nat /\ Len(s) >= Len(ci[t]) /\ Len(ci[t]) \in Nat
      /\ \A p \in 1 .. Len(ci[t]) : s[p] = ci[t][p]
  BY EndsFacts, StateTypes
<1>3. CASE /\ process' \in {"aborts", "undefined"}
           /\ UNCHANGED <<ci, nCcalls, nny, status, errorJmp, host>>
  <2>1. Types'
    BY <1>1, <1>3 DEF Types
  <2> QED  BY <1>1, <1>3, <2>1, Unmoved
<1>4. CASE errorJmp[t] # NoJmp /\ errorJmp[t][1] = thrown
  <2>1. /\ n \in 1 .. Len(host) /\ a.th = t /\ a.op # "call"
        /\ \A k \in n + 1 .. Len(host) : host[k].th = t /\ host[k].op = "call"
    BY <1>4, LiveHandler
  <2>2. a \in Activation /\ SoundAt(host, n, thrown, lost)
    BY <2>1, StateTypes
  <2>3. /\ a.base \in Nat /\ a.nCcalls \in Nat /\ a.nny \in Nat /\ a.errorJmp \in Nat \X Nat
        /\ a.nCcalls < MaxCCalls
    BY <2>2, ActivationFields DEF SoundAt, Counted
  <2>4. n - 1 \in 0 .. Len(host) - 1 /\ n - 1 + 1 = n
        /\ \A k \in n - 1 + 1 .. Len(host) : host[k].th = t
    <3>1. n \in Nat /\ Len(host) \in Nat /\ n \in 1 .. Len(host) /\ host[n].th = t
          /\ \A k \in n + 1 .. Len(host) : host[k].th = t
      BY <2>1, StateTypes
    <3> HIDE DEF n
    <3>2. n - 1 + 1 = n /\ \A k \in n .. Len(host) : k = n \/ k \in n + 1 .. Len(host)
      BY <3>1
    <3> QED  BY <3>1, <3>2
  <2>5. a.base < Len(ci[t])
    <3>1. Len(ci[t]) > host[Len(host)].base
      BY Running
    <3>2. n = Len(host) \/ n \in 1 .. Len(host) - 1
      BY <2>1
    <3>3. Len(host) \in 1 .. Len(host) /\ host[Len(host)].th = t
      BY Running
    <3>4. n \in 1 .. Len(host) - 1 => a.base < host[Len(host)].base
      BY <2>1, <3>3, BelowPlace
    <3>5. host[Len(host)].base \in Nat
      BY <3>3, StateTypes, ActivationFields
    <3> QED  BY <1>2, <2>3, <3>1, <3>2, <3>4, <3>5
  <2>6. MaxCCalls \in Nat
    BY StateTypes
  <2>7. CASE /\ a.op = "pcall" /\ Restore(t, a)
             /\ ci' = [ci EXCEPT ![t] = Under(s, a.base)]
             /\ nCcalls' = [nCcalls EXCEPT ![t] = a.nCcalls]
             /\ host' = Under(host, n - 1)
             /\ UNCHANGED <<status, process>>
    <3>1. Under(s, a.base) \in Seq(CallInfos) /\ Len(Under(s, a.base)) = a.base
          /\ \A p \in 1 .. a.base : Under(s, a.base)[p] = s[p]
      BY <1>2, <2>3, <2>5, SMTT(30) DEF Under
    <3>2. Under(host, n - 1) \in Seq(Activation)
      <4>1. host \in Seq(Activation)
        BY StateTypes
      <4> QED  BY <2>1, <4>1 DEF Under
    <3>3. Types'
      <4>1. ci' \in [LuaThreads -> Seq(CallInfos)]
        BY <1>1, <2>7, <3>1 DEF Types
      <4>2. nCcalls' \in [LuaThreads -> 0 .. MaxCCalls - 1]
        <5>1. a.nCcalls \in 0 .. MaxCCalls - 1
          BY <2>3, <2>6
        <5> QED  BY <1>1, <2>7, <5>1 DEF Types
      <4>3. nny' \in [LuaThreads -> Nat]
        BY <1>1, <2>3, <2>7 DEF Types, Restore
      <4>4. errorJmp' \in [LuaThreads -> Nat \X Nat]
        BY <1>1, <2>3, <2>7 DEF Types, Restore
      <4>5. host' \in Seq(Activation)
        BY <2>7, <3>2
      <4> QED  BY <1>1, <2>7, <4>1, <4>2, <4>3, <4>4, <4>5 DEF Types
    <3>4. ci'[t] = Under(s, a.base) /\ errorJmp'[t] = a.errorJmp /\ nCcalls'[t] = a.nCcalls
      BY <1>1, <2>7 DEF Types, Restore
    <3>5. Chained(host, thrown, errorJmp'[t], t, n - 1 + 1)
      BY <2>1, <2>2, <2>4, <3>4 DEF SoundAt
    <3>6. n - 1 = 0 => nCcalls'[t] = lost'
      <4>1. n = 1 => a.nCcalls = lost
        BY <2>1, <2>2 DEF SoundAt, Counted
      <4> QED  BY <1>1, <2>4, <3>4, <4>1
    <3>7. \A u \in LuaThreads \ {t} : errorJmp'[u] = errorJmp[u] /\ ci'[u] = ci[u]
      BY <1>1, <2>7 DEF Types, Restore
    <3>8. \A p \in 1 .. Len(ci'[t]) : ci'[t][p] = ci[t][p]
      <4>1. \A p \in 1 .. a.base : p \in 1 .. Len(ci[t])
        BY <1>2, <2>3, <2>5
      <4> QED  BY <1>2, <3>1, <3>4, <4>1
    <3> QED
      <4>1. thrown' = thrown /\ lost' = lost /\ nny' = [nny EXCEPT ![t] = host[n - 1 + 1].nny]
        BY <1>1, <2>4, <2>7 DEF Restore
      <4>2. Len(ci'[t]) = host[n - 1 + 1].base /\ host[n - 1 + 1].base < Len(ci[t])
            /\ a.nCcalls >= host[n - 1 + 1].nCcalls /\ host[n - 1 + 1].op # "resume"
        <5>1. host[n - 1 + 1] = a /\ a.nCcalls >= a.nCcalls
          BY <2>3, <2>4
        <5>2. Len(ci'[t]) = a.base
          BY <3>1, <3>4
        <5>3. a.op # "resume"
          BY <2>7
        <5> HIDE DEF a
        <5> QED  BY <2>5, <5>1, <5>2, <5>3
      <4> QED  BY <2>3, <2>4, <2>7, <3>3, <3>5, <3>6, <3>7, <3>8, <4>1, <4>2, LeaveCall
  <2>8. CASE /\ a.op = "resume" /\ recovers
             /\ ci' = [ci EXCEPT ![t] = Append(Under(s, FindPCall(s) - 1), "pcall")]
             /\ nCcalls' = [nCcalls EXCEPT ![t] = a.nCcalls]
             /\ nny' = [nny EXCEPT ![t] = 0]
             /\ host' = Under(host, n)
             /\ UNCHANGED <<status, errorJmp, process>>
    <3>1. t = Co
      BY <2>1, <2>2, <2>8 DEF SoundAt, Shape
    <3>2. FindPCall(s) \in 1 .. Len(s)
      <4> DEFINE S == {i \in 1 .. Len(s) : s[i] = "ypcall"}
      <4>1. S \in SUBSET (1 .. Len(s)) /\ S # {}
        BY <2>8
      <4>2. Max(S) \in S
        BY <1>2, <4>1, MaxOfPositions
      <4> QED  BY <4>2 DEF FindPCall
    <3> DEFINE f == FindPCall(s)
    <3> HIDE DEF f
    <3>3. f \in 1 .. Len(s) /\ ci' = [ci EXCEPT ![t] = Append(Under(s, f - 1), "pcall")]
      BY <2>8, <3>2 DEF f
    <3>4. Append(Under(s, f - 1), "pcall") \in Seq(CallInfos)
      <4>1. Under(s, f - 1) \in Seq(CallInfos)
        BY <1>2, <3>3 DEF Under
      <4>2. "pcall" \in CallInfos
        BY DEF CallInfos
      <4> QED  BY <4>1, <4>2
    <3>5. Under(host, n) \in Seq(Activation)
      <4>1. host \in Seq(Activation)
        BY StateTypes
      <4> QED  BY <2>1, <4>1 DEF Under
    <3>6. Types'
      <4>1. ci' \in [LuaThreads -> Seq(CallInfos)]
        BY <1>1, <3>3, <3>4 DEF Types
      <4>2. nCcalls' \in [LuaThreads -> 0 .. MaxCCalls - 1]
        <5>1. a.nCcalls \in 0 .. MaxCCalls - 1
          BY <2>3, <2>6
        <5> QED  BY <1>1, <2>8, <5>1 DEF Types
      <4>3. nny' \in [LuaThreads -> Nat]
        BY <1>1, <2>8 DEF Types
      <4> QED  BY <1>1, <2>8, <3>5, <4>1, <4>2, <4>3 DEF Types
    <3> QED  BY <1>1, <2>1, <2>8, <3>1, <3>3, <3>6, Recovered
  <2>9. CASE /\ a.op = "resume" /\ Restore(t, a)
             /\ ci' = [ci EXCEPT ![t] = s]
             /\ nCcalls' = [nCcalls EXCEPT ![t] = Short(a.nCcalls - 1)]
             /\ host' = Under(host, n - 1)
             /\ status' = [status EXCEPT ![t] = "dead"] /\ UNCHANGED process
    <3>1. t = Co /\ Main # Co
      BY <2>1, <2>2, <2>9, StateTypes DEF SoundAt, Shape
    <3>2. Under(host, n - 1) \in Seq(Activation)
      <4>1. host \in Seq(Activation)
        BY StateTypes
      <4> QED  BY <2>1, <4>1 DEF Under
    <3>3. a.nCcalls - 1 \in Nat
      <4>1. CallsAfter(a) >= n + lost /\ lost \in Nat
        BY <2>2, StateTypes DEF SoundAt, Counted
      <4>2. CallsAfter(a) = a.nCcalls /\ a.nCcalls \in Nat /\ n \in Nat /\ n >= 1
        BY <2>1, <2>3, <2>9 DEF CallsAfter
      <4> QED  BY <4>1, <4>2
    <3>6. nCcalls' = [nCcalls EXCEPT ![t] = a.nCcalls - 1]
      <4>1. a.nCcalls - 1 \in 0 .. MaxCCalls
        BY <2>3, <2>6, <3>3
      <4>2. Short(a.nCcalls - 1) = a.nCcalls - 1
        BY <4>1, ShortIs
      <4> QED  BY <2>9, <4>2
    <3>4. Types'
      <4>1. ci' \in [LuaThreads -> Seq(CallInfos)]
        BY <1>1, <1>2, <2>9 DEF Types
      <4>2. nCcalls' \in [LuaThreads -> 0 .. MaxCCalls - 1]
        <5>1. a.nCcalls - 1 \in 0 .. MaxCCalls - 1
          BY <2>3, <2>6, <3>3
        <5> QED  BY <1>1, <3>6, <5>1 DEF Types
      <4>3. nny' \in [LuaThreads -> Nat] /\ errorJmp' \in [LuaThreads -> Nat \X Nat]
        BY <1>1, <2>3, <2>9 DEF Types, Restore
      <4>4. status' \in [LuaThreads -> {"new", "ok", "yield", "dead"}]
        BY <1>1, <2>9 DEF Types
      <4>5. host' \in Seq(Activation)
        BY <2>9, <3>2
      <4> QED  BY <1>1, <2>9, <4>1, <4>2, <4>3, <4>4, <4>5 DEF Types
    <3>5. ci'[Main] = ci[Main] /\ status'[Main] = status[Main] /\ status'[Co] = "dead"
      BY <1>1, <2>9, <3>1 DEF Types, LuaThreads
    <3> QED  BY <1>1, <2>4, <2>9, <3>1, <3>4, <3>5, <3>6, LeaveCoroutine DEF Restore
  <2> QED  BY <1>3, <1>4, <2>7, <2>8, <2>9 DEF Unwind
<1> QED  BY <1>3, <1>4 DEF Unwind

\* The script raises an error.
LEMMA ThrowInv ==
  ASSUME IInv, NEW t \in LuaThreads, host # <<>>, Thread = t, NEW s, Ends(t, s), Throw(t, s)
  PROVE  IInv'
<1>1. Unwind(t, s) /\ last' = "error" /\ UNCHANGED <<thrown, lost, callbacks, tangled>>
  BY DEF Throw, counts
<1>2. callbacks' \in 0 .. MaxCallbacks
  BY <1>1 DEF IInv, Types
<1> QED  BY <1>1, <1>2, ErrorInv

-----------------------------------------------------------------------------
(* Activations begin.                                                      *)

\* Of a thread that may yield, nothing on the C stack is in the way.
LEMMA AllLeave ==
  ASSUME IInv, host # <<>>, Thread = Co, nny[Co] = 0, NEW i \in 1 .. Len(host), host[i].th = Co
  PROVE  Leaves(host[i]) /\ host[i].op # "pcall"
<1>1. Co \in LuaThreads
  BY StateTypes
<1>2. SoundAt(host, Len(host), thrown, lost) /\ host[Len(host)].th = Co
      /\ nny[Co] = NnyAfter(host[Len(host)])
  BY <1>1, Running
<1>3. Leaves(host[i])
  BY <1>2 DEF SoundAt, Counted
<1>4. Shape(host, i)
  BY StateTypes DEF SoundAt
<1> QED  BY <1>3, <1>4 DEF Shape, Leaves

\* What the running thread begins, by luaD_call or luaD_pcall, is sound.
LEMMA CallSound ==
  ASSUME IInv, NEW t \in LuaThreads, host # <<>>, Thread = t,
         NEW a \in Activation, a.th = t, a.op # "resume", a.base >= Len(ci[t]),
         a.nCcalls = nCcalls[t], a.nny = nny[t], a.errorJmp = errorJmp[t],
         a.free => a.op = "call"
  PROVE  SoundAt(Append(host, a), Len(host) + 1, thrown, lost)
<1> DEFINE g == Append(host, a)
           i == Len(host) + 1
           b == host[Len(host)]
<1>1. Len(host) \in Nat \ {0} /\ host \in Seq(Activation)
  BY StateTypes, Running
<1>2. g[i] = a /\ g[i - 1] = b /\ i > 1 /\ i - 1 = Len(host) /\ i \in Nat
      /\ \A j \in 1 .. i - 1 : g[j] = host[j]
  BY <1>1
<1> HIDE DEF g, i
<1>3. /\ b \in Activation /\ b.th = t /\ SoundAt(host, Len(host), thrown, lost)
      /\ nny[t] = NnyAfter(b) /\ nCcalls[t] >= CallsAfter(b) /\ Len(ci[t]) > b.base
      /\ Chained(host, thrown, errorJmp[t], t, Len(host) + 1)
      /\ t = Main => \A j \in 1 .. Len(host) : host[j].th = Main
  BY Running
<1>4. /\ b.base \in Nat /\ CallsAfter(b) \in Nat /\ NnyAfter(b) \in Nat
      /\ nny[t] \in Nat /\ nCcalls[t] \in Nat /\ nCcalls[t] < MaxCCalls /\ MaxCCalls \in Nat
      /\ lost \in Nat /\ thrown \in Nat /\ a.base \in Nat /\ Len(ci[t]) \in Nat
      /\ Main # Co
  BY <1>3, StateTypes, ActivationFields
<1>5. ASSUME NEW j \in 1 .. Len(host)
      PROVE  /\ host[j] \in Activation /\ host[j].base \in Nat /\ CallsAfter(host[j]) \in Nat
             /\ host[j].th = t => host[j].base <= b.base
             /\ CallsAfter(host[j]) <= CallsAfter(b)
  <2>1. host[j] \in Activation /\ host[j].base \in Nat /\ CallsAfter(host[j]) \in Nat
    BY StateTypes, ActivationFields
  <2>2. j = Len(host) \/ j \in 1 .. Len(host) - 1
    BY <1>1
  <2>3. CASE j = Len(host)
    BY <1>4, <2>1, <2>3
  <2>4. CASE j \in 1 .. Len(host) - 1
    <3>1. Len(host) \in 1 .. Len(host)
      BY <1>1
    <3>2. host[j].th = b.th => host[j].base < b.base
      BY <2>4, <3>1, BelowPlace
    <3>3. CallsAfter(host[j]) < CallsAfter(b)
      BY <1>3, <2>4 DEF SoundAt, Counted
    <3>4. b.th = t /\ b.base \in Nat /\ CallsAfter(b) \in Nat
      BY <1>3, <1>4
    <3> HIDE DEF b
    <3> QED  BY <2>1, <3>2, <3>3, <3>4
  <2> QED  BY <2>2, <2>3, <2>4
<1>6. CallsAfter(a) = nCcalls[t] + 1 /\ NnyAfter(a) = IF a.free THEN nny[t] ELSE nny[t] + 1
  BY DEF CallsAfter, NnyAfter
<1>7. Shape(g, i)
  <2>1. ASSUME NEW j \in 1 .. i - 1
        PROVE  /\ t = Main => g[j].th = Main
               /\ g[j].th = t => g[j].base < a.base
    <3>1. j \in 1 .. Len(host) /\ g[j] = host[j]
      BY <1>2
    <3>2. host[j].th = t => host[j].base <= b.base
      BY <1>5, <3>1
    <3>3. host[j].base \in Nat
      BY <1>5, <3>1
    <3>4. b.base < a.base
      <4> HIDE DEF b
      <4> QED  BY <1>3, <1>4
    <3>5. host[j].th = t => host[j].base < a.base
      <4> HIDE DEF b
      <4> QED  BY <1>4, <3>2, <3>3, <3>4
    <3>6. t = Main => host[j].th = Main
      BY <1>3, <3>1
    <3> QED  BY <3>1, <3>5, <3>6
  <2> QED  BY <1>2, <1>3, <1>4, <2>1 DEF Shape
<1>8. Counted(g, i, thrown, lost)
  <2>1. \A j \in 1 .. i - 1 : CallsAfter(g[j]) < CallsAfter(g[i])
    <3> SUFFICES ASSUME NEW j \in 1 .. i - 1 PROVE CallsAfter(g[j]) < CallsAfter(g[i])
      OBVIOUS
    <3>1. j \in 1 .. Len(host) /\ g[j] = host[j] /\ g[i] = a
      BY <1>2
    <3>2. CallsAfter(host[j]) <= CallsAfter(b) /\ CallsAfter(host[j]) \in Nat
      BY <1>5, <3>1
    <3> QED  BY <1>3, <1>4, <1>6, <3>1, <3>2
  <2>2. CallsAfter(g[i]) >= i + lost
    <3>1. CallsAfter(b) >= Len(host) + lost
      BY <1>3 DEF SoundAt, Counted
    <3>2. i = Len(host) + 1
      BY DEF i
    <3> QED  BY <1>1, <1>2, <1>3, <1>4, <1>6, <3>1, <3>2
  <2>3. t = Main => nny[t] >= 2 + thrown /\ nny[t] <= 1 + nCcalls[t]
    <3>1. t = Main => NnyAfter(b) >= 2 + thrown
      BY <1>3 DEF SoundAt, Counted
    <3> QED  BY <1>3, <3>1 DEF IInv, MainKnown
  <2>4. t = Co => (NnyAfter(g[i]) = 0 <=> \A j \in 1 .. i : g[j].th = Co => Leaves(g[j]))
    <3> SUFFICES ASSUME t = Co
                 PROVE  NnyAfter(a) = 0 <=> \A j \in 1 .. i : g[j].th = Co => Leaves(g[j])
      BY <1>2
    <3>1. NnyAfter(b) = 0 <=> \A j \in 1 .. Len(host) : host[j].th = Co => Leaves(host[j])
      BY <1>3 DEF SoundAt, Counted
    <3>2. (\A j \in 1 .. i : g[j].th = Co => Leaves(g[j]))
          <=> /\ \A j \in 1 .. Len(host) : host[j].th = Co => Leaves(host[j])
              /\ Leaves(a)
      <4>1. \A j \in 1 .. i : j = i \/ j \in 1 .. Len(host)
        BY <1>1, <1>2
      <4>2. \A j \in 1 .. Len(host) : j \in 1 .. i /\ g[j] = host[j]
        BY <1>1, <1>2
      <4>3. i \in 1 .. i
        BY <1>2
      <4> QED  BY <1>2, <4>1, <4>2, <4>3
    <3>3. Leaves(a) <=> a.free
      BY DEF Leaves
    <3>4. NnyAfter(a) = 0 <=> a.free /\ NnyAfter(b) = 0
      BY <1>3, <1>4, <1>6
    <3> QED  BY <3>1, <3>2, <3>3, <3>4
  <2>5. /\ g[i].nCcalls < MaxCCalls
        /\ g[i].th = Main => /\ g[i].nny >= 1 + thrown /\ NnyAfter(g[i]) >= 2 + thrown
                             /\ g[i].nny <= 1 + g[i].nCcalls
    BY <1>2, <1>4, <1>6, <2>3, SMTT(30)
  <2>6. i # 1 /\ g[i].nny = NnyAfter(g[i - 1])
    BY <1>2, <1>3
  <2> HIDE DEF b
  <2> QED  BY <1>2, <2>1, <2>2, <2>4, <2>5, <2>6 DEF Counted
<1>9. Chained(g, thrown, g[i].errorJmp, g[i].th, i)
  <2>1. Chained(host, thrown, errorJmp[t], t, i)
    BY <1>3 DEF i
  <2> QED  BY <1>2, <2>1, ChainedLocal
<1> QED  BY <1>7, <1>8, <1>9 DEF SoundAt, g, i

\* The whole invariant after the running thread has begun a: the calls it has begun with
\* it are last, and a call of pcall is one of them exactly for luaD_pcall.
LEMMA CallInv ==
  ASSUME IInv, Types', NEW t \in LuaThreads, host # <<>>, Thread = t,
         NEW a \in Activation, a.th = t, a.op # "resume", a.base >= Len(ci[t]),
         a.nCcalls = nCcalls[t], a.nny = nny[t], a.errorJmp = errorJmp[t],
         a.free => a.op = "call",
         host' = Append(host, a), UNCHANGED <<status, thrown, lost>>,
         nCcalls' = [nCcalls EXCEPT ![t] = CallsAfter(a)],
         nny' = [nny EXCEPT ![t] = NnyAfter(a)],
         errorJmp' = IF a.op = "call" THEN errorJmp
                     ELSE [errorJmp EXCEPT ![t] = <<thrown, Len(host) + 1>>],
         \A u \in LuaThreads \ {t} : ci'[u] = ci[u],
         Len(ci'[t]) = a.base + 1, ci[t][Len(ci[t])] # "pcall",
         \A p \in 1 .. Len(ci[t]) : ci'[t][p] = ci[t][p],
         \A p \in Len(ci[t]) + 1 .. Len(ci'[t]) :
           /\ ci'[t][p] = "ypcall" => a.op = "call" /\ t = Co /\ nny[t] = 0 /\ p <= a.base
           /\ ci'[t][p] = "pcall" => a.op = "pcall" /\ p = a.base,
         a.op = "pcall" /\ a.by = "script" => a.base > Len(ci[t]) /\ ci'[t][a.base] = "pcall"
  PROVE  IInv'
<1> DEFINE b == host[Len(host)]
           w == Len(host) + 1
<1>1. /\ Len(host) \in Nat \ {0} /\ host \in Seq(Activation) /\ Main # Co
      /\ a.base \in Nat /\ Len(ci[t]) \in Nat /\ a.nCcalls \in Nat /\ Types
      /\ thrown \in Nat /\ nny[t] \in Nat /\ (t = Main \/ t = Co)
  <2>1. Types
    BY DEF IInv
  <2> QED  BY <2>1, StateTypes, Running, ActivationFields DEF LuaThreads
<1>2. Len(host') = w /\ host'[w] = a /\ \A j \in 1 .. Len(host) : host'[j] = host[j]
  BY <1>1
<1>3. /\ b.th = t /\ Len(ci[t]) > b.base /\ nny[t] = NnyAfter(b)
  BY Running
<1>4. host' \in Seq(Activation) /\ SoundHost' /\ \A u \in LuaThreads : Known(u)'
  <2>1. SoundAt(Append(host, a), Len(host) + 1, thrown, lost)
    BY CallSound
  <2>2. \A u \in LuaThreads : Len(ci'[u]) \in Nat /\ (u # t => Len(ci'[u]) >= Len(ci[u]))
    <3>1. \A u \in LuaThreads : ci'[u] \in Seq(CallInfos)
      BY DEF Types
    <3>2. \A u \in LuaThreads : Len(ci[u]) \in Nat
      BY StateTypes
    <3> QED  BY <3>1, <3>2
  <2>3. Len(ci'[t]) > a.base
    BY <1>1
  <2> QED  BY <2>1, <2>2, <2>3, PushStack
<1>5. MainKnown'
  <2>1. host' # <<>>
    BY <1>1, <1>2, SMTT(30)
  <2>2. CASE t = Main
    <3>1. nny[Main] \in Nat /\ nCcalls[Main] \in Nat /\ a.free \in BOOLEAN
      BY <2>2, StateTypes, ActivationFields
    <3>2. nny'[Main] \in {nny[Main], nny[Main] + 1} /\ nCcalls'[Main] = nCcalls[Main] + 1
      BY <1>1, <2>2 DEF Types, NnyAfter, CallsAfter
    <3>3. nny[Main] >= 1 + thrown /\ nny[Main] <= 1 + nCcalls[Main]
          /\ \A p \in 1 .. Len(ci[Main]) : ci[Main][p] # "ypcall"
      BY DEF IInv, MainKnown
    <3>4. nny'[Main] >= 1 + thrown' /\ nny'[Main] <= 1 + nCcalls'[Main]
      BY <1>1, <2>2, <3>1, <3>2, <3>3
    <3>5. ASSUME NEW p \in 1 .. Len(ci'[Main]) PROVE ci'[Main][p] # "ypcall"
      <4>1. CASE p \in 1 .. Len(ci[Main])
        <5>1. ci'[Main][p] = ci[Main][p]
          BY <2>2, <4>1
        <5> QED  BY <3>3, <4>1, <5>1
      <4>2. CASE p \in Len(ci[Main]) + 1 .. Len(ci'[Main])
        BY <1>1, <2>2, <4>2
      <4> QED  BY <1>1, <2>2, <4>1, <4>2
    <3> QED  BY <2>1, <3>4, <3>5 DEF IInv, MainKnown
  <2>3. CASE t = Co
    <3>1. nny'[Main] = nny[Main] /\ nCcalls'[Main] = nCcalls[Main] /\ ci'[Main] = ci[Main]
      BY <1>1, <2>3 DEF Types, LuaThreads
    <3> QED  BY <2>1, <3>1 DEF IInv, MainKnown
  <2> QED  BY <1>1, <2>2, <2>3
<1>6. CoKnown'
  <2>1. CASE t = Co
    <3>1. status[Co] = "ok"
      BY <1>1, <1>3, <2>1 DEF IInv, CoKnown
    <3> QED  BY <3>1 DEF CoKnown
  <2>2. CASE t = Main
    <3>1. ASSUME NEW j \in 1 .. Len(host'), host'[j].th = Co PROVE status[Co] = "ok"
      <4>1. j \in 1 .. Len(host) /\ host[j].th = Co
        BY <1>1, <1>2, <2>2, <3>1
      <4> QED  BY <4>1 DEF IInv, CoKnown
    <3>2. ci'[Co] = ci[Co]
      BY <1>1, <2>2 DEF LuaThreads
    <3> QED  BY <3>1, <3>2 DEF IInv, CoKnown
  <2> QED  BY <1>1, <2>1, <2>2
<1>7. PCallsKnown'
  <2>1. ASSUME NEW i \in 1 .. Len(host) PROVE PCallAt(i)'
    <3>1. PCallAt(i) /\ host'[i] = host[i] /\ host[i].th \in LuaThreads /\ host[i].base \in Nat
      BY <1>2, StateTypes, ActivationFields DEF IInv, PCallsKnown
    <3>2. CASE host[i].th # t
      <4>1. ci'[host[i].th] = ci[host[i].th]
        BY <3>1, <3>2
      <4> QED  BY <3>1, <4>1 DEF PCallAt
    <3>3. CASE host[i].th = t
      <4> SUFFICES ASSUME host[i].op = "pcall"
                   PROVE  /\ host[i].by = "script" => host[i].base > 0 /\ ci'[t][host[i].base] = "pcall"
                          /\ \A p \in host[i].base + 1 .. Len(ci'[t]) : ci'[t][p] # "ypcall"
        BY <3>1, <3>3 DEF PCallAt
      <4>1. /\ host[i].by = "script" => host[i].base > 0 /\ ci[t][host[i].base] = "pcall"
            /\ \A p \in host[i].base + 1 .. Len(ci[t]) : ci[t][p] # "ypcall"
        BY <3>1, <3>3 DEF PCallAt
      <4>2. host[i].base < Len(ci[t])
        <5>1. i = Len(host) \/ i \in 1 .. Len(host) - 1
          BY <1>1
        <5>2. Len(host) \in 1 .. Len(host)
          BY <1>1
        <5>3. i \in 1 .. Len(host) - 1 => host[i].base < b.base
          BY <1>3, <3>3, <5>2, BelowPlace
        <5>4. b.base \in Nat
          BY <5>2, StateTypes, ActivationFields
        <5> QED  BY <1>1, <1>3, <3>1, <5>1, <5>3, <5>4
      <4>3. ~(t = Co /\ nny[t] = 0)
        BY <1>1, <3>3, AllLeave
      <4>4. ASSUME host[i].by = "script" PROVE host[i].base > 0 /\ ci'[t][host[i].base] = "pcall"
        <5>1. host[i].base \in 1 .. Len(ci[t])
          BY <1>1, <3>1, <4>1, <4>2, <4>4, SMTT(30)
        <5> QED  BY <4>1, <4>4, <5>1
      <4>5. ASSUME NEW p \in host[i].base + 1 .. Len(ci'[t]) PROVE ci'[t][p] # "ypcall"
        <5>1. \/ p \in host[i].base + 1 .. Len(ci[t]) /\ p \in 1 .. Len(ci[t])
              \/ p \in Len(ci[t]) + 1 .. Len(ci'[t])
          BY <1>1, <3>1, SMTT(30)
        <5> QED  BY <4>1, <4>3, <5>1
      <4> QED  BY <4>4, <4>5
    <3> QED  BY <3>2, <3>3
  <2>2. ASSUME NEW i \in {w} PROVE PCallAt(i)'
    <3>1. \A p \in a.base + 1 .. Len(ci'[t]) : p \in Len(ci[t]) + 1 .. Len(ci'[t]) /\ p > a.base
      BY <1>1
    <3>2. \A p \in a.base + 1 .. Len(ci'[t]) : ci'[t][p] # "ypcall"
      BY <1>1, <3>1, SMTT(30)
    <3>3. host'[i] = a
      BY <1>2
    <3>4. a.op = "pcall" /\ a.by = "script" => a.base > 0 /\ ci'[t][a.base] = "pcall"
      BY <1>1
    <3> QED  BY <3>2, <3>3, <3>4 DEF PCallAt
  <2>3. ASSUME NEW i \in 1 .. Len(host') PROVE PCallAt(i)'
    <3>1. i \in {w} \/ i \in 1 .. Len(host)
      BY <1>1, <1>2
    <3> QED  BY <2>1, <2>2, <3>1
  <2>4. ASSUME NEW u \in LuaThreads PROVE PCallHandled(u)'
    <3> SUFFICES ASSUME NEW p \in 1 .. Len(ci'[u]) - 1, NEW k \in 1 .. Len(host'),
                        ci'[u][p] = "pcall", host'[k].th = u, host'[k].base < p
                 PROVE  \E i \in 1 .. Len(host') :
                          host'[i].th = u /\ host'[i].op = "pcall" /\ host'[i].base = p
      BY DEF PCallHandled
    <3>1. CASE u = t /\ p > Len(ci[t])
      <4>1. p \in Len(ci[t]) + 1 .. Len(ci'[t])
        BY <1>1, <3>1, SMTT(30)
      <4>2. a.op = "pcall" /\ p = a.base
        BY <3>1, <4>1
      <4>3. w \in 1 .. Len(host')
        BY <1>1, <1>2
      <4>4. host'[w].th = u /\ host'[w].op = "pcall" /\ host'[w].base = p
        BY <1>2, <3>1, <4>2
      <4> HIDE DEF w
      <4> QED  BY <4>3, <4>4
    <3>2. CASE ~(u = t /\ p > Len(ci[t]))
      <4>1. p \in 1 .. Len(ci[u]) - 1 /\ ci[u][p] = "pcall"
        <5>1. CASE u # t
          BY <5>1
        <5>2. CASE u = t
          <6>1. p \in 1 .. Len(ci[t]) /\ ci'[t][p] = ci[t][p]
            BY <1>1, <3>2, <5>2, SMTT(30)
          <6>2. p # Len(ci[t])
            BY <5>2, <6>1
          <6> QED  BY <1>1, <5>2, <6>1, <6>2, SMTT(30)
        <5> QED  BY <5>1, <5>2
      <4>2. k \in 1 .. Len(host) /\ host[k].th = u /\ host[k].base < p
        <5>1. ASSUME k = w PROVE FALSE
          <6>1. u = t /\ a.base < p
            BY <1>2, <5>1
          <6> QED  BY <1>1, <4>1, <6>1
        <5>2. k \in 1 .. Len(host)
          BY <1>1, <1>2, <5>1
        <5> QED  BY <1>2, <5>2
      <4>3. PCallHandled(u)
        BY DEF IInv, PCallsKnown
      <4>4. PICK i \in 1 .. Len(host) :
              host[i].th = u /\ host[i].op = "pcall" /\ host[i].base = p
        BY <4>1, <4>2, <4>3 DEF PCallHandled
      <4>5. i \in 1 .. Len(host')
        BY <1>1, <1>2
      <4> QED  BY <1>2, <4>4, <4>5
    <3> QED  BY <3>1, <3>2
  <2> QED  BY <2>3, <2>4 DEF PCallsKnown
<1> QED  BY <1>4, <1>5, <1>6, <1>7 DEF IInv

\* The framework's call, protected or by a lookup, begins the C stack.
LEMMA FirstInv ==
  ASSUME IInv, Types', host = <<>>,
         NEW a \in Activation, a.th = Main, a.op # "resume", ~a.free, a.base = Len(ci[Main]),
         a.by = "framework", a.nCcalls = nCcalls[Main], a.nny = nny[Main], a.errorJmp = errorJmp[Main],
         host' = <<a>>, UNCHANGED <<status, thrown, lost>>,
         nCcalls' = [nCcalls EXCEPT ![Main] = @ + 1],
         nny' = [nny EXCEPT ![Main] = @ + 1],
         errorJmp' = IF a.op = "call" THEN errorJmp ELSE [errorJmp EXCEPT ![Main] = <<thrown, 1>>],
         ci' = [ci EXCEPT ![Main] = Append(@, "lua")]
  PROVE  IInv'
<1>1. /\ Main \in LuaThreads /\ Co \in LuaThreads /\ Main # Co /\ Types
      /\ nCcalls[Main] \in Nat /\ nCcalls[Main] < MaxCCalls /\ nny[Main] \in Nat
      /\ thrown \in Nat /\ lost \in Nat /\ ci[Main] \in Seq(CallInfos) /\ Len(ci[Main]) \in Nat
  BY StateTypes DEF IInv
<1>2. host' = Append(host, a) /\ Len(host) = 0 /\ Len(host') = 1 /\ host'[1] = a
  <2>1. Append(<<>>, a) = <<a>>
    OBVIOUS
  <2> QED  BY <2>1
<1>3. /\ ci'[Main] = Append(ci[Main], "lua") /\ ci'[Co] = ci[Co]
      /\ nny'[Main] = nny[Main] + 1 /\ nCcalls'[Main] = nCcalls[Main] + 1
  BY <1>1 DEF Types
<1>4. /\ Len(ci'[Main]) = Len(ci[Main]) + 1
      /\ \A p \in 1 .. Len(ci[Main]) : ci'[Main][p] = ci[Main][p]
      /\ ci'[Main][Len(ci[Main]) + 1] = "lua"
  BY <1>1, <1>3
<1>5. MainKnown /\ nCcalls[Main] = lost /\ (thrown = 0 => nny[Main] = 1 /\ ci[Main] = <<>>)
  BY DEF IInv, MainKnown
<1>6. CallsAfter(a) = nCcalls[Main] + 1 /\ NnyAfter(a) = nny[Main] + 1
  BY DEF CallsAfter, NnyAfter
<1>7. SoundAt(host', 1, thrown, lost)
  <2>1. Shape(host', 1)
    BY <1>1, <1>2 DEF Shape
  <2>2. Counted(host', 1, thrown, lost)
    BY <1>1, <1>2, <1>5, <1>6 DEF Counted, MainKnown
  <2>3. Chained(host', thrown, errorJmp[Main], Main, 1)
    <3>1. Chained(host, thrown, errorJmp[Main], Main, Len(host) + 1)
      BY <1>1 DEF IInv, Known, KnownAs
    <3> QED  BY <1>2, <3>1 DEF Chained
  <2> QED  BY <1>2, <2>1, <2>2, <2>3 DEF SoundAt
<1>8. host' \in Seq(Activation) /\ SoundHost' /\ \A u \in LuaThreads : Known(u)'
  <2>1. SoundAt(Append(host, a), Len(host) + 1, thrown, lost)
    BY <1>2, <1>7
  <2>2. \A u \in LuaThreads : Len(ci'[u]) \in Nat /\ (u # Main => Len(ci'[u]) >= Len(ci[u]))
    <3>1. \A u \in LuaThreads : Len(ci[u]) \in Nat
      BY StateTypes
    <3> QED  BY <1>1, <1>3, <1>4, <3>1 DEF LuaThreads
  <2>3. Len(ci'[Main]) > a.base
    BY <1>1, <1>4
  <2>4. nCcalls' = [nCcalls EXCEPT ![Main] = CallsAfter(a)]
        /\ nny' = [nny EXCEPT ![Main] = NnyAfter(a)]
    BY <1>6
  <2>5. errorJmp' = IF a.op = "call" THEN errorJmp
                    ELSE [errorJmp EXCEPT ![Main] = <<thrown, Len(host) + 1>>]
    BY <1>2
  <2>6. host' = Append(host, a) /\ thrown' = thrown /\ lost' = lost /\ a.th = Main
    BY <1>2
  <2> QED  BY ONLY IInv, a \in Activation,
                   <1>1, <2>1, <2>2, <2>3, <2>4, <2>5, <2>6, PushStack
<1>9. MainKnown'
  <2>1. \A p \in 1 .. Len(ci'[Main]) : p \in 1 .. Len(ci[Main]) \/ p = Len(ci[Main]) + 1
    BY <1>1, <1>4
  <2>2. \A p \in 1 .. Len(ci'[Main]) : ci'[Main][p] # "ypcall"
    BY <1>4, <1>5, <2>1 DEF MainKnown
  <2>3. nny'[Main] >= 1 + thrown' /\ nny'[Main] <= 1 + nCcalls'[Main]
    BY <1>1, <1>3, <1>5 DEF MainKnown
  <2>4. host' # <<>>
    BY <1>2
  <2> QED  BY <1>5, <2>2, <2>3, <2>4 DEF MainKnown
<1>10. CoKnown'
  BY <1>1, <1>2, <1>3 DEF IInv, CoKnown
<1>11. PCallsKnown'
  <2>1. ASSUME NEW i \in 1 .. Len(host') PROVE PCallAt(i)'
    <3>1. i = 1 /\ host'[i] = a
      BY <1>2
    <3>2. \A p \in a.base + 1 .. Len(ci'[Main]) : ci'[Main][p] # "ypcall"
      BY <1>1, <1>4
    <3> QED  BY <3>1, <3>2 DEF PCallAt
  <2>2. ASSUME NEW u \in LuaThreads PROVE PCallHandled(u)'
    <3> SUFFICES ASSUME NEW p \in 1 .. Len(ci'[u]) - 1, NEW k \in 1 .. Len(host'),
                        host'[k].th = u, host'[k].base < p
                 PROVE  FALSE
      BY DEF PCallHandled
    <3>1. u = Main /\ a.base < p
      BY <1>2
    <3> QED  BY <1>1, <1>4, <3>1
  <2> QED  BY <2>1, <2>2 DEF PCallsKnown
<1> QED  BY <1>8, <1>9, <1>10, <1>11 DEF IInv

\* coroutine.resume of the main thread begins lua_resume.
LEMMA ResumeInv ==
  ASSUME IInv, Types', host # <<>>, Thread = Main, NEW a \in Activation, a.th = Co,
         a.op = "resume", a.base = 0, ~a.free, a.nCcalls = nCcalls[Main] + 1,
         nCcalls[Main] + 1 < MaxCCalls, a.nny = nny[Co], a.errorJmp = errorJmp[Co],
         host' = Append(host, a), UNCHANGED <<thrown, lost>>,
         status' = [status EXCEPT ![Co] = "ok"],
         nCcalls' = [nCcalls EXCEPT ![Co] = nCcalls[Main] + 1],
         nny' = [nny EXCEPT ![Co] = 0],
         errorJmp' = [errorJmp EXCEPT ![Co] = <<thrown, Len(host) + 1>>],
         ci'[Main] = Append(ci[Main], "resume"), ci[Main][Len(ci[Main])] = "lua",
         Len(ci'[Co]) > 0, \A p \in 1 .. Len(ci'[Co]) : ci'[Co][p] # "pcall"
  PROVE  IInv'
<1> DEFINE w == Len(host) + 1
           b == host[Len(host)]
<1>1. /\ Main \in LuaThreads /\ Co \in LuaThreads /\ Main # Co /\ Types
      /\ nCcalls[Main] \in Nat /\ thrown \in Nat /\ lost \in Nat
      /\ ci[Main] \in Seq(CallInfos) /\ Len(ci[Main]) \in Nat
      /\ Len(host) \in Nat \ {0} /\ host \in Seq(Activation)
  BY StateTypes, Running DEF IInv
<1>2. Len(host') = w /\ host'[w] = a /\ \A j \in 1 .. Len(host) : host'[j] = host[j]
  BY <1>1
<1>3. \A j \in 1 .. Len(host) : host[j].th = Main
  BY <1>1, Running
<1>4. /\ Len(ci'[Main]) = Len(ci[Main]) + 1
      /\ \A p \in 1 .. Len(ci[Main]) : ci'[Main][p] = ci[Main][p]
      /\ ci'[Main][Len(ci[Main]) + 1] = "resume"
  BY <1>1
<1>5. CallsAfter(a) = nCcalls[Main] + 1 /\ NnyAfter(a) = 0
  BY DEF CallsAfter, NnyAfter
<1>6. SoundAt(host', w, thrown, lost)
  <2>1. Shape(host', w)
    BY <1>1, <1>2, <1>3 DEF Shape
  <2>2. Counted(host', w, thrown, lost)
    <3>1. SoundAt(host, Len(host), thrown, lost) /\ nCcalls[Main] >= CallsAfter(b)
          /\ b \in Activation
      BY <1>1, Running
    <3>2. CallsAfter(b) \in Nat /\ CallsAfter(b) >= Len(host) + lost
          /\ \A j \in 1 .. Len(host) - 1 : CallsAfter(host[j]) < CallsAfter(b)
      BY <3>1, ActivationFields DEF SoundAt, Counted
    <3>3. ASSUME NEW j \in 1 .. Len(host) PROVE CallsAfter(host'[j]) < CallsAfter(a)
      <4>1. j = Len(host) \/ j \in 1 .. Len(host) - 1
        BY <1>1
      <4>2. host'[j] = host[j] /\ CallsAfter(host[j]) \in Nat
        BY <1>2, StateTypes, ActivationFields
      <4>3. j \in 1 .. Len(host) - 1 => CallsAfter(host[j]) < CallsAfter(b)
        BY <3>2
      <4> QED  BY <1>1, <1>5, <3>1, <3>2, <4>1, <4>2, <4>3
    <3>4. \A j \in 1 .. w : host'[j].th = Co => Leaves(host'[j])
      <4>1. \A j \in 1 .. w : j = w \/ j \in 1 .. Len(host)
        BY <1>1
      <4> QED  BY <1>1, <1>2, <1>3, <4>1 DEF Leaves
    <3>5. CallsAfter(a) >= w + lost
      BY <1>1, <1>5, <3>1, <3>2
    <3>6. w - 1 = Len(host) /\ w # 1
      BY <1>1
    <3> HIDE DEF w, b
    <3> QED  BY <1>1, <1>2, <1>5, <3>3, <3>4, <3>5, <3>6 DEF Counted
  <2>3. Chained(host', thrown, errorJmp[Co], Co, w)
    <3>1. Chained(host, thrown, errorJmp[Co], Co, Len(host) + 1)
      BY <1>1 DEF IInv, Known, KnownAs
    <3>2. w \in Nat /\ \A j \in 1 .. w - 1 : host'[j] = host[j]
      BY <1>1, <1>2
    <3> QED  BY <3>1, <3>2, ChainedLocal, ZenonT(20)
  <2> QED  BY <1>2, <2>1, <2>2, <2>3 DEF SoundAt
<1>7. host' \in Seq(Activation) /\ SoundHost' /\ \A u \in LuaThreads : Known(u)'
  <2>1. SoundAt(Append(host, a), Len(host) + 1, thrown, lost)
    BY <1>6
  <2>2. \A u \in LuaThreads : Len(ci'[u]) \in Nat /\ (u # Co => Len(ci'[u]) >= Len(ci[u]))
    <3>1. \A u \in LuaThreads : ci'[u] \in Seq(CallInfos)
      BY DEF Types
    <3> QED  BY <1>1, <1>4, <3>1 DEF LuaThreads
  <2>3. nCcalls' = [nCcalls EXCEPT ![Co] = CallsAfter(a)] /\ nny' = [nny EXCEPT ![Co] = NnyAfter(a)]
        /\ Len(ci'[Co]) > a.base
    BY <1>5
  <2> QED  BY <1>1, <2>1, <2>2, <2>3, PushStack
<1>8. MainKnown'
  <2>1. \A p \in 1 .. Len(ci'[Main]) : p \in 1 .. Len(ci[Main]) \/ p = Len(ci[Main]) + 1
    BY <1>1, <1>4
  <2>2. \A p \in 1 .. Len(ci'[Main]) : ci'[Main][p] # "ypcall"
    BY <1>4, <2>1 DEF IInv, MainKnown
  <2>3. nny'[Main] = nny[Main] /\ nCcalls'[Main] = nCcalls[Main] /\ status'[Main] = status[Main]
    BY <1>1 DEF Types
  <2>4. host' # <<>>
    <3>1. Len(host') \in Nat \ {0}
      BY <1>1, <1>2
    <3> HIDE DEF w
    <3> QED  BY <3>1
  <2> QED  BY <2>2, <2>3, <2>4 DEF IInv, MainKnown
<1>9. CoKnown'
  <2>1. status'[Co] = "ok"
    BY <1>1 DEF Types
  <2> QED  BY <2>1 DEF CoKnown
<1>10. PCallsKnown'
  <2>1. ASSUME NEW i \in 1 .. Len(host) PROVE PCallAt(i)'
    <3>1. PCallAt(i) /\ host'[i] = host[i] /\ host[i].th = Main /\ host[i].base \in Nat
      BY <1>2, <1>3, StateTypes, ActivationFields DEF IInv, PCallsKnown
    <3> SUFFICES ASSUME host[i].op = "pcall"
                 PROVE  /\ host[i].by = "script" =>
                             host[i].base > 0 /\ ci'[Main][host[i].base] = "pcall"
                        /\ \A p \in host[i].base + 1 .. Len(ci'[Main]) : ci'[Main][p] # "ypcall"
      BY <3>1 DEF PCallAt
    <3>2. /\ host[i].by = "script" => host[i].base > 0 /\ ci[Main][host[i].base] = "pcall"
          /\ \A p \in host[i].base + 1 .. Len(ci[Main]) : ci[Main][p] # "ypcall"
      BY <3>1 DEF PCallAt
    <3>3. host[i].base < Len(ci[Main])
      <4>1. i = Len(host) \/ i \in 1 .. Len(host) - 1
        BY <1>1
      <4>2. Len(host) \in 1 .. Len(host)
        BY <1>1
      <4>3. i \in 1 .. Len(host) - 1 => host[i].base < b.base
        BY <1>3, <4>2, BelowPlace
      <4>4. b.base \in Nat /\ Len(ci[Main]) > b.base
        BY <1>1, <4>2, StateTypes, ActivationFields, Running
      <4> QED  BY <1>1, <3>1, <4>1, <4>3, <4>4
    <3>4. ASSUME host[i].by = "script" PROVE host[i].base > 0 /\ ci'[Main][host[i].base] = "pcall"
      <4>1. host[i].base \in 1 .. Len(ci[Main])
        BY <1>1, <3>1, <3>2, <3>3, <3>4
      <4> QED  BY <1>4, <3>2, <3>4, <4>1
    <3>5. ASSUME NEW p \in host[i].base + 1 .. Len(ci'[Main]) PROVE ci'[Main][p] # "ypcall"
      <4>1. \/ p \in host[i].base + 1 .. Len(ci[Main]) /\ p \in 1 .. Len(ci[Main])
            \/ p = Len(ci[Main]) + 1
        BY <1>1, <1>4, <3>1, SMTT(30)
      <4> QED  BY <1>4, <3>2, <4>1
    <3> QED  BY <3>4, <3>5
  <2>2. ASSUME NEW i \in 1 .. Len(host') PROVE PCallAt(i)'
    <3>1. CASE i \in 1 .. Len(host)
      BY <2>1, <3>1
    <3>2. CASE i = w
      BY <1>2, <3>2 DEF PCallAt
    <3> QED  BY <1>1, <1>2, <3>1, <3>2
  <2>3. PCallHandled(Co)'
    <3> SUFFICES ASSUME NEW p \in 1 .. Len(ci'[Co]) - 1, ci'[Co][p] = "pcall" PROVE FALSE
      BY DEF PCallHandled
    <3>1. ci'[Co] \in Seq(CallInfos)
      BY <1>1 DEF Types
    <3>2. p \in 1 .. Len(ci'[Co])
      BY <3>1
    <3> QED  BY <3>2
  <2>4. PCallHandled(Main)'
    <3> SUFFICES ASSUME NEW p \in 1 .. Len(ci'[Main]) - 1, NEW k \in 1 .. Len(host'),
                        ci'[Main][p] = "pcall", host'[k].th = Main, host'[k].base < p
                 PROVE  \E i \in 1 .. Len(host') :
                          host'[i].th = Main /\ host'[i].op = "pcall" /\ host'[i].base = p
      BY DEF PCallHandled
    <3>1. p \in 1 .. Len(ci[Main]) - 1 /\ ci[Main][p] = "pcall"
      <4>1. p \in 1 .. Len(ci[Main]) /\ ci'[Main][p] = ci[Main][p]
        BY <1>1, <1>4
      <4>2. p # Len(ci[Main])
        BY <4>1
      <4> QED  BY <1>1, <4>1, <4>2
    <3>2. k \in 1 .. Len(host) /\ host[k].th = Main /\ host[k].base < p
      BY <1>1, <1>2
    <3>3. PCallHandled(Main)
      BY <1>1 DEF IInv, PCallsKnown
    <3>4. PICK i \in 1 .. Len(host) :
            host[i].th = Main /\ host[i].op = "pcall" /\ host[i].base = p
      BY <3>1, <3>2, <3>3 DEF PCallHandled
    <3>5. i \in 1 .. Len(host') /\ host'[i] = host[i]
      BY <1>1, <1>2
    <3> QED  BY <3>4, <3>5
  <2> QED  BY <2>2, <2>3, <2>4 DEF PCallsKnown, LuaThreads
<1> QED  BY <1>7, <1>8, <1>9, <1>10 DEF IInv

-----------------------------------------------------------------------------
(* The C stack stays, or is cut off.                                       *)

\* A call of the running thread that begins or returns without the C stack: what is left
\* below it is as it was.  A refused resumption may set the count of calls.
LEMMA QuietInv ==
  ASSUME IInv, Types', NEW t \in LuaThreads, host # <<>>, Thread = t,
         UNCHANGED <<nny, status, errorJmp, host, thrown, lost>>,
         \A u \in LuaThreads \ {t} : ci'[u] = ci[u],
         Len(ci'[t]) > Innermost.base, ci'[t][Len(ci'[t])] # "ypcall",
         \A p \in 1 .. Len(ci'[t]) - 1 :
           /\ p <= Len(ci[t]) /\ ci'[t][p] = ci[t][p]
           /\ p = Len(ci[t]) => ci[t][p] # "pcall",
         \A u \in LuaThreads : nCcalls'[u] \in Nat,
         \A u \in LuaThreads, i \in 1 .. Len(host) :
           LastOf(host, u, i) => nCcalls'[u] >= CallsAfter(host[i]),
         nny[Main] <= 1 + nCcalls'[Main]
  PROVE  IInv'
<1> DEFINE b == host[Len(host)]
<1>1. /\ Len(host) \in Nat \ {0} /\ Len(host) \in 1 .. Len(host)
      /\ b = Innermost /\ b.th = t /\ b.base \in Nat
      /\ Len(ci[t]) \in Nat /\ ci'[t] \in Seq(CallInfos) /\ Len(ci'[t]) \in Nat
  <2>1. ci'[t] \in Seq(CallInfos)
    BY DEF Types
  <2>2. Innermost \in Activation /\ Innermost = b /\ Innermost.th = t
    BY Running
  <2>3. b.base \in Nat
    BY <2>2, ActivationFields
  <2>4. Len(ci'[t]) \in Nat
    BY <2>1
  <2> QED  BY <2>1, <2>2, <2>3, <2>4, StateTypes, Running
<1>2. ASSUME NEW i \in 1 .. Len(host), host[i].th = t
      PROVE  host[i].base \in Nat /\ host[i].base <= b.base
  <2>1. i = Len(host) \/ i \in 1 .. Len(host) - 1
    BY <1>1
  <2>2. i \in 1 .. Len(host) - 1 => host[i].base < b.base
    BY <1>1, <1>2, BelowPlace
  <2>3. host[i].base \in Nat
    BY StateTypes, ActivationFields
  <2> QED  BY <1>1, <2>1, <2>2, <2>3
<1>3. SoundHost'
  BY DEF IInv, SoundHost
<1>4. ASSUME NEW u \in LuaThreads PROVE Known(u)'
  <2>1. KnownAs(host, thrown, errorJmp[u], nny[u], nCcalls[u], Len(ci[u]), u)
    BY DEF IInv, Known
  <2>2. ASSUME NEW i \in 1 .. Len(host), LastOf(host, u, i)
        PROVE  nCcalls'[u] >= CallsAfter(host[i]) /\ Len(ci'[u]) > host[i].base
    <3>1. CASE u = t
      <4>1. host[i].base \in Nat /\ host[i].base <= b.base
        BY <1>2, <2>2, <3>1 DEF LastOf
      <4> QED  BY <1>1, <2>2, <3>1, <4>1, SMTT(30)
    <3>2. CASE u # t
      BY <2>1, <2>2, <3>2 DEF KnownAs
    <3> QED  BY <3>1, <3>2
  <2> QED  BY <2>1, <2>2 DEF Known, KnownAs
<1>5. MainKnown'
  <2>1. \A p \in 1 .. Len(ci'[Main]) : ci'[Main][p] # "ypcall"
    <3>1. MainKnown
      BY DEF IInv
    <3>2. CASE t = Main
      <4>1. \A p \in 1 .. Len(ci'[Main]) : p = Len(ci'[Main]) \/ p \in 1 .. Len(ci'[Main]) - 1
        BY <1>1, <3>2
      <4>2. \A p \in 1 .. Len(ci'[Main]) - 1 : p \in 1 .. Len(ci[Main])
        BY <1>1, <3>2
      <4> QED  BY <3>1, <3>2, <4>1, <4>2 DEF MainKnown
    <3>3. CASE t # Main
      BY <3>1, <3>3, StateTypes DEF MainKnown
    <3> QED  BY <3>2, <3>3
  <2> QED  BY <2>1 DEF IInv, MainKnown
<1>6. CoKnown'
  <2>1. CASE t = Co
    <3>1. status[Co] = "ok"
      BY <1>1, <2>1 DEF IInv, CoKnown
    <3> QED  BY <3>1 DEF CoKnown
  <2>2. CASE t # Co
    BY <2>2, StateTypes DEF IInv, CoKnown
  <2> QED  BY <2>1, <2>2
<1>7. PCallsKnown'
  <2>1. ASSUME NEW i \in 1 .. Len(host') PROVE PCallAt(i)'
    <3>1. PCallAt(i) /\ host[i].th \in LuaThreads
      BY StateTypes, ActivationFields DEF IInv, PCallsKnown
    <3>2. CASE host[i].th # t
      <4>1. ci'[host[i].th] = ci[host[i].th]
        BY <3>1, <3>2
      <4> QED  BY <3>1, <4>1 DEF PCallAt
    <3>3. CASE host[i].th = t
      <4> SUFFICES ASSUME host[i].op = "pcall"
                   PROVE  /\ host[i].by = "script" => host[i].base > 0 /\ ci'[t][host[i].base] = "pcall"
                          /\ \A p \in host[i].base + 1 .. Len(ci'[t]) : ci'[t][p] # "ypcall"
        BY <3>3 DEF PCallAt
      <4>1. /\ host[i].by = "script" => host[i].base > 0 /\ ci[t][host[i].base] = "pcall"
            /\ \A p \in host[i].base + 1 .. Len(ci[t]) : ci[t][p] # "ypcall"
        BY <3>1, <3>3 DEF PCallAt
      <4>2. host[i].base \in Nat /\ host[i].base < Len(ci'[t])
        BY <1>1, <1>2, <3>3
      <4>3. ASSUME host[i].by = "script" PROVE host[i].base > 0 /\ ci'[t][host[i].base] = "pcall"
        <5>1. host[i].base \in 1 .. Len(ci'[t]) - 1
          BY <1>1, <4>1, <4>2, <4>3
        <5> QED  BY <4>1, <4>3, <5>1
      <4>4. ASSUME NEW p \in host[i].base + 1 .. Len(ci'[t]) PROVE ci'[t][p] # "ypcall"
        <5>1. \/ p = Len(ci'[t])
              \/ p \in 1 .. Len(ci'[t]) - 1 /\ p \in host[i].base + 1 .. Len(ci[t])
          BY <1>1, <4>2
        <5> QED  BY <4>1, <5>1
      <4> QED  BY <4>3, <4>4
    <3> QED  BY <3>2, <3>3
  <2>2. ASSUME NEW u \in LuaThreads PROVE PCallHandled(u)'
    <3> SUFFICES ASSUME NEW p \in 1 .. Len(ci'[u]) - 1, NEW k \in 1 .. Len(host),
                        ci'[u][p] = "pcall", host[k].th = u, host[k].base < p
                 PROVE  \E i \in 1 .. Len(host) :
                          host[i].th = u /\ host[i].op = "pcall" /\ host[i].base = p
      BY DEF PCallHandled
    <3>1. p \in 1 .. Len(ci[u]) - 1 /\ ci[u][p] = "pcall"
      <4>1. CASE u = t
        BY <1>1, <4>1
      <4>2. CASE u # t
        BY <4>2
      <4> QED  BY <4>1, <4>2
    <3>2. PCallHandled(u)
      BY DEF IInv, PCallsKnown
    <3> QED  BY <3>1, <3>2 DEF PCallHandled
  <2> QED  BY <2>1, <2>2 DEF PCallsKnown
<1> QED  BY <1>3, <1>4, <1>5, <1>6, <1>7 DEF IInv

\* An exception leaves the C stack; the main thread has had a call that nobody ends.
LEMMA ExceptionInv ==
  ASSUME IInv, Types', host # <<>>, host' = <<>>, thrown' = thrown + 1, lost' = nCcalls[Main],
         UNCHANGED <<ci, nCcalls, nny, status, errorJmp>>
  PROVE  IInv'
<1>1. /\ Len(host) \in Nat \ {0} /\ thrown \in Nat /\ Main \in LuaThreads
      /\ host \in Seq(Activation) /\ Len(host') = 0
  BY StateTypes
<1>2. SoundHost'
  BY <1>1 DEF SoundHost, SoundStack
<1>3. ASSUME NEW t \in LuaThreads PROVE Known(t)'
  <2>1. Chained(host, thrown, errorJmp[t], t, Len(host) + 1)
    BY DEF IInv, Known, KnownAs
  <2>2. errorJmp[t] = NoJmp \/ errorJmp[t][1] < thrown + 1
    <3>1. CASE Stale(thrown, errorJmp[t])
      <4>1. errorJmp[t] \in Nat \X Nat
        BY StateTypes
      <4> QED  BY <1>1, <3>1, <4>1 DEF Stale
    <3>2. CASE \E j \in 1 .. Len(host) : errorJmp[t] = <<thrown, j>>
      BY <1>1, <3>2
    <3> QED  BY <1>1, <2>1, <3>1, <3>2 DEF Chained
  <2>3. Chained(host', thrown', errorJmp'[t], t, Len(host') + 1)
    BY <1>1, <2>2 DEF Chained, Stale
  <2> QED  BY <1>1, <2>3 DEF Known, KnownAs
<1>4. MainKnown'
  <2>1. host[1].th = Main
    <3>1. Shape(host, 1)
      BY <1>1, StateTypes, SMTT(30) DEF SoundAt
    <3> QED  BY <3>1 DEF Shape
  <2>2. PICK i \in 1 .. Len(host) : LastOf(host, Main, i)
    <3>1. 1 \in 1 .. Len(host)
      BY <1>1
    <3> QED  BY <1>1, <2>1, <3>1, HasLast
  <2>3. nny[Main] = NnyAfter(host[i])
    BY <1>1, <2>2 DEF IInv, Known, KnownAs
  <2>4. SoundAt(host, i, thrown, lost) /\ host[i] \in Activation /\ host[i].th = Main
    BY <2>2, StateTypes DEF LastOf
  <2>5. NnyAfter(host[i]) >= 2 + thrown /\ NnyAfter(host[i]) \in Nat
    BY <2>4, ActivationFields DEF SoundAt, Counted
  <2>6. nny[Main] >= 1 + (thrown + 1)
    BY <1>1, <2>3, <2>5
  <2>7. thrown' # 0
    BY <1>1
  <2> QED  BY <2>6, <2>7 DEF IInv, MainKnown
<1>5. CoKnown' /\ PCallsKnown'
  BY <1>1 DEF IInv, CoKnown, PCallsKnown, PCallHandled
<1> QED  BY <1>2, <1>3, <1>4, <1>5 DEF IInv

\* A new coroutine.
LEMMA CreateInv ==
  ASSUME IInv, Types', NEW t \in LuaThreads, Create(t)
  PROVE  IInv'
<1>1. /\ Len(host) \in Nat /\ Main # Co /\ Main \in LuaThreads /\ Co \in LuaThreads /\ Types
  BY StateTypes DEF IInv
<1>2. /\ UNCHANGED <<host, thrown, lost>> /\ \A i \in 1 .. Len(host) : host[i].th # Co
      /\ status'[Co] = "new" /\ errorJmp'[Co] = NoJmp
      /\ ci'[Main] = ci[Main] /\ nCcalls'[Main] = nCcalls[Main] /\ nny'[Main] = nny[Main]
      /\ status'[Main] = status[Main] /\ errorJmp'[Main] = errorJmp[Main]
  BY <1>1 DEF Create, Types, counts
<1>3. SoundHost'
  BY <1>2 DEF IInv, SoundHost
<1>4. Known(Main)'
  BY <1>1, <1>2 DEF IInv, Known
<1>5. Known(Co)'
  BY <1>1, <1>2 DEF Known, KnownAs, Chained, Handles, Stale, LastOf
<1>6. MainKnown' /\ CoKnown'
  BY <1>2 DEF IInv, MainKnown, CoKnown
<1>7. PCallsKnown'
  <2>1. ASSUME NEW i \in 1 .. Len(host') PROVE PCallAt(i)'
    <3>1. PCallAt(i) /\ host[i].th = Main
      BY <1>2, StateTypes, ActivationFields DEF IInv, PCallsKnown, LuaThreads
    <3> QED  BY <1>2, <3>1 DEF PCallAt
  <2>2. PCallHandled(Main)' /\ PCallHandled(Co)'
    BY <1>1, <1>2 DEF IInv, PCallsKnown, PCallHandled
  <2> QED  BY <2>1, <2>2 DEF PCallsKnown, LuaThreads
<1> QED  BY <1>3, <1>4, <1>5, <1>6, <1>7 DEF IInv, LuaThreads

-----------------------------------------------------------------------------
(* The actions.                                                            *)

\* The script is at a call.
LEMMA InFacts ==
  ASSUME IInv, NEW t \in LuaThreads, NEW k, In(t, k)
  PROVE  /\ host # <<>> /\ Thread = t /\ ci[t][Len(ci[t])] = k
         /\ Len(ci[t]) \in Nat \ {0} /\ ci[t] \in Seq(CallInfos)
BY StateTypes DEF In, Top

\* What a call adds to the CallInfo list.
LEMMA OneMore ==
  ASSUME NEW c \in Seq(CallInfos), NEW k \in CallInfos
  PROVE  /\ Append(c, k) \in Seq(CallInfos) /\ Len(Append(c, k)) = Len(c) + 1
         /\ Append(c, k)[Len(c) + 1] = k
         /\ \A p \in 1 .. Len(c) : Append(c, k)[p] = c[p]
OBVIOUS

\* A sequence with two more members.
LEMMA TwoMore ==
  ASSUME NEW c \in Seq(CallInfos), NEW k \in CallInfos, NEW j \in CallInfos
  PROVE  /\ c \o <<k, j>> \in Seq(CallInfos) /\ Len(c \o <<k, j>>) = Len(c) + 2
         /\ (c \o <<k, j>>)[Len(c) + 1] = k /\ (c \o <<k, j>>)[Len(c) + 2] = j
         /\ \A p \in 1 .. Len(c) : (c \o <<k, j>>)[p] = c[p]
<1>1. <<k, j>> \in Seq(CallInfos) /\ Len(<<k, j>>) = 2 /\ <<k, j>>[1] = k /\ <<k, j>>[2] = j
  OBVIOUS
<1> DEFINE d == <<k, j>>
<1> HIDE DEF d
<1>2. /\ c \o d \in Seq(CallInfos) /\ Len(c \o d) = Len(c) + 2
      /\ (c \o d)[Len(c) + 1] = d[1] /\ (c \o d)[Len(c) + 2] = d[2]
      /\ \A p \in 1 .. Len(c) : (c \o d)[p] = c[p]
  BY <1>1 DEF d
<1> QED  BY <1>1, <1>2 DEF d

\* What an activation keeps of its thread has the right types.
LEMMA KeptTypes ==
  ASSUME IInv, NEW t \in LuaThreads
  PROVE  nCcalls[t] \in Nat /\ nny[t] \in Nat /\ errorJmp[t] \in Nat \X Nat /\ Len(ci[t]) \in Nat
BY StateTypes

\* Entries of the CallInfo list are known ones.
LEMMA Kinds == \A k \in {"lua", "c", "resume", "yield", "pcall", "ypcall"} : k \in CallInfos
BY DEF CallInfos

\* The types after a call of the running thread.
LEMMA CallTypes ==
  ASSUME IInv, NEW t \in LuaThreads, ~Overflows(t), NEW a \in Activation,
         NEW h \in Seq(Activation), host' = h,
         NEW c \in Seq(CallInfos), ci' = [ci EXCEPT ![t] = c],
         nCcalls' = [nCcalls EXCEPT ![t] = @ + 1],
         NEW n \in Nat, nny' = [nny EXCEPT ![t] = n],
         NEW e \in Nat \X Nat, errorJmp' = errorJmp \/ errorJmp' = [errorJmp EXCEPT ![t] = e],
         UNCHANGED <<status, process, thrown, lost, tangled>>,
         callbacks' \in 0 .. MaxCallbacks,
         last' \in {"callback", "lookup", "call"}
  PROVE  Types'
<1>1. Types /\ nCcalls[t] \in Nat /\ MaxCCalls \in Nat
  BY StateTypes DEF IInv
<1>2. nCcalls[t] + 1 \in 0 .. MaxCCalls - 1
  BY <1>1, CountsUp
<1>3. nCcalls' \in [LuaThreads -> 0 .. MaxCCalls - 1]
  BY <1>1, <1>2 DEF Types
<1>4. ci' \in [LuaThreads -> Seq(CallInfos)] /\ nny' \in [LuaThreads -> Nat]
      /\ errorJmp' \in [LuaThreads -> Nat \X Nat]
  BY <1>1 DEF Types
<1> QED  BY <1>1, <1>3, <1>4 DEF Types

\* One more call of the script, which needs no C stack.
LEMMA AppendInv ==
  ASSUME IInv, Types', NEW t \in LuaThreads, host # <<>>, Thread = t,
         ci[t][Len(ci[t])] = "lua",
         UNCHANGED <<nCcalls, nny, status, errorJmp, host, thrown, lost>>,
         \A u \in LuaThreads \ {t} : ci'[u] = ci[u],
         Len(ci'[t]) = Len(ci[t]) + 1, ci'[t][Len(ci[t]) + 1] # "ypcall",
         \A p \in 1 .. Len(ci[t]) : ci'[t][p] = ci[t][p]
  PROVE  IInv'
<1>1. Len(ci[t]) \in Nat /\ Len(ci[t]) > Innermost.base /\ Innermost.base \in Nat
  <2>1. Innermost \in Activation /\ Len(ci[t]) > Innermost.base
    BY Running
  <2> QED  BY <2>1, StateTypes, ActivationFields
<1>2. Len(ci'[t]) > Innermost.base /\ ci'[t][Len(ci'[t])] # "ypcall"
  BY <1>1
<1>3. ASSUME NEW p \in 1 .. Len(ci'[t]) - 1
      PROVE  /\ p <= Len(ci[t]) /\ ci'[t][p] = ci[t][p]
             /\ p = Len(ci[t]) => ci[t][p] # "pcall"
  BY <1>1
<1>4. \A u \in LuaThreads : nCcalls'[u] \in Nat
  BY StateTypes
<1>5. ASSUME NEW u \in LuaThreads, NEW i \in 1 .. Len(host), LastOf(host, u, i)
      PROVE  nCcalls'[u] >= CallsAfter(host[i])
  BY <1>5 DEF IInv, Known, KnownAs
<1>6. nny[Main] <= 1 + nCcalls'[Main]
  BY DEF IInv, MainKnown
<1> QED  BY <1>2, <1>3, <1>4, <1>5, <1>6, QuietInv

\* luaD_call or the framework's luaD_pcall of a Lua function.
LEMMA OneCallInv ==
  ASSUME IInv, NEW t \in LuaThreads, host # <<>>, Thread = t, ci[t][Len(ci[t])] # "pcall",
         ci[t] \in Seq(CallInfos), ~Overflows(t),
         NEW a \in Activation, a.th = t, a.op # "resume", a.base = Len(ci[t]),
         a.nCcalls = nCcalls[t], a.nny = nny[t], a.errorJmp = errorJmp[t],
         a.free => a.op = "call", a.op = "pcall" => a.by = "framework",
         host' = Append(host, a), UNCHANGED <<status, process, thrown, lost, tangled>>,
         callbacks' \in 0 .. MaxCallbacks, last' \in {"callback", "lookup", "call"},
         nCcalls' = [nCcalls EXCEPT ![t] = nCcalls[t] + 1],
         nny' = [nny EXCEPT ![t] = NnyAfter(a)],
         errorJmp' = IF a.op = "call" THEN errorJmp
                     ELSE [errorJmp EXCEPT ![t] = <<thrown, Len(host) + 1>>],
         ci' = [ci EXCEPT ![t] = Append(ci[t], "lua")]
  PROVE  IInv'
<1> DEFINE c == Append(ci[t], "lua")
           e == <<thrown, Len(host) + 1>>
<1>1. /\ c \in Seq(CallInfos) /\ Len(c) = Len(ci[t]) + 1 /\ c[Len(ci[t]) + 1] = "lua"
      /\ \A p \in 1 .. Len(ci[t]) : c[p] = ci[t][p]
  BY OneMore, Kinds
<1>2. ci' = [ci EXCEPT ![t] = c]
  OBVIOUS
<1> HIDE DEF c
<1>3. /\ Types /\ nny[t] \in Nat /\ host \in Seq(Activation) /\ nCcalls[t] \in Nat
      /\ Len(ci[t]) \in Nat /\ NnyAfter(a) \in Nat /\ thrown \in Nat /\ Len(host) \in Nat
  BY StateTypes, ActivationFields DEF IInv
<1>4. Types'
  <2>1. Append(host, a) \in Seq(Activation) /\ e \in Nat \X Nat
    BY <1>3
  <2>2. errorJmp' = errorJmp \/ errorJmp' = [errorJmp EXCEPT ![t] = e]
    OBVIOUS
  <2> HIDE DEF e
  <2>3. nCcalls' = [nCcalls EXCEPT ![t] = @ + 1]
    OBVIOUS
  <2> QED  BY <1>1, <1>2, <1>3, <2>1, <2>2, <2>3, CallTypes
<1>5. ci'[t] = c /\ \A u \in LuaThreads \ {t} : ci'[u] = ci[u]
  BY <1>2, <1>3 DEF Types
<1>6. CallsAfter(a) = nCcalls[t] + 1
  BY DEF CallsAfter
<1>7. \A p \in Len(ci[t]) + 1 .. Len(ci'[t]) : ci'[t][p] = "lua"
  <2>1. \A p \in Len(ci[t]) + 1 .. Len(ci'[t]) : p = Len(ci[t]) + 1
    BY <1>1, <1>3, <1>5
  <2> QED  BY <1>1, <1>5, <2>1
<1>8. Len(ci'[t]) = a.base + 1 /\ a.base >= Len(ci[t])
      /\ \A p \in 1 .. Len(ci[t]) : ci'[t][p] = ci[t][p]
  BY <1>1, <1>3, <1>5
<1>9. nCcalls' = [nCcalls EXCEPT ![t] = CallsAfter(a)]
  BY <1>6
<1>10. ~(a.op = "pcall" /\ a.by = "script")
  OBVIOUS
<1> QED  BY <1>4, <1>5, <1>7, <1>8, <1>9, <1>10, CallInv

\* Out of a packet method of the main thread the framework may call.
LEMMA MayCallFacts ==
  ASSUME IInv, MayCall, ~OutOfCoroutine, host # <<>>
  PROVE  /\ Thread = Main /\ ci[Main] \in Seq(CallInfos) /\ Len(ci[Main]) \in Nat \ {0}
         /\ ci[Main][Len(ci[Main])] = "c"
<1>1. Len(host) \in 1 .. Len(host) /\ host[Len(host)] \in Activation
  BY StateTypes
<1>2. Thread \in {Main, Co}
  BY <1>1, ActivationFields DEF Thread, Innermost, LuaThreads
<1>3. Thread = Main
  BY <1>2 DEF OutOfCoroutine
<1> QED  BY <1>3, StateTypes DEF MayCall, Top

\* The framework's activation.
LEMMA EnterMainIs ==
  ASSUME IInv, NEW op \in {"pcall", "call"}
  PROVE  LET a == EnterMain(op)
         IN  /\ a \in Activation /\ a.op = op /\ a.th = Main /\ a.base = Len(ci[Main])
             /\ a.free = FALSE /\ a.by = "framework" /\ a.nCcalls = nCcalls[Main]
             /\ a.nny = nny[Main] /\ a.errorJmp = errorJmp[Main]
             /\ NnyAfter(a) = nny[Main] + 1
<1>1. /\ nCcalls[Main] \in Nat /\ nny[Main] \in Nat /\ errorJmp[Main] \in Nat \X Nat
      /\ Len(ci[Main]) \in Nat /\ Main \in LuaThreads
  BY StateTypes
<1> DEFINE a == EnterMain(op)
           b == Enter(op, Main, Len(ci[Main]), FALSE)
<1>2. b \in Activation
  BY <1>1 DEF Enter, Activation
<1>3. /\ a.op = op /\ a.by = "framework" /\ a.th = Main /\ a.base = Len(ci[Main]) /\ a.free = FALSE
      /\ a.nCcalls = nCcalls[Main] /\ a.nny = nny[Main] /\ a.errorJmp = errorJmp[Main]
  BY DEF EnterMain, Enter
<1>4. a \in Activation
  <2> HIDE DEF b
  <2>1. [b EXCEPT !.by = "framework"] \in Activation
    BY <1>2 DEF Activation
  <2> QED  BY <2>1 DEF EnterMain, b
<1> HIDE DEF a
<1>5. NnyAfter(a) = nny[Main] + 1
  BY <1>3 DEF NnyAfter
<1> QED  BY <1>3, <1>4, <1>5 DEF a

\* The framework calls a function of the script, or is refused.
LEMMA CallbackInv ==
  ASSUME IInv, Callback, ~tangled'
  PROVE  IInv'
<1>1. Types /\ callbacks' \in 0 .. MaxCallbacks /\ Main \in LuaThreads /\ MayCall
      /\ ci[Main] \in Seq(CallInfos) /\ nny[Main] \in Nat /\ nCcalls[Main] \in Nat /\ thrown \in Nat
      /\ UNCHANGED <<status, process, thrown, lost>>
  <2>1. Types /\ MaxCallbacks \in Nat
    BY Limits DEF IInv
  <2>2. callbacks' \in 0 .. MaxCallbacks
    BY <2>1 DEF Types, Callback
  <2> QED  BY <2>1, <2>2, StateTypes DEF Callback
<1>2. CASE Overflows(Main)
  <2>1. Types'
    BY <1>1, <1>2 DEF Callback, Types
  <2> QED  BY <1>1, <1>2, <2>1, Unmoved DEF Callback
<1>3. CASE ~Overflows(Main)
  <2> DEFINE a == EnterMain("pcall")
  <2>1. /\ a \in Activation /\ a.op = "pcall" /\ a.th = Main /\ a.base = Len(ci[Main]) /\ ~a.free
        /\ a.nCcalls = nCcalls[Main] /\ a.nny = nny[Main] /\ a.errorJmp = errorJmp[Main]
        /\ a.by = "framework" /\ NnyAfter(a) = nny[Main] + 1
    BY EnterMainIs
  <2>2. /\ last' = "callback" /\ host' = Append(host, a)
        /\ errorJmp' = [errorJmp EXCEPT ![Main] = <<thrown, Len(host) + 1>>]
        /\ nCcalls' = [nCcalls EXCEPT ![Main] = nCcalls[Main] + 1]
        /\ nny' = [nny EXCEPT ![Main] = nny[Main] + 1]
        /\ ci' = [ci EXCEPT ![Main] = Append(ci[Main], "lua")]
        /\ tangled' = (tangled \/ OutOfCoroutine)
    BY <1>1, <1>3, CountsUp DEF Callback
  <2>3. tangled' = tangled /\ ~OutOfCoroutine
    BY <1>1, <2>2 DEF Types
  <2> HIDE DEF a
  <2>4. CASE host = <<>>
    <3>1. host' = <<a>> /\ errorJmp' = [errorJmp EXCEPT ![Main] = <<thrown, 1>>]
      <4>1. Append(<<>>, a) = <<a>> /\ Len(<<>>) + 1 = 1
        OBVIOUS
      <4> QED  BY <2>2, <2>4, <4>1
    <3>2. Types'
      <4>1. <<a>> \in Seq(Activation) /\ <<thrown, 1>> \in Nat \X Nat /\ nny[Main] + 1 \in Nat
        BY <1>1, <2>1
      <4>2. Append(ci[Main], "lua") \in Seq(CallInfos)
        BY <1>1, OneMore, Kinds
      <4>3. nCcalls' = [nCcalls EXCEPT ![Main] = @ + 1]
        BY <2>2
      <4> QED  BY <1>1, <1>3, <2>1, <2>2, <2>3, <3>1, <4>1, <4>2, <4>3, CallTypes
    <3>3. /\ nCcalls' = [nCcalls EXCEPT ![Main] = @ + 1] /\ nny' = [nny EXCEPT ![Main] = @ + 1]
          /\ ci' = [ci EXCEPT ![Main] = Append(@, "lua")]
      BY <2>2
    <3> QED  BY <1>1, <2>1, <2>4, <3>1, <3>2, <3>3, FirstInv
  <2>5. CASE host # <<>>
    <3>1. Thread = Main /\ ci[Main][Len(ci[Main])] # "pcall"
      BY <1>1, <2>3, <2>5, MayCallFacts
    <3> QED  BY <1>1, <1>3, <2>1, <2>2, <2>3, <2>5, <3>1, OneCallInv
  <2> QED  BY <2>4, <2>5
<1> QED  BY <1>2, <1>3

\* The framework looks the function up; an error there goes to the handlers there are.
LEMMA LookupInv ==
  ASSUME IInv, Lookup, ~tangled'
  PROVE  IInv'
<1>1. Types /\ Main \in LuaThreads /\ callbacks' \in 0 .. MaxCallbacks /\ MayCall
      /\ ci[Main] \in Seq(CallInfos) /\ nny[Main] \in Nat /\ nCcalls[Main] \in Nat /\ thrown \in Nat
      /\ errorJmp[Main] \in Nat \X Nat
  <2>1. Types /\ MaxCallbacks \in Nat
    BY Limits DEF IInv
  <2>2. callbacks' \in 0 .. MaxCallbacks
    BY <2>1 DEF Types, Lookup
  <2> QED  BY <2>1, <2>2, StateTypes DEF Lookup
<1>2. last' = "lookup" /\ UNCHANGED <<thrown, lost, tangled>> /\ ~OutOfCoroutine
  BY <1>1 DEF Lookup, Types
<1>3. CASE Overflows(Main) /\ host = <<>>
  <2>1. Unwind(Main, ci[Main])
    BY <1>3 DEF Lookup
  <2>2. ~(errorJmp[Main] # NoJmp /\ errorJmp[Main][1] = thrown)
    <3>1. errorJmp[Main] = NoJmp \/ errorJmp[Main][1] < thrown
      BY <1>1, <1>3, NoHandler
    <3> QED  BY <1>1, <3>1
  <2>3. /\ process' \in {"aborts", "undefined"}
        /\ UNCHANGED <<ci, nCcalls, nny, status, errorJmp, host>>
    BY <2>1, <2>2 DEF Unwind
  <2>4. Types'
    BY <1>1, <1>2, <2>3 DEF Types
  <2> QED  BY <1>2, <2>3, <2>4, Unmoved
<1>4. CASE Overflows(Main) /\ host # <<>>
  <2>1. Unwind(Main, ci[Main]) /\ Thread = Main
    BY <1>1, <1>2, <1>4, MayCallFacts DEF Lookup
  <2>2. Ends(Main, ci[Main])
    BY StateTypes DEF Ends
  <2> QED  BY <1>1, <1>2, <1>4, <2>1, <2>2, ErrorInv
<1>5. CASE ~Overflows(Main)
  <2> DEFINE a == EnterMain("call")
  <2>1. /\ a \in Activation /\ a.op = "call" /\ a.th = Main /\ a.base = Len(ci[Main]) /\ ~a.free
        /\ a.nCcalls = nCcalls[Main] /\ a.nny = nny[Main] /\ a.errorJmp = errorJmp[Main]
        /\ a.by = "framework" /\ NnyAfter(a) = nny[Main] + 1
    BY EnterMainIs
  <2>2. /\ host' = Append(host, a)
        /\ nCcalls' = [nCcalls EXCEPT ![Main] = nCcalls[Main] + 1]
        /\ nny' = [nny EXCEPT ![Main] = nny[Main] + 1]
        /\ ci' = [ci EXCEPT ![Main] = Append(ci[Main], "lua")]
        /\ UNCHANGED <<status, errorJmp, process>>
    BY <1>1, <1>5, CountsUp DEF Lookup
  <2> HIDE DEF a
  <2>3. CASE host = <<>>
    <3>1. host' = <<a>>
      <4>1. Append(<<>>, a) = <<a>>
        OBVIOUS
      <4> QED  BY <2>2, <2>3, <4>1
    <3>2. Types'
      <4>1. <<a>> \in Seq(Activation) /\ nny[Main] + 1 \in Nat
        BY <1>1, <2>1
      <4>2. Append(ci[Main], "lua") \in Seq(CallInfos)
        BY <1>1, OneMore, Kinds
      <4>3. nCcalls' = [nCcalls EXCEPT ![Main] = @ + 1]
        BY <2>2
      <4> QED  BY <1>1, <1>2, <1>5, <2>1, <2>2, <3>1, <4>1, <4>2, <4>3, CallTypes
    <3>3. /\ nCcalls' = [nCcalls EXCEPT ![Main] = @ + 1] /\ nny' = [nny EXCEPT ![Main] = @ + 1]
          /\ ci' = [ci EXCEPT ![Main] = Append(@, "lua")]
      BY <2>2
    <3> QED  BY <1>1, <1>2, <2>1, <2>2, <2>3, <3>1, <3>2, <3>3, FirstInv
  <2>4. CASE host # <<>>
    <3>1. Thread = Main /\ ci[Main][Len(ci[Main])] # "pcall"
      BY <1>1, <1>2, <2>4, MayCallFacts
    <3> QED  BY <1>1, <1>2, <1>5, <2>1, <2>2, <2>4, <3>1, OneCallInv
  <2> QED  BY <2>3, <2>4
<1> QED  BY <1>3, <1>4, <1>5

\* The coroutine is the only thread that can ever yield: see MainKnown.
LEMMA OnlyCoYields ==
  ASSUME IInv, NEW t \in LuaThreads, nny[t] = 0 \/ status[t] # "ok"
  PROVE  t = Co
<1>1. nny[Main] >= 1 + thrown /\ thrown \in Nat /\ status[Main] = "ok"
  BY StateTypes DEF IInv, MainKnown
<1>2. nny[Main] # 0
  BY <1>1
<1> QED  BY <1>1, <1>2 DEF LuaThreads

\* luaD_call of a C function.
LEMMA CallFromCInv ==
  ASSUME IInv, NEW t \in LuaThreads, CallFromC(t)
  PROVE  IInv'
<1>1. /\ host # <<>> /\ Thread = t /\ ci[t][Len(ci[t])] = "c" /\ Len(ci[t]) \in Nat \ {0}
      /\ ci[t] \in Seq(CallInfos)
  BY InFacts DEF CallFromC
<1>2. CASE Overflows(t)
  <2>1. Throw(t, ci[t]) /\ Ends(t, ci[t])
    BY <1>1, <1>2 DEF CallFromC, Ends
  <2> QED  BY <1>1, <2>1, ThrowInv
<1>3. CASE ~Overflows(t)
  <2> DEFINE a == Enter("call", t, Len(ci[t]), FALSE)
  <2>1. /\ a \in Activation /\ a.op = "call" /\ a.th = t /\ a.base = Len(ci[t]) /\ a.free = FALSE
        /\ a.nCcalls = nCcalls[t] /\ a.nny = nny[t] /\ a.errorJmp = errorJmp[t]
    BY <1>1, KeptTypes DEF Enter, Activation
  <2>2. Types /\ NnyAfter(a) = nny[t] + 1
    BY <2>1 DEF NnyAfter, IInv
  <2>3. /\ ci' = [ci EXCEPT ![t] = Append(ci[t], "lua")] /\ host' = Append(host, a)
        /\ nCcalls' = [nCcalls EXCEPT ![t] = nCcalls[t] + 1] /\ last' = "call"
        /\ UNCHANGED <<status, errorJmp, process, thrown, lost, callbacks, tangled>>
    BY <1>3, CountsUp DEF CallFromC, counts
  <2>4. nny' = [nny EXCEPT ![t] = NnyAfter(a)]
    BY <1>3, <2>2 DEF CallFromC, Types
  <2>5. callbacks' \in 0 .. MaxCallbacks
    BY <2>2, <2>3 DEF Types
  <2> HIDE DEF a
  <2> QED  BY <1>1, <1>3, <2>1, <2>3, <2>4, <2>5, OneCallInv
<1> QED  BY <1>2, <1>3

\* A metamethod or an iterator.
LEMMA CallMetamethodInv ==
  ASSUME IInv, NEW t \in LuaThreads, CallMetamethod(t)
  PROVE  IInv'
<1>1. /\ host # <<>> /\ Thread = t /\ ci[t][Len(ci[t])] = "lua" /\ Len(ci[t]) \in Nat \ {0}
      /\ ci[t] \in Seq(CallInfos)
  BY InFacts DEF CallMetamethod
<1>2. CASE Overflows(t)
  <2>1. Throw(t, ci[t]) /\ Ends(t, ci[t])
    BY <1>1, <1>2 DEF CallMetamethod, Ends
  <2> QED  BY <1>1, <2>1, ThrowInv
<1>3. CASE ~Overflows(t)
  <2> DEFINE a == Enter("call", t, Len(ci[t]), TRUE)
  <2>1. /\ a \in Activation /\ a.op = "call" /\ a.th = t /\ a.base = Len(ci[t]) /\ a.free = TRUE
        /\ a.nCcalls = nCcalls[t] /\ a.nny = nny[t] /\ a.errorJmp = errorJmp[t]
    BY <1>1, KeptTypes DEF Enter, Activation
  <2>2. Types /\ NnyAfter(a) = nny[t]
    BY <2>1 DEF NnyAfter, IInv
  <2>3. /\ ci' = [ci EXCEPT ![t] = Append(ci[t], "lua")] /\ host' = Append(host, a)
        /\ nCcalls' = [nCcalls EXCEPT ![t] = nCcalls[t] + 1] /\ last' = "call"
        /\ UNCHANGED <<status, errorJmp, process, thrown, lost, callbacks, tangled>>
    BY <1>3, CountsUp DEF CallMetamethod, counts
  <2>4. nny' = [nny EXCEPT ![t] = NnyAfter(a)]
    BY <1>3, <2>2 DEF CallMetamethod, Types
  <2>5. callbacks' \in 0 .. MaxCallbacks
    BY <2>2, <2>3 DEF Types
  <2> HIDE DEF a
  <2> QED  BY <1>1, <1>3, <2>1, <2>3, <2>4, <2>5, OneCallInv
<1> QED  BY <1>2, <1>3

\* pcall in a coroutine that may yield.
LEMMA YieldablePCallInv ==
  ASSUME IInv, NEW t \in LuaThreads, YieldablePCall(t)
  PROVE  IInv'
<1>1. /\ host # <<>> /\ Thread = t /\ ci[t][Len(ci[t])] = "lua" /\ Len(ci[t]) \in Nat \ {0}
      /\ ci[t] \in Seq(CallInfos) /\ nny[t] = 0 /\ t = Co
  BY InFacts, OnlyCoYields DEF YieldablePCall
<1>2. CASE Overflows(t)
  <2>1. Throw(t, Append(ci[t], "ypcall"))
    BY <1>2 DEF YieldablePCall
  <2>2. Ends(t, Append(ci[t], "ypcall"))
    BY <1>1, OneMore, Kinds DEF Ends
  <2> QED  BY <1>1, <2>1, <2>2, ThrowInv
<1>3. CASE ~Overflows(t)
  <2> DEFINE a == Enter("call", t, Len(ci[t]) + 1, TRUE)
             c == ci[t] \o <<"ypcall", "lua">>
  <2>1. /\ a \in Activation /\ a.op = "call" /\ a.th = t /\ a.base = Len(ci[t]) + 1 /\ a.free
        /\ a.nCcalls = nCcalls[t] /\ a.nny = nny[t] /\ a.errorJmp = errorJmp[t]
    BY <1>1, KeptTypes DEF Enter, Activation
  <2>2. /\ ci' = [ci EXCEPT ![t] = c] /\ host' = Append(host, a)
        /\ nCcalls' = [nCcalls EXCEPT ![t] = nCcalls[t] + 1] /\ last' = "call"
        /\ UNCHANGED <<nny, status, errorJmp, process, counts>>
    BY <1>3, CountsUp DEF YieldablePCall
  <2>3. /\ c \in Seq(CallInfos) /\ Len(c) = Len(ci[t]) + 2
        /\ c[Len(ci[t]) + 1] = "ypcall" /\ c[Len(ci[t]) + 2] = "lua"
        /\ \A p \in 1 .. Len(ci[t]) : c[p] = ci[t][p]
    BY <1>1, TwoMore, Kinds
  <2> HIDE DEF a, c
  <2>4. Types /\ host \in Seq(Activation) /\ nCcalls[t] \in Nat /\ errorJmp[t] \in Nat \X Nat
    BY StateTypes DEF IInv
  <2>5. nny' = [nny EXCEPT ![t] = nny[t]] /\ nny[t] \in Nat
    BY <1>1, <2>2, <2>4 DEF Types
  <2>6. Types'
    <3>1. Append(host, a) \in Seq(Activation)
      BY <2>1, <2>4
    <3>2. callbacks' \in 0 .. MaxCallbacks
      BY <2>2, <2>4 DEF Types, counts
    <3> QED  BY <1>3, <2>1, <2>2, <2>3, <2>4, <2>5, <3>1, <3>2, CallTypes DEF counts
  <2>7. ci'[t] = c /\ \A u \in LuaThreads \ {t} : ci'[u] = ci[u]
    BY <2>2, <2>4 DEF Types
  <2>8. CallsAfter(a) = nCcalls[t] + 1 /\ NnyAfter(a) = nny[t]
    BY <2>1 DEF CallsAfter, NnyAfter
  <2>9. /\ a.base >= Len(ci[t]) /\ a.op # "resume" /\ a.op # "pcall"
        /\ Len(ci'[t]) = a.base + 1 /\ ci[t][Len(ci[t])] # "pcall"
        /\ nCcalls' = [nCcalls EXCEPT ![t] = CallsAfter(a)]
        /\ nny' = [nny EXCEPT ![t] = NnyAfter(a)]
        /\ errorJmp' = IF a.op = "call" THEN errorJmp
                       ELSE [errorJmp EXCEPT ![t] = <<thrown, Len(host) + 1>>]
        /\ thrown' = thrown /\ lost' = lost /\ status' = status
    <3>1. /\ a.base >= Len(ci[t]) /\ a.op # "resume" /\ a.op # "pcall"
          /\ Len(ci'[t]) = a.base + 1 /\ ci[t][Len(ci[t])] # "pcall"
      BY <1>1, <2>1, <2>3, <2>7
    <3>2. /\ nCcalls' = [nCcalls EXCEPT ![t] = CallsAfter(a)]
          /\ nny' = [nny EXCEPT ![t] = NnyAfter(a)]
      BY <2>2, <2>5, <2>8
    <3> QED  BY <2>1, <2>2, <3>1, <3>2 DEF counts
  <2>10. \A p \in 1 .. Len(ci[t]) : ci'[t][p] = ci[t][p]
    BY <2>3, <2>7
  <2>11. ASSUME NEW p \in Len(ci[t]) + 1 .. Len(ci'[t])
         PROVE  /\ ci'[t][p] = "ypcall" => a.op = "call" /\ t = Co /\ nny[t] = 0 /\ p <= a.base
                /\ ci'[t][p] = "pcall" => a.op = "pcall" /\ p = a.base
    <3>1. p = Len(ci[t]) + 1 \/ p = Len(ci[t]) + 2
      BY <1>1, <2>3, <2>7
    <3>2. ci'[t][p] # "pcall" /\ (ci'[t][p] = "ypcall" => p = Len(ci[t]) + 1)
      BY <2>3, <2>7, <3>1
    <3> QED  BY <1>1, <2>1, <3>2
  <2>12. /\ a.free => a.op = "call"
         /\ a.op = "pcall" /\ a.by = "script" => a.base > Len(ci[t]) /\ ci'[t][a.base] = "pcall"
    <3>1. a.op = "call" /\ a.op # "pcall"
      BY <1>1, <2>1
    <3> QED  BY <3>1
  <2>13. a.nCcalls = nCcalls[t] /\ a.nny = nny[t] /\ a.errorJmp = errorJmp[t] /\ a \in Activation /\ a.th = t
    BY <2>1
  <2>14. host # <<>> /\ Thread = t /\ host' = Append(host, a) /\ UNCHANGED <<status, thrown, lost>>
         /\ \A u \in LuaThreads \ {t} : ci'[u] = ci[u]
    BY <1>1, <2>2, <2>7, <2>9
  <2> QED  BY <2>6, <2>9, <2>10, <2>11, <2>12, <2>13, <2>14, CallInv
<1> QED  BY <1>2, <1>3

\* luaD_pcall.
LEMMA PCallInv ==
  ASSUME IInv, NEW t \in LuaThreads, PCall(t)
  PROVE  IInv'
<1>1. /\ host # <<>> /\ Thread = t /\ ci[t][Len(ci[t])] = "lua" /\ Len(ci[t]) \in Nat \ {0}
      /\ ci[t] \in Seq(CallInfos) /\ Types
      /\ last' = "call" /\ UNCHANGED <<status, process, counts>>
  BY InFacts DEF PCall, IInv
<1>2. CASE Overflows(t)
  <2> DEFINE c == Append(ci[t], "pcall")
  <2>1. ci' = [ci EXCEPT ![t] = c] /\ UNCHANGED <<nCcalls, nny, errorJmp, host>>
    BY <1>2 DEF PCall
  <2>2. /\ c \in Seq(CallInfos) /\ Len(c) = Len(ci[t]) + 1 /\ c[Len(ci[t]) + 1] = "pcall"
        /\ \A p \in 1 .. Len(ci[t]) : c[p] = ci[t][p]
    BY <1>1, OneMore, Kinds
  <2> HIDE DEF c
  <2>3. ci'[t] = c /\ ci' \in [LuaThreads -> Seq(CallInfos)]
        /\ \A u \in LuaThreads \ {t} : ci'[u] = ci[u]
    BY <1>1, <2>1, <2>2 DEF Types
  <2>4. Types'
    BY <1>1, <2>1, <2>3 DEF Types, counts
  <2> QED  BY <1>1, <2>1, <2>2, <2>3, <2>4, AppendInv DEF counts
<1>3. CASE ~Overflows(t)
  <2> DEFINE a == Enter("pcall", t, Len(ci[t]) + 1, FALSE)
             c == ci[t] \o <<"pcall", "lua">>
             e == <<thrown, Len(host) + 1>>
  <2>1. /\ a \in Activation /\ a.op = "pcall" /\ a.th = t /\ a.base = Len(ci[t]) + 1 /\ ~a.free
        /\ a.nCcalls = nCcalls[t] /\ a.nny = nny[t] /\ a.errorJmp = errorJmp[t]
    BY <1>1, KeptTypes DEF Enter, Activation
  <2>2. /\ ci' = [ci EXCEPT ![t] = c] /\ host' = Append(host, a)
        /\ errorJmp' = [errorJmp EXCEPT ![t] = e]
        /\ nCcalls' = [nCcalls EXCEPT ![t] = nCcalls[t] + 1]
        /\ nny' = [nny EXCEPT ![t] = nny[t] + 1]
    BY <1>3, CountsUp DEF PCall
  <2>3. /\ c \in Seq(CallInfos) /\ Len(c) = Len(ci[t]) + 2
        /\ c[Len(ci[t]) + 1] = "pcall" /\ c[Len(ci[t]) + 2] = "lua"
        /\ \A p \in 1 .. Len(ci[t]) : c[p] = ci[t][p]
    BY <1>1, TwoMore, Kinds
  <2>4. /\ host \in Seq(Activation) /\ nCcalls[t] \in Nat /\ nny[t] \in Nat /\ e \in Nat \X Nat
    BY StateTypes
  <2> HIDE DEF a, c
  <2>5. Types'
    <3>1. Append(host, a) \in Seq(Activation) /\ nny[t] + 1 \in Nat
      BY <2>1, <2>4
    <3>2. callbacks' \in 0 .. MaxCallbacks
      BY <1>1 DEF Types, counts
    <3> HIDE DEF e
    <3> QED  BY <1>1, <1>3, <2>1, <2>2, <2>3, <2>4, <3>1, <3>2, CallTypes DEF counts
  <2>6. ci'[t] = c /\ \A u \in LuaThreads \ {t} : ci'[u] = ci[u]
    BY <1>1, <2>2 DEF Types
  <2>7. CallsAfter(a) = nCcalls[t] + 1 /\ NnyAfter(a) = nny[t] + 1
    BY <2>1 DEF CallsAfter, NnyAfter
  <2>8. /\ a.base >= Len(ci[t]) /\ a.base > Len(ci[t]) /\ a.op # "resume"
        /\ Len(ci'[t]) = a.base + 1 /\ ci[t][Len(ci[t])] # "pcall" /\ ci'[t][a.base] = "pcall"
        /\ nCcalls' = [nCcalls EXCEPT ![t] = CallsAfter(a)]
        /\ nny' = [nny EXCEPT ![t] = NnyAfter(a)]
        /\ errorJmp' = IF a.op = "call" THEN errorJmp
                       ELSE [errorJmp EXCEPT ![t] = <<thrown, Len(host) + 1>>]
        /\ thrown' = thrown /\ lost' = lost /\ status' = status
    BY <1>1, <2>1, <2>2, <2>3, <2>6, <2>7 DEF counts
  <2> HIDE DEF e
  <2>9. \A p \in 1 .. Len(ci[t]) : ci'[t][p] = ci[t][p]
    BY <2>3, <2>6
  <2>10. ASSUME NEW p \in Len(ci[t]) + 1 .. Len(ci'[t])
         PROVE  ci'[t][p] # "ypcall" /\ (ci'[t][p] = "pcall" => p = a.base)
    <3>1. p = Len(ci[t]) + 1 \/ p = Len(ci[t]) + 2
      BY <1>1, <2>3, <2>6
    <3> QED  BY <2>1, <2>3, <2>6, <3>1
  <2>11. \A p \in Len(ci[t]) + 1 .. Len(ci'[t]) :
           /\ ci'[t][p] = "ypcall" => a.op = "call" /\ t = Co /\ nny[t] = 0 /\ p <= a.base
           /\ ci'[t][p] = "pcall" => a.op = "pcall" /\ p = a.base
    BY <2>1, <2>10
  <2>12. a.free => a.op = "call"
    BY <2>1
  <2> QED  BY <1>1, <2>1, <2>2, <2>5, <2>6, <2>8, <2>9, <2>11, <2>12, CallInv
<1> QED  BY <1>2, <1>3

\* A call without the C stack.
LEMMA CallStepInv ==
  ASSUME IInv, NEW t \in LuaThreads, Call(t)
  PROVE  IInv'
<1>1. /\ host # <<>> /\ Thread = t /\ ci[t][Len(ci[t])] = "lua" /\ Len(ci[t]) \in Nat \ {0}
      /\ ci[t] \in Seq(CallInfos) /\ Types
      /\ last' = "call" /\ UNCHANGED <<nCcalls, nny, status, errorJmp, host, process, counts>>
  BY InFacts DEF Call, IInv
<1>2. PICK k \in {"lua", "c"} : ci' = [ci EXCEPT ![t] = Append(ci[t], k)]
  BY DEF Call
<1> DEFINE c == Append(ci[t], k)
<1>3. /\ c \in Seq(CallInfos) /\ Len(c) = Len(ci[t]) + 1 /\ c[Len(ci[t]) + 1] = k
      /\ \A p \in 1 .. Len(ci[t]) : c[p] = ci[t][p]
  BY <1>1, OneMore, Kinds
<1>4. ci' = [ci EXCEPT ![t] = c]
  BY <1>2
<1> HIDE DEF c
<1>5. ci'[t] = c /\ ci' \in [LuaThreads -> Seq(CallInfos)]
      /\ \A u \in LuaThreads \ {t} : ci'[u] = ci[u]
  BY <1>1, <1>3, <1>4 DEF Types
<1>6. Types'
  BY <1>1, <1>5 DEF Types, counts
<1> QED  BY <1>1, <1>3, <1>5, <1>6, AppendInv DEF counts

\* error() and its like.
LEMMA ErrorStepInv ==
  ASSUME IInv, NEW t \in LuaThreads, Error(t)
  PROVE  IInv'
<1>1. host # <<>> /\ Thread = t /\ Throw(t, ci[t])
  BY DEF Error, In
<1>2. Ends(t, ci[t])
  BY StateTypes DEF Ends
<1> QED  BY <1>1, <1>2, ThrowInv

\* lua_resume of the coroutine.
LEMMA ResumeStepInv ==
  ASSUME IInv, NEW t \in LuaThreads, NEW u \in LuaThreads, Resume(t, u)
  PROVE  IInv'
<1>1. /\ host # <<>> /\ Thread = t /\ ci[t][Len(ci[t])] = "lua" /\ Len(ci[t]) \in Nat \ {0}
      /\ ci[t] \in Seq(CallInfos) /\ Types /\ status[u] \in {"new", "yield"} /\ ~Overflows(t)
  BY InFacts DEF Resume, Resumable, IInv
<1>2. u = Co
  BY <1>1, OnlyCoYields
<1>3. t = Main /\ Main \in LuaThreads /\ Co \in LuaThreads /\ Main # Co
  <2>1. ASSUME t = Co PROVE FALSE
    <3>1. host[Len(host)].th = Co /\ Len(host) \in 1 .. Len(host)
      BY <1>1, <2>1, Running
    <3>2. status[Co] = "ok"
      BY <3>1 DEF IInv, CoKnown
    <3> QED  BY <1>1, <1>2, <3>2
  <2> QED  BY <2>1, StateTypes DEF LuaThreads
<1> DEFINE a == [Enter("resume", Co, 0, FALSE) EXCEPT !.nCcalls = nCcalls[Main] + 1]
           c == Append(ci[Main], "resume")
           d == IF status[Co] = "new" THEN <<"lua">> ELSE Under(ci[Co], Len(ci[Co]) - 1)
           e == <<thrown, Len(host) + 1>>
<1>11. Short(nCcalls[Main] + 1) = nCcalls[Main] + 1
  BY <1>3, CountsUp
<1>4. /\ a \in Activation /\ a.op = "resume" /\ a.th = Co /\ a.base = 0 /\ ~a.free
      /\ a.nCcalls = nCcalls[Main] + 1 /\ a.nny = nny[Co] /\ a.errorJmp = errorJmp[Co]
  <2>1. nCcalls[Co] \in Nat /\ nny[Co] \in Nat /\ errorJmp[Co] \in Nat \X Nat /\ nCcalls[Main] + 1 \in Nat
    BY <1>3, KeptTypes
  <2>2. Enter("resume", Co, 0, FALSE) \in Activation
    BY <1>3, <2>1 DEF Enter, Activation
  <2>3. a \in Activation
    <3> DEFINE b == Enter("resume", Co, 0, FALSE)
               k == nCcalls[Main] + 1
    <3>1. b \in Activation /\ k \in Nat
      BY <2>1, <2>2
    <3> HIDE DEF b, k
    <3>2. [b EXCEPT !.nCcalls = k] \in Activation
      BY <3>1 DEF Activation
    <3> QED  BY <3>2 DEF b, k
  <2>4. /\ a.op = "resume" /\ a.th = Co /\ a.base = 0 /\ ~a.free
        /\ a.nCcalls = nCcalls[Main] + 1 /\ a.nny = nny[Co] /\ a.errorJmp = errorJmp[Co]
    BY DEF Enter
  <2> QED  BY <2>3, <2>4
<1>5. /\ c \in Seq(CallInfos)
      /\ d \in Seq(CallInfos) /\ Len(d) > 0 /\ \A p \in 1 .. Len(d) : d[p] # "pcall"
  <2>1. c \in Seq(CallInfos)
    BY <1>1, <1>3, OneMore, Kinds
  <2>2. CASE status[Co] = "new"
    <3>1. <<"lua">> \in Seq(CallInfos) /\ Len(<<"lua">>) = 1 /\ <<"lua">>[1] = "lua"
      BY Kinds
    <3> QED  BY <2>1, <2>2, <3>1
  <2>3. CASE status[Co] = "yield"
    <3>1. /\ ci[Co] \in Seq(CallInfos) /\ Len(ci[Co]) \in Nat /\ Len(ci[Co]) >= 2
          /\ \A p \in 1 .. Len(ci[Co]) : ci[Co][p] # "pcall"
      BY <1>3, <2>3, StateTypes DEF IInv, CoKnown
    <3>2. d = SubSeq(ci[Co], 1, Len(ci[Co]) - 1)
      BY <2>3 DEF Under
    <3> HIDE DEF d
    <3> QED  BY <2>1, <3>1, <3>2
  <2> QED  BY <1>1, <1>2, <2>2, <2>3
<1>6. /\ ci' = [ci EXCEPT ![Main] = c, ![Co] = d]
      /\ host' = Append(host, a) /\ errorJmp' = [errorJmp EXCEPT ![Co] = e]
      /\ nCcalls' = [nCcalls EXCEPT ![Co] = nCcalls[Main] + 1]
      /\ nny' = [nny EXCEPT ![Co] = 0] /\ status' = [status EXCEPT ![Co] = "ok"]
      /\ last' = "resume" /\ UNCHANGED <<process, counts>>
  BY <1>2, <1>3, <1>11 DEF Resume
<1> HIDE DEF a, c, d
<1>7. /\ ci' \in [LuaThreads -> Seq(CallInfos)] /\ ci'[Main] = c /\ ci'[Co] = d
  BY <1>1, <1>3, <1>5, <1>6 DEF Types
<1>8. nCcalls[Main] + 1 \in 0 .. MaxCCalls - 1 /\ nCcalls[Main] + 1 < MaxCCalls
  BY <1>1, <1>3, StateTypes, CountsUp
<1>9. Types'
  <2>1. host' \in Seq(Activation) /\ e \in Nat \X Nat
    BY <1>4, <1>6, StateTypes
  <2> HIDE DEF e
  <2>2. nCcalls' \in [LuaThreads -> 0 .. MaxCCalls - 1] /\ nny' \in [LuaThreads -> Nat]
    BY <1>1, <1>6, <1>8 DEF Types
  <2>3. status' \in [LuaThreads -> {"new", "ok", "yield", "dead"}]
        /\ errorJmp' \in [LuaThreads -> Nat \X Nat]
    BY <1>1, <1>6, <2>1 DEF Types
  <2> QED  BY <1>1, <1>6, <1>7, <2>1, <2>2, <2>3 DEF Types, counts
<1>10. ci'[Main] = Append(ci[Main], "resume")
  BY <1>7 DEF c
<1> QED  BY <1>1, <1>3, <1>4, <1>5, <1>6, <1>7, <1>8, <1>9, <1>10, ResumeInv DEF counts

\* The first activation is the main thread's, and the one that runs counts at least the
\* calls of every other.
LEMMA FirstAndInnermost ==
  ASSUME IInv, host # <<>>, NEW t \in LuaThreads, Thread = t
  PROVE  /\ 1 \in 1 .. Len(host) /\ host[1].th = Main
         /\ \A i \in 1 .. Len(host) : nCcalls[t] >= CallsAfter(host[i])
<1>1. 1 \in 1 .. Len(host) /\ Len(host) \in Nat \ {0}
  BY Running
<1>2. host[1].th = Main
  <2>1. Shape(host, 1)
    BY <1>1, StateTypes DEF SoundAt
  <2> QED  BY <2>1 DEF Shape
<1>3. ASSUME NEW i \in 1 .. Len(host) PROVE nCcalls[t] >= CallsAfter(host[i])
  <2> DEFINE b == host[Len(host)]
  <2>1. b \in Activation /\ nCcalls[t] >= CallsAfter(b) /\ SoundAt(host, Len(host), thrown, lost)
    BY Running
  <2>2. CallsAfter(host[i]) \in Nat /\ CallsAfter(b) \in Nat /\ nCcalls[t] \in Nat
    BY <2>1, StateTypes, ActivationFields
  <2>3. i = Len(host) \/ i \in 1 .. Len(host) - 1
    BY <1>1
  <2>4. i \in 1 .. Len(host) - 1 => CallsAfter(host[i]) < CallsAfter(b)
    BY <2>1 DEF SoundAt, Counted
  <2> QED  BY <2>1, <2>2, <2>3, <2>4
<1> QED  BY <1>1, <1>2, <1>3

\* lua_resume that returns an error at once.
LEMMA ResumeErrorInv ==
  ASSUME IInv, NEW t \in LuaThreads, NEW u \in LuaThreads, ResumeError(t, u)
  PROVE  IInv'
<1>1. /\ host # <<>> /\ Thread = t /\ ci[t][Len(ci[t])] = "lua" /\ Len(ci[t]) \in Nat \ {0}
      /\ ci[t] \in Seq(CallInfos) /\ Types
      /\ nCcalls' = [nCcalls EXCEPT ![u] = nCcalls[t]] /\ last' = "resume"
      /\ UNCHANGED <<nny, status, errorJmp, host, process, counts>>
  BY InFacts DEF ResumeError, IInv
<1> DEFINE c == Append(ci[t], "resume")
<1>2. /\ c \in Seq(CallInfos) /\ Len(c) = Len(ci[t]) + 1 /\ c[Len(ci[t]) + 1] = "resume"
      /\ \A p \in 1 .. Len(ci[t]) : c[p] = ci[t][p]
  BY <1>1, OneMore, Kinds
<1>3. ci' = [ci EXCEPT ![t] = c]
  BY DEF ResumeError
<1> HIDE DEF c
<1>4. ci'[t] = c /\ ci' \in [LuaThreads -> Seq(CallInfos)]
      /\ \A v \in LuaThreads \ {t} : ci'[v] = ci[v]
  BY <1>1, <1>2, <1>3 DEF Types
<1>5. Types'
  <2>1. nCcalls' \in [LuaThreads -> 0 .. MaxCCalls - 1]
    BY <1>1 DEF Types
  <2> QED  BY <1>1, <1>4, <2>1 DEF Types, counts
<1>6. \A v \in LuaThreads : nCcalls'[v] \in Nat /\ nCcalls'[v] = IF v = u THEN nCcalls[t] ELSE nCcalls[v]
  BY <1>1, StateTypes DEF Types
<1>7. ASSUME NEW v \in LuaThreads, NEW i \in 1 .. Len(host), LastOf(host, v, i)
      PROVE  nCcalls'[v] >= CallsAfter(host[i])
  <2>1. nCcalls[v] >= CallsAfter(host[i])
    BY <1>7 DEF IInv, Known, KnownAs
  <2>2. nCcalls[t] >= CallsAfter(host[i])
    BY <1>1, FirstAndInnermost
  <2> QED  BY <1>6, <2>1, <2>2
<1>8. nny[Main] <= 1 + nCcalls'[Main]
  <2>1. PICK i \in 1 .. Len(host) : LastOf(host, Main, i)
    <3>1. 1 \in 1 .. Len(host) /\ host[1].th = Main
      BY <1>1, FirstAndInnermost
    <3> QED  BY <3>1, StateTypes, HasLast
  <2>2. nny[Main] = NnyAfter(host[i]) /\ nCcalls'[Main] >= CallsAfter(host[i])
    BY <1>7, <2>1, StateTypes DEF IInv, Known, KnownAs
  <2>3. SoundAt(host, i, thrown, lost) /\ host[i] \in Activation /\ host[i].th = Main
    BY <2>1, StateTypes DEF LastOf
  <2>4. /\ NnyAfter(host[i]) <= host[i].nny + 1 /\ CallsAfter(host[i]) = host[i].nCcalls + 1
        /\ host[i].nny <= 1 + host[i].nCcalls /\ NnyAfter(host[i]) \in Nat
        /\ host[i].nny \in Nat /\ host[i].nCcalls \in Nat
    BY <2>3, ActivationFields DEF SoundAt, Shape, Counted, NnyAfter, CallsAfter
  <2>5. nCcalls'[Main] \in Nat
    BY <1>6, StateTypes
  <2> QED  BY <2>2, <2>4, <2>5
<1>9. Len(ci'[t]) > Innermost.base /\ ci'[t][Len(ci'[t])] # "ypcall"
  <2>1. Innermost \in Activation /\ Len(ci[t]) > Innermost.base
    BY <1>1, Running
  <2>2. Innermost.base \in Nat
    BY <2>1, ActivationFields
  <2> QED  BY <1>1, <1>2, <1>4, <2>1, <2>2
<1>10. ASSUME NEW p \in 1 .. Len(ci'[t]) - 1
       PROVE  /\ p <= Len(ci[t]) /\ ci'[t][p] = ci[t][p]
              /\ p = Len(ci[t]) => ci[t][p] # "pcall"
  BY <1>1, <1>2, <1>4
<1> QED  BY <1>1, <1>4, <1>5, <1>6, <1>7, <1>8, <1>9, <1>10, QuietInv DEF counts

\* A coroutine that may yield has its handler in the lua_resume that runs it.
LEMMA YieldHandler ==
  ASSUME IInv, host # <<>>, Thread = Co, nny[Co] = 0
  PROVE  /\ errorJmp[Co] # NoJmp /\ errorJmp[Co][1] = thrown
         /\ errorJmp[Co][2] \in 1 .. Len(host) /\ host[errorJmp[Co][2]].op = "resume"
<1>1. Co \in LuaThreads /\ Main # Co /\ Len(host) \in Nat \ {0}
      /\ Len(host) \in 1 .. Len(host) /\ host[Len(host)].th = Co
  BY StateTypes, Running
<1>2. PICK j \in 1 .. Len(host) : host[j].op = "resume" /\ host[j].th = Co
  <2> DEFINE S == {j \in 1 .. Len(host) : host[j].th = Co}
  <2>1. S \in SUBSET Nat /\ S # {}
    BY <1>1
  <2>2. PICK j \in S : \A i \in S : j <= i
    BY <2>1, NatMin
  <2>3. j # 1
    BY <1>1, <2>2, FirstAndInnermost
  <2>4. j - 1 \in 1 .. Len(host) /\ j > 1 /\ j \in 1 .. Len(host) /\ host[j].th = Co
    BY <2>2, <2>3
  <2>5. host[j - 1].th # Co
    BY <2>2, <2>4
  <2>6. Shape(host, j)
    BY <2>4, StateTypes DEF SoundAt
  <2> QED  BY <2>4, <2>5, <2>6 DEF Shape
<1>3. Chained(host, thrown, errorJmp[Co], Co, Len(host) + 1)
  BY <1>1, Running
<1>4. Handles(host[j], Co)
  BY <1>2 DEF Handles
<1>5. PICK n \in 1 .. Len(host) : Handles(host[n], Co) /\ errorJmp[Co] = <<thrown, n>>
  BY <1>1, <1>3, <1>4 DEF Chained
<1>6. host[n].op = "resume"
  <2>1. Leaves(host[n]) /\ host[n].op # "pcall" /\ host[n].th = Co /\ host[n].op # "call"
    BY <1>5, AllLeave DEF Handles
  <2>2. host[n].op \in {"pcall", "call", "resume"}
    BY StateTypes, ActivationFields
  <2> QED  BY <2>1, <2>2
<1>7. errorJmp[Co][1] = thrown /\ errorJmp[Co][2] = n /\ errorJmp[Co] # NoJmp
  BY <1>1, <1>5 DEF NoJmp
<1> QED  BY <1>5, <1>6, <1>7

\* coroutine.yield: back to lua_resume, or an error.
LEMMA YieldInv ==
  ASSUME IInv, NEW t \in LuaThreads, Yield(t)
  PROVE  IInv'
<1>1. /\ host # <<>> /\ Thread = t /\ ci[t][Len(ci[t])] = "lua" /\ Len(ci[t]) \in Nat \ {0}
      /\ ci[t] \in Seq(CallInfos) /\ Types /\ nny[t] \in Nat
  BY InFacts, StateTypes DEF Yield, IInv
<1> DEFINE c == Append(ci[t], "yield")
<1>2. /\ c \in Seq(CallInfos) /\ Len(c) = Len(ci[t]) + 1 /\ c[Len(ci[t]) + 1] = "yield"
      /\ \A p \in 1 .. Len(ci[t]) : c[p] = ci[t][p]
  BY <1>1, OneMore, Kinds
<1>3. CASE nny[t] > 0
  <2>1. Throw(t, c)
    BY <1>3 DEF Yield
  <2>2. Ends(t, c)
    BY <1>1, <1>2 DEF Ends
  <2> HIDE DEF c
  <2> QED  BY <1>1, <2>1, <2>2, ThrowInv
<1>4. CASE nny[t] = 0
  <2> DEFINE n == errorJmp[t][2]
             m == n - 1
  <2>1. t = Co /\ Main # Co /\ Main \in LuaThreads /\ Co \in LuaThreads
    BY <1>4, OnlyCoYields, StateTypes
  <2>2. /\ ci' = [ci EXCEPT ![t] = c] /\ host' = Under(host, n - 1)
        /\ nCcalls' = [nCcalls EXCEPT ![t] = Short(host[n].nCcalls - 1)]
        /\ errorJmp' = [errorJmp EXCEPT ![t] = host[n].errorJmp]
        /\ nny' = [nny EXCEPT ![t] = host[n].nny]
        /\ status' = [status EXCEPT ![t] = "yield"]
        /\ last' = "yield" /\ UNCHANGED <<process, counts>>
    BY <1>1, <1>4 DEF Yield, Restore
  <2>3. /\ n \in 1 .. Len(host) /\ host[n].op = "resume"
        /\ errorJmp[t] # NoJmp /\ errorJmp[t][1] = thrown
    BY <1>1, <1>4, <2>1, YieldHandler
  <2>4. host[n].th = Co /\ \A k \in n + 1 .. Len(host) : host[k].th = Co
    BY <1>1, <2>1, <2>3, LiveHandler
  <2>5. m \in 0 .. Len(host) - 1 /\ m + 1 = n /\ \A k \in m + 1 .. Len(host) : host[k].th = Co
    <3>1. n \in Nat /\ Len(host) \in Nat
      BY <2>3, StateTypes
    <3> QED  BY <2>3, <2>4, <3>1, SMTT(30)
  <2>6. /\ host[n] \in Activation /\ host[n].nCcalls \in Nat /\ host[n].nCcalls < MaxCCalls
        /\ host[n].nny \in Nat /\ host[n].errorJmp \in Nat \X Nat
        /\ SoundAt(host, n, thrown, lost) /\ MaxCCalls \in Nat
    BY <2>3, StateTypes, ActivationFields DEF SoundAt, Counted
  <2>7. host[n].nCcalls - 1 \in 0 .. MaxCCalls - 1
    <3>1. CallsAfter(host[n]) >= n + lost /\ lost \in Nat /\ CallsAfter(host[n]) = host[n].nCcalls
      BY <2>3, <2>6, StateTypes DEF SoundAt, Counted, CallsAfter
    <3>2. n >= 1 /\ n \in Nat
      BY <2>3
    <3> HIDE DEF n
    <3> QED  BY <2>6, <3>1, <3>2
  <2>12. nCcalls' = [nCcalls EXCEPT ![t] = host[n].nCcalls - 1]
    <3>1. host[n].nCcalls - 1 \in 0 .. MaxCCalls
      BY <2>6, <2>7
    <3>2. Short(host[n].nCcalls - 1) = host[n].nCcalls - 1
      BY <3>1, ShortIs
    <3> QED  BY <2>2, <3>2
  <2> HIDE DEF c
  <2>8. ci'[Co] = c /\ ci'[Main] = ci[Main] /\ ci' \in [LuaThreads -> Seq(CallInfos)]
        /\ status'[Main] = status[Main]
    BY <1>1, <1>2, <2>1, <2>2 DEF Types
  <2>9. Types'
    <3>1. nCcalls' \in [LuaThreads -> 0 .. MaxCCalls - 1]
      BY <1>1, <2>7, <2>12 DEF Types
    <3>2. nny' \in [LuaThreads -> Nat] /\ errorJmp' \in [LuaThreads -> Nat \X Nat]
      BY <1>1, <2>2, <2>6 DEF Types
    <3>3. status' \in [LuaThreads -> {"new", "ok", "yield", "dead"}]
      BY <1>1, <2>2 DEF Types
    <3>4. host' \in Seq(Activation)
      <4>1. host \in Seq(Activation)
        BY StateTypes
      <4> QED  BY <2>2, <2>3, <4>1 DEF Under
    <3> QED  BY <1>1, <2>2, <2>8, <3>1, <3>2, <3>3, <3>4 DEF Types, counts
  <2>10. Len(ci'[Co]) >= 2
    BY <1>1, <1>2, <2>1, <2>8
  <2>11. ASSUME NEW p \in 1 .. Len(ci'[Co]), ci'[Co][p] = "pcall" PROVE FALSE
    <3>1. p \in 1 .. Len(ci[Co]) - 1 /\ ci[Co][p] = "pcall"
      <4>1. p = Len(ci[Co]) + 1 \/ p = Len(ci[Co]) \/ p \in 1 .. Len(ci[Co]) - 1
        BY <1>1, <1>2, <2>1, <2>8
      <4>2. p # Len(ci[Co]) + 1 /\ p # Len(ci[Co])
        BY <1>1, <1>2, <2>1, <2>8, <2>11
      <4>3. p \in 1 .. Len(ci[Co])
        BY <1>1, <2>1, <4>1, <4>2
      <4> QED  BY <1>2, <2>1, <2>8, <2>11, <4>1, <4>2, <4>3
    <3>2. host[n].base < p
      BY <2>3, <2>6 DEF SoundAt, Shape
    <3>3. PCallHandled(Co)
      BY <2>1 DEF IInv, PCallsKnown
    <3>4. PICK i \in 1 .. Len(host) : host[i].th = Co /\ host[i].op = "pcall"
      BY <2>3, <2>4, <3>1, <3>2, <3>3 DEF PCallHandled
    <3> QED  BY <1>1, <1>4, <2>1, <3>4, AllLeave
  <2> QED  BY <2>1, <2>2, <2>3, <2>5, <2>8, <2>9, <2>10, <2>11, <2>12, LeaveCoroutine DEF counts
<1> QED  BY <1>1, <1>3, <1>4

\* The CallInfo list after a return.
LEMMA ReturnedFacts ==
  ASSUME NEW c \in Seq(CallInfos), Len(c) > 0
  PROVE  /\ Returned(c) \in Seq(CallInfos) /\ Len(Returned(c)) = Len(c) - 1
         /\ \A p \in 1 .. Len(c) - 1 :
              \/ Returned(c)[p] = c[p] /\ (p = Len(c) - 1 => c[p] # "ypcall")
              \/ p = Len(c) - 1 /\ c[p] = "ypcall" /\ Returned(c)[p] = "pcall"
<1> DEFINE r == SubSeq(c, 1, Len(c) - 1)
<1>1. r \in Seq(CallInfos) /\ Len(r) = Len(c) - 1 /\ Len(c) \in Nat
      /\ \A p \in 1 .. Len(c) - 1 : r[p] = c[p]
  <2> DEFINE m == Len(c) - 1
  <2>1. Len(c) \in Nat /\ m \in 0 .. Len(c)
    OBVIOUS
  <2> HIDE DEF m
  <2>2. /\ SubSeq(c, 1, m) \in Seq(CallInfos) /\ Len(SubSeq(c, 1, m)) = m
        /\ \A p \in 1 .. m : SubSeq(c, 1, m)[p] = c[p]
    BY <2>1
  <2> QED  BY <2>1, <2>2 DEF m
<1> HIDE DEF r
<1>2. Returned(c) = IF r # <<>> /\ r[Len(r)] = "ypcall" THEN [r EXCEPT ![Len(r)] = "pcall"] ELSE r
  BY DEF Returned, Under, r
<1>3. CASE r # <<>> /\ r[Len(r)] = "ypcall"
  <2> DEFINE d == [r EXCEPT ![Len(r)] = "pcall"]
  <2>1. Len(r) \in 1 .. Len(r)
    BY <1>1, <1>3
  <2>2. "pcall" \in CallInfos
    BY Kinds
  <2>3. d \in Seq(CallInfos) /\ Len(d) = Len(r) /\ d[Len(r)] = "pcall"
        /\ \A p \in 1 .. Len(r) : p # Len(r) => d[p] = r[p]
    BY <1>1, <2>1, <2>2
  <2>4. Returned(c) = d
    BY <1>2, <1>3
  <2> HIDE DEF d
  <2> QED  BY <1>1, <1>3, <2>1, <2>3, <2>4
<1>4. CASE ~(r # <<>> /\ r[Len(r)] = "ypcall")
  <2>1. Returned(c) = r
    BY <1>2, <1>4
  <2>2. \A p \in 1 .. Len(c) - 1 : p = Len(c) - 1 => c[p] # "ypcall"
    BY <1>1, <1>4
  <2> QED  BY <1>1, <2>1, <2>2
<1> QED  BY <1>3, <1>4

\* A call returns, and luaD_call, luaD_pcall or lua_resume with it.
LEMMA ReturnInv ==
  ASSUME IInv, NEW t \in LuaThreads, Return(t)
  PROVE  IInv'
<1> DEFINE b == host[Len(host)]
           c == Returned(ci[t])
           m == Len(host) - 1
<1>1. /\ host # <<>> /\ Thread = t /\ ci' = [ci EXCEPT ![t] = c] /\ last' = "return"
      /\ UNCHANGED <<status, process, thrown, callbacks, tangled>> /\ Types
  BY DEF Return, IInv
<1>2. /\ Innermost = b /\ b \in Activation /\ b.th = t /\ Len(ci[t]) > b.base
      /\ SoundAt(host, Len(host), thrown, lost) /\ nny[t] = NnyAfter(b)
      /\ nCcalls[t] >= CallsAfter(b) /\ Chained(host, thrown, errorJmp[t], t, Len(host) + 1)
      /\ Len(host) \in Nat \ {0} /\ Len(host) \in 1 .. Len(host)
  BY <1>1, Running
<1>3. /\ b.base \in Nat /\ b.nCcalls \in Nat /\ b.nny \in Nat /\ b.errorJmp \in Nat \X Nat
      /\ b.op \in {"pcall", "call", "resume"}
      /\ CallsAfter(b) \in Nat /\ ci[t] \in Seq(CallInfos) /\ Len(ci[t]) \in Nat
      /\ nCcalls[t] \in Nat /\ nCcalls[t] < MaxCCalls /\ nny[t] \in Nat /\ MaxCCalls \in Nat
      /\ b.nCcalls < MaxCCalls /\ lost \in Nat /\ host \in Seq(Activation)
  BY <1>2, StateTypes, ActivationFields DEF SoundAt, Counted
<1> HIDE DEF b, c
<1>4. /\ c \in Seq(CallInfos) /\ Len(c) = Len(ci[t]) - 1
      /\ \A p \in 1 .. Len(ci[t]) - 1 :
           \/ c[p] = ci[t][p] /\ (p = Len(ci[t]) - 1 => ci[t][p] # "ypcall")
           \/ p = Len(ci[t]) - 1 /\ ci[t][p] = "ypcall" /\ c[p] = "pcall"
  <2>1. Len(ci[t]) > 0
    BY <1>2, <1>3, SMTT(30)
  <2> QED  BY <1>3, <2>1, ReturnedFacts DEF c
<1>5. ci'[t] = c /\ ci' \in [LuaThreads -> Seq(CallInfos)]
      /\ \A u \in LuaThreads \ {t} : ci'[u] = ci[u]
  BY <1>1, <1>4 DEF Types
<1>6. CASE Len(ci[t]) - 1 > Innermost.base
  <2>1. UNCHANGED <<nCcalls, nny, errorJmp, host, lost>>
    BY <1>6 DEF Return
  <2>2. Types'
    BY <1>1, <1>5, <2>1 DEF Types
  <2>3. Len(ci'[t]) > Innermost.base /\ ci'[t][Len(ci'[t])] # "ypcall"
    <3>1. Len(c) \in 1 .. Len(ci[t]) - 1 /\ Len(c) = Len(ci[t]) - 1
      BY <1>2, <1>3, <1>4, <1>6, SMTT(30)
    <3> QED  BY <1>4, <1>5, <1>6, <3>1
  <2>4. ASSUME NEW p \in 1 .. Len(ci'[t]) - 1
        PROVE  /\ p <= Len(ci[t]) /\ ci'[t][p] = ci[t][p]
               /\ p = Len(ci[t]) => ci[t][p] # "pcall"
    <3>1. p \in 1 .. Len(ci[t]) - 1 /\ p # Len(ci[t]) - 1 /\ p < Len(ci[t])
      BY <1>3, <1>4, <1>5, SMTT(30)
    <3> QED  BY <1>4, <1>5, <3>1
  <2>5. \A u \in LuaThreads : nCcalls'[u] \in Nat
    BY <2>1, StateTypes
  <2>6. ASSUME NEW u \in LuaThreads, NEW i \in 1 .. Len(host), LastOf(host, u, i)
        PROVE  nCcalls'[u] >= CallsAfter(host[i])
    BY <2>1, <2>6 DEF IInv, Known, KnownAs
  <2>7. nny[Main] <= 1 + nCcalls'[Main]
    BY <2>1 DEF IInv, MainKnown
  <2> QED  BY <1>1, <1>5, <2>1, <2>2, <2>3, <2>4, <2>5, <2>6, <2>7, QuietInv
<1>7. CASE ~(Len(ci[t]) - 1 > Innermost.base)
  <2>1. Len(c) = b.base /\ b.base < Len(ci[t])
    <3>1. Len(ci[t]) \in Nat /\ b.base \in Nat /\ Len(ci[t]) > b.base /\ Len(c) = Len(ci[t]) - 1
      BY <1>2, <1>3, <1>4
    <3>2. ~(Len(ci[t]) - 1 > b.base)
      BY <1>2, <1>7
    <3> QED  BY <3>1, <3>2
  <2>2. m \in 0 .. Len(host) - 1 /\ m + 1 = Len(host) /\ host[m + 1] = b
        /\ \A k \in m + 1 .. Len(host) : host[k].th = t
    <3>1. m \in 0 .. Len(host) - 1 /\ m + 1 = Len(host)
      BY <1>2
    <3> QED  BY <1>2, <3>1 DEF b
  <2>3. host' = Under(host, m) /\ host' \in Seq(Activation)
    <3>1. host' = Under(host, m)
      BY <1>7 DEF Return
    <3> QED  BY <1>2, <1>3, <3>1 DEF Under
  <2>9. CallsAfter(b) >= 1 /\ Short(nCcalls[t] - 1) = nCcalls[t] - 1
    <3>1. CallsAfter(b) >= Len(host) + lost
      BY <1>2 DEF SoundAt, Counted, b
    <3>2. CallsAfter(b) >= 1
      BY <1>2, <1>3, <3>1
    <3>3. nCcalls[t] - 1 \in 0 .. MaxCCalls
      <4>1. nCcalls[t] \in Nat /\ CallsAfter(b) \in Nat /\ MaxCCalls \in Nat
            /\ nCcalls[t] < MaxCCalls /\ nCcalls[t] >= CallsAfter(b)
        BY <1>2, <1>3
      <4> QED  BY <3>2, <4>1
    <3> QED  BY <3>2, <3>3, ShortIs
  <2>4. lost' = IF Len(host) = 1 /\ b.op = "call" THEN nCcalls[t] - 1 ELSE lost
    BY <1>2, <1>7, <2>9 DEF Return
  <2>5. \A p \in 1 .. Len(ci'[t]) :
          ci'[t][p] = ci[t][p] \/ (p = Len(ci'[t]) /\ ci[t][p] = "ypcall" /\ ci'[t][p] = "pcall")
    BY <1>4, <1>5
  <2>6. Len(host) = 1 => b.nCcalls = lost
    BY <1>2 DEF SoundAt, Counted, b
  <2>7. CASE b.op = "call"
    <3> DEFINE calls == nCcalls[t] - 1
    <3>1. CallsAfter(b) = b.nCcalls + 1 /\ calls \in Nat /\ calls >= b.nCcalls
          /\ calls \in 0 .. MaxCCalls - 1
      <4>1. CallsAfter(b) = b.nCcalls + 1
        BY <2>7 DEF CallsAfter
      <4>2. nCcalls[t] >= b.nCcalls + 1 /\ b.nCcalls \in Nat /\ nCcalls[t] \in Nat
            /\ nCcalls[t] < MaxCCalls /\ MaxCCalls \in Nat
        BY <1>2, <1>3, <4>1
      <4> QED  BY <4>1, <4>2
    <3>2. /\ nCcalls' = [nCcalls EXCEPT ![t] = calls] /\ errorJmp' = errorJmp
          /\ nny' = [nny EXCEPT ![t] = IF b.free THEN nny[t] ELSE nny[t] - 1]
      BY <1>2, <1>7, <2>7, <2>9 DEF Return
    <3>3. nny' = [nny EXCEPT ![t] = b.nny]
      <4>1. (IF b.free THEN nny[t] ELSE nny[t] - 1) = b.nny
        BY <1>2, <1>3, <2>7 DEF NnyAfter
      <4> QED  BY <3>2, <4>1
    <3>4. Chained(host, thrown, errorJmp'[t], t, m + 1)
      <4> HIDE DEF m
      <4>1. Len(host) \in Nat /\ m \in 0 .. Len(host) /\ \A j \in m + 1 .. Len(host) : j = Len(host)
        BY <1>2, <2>2
      <4>2. ~Handles(host[Len(host)], t)
        BY <2>7 DEF Handles, b
      <4>3. \A j \in m + 1 .. Len(host) : ~Handles(host[j], t)
        BY <4>1, <4>2
      <4>4. Chained(host, thrown, errorJmp[t], t, Len(host) + 1)
        BY <1>2
      <4>5. Chained(host, thrown, errorJmp[t], t, m + 1)
        BY <4>1, <4>3, <4>4, ChainedDown
      <4> QED  BY <3>2, <4>5
    <3>5. /\ lost' \in Nat /\ (lost' = lost \/ m = 0) /\ (m = 0 => calls = lost')
      BY <1>2, <1>3, <2>4, <2>7, <3>1
    <3> HIDE DEF calls, m
    <3>6. Types'
      <4>1. nCcalls' \in [LuaThreads -> 0 .. MaxCCalls - 1] /\ nny' \in [LuaThreads -> Nat]
        BY <1>1, <1>3, <3>1, <3>2, <3>3 DEF Types
      <4> QED  BY <1>1, <1>5, <2>3, <3>2, <3>5, <4>1 DEF Types
    <3>7. nCcalls'[t] = calls
      BY <1>1, <3>2 DEF Types
    <3>8. host[m + 1].op # "resume" /\ calls >= host[m + 1].nCcalls
          /\ nny' = [nny EXCEPT ![t] = host[m + 1].nny]
          /\ Len(ci'[t]) = host[m + 1].base /\ host[m + 1].base < Len(ci[t])
      BY <1>5, <2>1, <2>2, <2>7, <3>1, <3>3
    <3>9. \A u \in LuaThreads \ {t} : errorJmp'[u] = errorJmp[u] /\ ci'[u] = ci[u]
      BY <1>5, <3>2
    <3> QED  BY <1>1, <2>2, <2>3, <2>5, <3>1, <3>2, <3>4, <3>5, <3>6, <3>7, <3>8, <3>9, LeaveCall
  <2>8. CASE b.op # "call"
    <3> DEFINE calls == IF b.op = "pcall" THEN b.nCcalls ELSE b.nCcalls - 1
    <3>1. nCcalls' = [nCcalls EXCEPT ![t] = calls] /\ Restore(t, b) /\ lost' = lost
      <4>1. b.op # "pcall" => Short(b.nCcalls - 1) = b.nCcalls - 1
        <5>1. b.op # "pcall" => CallsAfter(b) = b.nCcalls
          BY <1>3, <2>8 DEF CallsAfter
        <5>2. b.op # "pcall" => b.nCcalls - 1 \in 0 .. MaxCCalls
          BY <1>3, <2>9, <5>1, SMTT(30)
        <5> QED  BY <5>2, ShortIs
      <4> QED  BY <1>2, <1>7, <2>4, <2>8, <4>1 DEF Return
    <3>2. /\ nny' = [nny EXCEPT ![t] = b.nny] /\ errorJmp' = [errorJmp EXCEPT ![t] = b.errorJmp]
      BY <3>1 DEF Restore
    <3>3. calls \in 0 .. MaxCCalls - 1
      <4>1. CallsAfter(b) >= Len(host) + lost
        BY <1>2 DEF SoundAt, Counted, b
      <4>2. Len(host) \in Nat \ {0} /\ lost \in Nat /\ b.nCcalls \in Nat /\ b.nCcalls < MaxCCalls
            /\ MaxCCalls \in Nat
        BY <1>2, <1>3
      <4>3. b.op # "pcall" => CallsAfter(b) = b.nCcalls
        BY <1>3, <2>8 DEF CallsAfter
      <4> QED  BY <4>1, <4>2, <4>3
    <3> HIDE DEF calls
    <3>4. Types'
      <4>1. nCcalls' \in [LuaThreads -> 0 .. MaxCCalls - 1] /\ nny' \in [LuaThreads -> Nat]
            /\ errorJmp' \in [LuaThreads -> Nat \X Nat]
        BY <1>1, <1>3, <3>1, <3>2, <3>3 DEF Types
      <4> QED  BY <1>1, <1>5, <2>3, <3>1, <4>1 DEF Types
    <3>5. errorJmp'[t] = b.errorJmp /\ nCcalls'[t] = calls
          /\ \A u \in LuaThreads \ {t} : errorJmp'[u] = errorJmp[u] /\ ci'[u] = ci[u]
      BY <1>1, <1>5, <3>1, <3>2 DEF Types
    <3>6. CASE b.op = "pcall"
      <4>1. calls = b.nCcalls /\ calls \in Nat /\ calls >= b.nCcalls
        BY <1>3, <3>6 DEF calls
      <4>2. Chained(host, thrown, errorJmp'[t], t, m + 1)
        BY <1>2, <2>2, <2>8, <3>5 DEF SoundAt, b
      <4>3. m = 0 => nCcalls'[t] = lost'
        <5>1. m = 0 => Len(host) = 1
          BY <1>2
        <5> QED  BY <2>6, <3>1, <3>5, <4>1, <5>1
      <4> HIDE DEF m
      <4>4. host[m + 1].op # "resume" /\ calls >= host[m + 1].nCcalls
            /\ nny' = [nny EXCEPT ![t] = host[m + 1].nny]
            /\ Len(ci'[t]) = host[m + 1].base /\ host[m + 1].base < Len(ci[t])
        BY <1>5, <2>1, <2>2, <3>2, <3>6, <4>1
      <4> QED
        BY <1>1, <2>2, <2>3, <2>5, <3>1, <3>4, <3>5, <4>1, <4>2, <4>3, <4>4, LeaveCall
    <3>7. CASE b.op = "resume"
      <4>1. t = Co /\ Main # Co
        BY <1>2, <3>7, StateTypes DEF SoundAt, Shape, b
      <4>2. status[Co] = "ok"
        BY <1>2, <4>1 DEF IInv, CoKnown, b
      <4>3. calls = b.nCcalls - 1
        BY <3>7 DEF calls
      <4>4. ci'[Main] = ci[Main]
        BY <1>5, <4>1 DEF LuaThreads
      <4> HIDE DEF m
      <4>5. host[m + 1].op = "resume"
            /\ nCcalls' = [nCcalls EXCEPT ![Co] = host[m + 1].nCcalls - 1]
            /\ nny' = [nny EXCEPT ![Co] = host[m + 1].nny]
            /\ errorJmp' = [errorJmp EXCEPT ![Co] = host[m + 1].errorJmp]
        BY <2>2, <3>1, <3>2, <3>7, <4>1, <4>3
      <4> QED  BY <1>1, <2>2, <2>3, <3>1, <3>4, <4>1, <4>2, <4>4, <4>5, LeaveCoroutine
    <3> QED  BY <1>3, <2>8, <3>6, <3>7
  <2> QED  BY <2>7, <2>8
<1> QED  BY <1>6, <1>7

\* An exception cuts the C stack off.
LEMMA ExceptionStepInv ==
  ASSUME IInv, NEW t \in LuaThreads, Exception(t), ~tangled'
  PROVE  IInv'
<1>1. host # <<>> /\ Types /\ last' = "exception" /\ thrown < MaxThrown /\ process = "runs"
      /\ UNCHANGED <<ci, nCcalls, nny, status, errorJmp, callbacks>>
  BY DEF Exception, In, IInv
<1>2. CASE Protected = {}
  <2>1. process' = "aborts" /\ UNCHANGED <<host, thrown, lost, tangled>>
    BY <1>2 DEF Exception
  <2>2. Types'
    BY <1>1, <2>1 DEF Types
  <2> QED  BY <1>1, <2>1, <2>2, Unmoved
<1>3. CASE Protected # {}
  <2>1. host' = <<>> /\ thrown' = thrown + 1 /\ lost' = nCcalls[Main] /\ UNCHANGED process
        /\ tangled' = FALSE
    BY <1>1, <1>3 DEF Exception, Types
  <2>2. nCcalls[Main] \in Nat /\ thrown' \in 0 .. MaxThrown /\ host' \in Seq(Activation)
    <3>1. host' \in Seq(Activation) /\ nCcalls[Main] \in Nat
      BY <2>1, StateTypes
    <3>2. thrown \in 0 .. MaxThrown
      BY <1>1 DEF Types
    <3> QED  BY <1>1, <2>1, <3>1, <3>2, Limits
  <2>3. Types'
    BY <1>1, <2>1, <2>2 DEF Types
  <2> QED  BY <1>1, <2>1, <2>3, ExceptionInv
<1> QED  BY <1>2, <1>3

\* A new coroutine.
LEMMA CreateStepInv ==
  ASSUME IInv, NEW t \in LuaThreads, Create(t)
  PROVE  IInv'
<1>1. Types'
  <2>1. Types /\ NoJmp \in Nat \X Nat /\ <<>> \in Seq(CallInfos) /\ 0 \in 0 .. MaxCCalls - 1
    BY Limits DEF IInv, NoJmp
  <2> QED  BY <2>1 DEF Create, Types, counts
<1> QED  BY <1>1, CreateInv

-----------------------------------------------------------------------------
(* The theorems.                                                           *)

\* The inductive invariant holds before the first callback.
LEMMA InitInv ==
  ASSUME Init
  PROVE  IInv
<1>1. Main \in LuaThreads /\ Co \in LuaThreads /\ Main # Co
  BY Limits
<1>2. /\ host = <<>> /\ Len(host) = 0 /\ thrown = 0 /\ lost = 0
      /\ nny[Main] = 1 /\ nCcalls[Main] = 0 /\ status[Main] = "ok" /\ status[Co] = "new"
      /\ \A t \in LuaThreads : ci[t] = <<>> /\ Len(ci[t]) = 0 /\ errorJmp[t] = NoJmp
  BY <1>1 DEF Init
<1>3. Types
  <2>1. NoJmp \in Nat \X Nat /\ <<>> \in Seq(CallInfos) /\ <<>> \in Seq(Activation)
    BY DEF NoJmp
  <2>2. 0 \in 0 .. MaxCCalls - 1 /\ 0 \in 0 .. MaxThrown /\ 0 \in 0 .. MaxCallbacks
    BY Limits
  <2>3. nCcalls \in [LuaThreads -> 0 .. MaxCCalls - 1] /\ nny \in [LuaThreads -> Nat]
        /\ ci \in [LuaThreads -> Seq(CallInfos)] /\ errorJmp \in [LuaThreads -> Nat \X Nat]
    BY <2>1, <2>2 DEF Init
  <2>4. /\ status \in [LuaThreads -> {"new", "ok", "yield", "dead"}]
        /\ host \in Seq(Activation) /\ process = "runs" /\ thrown = 0 /\ lost = 0
        /\ callbacks = 0 /\ tangled = FALSE /\ last = "init"
    BY <2>1 DEF Init
  <2> QED  BY <2>2, <2>3, <2>4 DEF Types
<1>7. \A i \in 1 .. Len(host) : FALSE
  BY <1>2
<1>4. SoundHost
  BY <1>7 DEF SoundHost, SoundStack
<1>5. \A t \in LuaThreads : Known(t)
  <2> SUFFICES ASSUME NEW t \in LuaThreads PROVE Known(t)
    OBVIOUS
  <2>1. Chained(host, thrown, errorJmp[t], t, Len(host) + 1)
    BY <1>2 DEF Chained, Stale
  <2> QED  BY <1>7, <2>1 DEF Known, KnownAs
<1>6. MainKnown /\ CoKnown /\ PCallsKnown
  <2>1. MainKnown
    BY <1>1, <1>2 DEF MainKnown
  <2>2. CoKnown
    BY <1>2, <1>7 DEF CoKnown
  <2>3. PCallsKnown
    BY <1>2, <1>7 DEF PCallsKnown, PCallHandled
  <2> QED  BY <2>1, <2>2, <2>3
<1> QED  BY <1>3, <1>4, <1>5, <1>6 DEF IInv

\* Every step of the framework and of the script preserves it, or tangles the calls.
LEMMA NextInv ==
  ASSUME IInv, [Next]_vars, ~tangled'
  PROVE  IInv'
<1>1. CASE Callback
  BY <1>1, CallbackInv
<1>2. CASE Lookup
  BY <1>2, LookupInv
<1>3. ASSUME NEW t \in LuaThreads, Script(t) PROVE IInv'
  <2>1. CASE Call(t)
    BY <2>1, CallStepInv
  <2>2. CASE CallFromC(t)
    BY <2>2, CallFromCInv
  <2>12. CASE CallMetamethod(t)
    BY <2>12, CallMetamethodInv
  <2>3. CASE PCall(t)
    BY <2>3, PCallInv
  <2>4. CASE YieldablePCall(t)
    BY <2>4, YieldablePCallInv
  <2>5. CASE Error(t)
    BY <2>5, ErrorStepInv
  <2>6. CASE Create(t)
    BY <2>6, CreateStepInv
  <2>7. CASE Yield(t)
    BY <2>7, YieldInv
  <2>8. CASE Return(t)
    BY <2>8, ReturnInv
  <2>9. CASE Exception(t)
    BY <2>9, ExceptionStepInv
  <2>10. ASSUME NEW u \in LuaThreads, Resume(t, u) PROVE IInv'
    BY <2>10, ResumeStepInv
  <2>11. ASSUME NEW u \in LuaThreads, ResumeError(t, u) PROVE IInv'
    BY <2>11, ResumeErrorInv
  <2> QED  BY <1>3, <2>1, <2>2, <2>3, <2>4, <2>5, <2>6, <2>7, <2>8, <2>9, <2>10, <2>11, <2>12
         DEF Script
<1>4. CASE UNCHANGED vars
  <2>1. UNCHANGED <<ci, nCcalls, nny, status, errorJmp, host, process, thrown, lost, callbacks, tangled, last>>
    BY <1>4 DEF vars
  <2>2. Types'
    BY <2>1 DEF IInv, Types
  <2> QED  BY <2>1, <2>2, Unmoved
<1> QED  BY <1>1, <1>2, <1>3, <1>4 DEF Next

\* Calls that are tangled stay so.
LEMMA StaysTangled ==
  ASSUME tangled, [Next]_vars
  PROVE  tangled'
<1>1. CASE Callback
  BY <1>1 DEF Callback
<1>2. CASE Lookup
  BY <1>2 DEF Lookup
<1>3. ASSUME NEW t \in LuaThreads, Script(t) PROVE tangled'
  <2>1. \A r : Throw(t, r) => tangled'
    BY DEF Throw, counts
  <2>2. CASE Call(t) \/ PCall(t) \/ Create(t) \/ Return(t)
    BY <2>2 DEF Call, PCall, Create, Return, counts
  <2>3. CASE CallFromC(t) \/ CallMetamethod(t) \/ YieldablePCall(t) \/ Error(t) \/ Yield(t)
    BY <2>1, <2>3 DEF CallFromC, CallMetamethod, YieldablePCall, Error, Yield, counts
  <2>4. CASE Exception(t)
    BY <2>4 DEF Exception
  <2>5. ASSUME NEW u \in LuaThreads, Resume(t, u) \/ ResumeError(t, u) PROVE tangled'
    BY <2>5 DEF Resume, ResumeError, counts
  <2> QED  BY <1>3, <2>2, <2>3, <2>4, <2>5 DEF Script
<1>4. CASE UNCHANGED vars
  BY <1>4 DEF vars
<1> QED  BY <1>1, <1>2, <1>3, <1>4 DEF Next

\* What the interpreter and the C stack know of each other, unless the framework has
\* called out of a coroutine, or has gone on inside an outer call after an exception.
THEOREM InductiveInvariant == Spec => [](~tangled => IInv)
<1>1. Init => (~tangled => IInv)
  BY InitInv
<1>2. (~tangled => IInv) /\ [Next]_vars => (~tangled => IInv)'
  BY StaysTangled, NextInv
<1> QED  BY <1>1, <1>2, PTL DEF Spec

\* The types are those of the type invariant.
LEMMA IsTyped ==
  ASSUME IInv
  PROVE  TypeOK
<1>1. Types
  BY DEF IInv
<1>2. \A t \in LuaThreads : nCcalls[t] \in Nat /\ nCcalls[t] < 65536
  BY StateTypes, Limits
<1>3. nCcalls \in [LuaThreads -> Nat]
  <2>1. nCcalls \in [LuaThreads -> 0 .. MaxCCalls - 1]
    BY <1>1 DEF Types
  <2> QED  BY <1>2, <2>1
<1>4. tangled \in BOOLEAN
  BY <1>1 DEF Types
<1> QED  BY <1>1, <1>2, <1>3, <1>4 DEF Types, TypeOK

\* Every variable has its type until then: nny, an unsigned short that errors restore,
\* never falls below zero.
THEOREM TypeCorrect == Spec => [](~tangled => TypeOK)
<1>1. IInv => TypeOK
  BY IsTyped
<1> QED  BY <1>1, InductiveInvariant, PTL

\* The places of the C stack are counted: at least one count for every one of them.
LEMMA CountsGrow ==
  ASSUME IInv, NEW t \in LuaThreads, NEW j \in 1 .. Len(host), host[j].th = t
  PROVE  nCcalls[t] >= j + lost
<1>1. PICK i \in 1 .. Len(host) : j <= i /\ LastOf(host, t, i)
  BY HasLast, StateTypes
<1>2. nCcalls[t] >= CallsAfter(host[i])
  BY <1>1 DEF IInv, Known, KnownAs
<1>3. CallsAfter(host[i]) >= i + lost
  BY StateTypes DEF SoundAt, Counted
<1>4. CallsAfter(host[i]) \in Nat /\ nCcalls[t] \in Nat /\ lost \in Nat /\ i \in Nat /\ j \in Nat
  <2>1. host[i] \in Activation /\ nCcalls[t] \in Nat /\ lost \in Nat
    BY StateTypes
  <2> QED  BY <2>1, ActivationFields
<1> QED  BY <1>1, <1>2, <1>3, <1>4

\* No activation on the C stack goes uncounted (luaD_call, lua_resume, luai_maxccalls), and
\* none is counted for ever but those that an exception has cut off, through callbacks
\* nested in one another; until the framework calls out of a coroutine, or goes on inside
\* an outer call after an exception.
THEOREM CallsAreCounted == Spec => [](~tangled => CallsCounted)
<1>1. IInv => CallsCounted
  <2> SUFFICES ASSUME IInv PROVE CallsCounted
    OBVIOUS
  <2>1. TypeOK
    BY IsTyped
  <2>4. \A t \in LuaThreads : nCcalls[t] < MaxCCalls
    BY StateTypes
  <2>2. ASSUME NEW t \in LuaThreads, Active(t) # {} PROVE nCcalls[t] >= Max(Active(t)) + lost
    <3>1. Active(t) \in SUBSET (1 .. Len(host)) /\ Len(host) \in Nat
      BY StateTypes DEF Active
    <3>2. Max(Active(t)) \in Active(t)
      BY <2>2, <3>1, MaxOfPositions
    <3>3. Max(Active(t)) \in 1 .. Len(host) /\ host[Max(Active(t))].th = t
      BY <3>2 DEF Active
    <3> HIDE DEF Active
    <3> QED  BY <3>3, CountsGrow
  <2>3. ASSUME Idle
        PROVE  /\ nCcalls[Main] = lost /\ nny[Main] >= 1 + thrown
               /\ thrown = 0 => nny[Main] = 1 /\ ci[Main] = <<>> /\ errorJmp[Main] = NoJmp
    <3>1. host = <<>> /\ MainKnown
      BY <2>3 DEF Idle, IInv
    <3>2. nCcalls[Main] = lost /\ (thrown = 0 => nny[Main] = 1 /\ ci[Main] = <<>>)
      BY <3>1 DEF MainKnown
    <3>3. nny[Main] >= 1 + thrown
          /\ lost \in Nat /\ thrown \in Nat /\ Main \in LuaThreads
      BY <3>1, StateTypes DEF MainKnown
    <3>4. ASSUME thrown = 0 PROVE errorJmp[Main] = NoJmp
      <4>1. errorJmp[Main] = NoJmp \/ errorJmp[Main][1] < thrown
        BY <3>1, <3>3, NoHandler
      <4>2. errorJmp[Main][1] \in Nat
        BY <3>3, StateTypes
      <4> QED  BY <3>4, <4>1, <4>2
    <3> QED  BY <3>2, <3>3, <3>4
  <2> QED  BY <2>1, <2>2, <2>3, <2>4 DEF CallsCounted
<1> QED  BY <1>1, InductiveInvariant, PTL

\* A thread on the C stack may yield (lua_yieldk: nny = 0) exactly when lua_resume has
\* begun it and no activation of it above is one that a yield cannot leave.
THEOREM YieldableExactlyWhenFree == Spec => [](~tangled => YieldableIffFree)
<1>1. IInv => YieldableIffFree
  <2> SUFFICES ASSUME IInv, NEW t \in LuaThreads, Active(t) # {}
               PROVE  nny[t] = 0 <=> /\ \E i \in Active(t) : host[i].op = "resume"
                                     /\ \A i \in Active(t) : host[i].op = "resume" \/ host[i].free
    BY DEF YieldableIffFree
  <2>1. PICK w \in 1 .. Len(host) : LastOf(host, t, w)
    <3>1. PICK j \in Active(t) : TRUE
      OBVIOUS
    <3>2. j \in 1 .. Len(host) /\ host[j].th = t
      BY DEF Active
    <3> QED  BY <3>2, HasLast, StateTypes
  <2>2. nny[t] = NnyAfter(host[w]) /\ host[w].th = t
    BY <2>1 DEF IInv, Known, KnownAs, LastOf
  <2>3. SoundAt(host, w, thrown, lost)
    BY StateTypes
  <2>4. \A i \in Active(t) : i \in 1 .. w
    <3>1. \A i \in 1 .. Len(host) : i \in 1 .. w \/ i \in w + 1 .. Len(host)
      BY <2>1
    <3> QED  BY <2>1, <3>1 DEF LastOf, Active
  <2>5. CASE t = Main
    <3>1. nny[t] # 0
      <4>1. nny[Main] >= 1 + thrown /\ thrown \in Nat
        BY StateTypes DEF IInv, MainKnown
      <4> QED  BY <2>5, <4>1
    <3>2. ASSUME NEW i \in Active(t) PROVE host[i].op # "resume"
      <4>1. i \in 1 .. Len(host) /\ host[i].th = Main
        BY <2>5 DEF Active
      <4>2. Shape(host, i)
        BY <4>1, StateTypes DEF SoundAt
      <4> QED  BY <4>1, <4>2 DEF Shape
    <3> QED  BY <3>1, <3>2
  <2>6. CASE t = Co
    <3>1. NnyAfter(host[w]) = 0 <=> \A j \in 1 .. w : host[j].th = Co => Leaves(host[j])
      BY <2>2, <2>3, <2>6 DEF SoundAt, Counted
    <3>2. (\A j \in 1 .. w : host[j].th = Co => Leaves(host[j]))
            <=> \A i \in Active(t) : host[i].op = "resume" \/ host[i].free
      <4>1. \A i \in 1 .. w : i \in 1 .. Len(host)
        BY <2>1
      <4> QED  BY <2>4, <2>6, <4>1 DEF Active, Leaves
    <3>3. \E i \in Active(t) : host[i].op = "resume"
      <4> DEFINE S == {i \in 1 .. Len(host) : host[i].th = Co}
      <4>1. S \in SUBSET Nat /\ w \in S
        BY <2>2, <2>6
      <4>2. PICK f \in S : \A i \in S : f <= i
        BY <4>1, NatMin
      <4>3. f \in 1 .. Len(host) /\ host[f].th = Co /\ Shape(host, f)
        BY <4>2, StateTypes DEF SoundAt
      <4>4. f # 1
        BY <4>3, StateTypes DEF Shape
      <4>5. f - 1 \in 1 .. Len(host) /\ host[f - 1].th # Co
        <5>1. f - 1 \in 1 .. Len(host) /\ ~(f <= f - 1)
          BY <4>3, <4>4
        <5> QED  BY <4>2, <5>1
      <4>6. host[f].op = "resume"
        BY <4>3, <4>4, <4>5 DEF Shape
      <4>7. f \in Active(t)
        BY <2>6, <4>3 DEF Active
      <4> QED  BY <4>6, <4>7
    <3> QED  BY <2>2, <3>1, <3>2, <3>3
  <2> QED  BY <2>5, <2>6 DEF LuaThreads
<1> QED  BY <1>1, InductiveInvariant, PTL

-----------------------------------------------------------------------------
(* Errors end in the innermost pcall.                                      *)

\* The calls a script may raise an error from.
Raises(t, s) == Ends(t, s) /\ Throw(t, s) /\ ci[t] # <<>> /\ ci[t][Len(ci[t])] \in {"lua", "c"}

\* Only luaD_throw ends a step in an error, with the calls of the running thread.
LEMMA OnlyThrows ==
  ASSUME IInv, Next, last' = "error", host # <<>>
  PROVE  \E s : Raises(Thread, s)
<1>1. ~Callback /\ ~Lookup
  BY DEF Callback, Lookup
<1>2. PICK t \in LuaThreads : Script(t)
  BY <1>1 DEF Next
<1>3. ~Call(t) /\ ~PCall(t) /\ ~Create(t) /\ ~Return(t) /\ ~Exception(t)
      /\ \A u \in LuaThreads : ~Resume(t, u) /\ ~ResumeError(t, u)
  BY DEF Call, PCall, Create, Return, Exception, Resume, ResumeError
<1>4. ci[t] \in Seq(CallInfos) /\ "yield" \in CallInfos /\ "ypcall" \in CallInfos
  BY StateTypes, Kinds
<1>5. CASE CallFromC(t) \/ CallMetamethod(t)
  <2>1. Throw(t, ci[t]) /\ Thread = t /\ ci[t] # <<>> /\ ci[t][Len(ci[t])] \in {"lua", "c"}
    BY <1>5 DEF CallFromC, CallMetamethod, In, Top
  <2> QED  BY <1>4, <2>1 DEF Raises, Ends
<1>6. CASE YieldablePCall(t)
  <2>1. /\ Throw(t, Append(ci[t], "ypcall")) /\ nny[t] = 0
        /\ Thread = t /\ ci[t] # <<>> /\ ci[t][Len(ci[t])] = "lua"
    BY <1>6 DEF YieldablePCall, In, Top
  <2>2. Append(ci[t], "ypcall") \in Seq(CallInfos)
    BY <1>4
  <2> QED  BY <1>4, <2>1, <2>2 DEF Raises, Ends
<1>7. CASE Error(t)
  <2>1. Throw(t, ci[t]) /\ Thread = t /\ ci[t] # <<>> /\ ci[t][Len(ci[t])] \in {"lua", "c"}
    BY <1>7 DEF Error, In, Top
  <2> QED  BY <1>4, <2>1 DEF Raises, Ends
<1>8. CASE Yield(t)
  <2>1. /\ Throw(t, Append(ci[t], "yield"))
        /\ Thread = t /\ ci[t] # <<>> /\ ci[t][Len(ci[t])] = "lua"
    BY <1>8 DEF Yield, In, Top
  <2>2. Append(ci[t], "yield") \in Seq(CallInfos)
    BY <1>4
  <2> QED  BY <1>4, <2>1, <2>2 DEF Raises, Ends
<1> QED  BY <1>2, <1>3, <1>5, <1>6, <1>7, <1>8 DEF Script

\* Where the errors of a thread go at most, seen from its innermost handler n.
LEMMA FloorIs ==
  ASSUME IInv, NEW t \in LuaThreads, NEW n \in 1 .. Len(host), Handles(host[n], t),
         \A j \in n + 1 .. Len(host) : host[j].op = "call"
  PROVE  \E k \in 1 .. n : /\ Floor(t) = k /\ host[k].th = t /\ host[k].base \in Nat
                           /\ k < n => host[k].base < host[n].base /\ host[n].by = "script"
                           /\ host[n].op = "resume" => k = n
<1> DEFINE A == Active(t)
           F == {Min(A)} \cup (A \cap Protected)
<1>1. host[n].th = t /\ host[n].op # "call" /\ host[n] \in Activation /\ Len(host) \in Nat
  BY StateTypes DEF Handles
<1>2. A \in SUBSET (1 .. Len(host)) /\ n \in A
  BY <1>1 DEF Active
<1>3. PICK f \in A : \A i \in A : f <= i
  BY <1>2, NatMin
<1>4. Min(A) = f
  BY <1>2, <1>3, MinIs
<1>5. F \in SUBSET (1 .. Len(host)) /\ F # {} /\ F \in SUBSET A
  BY <1>2, <1>3, <1>4
<1>6. PICK k \in F : k = Max(F) /\ \A i \in F : i <= k
  BY <1>1, <1>5, MaxOfPositions
<1>7. Floor(t) = k
  BY <1>6 DEF Floor
<1>8. k \in 1 .. n
  <2>1. CASE k = f
    BY <1>2, <1>3, <2>1
  <2>2. CASE k \in Protected
    <3>1. k \in 1 .. Len(host) /\ host[k].op = "pcall"
      BY <2>2 DEF Protected
    <3>2. k \notin n + 1 .. Len(host)
      BY <3>1
    <3> QED  BY <1>1, <3>1, <3>2
  <2> QED  BY <1>4, <1>6, <2>1, <2>2
<1>9. host[k].th = t /\ host[k].base \in Nat
  <2>1. k \in 1 .. Len(host) /\ host[k].th = t
    BY <1>5, <1>6 DEF Active
  <2> QED  BY <2>1, StateTypes, ActivationFields
<1>10. ASSUME k < n PROVE host[k].base < host[n].base /\ host[n].by = "script"
  <2>1. host[k].base < host[n].base
    <3>1. k \in 1 .. n - 1
      BY <1>8, <1>10
    <3> QED  BY <1>1, <1>9, <3>1, BelowPlace
  <2>2. n \notin F
    <3>1. n \in Nat /\ k \in Nat
      BY <1>8
    <3> HIDE DEF F
    <3> QED  BY <1>6, <1>10, <3>1
  <2>3. n \notin Protected
    BY <1>2, <2>2
  <2>4. host[n].op # "resume"
    <3> SUFFICES ASSUME host[n].op = "resume" PROVE FALSE
      OBVIOUS
    <3>1. Shape(host, n)
      BY StateTypes DEF SoundAt
    <3>2. host[k].th = Main /\ host[n].th = Co
      <4>1. k \in 1 .. n - 1
        BY <1>8, <1>10
      <4> QED  BY <3>1, <4>1 DEF Shape
    <3> QED  BY <1>1, <1>9, <3>2, Limits
  <2>5. host[n].op = "pcall" /\ host[n].by \in {"framework", "script"}
    BY <1>1, <2>4 DEF Activation
  <2> QED  BY <2>1, <2>3, <2>5 DEF Protected
<1>11. ASSUME host[n].op = "resume" PROVE k = n
  <2> SUFFICES ASSUME k < n PROVE FALSE
    BY <1>8
  <2>1. Shape(host, n) /\ k \in 1 .. n - 1
    BY <1>8, StateTypes DEF SoundAt
  <2>2. host[k].th = Main /\ host[n].th = Co
    BY <1>11, <2>1 DEF Shape
  <2> QED  BY <1>1, <1>9, <2>2, Limits
<1> QED  BY <1>7, <1>8, <1>9, <1>10, <1>11

\* Above the innermost handler of the thread there is no pcall whose luaD_pcall is on
\* the C stack, and none that has just been finished while a function runs.
LEMMA NoneAbove ==
  ASSUME IInv, NEW t \in LuaThreads, NEW n \in 1 .. Len(host), host[n].th = t,
         \A j \in n + 1 .. Len(host) : host[j].op = "call",
         ci[t] # <<>>, ci[t][Len(ci[t])] \in {"lua", "c"},
         NEW p \in 1 .. Len(ci[t]), host[n].base < p
  PROVE  ci[t][p] # "pcall"
<1> SUFFICES ASSUME ci[t][p] = "pcall" PROVE FALSE
  OBVIOUS
<1>1. p \in 1 .. Len(ci[t]) - 1
  BY StateTypes
<1>2. PICK i \in 1 .. Len(host) : host[i].th = t /\ host[i].op = "pcall" /\ host[i].base = p
  <2>1. PCallHandled(t)
    BY DEF IInv, PCallsKnown
  <2> QED  BY <1>1, <2>1 DEF PCallHandled
<1>3. i \in 1 .. n
  <2>1. Len(host) \in Nat /\ (i \in 1 .. n \/ i \in n + 1 .. Len(host))
    BY StateTypes
  <2> QED  BY <1>2, <2>1
<1>4. i = n \/ i \in 1 .. n - 1
  BY <1>3
<1>5. host[n].base \in Nat
  <2>1. host[n] \in Activation
    BY StateTypes
  <2> QED  BY <2>1, ActivationFields
<1>6. i \in 1 .. n - 1 => host[i].base < host[n].base
  BY <1>2, BelowPlace
<1> QED  BY <1>2, <1>4, <1>5, <1>6

\* The beginning of a sequence of calls, taken apart.
LEMMA LastOfPrefix ==
  ASSUME NEW s \in Seq(CallInfos), NEW c \in Seq(CallInfos), NEW b \in 1 .. Len(c),
         Len(c) <= Len(s), \A p \in 1 .. Len(c) : s[p] = c[p]
  PROVE  Under(s, b) = Append(Under(c, b - 1), c[b]) /\ Under(s, b - 1) = Under(c, b - 1)
<1>1. Len(s) \in Nat /\ Len(c) \in Nat /\ b \in 1 .. Len(s) /\ b - 1 \in Nat
  OBVIOUS
<1>2. Under(s, b) \in Seq(CallInfos) /\ Len(Under(s, b)) = b
      /\ \A p \in 1 .. b : Under(s, b)[p] = s[p]
  BY <1>1 DEF Under
<1>3. Under(c, b - 1) \in Seq(CallInfos) /\ Len(Under(c, b - 1)) = b - 1
      /\ \A p \in 1 .. b - 1 : Under(c, b - 1)[p] = c[p]
  BY <1>1 DEF Under
<1>4. Under(s, b - 1) \in Seq(CallInfos) /\ Len(Under(s, b - 1)) = b - 1
      /\ \A p \in 1 .. b - 1 : Under(s, b - 1)[p] = s[p]
  BY <1>1 DEF Under
<1> DEFINE u == Under(c, b - 1)
           w == Under(s, b)
           x == Under(s, b - 1)
           y == Append(u, c[b])
<1>5. c[b] \in CallInfos /\ \A p \in 1 .. b : p \in 1 .. Len(c)
  BY <1>1
<1> HIDE DEF u, w, x
<1>6. y \in Seq(CallInfos) /\ Len(y) = b /\ y[b] = c[b] /\ \A p \in 1 .. b - 1 : y[p] = u[p]
  BY <1>1, <1>3, <1>5 DEF u
<1> HIDE DEF y
<1>7. w = y
  <2>1. ASSUME NEW p \in 1 .. b PROVE w[p] = y[p]
    <3>1. p = b \/ p \in 1 .. b - 1
      BY <1>1
    <3> QED  BY <1>2, <1>3, <1>5, <1>6, <3>1 DEF u, w
  <2>2. w \in Seq(CallInfos) /\ y \in Seq(CallInfos) /\ Len(w) = b /\ Len(y) = b
    BY <1>2, <1>6 DEF w
  <2> QED  BY <2>1, <2>2, SeqEqual
<1>8. x = u
  <2>1. ASSUME NEW p \in 1 .. b - 1 PROVE x[p] = u[p]
    BY <1>1, <1>3, <1>4 DEF u, x
  <2>2. x \in Seq(CallInfos) /\ u \in Seq(CallInfos) /\ Len(x) = b - 1 /\ Len(u) = b - 1
    BY <1>3, <1>4 DEF u, x
  <2> QED  BY <2>1, <2>2, SeqEqual
<1> QED  BY <1>7, <1>8 DEF u, w, x, y

\* Where the error ends: in luaD_pcall above the call of pcall, in the pcall that
\* findpcall finds, in the framework's luaD_pcall or in lua_resume.
LEMMA ErrorLands ==
  ASSUME IInv, NEW t \in LuaThreads, host # <<>>, Thread = t, NEW s, Raises(t, s),
         process' = "runs"
  PROVE  LET n == Max(PCalls(t))
         IN  \/ ci'[t] = Append(ci[t], "pcall") /\ host' # <<>> /\ Thread' = t
             \/ /\ PCalls(t) # {}
                /\ ci'[t] = Append(Under(ci[t], n - 1), "pcall") /\ host' # <<>> /\ Thread' = t
             \/ PCalls(t) = {} /\ host' = Under(host, Floor(t) - 1)
<1> DEFINE n == errorJmp[t][2]
           a == host[n]
           c == ci[t]
<1>1. /\ s \in Seq(CallInfos) /\ Len(s) \in Nat /\ c \in Seq(CallInfos) /\ Len(c) \in Nat
      /\ Len(s) = Len(c) \/ Len(s) = Len(c) + 1
      /\ \A p \in 1 .. Len(c) : s[p] = c[p]
      /\ c # <<>> /\ c[Len(c)] \in {"lua", "c"} /\ ci \in [LuaThreads -> Seq(CallInfos)]
  <2>1. Types /\ Ends(t, s)
    BY DEF IInv, Raises
  <2>2. /\ s \in Seq(CallInfos) /\ Len(s) \in Nat
        /\ Len(s) = Len(c) \/ Len(s) = Len(c) + 1
        /\ \A p \in 1 .. Len(c) : s[p] = c[p]
    BY <2>1, EndsFacts
  <2>3. c \in Seq(CallInfos) /\ Len(c) \in Nat
    BY StateTypes
  <2>4. c # <<>> /\ c[Len(c)] \in {"lua", "c"}
    BY DEF Raises
  <2>5. ci \in [LuaThreads -> Seq(CallInfos)]
    BY <2>1 DEF Types
  <2> QED  BY <2>2, <2>3, <2>4, <2>5
<1>2. errorJmp[t] # NoJmp /\ errorJmp[t][1] = thrown
  BY DEF Raises, Throw, Unwind
<1>3. /\ n \in 1 .. Len(host) /\ a.th = t /\ a.op # "call"
      /\ \A k \in n + 1 .. Len(host) : host[k].th = t /\ host[k].op = "call"
  BY <1>2, LiveHandler
<1>4. a \in Activation /\ Shape(host, n) /\ PCallAt(n) /\ a.base \in Nat
      /\ host \in Seq(Activation) /\ Len(host) \in Nat
  <2>1. a \in Activation /\ Shape(host, n) /\ PCallAt(n)
    BY <1>3, StateTypes DEF IInv, PCallsKnown, SoundAt
  <2> QED  BY <2>1, StateTypes, ActivationFields
<1>5. PICK k \in 1 .. n : /\ Floor(t) = k /\ host[k].th = t /\ host[k].base \in Nat
                          /\ k < n => host[k].base < a.base /\ a.by = "script"
                          /\ a.op = "resume" => k = n
  <2>1. Handles(a, t)
    BY <1>3 DEF Handles
  <2> QED  BY <1>3, <2>1, FloorIs
<1>6. \A p \in 1 .. Len(c) : a.base < p => c[p] # "pcall"
  BY <1>1, <1>3, NoneAbove
<1>7. PCalls(t) = {p \in host[k].base + 1 .. Len(c) : c[p] \in {"pcall", "ypcall"}}
  BY <1>5 DEF PCalls
<1>8. PCalls(t) \in SUBSET (1 .. Len(c)) /\ PCalls(t) \in SUBSET Int
  BY <1>1, <1>5, <1>7
<1>9. k \in Nat /\ n \in Nat /\ (k < n \/ k = n) /\ k >= 1
  BY <1>3, <1>5
<1>10. CASE a.op = "pcall"
  <2>1. /\ ci' = [ci EXCEPT ![t] = Under(s, a.base)] /\ host' = Under(host, n - 1)
    BY <1>2, <1>10 DEF Raises, Throw, Unwind
  <2>2. a.base < Len(c)
    <3>1. CASE n = Len(host)
      <4>1. Len(c) > a.base
        BY <3>1, Running
      <4> QED  BY <4>1, <1>4, <1>1
    <3>2. CASE n # Len(host)
      <4>1. Len(c) > host[Len(host)].base /\ Len(host) \in 1 .. Len(host) /\ host[Len(host)].th = t
        BY Running
      <4>2. n \in 1 .. Len(host) - 1
        BY <1>3, <3>2
      <4>3. a.base < host[Len(host)].base
        BY <1>3, <4>1, <4>2, BelowPlace
      <4>4. host[Len(host)].base \in Nat
        <5>1. host[Len(host)] \in Activation
          BY <4>1, StateTypes
        <5> QED  BY <5>1, ActivationFields
      <4> QED  BY <1>1, <1>4, <4>1, <4>3, <4>4
    <3> QED  BY <3>1, <3>2
  <2>3. \A p \in PCalls(t) : p <= a.base
    <3> SUFFICES ASSUME NEW p \in PCalls(t), a.base < p PROVE FALSE
      BY <1>4, <1>8
    <3>1. p \in host[k].base + 1 .. Len(c) /\ c[p] \in {"pcall", "ypcall"}
      BY <1>7
    <3>2. p \in 1 .. Len(c) /\ p \in a.base + 1 .. Len(c)
      BY <1>4, <1>5, <3>1
    <3>3. \A i \in a.base + 1 .. Len(c) : c[i] # "ypcall"
      BY <1>3, <1>10, <1>4 DEF PCallAt
    <3> QED  BY <1>6, <3>1, <3>2, <3>3
  <2>4. CASE k = n
    <3>1. PCalls(t) = {}
      <4> SUFFICES ASSUME NEW p \in PCalls(t) PROVE FALSE
        OBVIOUS
      <4>1. p \in a.base + 1 .. Len(c) /\ p <= a.base
        BY <1>7, <2>3, <2>4
      <4> QED  BY <1>4, <4>1
    <3>2. host' = Under(host, Floor(t) - 1)
      BY <1>5, <2>1, <2>4
    <3> QED  BY <3>1, <3>2
  <2>5. CASE k < n
    <3>1. a.base > 0 /\ c[a.base] = "pcall"
      BY <1>3, <1>4, <1>5, <1>10, <2>5 DEF PCallAt
    <3>2. a.base \in PCalls(t) /\ a.base \in 1 .. Len(c)
      <4> DEFINE b == a.base
                 l == host[k].base
      <4>1. b \in Nat /\ l \in Nat /\ Len(c) \in Nat /\ b < Len(c) /\ l < b /\ b > 0
        BY <1>1, <1>4, <1>5, <2>2, <2>5, <3>1
      <4> HIDE DEF b, l
      <4>2. b \in l + 1 .. Len(c) /\ b \in 1 .. Len(c)
        BY <4>1
      <4> QED  BY <1>7, <3>1, <4>2 DEF b, l
    <3>3. Max(PCalls(t)) = a.base
      BY <1>8, <2>3, <3>2, MaxIs
    <3>4. ci'[t] = Append(Under(c, a.base - 1), "pcall")
      <4>1. ci'[t] = Under(s, a.base)
        BY <1>1, <2>1
      <4>2. Len(c) <= Len(s)
        BY <1>1
      <4>3. Under(s, a.base) = Append(Under(c, a.base - 1), c[a.base])
        BY <1>1, <3>2, <4>2, LastOfPrefix
      <4> QED  BY <3>1, <4>1, <4>3
    <3>5. host' # <<>> /\ Thread' = t
      <4>1. n - 1 \in 1 .. Len(host) /\ n > 1
        BY <1>3, <1>9, <2>5
      <4>2. Len(host') = n - 1 /\ host'[n - 1] = host[n - 1]
        BY <1>4, <2>1, <4>1 DEF Under
      <4>3. host[n - 1].th = t
        BY <1>3, <1>4, <1>10, <4>1 DEF Shape
      <4>4. host' # <<>>
        BY <4>1, <4>2
      <4> QED  BY <4>2, <4>3, <4>4 DEF Thread, Innermost
    <3> QED  BY <3>2, <3>3, <3>4, <3>5
  <2> QED  BY <1>9, <2>4, <2>5
<1>11. CASE a.op = "resume"
  <2> DEFINE Y == {i \in 1 .. Len(s) : s[i] = "ypcall"}
             f == FindPCall(s)
  <2>1. t = Co /\ a.base = 0 /\ k = n
    BY <1>3, <1>4, <1>5, <1>11 DEF Shape
  <2>2. PCalls(t) = {p \in 1 .. Len(c) : c[p] \in {"pcall", "ypcall"}}
    BY <1>7, <2>1
  <2>3. \A p \in 1 .. Len(c) : c[p] # "pcall"
    BY <1>6, <2>1
  <2>4. CASE \E i \in 1 .. Len(s) : s[i] = "ypcall"
    <3>1. f \in Y /\ \A p \in Y : p <= f
      <4>1. Y \in SUBSET (1 .. Len(s)) /\ Len(s) \in Nat /\ Y # {}
        BY <1>1, <2>4
      <4> HIDE DEF Y
      <4>2. Max(Y) \in Y /\ \A p \in Y : p <= Max(Y)
        BY <4>1, MaxOfPositions
      <4>3. f = Max(Y)
        BY DEF FindPCall, Y
      <4> QED  BY <4>2, <4>3
    <3>2. f \in 1 .. Len(s) /\ s[f] = "ypcall"
      BY <3>1
    <3>3. /\ ci' = [ci EXCEPT ![t] = Append(Under(s, f - 1), "pcall")] /\ host' = Under(host, n)
      BY <1>2, <1>11, <2>4 DEF Raises, Throw, Unwind
    <3> HIDE DEF f
    <3>4. ci'[t] = Append(Under(s, f - 1), "pcall")
      BY <1>1, <3>3
    <3>5. host' # <<>> /\ Thread' = t
      <4>1. Len(host') = n /\ host'[n] = host[n]
        BY <1>3, <1>4, <3>3 DEF Under
      <4>2. host' # <<>>
        BY <1>3, <4>1
      <4> QED  BY <1>3, <4>1, <4>2 DEF Thread, Innermost
    <3>6. CASE f \in 1 .. Len(c)
      <4>1. f \in PCalls(t)
        BY <1>1, <2>2, <3>2, <3>6
      <4>2. \A p \in PCalls(t) : p <= f
        <5>1. \A p \in PCalls(t) : p \in Y
          BY <1>1, <2>2, <2>3
        <5> QED  BY <3>1, <5>1
      <4>3. Max(PCalls(t)) = f
        BY <1>8, <4>1, <4>2, MaxIs
      <4>4. Under(s, f - 1) = Under(c, f - 1)
        <5>1. Len(c) <= Len(s)
          BY <1>1
        <5> QED  BY <1>1, <3>6, <5>1, LastOfPrefix
      <4> QED  BY <3>4, <3>5, <4>1, <4>3, <4>4
    <3>7. CASE f \notin 1 .. Len(c)
      <4>1. f = Len(c) + 1 /\ Len(s) = Len(c) + 1
        BY <1>1, <3>2, <3>7
      <4>2. Under(s, f - 1) = c
        <5>1. SubSeq(s, 1, Len(c)) \in Seq(CallInfos) /\ Len(SubSeq(s, 1, Len(c))) = Len(c)
              /\ \A p \in 1 .. Len(c) : SubSeq(s, 1, Len(c))[p] = c[p]
          BY <1>1, <4>1
        <5>2. SubSeq(s, 1, Len(c)) = c
          BY <1>1, <5>1, SeqEqual
        <5>3. f - 1 = Len(c)
          BY <1>1, <4>1
        <5> QED  BY <5>2, <5>3 DEF Under
      <4> QED  BY <3>4, <3>5, <4>2
    <3> QED  BY <3>6, <3>7
  <2>5. CASE ~\E i \in 1 .. Len(s) : s[i] = "ypcall"
    <3>1. PCalls(t) = {}
      BY <1>1, <2>2, <2>3, <2>5
    <3>2. host' = Under(host, n - 1)
      BY <1>2, <1>11, <2>5 DEF Raises, Throw, Unwind
    <3> QED  BY <1>5, <2>1, <3>1, <3>2
  <2> QED  BY <2>4, <2>5
<1> QED  BY <1>3, <1>4, <1>10, <1>11, ActivationFields

\* An error inside pcall ends in that pcall and in no other, and outside any pcall in the
\* framework's innermost protected call or in the resumer (luaD_throw, recover, findpcall,
\* luaD_pcall): in every step before the calls are tangled, so in every behaviour in which
\* they never are.
THEOREM ErrorsEndInTheirPCall ==
  Spec => /\ [][~tangled => EndsWhereItShould]_vars
          /\ []~tangled => ErrorEndsInPCall
<1>1. (~tangled => IInv) /\ [Next]_vars => [~tangled => EndsWhereItShould]_vars
  <2> SUFFICES ASSUME IInv, Next, last' = "error", process' = "runs", host # <<>>
               PROVE  EndsWhereItShould
    BY DEF EndsWhereItShould
  <2>1. PICK s : Raises(Thread, s)
    BY OnlyThrows
  <2>2. Thread \in LuaThreads
    <3>1. Len(host) \in 1 .. Len(host)
      BY StateTypes
    <3>2. host[Len(host)] \in Activation
      BY <3>1, StateTypes
    <3> QED  BY <3>2, ActivationFields DEF Thread, Innermost
  <2> DEFINE t == Thread
             n == Max(PCalls(t))
  <2>3. \/ ci'[t] = Append(ci[t], "pcall") /\ host' # <<>> /\ Thread' = t
        \/ /\ PCalls(t) # {}
           /\ ci'[t] = Append(Under(ci[t], n - 1), "pcall") /\ host' # <<>> /\ Thread' = t
        \/ PCalls(t) = {} /\ host' = Under(host, Floor(t) - 1)
    BY <2>1, <2>2, ErrorLands
  <2> QED  BY <2>3 DEF EndsWhereItShould
<1>2. ~tangled /\ [~tangled => EndsWhereItShould]_vars => [EndsWhereItShould]_vars
  OBVIOUS
<1> QED  BY <1>1, <1>2, InductiveInvariant, PTL DEF Spec, ErrorEndsInPCall
=============================================================================
