------------------------------ MODULE Recursion ------------------------------
(***************************************************************************)
(* What proofs need to know of recursive functions: that they exist, and   *)
(* that what every step keeps holds of the value as well.                  *)
(***************************************************************************)
EXTENDS Integers, WellFoundedInduction, TLAPS

\* A set of natural numbers that is not empty has a least member.
LEMMA NatMin ==
  ASSUME NEW S \in SUBSET Nat, S # {}
  PROVE  \E n \in S : \A m \in S : n <= m
<1> DEFINE R == OpToRel(<, Nat)
<1>1. IsWellFoundedOn(R, Nat)
  BY NatLessThanWellFounded
<1>2. \A m, n \in Nat : <<m, n>> \in R <=> m < n
  BY DEF OpToRel
<1> HIDE DEF R
<1>3. PICK n \in S : \A m \in S : ~(<<m, n>> \in R)
  BY <1>1, WFMin
<1>4. ASSUME NEW m \in S PROVE n <= m
  <2>1. n \in Nat /\ m \in Nat
    OBVIOUS
  <2>2. ~(m < n)
    BY <2>1, <1>2, <1>3
  <2> QED  BY <2>1, <2>2
<1> QED  BY <1>4

-----------------------------------------------------------------------------
(* Chains: g takes n steps one after the other.                            *)

\* What holds at 0 and is handed on by every step holds everywhere.
LEMMA ChainStays ==
  ASSUME NEW n \in Nat, NEW S, NEW g, g[0] \in S,
         \A i \in 1..n : g[i - 1] \in S => g[i] \in S
  PROVE  \A i \in 0..n : g[i] \in S
<1> DEFINE Bad == {i \in 0..n : ~(g[i] \in S)}
<1>1. SUFFICES ASSUME Bad # {} PROVE FALSE
  OBVIOUS
<1>2. Bad \in SUBSET Nat
  OBVIOUS
<1>3. PICK k \in Bad : \A m \in Bad : k <= m
  BY <1>1, <1>2, NatMin
<1>4. k # 0 /\ k \in 0..n
  OBVIOUS
<1>5. k - 1 \in 0..n /\ ~(k - 1 \in Bad) /\ k \in 1..n
  BY <1>3, <1>4
<1>6. g[k - 1] \in S
  BY <1>5
<1> QED  BY <1>5, <1>6

\* What holds at 0, and at every number after one where it holds, holds up to n.
LEMMA UpTo ==
  ASSUME NEW n \in Nat, NEW S, 0 \in S, \A i \in 1..n : i - 1 \in S => i \in S
  PROVE  \A i \in 0..n : i \in S
<1> DEFINE g == [i \in 0..n |-> i]
<1>1. g[0] \in S
  OBVIOUS
<1>2. \A i \in 1..n : g[i - 1] \in S => g[i] \in S
  OBVIOUS
<1>3. \A i \in 0..n : g[i] = i
  OBVIOUS
<1> HIDE DEF g
<1>4. \A i \in 0..n : g[i] \in S
  BY <1>1, <1>2, ChainStays
<1> QED  BY <1>3, <1>4

\* g takes the steps one after the other, from base and within S.
Chain(g, n, S, base, step) ==
  /\ g \in [0..n -> S]
  /\ g[0] = base
  /\ \A i \in 1..n : g[i] = step[i][g[i - 1]]

\* Such a chain exists, whatever its length.
LEMMA ChainExists ==
  ASSUME NEW n \in Nat, NEW S, NEW base \in S, NEW step \in [1..n -> [S -> S]]
  PROVE  \E g : Chain(g, n, S, base, step)
<1> DEFINE Bad == {k \in 0..n : ~(\E g : Chain(g, k, S, base, step))}
<1>1. SUFFICES ASSUME Bad # {} PROVE FALSE
  <2>1. n \in 0..n
    OBVIOUS
  <2> QED  BY <2>1
<1>2. Bad \in SUBSET Nat
  OBVIOUS
<1>3. PICK k \in Bad : \A m \in Bad : k <= m
  BY <1>1, <1>2, NatMin
<1>4. k \in 0..n /\ ~(\E g : Chain(g, k, S, base, step))
  OBVIOUS
<1>5. k # 0
  <2> DEFINE one == [i \in 0..0 |-> base]
  <2>1. Chain(one, 0, S, base, step)
    BY DEF Chain
  <2> HIDE DEF one
  <2> QED  BY <2>1, <1>4
<1>6. k - 1 \in 0..n /\ ~(k - 1 \in Bad) /\ k \in 1..n
  <2> HIDE DEF Bad
  <2> QED  BY <1>2, <1>3, <1>4, <1>5
<1>7. \E g : Chain(g, k - 1, S, base, step)
  BY <1>6
<1>8. PICK g : Chain(g, k - 1, S, base, step)
  BY <1>7
<1> DEFINE h == [i \in 0..k |-> IF i = k THEN step[k][g[k - 1]] ELSE g[i]]
<1>9. Chain(h, k, S, base, step)
  <2>1. g \in [0 .. k - 1 -> S] /\ k - 1 \in 0 .. k - 1
    BY <1>6, <1>8 DEF Chain
  <2>2. step[k] \in [S -> S] /\ g[k - 1] \in S
    BY <2>1, <1>6
  <2>3. step[k][g[k - 1]] \in S
    BY <2>2
  <2>4. h \in [0..k -> S]
    BY <1>6, <2>1, <2>3
  <2>5. h[0] = base
    BY <1>6, <1>8 DEF Chain
  <2>6. ASSUME NEW i \in 1..k PROVE h[i] = step[i][h[i - 1]]
    <3>1. h[i - 1] = g[i - 1] /\ h[i] = (IF i = k THEN step[k][g[k - 1]] ELSE g[i])
      BY <1>6
    <3>2. CASE i = k
      BY <3>1, <3>2
    <3>3. CASE i # k
      <4>1. i \in 1 .. k - 1
        BY <1>6, <3>3
      <4> QED  BY <4>1, <3>1, <3>3, <1>8 DEF Chain
    <3> QED  BY <3>2, <3>3
  <2> QED  BY <2>4, <2>5, <2>6 DEF Chain
<1> HIDE DEF h, Bad
<1> QED  BY <1>9, <1>4

-----------------------------------------------------------------------------
(* Loops: f takes steps in D until a member of stop is reached.            *)

Loop(f, D, stop, step) ==
  f = [x \in D |-> IF x \in stop THEN x ELSE f[step[x]]]

\* Every step makes the rank smaller.
Ranked(D, stop, step, rank, bound) ==
  /\ step \in [D -> D]
  /\ rank \in [D -> 0..bound]
  /\ \A x \in D : x \notin stop => rank[step[x]] < rank[x]

\* A loop whose rank falls is a function.
LEMMA LoopExists ==
  ASSUME NEW D, NEW stop, NEW step, NEW rank, NEW bound \in Nat,
         Ranked(D, stop, step, rank, bound)
  PROVE  \E f : Loop(f, D, stop, step)
<1> DEFINE Part(k) == {x \in D : rank[x] <= k}
           Partial(f, k) == f = [x \in Part(k) |-> IF x \in stop THEN x ELSE f[step[x]]]
           Bad == {k \in 0..bound : ~(\E f : Partial(f, k))}
<1>0. \A x \in D : step[x] \in D /\ rank[x] \in 0..bound /\ (x \notin stop => rank[step[x]] < rank[x])
  BY DEF Ranked
<1>1. SUFFICES ASSUME Bad # {} PROVE FALSE
  <2>1. ~(bound \in Bad)
    OBVIOUS
  <2>2. bound \in 0..bound
    OBVIOUS
  <2>3. \E f : Partial(f, bound)
    BY <2>1, <2>2
  <2>4. PICK f : Partial(f, bound)
    BY <2>3
  <2>5. Part(bound) = D
    BY <1>0
  <2>6. Loop(f, D, stop, step)
    BY <2>4, <2>5 DEF Loop
  <2> QED  BY <2>6
<1>2. Bad \in SUBSET Nat
  OBVIOUS
<1>3. PICK k \in Bad : \A j \in Bad : k <= j
  BY <1>1, <1>2, NatMin
<1>4. k \in 0..bound /\ ~(\E f : Partial(f, k))
  OBVIOUS
<1>5. k # 0
  <2>1. ASSUME k = 0 PROVE FALSE
    <3> DEFINE one == [x \in Part(0) |-> x]
    <3>1. \A x \in Part(0) : x \in stop
      BY <1>0
    <3>2. one = [x \in Part(0) |-> IF x \in stop THEN x ELSE one[step[x]]]
      <4>1. \A x \in Part(0) : x = (IF x \in stop THEN x ELSE one[step[x]])
        BY <3>1
      <4> QED  BY <4>1
    <3>3. Partial(one, 0)
      BY <3>2
    <3> HIDE DEF one
    <3> QED  BY <3>3, <2>1, <1>4
  <2> QED  BY <2>1
<1>6. k - 1 \in 0..bound /\ ~(k - 1 \in Bad) /\ k \in Nat
  <2> HIDE DEF Bad
  <2> QED  BY <1>2, <1>3, <1>4, <1>5
<1>7. PICK f : Partial(f, k - 1)
  BY <1>6
<1> DEFINE h == [x \in Part(k) |-> IF x \in stop THEN x ELSE f[step[x]]]
<1>8. \A x \in Part(k) : x \notin stop => h[step[x]] = f[step[x]]
  <2> TAKE x \in Part(k)
  <2> HAVE x \notin stop
  <2>1. step[x] \in Part(k - 1) /\ step[x] \in Part(k)
    BY <1>0, <1>6
  <2>2. h[step[x]] = IF step[x] \in stop THEN step[x] ELSE f[step[step[x]]]
    BY <2>1
  <2>3. f[step[x]] = IF step[x] \in stop THEN step[x] ELSE f[step[step[x]]]
    BY <2>1, <1>7
  <2> QED  BY <2>2, <2>3
<1>9. h = [x \in Part(k) |-> IF x \in stop THEN x ELSE h[step[x]]]
  <2>1. \A x \in Part(k) : (IF x \in stop THEN x ELSE f[step[x]]) = (IF x \in stop THEN x ELSE h[step[x]])
    BY <1>8
  <2> QED  BY <2>1
<1>10. Partial(h, k)
  BY <1>9
<1> HIDE DEF h
<1> QED  BY <1>10, <1>4

\* What its steps keep holds where the loop stops, and there it does stop.
LEMMA LoopStays ==
  ASSUME NEW D, NEW stop, NEW step, NEW rank, NEW bound \in Nat,
         Ranked(D, stop, step, rank, bound),
         NEW f, Loop(f, D, stop, step),
         NEW I \in SUBSET D, \A x \in I : x \notin stop => step[x] \in I
  PROVE  \A x \in I : f[x] \in I /\ f[x] \in stop
<1> DEFINE Wrong == {x \in I : ~(f[x] \in I /\ f[x] \in stop)}
           Ranks == {rank[x] : x \in Wrong}
<1>0. \A x \in D : step[x] \in D /\ rank[x] \in 0..bound /\ (x \notin stop => rank[step[x]] < rank[x])
  BY DEF Ranked
<1>1. SUFFICES ASSUME Wrong # {} PROVE FALSE
  OBVIOUS
<1>2. Ranks \in SUBSET Nat /\ Ranks # {}
  BY <1>0, <1>1
<1>3. PICK k \in Ranks : \A j \in Ranks : k <= j
  BY <1>2, NatMin
<1>4. PICK x \in Wrong : k = rank[x]
  BY <1>3
<1>5. f[x] = IF x \in stop THEN x ELSE f[step[x]]
  BY DEF Loop
<1>6. x \notin stop
  BY <1>5
<1>7. step[x] \in Wrong
  BY <1>5, <1>6
<1>8. rank[step[x]] \in Ranks /\ rank[step[x]] < rank[x]
  BY <1>0, <1>6, <1>7
<1>9. rank[x] <= rank[step[x]]
  BY <1>3, <1>4, <1>8
<1>10. rank[x] \in Nat /\ rank[step[x]] \in Nat
  BY <1>0
<1> QED  BY <1>8, <1>9, <1>10

=============================================================================
