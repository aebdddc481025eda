---------------------------- MODULE TableProofs ----------------------------
(***************************************************************************)
(* Theorems about Table, for every set of keys, with any hashes, every set  *)
(* of values, every size of the array part and every room that a           *)
(* constructor asks for.                                                   *)
(***************************************************************************)
EXTENDS Library, Recursion, FiniteSetTheorems, SequenceTheorems

-----------------------------------------------------------------------------
(* Chains as a function s from each node to the one that follows it, which *)
(* is the node itself at the end of a chain.                               *)

Closed(s, S) == \A x \in S : s[x] \in S

\* j is in the chain that starts at i.
Reach(s, N, i, j) == \A S \in SUBSET N : i \in S /\ Closed(s, S) => j \in S

Falls(s, N, rank, b) ==
  /\ rank \in [N -> 0 .. b]
  /\ \A x \in N : s[x] # x => rank[s[x]] < rank[x]
Acyclic(s, N) == \E b \in Nat : \E rank : Falls(s, N, rank, b)

\* No node has two before it.
OneBefore(s, N) ==
  \A x, y \in N : s[x] = s[y] /\ s[x] # x /\ s[y] # y => x = y

\* A node in no chain.
Lone(s, N, f) == s[f] = f /\ \A x \in N : s[x] = f => x = f

\* A node reaches itself and the next one.
LEMMA ReachFirst ==
  ASSUME NEW N, NEW s \in [N -> N], NEW i \in N
  PROVE  Reach(s, N, i, i) /\ Reach(s, N, i, s[i])
  BY DEF Reach, Closed

\* What is reached from a node reached is reached.
LEMMA ReachTrans ==
  ASSUME NEW N, NEW s \in [N -> N], NEW i \in N, NEW j \in N, NEW k \in N,
         Reach(s, N, i, j), Reach(s, N, j, k)
  PROVE  Reach(s, N, i, k)
  BY DEF Reach

\* What is reached, and is not the node itself, is reached from the next one.
LEMMA ReachOn ==
  ASSUME NEW N, NEW s \in [N -> N], NEW i \in N, NEW j \in N, Reach(s, N, i, j), i # j
  PROVE  Reach(s, N, s[i], j)
<1> SUFFICES ASSUME NEW S \in SUBSET N, s[i] \in S, Closed(s, S)
             PROVE  j \in S
  BY DEF Reach
<1>1. Closed(s, S \cup {i}) /\ S \cup {i} \in SUBSET N
  BY DEF Closed
<1>2. j \in S \cup {i}
  BY <1>1 DEF Reach
<1> QED  BY <1>2

\* The last node of a chain reaches only itself.
LEMMA ReachEnd ==
  ASSUME NEW N, NEW s \in [N -> N], NEW i \in N, NEW j \in N, Reach(s, N, i, j), s[i] = i
  PROVE  i = j
<1>1. Closed(s, {i}) /\ {i} \in SUBSET N
  BY DEF Closed
<1> QED  BY <1>1 DEF Reach

\* No two nodes reach each other.
LEMMA ReachOneWay ==
  ASSUME NEW N, NEW s \in [N -> N], NEW i \in N, NEW j \in N, Acyclic(s, N),
         Reach(s, N, i, j), Reach(s, N, j, i)
  PROVE  i = j
<1>1. PICK b \in Nat : \E rank : Falls(s, N, rank, b)
  BY DEF Acyclic
<1>2. PICK rank : Falls(s, N, rank, b)
  BY <1>1
<1>3. \A x \in N : rank[x] \in Nat /\ (s[x] # x => rank[s[x]] < rank[x])
  BY <1>2 DEF Falls
<1>4. ASSUME NEW x \in N, NEW y \in N, Reach(s, N, x, y)
      PROVE  rank[y] <= rank[x]
  <2> DEFINE S == {z \in N : rank[z] <= rank[x]}
  <2>1. ASSUME NEW z \in S PROVE s[z] \in S
    <3>1. z \in N /\ s[z] \in N /\ rank[s[z]] \in Nat /\ rank[z] \in Nat /\ rank[x] \in Nat
      BY <1>3
    <3>2. s[z] # z => rank[s[z]] < rank[z]
      BY <1>3, <3>1
    <3> QED  BY <3>1, <3>2
  <2>2. Closed(s, S)
    BY <2>1 DEF Closed
  <2>3. S \in SUBSET N /\ x \in S
    BY <1>3
  <2> HIDE DEF S
  <2>4. y \in S
    BY <2>2, <2>3, <1>4 DEF Reach
  <2> QED  BY <2>4 DEF S
<1>5. SUFFICES ASSUME i # j PROVE FALSE
  OBVIOUS
<1>6. s[i] # i
  BY <1>5, ReachEnd
<1>7. Reach(s, N, s[i], j)
  BY <1>5, ReachOn
<1>8. rank[j] <= rank[s[i]] /\ rank[i] <= rank[j] /\ rank[s[i]] < rank[i]
  BY <1>3, <1>4, <1>6, <1>7
<1>9. s[i] \in N /\ rank[j] \in Nat /\ rank[s[i]] \in Nat /\ rank[i] \in Nat
  BY <1>3
<1> QED  BY <1>8, <1>9

-----------------------------------------------------------------------------
(* What an insertion does to the chains.                                   *)

\* The node q moves to f, and p, which led to q, leads to f.
Detour(s, N, p, q, f) ==
  [x \in N |-> IF x = q THEN q
               ELSE IF x = f THEN IF s[q] = q THEN f ELSE s[q]
               ELSE IF x = p THEN f ELSE s[x]]
\* Where a node is after that.
To(q, f, x) == IF x = q THEN f ELSE x

\* f comes second after q.
Second(s, N, q, f) ==
  [x \in N |-> IF x = q THEN f
               ELSE IF x = f THEN IF s[q] = q THEN f ELSE s[q]
               ELSE s[x]]

\* What a detour starts from.
Detoured(s, N, p, q, f) ==
  /\ s \in [N -> N] /\ p \in N /\ q \in N /\ f \in N
  /\ s[p] = q /\ p # q /\ q # f /\ Lone(s, N, f)

\* A detour keeps the chains free of cycles and junctions.
LEMMA DetourShape ==
  ASSUME NEW N, NEW s, NEW p, NEW q, NEW f, Detoured(s, N, p, q, f),
         Acyclic(s, N), OneBefore(s, N)
  PROVE  LET u == Detour(s, N, p, q, f)
         IN /\ u \in [N -> N] /\ Acyclic(u, N) /\ OneBefore(u, N)
            /\ u[q] = q
            /\ \A g \in N : Lone(s, N, g) /\ g # f => Lone(u, N, g)
<1> DEFINE u == Detour(s, N, p, q, f)
<1>0. /\ s \in [N -> N] /\ p \in N /\ q \in N /\ f \in N
      /\ s[p] = q /\ p # q /\ q # f /\ p # f
      /\ s[f] = f /\ \A x \in N : s[x] = f => x = f
  BY DEF Detoured, Lone
<1>1. /\ u \in [N -> N] /\ u[q] = q
      /\ u[f] = IF s[q] = q THEN f ELSE s[q]
      /\ u[p] = f
      /\ \A x \in N : x # q /\ x # f /\ x # p => u[x] = s[x]
  BY <1>0 DEF Detour
<1> HIDE DEF u
<1>2. Acyclic(u, N)
  <2>1. PICK b \in Nat : \E rank : Falls(s, N, rank, b)
    BY DEF Acyclic
  <2>2. PICK rank : Falls(s, N, rank, b)
    BY <2>1
  <2> DEFINE r == [x \in N |-> IF x = f THEN rank[q] ELSE rank[x]]
  <2>3. \A x \in N : rank[x] \in 0 .. b /\ (s[x] # x => rank[s[x]] < rank[x])
    BY <2>2 DEF Falls
  <2>4. r \in [N -> 0 .. b] /\ r[f] = rank[q] /\ \A x \in N : x # f => r[x] = rank[x]
    BY <2>3, <1>0
  <2> HIDE DEF r
  <2>5. ASSUME NEW x \in N, u[x] # x PROVE r[u[x]] < r[x]
    <3>1. CASE x = q
      BY <3>1, <2>5, <1>1
    <3>2. CASE x = f
      BY <3>2, <2>5, <2>4, <2>3, <1>1, <1>0
    <3>3. CASE x = p
      BY <3>3, <2>4, <2>3, <1>1, <1>0
    <3>4. CASE x # q /\ x # f /\ x # p
      BY <3>4, <2>5, <2>4, <2>3, <1>1, <1>0
    <3> QED  BY <3>1, <3>2, <3>3, <3>4
  <2>6. Falls(u, N, r, b)
    BY <2>4, <2>5 DEF Falls
  <2> QED  BY <2>6, <2>1 DEF Acyclic
<1>3. OneBefore(u, N)
  <2> SUFFICES ASSUME NEW x \in N, NEW y \in N, u[x] = u[y], u[x] # x, u[y] # y
               PROVE  x = y
    BY DEF OneBefore
  <2>0. \A v, w \in N : s[v] = s[w] /\ s[v] # v /\ s[w] # w => v = w
    BY DEF OneBefore
  <2>1. x # q /\ y # q
    BY <1>1
  <2>2. ASSUME NEW z \in N, u[z] # z, u[z] = f PROVE z = p
    <3>1. CASE z = f
      BY <3>1, <2>2, <1>1, <1>0
    <3>2. CASE z # f /\ z # p /\ z # q
      BY <3>2, <2>2, <1>1, <1>0
    <3> QED  BY <3>1, <3>2, <2>2, <1>1
  <2>3. CASE u[x] = f
    BY <2>2, <2>3
  <2>4. CASE u[x] # f
    <3>1. x # p /\ y # p
      BY <2>4, <1>1
    <3> DEFINE from(z) == IF z = f THEN q ELSE z
    <3>2. ASSUME NEW z \in {x, y} PROVE from(z) \in N /\ s[from(z)] = u[z] /\ s[from(z)] # from(z)
      <4>1. CASE z = f
        BY <4>1, <1>0, <1>1, <3>2
      <4>2. CASE z # f
        BY <4>2, <1>0, <1>1, <3>2, <3>1, <2>1
      <4> QED  BY <4>1, <4>2
    <3>3. from(x) = from(y)
      <4> HIDE DEF from
      <4>1. from(x) \in N /\ from(y) \in N /\ s[from(x)] = s[from(y)]
            /\ s[from(x)] # from(x) /\ s[from(y)] # from(y)
        BY <3>2
      <4> QED  BY <4>1, <2>0
    <3> QED  BY <3>3, <2>1
  <2> QED  BY <2>3, <2>4
<1>4. ASSUME NEW g \in N, Lone(s, N, g), g # f PROVE Lone(u, N, g)
  <2>1. s[g] = g /\ \A x \in N : s[x] = g => x = g
    BY <1>4 DEF Lone
  <2>2. g # p /\ g # q
    BY <2>1, <1>0
  <2>3. u[g] = g
    BY <2>1, <2>2, <1>1, <1>4
  <2>4. ASSUME NEW x \in N, u[x] = g PROVE x = g
    BY <2>4, <2>1, <2>2, <1>1, <1>0, <1>4
  <2> QED  BY <2>3, <2>4 DEF Lone
<1> QED  BY <1>1, <1>2, <1>3, <1>4 DEF u

\* What reached a node before a detour reaches it where it is now.
LEMMA DetourReach ==
  ASSUME NEW N, NEW s, NEW p, NEW q, NEW f, Detoured(s, N, p, q, f), OneBefore(s, N),
         NEW i \in N, NEW j \in N, Reach(s, N, i, j)
  PROVE  Reach(Detour(s, N, p, q, f), N, To(q, f, i), To(q, f, j))
<1> DEFINE u == Detour(s, N, p, q, f)
<1>0. /\ s \in [N -> N] /\ p \in N /\ q \in N /\ f \in N
      /\ s[p] = q /\ p # q /\ q # f /\ p # f
      /\ s[f] = f /\ \A x \in N : s[x] = f => x = f
  BY DEF Detoured, Lone
<1>1. /\ u \in [N -> N] /\ u[q] = q
      /\ u[f] = IF s[q] = q THEN f ELSE s[q]
      /\ u[p] = f
      /\ \A x \in N : x # q /\ x # f /\ x # p => u[x] = s[x]
  BY <1>0 DEF Detour
<1> HIDE DEF u
<1> SUFFICES ASSUME NEW S \in SUBSET N, To(q, f, i) \in S, Closed(u, S)
             PROVE  To(q, f, j) \in S
  BY DEF Reach, u
<1> DEFINE B == {x \in N : To(q, f, x) \in S}
<1>2. ASSUME NEW x \in B PROVE s[x] \in B
  <2>0. x \in N /\ s[x] \in N /\ To(q, f, x) \in S /\ \A z \in S : u[z] \in S
    BY <1>0 DEF Closed
  <2>1. CASE x = q
    BY <2>0, <2>1, <1>0, <1>1 DEF To
  <2>2. CASE x = f
    BY <2>0, <2>2, <1>0, <1>1 DEF To
  <2>3. CASE x = p
    BY <2>0, <2>3, <1>0, <1>1 DEF To
  <2>4. CASE x # q /\ x # f /\ x # p
    <3>1. u[x] = s[x] /\ x \in S /\ u[x] \in S
      BY <2>0, <2>4, <1>1 DEF To
    <3>2. s[x] # q
      BY <2>4, <1>0, <2>0 DEF OneBefore
    <3> QED  BY <3>1, <3>2, <2>0 DEF To
  <2> QED  BY <2>1, <2>2, <2>3, <2>4
<1>3. B \in SUBSET N /\ i \in B /\ Closed(s, B)
  BY <1>2 DEF Closed
<1> HIDE DEF B
<1>4. j \in B
  BY <1>3 DEF Reach
<1> QED  BY <1>4 DEF B

\* A second node keeps the chains free of cycles and junctions.
LEMMA SecondShape ==
  ASSUME NEW N, NEW s \in [N -> N], NEW q \in N, NEW f \in N, q # f, Lone(s, N, f),
         Acyclic(s, N), OneBefore(s, N)
  PROVE  LET u == Second(s, N, q, f)
         IN /\ u \in [N -> N] /\ Acyclic(u, N) /\ OneBefore(u, N)
            /\ u[q] = f
            /\ \A g \in N : Lone(s, N, g) /\ g # f /\ g # q => Lone(u, N, g)
<1> DEFINE u == Second(s, N, q, f)
<1>0. s[f] = f /\ \A x \in N : s[x] = f => x = f
  BY DEF Lone
<1>1. /\ u \in [N -> N] /\ u[q] = f
      /\ u[f] = IF s[q] = q THEN f ELSE s[q]
      /\ \A x \in N : x # q /\ x # f => u[x] = s[x]
  BY <1>0 DEF Second
<1> HIDE DEF u
<1>2. Acyclic(u, N)
  <2>1. PICK b \in Nat : \E rank : Falls(s, N, rank, b)
    BY DEF Acyclic
  <2>2. PICK rank : Falls(s, N, rank, b)
    BY <2>1
  <2> DEFINE r == [x \in N |-> IF x = f THEN 2 * rank[q] ELSE 2 * rank[x] + 1]
             c == 2 * b + 1
  <2>3. \A x \in N : rank[x] \in 0 .. b /\ (s[x] # x => rank[s[x]] < rank[x])
    BY <2>2 DEF Falls
  <2>4. r \in [N -> 0 .. c] /\ r[f] = 2 * rank[q] /\ \A x \in N : x # f => r[x] = 2 * rank[x] + 1
    BY <2>3, <1>0
  <2> HIDE DEF r
  <2>5. ASSUME NEW x \in N, u[x] # x PROVE r[u[x]] < r[x]
    <3>1. CASE x = q
      BY <3>1, <2>3, <2>4, <1>1
    <3>2. CASE x = f
      <4>1. s[q] # q /\ u[f] = s[q] /\ s[q] # f /\ s[q] \in N
        BY <3>2, <2>5, <1>1, <1>0
      <4>2. rank[s[q]] < rank[q] /\ rank[s[q]] \in 0 .. b /\ rank[q] \in 0 .. b
        BY <4>1, <2>3
      <4>3. r[s[q]] = 2 * rank[s[q]] + 1 /\ r[f] = 2 * rank[q]
        BY <4>1, <2>4
      <4> QED  BY <4>1, <4>2, <4>3, <3>2
    <3>3. CASE x # q /\ x # f
      <4>1. u[x] = s[x] /\ s[x] # x /\ s[x] # f /\ s[x] \in N
        BY <3>3, <2>5, <1>1, <1>0
      <4>2. rank[s[x]] < rank[x] /\ rank[s[x]] \in 0 .. b /\ rank[x] \in 0 .. b
        BY <4>1, <2>3
      <4> QED  BY <4>1, <4>2, <3>3, <2>4
    <3> QED  BY <3>1, <3>2, <3>3
  <2>6. Falls(u, N, r, c)
    BY <2>4, <2>5 DEF Falls
  <2> QED  BY <2>6, <2>1 DEF Acyclic
<1>3. OneBefore(u, N)
  <2> SUFFICES ASSUME NEW x \in N, NEW y \in N, u[x] = u[y], u[x] # x, u[y] # y
               PROVE  x = y
    BY DEF OneBefore
  <2>0. \A v, w \in N : s[v] = s[w] /\ s[v] # v /\ s[w] # w => v = w
    BY DEF OneBefore
  <2>2. ASSUME NEW z \in N, u[z] # z, u[z] = f PROVE z = q
    BY <2>2, <1>1, <1>0
  <2>3. CASE u[x] = f
    BY <2>2, <2>3
  <2>4. CASE u[x] # f
    <3>1. x # q /\ y # q
      BY <2>4, <1>1
    <3> DEFINE from(z) == IF z = f THEN q ELSE z
    <3>2. ASSUME NEW z \in {x, y} PROVE from(z) \in N /\ s[from(z)] = u[z] /\ s[from(z)] # from(z)
      <4>1. CASE z = f
        BY <4>1, <1>0, <1>1, <3>2
      <4>2. CASE z # f
        BY <4>2, <1>0, <1>1, <3>2, <3>1
      <4> QED  BY <4>1, <4>2
    <3>3. from(x) = from(y)
      <4> HIDE DEF from
      <4>1. from(x) \in N /\ from(y) \in N /\ s[from(x)] = s[from(y)]
            /\ s[from(x)] # from(x) /\ s[from(y)] # from(y)
        BY <3>2
      <4> QED  BY <4>1, <2>0
    <3> QED  BY <3>3, <3>1
  <2> QED  BY <2>3, <2>4
<1>4. ASSUME NEW g \in N, Lone(s, N, g), g # f, g # q PROVE Lone(u, N, g)
  <2>1. s[g] = g /\ \A x \in N : s[x] = g => x = g
    BY <1>4 DEF Lone
  <2>3. u[g] = g
    BY <2>1, <1>1, <1>4
  <2>4. ASSUME NEW x \in N, u[x] = g PROVE x = g
    BY <2>4, <2>1, <1>1, <1>0, <1>4
  <2> QED  BY <2>3, <2>4 DEF Lone
<1> QED  BY <1>1, <1>2, <1>3, <1>4 DEF u

\* What reached a node still does, and the second node reaches what the first reached.
LEMMA SecondReach ==
  ASSUME NEW N, NEW s \in [N -> N], NEW q \in N, NEW f \in N, q # f, Lone(s, N, f)
  PROVE  LET u == Second(s, N, q, f)
         IN /\ \A i, j \in N : Reach(s, N, i, j) => Reach(u, N, i, j)
            /\ Reach(u, N, q, f)
            /\ \A j \in N : Reach(s, N, q, j) /\ j # q => Reach(u, N, f, j)
<1> DEFINE u == Second(s, N, q, f)
<1>0. s[f] = f /\ \A x \in N : s[x] = f => x = f
  BY DEF Lone
<1>1. /\ u \in [N -> N] /\ u[q] = f
      /\ u[f] = IF s[q] = q THEN f ELSE s[q]
      /\ \A x \in N : x # q /\ x # f => u[x] = s[x]
  BY <1>0 DEF Second
<1> HIDE DEF u
<1>2. ASSUME NEW S \in SUBSET N, Closed(u, S) PROVE Closed(s, S)
  <2> SUFFICES ASSUME NEW x \in S PROVE s[x] \in S
    BY DEF Closed
  <2>1. u[x] \in S /\ u[u[x]] \in S
    BY <1>2 DEF Closed
  <2> QED  BY <2>1, <1>0, <1>1
<1>3. \A i, j \in N : Reach(s, N, i, j) => Reach(u, N, i, j)
  BY <1>2 DEF Reach
<1>4. Reach(u, N, q, f)
  BY <1>1, ReachFirst
<1>5. ASSUME NEW j \in N, Reach(s, N, q, j), j # q PROVE Reach(u, N, f, j)
  BY <1>1, <1>3, <1>5, ReachOn
<1> QED  BY <1>3, <1>4, <1>5 DEF u

-----------------------------------------------------------------------------
(* The shape of a table.                                                   *)

\* The keys that nodes hold: luaH_newkey has turned floats into integers.
Storable == {k \in [kind : Kinds, n : Int, hash : Int] :
               (k.kind = "int" => k.hash = k.n) /\ ~Integral(k)}
NodeSet == [key : Storable \cup {NoKey}, dead : BOOLEAN, val : Nat, next : Int]
Tables == [array : Seq(Nat), node : UNION {[0 .. n -> NodeSet] : n \in Nat},
           dummy : BOOLEAN, lastfree : Nat, stuck : BOOLEAN]

Nodes(t) == DOMAIN t.node
Succ(t) == [i \in Nodes(t) |-> i + t.node[i].next]

\* The nodes are numbered from 0.
LEMMA NodesShape ==
  ASSUME NEW t \in Tables
  PROVE  /\ SizeNode(t) \in Nat \ {0}
         /\ Nodes(t) = 0 .. (SizeNode(t) - 1)
         /\ t.node \in [Nodes(t) -> NodeSet]
         /\ IsFiniteSet(Nodes(t))
         /\ Cardinality(Nodes(t)) = SizeNode(t)
<1>1. t.node \in UNION {[0 .. n -> NodeSet] : n \in Nat}
  BY DEF Tables
<1>2. PICK n \in Nat : t.node \in [0 .. n -> NodeSet]
  BY <1>1
<1>3. Nodes(t) = 0 .. n
  BY <1>2 DEF Nodes
<1>4. IsFiniteSet(0 .. n) /\ Cardinality(0 .. n) = n + 1
  BY FS_Interval
<1> QED  BY <1>2, <1>3, <1>4 DEF SizeNode, Nodes

\* What a node holds.
LEMMA NodeTypes ==
  ASSUME NEW t \in Tables, NEW i \in Nodes(t)
  PROVE  /\ i \in Nat
         /\ t.node[i] \in NodeSet
         /\ t.node[i].key \in Storable \cup {NoKey}
         /\ t.node[i].dead \in BOOLEAN
         /\ t.node[i].val \in Nat
         /\ t.node[i].next \in Int
<1>1. t.node[i] \in NodeSet /\ i \in Nat
  BY NodesShape
<1> QED  BY <1>1 DEF NodeSet

\* NoKey is the key of no entry.
LEMMA NoKeyFree == NoKey \notin Storable
  BY DEF NoKey, Storable, Kinds

\* A main position is a node.
LEMMA MainIsNode ==
  ASSUME NEW t \in Tables, NEW k \in Storable
  PROVE  MainPosition(t, k) \in Nodes(t)
<1>1. k.hash \in Int /\ SizeNode(t) \in Nat \ {0} /\ Nodes(t) = 0 .. (SizeNode(t) - 1)
  BY NodesShape DEF Storable
<1> DEFINE n == SizeNode(t)
<1>2. k.hash % n \in 0 .. (n - 1)
  BY <1>1
<1>3. CASE n = 1
  <2>1. k.hash % 1 = 0
    BY <1>1
  <2> QED  BY <1>1, <1>2, <1>3, <2>1 DEF MainPosition
<1>4. CASE n # 1
  <2>1. n - 1 \in Nat \ {0}
    BY <1>1, <1>4
  <2>2. k.hash % (n - 1) \in 0 .. (n - 2)
    BY <1>1, <2>1
  <2> QED  BY <1>1, <1>2, <1>4, <2>2 DEF MainPosition
<1> QED  BY <1>3, <1>4

\* The main position depends on the number of nodes only.
LEMMA MainSame ==
  ASSUME NEW t, NEW u, SizeNode(t) = SizeNode(u), NEW k
  PROVE  MainPosition(u, k) = MainPosition(t, k)
  BY DEF MainPosition

-----------------------------------------------------------------------------
(* The walk along a chain.                                                 *)

\* The table and its chains.
Chained(t) ==
  /\ t \in Tables
  /\ Succ(t) \in [Nodes(t) -> Nodes(t)]
  /\ Acyclic(Succ(t), Nodes(t))

\* A walk that stays in I ends at a node of S in I, or at the end of a chain in I.
LEMMA AlongStays ==
  ASSUME NEW t, Chained(t), NEW S \in SUBSET Nodes(t), NEW I \in SUBSET Nodes(t), NEW i \in I,
         \A x \in I : x \notin S => Succ(t)[x] \in I
  PROVE  \/ Along(t, i, S) \in S \cap I
         \/ Along(t, i, S) = -1 /\ \E x \in I : x \notin S /\ Succ(t)[x] = x
<1> DEFINE D == Nodes(t)
           s == Succ(t)
           stop == S \cup {x \in D : s[x] = x}
           W(f) == f = [j \in DOMAIN t.node |-> IF j \in S \/ t.node[j].next = 0 THEN j
                                                 ELSE f[j + t.node[j].next]]
           walk == CHOOSE f : W(f)
<1>0. t \in Tables /\ s \in [D -> D] /\ Acyclic(s, D)
  BY DEF Chained
<1>1. \A j \in D : j \in Nat /\ t.node[j].next \in Int /\ s[j] = j + t.node[j].next
  BY <1>0, NodeTypes DEF Succ
<1>2. \A j \in D : t.node[j].next = 0 <=> s[j] = j
  BY <1>1
<1>3. ASSUME NEW f PROVE W(f) <=> Loop(f, D, stop, s)
  <2>1. \A j \in D : (IF j \in S \/ t.node[j].next = 0 THEN j ELSE f[j + t.node[j].next])
                     = (IF j \in stop THEN j ELSE f[s[j]])
    BY <1>1, <1>2
  <2>2. [j \in D |-> IF j \in S \/ t.node[j].next = 0 THEN j ELSE f[j + t.node[j].next]]
        = [j \in D |-> IF j \in stop THEN j ELSE f[s[j]]]
    BY <2>1
  <2> HIDE DEF stop, s
  <2> QED  BY <2>2 DEF Loop, Nodes
<1>4. PICK b \in Nat : \E rank : Falls(s, D, rank, b)
  BY <1>0 DEF Acyclic
<1>5. PICK rank : Falls(s, D, rank, b)
  BY <1>4
<1>6. Ranked(D, stop, s, rank, b)
  <2>1. \A x \in D : x \notin stop => s[x] # x
    OBVIOUS
  <2> HIDE DEF stop, s, D
  <2> QED  BY <1>0, <1>5, <2>1 DEF Ranked, Falls
<1>7. \E f : W(f)
  <2>1. \E f : Loop(f, D, stop, s)
    <3> HIDE DEF stop, s, D
    <3> QED  BY <1>6, LoopExists
  <2> QED  BY <2>1, <1>3
<1>8. W(walk)
  <2> HIDE DEF W
  <2> QED  BY <1>7
<1>9. Loop(walk, D, stop, s)
  BY <1>8, <1>3
<1>10. walk[i] \in I /\ walk[i] \in stop
  <2>1. \A x \in I : x \notin stop => s[x] \in I
    OBVIOUS
  <2>2. I \in SUBSET D
    OBVIOUS
  <2> HIDE DEF stop, s, D, walk
  <2>3. \A x \in I : walk[x] \in I /\ walk[x] \in stop
    BY <2>1, <2>2, <1>6, <1>9, LoopStays
  <2> QED  BY <2>3
<1>11. Along(t, i, S) = IF walk[i] \in S THEN walk[i] ELSE -1
  BY DEF Along
<1>12. walk[i] \in S \/ (walk[i] \in I /\ walk[i] \notin S /\ s[walk[i]] = walk[i])
  <2> HIDE DEF walk
  <2> QED  BY <1>10
<1> HIDE DEF walk
<1> QED  BY <1>10, <1>11, <1>12

\* The walk from i finds a member of S that i reaches, if there is one.
LEMMA AlongFinds ==
  ASSUME NEW t, Chained(t), NEW S \in SUBSET Nodes(t), NEW i \in Nodes(t)
  PROVE  /\ Along(t, i, S) \in S \cup {-1}
         /\ \A j \in S : Reach(Succ(t), Nodes(t), i, j) =>
              Along(t, i, S) \in S /\ Reach(Succ(t), Nodes(t), Along(t, i, S), j)
<1> DEFINE D == Nodes(t)
           s == Succ(t)
<1>0. s \in [D -> D]
  BY DEF Chained
<1>1. Along(t, i, S) \in S \cup {-1}
  <2>1. \A x \in D : x \notin S => s[x] \in D
    BY <1>0
  <2> QED  BY <2>1, AlongStays
<1>2. ASSUME NEW j \in S, Reach(s, D, i, j)
      PROVE  Along(t, i, S) \in S /\ Reach(s, D, Along(t, i, S), j)
  <2> DEFINE I == {x \in D : Reach(s, D, x, j)}
  <2>1. \A x \in I : x \notin S => s[x] \in I
    BY <1>0, ReachOn
  <2>2. \A x \in I : x \notin S => s[x] # x
    BY <1>0, ReachEnd
  <2>3. I \in SUBSET D /\ i \in I
    BY <1>2
  <2>4. Along(t, i, S) \in S \cap I
    <3> HIDE DEF I
    <3> QED  BY <2>1, <2>2, <2>3, AlongStays
  <2> QED  BY <2>4
<1> QED  BY <1>1, <1>2

-----------------------------------------------------------------------------
(* What every table is.                                                    *)

\* A node without a key is empty and in no chain.
FreeApart(t) == \A i \in Nodes(t) : t.node[i].key = NoKey =>
                  /\ t.node[i].val = Nil /\ ~t.node[i].dead
                  /\ Lone(Succ(t), Nodes(t), i)

\* No free node is left at lastfree and above; the dummy node is one.
FreeBelow(t) == ~t.dummy => \A i \in Nodes(t) : i >= t.lastfree => t.node[i].key # NoKey
DummyEmpty(t) == t.dummy => SizeNode(t) = 1 /\ t.node[0].key = NoKey /\ t.lastfree = 0

DeadEmpty(t) == \A i \in Nodes(t) : t.node[i].dead => t.node[i].val = Nil

\* The node of a key that is not dead comes before all others of that key.
LiveFirst(t) ==
  \A i, j \in Nodes(t) :
    t.node[i].key = t.node[j].key /\ t.node[i].key # NoKey /\ ~t.node[i].dead
      => Reach(Succ(t), Nodes(t), i, j)

\* No node has a key for which the array has a slot.
Outside(t) == \A i \in Nodes(t) : ~InArray(t, t.node[i].key)

\* Brent's variation: a key is in the chain of its main position, and what is there
\* is in its own.
Homed(t) ==
  \A i \in Nodes(t) : t.node[i].key # NoKey =>
    LET m == MainPosition(t, t.node[i].key)
    IN /\ t.node[m].key # NoKey
       /\ MainPosition(t, t.node[m].key) = m
       /\ Reach(Succ(t), Nodes(t), m, i)

WellFormed(t) ==
  /\ Chained(t)
  /\ OneBefore(Succ(t), Nodes(t))
  /\ t.lastfree <= SizeNode(t)
  /\ FreeApart(t) /\ FreeBelow(t) /\ DummyEmpty(t) /\ DeadEmpty(t)
  /\ LiveFirst(t) /\ Outside(t) /\ Homed(t)

\* What the table stores under k is v.
Gives(t, k, v) ==
  IF InArray(t, k) THEN t.array[k.n] = v
  ELSE IF v = Nil THEN \A i \in Nodes(t) : t.node[i].key = k => t.node[i].val = Nil
  ELSE \E i \in Nodes(t) : t.node[i].key = k /\ t.node[i].val = v

\* Integers are keys of their own; floats that are integers become them.
LEMMA NormalKeys ==
  /\ \A i \in Int : Index(i) \in Storable /\ Index(i).kind = "int" /\ Index(i).n = i
  /\ \A k \in Storable : Normal(k) = k /\ (k.kind = "int" => k = Index(k.n) /\ k.n \in Int)
  /\ \A k \in Keys : Normal(k) \in Storable
<1>1. \A i \in Int : Index(i) \in Storable /\ Index(i).kind = "int" /\ Index(i).n = i
  BY DEF Index, Storable, Integral, Kinds
<1>2. ASSUME NEW k \in Storable PROVE Normal(k) = k /\ (k.kind = "int" => k = Index(k.n) /\ k.n \in Int)
  BY DEF Normal, Storable, Index
<1>3. ASSUME NEW k \in Keys PROVE Normal(k) \in Storable
  <2>1. k \in [kind : Kinds, n : Int, hash : Int] /\ (k.kind = "int" => k = Index(k.n))
    BY TableConstants
  <2>2. CASE Integral(k)
    <3>1. k.n \div 2 \in Int
      BY <2>1
    <3> QED  BY <3>1, <2>2, <1>1 DEF Normal
  <2>3. CASE ~Integral(k)
    BY <2>1, <2>3 DEF Normal, Storable, Index
  <2> QED  BY <2>2, <2>3
<1> QED  BY <1>1, <1>2, <1>3

\* Only one node of a key is not dead.
LEMMA OneLive ==
  ASSUME NEW t, WellFormed(t), NEW i \in Nodes(t), NEW j \in Nodes(t),
         t.node[i].key = t.node[j].key, t.node[i].key # NoKey,
         ~t.node[i].dead, ~t.node[j].dead
  PROVE  i = j
<1>1. Reach(Succ(t), Nodes(t), i, j) /\ Reach(Succ(t), Nodes(t), j, i)
  BY DEF WellFormed, LiveFirst
<1>2. Succ(t) \in [Nodes(t) -> Nodes(t)] /\ Acyclic(Succ(t), Nodes(t))
  BY DEF WellFormed, Chained
<1> QED  BY <1>1, <1>2, ReachOneWay

\* The search for a key finds the node that holds it.
LEMMA FindFinds ==
  ASSUME NEW t, WellFormed(t), NEW k \in Storable
  PROVE  /\ Find(t, k) = -1 => \A i \in Nodes(t) : t.node[i].key = k => t.node[i].dead
         /\ Find(t, k) # -1 => /\ Find(t, k) \in Nodes(t) /\ t.node[Find(t, k)].key = k
                               /\ ~t.node[Find(t, k)].dead
<1> DEFINE m == MainPosition(t, k)
           S == Holding(t, k)
<1>1. Chained(t) /\ t \in Tables
  BY DEF WellFormed, Chained
<1>2. m \in Nodes(t) /\ S \in SUBSET Nodes(t) /\ -1 \notin S
  BY <1>1, MainIsNode, NodesShape DEF Holding, Nodes
<1>3. \A j \in S : Reach(Succ(t), Nodes(t), m, j)
  BY NoKeyFree DEF Holding, WellFormed, Homed, Nodes
<1>4. Find(t, k) = Along(t, m, S)
  BY DEF Find
<1> HIDE DEF m
<1>5. Find(t, k) \in S \cup {-1} /\ (S # {} => Find(t, k) \in S)
  <2> HIDE DEF S
  <2> QED  BY <1>1, <1>2, <1>3, <1>4, AlongFinds
<1>6. \A i \in S : i \in Nodes(t) /\ t.node[i].key = k /\ ~t.node[i].dead
  BY DEF Holding, Nodes
<1>7. \A i \in Nodes(t) : t.node[i].key = k /\ ~t.node[i].dead => i \in S
  BY DEF Holding, Nodes
<1>8. \A i \in Nodes(t) : t.node[i].dead \in BOOLEAN
  BY <1>1, NodeTypes
<1> HIDE DEF S
<1> QED  BY <1>2, <1>5, <1>6, <1>7, <1>8

\* A table stores one value under a key, and luaH_get yields it.
LEMMA GetGives ==
  ASSUME NEW t, WellFormed(t), NEW k \in Storable, NEW v \in Nat, Gives(t, k, v)
  PROVE  /\ Get(t, k) = v
         /\ k.kind = "int" => GetInt(t, k.n) = v
<1> DEFINE f == Find(t, k)
           found == IF f = -1 THEN Nil ELSE t.node[f].val
<1>1. Normal(k) = k /\ (k.kind = "int" => k = Index(k.n) /\ k.n \in Int) /\ k # NoKey
  BY NormalKeys, NoKeyFree
<1>2. ~InArray(t, k) => found = v
  <2> SUFFICES ASSUME ~InArray(t, k) PROVE found = v
    OBVIOUS
  <2>1. \A i \in Nodes(t) : t.node[i].val # Nil => ~t.node[i].dead
    BY DEF WellFormed, DeadEmpty
  <2>2. CASE v = Nil
    <3>1. \A i \in Nodes(t) : t.node[i].key = k => t.node[i].val = Nil
      BY <2>2 DEF Gives
    <3> HIDE DEF f
    <3>2. f # -1 => f \in Nodes(t) /\ t.node[f].key = k
      BY FindFinds DEF f
    <3> QED  BY <3>1, <3>2, <2>2
  <2>3. CASE v # Nil
    <3>1. PICK i \in Nodes(t) : t.node[i].key = k /\ t.node[i].val = v
      BY <2>3 DEF Gives
    <3>2. f # -1 /\ f \in Nodes(t) /\ t.node[f].key = k /\ ~t.node[f].dead
      BY <3>1, <2>1, <2>3, FindFinds
    <3>3. f = i
      <4> HIDE DEF f
      <4> QED  BY <3>1, <3>2, <2>1, <2>3, <1>1, OneLive
    <3> QED  BY <3>1, <3>2, <3>3
  <2> QED  BY <2>2, <2>3
<1>3. InArray(t, k) => t.array[k.n] = v
  BY DEF Gives
<1>4. k.kind = "int" => GetInt(t, k.n) = v
  BY <1>1, <1>2, <1>3 DEF GetInt
<1>5. k.kind # "int" => ~InArray(t, k)
  BY DEF InArray
<1> QED  BY <1>1, <1>2, <1>4, <1>5 DEF Get

\* There is no second value.
LEMMA GivesOne ==
  ASSUME NEW t, WellFormed(t), NEW k \in Storable, NEW v \in Nat, NEW w \in Nat,
         Gives(t, k, v), Gives(t, k, w)
  PROVE  v = w
  BY GetGives

\* Something is stored under every key.
LEMMA GivesSome ==
  ASSUME NEW t \in Tables, NEW k \in Storable
  PROVE  \E v \in Nat : Gives(t, k, v)
<1>1. CASE InArray(t, k)
  <2>1. t.array \in Seq(Nat) /\ k.n \in 1 .. Len(t.array)
    BY <1>1 DEF Tables, InArray
  <2> QED  BY <2>1, <1>1 DEF Gives
<1>2. CASE ~InArray(t, k) /\ \A i \in Nodes(t) : t.node[i].key = k => t.node[i].val = Nil
  <2>1. Gives(t, k, Nil) /\ Nil \in Nat
    BY <1>2 DEF Gives, Nil
  <2> QED  BY <2>1
<1>3. CASE ~InArray(t, k) /\ \E i \in Nodes(t) : t.node[i].key = k /\ t.node[i].val # Nil
  BY <1>3, NodeTypes DEF Gives
<1> QED  BY <1>1, <1>2, <1>3

-----------------------------------------------------------------------------
(* The changes of an insertion, field by field.                            *)

\* A bounded set of natural numbers that is not empty has a greatest member.
LEMMA MaxIs ==
  ASSUME NEW b \in Nat, NEW S \in SUBSET (0 .. b), S # {}
  PROVE  Max(S) \in S /\ \A x \in S : x <= Max(S)
<1> DEFINE T == {b - x : x \in S}
<1>1. T \in SUBSET Nat
  OBVIOUS
<1>0. T # {}
  OBVIOUS
<1>2. PICK n \in T : \A m \in T : n <= m
  BY <1>0, <1>1, NatMin
<1>3. PICK y \in S : n = b - y
  OBVIOUS
<1>4. \A x \in S : y >= x
  <2> TAKE x \in S
  <2>1. b - x \in T /\ x \in Nat /\ y \in Nat
    OBVIOUS
  <2>2. n <= b - x
    BY <2>1, <1>2
  <2> QED  BY <2>1, <2>2, <1>3
<1>5. \E z \in S : \A x \in S : z >= x
  BY <1>4
<1>6. Max(S) \in S /\ \A x \in S : Max(S) >= x
  BY <1>5 DEF Max
<1> QED  BY <1>6

\* The free position is the highest node without a key below lastfree.
LEMMA FreePosIs ==
  ASSUME NEW t, t \in Tables, t.lastfree <= SizeNode(t)
  PROVE  /\ FreePos(t) = -1 => \A i \in Nodes(t) : i < t.lastfree => t.node[i].key # NoKey
         /\ FreePos(t) # -1 =>
              /\ FreePos(t) \in Nodes(t) /\ FreePos(t) < t.lastfree
              /\ t.node[FreePos(t)].key = NoKey
              /\ \A i \in Nodes(t) : FreePos(t) < i /\ i < t.lastfree => t.node[i].key # NoKey
<1> DEFINE free == {i \in 0 .. (t.lastfree - 1) : t.node[i].key = NoKey}
<1>1. t.lastfree \in Nat /\ SizeNode(t) \in Nat /\ Nodes(t) = 0 .. (SizeNode(t) - 1)
  BY NodesShape DEF Tables
<1>2. CASE free = {}
  BY <1>1, <1>2 DEF FreePos
<1>3. CASE free # {}
  <2>1. free \in SUBSET (0 .. t.lastfree)
    BY <1>1
  <2>2. Max(free) \in free /\ \A x \in free : x <= Max(free)
    <3> HIDE DEF free
    <3> QED  BY <1>1, <1>3, <2>1, MaxIs
  <2>3. FreePos(t) = Max(free)
    BY <1>3 DEF FreePos
  <2>4. /\ Max(free) \in 0 .. (t.lastfree - 1) /\ t.node[Max(free)].key = NoKey
        /\ \A i \in Nodes(t) : Max(free) < i /\ i < t.lastfree => t.node[i].key # NoKey
    <3>1. \A i \in Nodes(t) : i < t.lastfree /\ t.node[i].key = NoKey => i \in free
      BY <1>1
    <3> DEFINE top == Max(free)
    <3>2. top \in 0 .. (t.lastfree - 1) /\ t.node[top].key = NoKey
      BY <2>2
    <3> HIDE DEF free
    <3>3. \A i \in Nodes(t) : i \in free => i <= top
      BY <2>2
    <3> HIDE DEF top
    <3>4. \A i \in Nodes(t) : top < i /\ i < t.lastfree => t.node[i].key # NoKey
      BY <3>1, <3>2, <3>3, <1>1
    <3> QED  BY <3>2, <3>4 DEF top
  <2> HIDE DEF free
  <2> QED  BY <1>1, <2>3, <2>4
<1> QED  BY <1>2, <1>3

\* u is t with other nodes.
Renodes(t, u, g, l) == u = [t EXCEPT !.lastfree = l, !.node = g]

\* What a table with other nodes is.
LEMMA WithNodes ==
  ASSUME NEW t \in Tables, NEW g \in [Nodes(t) -> NodeSet], NEW l \in Nat,
         NEW u, Renodes(t, u, g, l)
  PROVE  /\ u \in Tables /\ u.node = g /\ Nodes(u) = Nodes(t) /\ SizeNode(u) = SizeNode(t)
         /\ u.array = t.array /\ u.dummy = t.dummy /\ u.stuck = t.stuck /\ u.lastfree = l
<1>1. /\ u.node = g /\ u.array = t.array /\ u.dummy = t.dummy /\ u.stuck = t.stuck /\ u.lastfree = l
  BY DEF Tables, Renodes
<1>2. Nodes(u) = Nodes(t)
  BY <1>1 DEF Nodes
<1>3. g \in UNION {[0 .. n -> NodeSet] : n \in Nat}
  <2>1. SizeNode(t) - 1 \in Nat /\ Nodes(t) = 0 .. (SizeNode(t) - 1)
    BY NodesShape
  <2> QED  BY <2>1
<1>4. u \in Tables
  BY <1>3 DEF Tables, Renodes
<1>5. SizeNode(u) = SizeNode(t)
  BY <1>2 DEF SizeNode, Nodes
<1> QED  BY <1>1, <1>2, <1>4, <1>5

\* u has the sizes of t.
SameSizes(t, u) ==
  /\ u \in Tables
  /\ Nodes(u) = Nodes(t) /\ SizeNode(u) = SizeNode(t)
  /\ u.dummy = t.dummy /\ Len(u.array) = Len(t.array)

\* u has the keys and chains of t; more keys may be dead and other values be stored.
SameChains(t, u) ==
  /\ SameSizes(t, u)
  /\ u.lastfree = t.lastfree
  /\ \A i \in Nodes(t) :
       /\ u.node[i].key = t.node[i].key /\ u.node[i].next = t.node[i].next
       /\ t.node[i].dead => u.node[i].dead
       /\ u.node[i].dead => u.node[i].val = Nil
       /\ u.node[i].key = NoKey => u.node[i].val = Nil /\ ~u.node[i].dead

\* Such a table is well formed.
LEMMA SameChainsKeep ==
  ASSUME NEW t, NEW u, WellFormed(t), SameChains(t, u)
  PROVE  WellFormed(u)
<1> DEFINE s == Succ(t)
           N == Nodes(t)
<1>1. /\ u \in Tables /\ Nodes(u) = N /\ SizeNode(u) = SizeNode(t)
      /\ u.dummy = t.dummy /\ Len(u.array) = Len(t.array) /\ u.lastfree = t.lastfree
  BY DEF SameChains, SameSizes
<1>2. \A i \in N : u.node[i].key = t.node[i].key /\ u.node[i].next = t.node[i].next
  BY DEF SameChains
<1>3. Succ(u) = s
  BY <1>1, <1>2 DEF Succ
<1>4. \A k : InArray(u, k) <=> InArray(t, k)
  BY <1>1 DEF InArray
<1>5. \A k : MainPosition(u, k) = MainPosition(t, k)
  BY <1>1, MainSame
<1>6. Chained(u) /\ OneBefore(Succ(u), Nodes(u)) /\ u.lastfree <= SizeNode(u)
  BY <1>1, <1>3 DEF WellFormed, Chained
<1>7. FreeApart(u)
  <2>1. FreeApart(t) /\ \A i \in N : u.node[i].key = NoKey => u.node[i].val = Nil /\ ~u.node[i].dead
    BY DEF WellFormed, SameChains
  <2> QED  BY <2>1, <1>1, <1>2, <1>3 DEF FreeApart
<1>8. FreeBelow(u) /\ DummyEmpty(u)
  <2>1. t.dummy => 0 \in N
    BY NodesShape DEF WellFormed, Chained, DummyEmpty
  <2> QED  BY <2>1, <1>1, <1>2 DEF WellFormed, FreeBelow, DummyEmpty
<1>9. DeadEmpty(u)
  BY <1>1 DEF SameChains, DeadEmpty
<1>10. LiveFirst(u)
  <2>1. LiveFirst(t) /\ \A i \in N : t.node[i].dead => u.node[i].dead
    BY DEF WellFormed, SameChains
  <2> QED  BY <2>1, <1>1, <1>2, <1>3 DEF LiveFirst
<1>11. Outside(u)
  BY <1>1, <1>2, <1>4 DEF WellFormed, Outside
<1>12. Homed(u)
  <2> SUFFICES ASSUME NEW i \in N, u.node[i].key # NoKey
               PROVE  LET m == MainPosition(u, u.node[i].key)
                      IN /\ u.node[m].key # NoKey
                         /\ MainPosition(u, u.node[m].key) = m
                         /\ Reach(Succ(u), N, m, i)
    BY <1>1 DEF Homed
  <2>1. Homed(t) /\ t \in Tables /\ t.node[i].key \in Storable
    BY <1>2, NodeTypes DEF WellFormed, Chained
  <2> DEFINE m == MainPosition(t, t.node[i].key)
  <2>2. m \in N
    BY <2>1, MainIsNode
  <2>3. t.node[m].key # NoKey /\ MainPosition(t, t.node[m].key) = m /\ Reach(s, N, m, i)
    BY <2>1, <1>2 DEF Homed
  <2>4. MainPosition(u, u.node[i].key) = m
    BY <1>2, <1>5
  <2> HIDE DEF m
  <2> QED  BY <2>2, <2>3, <2>4, <1>2, <1>3, <1>5
<1> QED  BY <1>6, <1>7, <1>8, <1>9, <1>10, <1>11, <1>12 DEF WellFormed

Occupied(t) == {i \in Nodes(t) : t.node[i].key # NoKey}

\* What storing v under k does: it changes nothing else and takes one node at most.
Stores(t, u, k, v) ==
  /\ WellFormed(u) /\ SameSizes(t, u) /\ u.stuck = t.stuck
  /\ Gives(u, k, v)
  /\ \A j \in Storable, w \in Nat : j # k /\ Gives(t, j, w) => Gives(u, j, w)
  /\ IF InArray(t, k) THEN Occupied(u) = Occupied(t)
     ELSE \E x : Occupied(u) \subseteq Occupied(t) \cup {x}

\* A slot of the array takes the value.
LEMMA SlotStores ==
  ASSUME NEW t, WellFormed(t), NEW k \in Storable, NEW v \in Nat, InArray(t, k)
  PROVE  Stores(t, [t EXCEPT !.array[k.n] = v], k, v)
<1> DEFINE u == [t EXCEPT !.array[k.n] = v]
<1>1. t \in Tables /\ t.array \in Seq(Nat) /\ k.n \in 1 .. Len(t.array) /\ k.kind = "int"
  BY DEF WellFormed, Chained, Tables, InArray
<1>2. /\ u.array = [t.array EXCEPT ![k.n] = v] /\ u.node = t.node /\ u.dummy = t.dummy
      /\ u.lastfree = t.lastfree /\ u.stuck = t.stuck /\ u \in Tables
  <2>1. [t.array EXCEPT ![k.n] = v] \in Seq(Nat)
    BY <1>1, ExceptSeq
  <2> QED  BY <1>1, <2>1 DEF Tables
<1> HIDE DEF u
<1>3. Len(u.array) = Len(t.array) /\ \A i \in 1 .. Len(t.array) : u.array[i] = IF i = k.n THEN v ELSE t.array[i]
  BY <1>1, <1>2
<1>4. Nodes(u) = Nodes(t) /\ SizeNode(u) = SizeNode(t) /\ Occupied(u) = Occupied(t)
  BY <1>2 DEF Nodes, SizeNode, Occupied
<1>5. SameSizes(t, u)
  BY <1>2, <1>3, <1>4 DEF SameSizes
<1>6. SameChains(t, u)
  BY <1>2, <1>5 DEF SameChains, WellFormed, DeadEmpty, FreeApart
<1>7. WellFormed(u)
  BY <1>6, SameChainsKeep
<1>8. InArray(u, k) /\ \A j : InArray(u, j) <=> InArray(t, j)
  BY <1>3 DEF InArray
<1>9. Gives(u, k, v)
  BY <1>1, <1>3, <1>8 DEF Gives
<1>10. ASSUME NEW j \in Storable, NEW w \in Nat, j # k, Gives(t, j, w) PROVE Gives(u, j, w)
  <2>1. CASE InArray(t, j)
    <3>1. j.n # k.n /\ j.n \in 1 .. Len(t.array)
      BY <1>1, <1>10, <2>1, NormalKeys DEF InArray
    <3> QED  BY <3>1, <2>1, <1>3, <1>8, <1>10 DEF Gives
  <2>2. CASE ~InArray(t, j)
    BY <2>2, <1>2, <1>4, <1>8, <1>10 DEF Gives
  <2> QED  BY <2>1, <2>2
<1>11. Stores(t, u, k, v)
  BY <1>2, <1>4, <1>5, <1>7, <1>9, <1>10 DEF Stores
<1> QED  BY <1>11 DEF u

\* The node of the key takes the value.
LEMMA FoundStores ==
  ASSUME NEW t, WellFormed(t), NEW k \in Storable, NEW v \in Nat, ~InArray(t, k),
         Find(t, k) # -1
  PROVE  Stores(t, [t EXCEPT !.node[Find(t, k)].val = v], k, v)
<1> DEFINE f == Find(t, k)
           g == [t.node EXCEPT ![f].val = v]
           u == [t EXCEPT !.node[f].val = v]
           N == Nodes(t)
<1>1. t \in Tables /\ f \in N /\ t.node[f].key = k /\ ~t.node[f].dead /\ k # NoKey
  BY FindFinds, NoKeyFree DEF WellFormed, Chained
<1> HIDE DEF f
<1>2. t.node \in [N -> NodeSet] /\ t.lastfree \in Nat /\ t.node[f] \in NodeSet
  BY <1>1, NodesShape DEF Tables
<1>3. /\ g \in [N -> NodeSet]
      /\ \A i \in N : /\ g[i].key = t.node[i].key /\ g[i].next = t.node[i].next
                      /\ g[i].dead = t.node[i].dead
                      /\ g[i].val = IF i = f THEN v ELSE t.node[i].val
  BY <1>1, <1>2 DEF NodeSet
<1>4. Renodes(t, u, g, t.lastfree)
  BY <1>1 DEF Tables, Renodes
<1> HIDE DEF g, u
<1>5. /\ u \in Tables /\ u.node = g /\ Nodes(u) = Nodes(t) /\ SizeNode(u) = SizeNode(t)
      /\ u.array = t.array /\ u.dummy = t.dummy /\ u.stuck = t.stuck /\ u.lastfree = t.lastfree
  BY <1>1, <1>2, <1>3, <1>4, WithNodes
<1> HIDE DEF u
<1>6. SameSizes(t, u) /\ Occupied(u) = Occupied(t)
  BY <1>3, <1>5 DEF SameSizes, Occupied
<1>7. SameChains(t, u)
  BY <1>1, <1>3, <1>5, <1>6 DEF SameChains, WellFormed, DeadEmpty, FreeApart
<1>8. WellFormed(u)
  BY <1>7, SameChainsKeep
<1>9. \A j : InArray(u, j) <=> InArray(t, j)
  BY <1>5 DEF InArray
<1>10. Gives(u, k, v)
  <2>1. \A i \in N : g[i].key = k /\ g[i].val # Nil => i = f
    <3>1. \A i \in N : g[i].key = k /\ g[i].val # Nil /\ i # f => ~t.node[i].dead
      BY <1>3 DEF WellFormed, DeadEmpty
    <3> QED  BY <3>1, <1>1, <1>3, OneLive
  <2> QED  BY <2>1, <1>1, <1>3, <1>5, <1>9 DEF Gives
<1>11. ASSUME NEW j \in Storable, NEW w \in Nat, j # k, Gives(t, j, w) PROVE Gives(u, j, w)
  BY <1>1, <1>3, <1>5, <1>9, <1>11 DEF Gives
<1>12. Stores(t, u, k, v)
  BY <1>5, <1>6, <1>8, <1>10, <1>11 DEF Stores
<1> QED  BY <1>12 DEF u, f

-----------------------------------------------------------------------------
(* A new key.                                                              *)

\* No node has k but dead ones, nor has the array a slot for it.
Absent(t, k) ==
  /\ ~InArray(t, k)
  /\ \A i \in Nodes(t) : t.node[i].key = k => t.node[i].dead

\* What is the same for every insertion of a key k that is absent: the other keys
\* have moved from i to to[i] with their values, and k is at c.
Inserted(t, u, k, v, c, to) ==
  /\ SameSizes(t, u) /\ u.stuck = t.stuck /\ u.array = t.array
  /\ c \in Nodes(t) /\ u.node[c].key = k /\ u.node[c].val = v
  /\ \A i \in Nodes(t) : t.node[i].key # NoKey =>
       /\ to[i] \in Nodes(t)
       /\ to[i] # c => /\ u.node[to[i]].key = t.node[i].key
                       /\ u.node[to[i]].val = t.node[i].val
       /\ to[i] = c => t.node[i].val = Nil
  /\ \A j \in Nodes(t) : u.node[j].key # NoKey /\ j # c =>
       \E i \in Nodes(t) : /\ to[i] = j /\ t.node[i].key = u.node[j].key
                           /\ t.node[i].val = u.node[j].val

\* After an insertion the key has the value and the others keep theirs.
LEMMA InsertedGives ==
  ASSUME NEW t, NEW u, NEW k \in Storable, NEW v \in Nat, NEW c, NEW to,
         WellFormed(t), Absent(t, k), Inserted(t, u, k, v, c, to)
  PROVE  /\ Gives(u, k, v)
         /\ \A j \in Storable, w \in Nat : j # k /\ Gives(t, j, w) => Gives(u, j, w)
<1> DEFINE N == Nodes(t)
<1>1. /\ Nodes(u) = N /\ u.array = t.array /\ c \in N /\ u.node[c].key = k /\ u.node[c].val = v
      /\ \A j : InArray(u, j) <=> InArray(t, j)
  BY DEF Inserted, SameSizes, InArray
<1>2. ASSUME NEW i \in N, t.node[i].key # NoKey
      PROVE  /\ to[i] \in N
             /\ to[i] # c => /\ u.node[to[i]].key = t.node[i].key
                             /\ u.node[to[i]].val = t.node[i].val
             /\ to[i] = c => t.node[i].val = Nil
  BY <1>2 DEF Inserted
<1>3. ASSUME NEW j \in N, u.node[j].key # NoKey, j # c
      PROVE  \E i \in N : t.node[i].key = u.node[j].key /\ t.node[i].val = u.node[j].val
  BY <1>3 DEF Inserted
<1>4. ~InArray(t, k) /\ \A i \in N : t.node[i].key = k => t.node[i].val = Nil
  BY DEF Absent, WellFormed, DeadEmpty
<1>5. Gives(u, k, v)
  <2>1. CASE v = Nil
    <3>1. ASSUME NEW j \in N, u.node[j].key = k PROVE u.node[j].val = Nil
      BY <3>1, <1>1, <1>3, <1>4, <2>1, NoKeyFree
    <3> QED  BY <3>1, <1>1, <1>4, <2>1 DEF Gives
  <2>2. CASE v # Nil
    BY <2>2, <1>1, <1>4 DEF Gives
  <2> QED  BY <2>1, <2>2
<1>6. ASSUME NEW j \in Storable, NEW w \in Nat, j # k, Gives(t, j, w) PROVE Gives(u, j, w)
  <2>1. CASE InArray(t, j)
    BY <2>1, <1>6, <1>1 DEF Gives
  <2>2. CASE ~InArray(t, j) /\ w = Nil
    <3>1. \A i \in N : t.node[i].key = j => t.node[i].val = Nil
      BY <2>2, <1>6 DEF Gives
    <3>2. ASSUME NEW i \in N, u.node[i].key = j PROVE u.node[i].val = Nil
      BY <3>1, <3>2, <1>1, <1>3, <1>6, NoKeyFree
    <3> QED  BY <3>2, <2>2, <1>1 DEF Gives
  <2>3. CASE ~InArray(t, j) /\ w # Nil
    <3>1. PICK i \in N : t.node[i].key = j /\ t.node[i].val = w
      BY <2>3, <1>6 DEF Gives
    <3>2. to[i] \in N /\ u.node[to[i]].key = j /\ u.node[to[i]].val = w
      BY <3>1, <2>3, <1>2, NoKeyFree
    <3> QED  BY <3>2, <2>3, <1>1 DEF Gives
  <2> QED  BY <2>1, <2>2, <2>3
<1> QED  BY <1>5, <1>6

\* The main position is free, or its value is gone: the key settles there.
LEMMA SettleStores ==
  ASSUME NEW t, WellFormed(t), NEW k \in Storable, NEW v \in Nat, Absent(t, k), ~t.dummy,
         t.node[MainPosition(t, k)].val = Nil
  PROVE  Stores(t, SetKey(t, MainPosition(t, k), k, v), k, v)
<1> DEFINE N == Nodes(t)
           s == Succ(t)
           m == MainPosition(t, k)
           g == [t.node EXCEPT ![m] = [key |-> k, dead |-> FALSE, val |-> v, next |-> t.node[m].next]]
           u == SetKey(t, m, k, v)
           to == [i \in N |-> i]
<1>1. t \in Tables /\ m \in N /\ k # NoKey
  BY MainIsNode, NoKeyFree DEF WellFormed, Chained
<1>2. t.node \in [N -> NodeSet] /\ t.lastfree \in Nat /\ t.node[m].next \in Int /\ t.node[m].val = Nil
  BY <1>1, NodesShape, NodeTypes DEF Tables
<1> HIDE DEF m
<1>3. [key |-> k, dead |-> FALSE, val |-> v, next |-> t.node[m].next] \in NodeSet
  BY <1>2 DEF NodeSet
<1>4. /\ g \in [N -> NodeSet]
      /\ g[m].key = k /\ g[m].val = v /\ g[m].dead = FALSE /\ g[m].next = t.node[m].next
      /\ \A i \in N : i # m => g[i] = t.node[i]
  BY <1>1, <1>2, <1>3
<1>5. Renodes(t, u, g, t.lastfree)
  BY <1>1 DEF Tables, Renodes, SetKey
<1> HIDE DEF g, u
<1>6. /\ u \in Tables /\ u.node = g /\ Nodes(u) = N /\ SizeNode(u) = SizeNode(t)
      /\ u.array = t.array /\ u.dummy = t.dummy /\ u.stuck = t.stuck /\ u.lastfree = t.lastfree
  BY <1>1, <1>2, <1>4, <1>5, WithNodes
<1>7. Succ(u) = s
  <2>1. \A i \in N : g[i].next = t.node[i].next
    BY <1>4
  <2> QED  BY <2>1, <1>6 DEF Succ
<1>8. \A j : InArray(u, j) <=> InArray(t, j)
  BY <1>6 DEF InArray
<1>9. \A j : MainPosition(u, j) = MainPosition(t, j)
  BY <1>6, MainSame
<1>10. s \in [N -> N] /\ Homed(t) /\ LiveFirst(t)
  BY DEF WellFormed, Chained
<1>11. WellFormed(u)
  <2>1. Chained(u) /\ OneBefore(Succ(u), Nodes(u)) /\ u.lastfree <= SizeNode(u)
    BY <1>6, <1>7 DEF WellFormed, Chained
  <2>2. FreeApart(u)
    BY <1>1, <1>4, <1>6, <1>7 DEF WellFormed, FreeApart
  <2>3. FreeBelow(u) /\ DummyEmpty(u)
    BY <1>1, <1>4, <1>6 DEF WellFormed, FreeBelow, DummyEmpty
  <2>4. DeadEmpty(u)
    BY <1>4, <1>6 DEF WellFormed, DeadEmpty
  <2>5. LiveFirst(u)
    <3> SUFFICES ASSUME NEW i \in N, NEW j \in N, g[i].key = g[j].key, g[i].key # NoKey, ~g[i].dead
                 PROVE  Reach(s, N, i, j)
      BY <1>6, <1>7 DEF LiveFirst
    <3>1. CASE i = j
      BY <3>1, <1>10, ReachFirst
    <3>2. CASE i = m /\ j # m
      <4>1. t.node[j].key = k
        BY <3>2, <1>4
      <4>2. Reach(s, N, MainPosition(t, t.node[j].key), j)
        BY <4>1, <1>1, <1>10 DEF Homed
      <4> QED  BY <4>1, <4>2, <3>2 DEF m
    <3>3. CASE i # m /\ j = m
      BY <3>3, <1>4 DEF Absent
    <3>4. CASE i # m /\ j # m
      BY <3>4, <1>4, <1>10 DEF LiveFirst
    <3> QED  BY <3>1, <3>2, <3>3, <3>4
  <2>6. Outside(u)
    BY <1>4, <1>6, <1>8 DEF WellFormed, Outside, Absent
  <2>7. Homed(u)
    <3> SUFFICES ASSUME NEW i \in N, g[i].key # NoKey
                 PROVE  LET h == MainPosition(t, g[i].key)
                        IN /\ g[h].key # NoKey
                           /\ MainPosition(t, g[h].key) = h
                           /\ Reach(s, N, h, i)
      BY <1>6, <1>7, <1>9 DEF Homed
    <3>1. CASE i = m
      <4>1. MainPosition(t, g[i].key) = m
        BY <3>1, <1>4 DEF m
      <4>2. MainPosition(t, g[m].key) = m
        BY <3>1, <4>1
      <4>3. Reach(s, N, m, i)
        BY <3>1, <1>1, <1>10, ReachFirst
      <4> QED  BY <4>1, <4>2, <4>3, <1>1, <1>4
    <3>2. CASE i # m
      <4> DEFINE h == MainPosition(t, t.node[i].key)
      <4>1. g[i].key = t.node[i].key /\ t.node[i].key # NoKey /\ t.node[i].key \in Storable
        BY <3>2, <1>1, <1>4, NodeTypes
      <4>2. h \in N
        BY <4>1, <1>1, MainIsNode
      <4>3. t.node[h].key # NoKey /\ MainPosition(t, t.node[h].key) = h /\ Reach(s, N, h, i)
        BY <4>1, <1>10 DEF Homed
      <4>4. MainPosition(t, g[i].key) = h
        BY <4>1
      <4> HIDE DEF h
      <4>5. g[h].key # NoKey /\ MainPosition(t, g[h].key) = h
        <5>1. CASE h = m
          BY <5>1, <1>1, <1>4 DEF m
        <5>2. CASE h # m
          BY <5>2, <4>2, <4>3, <1>4
        <5> QED  BY <5>1, <5>2
      <4> QED  BY <4>3, <4>4, <4>5
    <3> QED  BY <3>1, <3>2
  <2> QED  BY <2>1, <2>2, <2>3, <2>4, <2>5, <2>6, <2>7 DEF WellFormed
<1>12. SameSizes(t, u)
  BY <1>6 DEF SameSizes
<1>13. Inserted(t, u, k, v, m, to)
  BY <1>1, <1>2, <1>4, <1>6, <1>12 DEF Inserted
<1>14. Gives(u, k, v) /\ \A j \in Storable, w \in Nat : j # k /\ Gives(t, j, w) => Gives(u, j, w)
  <2> HIDE DEF to
  <2> QED  BY <1>13, InsertedGives
<1>15. Occupied(u) \subseteq Occupied(t) \cup {m} /\ ~InArray(t, k)
  BY <1>4, <1>6 DEF Occupied, Absent
<1>16. Stores(t, u, k, v)
  BY <1>6, <1>11, <1>12, <1>14, <1>15 DEF Stores
<1> QED  BY <1>16 DEF u, m

\* The free position of an insertion.
LEMMA FreeNode ==
  ASSUME NEW t, WellFormed(t), FreePos(t) # -1
  PROVE  /\ FreePos(t) \in Nodes(t) /\ t.node[FreePos(t)].key = NoKey
         /\ Lone(Succ(t), Nodes(t), FreePos(t))
         /\ t.node[FreePos(t)].next = 0
         /\ FreePos(t) \in Nat /\ ~t.dummy
         /\ \A i \in Nodes(t) : i > FreePos(t) => t.node[i].key # NoKey
<1> DEFINE f == FreePos(t)
<1>1. t \in Tables /\ t.lastfree <= SizeNode(t)
  BY DEF WellFormed, Chained
<1>2. /\ f \in Nodes(t) /\ f < t.lastfree /\ t.node[f].key = NoKey
      /\ \A i \in Nodes(t) : f < i /\ i < t.lastfree => t.node[i].key # NoKey
  BY <1>1, FreePosIs
<1>3. /\ t.lastfree \in Nat /\ f \in Nat /\ \A i \in Nodes(t) : i \in Nat
      /\ t.node[f].next \in Int
  BY <1>1, <1>2, NodesShape, NodeTypes DEF Tables
<1> HIDE DEF f
<1>4. ~t.dummy
  BY <1>2, <1>3 DEF WellFormed, DummyEmpty
<1>5. Lone(Succ(t), Nodes(t), f)
  BY <1>2 DEF WellFormed, FreeApart
<1>6. t.node[f].next = 0
  BY <1>5, <1>2, <1>3 DEF Lone, Succ
<1>7. \A i \in Nodes(t) : i > f => t.node[i].key # NoKey
  BY <1>2, <1>3, <1>4 DEF WellFormed, FreeBelow
<1> QED  BY <1>2, <1>3, <1>4, <1>5, <1>6, <1>7 DEF f

\* The walk from another node of the chain finds the node before q.
LEMMA PrevFound ==
  ASSUME NEW t, WellFormed(t), NEW q \in Nodes(t), NEW o \in Nodes(t), o # q,
         Reach(Succ(t), Nodes(t), o, q),
         NEW S, S = {i \in Nodes(t) : Succ(t)[i] = q}
  PROVE  /\ Along(t, o, S) \in Nodes(t) /\ Along(t, o, S) # q
         /\ Succ(t)[Along(t, o, S)] = q
<1> DEFINE s == Succ(t)
           N == Nodes(t)
           I == {x \in N : Reach(s, N, x, q) /\ x # q}
<1>1. Chained(t) /\ s \in [N -> N]
  BY DEF WellFormed, Chained
<1>2. ASSUME NEW x \in I, x \notin S PROVE s[x] \in I /\ s[x] # x
  <2>1. x \in N /\ s[x] \in N /\ s[x] # q /\ x # q /\ Reach(s, N, x, q)
    BY <1>1, <1>2
  <2>2. Reach(s, N, s[x], q)
    BY <2>1, <1>1, ReachOn
  <2>3. s[x] # x
    BY <2>1, <1>1, ReachEnd
  <2> QED  BY <2>1, <2>2, <2>3
<1>3. I \in SUBSET N /\ o \in I /\ S \in SUBSET N
  OBVIOUS
<1>4. Along(t, o, S) \in S \cap I
  <2> HIDE DEF I, s
  <2>1. \A x \in I : x \notin S => Succ(t)[x] \in I /\ Succ(t)[x] # x
    BY <1>2 DEF s
  <2> QED  BY <2>1, <1>1, <1>3, AlongStays
<1> QED  BY <1>4

\* The colliding node moves to a free position and the key takes its place.
LEMMA DisplaceStores ==
  ASSUME NEW t, WellFormed(t), NEW k \in Storable, NEW v \in Nat, Absent(t, k), FreePos(t) # -1,
         t.node[MainPosition(t, k)].val # Nil,
         MainPosition(t, t.node[MainPosition(t, k)].key) # MainPosition(t, k),
         NEW p \in Nodes(t), p # MainPosition(t, k), Succ(t)[p] = MainPosition(t, k)
  PROVE  Stores(t, SetKey(Displace([t EXCEPT !.lastfree = FreePos(t)], p,
                                   MainPosition(t, k), FreePos(t)),
                          MainPosition(t, k), k, v), k, v)
<1> DEFINE N == Nodes(t)
           s == Succ(t)
           q == MainPosition(t, k)
           f == FreePos(t)
           atf == [key |-> t.node[q].key, dead |-> t.node[q].dead, val |-> t.node[q].val,
                   next |-> IF t.node[q].next = 0 THEN 0 ELSE q + t.node[q].next - f]
           atq == [key |-> k, dead |-> FALSE, val |-> v, next |-> 0]
           atp == [key |-> t.node[p].key, dead |-> t.node[p].dead, val |-> t.node[p].val, next |-> f - p]
           g == [[[t.node EXCEPT ![p] = atp] EXCEPT ![f] = atf] EXCEPT ![q] = atq]
           u == SetKey(Displace([t EXCEPT !.lastfree = f], p, q, f), q, k, v)
           to == [i \in N |-> To(q, f, i)]
<1>1. t \in Tables /\ q \in N /\ k # NoKey
  BY MainIsNode, NoKeyFree DEF WellFormed, Chained
<1>2. /\ f \in N /\ t.node[f].key = NoKey /\ Lone(s, N, f) /\ t.node[f].next = 0 /\ f \in Nat
      /\ ~t.dummy /\ \A i \in N : i > f => t.node[i].key # NoKey
  BY FreeNode
<1> HIDE DEF q, f
<1>3. /\ t.node[q].val # Nil /\ p # q /\ s[p] = q /\ MainPosition(t, t.node[q].key) # q
  BY DEF q
<1>4. s \in [N -> N] /\ Acyclic(s, N) /\ OneBefore(s, N) /\ Homed(t) /\ LiveFirst(t) /\ FreeApart(t)
      /\ DeadEmpty(t) /\ Outside(t)
  BY DEF WellFormed, Chained
<1>5. /\ t.node[q].key # NoKey /\ ~t.node[q].dead /\ q # f /\ p # f
  BY <1>1, <1>2, <1>3, <1>4 DEF FreeApart, DeadEmpty, Lone
<1>6. /\ t.node \in [N -> NodeSet] /\ \A i \in N : i \in Nat /\ t.node[i] \in NodeSet
      /\ \A i \in N : t.node[i].next \in Int
  BY <1>1, NodesShape, NodeTypes DEF Tables
<1>7. atf \in NodeSet /\ atq \in NodeSet /\ atp \in NodeSet
  <2>1. \A i \in N : /\ t.node[i].key \in Storable \cup {NoKey} /\ t.node[i].val \in Nat
                     /\ t.node[i].dead \in BOOLEAN /\ t.node[i].next \in Int
    BY <1>1, NodeTypes
  <2>2. atf \in NodeSet
    <3>1. atf.next \in Int
      BY <2>1, <1>1, <1>2, <1>6
    <3> QED  BY <3>1, <2>1, <1>1 DEF NodeSet
  <2>3. atp \in NodeSet
    <3>0. p \in Nat /\ f \in Nat
      BY <1>2, <1>6
    <3>1. f - p \in Int
      BY <3>0
    <3> QED  BY <3>1, <2>1 DEF NodeSet
  <2>4. atq \in NodeSet
    BY DEF NodeSet
  <2> QED  BY <2>2, <2>3, <2>4
<1>8. /\ g \in [N -> NodeSet] /\ g[q] = atq /\ g[f] = atf /\ g[p] = atp
      /\ \A i \in N : i # q /\ i # f /\ i # p => g[i] = t.node[i]
  <2> HIDE DEF atf, atq, atp
  <2> QED  BY <1>1, <1>2, <1>3, <1>5, <1>6, <1>7
<1>9. Renodes(t, u, g, f)
  <2> DEFINE t1 == [t EXCEPT !.lastfree = f]
             g1 == [t.node EXCEPT ![p] = atp]
             g2 == [g1 EXCEPT ![f] = atf]
             g3 == [g2 EXCEPT ![q] = Vacated(t1, q)]
             t2 == [t EXCEPT !.lastfree = f, !.node = g3]
  <2>1. t1.node = t.node /\ t1.lastfree = f
    BY <1>1 DEF Tables
  <2>2. Moved(t1, q, f) = atf
    <3>1. t.node[q] \in NodeSet
      BY <1>1, <1>6
    <3> QED  BY <2>1, <3>1 DEF Moved, NodeSet
  <2>3. [t.node EXCEPT ![p].next = f - p] = g1
    <3>1. t.node[p] \in NodeSet
      BY <1>6
    <3>2. [t.node[p] EXCEPT !.next = f - p] = atp
      BY <3>1 DEF NodeSet
    <3> QED  BY <3>2
  <2>4. Displace(t1, p, q, f) = t2
    <3> HIDE DEF t1, atp, atf
    <3>1. Displace(t1, p, q, f) = [t1 EXCEPT !.node = g3]
      BY <2>1, <2>2, <2>3 DEF Displace
    <3> QED  BY <3>1 DEF t1
  <2>5. t2.node = g3 /\ t2.lastfree = f
    BY <1>1 DEF Tables
  <2>6. g3[q].next = 0
    <3>1. q \in DOMAIN g2
      BY <1>1 DEF Nodes
    <3>2. g3[q] = Vacated(t1, q)
      BY <3>1
    <3>3. t.node[q] \in NodeSet
      BY <1>1, <1>6
    <3> QED  BY <3>2, <3>3, <2>1 DEF Vacated, NodeSet
  <2>7. SetKey(t2, q, k, v) = [t2 EXCEPT !.node = [g3 EXCEPT ![q] = atq]]
    <3> HIDE DEF g3, t2
    <3> QED  BY <2>5, <2>6 DEF SetKey
  <2>8. [g3 EXCEPT ![q] = atq] = g
    <3> HIDE DEF atf, atq, atp
    <3> QED  OBVIOUS
  <2>9. [t2 EXCEPT !.node = g] = [t EXCEPT !.lastfree = f, !.node = g]
    <3> HIDE DEF g, g3
    <3> QED  OBVIOUS
  <2> HIDE DEF g, g3, t2, t1
  <2>10. u = SetKey(t2, q, k, v)
    BY <2>4 DEF t1
  <2> QED  BY <2>7, <2>8, <2>9, <2>10 DEF Renodes
<1> HIDE DEF g, u
<1>10. /\ u \in Tables /\ u.node = g /\ Nodes(u) = N /\ SizeNode(u) = SizeNode(t)
       /\ u.array = t.array /\ u.dummy = t.dummy /\ u.stuck = t.stuck /\ u.lastfree = f
  BY <1>1, <1>2, <1>8, <1>9, WithNodes
<1>11. /\ g[q].key = k /\ g[q].val = v /\ g[q].dead = FALSE /\ g[q].next = 0
       /\ g[f].key = t.node[q].key /\ g[f].val = t.node[q].val /\ g[f].dead = t.node[q].dead
       /\ g[f].next = (IF t.node[q].next = 0 THEN 0 ELSE q + t.node[q].next - f)
       /\ \A i \in N : i # q /\ i # f => /\ g[i].key = t.node[i].key /\ g[i].val = t.node[i].val
                                         /\ g[i].dead = t.node[i].dead
                                         /\ g[i].next = IF i = p THEN f - p ELSE t.node[i].next
  BY <1>8, <1>3, <1>5
<1> HIDE DEF atf, atq, atp
<1>12. Succ(u) = Detour(s, N, p, q, f)
  <2>1. \A i \in N : s[i] = i + t.node[i].next
    BY DEF Succ
  <2>2. ASSUME NEW i \in N
        PROVE  i + g[i].next = (IF i = q THEN q ELSE IF i = f THEN IF s[q] = q THEN f ELSE s[q]
                                ELSE IF i = p THEN f ELSE s[i])
    <3>1. CASE i = q
      BY <3>1, <1>1, <1>6, <1>11
    <3>2. CASE i = f
      BY <3>2, <1>1, <1>2, <1>5, <1>6, <1>11, <2>1
    <3>3. CASE i = p
      <4>1. g[p].next = f - p /\ p \in Nat /\ f \in Nat
        BY <1>2, <1>3, <1>5, <1>6, <1>11
      <4>2. p + g[p].next = f
        BY <4>1
      <4> QED  BY <4>2, <3>3, <1>3, <1>5
    <3>4. CASE i # q /\ i # f /\ i # p
      BY <3>4, <1>11, <2>1
    <3> QED  BY <3>1, <3>2, <3>3, <3>4
  <2> QED  BY <2>2, <1>10 DEF Succ, Detour
<1> DEFINE r == Detour(s, N, p, q, f)
<1>13. Detoured(s, N, p, q, f)
  BY <1>1, <1>2, <1>3, <1>4, <1>5 DEF Detoured
<1>14. /\ r \in [N -> N] /\ Acyclic(r, N) /\ OneBefore(r, N)
       /\ \A h \in N : Lone(s, N, h) /\ h # f => Lone(r, N, h)
  BY <1>4, <1>13, DetourShape
<1>15. \A i, j \in N : Reach(s, N, i, j) => Reach(r, N, To(q, f, i), To(q, f, j))
  BY <1>4, <1>13, DetourReach
<1> HIDE DEF s, r
\* No key has q as its main position.
<1>16. \A i \in N : t.node[i].key # NoKey => MainPosition(t, t.node[i].key) # q
  BY <1>3, <1>4 DEF Homed
\* A node of the new table that is not q is the image of an old one.
<1>17. ASSUME NEW i \in N, i # q, g[i].key # NoKey
       PROVE  \E h \in N : /\ To(q, f, h) = i /\ g[i].key = t.node[h].key
                           /\ g[i].val = t.node[h].val /\ g[i].dead = t.node[h].dead
                           /\ t.node[h].key \in Storable
  <2>1. CASE i = f
    <3>1. t.node[q].key \in Storable
      BY <1>1, <1>5, NodeTypes
    <3> QED  BY <3>1, <2>1, <1>1, <1>11 DEF To
  <2>2. CASE i # f
    <3>1. g[i].key = t.node[i].key
      BY <2>2, <1>11, <1>17
    <3>2. t.node[i].key \in Storable
      BY <3>1, <1>1, <1>17, NodeTypes
    <3> QED  BY <3>2, <2>2, <1>11, <1>17 DEF To
  <2> QED  BY <2>1, <2>2
<1>18. \A j : InArray(u, j) <=> InArray(t, j)
  BY <1>10 DEF InArray
<1>19. \A j : MainPosition(u, j) = MainPosition(t, j)
  BY <1>10, MainSame
<1>20. WellFormed(u)
  <2>1. Chained(u) /\ OneBefore(Succ(u), Nodes(u))
    BY <1>10, <1>12, <1>14 DEF Chained, r
  <2>2. u.lastfree <= SizeNode(u)
    <3>1. SizeNode(t) \in Nat /\ N = 0 .. (SizeNode(t) - 1)
      BY <1>1, NodesShape
    <3> QED  BY <3>1, <1>2, <1>10
  <2>3. FreeApart(u)
    <3> SUFFICES ASSUME NEW i \in N, g[i].key = NoKey
                 PROVE  g[i].val = Nil /\ ~g[i].dead /\ Lone(r, N, i)
      BY <1>10, <1>12 DEF FreeApart, r
    <3>1. i # q /\ i # f
      BY <1>1, <1>5, <1>11
    <3>2. t.node[i].key = NoKey /\ g[i].val = t.node[i].val /\ g[i].dead = t.node[i].dead
      BY <3>1, <1>11
    <3> QED  BY <3>1, <3>2, <1>4, <1>14 DEF FreeApart, s
  <2>4. FreeBelow(u) /\ DummyEmpty(u)
    <3>1. \A i \in N : i >= f => g[i].key # NoKey
      BY <1>1, <1>2, <1>5, <1>6, <1>11
    <3> QED  BY <3>1, <1>2, <1>10 DEF FreeBelow, DummyEmpty
  <2>5. DeadEmpty(u)
    BY <1>4, <1>5, <1>10, <1>11 DEF DeadEmpty
  <2>6. LiveFirst(u)
    <3> SUFFICES ASSUME NEW i \in N, NEW j \in N, g[i].key = g[j].key, g[i].key # NoKey, ~g[i].dead
                 PROVE  Reach(r, N, i, j)
      BY <1>10, <1>12 DEF LiveFirst, r
    <3>1. CASE i = j
      BY <3>1, <1>14, ReachFirst
    <3>2. CASE i # q /\ j # q
      <4>1. PICK a \in N : /\ To(q, f, a) = i /\ g[i].key = t.node[a].key
                           /\ g[i].dead = t.node[a].dead
        BY <3>2, <1>17
      <4>2. PICK b \in N : To(q, f, b) = j /\ g[j].key = t.node[b].key
        BY <3>2, <1>17
      <4>3. Reach(s, N, a, b)
        BY <4>1, <4>2, <1>4 DEF LiveFirst, s
      <4> QED  BY <4>1, <4>2, <4>3, <1>15
    <3>3. ASSUME NEW h \in {i, j}, h # q PROVE FALSE \/ g[h].key # k
      <4>1. PICK a \in N : g[h].key = t.node[a].key /\ t.node[a].key \in Storable
        BY <3>3, <1>17
      <4>2. MainPosition(t, t.node[a].key) # q
        BY <4>1, <1>16, NoKeyFree
      <4> QED  BY <4>1, <4>2 DEF q
    <3>4. CASE i = q \/ j = q
      BY <3>1, <3>3, <3>4, <1>11
    <3> QED  BY <3>2, <3>4
  <2>7. Outside(u)
    <3> SUFFICES ASSUME NEW i \in N PROVE ~InArray(t, g[i].key)
      BY <1>10, <1>18 DEF Outside
    <3>1. CASE i = q
      BY <3>1, <1>11 DEF Absent
    <3>2. CASE i = f
      BY <3>2, <1>1, <1>4, <1>11 DEF Outside
    <3>3. CASE i # q /\ i # f
      BY <3>3, <1>4, <1>11 DEF Outside
    <3> QED  BY <3>1, <3>2, <3>3
  <2>8. Homed(u)
    <3> SUFFICES ASSUME NEW i \in N, g[i].key # NoKey
                 PROVE  LET h == MainPosition(t, g[i].key)
                        IN /\ g[h].key # NoKey
                           /\ MainPosition(t, g[h].key) = h
                           /\ Reach(r, N, h, i)
      BY <1>10, <1>12, <1>19 DEF Homed, r
    <3>1. CASE i = q
      <4>1. MainPosition(t, g[q].key) = q
        BY <1>11 DEF q
      <4>2. Reach(r, N, q, q)
        BY <1>1, <1>14, ReachFirst
      <4> QED  BY <3>1, <4>1, <4>2, <1>1, <1>11
    <3>2. CASE i # q
      <4>1. PICK a \in N : /\ To(q, f, a) = i /\ g[i].key = t.node[a].key
                           /\ t.node[a].key \in Storable
        BY <3>2, <1>17
      <4> DEFINE h == MainPosition(t, t.node[a].key)
      <4>2. h \in N /\ h # q /\ t.node[a].key # NoKey
        BY <4>1, <1>1, <1>16, MainIsNode, NoKeyFree
      <4>3. t.node[h].key # NoKey /\ MainPosition(t, t.node[h].key) = h /\ Reach(s, N, h, a)
        BY <4>2, <1>4 DEF Homed, s
      <4>4. MainPosition(t, g[i].key) = h
        BY <4>1
      <4> HIDE DEF h
      <4>5. h # f
        BY <4>3, <1>2
      <4>6. g[h].key = t.node[h].key
        BY <4>2, <4>5, <1>11
      <4>7. Reach(r, N, h, i)
        <5>1. Reach(r, N, To(q, f, h), To(q, f, a))
          BY <4>2, <4>3, <1>15
        <5> QED  BY <5>1, <4>1, <4>2 DEF To
      <4> QED  BY <4>3, <4>4, <4>6, <4>7
    <3> QED  BY <3>1, <3>2
  <2> QED  BY <2>1, <2>2, <2>3, <2>4, <2>5, <2>6, <2>7, <2>8 DEF WellFormed
<1>21. SameSizes(t, u)
  BY <1>10 DEF SameSizes
<1>22. Inserted(t, u, k, v, q, to)
  <2>1. ASSUME NEW i \in N, t.node[i].key # NoKey
        PROVE  /\ to[i] \in N /\ to[i] # q
               /\ g[to[i]].key = t.node[i].key /\ g[to[i]].val = t.node[i].val
    BY <2>1, <1>1, <1>2, <1>5, <1>11 DEF To
  <2>2. ASSUME NEW j \in N, g[j].key # NoKey, j # q
        PROVE  \E i \in N : to[i] = j /\ t.node[i].key = g[j].key /\ t.node[i].val = g[j].val
    BY <2>2, <1>17
  <2> HIDE DEF to
  <2> QED  BY <2>1, <2>2, <1>1, <1>10, <1>11, <1>21 DEF Inserted
<1>23. Gives(u, k, v) /\ \A j \in Storable, w \in Nat : j # k /\ Gives(t, j, w) => Gives(u, j, w)
  <2> HIDE DEF to
  <2> QED  BY <1>22, InsertedGives
<1>24. Occupied(u) \subseteq Occupied(t) \cup {f} /\ ~InArray(t, k)
  BY <1>1, <1>5, <1>10, <1>11 DEF Occupied, Absent
<1>25. Stores(t, u, k, v)
  BY <1>10, <1>20, <1>21, <1>23, <1>24 DEF Stores
<1> QED  BY <1>25 DEF u, q, f

\* The colliding node is in its main position: the key comes second in the chain.
LEMMA SecondStores ==
  ASSUME NEW t, WellFormed(t), NEW k \in Storable, NEW v \in Nat, Absent(t, k), FreePos(t) # -1,
         t.node[MainPosition(t, k)].val # Nil,
         MainPosition(t, t.node[MainPosition(t, k)].key) = MainPosition(t, k)
  PROVE  Stores(t, SetKey(ChainAfter([t EXCEPT !.lastfree = FreePos(t)],
                                     MainPosition(t, k), FreePos(t)),
                          FreePos(t), k, v), k, v)
<1> DEFINE N == Nodes(t)
           s == Succ(t)
           q == MainPosition(t, k)
           f == FreePos(t)
           after == IF t.node[q].next = 0 THEN 0 ELSE q + t.node[q].next - f
           atf == [key |-> k, dead |-> FALSE, val |-> v, next |-> after]
           atq == [key |-> t.node[q].key, dead |-> t.node[q].dead, val |-> t.node[q].val, next |-> f - q]
           g == [[t.node EXCEPT ![q] = atq] EXCEPT ![f] = atf]
           u == SetKey(ChainAfter([t EXCEPT !.lastfree = f], q, f), f, k, v)
           to == [i \in N |-> i]
<1>1. t \in Tables /\ q \in N /\ k # NoKey
  BY MainIsNode, NoKeyFree DEF WellFormed, Chained
<1>2. /\ f \in N /\ t.node[f].key = NoKey /\ Lone(s, N, f) /\ t.node[f].next = 0 /\ f \in Nat
      /\ ~t.dummy /\ \A i \in N : i > f => t.node[i].key # NoKey
  BY FreeNode
<1> HIDE DEF q, f
<1>3. t.node[q].val # Nil /\ MainPosition(t, t.node[q].key) = q
  BY DEF q
<1>4. s \in [N -> N] /\ Acyclic(s, N) /\ OneBefore(s, N) /\ Homed(t) /\ LiveFirst(t) /\ FreeApart(t)
      /\ DeadEmpty(t) /\ Outside(t)
  BY DEF WellFormed, Chained
<1>5. /\ t.node[q].key # NoKey /\ ~t.node[q].dead /\ q # f
  BY <1>1, <1>2, <1>3, <1>4 DEF FreeApart, DeadEmpty
<1>6. /\ t.node \in [N -> NodeSet] /\ \A i \in N : i \in Nat /\ t.node[i] \in NodeSet
      /\ \A i \in N : t.node[i].next \in Int
  BY <1>1, NodesShape, NodeTypes DEF Tables
<1>7. atf \in NodeSet /\ atq \in NodeSet
  <2>0. q \in Nat /\ f \in Nat /\ t.node[q].next \in Int
    BY <1>1, <1>2, <1>6
  <2>1. after \in Int /\ f - q \in Int
    BY <2>0
  <2>2. /\ t.node[q].key \in Storable \cup {NoKey} /\ t.node[q].val \in Nat
        /\ t.node[q].dead \in BOOLEAN
    BY <1>1, NodeTypes
  <2>3. atf \in NodeSet
    <3> HIDE DEF after
    <3> QED  BY <2>1 DEF NodeSet
  <2>4. atq \in NodeSet
    BY <2>1, <2>2 DEF NodeSet
  <2> QED  BY <2>3, <2>4
<1>8. /\ g \in [N -> NodeSet] /\ g[q] = atq /\ g[f] = atf
      /\ \A i \in N : i # q /\ i # f => g[i] = t.node[i]
  <2> HIDE DEF atf, atq
  <2> QED  BY <1>1, <1>2, <1>5, <1>6, <1>7
<1>9. Renodes(t, u, g, f)
  <2> DEFINE t1 == [t EXCEPT !.lastfree = f]
             g1 == [t.node EXCEPT ![q] = atq]
             g3 == [g1 EXCEPT ![f].next = after]
             t2 == [t EXCEPT !.lastfree = f, !.node = g3]
  <2>1. t1.node = t.node /\ t1.lastfree = f
    BY <1>1 DEF Tables
  <2>2. Moved(t1, q, f).next = after
    <3>1. t.node[q] \in NodeSet
      BY <1>1, <1>6
    <3> QED  BY <2>1, <3>1 DEF Moved, NodeSet
  <2>3. [t.node EXCEPT ![q].next = f - q] = g1
    <3>1. t.node[q] \in NodeSet
      BY <1>1, <1>6
    <3>2. [t.node[q] EXCEPT !.next = f - q] = atq
      BY <3>1 DEF NodeSet
    <3> QED  BY <3>2
  <2>4. ChainAfter(t1, q, f) = t2
    <3> DEFINE tq == [t1 EXCEPT !.node = g1]
    <3>1. tq.node = g1
      BY <1>1 DEF Tables
    <3>2. [t1 EXCEPT !.node[q].next = f - q] = tq
      <4> HIDE DEF t1, g1
      <4> QED  BY <2>1, <2>3
    <3> HIDE DEF g1, atq, after
    <3>3. ChainAfter(t1, q, f) = [[t1 EXCEPT !.node[q].next = f - q] EXCEPT !.node[f].next = after]
      <4> HIDE DEF t1, tq
      <4> QED  BY <2>2 DEF ChainAfter
    <3>4. [tq EXCEPT !.node[f].next = after] = [tq EXCEPT !.node = g3]
      <4> HIDE DEF tq
      <4> QED  BY <3>1
    <3>5. [tq EXCEPT !.node = g3] = t2
      <4> HIDE DEF g3
      <4> QED  OBVIOUS
    <3> HIDE DEF t1, tq, t2, g3
    <3> QED  BY <3>2, <3>3, <3>4, <3>5
  <2>5. t2.node = g3 /\ t2.lastfree = f
    BY <1>1 DEF Tables
  <2>6. g3[f].next = after
    <3>1. f \in DOMAIN g1
      BY <1>2 DEF Nodes
    <3>2. g1[f] = t.node[f] /\ t.node[f] \in NodeSet
      BY <1>1, <1>2, <1>5, <1>6
    <3> HIDE DEF g1, after
    <3>3. g3[f] = [g1[f] EXCEPT !.next = after]
      BY <3>1
    <3> QED  BY <3>2, <3>3 DEF NodeSet
  <2>7. SetKey(t2, f, k, v) = [t2 EXCEPT !.node = [g3 EXCEPT ![f] = atf]]
    <3> HIDE DEF g3, t2, after
    <3> QED  BY <2>5, <2>6 DEF SetKey
  <2>8. [g3 EXCEPT ![f] = atf] = g
    <3> HIDE DEF atf, atq, after
    <3> QED  OBVIOUS
  <2>9. [t2 EXCEPT !.node = g] = [t EXCEPT !.lastfree = f, !.node = g]
    <3> HIDE DEF g, g3
    <3> QED  OBVIOUS
  <2> HIDE DEF g, g3, t2, t1
  <2>10. u = SetKey(t2, f, k, v)
    BY <2>4 DEF t1
  <2> QED  BY <2>7, <2>8, <2>9, <2>10 DEF Renodes
<1> HIDE DEF g, u
<1>10. /\ u \in Tables /\ u.node = g /\ Nodes(u) = N /\ SizeNode(u) = SizeNode(t)
       /\ u.array = t.array /\ u.dummy = t.dummy /\ u.stuck = t.stuck /\ u.lastfree = f
  BY <1>1, <1>2, <1>8, <1>9, WithNodes
<1>11. /\ g[f].key = k /\ g[f].val = v /\ g[f].dead = FALSE
       /\ g[f].next = (IF t.node[q].next = 0 THEN 0 ELSE q + t.node[q].next - f)
       /\ \A i \in N : i # f => /\ g[i].key = t.node[i].key /\ g[i].val = t.node[i].val
                                /\ g[i].dead = t.node[i].dead
                                /\ g[i].next = IF i = q THEN f - q ELSE t.node[i].next
  BY <1>8, <1>5
<1> HIDE DEF atf, atq, after
<1>12. Succ(u) = Second(s, N, q, f)
  <2>1. \A i \in N : s[i] = i + t.node[i].next
    BY DEF Succ
  <2>2. ASSUME NEW i \in N
        PROVE  i + g[i].next = (IF i = q THEN f ELSE IF i = f THEN IF s[q] = q THEN f ELSE s[q]
                                ELSE s[i])
    <3>1. CASE i = q
      <4>1. g[q].next = f - q /\ q \in Nat /\ f \in Nat
        BY <1>1, <1>2, <1>5, <1>6, <1>11
      <4>2. q + g[q].next = f
        BY <4>1
      <4> QED  BY <4>2, <3>1
    <3>2. CASE i = f
      BY <3>2, <1>1, <1>2, <1>5, <1>6, <1>11, <2>1
    <3>3. CASE i # q /\ i # f
      BY <3>3, <1>11, <2>1
    <3> QED  BY <3>1, <3>2, <3>3
  <2> QED  BY <2>2, <1>10 DEF Succ, Second
<1> DEFINE r == Second(s, N, q, f)
<1>14. /\ r \in [N -> N] /\ Acyclic(r, N) /\ OneBefore(r, N)
       /\ \A h \in N : Lone(s, N, h) /\ h # f /\ h # q => Lone(r, N, h)
  BY <1>1, <1>2, <1>4, <1>5, SecondShape
<1>15. /\ \A i, j \in N : Reach(s, N, i, j) => Reach(r, N, i, j)
       /\ Reach(r, N, q, f)
       /\ \A j \in N : Reach(s, N, q, j) /\ j # q => Reach(r, N, f, j)
  BY <1>1, <1>2, <1>4, <1>5, SecondReach
<1> HIDE DEF s, r
<1>18. \A j : InArray(u, j) <=> InArray(t, j)
  BY <1>10 DEF InArray
<1>19. \A j : MainPosition(u, j) = MainPosition(t, j)
  BY <1>10, MainSame
<1>20. WellFormed(u)
  <2>1. Chained(u) /\ OneBefore(Succ(u), Nodes(u))
    BY <1>10, <1>12, <1>14 DEF Chained, r
  <2>2. u.lastfree <= SizeNode(u)
    <3>1. SizeNode(t) \in Nat /\ N = 0 .. (SizeNode(t) - 1)
      BY <1>1, NodesShape
    <3> QED  BY <3>1, <1>2, <1>10
  <2>3. FreeApart(u)
    <3> SUFFICES ASSUME NEW i \in N, g[i].key = NoKey
                 PROVE  g[i].val = Nil /\ ~g[i].dead /\ Lone(r, N, i)
      BY <1>10, <1>12 DEF FreeApart, r
    <3>1. i # q /\ i # f
      BY <1>1, <1>5, <1>11
    <3>2. t.node[i].key = NoKey /\ g[i].val = t.node[i].val /\ g[i].dead = t.node[i].dead
      BY <3>1, <1>11
    <3> QED  BY <3>1, <3>2, <1>4, <1>14 DEF FreeApart, s
  <2>4. FreeBelow(u) /\ DummyEmpty(u)
    <3>1. \A i \in N : i >= f => g[i].key # NoKey
      BY <1>1, <1>2, <1>5, <1>6, <1>11
    <3> QED  BY <3>1, <1>2, <1>10 DEF FreeBelow, DummyEmpty
  <2>5. DeadEmpty(u)
    BY <1>4, <1>5, <1>10, <1>11 DEF DeadEmpty
  <2>6. LiveFirst(u)
    <3> SUFFICES ASSUME NEW i \in N, NEW j \in N, g[i].key = g[j].key, g[i].key # NoKey, ~g[i].dead
                 PROVE  Reach(r, N, i, j)
      BY <1>10, <1>12 DEF LiveFirst, r
    <3>1. CASE i = j
      BY <3>1, <1>14, ReachFirst
    <3>2. CASE i # f /\ j # f
      BY <3>2, <1>4, <1>11, <1>15 DEF LiveFirst, s
    <3>3. CASE i = f /\ j # f
      <4>1. t.node[j].key = k
        BY <3>3, <1>11
      <4>2. Reach(s, N, MainPosition(t, t.node[j].key), j)
        BY <4>1, <1>1, <1>4 DEF Homed, s
      <4>3. t.node[j].dead
        BY <4>1 DEF Absent
      <4>4. j # q /\ Reach(s, N, q, j)
        BY <4>1, <4>2, <4>3, <1>5 DEF q
      <4> QED  BY <4>4, <3>3, <1>15
    <3>4. CASE i # f /\ j = f
      <4>1. t.node[i].key = k /\ ~t.node[i].dead
        BY <3>4, <1>11
      <4> QED  BY <4>1 DEF Absent
    <3> QED  BY <3>1, <3>2, <3>3, <3>4
  <2>7. Outside(u)
    <3> SUFFICES ASSUME NEW i \in N PROVE ~InArray(t, g[i].key)
      BY <1>10, <1>18 DEF Outside
    <3>1. CASE i = f
      BY <3>1, <1>11 DEF Absent
    <3>2. CASE i # f
      BY <3>2, <1>4, <1>11 DEF Outside
    <3> QED  BY <3>1, <3>2
  <2>8. Homed(u)
    <3> SUFFICES ASSUME NEW i \in N, g[i].key # NoKey
                 PROVE  LET h == MainPosition(t, g[i].key)
                        IN /\ g[h].key # NoKey
                           /\ MainPosition(t, g[h].key) = h
                           /\ Reach(r, N, h, i)
      BY <1>10, <1>12, <1>19 DEF Homed, r
    <3>1. CASE i = f
      <4>1. MainPosition(t, g[i].key) = q
        BY <3>1, <1>11 DEF q
      <4>2. g[q].key = t.node[q].key
        BY <1>1, <1>5, <1>11
      <4> QED  BY <3>1, <4>1, <4>2, <1>3, <1>5, <1>15
    <3>2. CASE i # f
      <4> DEFINE h == MainPosition(t, t.node[i].key)
      <4>1. g[i].key = t.node[i].key /\ t.node[i].key # NoKey /\ t.node[i].key \in Storable
        BY <3>2, <1>1, <1>11, NodeTypes
      <4>2. h \in N
        BY <4>1, <1>1, MainIsNode
      <4>3. t.node[h].key # NoKey /\ MainPosition(t, t.node[h].key) = h /\ Reach(s, N, h, i)
        BY <4>1, <1>4 DEF Homed, s
      <4>4. MainPosition(t, g[i].key) = h
        BY <4>1
      <4> HIDE DEF h
      <4>5. h # f
        BY <4>3, <1>2
      <4>6. g[h].key = t.node[h].key
        BY <4>2, <4>5, <1>11
      <4>7. Reach(r, N, h, i)
        BY <4>2, <4>3, <1>15
      <4> QED  BY <4>3, <4>4, <4>6, <4>7
    <3> QED  BY <3>1, <3>2
  <2> QED  BY <2>1, <2>2, <2>3, <2>4, <2>5, <2>6, <2>7, <2>8 DEF WellFormed
<1>21. SameSizes(t, u)
  BY <1>10 DEF SameSizes
<1>22. Inserted(t, u, k, v, f, to)
  <2>1. ASSUME NEW i \in N, t.node[i].key # NoKey
        PROVE  /\ to[i] \in N /\ to[i] # f
               /\ g[to[i]].key = t.node[i].key /\ g[to[i]].val = t.node[i].val
    BY <2>1, <1>2, <1>11
  <2>2. ASSUME NEW j \in N, g[j].key # NoKey, j # f
        PROVE  \E i \in N : to[i] = j /\ t.node[i].key = g[j].key /\ t.node[i].val = g[j].val
    BY <2>2, <1>11
  <2> HIDE DEF to
  <2> QED  BY <2>1, <2>2, <1>1, <1>2, <1>10, <1>11, <1>21 DEF Inserted
<1>23. Gives(u, k, v) /\ \A j \in Storable, w \in Nat : j # k /\ Gives(t, j, w) => Gives(u, j, w)
  <2> HIDE DEF to
  <2> QED  BY <1>22, InsertedGives
<1>24. Occupied(u) \subseteq Occupied(t) \cup {f} /\ ~InArray(t, k)
  BY <1>1, <1>5, <1>10, <1>11 DEF Occupied, Absent
<1>25. Stores(t, u, k, v)
  BY <1>10, <1>20, <1>21, <1>23, <1>24 DEF Stores
<1> QED  BY <1>25 DEF u, q, f

\* The key that is absent finds its place.
LEMMA NewKeyStores ==
  ASSUME NEW t, WellFormed(t), NEW k \in Storable, NEW v \in Nat, Absent(t, k),
         (t.node[MainPosition(t, k)].val = Nil /\ ~t.dummy) \/ FreePos(t) # -1
  PROVE  Stores(t, NewKey(t, k, v), k, v)
<1> DEFINE q == MainPosition(t, k)
           f == FreePos(t)
           t1 == [t EXCEPT !.lastfree = f]
           o == MainPosition(t, t.node[q].key)
           S == {i \in Nodes(t) : Succ(t)[i] = q}
           p == Along(t, o, S)
<1>1. t \in Tables /\ q \in Nodes(t)
  BY MainIsNode DEF WellFormed, Chained
<1>2. CASE t.node[q].val = Nil /\ ~t.dummy
  <2>1. NewKey(t, k, v) = SetKey(t, q, k, v)
    BY <1>2 DEF NewKey
  <2> QED  BY <2>1, <1>2, SettleStores
<1>3. CASE ~(t.node[q].val = Nil /\ ~t.dummy) /\ o = q
  <2>0. f # -1 /\ t.node[q].val # Nil
    <3>1. f # -1
      BY <1>3
    <3> QED  BY <3>1, <1>3, FreeNode
  <2>1. NewKey(t, k, v) = SetKey(ChainAfter(t1, q, f), f, k, v)
    BY <1>3 DEF NewKey
  <2> QED  BY <2>0, <2>1, <1>3, SecondStores
<1>4. CASE ~(t.node[q].val = Nil /\ ~t.dummy) /\ o # q
  <2>0. f # -1 /\ t.node[q].val # Nil
    <3>1. f # -1
      BY <1>4
    <3> QED  BY <3>1, <1>4, FreeNode
  <2>1. t1.node = t.node
    BY <1>1 DEF Tables
  <2>2. {i \in DOMAIN t1.node : i + t1.node[i].next = q} = S
    BY <2>1 DEF Succ, Nodes
  <2>3. Along(t1, o, S) = p
    BY <2>1 DEF Along
  <2>4. NewKey(t, k, v) = SetKey(Displace(t1, p, q, f), q, k, v)
    <3>1. NewKey(t, k, v) = SetKey(Displace(t1, Along(t1, o, {i \in DOMAIN t1.node : i + t1.node[i].next = q}), q, f), q, k, v)
      BY <1>4 DEF NewKey
    <3> HIDE DEF p, S, t1, o
    <3> QED  BY <3>1, <2>2, <2>3
  <2>5. t.node[q].key # NoKey /\ t.node[q].key \in Storable
    BY <1>1, <2>0, NodeTypes DEF WellFormed, FreeApart
  <2>6. o \in Nodes(t) /\ Reach(Succ(t), Nodes(t), o, q)
    BY <1>1, <2>5, MainIsNode DEF WellFormed, Homed
  <2>7. p \in Nodes(t) /\ p # q /\ Succ(t)[p] = q
    <3> HIDE DEF q, o
    <3> QED  BY <1>1, <1>4, <2>6, PrevFound
  <2> HIDE DEF p
  <2>8. Stores(t, SetKey(Displace(t1, p, q, f), q, k, v), k, v)
    BY <1>4, <2>0, <2>7, DisplaceStores
  <2> QED  BY <2>4, <2>8
<1> QED  BY <1>2, <1>3, <1>4

\* luaH_set stores a value under a key that is there or finds a place.
LEMMA PlaceStores ==
  ASSUME NEW t, WellFormed(t), NEW k \in Storable, NEW v \in Nat, HasPlace(t, k)
  PROVE  Stores(t, Place(t, k, v), k, v)
<1>1. Normal(k) = k
  BY NormalKeys
<1>2. CASE InArray(t, k)
  BY <1>1, <1>2, SlotStores DEF Place
<1>3. CASE ~InArray(t, k) /\ Find(t, k) # -1
  BY <1>1, <1>3, FoundStores DEF Place
<1>4. CASE ~InArray(t, k) /\ Find(t, k) = -1
  <2>1. Absent(t, k)
    BY <1>4, FindFinds DEF Absent
  <2>2. (t.node[MainPosition(t, k)].val = Nil /\ ~t.dummy) \/ FreePos(t) # -1
    BY <1>4 DEF HasPlace
  <2>3. Stores(t, NewKey(t, k, v), k, v)
    BY <2>1, <2>2, NewKeyStores
  <2> QED  BY <1>1, <1>4, <2>3 DEF Place
<1> QED  BY <1>2, <1>3, <1>4

Capacity(t) == IF t.dummy THEN 0 ELSE SizeNode(t)

\* While not all nodes are occupied, one is found.
LEMMA RoomIsFound ==
  ASSUME NEW t, WellFormed(t), NEW k, Cardinality(Occupied(t)) < Capacity(t)
  PROVE  HasPlace(t, k)
<1>1. t \in Tables /\ t.lastfree <= SizeNode(t)
  BY DEF WellFormed, Chained
<1>2. /\ IsFiniteSet(Nodes(t)) /\ Cardinality(Nodes(t)) = SizeNode(t) /\ SizeNode(t) \in Nat
      /\ t.lastfree \in Nat /\ \A i \in Nodes(t) : i \in Nat
  BY <1>1, NodesShape DEF Tables
<1>3. IsFiniteSet(Occupied(t)) /\ Cardinality(Occupied(t)) \in Nat
  BY <1>2, FS_Subset, FS_CardinalityType DEF Occupied
<1>4. ~t.dummy
  BY <1>3 DEF Capacity
<1>5. SUFFICES ASSUME FreePos(t) = -1 PROVE FALSE
  BY DEF HasPlace
<1>6. \A i \in Nodes(t) : t.node[i].key # NoKey
  BY <1>1, <1>2, <1>4, <1>5, FreePosIs DEF WellFormed, FreeBelow
<1>7. Occupied(t) = Nodes(t)
  BY <1>6 DEF Occupied
<1> QED  BY <1>2, <1>4, <1>7 DEF Capacity

-----------------------------------------------------------------------------
(* Many entries.                                                           *)

Placing(f, t, entries, I, n) ==
  f = [i \in 0 .. n |->
         IF i = 0 THEN t
         ELSE IF i \in I THEN Place(f[i - 1], entries[i].key, entries[i].val)
         ELSE f[i - 1]]

\* The function that places one entry after the other exists.
LEMMA PlacingExists ==
  ASSUME NEW t, NEW entries, NEW I, NEW n \in Nat
  PROVE  \E f : Placing(f, t, entries, I, n)
<1> DEFINE Bad == {k \in 0 .. n : ~(\E f : Placing(f, t, entries, I, k))}
<1>1. SUFFICES ASSUME Bad # {} PROVE FALSE
  <2>1. n \in 0 .. n /\ ~(n \in Bad)
    OBVIOUS
  <2> QED  BY <2>1
<1>2. Bad \in SUBSET Nat
  OBVIOUS
<1>3. PICK k \in Bad : \A j \in Bad : k <= j
  BY <1>1, <1>2, NatMin
<1>4. k \in 0 .. n /\ ~(\E f : Placing(f, t, entries, I, k))
  OBVIOUS
<1>5. k # 0
  <2> DEFINE one == [i \in 0 .. 0 |-> t]
  <2>1. Placing(one, t, entries, I, 0)
    <3>1. \A i \in 0 .. 0 : i = 0
      OBVIOUS
    <3> QED  BY <3>1 DEF Placing
  <2> HIDE DEF one
  <2> QED  BY <2>1, <1>4
<1>6. k - 1 \in 0 .. n /\ ~(k - 1 \in Bad) /\ k \in Nat
  <2> HIDE DEF Bad
  <2> QED  BY <1>2, <1>3, <1>4, <1>5
<1>7. \E f : Placing(f, t, entries, I, k - 1)
  BY <1>6
<1>8. PICK f : Placing(f, t, entries, I, k - 1)
  BY <1>7
<1> DEFINE next(g, i) == IF i = 0 THEN t
                         ELSE IF i \in I THEN Place(g[i - 1], entries[i].key, entries[i].val)
                         ELSE g[i - 1]
           h == [i \in 0 .. k |-> next(f, i)]
<1>9. \A i \in 0 .. (k - 1) : h[i] = f[i]
  <2>1. f = [i \in 0 .. (k - 1) |-> next(f, i)]
    BY <1>8 DEF Placing
  <2> HIDE DEF next
  <2>2. \A i \in 0 .. (k - 1) : f[i] = next(f, i)
    BY <2>1
  <2> QED  BY <2>2, <1>6
<1>10. \A i \in 0 .. k : next(f, i) = next(h, i)
  <2> TAKE i \in 0 .. k
  <2>1. CASE i = 0
    BY <2>1
  <2>2. CASE i # 0
    <3>1. i - 1 \in 0 .. (k - 1)
      BY <2>2, <1>6
    <3>2. h[i - 1] = f[i - 1]
      BY <3>1, <1>9
    <3> HIDE DEF h
    <3> QED  BY <3>2
  <2> QED  BY <2>1, <2>2
<1>11. h = [i \in 0 .. k |-> next(h, i)]
  <2>1. [i \in 0 .. k |-> next(f, i)] = [i \in 0 .. k |-> next(h, i)]
    <3> HIDE DEF next, h
    <3> QED  BY <1>10
  <2>2. h = [i \in 0 .. k |-> next(f, i)]
    OBVIOUS
  <2> HIDE DEF h, next
  <2> QED  BY <2>1, <2>2
<1>12. Placing(h, t, entries, I, k)
  <2> HIDE DEF h
  <2> QED  BY <1>11 DEF Placing
<1> HIDE DEF h
<1> QED  BY <1>12, <1>4


\* The entries that need a node.
Hashed(t, entries, I) == {i \in I : ~InArray(t, entries[i].key)}

\* What the table is that t became when the entries of I were stored.
Placed(t, u, entries, I) ==
  /\ WellFormed(u) /\ SameSizes(t, u) /\ ~u.stuck
  /\ Cardinality(Occupied(u)) <= Cardinality(Occupied(t)) + Cardinality(Hashed(t, entries, I))
  /\ \A i \in I : Gives(u, entries[i].key, entries[i].val)
  /\ \A k \in Storable, w \in Nat :
       Gives(t, k, w) /\ (\A i \in I : entries[i].key # k) => Gives(u, k, w)

\* The entries are keys with values, the same value where the key is the same.
Consistent(entries, I) ==
  /\ \A i \in I : entries[i].key \in Storable /\ entries[i].val \in Nat
  /\ \A i, j \in I : entries[i].key = entries[j].key => entries[i].val = entries[j].val

\* A well-formed table has finitely many nodes with a key.
LEMMA OccupiedFinite ==
  ASSUME NEW t, WellFormed(t)
  PROVE  IsFiniteSet(Occupied(t)) /\ Cardinality(Occupied(t)) \in Nat
<1>1. t \in Tables
  BY DEF WellFormed, Chained
<1>2. IsFiniteSet(Nodes(t))
  BY <1>1, NodesShape
<1> QED  BY <1>2, FS_Subset, FS_CardinalityType DEF Occupied

\* One entry more.
LEMMA PlacedOne ==
  ASSUME NEW t, NEW u, NEW entries, NEW I, NEW i, i \notin I, IsFiniteSet(I),
         WellFormed(t), Consistent(entries, I \cup {i}), Placed(t, u, entries, I),
         Cardinality(Occupied(t)) + Cardinality(Hashed(t, entries, I \cup {i})) <= Capacity(t)
  PROVE  Placed(t, Place(u, entries[i].key, entries[i].val), entries, I \cup {i})
<1> DEFINE k == entries[i].key
           v == entries[i].val
           r == Place(u, k, v)
           J == I \cup {i}
           H(S) == Hashed(t, entries, S)
<1>1. k \in Storable /\ v \in Nat /\ WellFormed(u) /\ SameSizes(t, u) /\ ~u.stuck
  BY DEF Consistent, Placed
<1>2. \A x : InArray(u, x) <=> InArray(t, x)
  BY <1>1 DEF SameSizes, InArray
<1>3. Capacity(u) = Capacity(t)
  BY <1>1 DEF SameSizes, Capacity
<1>4. /\ IsFiniteSet(H(I)) /\ IsFiniteSet(H(J)) /\ Cardinality(H(I)) \in Nat
      /\ Cardinality(H(J)) \in Nat
  <2>1. IsFiniteSet(J)
    BY FS_AddElement
  <2>2. H(I) \subseteq I /\ H(J) \subseteq J
    BY DEF Hashed
  <2> QED  BY <2>1, <2>2, FS_Subset, FS_CardinalityType
<1>5. IF InArray(t, k) THEN H(J) = H(I) ELSE Cardinality(H(J)) = Cardinality(H(I)) + 1
  <2>1. CASE InArray(t, k)
    BY <2>1 DEF Hashed
  <2>2. CASE ~InArray(t, k)
    <3>1. H(J) = H(I) \cup {i} /\ ~(i \in H(I))
      BY <2>2 DEF Hashed
    <3> HIDE DEF H, J
    <3>2. Cardinality(H(J)) = Cardinality(H(I)) + 1
      BY <3>1, <1>4, FS_AddElement
    <3> QED  BY <3>2, <2>2
  <2> QED  BY <2>1, <2>2
<1>6. /\ IsFiniteSet(Occupied(u)) /\ Cardinality(Occupied(u)) \in Nat
      /\ Cardinality(Occupied(t)) \in Nat
      /\ Cardinality(Occupied(u)) <= Cardinality(Occupied(t)) + Cardinality(H(I))
  BY <1>1, OccupiedFinite DEF Placed
<1>7. HasPlace(u, k)
  <2>1. CASE InArray(t, k)
    BY <2>1, <1>2 DEF HasPlace
  <2>2. CASE ~InArray(t, k)
    <3>0. Capacity(t) \in Nat
      <4>1. t \in Tables
        BY DEF WellFormed, Chained
      <4> QED  BY <4>1, NodesShape DEF Capacity
    <3> HIDE DEF k, v, r, H
    <3>1. Cardinality(Occupied(t)) + Cardinality(H(J)) <= Capacity(t)
      BY DEF H
    <3> HIDE DEF J
    <3>2. Cardinality(Occupied(u)) < Capacity(u)
      BY <3>0, <3>1, <2>2, <1>3, <1>4, <1>5, <1>6
    <3> QED  BY <3>2, <1>1, RoomIsFound
  <2> QED  BY <2>1, <2>2
<1> HIDE DEF k, v
<1>8. Stores(u, r, k, v)
  BY <1>1, <1>7, PlaceStores
<1>9. WellFormed(r) /\ SameSizes(u, r) /\ r.stuck = u.stuck /\ Gives(r, k, v)
  BY <1>8 DEF Stores
<1>10. \A j \in Storable, w \in Nat : j # k /\ Gives(u, j, w) => Gives(r, j, w)
  BY <1>8 DEF Stores
<1>11. IF InArray(u, k) THEN Occupied(r) = Occupied(u)
       ELSE \E x : Occupied(r) \subseteq Occupied(u) \cup {x}
  BY <1>8 DEF Stores
<1> HIDE DEF r
<1>12. SameSizes(t, r)
  BY <1>1, <1>9 DEF SameSizes
<1>13. Cardinality(Occupied(r)) <= Cardinality(Occupied(t)) + Cardinality(H(J))
  <2>0. Cardinality(Occupied(r)) \in Nat /\ IsFiniteSet(Occupied(r))
    BY <1>9, OccupiedFinite
  <2>1. CASE InArray(t, k)
    <3>1. Occupied(r) = Occupied(u) /\ H(J) = H(I)
      BY <2>1, <1>2, <1>5, <1>11
    <3> HIDE DEF H
    <3> QED  BY <3>1, <1>6
  <2>2. CASE ~InArray(t, k)
    <3>1. PICK x : Occupied(r) \subseteq Occupied(u) \cup {x}
      BY <2>2, <1>2, <1>11
    <3>2. IsFiniteSet(Occupied(u) \cup {x})
      BY <1>6, FS_AddElement
    <3>3. Cardinality(Occupied(u) \cup {x}) <= Cardinality(Occupied(u)) + 1
      <4>1. Cardinality(Occupied(u) \cup {x})
              = IF x \in Occupied(u) THEN Cardinality(Occupied(u)) ELSE Cardinality(Occupied(u)) + 1
        BY <1>6, FS_AddElement
      <4>2. Cardinality(Occupied(u)) \in Nat
        BY <1>6
      <4> HIDE DEF H
      <4> QED  BY <4>1, <4>2
    <3>4. Cardinality(Occupied(r)) <= Cardinality(Occupied(u) \cup {x})
      BY <3>1, <3>2, FS_Subset
    <3>5. Cardinality(Occupied(u) \cup {x}) \in Nat
      BY <3>2, FS_CardinalityType
    <3>6. Cardinality(H(J)) = Cardinality(H(I)) + 1
      BY <2>2, <1>5
    <3> HIDE DEF H, J
    <3> QED  BY <2>0, <3>3, <3>4, <3>5, <3>6, <1>4, <1>6
  <2> QED  BY <2>1, <2>2
<1>14. ASSUME NEW j \in J PROVE Gives(r, entries[j].key, entries[j].val)
  <2>0. entries[j].key \in Storable /\ entries[j].val \in Nat
    BY DEF Consistent
  <2>1. CASE entries[j].key = k
    <3>1. entries[j].val = v
      BY <2>1 DEF Consistent, k, v
    <3> QED  BY <3>1, <2>1, <1>9
  <2>2. CASE entries[j].key # k
    <3>1. j \in I
      BY <2>2 DEF k
    <3>2. Gives(u, entries[j].key, entries[j].val)
      BY <3>1 DEF Placed
    <3> QED  BY <3>2, <2>0, <2>2, <1>10
  <2> QED  BY <2>1, <2>2
<1>15. ASSUME NEW j \in Storable, NEW w \in Nat, Gives(t, j, w), \A x \in J : entries[x].key # j
       PROVE  Gives(r, j, w)
  <2>1. Gives(u, j, w)
    BY <1>15 DEF Placed
  <2>2. j # k
    BY <1>15 DEF k
  <2> QED  BY <2>1, <2>2, <1>10
<1>16. ~r.stuck
  BY <1>1, <1>9
<1>17. Placed(t, r, entries, J)
  <2> HIDE DEF J
  <2> QED  BY <1>9, <1>12, <1>13, <1>14, <1>15, <1>16 DEF Placed, H
<1> QED  BY <1>17 DEF r, k, v

\* Entries for which there are nodes enough are all stored, whatever their order:
\* no insertion among them needs a rehash.
LEMMA PlaceAllStores ==
  ASSUME NEW t, WellFormed(t), ~t.stuck, NEW entries, NEW I, Len(entries) \in Nat,
         I \subseteq 1 .. Len(entries), Consistent(entries, I),
         Cardinality(Occupied(t)) + Cardinality(Hashed(t, entries, I)) <= Capacity(t)
  PROVE  Placed(t, PlaceAll(t, entries, I), entries, I)
<1> DEFINE n == Len(entries)
           To_(i) == {j \in I : j <= i}
<1>0. n \in Nat /\ I \subseteq 1 .. n /\ n \in Int /\ \A i \in I : i \in Nat /\ 1 <= i /\ i <= n
  OBVIOUS
<1>1. \A f : Placing(f, t, entries, I, n) <=>
        f = [i \in 0 .. Len(entries) |->
               IF i = 0 THEN t
               ELSE IF i \in I THEN Place(f[i - 1], entries[i].key, entries[i].val)
               ELSE f[i - 1]]
  BY DEF Placing
<1>2. \E f : Placing(f, t, entries, I, n)
  BY PlacingExists
<1>3. PICK f : Placing(f, t, entries, I, n) /\ PlaceAll(t, entries, I) = f[n]
  <2> DEFINE g == CHOOSE f : f = [i \in 0 .. Len(entries) |->
               IF i = 0 THEN t
               ELSE IF i \in I THEN Place(f[i - 1], entries[i].key, entries[i].val)
               ELSE f[i - 1]]
  <2>1. g = [i \in 0 .. Len(entries) |->
               IF i = 0 THEN t
               ELSE IF i \in I THEN Place(g[i - 1], entries[i].key, entries[i].val)
               ELSE g[i - 1]]
    BY <1>1, <1>2
  <2>2. PlaceAll(t, entries, I) = g[Len(entries)]
    BY DEF PlaceAll
  <2> HIDE DEF g
  <2>3. Placing(g, t, entries, I, n)
    BY <2>1 DEF Placing
  <2> QED  BY <2>2, <2>3
<1> HIDE DEF n
<1>4. IsFiniteSet(I)
  <2>1. IsFiniteSet(1 .. n)
    BY <1>0, FS_Interval
  <2> QED  BY <1>0, <2>1, FS_Subset
<1>5. \A i \in 0 .. n : To_(i) \subseteq I /\ IsFiniteSet(To_(i))
  BY <1>4, FS_Subset
<1>6. f[0] = t
  BY <1>0, <1>3 DEF Placing
<1> DEFINE Good == {i \in 0 .. n : Placed(t, f[i], entries, To_(i))}
<1>7. 0 \in Good
  <2>1. To_(0) = {}
    <3>1. \A j \in I : ~(j <= 0)
      BY <1>0
    <3> QED  BY <3>1
  <2>2. Hashed(t, entries, {}) = {} /\ Cardinality({}) = 0
    BY FS_EmptySet DEF Hashed
  <2>3. SameSizes(t, t)
    BY DEF SameSizes, WellFormed, Chained
  <2>4. Placed(t, t, entries, {})
    BY <2>2, <2>3, OccupiedFinite DEF Placed
  <2> HIDE DEF To_
  <2>5. Placed(t, f[0], entries, To_(0))
    BY <2>1, <2>4, <1>6
  <2> QED  BY <2>5, <1>0
<1>8. ASSUME NEW i \in 1 .. n, i - 1 \in Good PROVE i \in Good
  <2>0. i \in 0 .. n /\ i \in Nat /\ i # 0 /\ i - 1 \in 0 .. n
    BY <1>0
  <2>1. f[i] = IF i \in I THEN Place(f[i - 1], entries[i].key, entries[i].val) ELSE f[i - 1]
    BY <2>0, <1>3 DEF Placing
  <2>2. Placed(t, f[i - 1], entries, To_(i - 1))
    BY <1>8
  <2>3. CASE i \in I
    <3>1. To_(i) = To_(i - 1) \cup {i} /\ ~(i \in To_(i - 1))
      <4>1. \A j \in I : j <= i <=> j <= i - 1 \/ j = i
        BY <2>0, <1>0
      <4>2. ~(i <= i - 1) /\ i <= i
        BY <2>0
      <4> QED  BY <4>1, <4>2, <2>3
    <3>2. Hashed(t, entries, To_(i)) \subseteq Hashed(t, entries, I)
      BY <1>5, <2>0 DEF Hashed
    <3>3. IsFiniteSet(Hashed(t, entries, I))
      BY <1>4, FS_Subset DEF Hashed
    <3>4. /\ Cardinality(Hashed(t, entries, To_(i))) <= Cardinality(Hashed(t, entries, I))
          /\ IsFiniteSet(Hashed(t, entries, To_(i)))
      BY <3>2, <3>3, FS_Subset
    <3>5. /\ Cardinality(Hashed(t, entries, To_(i))) \in Nat
          /\ Cardinality(Hashed(t, entries, I)) \in Nat /\ Cardinality(Occupied(t)) \in Nat
      BY <3>3, <3>4, FS_CardinalityType, OccupiedFinite
    <3>5a. Capacity(t) \in Nat
      <4>1. t \in Tables
        BY DEF WellFormed, Chained
      <4> QED  BY <4>1, NodesShape DEF Capacity
    <3>6. Cardinality(Occupied(t)) + Cardinality(Hashed(t, entries, To_(i))) <= Capacity(t)
      BY <3>4, <3>5, <3>5a
    <3>7. Consistent(entries, To_(i))
      BY <1>5, <2>0 DEF Consistent
    <3>8. IsFiniteSet(To_(i - 1))
      BY <1>5, <2>0
    <3> HIDE DEF To_
    <3>9. Placed(t, Place(f[i - 1], entries[i].key, entries[i].val), entries, To_(i - 1) \cup {i})
      BY <3>1, <3>6, <3>7, <3>8, <2>2, PlacedOne
    <3>10. Placed(t, f[i], entries, To_(i))
      BY <3>9, <3>1, <2>1, <2>3
    <3> QED  BY <3>10, <2>0
  <2>4. CASE ~(i \in I)
    <3>1. To_(i) = To_(i - 1)
      <4>1. \A j \in I : j <= i <=> j <= i - 1
        BY <2>0, <2>4, <1>0
      <4> QED  BY <4>1
    <3> HIDE DEF To_
    <3>2. Placed(t, f[i], entries, To_(i))
      BY <3>1, <2>1, <2>2, <2>4
    <3> QED  BY <3>2, <2>0
  <2> QED  BY <2>3, <2>4
<1>9. n \in Good
  <2> HIDE DEF Good
  <2>1. \A i \in 0 .. n : i \in Good
    BY <1>0, <1>7, <1>8, UpTo
  <2> QED  BY <2>1, <1>0
<1>10. To_(n) = I
  BY <1>0
<1> HIDE DEF To_
<1>11. Placed(t, f[n], entries, To_(n))
  BY <1>9
<1> QED  BY <1>3, <1>10, <1>11

-----------------------------------------------------------------------------
(* Fresh node vectors.                                                     *)

\* The hash part has at least the size it was asked for.
LEMMA TwoToGrows ==
  ASSUME NEW n \in Nat, n # 0
  PROVE  TwoTo(n) \in Nat /\ TwoTo(n) >= n
<1> DEFINE D == 1 .. (2 * n)
           stop == {p \in D : p >= n}
           step == [p \in D |-> IF p >= n THEN p ELSE 2 * p]
           rank == [p \in D |-> 2 * n - p]
           up == CHOOSE up : up = [p \in 1 .. (2 * n) |-> IF p >= n THEN p ELSE up[2 * p]]
<1>1. Ranked(D, stop, step, rank, 2 * n) /\ 2 * n \in Nat
  <2>1. step \in [D -> D]
    OBVIOUS
  <2>2. rank \in [D -> 0 .. (2 * n)]
    OBVIOUS
  <2>3. ASSUME NEW p \in D, p \notin stop PROVE rank[step[p]] < rank[p]
    <3>1. p \in Nat /\ p < n /\ 1 <= p
      BY <2>3
    <3>2. step[p] = 2 * p /\ 2 * p \in D
      BY <3>1
    <3> QED  BY <3>1, <3>2
  <2> QED  BY <2>1, <2>2, <2>3 DEF Ranked
<1>2. \A f : Loop(f, D, stop, step) <=>
               f = [p \in 1 .. (2 * n) |-> IF p >= n THEN p ELSE f[2 * p]]
  <2> TAKE f
  <2>1. \A p \in D : (IF p \in stop THEN p ELSE f[step[p]]) = (IF p >= n THEN p ELSE f[2 * p])
    OBVIOUS
  <2>2. [p \in D |-> IF p \in stop THEN p ELSE f[step[p]]]
          = [p \in D |-> IF p >= n THEN p ELSE f[2 * p]]
    <3> HIDE DEF stop, step
    <3>1. \A p \in D : (IF p \in stop THEN p ELSE f[step[p]]) = (IF p >= n THEN p ELSE f[2 * p])
      BY <2>1
    <3> HIDE DEF D
    <3> QED  BY <3>1
  <2> HIDE DEF stop, step
  <2> QED  BY <2>2 DEF Loop
<1>3. \E f : Loop(f, D, stop, step)
  <2> HIDE DEF D, stop, step, rank
  <2> QED  BY <1>1, LoopExists
<1>4. up = [p \in 1 .. (2 * n) |-> IF p >= n THEN p ELSE up[2 * p]]
  <2> HIDE DEF stop, step
  <2> QED  BY <1>2, <1>3
<1>5. TwoTo(n) = up[1]
  BY DEF TwoTo
<1> HIDE DEF up
<1>6. Loop(up, D, stop, step)
  <2> HIDE DEF D, stop, step
  <2> QED  BY <1>2, <1>4
<1>7. \A x \in D : x \notin stop => step[x] \in D
  OBVIOUS
<1>8. 1 \in D
  OBVIOUS
<1> DEFINE I == D
<1>9. I \in SUBSET D /\ \A x \in I : x \notin stop => step[x] \in I
  BY <1>7
<1> HIDE DEF D, stop, step, rank
<1>10. \A x \in I : up[x] \in I /\ up[x] \in stop
  BY <1>1, <1>6, <1>9, LoopStays
<1>11. up[1] \in stop
  BY <1>8, <1>10
<1> QED  BY <1>5, <1>11 DEF stop, D

\* u is t with an empty hash part that has room for size keys.
Fresh(t, u, size) ==
  /\ WellFormed(u)
  /\ u.array = t.array /\ u.stuck = t.stuck
  /\ size <= Capacity(u)
  /\ \A i \in Nodes(u) : u.node[i] = EmptyNode

\* A table of empty nodes is well formed.
LEMMA EmptyIsWellFormed ==
  ASSUME NEW u \in Tables, \A i \in Nodes(u) : u.node[i] = EmptyNode,
         u.lastfree = IF u.dummy THEN 0 ELSE SizeNode(u),
         u.dummy => SizeNode(u) = 1
  PROVE  WellFormed(u)
<1>1. /\ SizeNode(u) \in Nat \ {0} /\ Nodes(u) = 0 .. (SizeNode(u) - 1)
      /\ \A i \in Nodes(u) : i \in Nat
  BY NodesShape
<1>2. \A i \in Nodes(u) : /\ u.node[i].key = NoKey /\ u.node[i].val = Nil /\ ~u.node[i].dead
                          /\ u.node[i].next = 0
  BY DEF EmptyNode
<1>3. \A i \in Nodes(u) : Succ(u)[i] = i
  BY <1>1, <1>2 DEF Succ
<1>4. Succ(u) \in [Nodes(u) -> Nodes(u)]
  BY <1>3 DEF Succ
<1>5. Acyclic(Succ(u), Nodes(u))
  <2> DEFINE rank == [i \in Nodes(u) |-> 0]
  <2>1. Falls(Succ(u), Nodes(u), rank, 0)
    BY <1>3 DEF Falls
  <2> HIDE DEF rank
  <2> QED  BY <2>1 DEF Acyclic
<1>6. OneBefore(Succ(u), Nodes(u))
  BY <1>3 DEF OneBefore
<1>7. FreeApart(u)
  BY <1>2, <1>3 DEF FreeApart, Lone
<1>8. FreeBelow(u)
  BY <1>1 DEF FreeBelow
<1>9. DummyEmpty(u)
  BY <1>1, <1>2 DEF DummyEmpty
<1>10. DeadEmpty(u) /\ LiveFirst(u) /\ Homed(u)
  BY <1>2 DEF DeadEmpty, LiveFirst, Homed
<1>11. Outside(u)
  BY <1>2 DEF Outside, InArray, NoKey
<1>12. u.lastfree <= SizeNode(u)
  BY <1>1
<1> QED  BY <1>4, <1>5, <1>6, <1>7, <1>8, <1>9, <1>10, <1>11, <1>12 DEF WellFormed, Chained

\* setnodevector makes such a table.
LEMMA VectorIsFresh ==
  ASSUME NEW N, NEW t \in [array : Seq(Nat), node : N, dummy : BOOLEAN, lastfree : Nat,
                           stuck : BOOLEAN],
         NEW size \in Nat
  PROVE  Fresh(t, SetNodeVector(t, size), size)
<1> DEFINE u == SetNodeVector(t, size)
<1>0. EmptyNode \in NodeSet
  BY DEF EmptyNode, NodeSet, Nil
<1>1. CASE size = 0
  <2> DEFINE g == [i \in {0} |-> EmptyNode]
  <2>1. u = [t EXCEPT !.node = g, !.dummy = TRUE, !.lastfree = 0]
    BY <1>1 DEF SetNodeVector
  <2>2. DOMAIN g = 0 .. 0 /\ g \in [0 .. 0 -> NodeSet] /\ DOMAIN g = {0} /\ g[0] = EmptyNode
    <3>1. {0} = 0 .. 0
      OBVIOUS
    <3> QED  BY <3>1, <1>0
  <2> HIDE DEF g, u
  <2>3. u.node = g /\ u.dummy /\ u.lastfree = 0 /\ u.array = t.array /\ u.stuck = t.stuck
    BY <2>1
  <2>4. u \in Tables
    <3>1. g \in UNION {[0 .. n -> NodeSet] : n \in Nat}
      BY <2>2
    <3> QED  BY <3>1, <2>1 DEF Tables
  <2>5. SizeNode(u) = 1
    BY <2>2, <2>3, FS_Singleton DEF SizeNode
  <2>6. \A i \in Nodes(u) : u.node[i] = EmptyNode
    BY <2>2, <2>3 DEF Nodes
  <2>7. WellFormed(u)
    BY <2>3, <2>4, <2>5, <2>6, EmptyIsWellFormed
  <2>8. size <= Capacity(u)
    BY <1>1, <2>3 DEF Capacity
  <2>9. Fresh(t, u, size)
    BY <2>3, <2>6, <2>7, <2>8 DEF Fresh
  <2> QED  BY <2>9 DEF u
<1>2. CASE size # 0
  <2> DEFINE n == TwoTo(size)
             g == [i \in 0 .. (n - 1) |-> EmptyNode]
  <2>1. u = [t EXCEPT !.node = g, !.dummy = FALSE, !.lastfree = n]
    BY <1>2 DEF SetNodeVector
  <2>2. n \in Nat /\ n >= size /\ n # 0 /\ n - 1 \in Nat
    <3>1. n \in Nat /\ n >= size
      BY <1>2, TwoToGrows
    <3> HIDE DEF n
    <3> QED  BY <3>1, <1>2
  <2> HIDE DEF n
  <2>3. DOMAIN g = 0 .. (n - 1) /\ g \in [0 .. (n - 1) -> NodeSet] /\ \A i \in DOMAIN g : g[i] = EmptyNode
    BY <1>0
  <2> HIDE DEF g, u
  <2>4. u.node = g /\ ~u.dummy /\ u.lastfree = n /\ u.array = t.array /\ u.stuck = t.stuck
    BY <2>1
  <2>5. u \in Tables
    <3>1. g \in UNION {[0 .. m -> NodeSet] : m \in Nat}
      BY <2>2, <2>3
    <3> QED  BY <3>1, <2>1, <2>2 DEF Tables
  <2>6. SizeNode(u) = n
    <3>1. Cardinality(0 .. (n - 1)) = n
      <4>1. Cardinality(0 .. (n - 1)) = IF 0 > n - 1 THEN 0 ELSE (n - 1) - 0 + 1
        BY <2>2, FS_Interval
      <4> QED  BY <4>1, <2>2
    <3> QED  BY <3>1, <2>3, <2>4 DEF SizeNode
  <2>7. \A i \in Nodes(u) : u.node[i] = EmptyNode
    BY <2>3, <2>4 DEF Nodes
  <2>8. WellFormed(u)
    BY <2>4, <2>5, <2>6, <2>7, EmptyIsWellFormed
  <2>9. size <= Capacity(u)
    BY <2>2, <2>4, <2>6 DEF Capacity
  <2>10. Fresh(t, u, size)
    BY <2>4, <2>7, <2>8, <2>9 DEF Fresh
  <2> QED  BY <2>10 DEF u
<1> QED  BY <1>1, <1>2

\* In such a table every key has Nil or its slot of the array.
LEMMA FreshGives ==
  ASSUME NEW t, NEW u, NEW size, Fresh(t, u, size), NEW k \in Storable
  PROVE  /\ Occupied(u) = {}
         /\ Gives(u, k, IF InArray(t, k) THEN t.array[k.n] ELSE Nil)
<1>1. \A i \in Nodes(u) : u.node[i].key = NoKey /\ u.node[i].val = Nil
  BY DEF Fresh, EmptyNode
<1>2. Occupied(u) = {}
  BY <1>1 DEF Occupied
<1>3. u.array = t.array /\ (InArray(u, k) <=> InArray(t, k))
  BY DEF Fresh, InArray
<1>4. CASE InArray(t, k)
  BY <1>3, <1>4, <1>2 DEF Gives
<1>5. CASE ~InArray(t, k)
  BY <1>1, <1>2, <1>3, <1>5 DEF Gives
<1> QED  BY <1>4, <1>5

-----------------------------------------------------------------------------
(* Changes of size (luaH_resize).                                          *)

Lost(t, nasize) == IF nasize < Len(t.array) THEN Len(t.array) - nasize ELSE 0
Top(t, nasize) == Lost(t, nasize) + SizeNode(t)

\* The entries are the slots that vanish, and all nodes.
LEMMA EntriesAre ==
  ASSUME NEW t \in Tables, NEW nasize \in Nat
  PROVE  /\ Lost(t, nasize) \in Nat /\ Top(t, nasize) \in Nat
         /\ Len(Entries(t, nasize)) = Top(t, nasize)
         /\ DOMAIN Entries(t, nasize) = 1 .. Top(t, nasize)
         /\ \A i \in 1 .. Top(t, nasize) : i <= Lost(t, nasize) =>
              /\ nasize + i \in 1 .. Len(t.array)
              /\ Entries(t, nasize)[i].key = Index(nasize + i)
              /\ Entries(t, nasize)[i].val = t.array[nasize + i]
         /\ \A i \in 1 .. Top(t, nasize) : ~(i <= Lost(t, nasize)) =>
              /\ Top(t, nasize) - i \in Nodes(t)
              /\ Entries(t, nasize)[i].key = t.node[Top(t, nasize) - i].key
              /\ Entries(t, nasize)[i].val = t.node[Top(t, nasize) - i].val
<1> DEFINE lost == Lost(t, nasize)
           top == Top(t, nasize)
           E == Entries(t, nasize)
           e(i) == IF i <= lost THEN [key |-> Index(nasize + i), val |-> t.array[nasize + i]]
                   ELSE [key |-> t.node[top - i].key, val |-> t.node[top - i].val]
           S == [key : Storable \cup {NoKey}, val : Nat]
<1>1. /\ Len(t.array) \in Nat /\ SizeNode(t) \in Nat \ {0} /\ Nodes(t) = 0 .. (SizeNode(t) - 1)
      /\ \A i \in 1 .. Len(t.array) : t.array[i] \in Nat
  <2>1. t.array \in Seq(Nat)
    BY DEF Tables
  <2>2. Len(t.array) \in Nat /\ \A i \in 1 .. Len(t.array) : t.array[i] \in Nat
    BY <2>1, LenProperties, ElementOfSeq
  <2> QED  BY <2>2, NodesShape
<1>2. lost \in Nat /\ top \in Nat /\ top = lost + SizeNode(t)
  BY <1>1 DEF Lost, Top
<1>3. E = [i \in 1 .. top |-> e(i)]
  BY DEF Entries, Top, Lost
<1>4. ASSUME NEW i \in 1 .. top, i <= lost
      PROVE  nasize + i \in 1 .. Len(t.array)
  BY <1>1, <1>2, <1>4 DEF Lost
<1>5. ASSUME NEW i \in 1 .. top, ~(i <= lost)
      PROVE  top - i \in Nodes(t)
  BY <1>1, <1>2, <1>5
<1> HIDE DEF lost, top, E
<1>6. ASSUME NEW i \in 1 .. top PROVE e(i) \in S
  <2>1. CASE i <= lost
    <3>1. nasize + i \in 1 .. Len(t.array) /\ nasize + i \in Int
      BY <1>4, <2>1, <1>1
    <3>2. Index(nasize + i) \in Storable /\ t.array[nasize + i] \in Nat
      BY <3>1, <1>1, NormalKeys
    <3> QED  BY <3>2, <2>1
  <2>2. CASE ~(i <= lost)
    <3>1. top - i \in Nodes(t)
      BY <1>5, <2>2
    <3>2. t.node[top - i].key \in Storable \cup {NoKey} /\ t.node[top - i].val \in Nat
      BY <3>1, NodeTypes
    <3> QED  BY <3>2, <2>2
  <2> QED  BY <2>1, <2>2
<1>7. E \in [1 .. top -> S]
  <2> HIDE DEF e, S
  <2> QED  BY <1>3, <1>6
<1>8. E \in Seq(S)
  <2> HIDE DEF S
  <2> QED  BY <1>2, <1>7, SeqDef
<1>9. Len(E) = top /\ DOMAIN E = 1 .. top
  <2> HIDE DEF S
  <2>1. Len(E) \in Nat /\ DOMAIN E = 1 .. Len(E)
    BY <1>8, LenProperties
  <2>2. DOMAIN E = 1 .. top
    BY <1>7
  <2> QED  BY <1>2, <2>1, <2>2
<1>10. \A i \in 1 .. top : E[i] = e(i)
  <2> HIDE DEF e
  <2> QED  BY <1>3
<1>11. \A i \in 1 .. top : i <= lost => E[i].key = Index(nasize + i) /\ E[i].val = t.array[nasize + i]
  <2> TAKE i \in 1 .. top
  <2> HAVE i <= lost
  <2>1. E[i] = e(i)
    BY <1>10
  <2>2. E[i] = [key |-> Index(nasize + i), val |-> t.array[nasize + i]]
    BY <2>1
  <2> HIDE DEF e
  <2> QED  BY <2>2
<1>12. \A i \in 1 .. top : ~(i <= lost) =>
         E[i].key = t.node[top - i].key /\ E[i].val = t.node[top - i].val
  <2> TAKE i \in 1 .. top
  <2> HAVE ~(i <= lost)
  <2>1. E[i] = e(i)
    BY <1>10
  <2>2. E[i] = [key |-> t.node[top - i].key, val |-> t.node[top - i].val]
    BY <2>1
  <2> HIDE DEF e
  <2> QED  BY <2>2
<1> HIDE DEF e
<1> QED  BY <1>2, <1>4, <1>5, <1>9, <1>11, <1>12 DEF lost, top, E

\* Every entry in use is what its key gives.
LEMMA EntriesGiven ==
  ASSUME NEW t, WellFormed(t), NEW nasize \in Nat, NEW i \in InUse(Entries(t, nasize))
  PROVE  /\ Entries(t, nasize)[i].key \in Storable
         /\ Entries(t, nasize)[i].val \in Nat
         /\ Gives(t, Entries(t, nasize)[i].key, Entries(t, nasize)[i].val)
         /\ Entries(t, nasize)[i].val # Nil
<1> DEFINE E == Entries(t, nasize)
<1>1. t \in Tables
  BY DEF WellFormed, Chained
<1>2. i \in 1 .. Top(t, nasize) /\ E[i].val # Nil
  BY <1>1, EntriesAre DEF InUse
<1>3. CASE i <= Lost(t, nasize)
  <2>1. /\ nasize + i \in 1 .. Len(t.array)
        /\ E[i].key = Index(nasize + i) /\ E[i].val = t.array[nasize + i]
    BY <1>1, <1>2, <1>3, EntriesAre
  <2> HIDE DEF E
  <2>1a. nasize + i \in Int
    BY <2>1
  <2>1b. t.array \in Seq(Nat)
    BY <1>1 DEF Tables
  <2>2. Index(nasize + i) \in Storable /\ t.array[nasize + i] \in Nat
    BY <2>1, <2>1a, <2>1b, NormalKeys, ElementOfSeq
  <2>3. InArray(t, Index(nasize + i)) /\ Index(nasize + i).n = nasize + i
    BY <2>1 DEF InArray, Index
  <2>4. Gives(t, Index(nasize + i), t.array[nasize + i])
    BY <2>3 DEF Gives
  <2> QED  BY <2>1, <2>2, <2>4, <1>2 DEF E
<1>4. CASE ~(i <= Lost(t, nasize))
  <2> DEFINE q == Top(t, nasize) - i
  <2>1. q \in Nodes(t) /\ E[i].key = t.node[q].key /\ E[i].val = t.node[q].val
    BY <1>1, <1>2, <1>4, EntriesAre
  <2> HIDE DEF E, q
  <2>2. t.node[q].val # Nil /\ t.node[q].val \in Nat
    BY <1>1, <1>2, <2>1, NodeTypes
  <2>3. t.node[q].key # NoKey
    BY <2>1, <2>2 DEF WellFormed, FreeApart
  <2>4. t.node[q].key \in Storable
    BY <1>1, <2>1, <2>3, NodeTypes
  <2>5. ~InArray(t, t.node[q].key)
    BY <2>1 DEF WellFormed, Outside
  <2>6. Gives(t, t.node[q].key, t.node[q].val)
    BY <2>1, <2>2, <2>5 DEF Gives
  <2> QED  BY <2>1, <2>2, <2>4, <2>6 DEF E
<1> QED  BY <1>3, <1>4

\* What a key gives is an entry, unless it stays where it is in the array.
LEMMA GivenIsEntry ==
  ASSUME NEW t, WellFormed(t), NEW nasize \in Nat, NEW k \in Storable, NEW v \in Nat,
         Gives(t, k, v), v # Nil, ~(InArray(t, k) /\ k.n <= nasize)
  PROVE  \E i \in InUse(Entries(t, nasize)) : Entries(t, nasize)[i].key = k
<1> DEFINE E == Entries(t, nasize)
           top == Top(t, nasize)
           lost == Lost(t, nasize)
<1>1. t \in Tables
  BY DEF WellFormed, Chained
<1>2. /\ lost \in Nat /\ top \in Nat /\ DOMAIN E = 1 .. top
      /\ \A i \in 1 .. top : i <= lost => E[i].key = Index(nasize + i) /\ E[i].val = t.array[nasize + i]
      /\ \A i \in 1 .. top : ~(i <= lost) =>
           E[i].key = t.node[top - i].key /\ E[i].val = t.node[top - i].val
  BY <1>1, EntriesAre
<1>3. top = lost + SizeNode(t) /\ SizeNode(t) \in Nat \ {0} /\ Nodes(t) = 0 .. (SizeNode(t) - 1)
  BY <1>1, NodesShape DEF Top
<1>4. Len(t.array) \in Nat
  BY <1>1, LenProperties DEF Tables
<1>5. CASE InArray(t, k)
  <2>1. k = Index(k.n) /\ k.n \in 1 .. Len(t.array) /\ nasize < k.n /\ t.array[k.n] = v
    BY <1>5, NormalKeys DEF InArray, Gives
  <2>2. lost = Len(t.array) - nasize
    BY <1>4, <2>1 DEF Lost
  <2> DEFINE i == k.n - nasize
  <2> DEFINE l == Len(t.array)
             m == k.n
             z == SizeNode(t)
  <2>3. i \in 1 .. top /\ i <= lost /\ nasize + i = k.n
    <3>1. /\ l \in Nat /\ m \in 1 .. l /\ nasize < m /\ lost = l - nasize /\ z \in Nat \ {0}
          /\ top = lost + z /\ i = m - nasize
      BY <1>3, <1>4, <2>1, <2>2
    <3> HIDE DEF i, E, top, lost, l, m, z
    <3>2. i \in 1 .. top /\ i <= lost /\ nasize + i = m
      BY <3>1
    <3> QED  BY <3>2 DEF m
  <2> HIDE DEF i, E, top, lost
  <2>4. E[i].key = k /\ E[i].val # Nil /\ i \in DOMAIN E
    BY <1>2, <2>1, <2>3
  <2> QED  BY <2>4 DEF InUse, E
<1>6. CASE ~InArray(t, k)
  <2>1. PICK q \in Nodes(t) : t.node[q].key = k /\ t.node[q].val = v
    BY <1>6 DEF Gives
  <2> DEFINE i == top - q
  <2> HIDE DEF top, lost
  <2>2. i \in 1 .. top /\ ~(i <= lost) /\ top - i = q
    <3> DEFINE z == SizeNode(t)
    <3>1. lost \in Nat /\ z \in Nat \ {0} /\ top = lost + z /\ i = top - q /\ q \in 0 .. (z - 1)
      BY <1>2, <1>3, <2>1
    <3> HIDE DEF z, i
    <3> QED  BY <3>1
  <2> HIDE DEF i, E
  <2>3. E[i].key = k /\ E[i].val # Nil /\ i \in DOMAIN E
    BY <1>2, <2>1, <2>2
  <2> QED  BY <2>3 DEF InUse, E
<1> QED  BY <1>5, <1>6

\* How many keys in use do not belong in an array of n slots.
LeftOver(t, n) == Cardinality(UsedSlots(t, 1 .. Len(t.array)) \ UsedSlots(t, 1 .. n))
                  + Cardinality(UsedNodes(t) \ IndexNodes(t, 1 .. n))

\* They are the entries that need a node.
LEMMA LeftOverBounds ==
  ASSUME NEW t, WellFormed(t), NEW nasize \in Nat, NEW a, Len(a.array) = nasize
  PROVE  /\ LeftOver(t, nasize) \in Nat
         /\ Cardinality(Hashed(a, Entries(t, nasize), InUse(Entries(t, nasize))))
              <= LeftOver(t, nasize)
<1> DEFINE E == Entries(t, nasize)
           top == Top(t, nasize)
           lost == Lost(t, nasize)
           H == Hashed(a, E, InUse(E))
           H1 == {i \in H : i <= lost}
           H2 == {i \in H : ~(i <= lost)}
           S1 == UsedSlots(t, 1 .. Len(t.array)) \ UsedSlots(t, 1 .. nasize)
           S2 == UsedNodes(t) \ IndexNodes(t, 1 .. nasize)
<1>1. t \in Tables
  BY DEF WellFormed, Chained
<1>2. /\ lost \in Nat /\ top \in Nat /\ DOMAIN E = 1 .. top
      /\ \A i \in 1 .. top : i <= lost =>
           /\ nasize + i \in 1 .. Len(t.array)
           /\ E[i].key = Index(nasize + i) /\ E[i].val = t.array[nasize + i]
      /\ \A i \in 1 .. top : ~(i <= lost) =>
           /\ top - i \in Nodes(t)
           /\ E[i].key = t.node[top - i].key /\ E[i].val = t.node[top - i].val
  BY <1>1, EntriesAre
<1>3. Len(t.array) \in Nat /\ IsFiniteSet(Nodes(t))
  BY <1>1, LenProperties, NodesShape DEF Tables
<1>4. IsFiniteSet(S1) /\ IsFiniteSet(S2)
  <2>1. IsFiniteSet(1 .. Len(t.array))
    BY <1>3, FS_Interval
  <2>2. S1 \subseteq 1 .. Len(t.array) /\ S2 \subseteq Nodes(t)
    BY DEF UsedSlots, UsedNodes, Nodes
  <2> QED  BY <2>1, <2>2, <1>3, FS_Subset
<1>5. H \subseteq 1 .. top /\ \A i \in H : E[i].val # Nil /\ ~InArray(a, E[i].key)
  BY <1>2 DEF Hashed, InUse
<1> HIDE DEF E, top, lost, H
<1>6. IsFiniteSet(H1) /\ Cardinality(H1) <= Cardinality(S1)
  <2> DEFINE g == [i \in H1 |-> nasize + i]
  <2>1. \A i \in H1 : nasize + i \in S1
    <3> TAKE i \in H1
    <3>1. i \in 1 .. top /\ i <= lost /\ E[i].val # Nil
      BY <1>5
    <3>2. nasize + i \in 1 .. Len(t.array) /\ t.array[nasize + i] # Nil
      BY <3>1, <1>2
    <3>3. ~(nasize + i \in 1 .. nasize)
      BY <3>1
    <3> QED  BY <3>2, <3>3 DEF UsedSlots
  <2> HIDE DEF S1
  <2>2. g \in [H1 -> S1]
    BY <2>1
  <2>3. \A i, j \in H1 : g[i] = g[j] => i = j
    <3>1. \A i \in H1 : i \in Int /\ g[i] = nasize + i
      BY <1>5
    <3> HIDE DEF g, H1
    <3> QED  BY <3>1
  <2>4. g \in Injection(H1, S1)
    BY <2>2, <2>3 DEF Injection, IsInjective
  <2> QED  BY <2>4, <1>4, FS_Injection
<1>7. IsFiniteSet(H2) /\ Cardinality(H2) <= Cardinality(S2)
  <2> DEFINE g == [i \in H2 |-> top - i]
  <2>1. \A i \in H2 : top - i \in S2
    <3> TAKE i \in H2
    <3>1. i \in 1 .. top /\ ~(i <= lost) /\ E[i].val # Nil /\ ~InArray(a, E[i].key)
      BY <1>5
    <3>2. top - i \in Nodes(t) /\ t.node[top - i].val # Nil /\ ~InArray(a, t.node[top - i].key)
      BY <3>1, <1>2
    <3>3. ~(ArrayIndex(t.node[top - i].key) \in 1 .. nasize)
      BY <3>2 DEF InArray, ArrayIndex
    <3> QED  BY <3>2, <3>3 DEF UsedNodes, IndexNodes, Nodes
  <2> HIDE DEF S2
  <2>2. g \in [H2 -> S2]
    BY <2>1
  <2>3. \A i, j \in H2 : g[i] = g[j] => i = j
    <3>1. \A i \in H2 : i \in Int /\ g[i] = top - i
      BY <1>5
    <3> HIDE DEF g, H2
    <3> QED  BY <3>1, <1>2
  <2>4. g \in Injection(H2, S2)
    BY <2>2, <2>3 DEF Injection, IsInjective
  <2> QED  BY <2>4, <1>4, FS_Injection
<1>8. H = H1 \cup H2
  OBVIOUS
<1>9. LeftOver(t, nasize) = Cardinality(S1) + Cardinality(S2)
  BY DEF LeftOver
<1>10. Cardinality(S1) \in Nat /\ Cardinality(S2) \in Nat /\ Cardinality(H1) \in Nat /\ Cardinality(H2) \in Nat
  BY <1>4, <1>6, <1>7, FS_CardinalityType
<1> HIDE DEF H1, H2, S1, S2
<1>11. Cardinality(H) <= Cardinality(H1) + Cardinality(H2)
  <2>1. /\ IsFiniteSet(H1 \cap H2)
        /\ Cardinality(H1 \cup H2) = Cardinality(H1) + Cardinality(H2) - Cardinality(H1 \cap H2)
    BY <1>6, <1>7, FS_Union, FS_Subset
  <2>2. Cardinality(H1 \cap H2) \in Nat
    BY <2>1, FS_CardinalityType
  <2> QED  BY <2>1, <2>2, <1>8, <1>10
<1>12. Cardinality(H) \in Nat
  <2>1. IsFiniteSet(H)
    BY <1>6, <1>7, <1>8, FS_Union
  <2> QED  BY <2>1, FS_CardinalityType
<1> QED  BY <1>6, <1>7, <1>9, <1>10, <1>11, <1>12 DEF H, E

\* u holds what t holds, in an array of na slots and at least nh nodes.
Resized(t, u, na, nh) ==
  /\ WellFormed(u) /\ ~u.stuck
  /\ Len(u.array) = na /\ nh <= Capacity(u)
  /\ Cardinality(Occupied(u)) <= LeftOver(t, na)
  /\ \A k \in Storable, v \in Nat : Gives(t, k, v) => Gives(u, k, v)

\* setarrayvector keeps the slots that remain.
LEMMA ArrayVectorIs ==
  ASSUME NEW t \in Tables, NEW na \in Nat, NEW a, a = SetArrayVector(t, na)
  PROVE  /\ a \in [array : Seq(Nat), node : {t.node}, dummy : BOOLEAN, lastfree : Nat, stuck : BOOLEAN]
         /\ a.stuck = t.stuck /\ Len(a.array) = na
         /\ \A i \in 1 .. na : a.array[i] = IF i <= Len(t.array) THEN t.array[i] ELSE Nil
<1> DEFINE s == [i \in 1 .. na |-> IF i <= Len(t.array) THEN t.array[i] ELSE Nil]
<1>1. a = [t EXCEPT !.array = s]
  BY DEF SetArrayVector
<1>2. t.array \in Seq(Nat) /\ Len(t.array) \in Nat
  BY LenProperties DEF Tables
<1>3. s \in [1 .. na -> Nat]
  <2>1. \A i \in 1 .. na : i <= Len(t.array) => t.array[i] \in Nat
    BY <1>2, ElementOfSeq
  <2> QED  BY <2>1 DEF Nil
<1>4. s \in Seq(Nat)
  BY <1>3, SeqDef
<1>5. Len(s) = na
  <2>1. Len(s) \in Nat /\ DOMAIN s = 1 .. Len(s)
    BY <1>4, LenProperties
  <2>2. DOMAIN s = 1 .. na
    OBVIOUS
  <2> DEFINE m == Len(s)
  <2>3. m \in Nat /\ 1 .. m = 1 .. na
    BY <2>1, <2>2
  <2> HIDE DEF m, s
  <2>4. m = na
    <3>1. m \in 1 .. na \/ m = 0
      BY <2>3
    <3>2. na \in 1 .. m \/ na = 0
      BY <2>3
    <3> QED  BY <3>1, <3>2, <2>3
  <2> QED  BY <2>4 DEF m
<1>6. \A i \in 1 .. na : s[i] = IF i <= Len(t.array) THEN t.array[i] ELSE Nil
  OBVIOUS
<1> HIDE DEF s
<1> QED  BY <1>1, <1>4, <1>5, <1>6 DEF Tables

\* A table whose nodes suffice for what does not go into the array loses nothing.
LEMMA ResizeStores ==
  ASSUME NEW t, WellFormed(t), ~t.stuck, NEW na \in Nat, NEW nh \in Nat,
         LeftOver(t, na) <= nh
  PROVE  Resized(t, Resize(t, na, nh), na, nh)
<1> DEFINE a == SetArrayVector(t, na)
           b == SetNodeVector(a, nh)
           E == Entries(t, na)
           I == InUse(E)
           u == PlaceAll(b, E, I)
<1>1. t \in Tables
  BY DEF WellFormed, Chained
<1>2. Resize(t, na, nh) = u
  BY DEF Resize
<1>3. /\ a \in [array : Seq(Nat), node : {t.node}, dummy : BOOLEAN, lastfree : Nat, stuck : BOOLEAN]
      /\ a.stuck = t.stuck /\ Len(a.array) = na
      /\ \A i \in 1 .. na : a.array[i] = IF i <= Len(t.array) THEN t.array[i] ELSE Nil
  BY <1>1, ArrayVectorIs
<1> HIDE DEF a
<1>4. Fresh(a, b, nh)
  BY <1>3, VectorIsFresh
<1>5. WellFormed(b) /\ ~b.stuck /\ b.array = a.array /\ nh <= Capacity(b)
  BY <1>3, <1>4 DEF Fresh
<1>6. /\ Occupied(b) = {}
      /\ \A k \in Storable : Gives(b, k, IF InArray(a, k) THEN a.array[k.n] ELSE Nil)
  <2> HIDE DEF b
  <2>1. \A k \in Storable : /\ Occupied(b) = {}
                            /\ Gives(b, k, IF InArray(a, k) THEN a.array[k.n] ELSE Nil)
    BY <1>4, FreshGives
  <2>2. Index(1) \in Storable
    BY NormalKeys
  <2> QED  BY <2>1, <2>2
<1> HIDE DEF b
<1>7. Len(E) \in Nat /\ I \subseteq 1 .. Len(E)
  BY <1>1, EntriesAre DEF InUse
<1>8. \A i \in I : /\ E[i].key \in Storable /\ E[i].val \in Nat /\ E[i].val # Nil
                   /\ Gives(t, E[i].key, E[i].val)
  BY EntriesGiven
<1>9. \A k \in Storable, v \in Nat :
        Gives(t, k, v) /\ v # Nil /\ ~(InArray(t, k) /\ k.n <= na) => \E i \in I : E[i].key = k
  BY GivenIsEntry
<1>10. /\ LeftOver(t, na) \in Nat
       /\ Cardinality(Hashed(b, E, I)) <= LeftOver(t, na)
  BY <1>3, <1>5, LeftOverBounds
<1> HIDE DEF E, I
<1>11. Consistent(E, I)
  <2>1. ASSUME NEW i \in I, NEW j \in I, E[i].key = E[j].key PROVE E[i].val = E[j].val
    BY <2>1, <1>8, GivesOne
  <2> QED  BY <2>1, <1>8 DEF Consistent
<1>12. /\ Cardinality(Occupied(b)) = 0 /\ Capacity(b) \in Nat
       /\ Cardinality(Hashed(b, E, I)) \in Nat
  <2>1. b \in Tables
    BY <1>5 DEF WellFormed, Chained
  <2>2. IsFiniteSet(1 .. Len(E))
    BY <1>7, FS_Interval
  <2>3. Hashed(b, E, I) \subseteq 1 .. Len(E)
    BY <1>7 DEF Hashed
  <2>4. IsFiniteSet(Hashed(b, E, I))
    BY <2>2, <2>3, FS_Subset
  <2> QED  BY <2>1, <2>4, <1>6, NodesShape, FS_EmptySet, FS_CardinalityType DEF Capacity
<1>13. Cardinality(Occupied(b)) + Cardinality(Hashed(b, E, I)) <= Capacity(b)
  BY <1>5, <1>10, <1>12
<1>14. Placed(b, u, E, I)
  BY <1>5, <1>7, <1>11, <1>13, PlaceAllStores
<1> HIDE DEF u
<1>15. /\ WellFormed(u) /\ ~u.stuck /\ Len(u.array) = na /\ nh <= Capacity(u)
  BY <1>14, <1>5, <1>3 DEF Placed, SameSizes, Capacity
<1>16. Cardinality(Occupied(u)) <= LeftOver(t, na)
  <2>1. Cardinality(Occupied(u)) <= Cardinality(Occupied(b)) + Cardinality(Hashed(b, E, I))
    BY <1>14 DEF Placed
  <2>2. Cardinality(Occupied(u)) \in Nat
    BY <1>15, OccupiedFinite
  <2> QED  BY <2>1, <2>2, <1>10, <1>12
<1>17. ASSUME NEW k \in Storable, NEW v \in Nat, Gives(t, k, v)
       PROVE  Gives(u, k, v)
  <2>1. CASE \E i \in I : E[i].key = k
    <3>1. PICK i \in I : E[i].key = k
      BY <2>1
    <3>2. E[i].val = v
      BY <3>1, <1>8, <1>17, GivesOne
    <3>3. Gives(u, E[i].key, E[i].val)
      BY <1>14 DEF Placed
    <3> QED  BY <3>1, <3>2, <3>3
  <2>2. CASE ~(\E i \in I : E[i].key = k)
    <3>1. v # Nil => InArray(t, k) /\ k.n <= na
      BY <2>2, <1>9, <1>17
    <3>2. InArray(t, k) => t.array[k.n] = v
      BY <1>17 DEF Gives
    <3>3. (IF InArray(a, k) THEN a.array[k.n] ELSE Nil) = v
      <4>1. CASE InArray(a, k)
        <5>1. k.n \in 1 .. na /\ k.kind = "int"
          BY <4>1, <1>3 DEF InArray
        <5>2. a.array[k.n] = IF k.n <= Len(t.array) THEN t.array[k.n] ELSE Nil
          BY <5>1, <1>3
        <5>3. Len(t.array) \in Nat
          BY <1>1, LenProperties DEF Tables
        <5>4. InArray(t, k) <=> k.n <= Len(t.array)
          BY <5>1, <5>3 DEF InArray
        <5> QED  BY <4>1, <5>2, <5>4, <3>1, <3>2
      <4>2. CASE ~InArray(a, k)
        <5>1. ~(InArray(t, k) /\ k.n <= na)
          BY <4>2, <1>3 DEF InArray
        <5> QED  BY <4>2, <5>1, <3>1
      <4> QED  BY <4>1, <4>2
    <3>4. Gives(b, k, v)
      BY <3>3, <1>6
    <3> QED  BY <3>4, <2>2, <1>14 DEF Placed
  <2> QED  BY <2>1, <2>2
<1>18. Resized(t, u, na, nh)
  BY <1>15, <1>16, <1>17 DEF Resized
<1> QED  BY <1>2, <1>18

\* The table that OP_NEWTABLE starts from is empty.
LEMMA NewIsEmpty ==
  /\ WellFormed(New) /\ ~New.stuck /\ Len(New.array) = 0 /\ New.dummy
  /\ Occupied(New) = {}
  /\ \A k \in Storable : Gives(New, k, Nil)
  /\ \A i \in Nodes(New) : New.node[i].val = Nil
<1> DEFINE raw == [array |-> <<>>, node |-> <<>>, dummy |-> TRUE, lastfree |-> 0, stuck |-> FALSE]
<1>1. raw \in [array : Seq(Nat), node : {raw.node}, dummy : BOOLEAN, lastfree : Nat, stuck : BOOLEAN]
  <2>1. <<>> \in Seq(Nat)
    BY EmptySeq
  <2> QED  BY <2>1
<1>2. New = SetNodeVector(raw, 0)
  BY DEF New
<1>3. raw.array = <<>> /\ ~raw.stuck /\ Len(<<>>) = 0
  BY EmptySeq
<1>3a. New.dummy
  <2>1. SetNodeVector(raw, 0) = [raw EXCEPT !.node = [i \in {0} |-> EmptyNode], !.dummy = TRUE, !.lastfree = 0]
    BY DEF SetNodeVector
  <2>2. [raw EXCEPT !.node = [i \in {0} |-> EmptyNode], !.dummy = TRUE, !.lastfree = 0].dummy = TRUE
    OBVIOUS
  <2> HIDE DEF raw
  <2> QED  BY <2>1, <2>2, <1>2
<1> HIDE DEF raw
<1>4. Fresh(raw, New, 0)
  BY <1>1, <1>2, VectorIsFresh
<1>5. New.array = <<>> /\ ~New.stuck /\ WellFormed(New) /\ \A i \in Nodes(New) : New.node[i].val = Nil
  BY <1>3, <1>4 DEF Fresh, EmptyNode
<1>6. \A k \in Storable : ~InArray(raw, k)
  BY <1>3 DEF InArray
<1>7. \A k \in Storable : Occupied(New) = {} /\ Gives(New, k, Nil)
  BY <1>4, <1>6, FreshGives
<1>8. Index(1) \in Storable
  BY NormalKeys
<1> QED  BY <1>3, <1>3a, <1>5, <1>7, <1>8

-----------------------------------------------------------------------------
(* Counting keys (numusearray, numusehash, computesizes).                  *)

\* Sizes of the array part double from 1 to 2^MAXABITS.
LEMMA TwosDouble ==
  /\ MaxABits \in Nat
  /\ Twos[0] = 1
  /\ \A i \in 1 .. MaxABits : Twos[i] = 2 * Twos[i - 1]
  /\ \A i \in 0 .. MaxABits : Twos[i] \in Nat /\ Twos[i] >= 1
<1>0. MaxABits \in Nat
  BY TableConstants
<1> DEFINE step == [i \in 1 .. MaxABits |-> [x \in Nat |-> 2 * x]]
           n == MaxABits
<1>1. step \in [1 .. n -> [Nat -> Nat]]
  OBVIOUS
<1>2. \A i \in 1 .. n, x \in Nat : step[i][x] = 2 * x
  OBVIOUS
<1> HIDE DEF step
<1>3. \E g : Chain(g, n, Nat, 1, step)
  BY <1>0, <1>1, ChainExists
<1>4. PICK g : Chain(g, n, Nat, 1, step)
  BY <1>3
<1>5. g = [i \in 0 .. MaxABits |-> IF i = 0 THEN 1 ELSE 2 * g[i - 1]]
  <2>1. g \in [0 .. n -> Nat] /\ g[0] = 1 /\ \A i \in 1 .. n : g[i] = step[i][g[i - 1]]
    BY <1>4 DEF Chain
  <2>2. ASSUME NEW i \in 0 .. n PROVE g[i] = IF i = 0 THEN 1 ELSE 2 * g[i - 1]
    <3>1. CASE i = 0
      BY <2>1, <3>1
    <3>2. CASE i # 0
      <4>1. i \in 1 .. n /\ i - 1 \in 0 .. n
        BY <3>2, <1>0
      <4>2. g[i - 1] \in Nat
        BY <4>1, <2>1
      <4> QED  BY <4>1, <4>2, <3>2, <2>1, <1>2
    <3> QED  BY <3>1, <3>2
  <2> QED  BY <2>1, <2>2
<1>6. Twos = [i \in 0 .. MaxABits |-> IF i = 0 THEN 1 ELSE 2 * Twos[i - 1]]
  <2>1. \E f : f = [i \in 0 .. MaxABits |-> IF i = 0 THEN 1 ELSE 2 * f[i - 1]]
    BY <1>5
  <2> QED  BY <2>1 DEF Twos
<1>7. Twos[0] = 1
  BY <1>0, <1>6
<1>8. \A i \in 1 .. n : Twos[i] = 2 * Twos[i - 1]
  <2> TAKE i \in 1 .. n
  <2>1. i \in 0 .. n /\ i # 0
    BY <1>0
  <2> QED  BY <2>1, <1>6
<1> DEFINE Good == {i \in 0 .. n : Twos[i] \in Nat /\ Twos[i] >= 1}
<1>9. 0 \in Good
  BY <1>0, <1>7
<1>10. ASSUME NEW i \in 1 .. n, i - 1 \in Good PROVE i \in Good
  <2>1. Twos[i - 1] \in Nat /\ Twos[i - 1] >= 1 /\ Twos[i] = 2 * Twos[i - 1]
    BY <1>8, <1>10
  <2>2. Twos[i] \in Nat /\ Twos[i] >= 1
    BY <2>1
  <2>3. i \in 0 .. n
    BY <1>0
  <2> QED  BY <2>2, <2>3
<1>11. \A i \in 0 .. n : i \in Good
  <2> HIDE DEF Good
  <2> QED  BY <1>0, <1>9, <1>10, UpTo
<1> QED  BY <1>0, <1>7, <1>8, <1>11

\* None of them is larger than the last.
LEMMA TwosGrow == \A i \in 0 .. MaxABits : Twos[i] <= Twos[MaxABits]
<1> DEFINE n == MaxABits
           Good == {i \in 0 .. n : \A j \in 0 .. i : Twos[j] <= Twos[i]}
<1>1. n \in Nat /\ \A i \in 0 .. n : Twos[i] \in Nat
  BY TwosDouble
<1>2. 0 \in Good
  BY <1>1
<1>3. ASSUME NEW i \in 1 .. n, i - 1 \in Good PROVE i \in Good
  <2>1. Twos[i] = 2 * Twos[i - 1] /\ i - 1 \in 0 .. n /\ i \in 0 .. n
    BY <1>1, TwosDouble
  <2>2. ASSUME NEW j \in 0 .. i PROVE Twos[j] <= Twos[i]
    <3>0. Twos[i - 1] \in Nat /\ Twos[i] \in Nat
      BY <2>1, <1>1
    <3>1. CASE j = i
      BY <3>0, <3>1
    <3>2. CASE j # i
      <4>1. j \in 0 .. (i - 1) /\ j \in 0 .. n
        BY <3>2, <1>1
      <4>2. Twos[j] <= Twos[i - 1] /\ Twos[j] \in Nat
        BY <4>1, <1>1, <1>3
      <4> QED  BY <3>0, <4>2, <2>1
    <3> QED  BY <3>1, <3>2
  <2> QED  BY <2>1, <2>2
<1>4. \A i \in 0 .. n : i \in Good
  <2> HIDE DEF Good, n
  <2> QED  BY <1>1, <1>2, <1>3, UpTo
<1>5. n \in Good
  BY <1>1, <1>4
<1> QED  BY <1>5

Upto(i) == IF i = 0 THEN {} ELSE 1 .. Twos[i - 1]

\* The slices lie one after the other.
LEMMA Slices ==
  ASSUME NEW i \in 1 .. (MaxABits + 1)
  PROVE  Upto(i) = Upto(i - 1) \cup Slice(i - 1) /\ Upto(i - 1) \cap Slice(i - 1) = {}
<1>0. MaxABits \in Nat
  BY TableConstants
<1>1. CASE i = 1
  <2>1. Upto(1) = 1 .. 1 /\ Upto(0) = {} /\ Slice(0) = {1}
    BY TwosDouble DEF Upto, Slice
  <2>2. 1 .. 1 = {1}
    OBVIOUS
  <2> QED  BY <2>1, <2>2, <1>1
<1>2. CASE i # 1
  <2>1. i - 1 \in 1 .. MaxABits /\ i - 1 \in 0 .. MaxABits /\ i - 2 \in 0 .. MaxABits
        /\ (i - 1) - 1 = i - 2 /\ i # 0 /\ i - 1 # 0
    BY <1>0, <1>2
  <2>2. Upto(i) = 1 .. Twos[i - 1] /\ Upto(i - 1) = 1 .. Twos[i - 2]
        /\ Slice(i - 1) = (Twos[i - 2] + 1) .. Twos[i - 1]
    BY <2>1 DEF Upto, Slice
  <2>3. Twos[i - 1] = 2 * Twos[i - 2] /\ Twos[i - 2] \in Nat
    BY <2>1, TwosDouble
  <2> DEFINE x == Twos[i - 2]
             y == Twos[i - 1]
  <2>4. y = 2 * x /\ x \in Nat
    BY <2>3
  <2> HIDE DEF x, y
  <2>5. 1 .. y = (1 .. x) \cup ((x + 1) .. y) /\ (1 .. x) \cap ((x + 1) .. y) = {}
    BY <2>4
  <2> QED  BY <2>2, <2>5 DEF x, y
<1> QED  BY <1>1, <1>2

\* What is in use is finite.
LEMMA UsedFinite ==
  ASSUME NEW t \in Tables, NEW I
  PROVE  /\ IsFiniteSet(UsedSlots(t, I)) /\ IsFiniteSet(IndexNodes(t, I)) /\ IsFiniteSet(UsedNodes(t))
         /\ NumUseArray(t, I) \in Nat /\ NumUseHash(t, I) \in Nat
         /\ Cardinality(UsedNodes(t)) \in Nat
<1>1. Len(t.array) \in Nat /\ IsFiniteSet(Nodes(t))
  BY LenProperties, NodesShape DEF Tables
<1>2. IsFiniteSet(1 .. Len(t.array))
  BY <1>1, FS_Interval
<1>3. UsedSlots(t, I) \subseteq 1 .. Len(t.array) /\ UsedNodes(t) \subseteq Nodes(t)
      /\ IndexNodes(t, I) \subseteq Nodes(t)
  BY DEF UsedSlots, UsedNodes, IndexNodes, Nodes
<1>4. IsFiniteSet(UsedSlots(t, I)) /\ IsFiniteSet(IndexNodes(t, I)) /\ IsFiniteSet(UsedNodes(t))
  BY <1>1, <1>2, <1>3, FS_Subset
<1> QED  BY <1>4, FS_CardinalityType DEF NumUseArray, NumUseHash

\* The size of a union of disjoint sets.
LEMMA DisjointUnion ==
  ASSUME NEW S, NEW T, IsFiniteSet(S), IsFiniteSet(T), S \cap T = {}
  PROVE  Cardinality(S \cup T) = Cardinality(S) + Cardinality(T)
<1>1. Cardinality(S \cup T) = Cardinality(S) + Cardinality(T) - Cardinality(S \cap T)
  BY FS_Union
<1>2. Cardinality(S \cap T) = 0
  BY FS_EmptySet
<1>3. Cardinality(S) \in Nat /\ Cardinality(T) \in Nat
  BY FS_CardinalityType
<1> QED  BY <1>1, <1>2, <1>3

\* Keys of disjoint sets of indices are counted apart.
LEMMA CountsAdd ==
  ASSUME NEW t \in Tables, NEW k, NEW A, NEW B, A \cap B = {}
  PROVE  /\ CountKeys(t, k, A) \in Nat /\ CountKeys(t, k, B) \in Nat
         /\ CountKeys(t, k, A \cup B) = CountKeys(t, k, A) + CountKeys(t, k, B)
<1>1. /\ UsedSlots(t, A \cup B) = UsedSlots(t, A) \cup UsedSlots(t, B)
      /\ UsedSlots(t, A) \cap UsedSlots(t, B) = {}
  BY DEF UsedSlots
<1>2. /\ IndexNodes(t, A \cup B) = IndexNodes(t, A) \cup IndexNodes(t, B)
      /\ IndexNodes(t, A) \cap IndexNodes(t, B) = {}
  BY DEF IndexNodes
<1>3. NumUseArray(t, A \cup B) = NumUseArray(t, A) + NumUseArray(t, B)
  BY <1>1, UsedFinite, DisjointUnion DEF NumUseArray
<1>4. NumUseHash(t, A \cup B) = NumUseHash(t, A) + NumUseHash(t, B)
  BY <1>2, UsedFinite, DisjointUnion DEF NumUseHash
<1>5. CountInt(k, A \cup B) = CountInt(k, A) + CountInt(k, B) /\ CountInt(k, A) \in Nat /\ CountInt(k, B) \in Nat
  BY DEF CountInt
<1>6. /\ NumUseArray(t, A) \in Nat /\ NumUseArray(t, B) \in Nat
      /\ NumUseHash(t, A) \in Nat /\ NumUseHash(t, B) \in Nat
  BY UsedFinite
<1> QED  BY <1>3, <1>4, <1>5, <1>6 DEF CountKeys

\* What remains for the nodes when the indices up to n go into the array.
LEMMA LeftOverIs ==
  ASSUME NEW t \in Tables, NEW k, NEW n \in Nat
  PROVE  LeftOver(t, n) = NumUseArray(t, 1 .. Len(t.array)) + Cardinality(UsedNodes(t))
                          - (CountKeys(t, k, 1 .. n) - CountInt(k, 1 .. n))
<1> DEFINE L == 1 .. Len(t.array)
           A == UsedSlots(t, L)
           B == UsedSlots(t, 1 .. n)
           C == UsedNodes(t)
           D == IndexNodes(t, 1 .. n)
<1>1. A \cap B = B /\ C \cap D = D
  BY DEF UsedSlots, IndexNodes
<1>2. /\ IsFiniteSet(A) /\ IsFiniteSet(C) /\ Cardinality(A) \in Nat /\ Cardinality(B) \in Nat
      /\ Cardinality(C) \in Nat /\ Cardinality(D) \in Nat
  BY UsedFinite, FS_CardinalityType
<1>3. CountKeys(t, k, 1 .. n) = Cardinality(B) + Cardinality(D) + CountInt(k, 1 .. n)
      /\ CountInt(k, 1 .. n) \in Nat
  BY DEF CountKeys, CountInt, NumUseArray, NumUseHash
<1>4. NumUseArray(t, L) = Cardinality(A) /\ LeftOver(t, n) = Cardinality(A \ B) + Cardinality(C \ D)
  BY DEF NumUseArray, LeftOver
<1> HIDE DEF A, B, C, D, L
<1>5. /\ Cardinality(A \ B) = Cardinality(A) - Cardinality(B)
      /\ Cardinality(C \ D) = Cardinality(C) - Cardinality(D)
  <2>1. /\ Cardinality(A \ B) = Cardinality(A) - Cardinality(A \cap B)
        /\ Cardinality(C \ D) = Cardinality(C) - Cardinality(C \cap D)
    BY <1>2, FS_Difference
  <2> QED  BY <2>1, <1>1
<1> QED  BY <1>2, <1>3, <1>4, <1>5 DEF C, L

Sized == [a : Nat, n : Nat, na : Nat]

\* One size of the array part tried: x after the slice below Twos[i - 1].
Tried(nums, narray, i, x) ==
  LET b == x.a + nums[i - 1]
  IN IF Twos[i - 1] >= 2 * narray \/ (x.a = narray /\ i > 1) THEN x
     ELSE IF nums[i - 1] > 0 /\ 2 * b > Twos[i - 1]
     THEN [a |-> b, n |-> Twos[i - 1], na |-> b]
     ELSE [a |-> b, n |-> x.n, na |-> x.na]

\* computesizes tries them one after the other.
LEMMA SizesTried ==
  ASSUME NEW nums \in [0 .. MaxABits -> Nat], NEW narray \in Nat
  PROVE  \E at \in [0 .. (MaxABits + 1) -> Sized] :
           /\ ComputeSizes(nums, narray) = at[MaxABits + 1]
           /\ at[0] = [a |-> 0, n |-> 0, na |-> 0]
           /\ \A i \in 1 .. (MaxABits + 1) : at[i] = Tried(nums, narray, i, at[i - 1])
<1> DEFINE n == MaxABits + 1
           base == [a |-> 0, n |-> 0, na |-> 0]
           step == [i \in 1 .. n |-> [x \in Sized |-> Tried(nums, narray, i, x)]]
           at == CHOOSE at : at = [i \in 0 .. (MaxABits + 1) |->
                   IF i = 0 THEN [a |-> 0, n |-> 0, na |-> 0]
                   ELSE LET r == at[i - 1]
                            b == r.a + nums[i - 1]
                        IN IF Twos[i - 1] >= 2 * narray \/ (r.a = narray /\ i > 1) THEN r
                           ELSE IF nums[i - 1] > 0 /\ 2 * b > Twos[i - 1]
                           THEN [a |-> b, n |-> Twos[i - 1], na |-> b]
                           ELSE [a |-> b, n |-> r.n, na |-> r.na]]
           Fits(f) == f = [i \in 0 .. (MaxABits + 1) |->
                             IF i = 0 THEN [a |-> 0, n |-> 0, na |-> 0]
                             ELSE Tried(nums, narray, i, f[i - 1])]
<1>0. MaxABits \in Nat /\ n \in Nat
  BY TableConstants
<1>1. ComputeSizes(nums, narray) = at[MaxABits + 1]
  BY DEF ComputeSizes
<1>2. (\E f : Fits(f)) => Fits(at)
  BY DEF Tried
<1> HIDE DEF at
<1>3. base \in Sized
  BY DEF Sized
<1>4. ASSUME NEW i \in 1 .. n, NEW x \in Sized PROVE Tried(nums, narray, i, x) \in Sized
  <2>1. i - 1 \in 0 .. MaxABits
    BY <1>0
  <2>2. nums[i - 1] \in Nat /\ Twos[i - 1] \in Nat
    BY <2>1, TwosDouble
  <2>3. x.a \in Nat /\ x.n \in Nat /\ x.na \in Nat
    BY DEF Sized
  <2>4. x.a + nums[i - 1] \in Nat
    BY <2>2, <2>3
  <2> QED  BY <2>2, <2>3, <2>4 DEF Tried, Sized
<1>5. step \in [1 .. n -> [Sized -> Sized]]
  <2> HIDE DEF n
  <2> QED  BY <1>4
<1>6. \A i \in 1 .. n, x \in Sized : step[i][x] = Tried(nums, narray, i, x)
  OBVIOUS
<1> HIDE DEF step
<1>7. \E g : Chain(g, n, Sized, base, step)
  <2> HIDE DEF n, base
  <2> QED  BY <1>0, <1>3, <1>5, ChainExists
<1>8. PICK g : Chain(g, n, Sized, base, step)
  BY <1>7
<1>9. g \in [0 .. n -> Sized] /\ g[0] = base /\ \A i \in 1 .. n : g[i] = Tried(nums, narray, i, g[i - 1])
  <2>1. g \in [0 .. n -> Sized] /\ g[0] = base /\ \A i \in 1 .. n : g[i] = step[i][g[i - 1]]
    BY <1>8 DEF Chain
  <2>2. ASSUME NEW i \in 1 .. n PROVE g[i] = Tried(nums, narray, i, g[i - 1])
    <3>1. i - 1 \in 0 .. n
      BY <1>0
    <3>2. g[i - 1] \in Sized
      BY <3>1, <2>1
    <3> QED  BY <3>2, <2>1, <1>6
  <2> QED  BY <2>1, <2>2
<1>10. Fits(g)
  <2> DEFINE f(i) == IF i = 0 THEN [a |-> 0, n |-> 0, na |-> 0]
                     ELSE Tried(nums, narray, i, g[i - 1])
  <2>1. ASSUME NEW i \in 0 .. n PROVE g[i] = f(i)
    <3>1. CASE i = 0
      BY <3>1, <1>9
    <3>2. CASE i # 0
      <4>1. i \in 1 .. n
        BY <3>2, <1>0
      <4> QED  BY <4>1, <3>2, <1>9
    <3> QED  BY <3>1, <3>2
  <2>2. g = [i \in 0 .. n |-> g[i]]
    BY <1>9
  <2> HIDE DEF f
  <2>3. g = [i \in 0 .. n |-> f(i)]
    BY <2>1, <2>2
  <2> QED  BY <2>3 DEF f
<1>11. Fits(at)
  BY <1>2, <1>10
<1>12. at[0] = base
  <2>1. 0 \in 0 .. (MaxABits + 1)
    BY <1>0
  <2> QED  BY <2>1, <1>11
<1>13. \A i \in 1 .. n : at[i] = Tried(nums, narray, i, at[i - 1])
  <2> TAKE i \in 1 .. n
  <2>1. i \in 0 .. (MaxABits + 1) /\ i # 0
    BY <1>0
  <2> QED  BY <2>1, <1>11
<1>14. at \in [0 .. n -> Sized]
  <2> DEFINE Good == {i \in 0 .. n : at[i] \in Sized}
  <2>1. 0 \in Good
    BY <1>0, <1>3, <1>12
  <2>2. ASSUME NEW i \in 1 .. n, i - 1 \in Good PROVE i \in Good
    <3>1. at[i - 1] \in Sized /\ i \in 0 .. n
      BY <2>2, <1>0
    <3>2. at[i] \in Sized
      BY <3>1, <1>4, <1>13
    <3> QED  BY <3>1, <3>2
  <2>3. \A i \in 0 .. n : i \in Good
    <3> HIDE DEF Good, n
    <3> QED  BY <1>0, <2>1, <2>2, UpTo
  <2>4. at = [i \in 0 .. (MaxABits + 1) |-> at[i]]
    BY <1>11
  <2> QED  BY <2>3, <2>4
<1> QED  BY <1>1, <1>12, <1>13, <1>14

\* computesizes never promises the array part more keys than have an index there.
LEMMA SizesAreCounted ==
  ASSUME NEW t \in Tables, NEW k, NEW nums,
         nums = [lg \in 0 .. MaxABits |-> CountKeys(t, k, Slice(lg))],
         NEW narray \in Nat
  PROVE  /\ ComputeSizes(nums, narray) \in Sized
         /\ ComputeSizes(nums, narray).na <= CountKeys(t, k, 1 .. ComputeSizes(nums, narray).n)
         /\ ComputeSizes(nums, narray).n <= Twos[MaxABits]
<1>0. MaxABits \in Nat /\ MaxABits + 1 \in Nat
  BY TableConstants
<1>1. \A I : CountKeys(t, k, I) \in Nat
  <2> TAKE I
  <2>1. I \cap {} = {}
    OBVIOUS
  <2> QED  BY <2>1, CountsAdd
<1>2. nums \in [0 .. MaxABits -> Nat] /\ \A lg \in 0 .. MaxABits : nums[lg] = CountKeys(t, k, Slice(lg))
  BY <1>1
<1>3. PICK at \in [0 .. (MaxABits + 1) -> Sized] :
        /\ ComputeSizes(nums, narray) = at[MaxABits + 1]
        /\ at[0] = [a |-> 0, n |-> 0, na |-> 0]
        /\ \A i \in 1 .. (MaxABits + 1) : at[i] = Tried(nums, narray, i, at[i - 1])
  BY <1>2, SizesTried
<1> DEFINE n == MaxABits + 1
           Good == {i \in 0 .. n : /\ at[i].a <= CountKeys(t, k, Upto(i))
                                   /\ at[i].na <= CountKeys(t, k, 1 .. at[i].n)
                                   /\ at[i].n <= Twos[MaxABits]}
<1>4. 0 \in Good
  <2>1. at[0].a = 0 /\ at[0].na = 0 /\ 0 \in 0 .. n /\ at[0].n <= Twos[MaxABits]
    BY <1>0, <1>3, TwosDouble
  <2>2. CountKeys(t, k, Upto(0)) \in Nat /\ CountKeys(t, k, 1 .. at[0].n) \in Nat
    BY <1>1
  <2> QED  BY <2>1, <2>2
<1>5. ASSUME NEW i \in 1 .. n, i - 1 \in Good PROVE i \in Good
  <2>1. i - 1 \in 0 .. MaxABits /\ i - 1 \in 0 .. n /\ i \in 0 .. n
    BY <1>0
  <2> DEFINE x == at[i - 1]
             c == nums[i - 1]
             b == x.a + c
             low == CountKeys(t, k, Upto(i - 1))
             high == CountKeys(t, k, Upto(i))
  <2>2. x \in Sized /\ x.a \in Nat /\ x.n \in Nat /\ x.na \in Nat
    BY <2>1 DEF Sized
  <2>3. high = low + c /\ low \in Nat /\ high \in Nat /\ c \in Nat
    <3>1. c = CountKeys(t, k, Slice(i - 1))
      BY <2>1, <1>2
    <3>2. Upto(i) = Upto(i - 1) \cup Slice(i - 1) /\ Upto(i - 1) \cap Slice(i - 1) = {}
      BY Slices
    <3>3. CountKeys(t, k, Upto(i - 1) \cup Slice(i - 1)) = low + CountKeys(t, k, Slice(i - 1))
      BY <3>2, CountsAdd
    <3> QED  BY <3>1, <3>2, <3>3, <1>1
  <2>4. x.a <= low /\ x.na <= CountKeys(t, k, 1 .. x.n) /\ x.n <= Twos[MaxABits]
    BY <1>5
  <2>4a. Twos[i - 1] <= Twos[MaxABits]
    BY <2>1, TwosGrow
  <2>5. Upto(i) = 1 .. Twos[i - 1]
    BY DEF Upto
  <2>6. at[i] = Tried(nums, narray, i, x)
    BY <1>3
  <2>7. \/ at[i] = x
        \/ at[i] = [a |-> b, n |-> Twos[i - 1], na |-> b]
        \/ at[i] = [a |-> b, n |-> x.n, na |-> x.na]
    BY <2>6 DEF Tried
  <2> HIDE DEF x, c, low, high
  <2>8. b \in Nat /\ b <= high /\ x.a <= high
    BY <2>2, <2>3, <2>4
  <2> HIDE DEF b
  <2>9. at[i].a <= high /\ at[i].na <= CountKeys(t, k, 1 .. at[i].n) /\ at[i].n <= Twos[MaxABits]
    <3>1. CASE at[i] = x
      BY <3>1, <2>4, <2>8
    <3>2. CASE at[i] = [a |-> b, n |-> Twos[i - 1], na |-> b]
      <4>1. at[i].a = b /\ at[i].n = Twos[i - 1] /\ at[i].na = b
        BY <3>2
      <4>2. CountKeys(t, k, 1 .. at[i].n) = high
        BY <4>1, <2>5 DEF high
      <4> QED  BY <4>1, <4>2, <2>4a, <2>8
    <3>3. CASE at[i] = [a |-> b, n |-> x.n, na |-> x.na]
      <4>1. at[i].a = b /\ at[i].n = x.n /\ at[i].na = x.na
        BY <3>3
      <4> QED  BY <4>1, <2>4, <2>8
    <3> QED  BY <3>1, <3>2, <3>3, <2>7
  <2> QED  BY <2>1, <2>9 DEF high
<1>6. \A i \in 0 .. n : i \in Good
  <2> HIDE DEF Good, n
  <2>1. n \in Nat
    BY <1>0 DEF n
  <2> QED  BY <2>1, <1>4, <1>5, UpTo
<1>7. n \in Good /\ n \in 0 .. n
  BY <1>0, <1>6
<1> QED  BY <1>3, <1>7

-----------------------------------------------------------------------------
(* Rehashes, stores and constructors.                                      *)

\* u holds all that t holds.
Holds(t, u) ==
  /\ WellFormed(u) /\ ~u.stuck
  /\ \A k \in Storable, v \in Nat : Gives(t, k, v) => Gives(u, k, v)

\* A table's own nodes suffice for its keys.
LEMMA OccupiedFits ==
  ASSUME NEW t, WellFormed(t)
  PROVE  Cardinality(Occupied(t)) <= Capacity(t) /\ Capacity(t) \in Nat
<1>1. t \in Tables
  BY DEF WellFormed, Chained
<1>2. IsFiniteSet(Nodes(t)) /\ Cardinality(Nodes(t)) = SizeNode(t) /\ SizeNode(t) \in Nat
      /\ Nodes(t) = 0 .. (SizeNode(t) - 1)
  BY <1>1, NodesShape
<1>3. CASE t.dummy
  <2>1. SizeNode(t) = 1 /\ t.node[0].key = NoKey
    BY <1>3 DEF WellFormed, DummyEmpty
  <2>2. Occupied(t) = {}
    BY <2>1, <1>2 DEF Occupied
  <2> QED  BY <2>2, <1>3, FS_EmptySet DEF Capacity
<1>4. CASE ~t.dummy
  <2>1. Occupied(t) \subseteq Nodes(t)
    BY DEF Occupied
  <2>2. Cardinality(Occupied(t)) <= Cardinality(Nodes(t))
    BY <2>1, <1>2, FS_Subset
  <2> QED  BY <2>2, <1>2, <1>4 DEF Capacity
<1> QED  BY <1>3, <1>4

\* A rehash loses nothing and makes room for the key that called for it.
LEMMA RehashStores ==
  ASSUME NEW t, WellFormed(t), ~t.stuck, NEW k \in Storable
  PROVE  /\ Holds(t, Rehash(t, k)) /\ HasPlace(Rehash(t, k), k)
         /\ Len(Rehash(t, k).array) <= Twos[MaxABits]
<1> DEFINE nums == [lg \in 0 .. MaxABits |-> CountKeys(t, k, Slice(lg))]
           narray == CountKeys(t, k, 1 .. Twos[MaxABits])
           sizes == ComputeSizes(nums, narray)
           U == NumUseArray(t, 1 .. Len(t.array)) + Cardinality(UsedNodes(t))
           n == sizes.n
           na == sizes.na
           nh == (U + 1) - na
           ck == CountKeys(t, k, 1 .. n)
           ci == CountInt(k, 1 .. n)
           u == Resize(t, n, nh)
<1>1. t \in Tables
  BY DEF WellFormed, Chained
<1>2. Rehash(t, k) = u
  BY DEF Rehash
<1>3. U \in Nat
  BY <1>1, UsedFinite
<1>4. narray \in Nat
  <2>1. (1 .. Twos[MaxABits]) \cap {} = {}
    OBVIOUS
  <2> QED  BY <1>1, <2>1, CountsAdd
<1> HIDE DEF narray, U
<1>5. sizes \in Sized /\ na <= ck /\ n <= Twos[MaxABits]
  <2> HIDE DEF nums
  <2>1. nums = [lg \in 0 .. MaxABits |-> CountKeys(t, k, Slice(lg))]
    BY DEF nums
  <2> QED  BY <1>1, <1>4, <2>1, SizesAreCounted
<1> HIDE DEF sizes
<1>6. n \in Nat /\ na \in Nat
  BY <1>5 DEF Sized
<1>7. LeftOver(t, n) = U - (ck - ci) /\ LeftOver(t, n) \in Nat
  <2> HIDE DEF n
  <2>1. LeftOver(t, n) = U - (ck - ci)
    <3>1. \A m \in Nat :
            LeftOver(t, m) = NumUseArray(t, 1 .. Len(t.array)) + Cardinality(UsedNodes(t))
                             - (CountKeys(t, k, 1 .. m) - CountInt(k, 1 .. m))
      BY <1>1, LeftOverIs
    <3>2. LeftOver(t, n) = NumUseArray(t, 1 .. Len(t.array)) + Cardinality(UsedNodes(t)) - (ck - ci)
      BY <3>1, <1>6
    <3>3. ck \in Nat /\ ci \in Nat
      <4>1. (1 .. n) \cap {} = {}
        OBVIOUS
      <4> QED  BY <1>1, <4>1, CountsAdd DEF CountInt
    <3>4. NumUseArray(t, 1 .. Len(t.array)) \in Nat /\ Cardinality(UsedNodes(t)) \in Nat
      BY <1>1, UsedFinite
    <3> HIDE DEF ck, ci
    <3> QED  BY <3>2, <3>3, <3>4 DEF U
  <2>2. /\ IsFiniteSet(UsedSlots(t, 1 .. Len(t.array))) /\ IsFiniteSet(UsedNodes(t))
    BY <1>1, UsedFinite
  <2>3. /\ IsFiniteSet(UsedSlots(t, 1 .. Len(t.array)) \ UsedSlots(t, 1 .. n))
        /\ IsFiniteSet(UsedNodes(t) \ IndexNodes(t, 1 .. n))
    BY <2>2, FS_Difference
  <2>4. LeftOver(t, n) \in Nat
    BY <2>3, FS_CardinalityType DEF LeftOver
  <2> QED  BY <2>1, <2>4
<1>8. ck \in Nat /\ (ci = 0 \/ ci = 1)
  <2>1. (1 .. n) \cap {} = {}
    OBVIOUS
  <2>2. ck \in Nat
    BY <1>1, <2>1, CountsAdd
  <2> QED  BY <2>2 DEF CountInt
<1>8a. ci = 1 => k.kind = "int" /\ k.n \in 1 .. n
  BY <1>6 DEF CountInt, ArrayIndex
<1> HIDE DEF n, na, ck, ci
<1>9. nh \in Nat /\ LeftOver(t, n) <= nh /\ (ci = 0 => LeftOver(t, n) < nh)
  BY <1>3, <1>5, <1>6, <1>7, <1>8
<1> HIDE DEF nh
<1>10. Resized(t, u, n, nh)
  BY <1>6, <1>9, ResizeStores
<1> HIDE DEF u
<1>11. WellFormed(u) /\ Len(u.array) = n /\ nh <= Capacity(u)
       /\ Cardinality(Occupied(u)) <= LeftOver(t, n)
  BY <1>10 DEF Resized
<1>12. Holds(t, u)
  BY <1>10 DEF Resized, Holds
<1>13. HasPlace(u, k)
  <2>1. CASE ci = 1
    <3>1. InArray(u, k)
      BY <2>1, <1>8a, <1>11 DEF InArray
    <3> QED  BY <3>1 DEF HasPlace
  <2>2. CASE ci = 0
    <3>1. Cardinality(Occupied(u)) \in Nat /\ Capacity(u) \in Nat
      BY <1>11, OccupiedFinite, OccupiedFits
    <3>2. Cardinality(Occupied(u)) < Capacity(u)
      BY <3>1, <2>2, <1>7, <1>9, <1>11
    <3> QED  BY <3>2, <1>11, RoomIsFound
  <2> QED  BY <2>1, <2>2, <1>8
<1>14. Len(u.array) <= Twos[MaxABits]
  BY <1>5, <1>11
<1> QED  BY <1>2, <1>12, <1>13, <1>14

\* The array part is no larger than MAXASIZE.
Sizeable(t) == Len(t.array) <= Twos[MaxABits]

\* u is t with v stored under k.
Updated(t, u, k, v) ==
  /\ WellFormed(u) /\ ~u.stuck /\ Gives(u, k, v)
  /\ Sizeable(t) => Sizeable(u)
  /\ \A j \in Storable, w \in Nat : j # k /\ Gives(t, j, w) => Gives(u, j, w)

\* luaH_set and the store change the value of the key and of no other.
LEMMA PutStores ==
  ASSUME NEW t, WellFormed(t), ~t.stuck, NEW key, Normal(key) \in Storable, NEW v \in Nat
  PROVE  Updated(t, Put(t, key, v), Normal(key), v)
<1> DEFINE k == Normal(key)
           r == IF HasPlace(t, k) THEN t ELSE Rehash(t, k)
<1>1. Normal(k) = k
  BY NormalKeys
<1>2. Put(t, key, v) = Place(r, key, v)
  BY DEF Put
<1>3. Place(r, key, v) = Place(r, k, v)
  <2> HIDE DEF r
  <2> QED  BY <1>1 DEF Place
<1> HIDE DEF k
<1>4. Holds(t, r) /\ HasPlace(r, k)
  <2>0. k \in Storable
    BY DEF k
  <2>1. CASE HasPlace(t, k)
    BY <2>1 DEF Holds
  <2>2. CASE ~HasPlace(t, k)
    BY <2>0, <2>2, RehashStores
  <2> QED  BY <2>1, <2>2
<1> HIDE DEF r
<1>5. Stores(r, Place(r, k, v), k, v)
  <2>1. k \in Storable
    BY DEF k
  <2> QED  BY <2>1, <1>4, PlaceStores DEF Holds
<1>5a. Sizeable(t) => Sizeable(Place(r, k, v))
  <2>1. Len(Place(r, k, v).array) = Len(r.array)
    BY <1>5 DEF Stores, SameSizes
  <2>2. Sizeable(t) => Sizeable(r)
    <3>1. CASE HasPlace(t, k)
      BY <3>1 DEF r
    <3>2. CASE ~HasPlace(t, k)
      <4>1. k \in Storable
        BY DEF k
      <4> QED  BY <3>2, <4>1, RehashStores DEF r, Sizeable
    <3> QED  BY <3>1, <3>2
  <2> QED  BY <2>1, <2>2 DEF Sizeable
<1>6. Updated(t, Place(r, k, v), k, v)
  <2>1. WellFormed(Place(r, k, v)) /\ ~Place(r, k, v).stuck /\ Gives(Place(r, k, v), k, v)
    BY <1>4, <1>5 DEF Stores, Holds
  <2>2. \A j \in Storable, w \in Nat : j # k /\ Gives(t, j, w) => Gives(Place(r, k, v), j, w)
    BY <1>4, <1>5 DEF Stores, Holds
  <2> QED  BY <2>1, <2>2, <1>5a DEF Updated
<1> QED  BY <1>2, <1>3, <1>6 DEF k

\* luaH_resizearray, when the array grows, loses nothing.
LEMMA GrowHolds ==
  ASSUME NEW t, WellFormed(t), ~t.stuck, NEW n \in Nat, n > Len(t.array)
  PROVE  Holds(t, ResizeArray(t, n)) /\ Len(ResizeArray(t, n).array) = n
<1> DEFINE nh == IF t.dummy THEN 0 ELSE SizeNode(t)
<1>1. t \in Tables
  BY DEF WellFormed, Chained
<1>2. /\ IsFiniteSet(Nodes(t)) /\ Cardinality(Nodes(t)) = SizeNode(t) /\ SizeNode(t) \in Nat
      /\ Nodes(t) = 0 .. (SizeNode(t) - 1) /\ Len(t.array) \in Nat
  BY <1>1, NodesShape, LenProperties DEF Tables
<1>3. UsedSlots(t, 1 .. Len(t.array)) \ UsedSlots(t, 1 .. n) = {}
  <2>1. 1 .. Len(t.array) \subseteq 1 .. n
    BY <1>2
  <2> QED  BY <2>1 DEF UsedSlots
<1> DEFINE S == UsedNodes(t) \ IndexNodes(t, 1 .. n)
<1>4. S \subseteq Occupied(t)
  <2>1. \A i \in Nodes(t) : t.node[i].val # Nil => t.node[i].key # NoKey
    BY DEF WellFormed, FreeApart
  <2> QED  BY <2>1 DEF UsedNodes, Occupied, Nodes
<1>5. Cardinality(S) <= Cardinality(Occupied(t)) /\ Cardinality(S) \in Nat
      /\ Cardinality(Occupied(t)) \in Nat
  <2>1. IsFiniteSet(Occupied(t)) /\ Cardinality(Occupied(t)) \in Nat
    BY OccupiedFinite
  <2>2. Cardinality(S) <= Cardinality(Occupied(t)) /\ IsFiniteSet(S)
    BY <1>4, <2>1, FS_Subset
  <2> HIDE DEF S
  <2> QED  BY <2>1, <2>2, FS_CardinalityType
<1>6. LeftOver(t, n) = Cardinality(S)
  <2>1. LeftOver(t, n) = Cardinality({}) + Cardinality(S)
    BY <1>3 DEF LeftOver
  <2> HIDE DEF S
  <2> QED  BY <2>1, <1>5, FS_EmptySet
<1>7. nh \in Nat /\ nh = Capacity(t)
  BY <1>2 DEF Capacity
<1>8. Cardinality(Occupied(t)) <= Capacity(t)
  BY OccupiedFits
<1> HIDE DEF S, nh
<1>9. LeftOver(t, n) <= nh
  BY <1>5, <1>6, <1>7, <1>8
<1>10. Resized(t, Resize(t, n, nh), n, nh)
  BY <1>7, <1>9, ResizeStores
<1>11. ResizeArray(t, n) = Resize(t, n, nh)
  BY DEF ResizeArray, nh
<1> QED  BY <1>10, <1>11 DEF Resized, Holds

\* A new table of any size is empty.
LEMMA ResizeNew ==
  ASSUME NEW na \in Nat, NEW nh \in Nat
  PROVE  /\ Holds(New, Resize(New, na, nh)) /\ Len(Resize(New, na, nh).array) = na
         /\ \A k \in Storable : Gives(Resize(New, na, nh), k, Nil)
<1>1. LeftOver(New, na) = 0
  <2>1. Len(New.array) = 0 /\ \A i \in Nodes(New) : New.node[i].val = Nil
    BY NewIsEmpty
  <2>2. UsedSlots(New, 1 .. Len(New.array)) \ UsedSlots(New, 1 .. na) = {}
    BY <2>1 DEF UsedSlots
  <2>3. UsedNodes(New) \ IndexNodes(New, 1 .. na) = {}
    BY <2>1 DEF UsedNodes, Nodes
  <2>4. LeftOver(New, na) = Cardinality({}) + Cardinality({})
    BY <2>2, <2>3 DEF LeftOver
  <2> QED  BY <2>4, FS_EmptySet
<1>2. Resized(New, Resize(New, na, nh), na, nh)
  BY <1>1, NewIsEmpty, ResizeStores
<1>3. \A k \in Storable : Gives(New, k, Nil)
  BY NewIsEmpty
<1>4. Nil \in Nat
  BY DEF Nil
<1> QED  BY <1>2, <1>3, <1>4 DEF Resized, Holds

\* u is t with the items stored at the indices from 1.
Listed(t, u, items) ==
  /\ WellFormed(u) /\ ~u.stuck
  /\ Sizeable(t) /\ Len(items) <= Twos[MaxABits] => Sizeable(u)
  /\ \A i \in 1 .. Len(items) : Gives(u, Index(i), items[i])
  /\ \A k \in Storable, w \in Nat :
       Gives(t, k, w) /\ ~(k.kind = "int" /\ k.n \in 1 .. Len(items)) => Gives(u, k, w)

Backwards(items) ==
  [i \in 1 .. Len(items) |-> [key |-> Index(Len(items) + 1 - i), val |-> items[Len(items) + 1 - i]]]
Roomy(t, n) == IF n > Len(t.array) THEN ResizeArray(t, n) ELSE t

\* The items of a constructor all go into the array part.
LEMMA ListStores ==
  ASSUME NEW t, WellFormed(t), ~t.stuck, NEW items \in Seq(Nat)
  PROVE  Listed(t, PlaceAll(Roomy(t, Len(items)), Backwards(items), 1 .. Len(items)), items)
<1> DEFINE n == Len(items)
           r == Roomy(t, n)
           E == Backwards(items)
           I == 1 .. n
           u == PlaceAll(r, E, I)
<1>1. t \in Tables
  BY DEF WellFormed, Chained
<1>2. n \in Nat /\ Len(t.array) \in Nat /\ \A i \in 1 .. n : items[i] \in Nat
  <2>1. t.array \in Seq(Nat)
    BY <1>1 DEF Tables
  <2> QED  BY <2>1, LenProperties, ElementOfSeq
<1>3. /\ Len(E) = n
      /\ \A i \in I : E[i].key = Index(n + 1 - i) /\ E[i].val = items[n + 1 - i]
                      /\ n + 1 - i \in 1 .. n
  <2> DEFINE e(i) == [key |-> Index(n + 1 - i), val |-> items[n + 1 - i]]
             S == [key : Storable, val : Nat]
  <2>1. E = [i \in 1 .. n |-> e(i)]
    BY DEF Backwards
  <2> HIDE DEF n, E
  <2>2. \A i \in 1 .. n : n + 1 - i \in 1 .. n /\ n + 1 - i \in Int
    BY <1>2
  <2>3. \A i \in 1 .. n : e(i) \in S
    BY <1>2, <2>2, NormalKeys
  <2>4. \A i \in 1 .. n : E[i] = e(i)
    <3> HIDE DEF e
    <3> QED  BY <2>1
  <2>5. E \in [1 .. n -> S]
    <3> HIDE DEF e, S
    <3> QED  BY <2>1, <2>3
  <2>6. E \in Seq(S)
    <3> HIDE DEF S
    <3> QED  BY <1>2, <2>5, SeqDef
  <2>7. Len(E) = n
    <3> HIDE DEF S
    <3> DEFINE m == Len(E)
    <3>1. m \in Nat /\ DOMAIN E = 1 .. m
      BY <2>6, LenProperties
    <3>2. m \in Nat /\ 1 .. m = 1 .. n
      BY <3>1, <2>5
    <3> HIDE DEF m
    <3>3. (m \in 1 .. n \/ m = 0) /\ (n \in 1 .. m \/ n = 0)
      BY <3>2, <1>2
    <3>4. m = n
      BY <3>2, <3>3, <1>2
    <3> QED  BY <3>4 DEF m
  <2> QED  BY <2>2, <2>4, <2>7
<1>4. /\ Holds(t, r) /\ n <= Len(r.array) /\ Len(r.array) \in Nat
      /\ Len(r.array) = n \/ r = t
  <2>1. CASE n > Len(t.array)
    <3>1. r = ResizeArray(t, n)
      BY <2>1 DEF Roomy
    <3> HIDE DEF r, n
    <3> QED  BY <2>1, <3>1, <1>2, GrowHolds
  <2>2. CASE ~(n > Len(t.array))
    <3>1. r = t
      BY <2>2 DEF Roomy
    <3> QED  BY <3>1, <2>2, <1>2 DEF Holds
  <2> QED  BY <2>1, <2>2
<1> HIDE DEF n, r, E
<1>5. \A i \in 1 .. n : i \in Int /\ InArray(r, Index(i)) /\ Index(i) \in Storable
  <2> TAKE i \in 1 .. n
  <2>1. i \in Int /\ i \in 1 .. Len(r.array)
    BY <1>2, <1>4
  <2>2. Index(i) \in Storable /\ Index(i).kind = "int" /\ Index(i).n = i
    BY <2>1, NormalKeys
  <2> QED  BY <2>1, <2>2 DEF InArray
<1>6. Hashed(r, E, I) = {}
  BY <1>3, <1>5 DEF Hashed
<1>7. Consistent(E, I)
  <2>1. \A i \in I : E[i].key \in Storable /\ E[i].val \in Nat
    BY <1>2, <1>3, <1>5
  <2>2. ASSUME NEW i \in I, NEW j \in I, E[i].key = E[j].key PROVE E[i].val = E[j].val
    <3> DEFINE x == n + 1 - i
               y == n + 1 - j
    <3>1. /\ E[i].key = Index(x) /\ E[i].val = items[x]
          /\ E[j].key = Index(y) /\ E[j].val = items[y]
      BY <1>3
    <3> HIDE DEF x, y
    <3>2. Index(x) = Index(y)
      BY <2>2, <3>1
    <3>3. x = y
      BY <3>2 DEF Index
    <3> QED  BY <3>1, <3>3
  <2> QED  BY <2>1, <2>2 DEF Consistent
<1>8. Cardinality(Occupied(r)) + Cardinality(Hashed(r, E, I)) <= Capacity(r)
  <2>1. WellFormed(r)
    BY <1>4 DEF Holds
  <2>2. Cardinality(Occupied(r)) <= Capacity(r) /\ Cardinality(Occupied(r)) \in Nat
    BY <2>1, OccupiedFits, OccupiedFinite
  <2>3. Cardinality(Hashed(r, E, I)) = 0
    BY <1>6, FS_EmptySet
  <2>4. Capacity(r) \in Nat
    BY <2>1, OccupiedFits
  <2> HIDE DEF I
  <2> QED  BY <2>2, <2>3, <2>4
<1>9. Placed(r, u, E, I)
  <2>1. WellFormed(r) /\ ~r.stuck /\ Len(E) \in Nat /\ I \subseteq 1 .. Len(E)
    BY <1>2, <1>3, <1>4 DEF Holds
  <2> HIDE DEF I
  <2> QED  BY <2>1, <1>7, <1>8, PlaceAllStores
<1> HIDE DEF u
<1>10. ASSUME NEW j \in 1 .. n PROVE Gives(u, Index(j), items[j])
  <2> DEFINE i == n + 1 - j
  <2>1. i \in I /\ n + 1 - i = j
    BY <1>2
  <2> HIDE DEF i
  <2>2. E[i].key = Index(j) /\ E[i].val = items[j]
    BY <2>1, <1>3
  <2>3. Gives(u, E[i].key, E[i].val)
    BY <2>1, <1>9 DEF Placed
  <2> QED  BY <2>2, <2>3
<1>11. ASSUME NEW k \in Storable, NEW w \in Nat, Gives(t, k, w),
              ~(k.kind = "int" /\ k.n \in 1 .. n)
       PROVE  Gives(u, k, w)
  <2>1. Gives(r, k, w)
    BY <1>4, <1>11 DEF Holds
  <2>2. \A i \in I : E[i].key # k
    <3> TAKE i \in I
    <3>1. E[i].key = Index(n + 1 - i) /\ n + 1 - i \in 1 .. n
      BY <1>3
    <3>2. Index(n + 1 - i).kind = "int" /\ Index(n + 1 - i).n = n + 1 - i
      BY DEF Index
    <3> QED  BY <3>1, <3>2, <1>11
  <2> QED  BY <2>1, <2>2, <1>9 DEF Placed
<1>12. WellFormed(u) /\ ~u.stuck /\ Len(u.array) = Len(r.array)
  BY <1>9 DEF Placed, SameSizes
<1>13. Sizeable(t) /\ n <= Twos[MaxABits] => Sizeable(u)
  BY <1>4, <1>12 DEF Sizeable
<1> QED  BY <1>10, <1>11, <1>12, <1>13 DEF Listed, u, r, E, n

-----------------------------------------------------------------------------
(* The invariant.                                                          *)

\* What was stored last under a key.
Stored(c, k) == IF k \in Fields THEN c[k] ELSE Nil

\* The table is well formed, every field has the value that was stored last, and no other
\* key has one.
TableInv ==
  /\ contents \in [Fields -> Values \cup {Nil}]
  /\ WellFormed(table) /\ ~table.stuck /\ Sizeable(table)
  /\ \A k \in Storable : Gives(table, k, Stored(contents, k))

\* What is stored is a number.
LEMMA StoredIsNat ==
  ASSUME TableInv, NEW k \in Storable PROVE Stored(contents, k) \in Nat
<1>1. Values \cup {Nil} \subseteq Nat
  BY TableConstants DEF Nil
<1>2. contents \in [Fields -> Values \cup {Nil}]
  BY DEF TableInv
<1>3. k \in Fields => contents[k] \in Values \cup {Nil}
  BY <1>2
<1> QED  BY <1>1, <1>3 DEF Stored

\* Fields can be stored, and so can values.
LEMMA FieldsStorable ==
  /\ Fields \subseteq Storable /\ Values \cup {Nil} \subseteq Nat
  /\ \A k \in Keys : Normal(k) \in Fields
<1>1. MaxItems \in Nat /\ Values \subseteq Nat \ {Nil}
  BY TableConstants
<1>2. \A n \in 1 .. MaxItems : Index(n) \in Storable
  BY <1>1, NormalKeys
<1>3. \A k \in Keys : Normal(k) \in Storable
  BY NormalKeys
<1> QED  BY <1>1, <1>2, <1>3 DEF Fields, Nil

\* A new table is empty.
LEMMA TableInitInv ==
  ASSUME TableInit PROVE TableInv
<1>1. PICK na \in 0 .. MaxItems, nh \in Rooms : table = Resize(New, na, nh)
  BY DEF TableInit
<1>2. na \in Nat /\ nh \in Nat
  BY TableConstants
<1>3. Holds(New, table) /\ Len(table.array) = na /\ \A k \in Storable : Gives(table, k, Nil)
  BY <1>1, <1>2, ResizeNew
<1>3a. Sizeable(table)
  BY <1>1, <1>2, <1>3, ItemsFit, TableConstants, TwosDouble DEF Sizeable
<1>4. contents = [k \in Fields |-> Nil]
  BY DEF TableInit
<1>5. \A k \in Storable : Stored(contents, k) = Nil
  BY <1>4 DEF Stored
<1> QED  BY <1>3, <1>3a, <1>4, <1>5 DEF TableInv, Holds

\* A script's store.
LEMMA AssignInv ==
  ASSUME TableInv, NEW k \in Keys, NEW v \in Values \cup {Nil}, Assign(k, v)
  PROVE  TableInv'
<1> DEFINE c == Normal(k)
<1>1. c \in Fields /\ c \in Storable /\ v \in Nat
  BY FieldsStorable
<1>2. table' = Put(table, k, v) /\ contents' = [contents EXCEPT ![c] = v]
  BY DEF Assign
<1>3. Updated(table, table', c, v)
  BY <1>1, <1>2, PutStores DEF TableInv
<1> HIDE DEF c
<1>4. contents' \in [Fields -> Values \cup {Nil}]
  BY <1>1, <1>2 DEF TableInv
<1>5. ASSUME NEW j \in Storable PROVE Gives(table', j, Stored(contents', j))
  <2>1. Stored(contents', j) = IF j = c THEN v ELSE Stored(contents, j)
    BY <1>1, <1>2 DEF TableInv, Stored
  <2>2. Stored(contents, j) \in Nat /\ Gives(table, j, Stored(contents, j))
    BY StoredIsNat DEF TableInv
  <2>3. CASE j = c
    BY <2>1, <2>3, <1>3 DEF Updated
  <2>4. CASE j # c
    BY <2>1, <2>2, <2>4, <1>3 DEF Updated
  <2> QED  BY <2>3, <2>4
<1> QED  BY <1>3, <1>4, <1>5 DEF TableInv, Updated

\* The items of a constructor.
LEMMA SetListInv ==
  ASSUME TableInv, NEW n \in 0 .. MaxItems, NEW items \in [1 .. n -> Values \cup {Nil}],
         SetList(items)
  PROVE  TableInv'
<1>1. n \in Nat
  BY TableConstants
<1>2. items \in [1 .. n -> Nat]
  BY FieldsStorable
<1>3. items \in Seq(Nat)
  BY <1>1, <1>2, SeqDef
<1>4. table' = PlaceAll(Roomy(table, Len(items)), Backwards(items), 1 .. Len(items))
  BY DEF SetList, Roomy, Backwards
<1>5. Listed(table, table', items)
  BY <1>3, <1>4, ListStores DEF TableInv
<1>6. contents' = [k \in Fields |->
                     IF k.kind = "int" /\ k.n \in 1 .. Len(items) THEN items[k.n] ELSE contents[k]]
  BY DEF SetList
<1>7. DOMAIN items = 1 .. Len(items) /\ DOMAIN items = 1 .. n
  BY <1>2, <1>3, LenProperties
<1>7a. Sizeable(table')
  <2>1. Len(items) = n
    <3> DEFINE m == Len(items)
    <3>1. m \in Nat /\ 1 .. m = 1 .. n
      BY <1>3, <1>7, LenProperties
    <3> HIDE DEF m
    <3>2. (m \in 1 .. n \/ m = 0) /\ (n \in 1 .. m \/ n = 0)
      BY <3>1, <1>1
    <3>3. m = n
      BY <3>1, <3>2, <1>1
    <3> QED  BY <3>3 DEF m
  <2>2. n <= Twos[MaxABits]
    BY <1>1, ItemsFit, TableConstants, TwosDouble
  <2> QED  BY <2>1, <2>2, <1>5 DEF TableInv, Listed
<1>8. contents' \in [Fields -> Values \cup {Nil}]
  <2>1. \A j \in 1 .. Len(items) : items[j] \in Values \cup {Nil}
    BY <1>7
  <2>2. \A k \in Fields : contents[k] \in Values \cup {Nil}
    BY DEF TableInv
  <2> QED  BY <2>1, <2>2, <1>6
<1>9. ASSUME NEW k \in Storable PROVE Gives(table', k, Stored(contents', k))
  <2>1. Stored(contents, k) \in Nat /\ Gives(table, k, Stored(contents, k))
    BY StoredIsNat DEF TableInv
  <2>2. CASE k.kind = "int" /\ k.n \in 1 .. Len(items)
    <3>0. k = Index(k.n) /\ k.n \in 1 .. MaxItems
      <4>1. 1 .. Len(items) = 1 .. n /\ MaxItems \in Nat
        BY <1>7, TableConstants
      <4>2. k.n \in 1 .. n
        BY <4>1, <2>2
      <4> QED  BY <4>1, <4>2, <2>2, NormalKeys
    <3>0a. k \in Fields
      BY <3>0 DEF Fields
    <3>1. k = Index(k.n) /\ Stored(contents', k) = items[k.n]
      BY <3>0, <3>0a, <2>2, <1>6 DEF Stored
    <3>2. Gives(table', Index(k.n), items[k.n])
      BY <2>2, <1>5 DEF Listed
    <3> QED  BY <3>1, <3>2
  <2>3. CASE ~(k.kind = "int" /\ k.n \in 1 .. Len(items))
    <3>1. Stored(contents', k) = Stored(contents, k)
      BY <2>3, <1>6 DEF Stored
    <3> QED  BY <3>1, <2>1, <2>3, <1>5 DEF Listed
  <2> QED  BY <2>2, <2>3
<1> QED  BY <1>5, <1>7a, <1>8, <1>9 DEF TableInv, Listed

\* The nodes whose key the collector clears keep their place.
LEMMA CollectKeeps ==
  ASSUME TableInv, NEW i \in Removable, Collect({i})
  PROVE  /\ SameChains(table, table') /\ table'.array = table.array
         /\ table'.stuck = table.stuck
         /\ \A j \in Nodes(table) : /\ table'.node[j].val = table.node[j].val
                                    /\ table'.node[j].dead = (table.node[j].dead \/ j \in {i})
<1> DEFINE g == [j \in DOMAIN table.node |->
                   [table.node[j] EXCEPT !.dead = table.node[j].dead \/ j \in {i}]]
<1>1. table \in Tables /\ WellFormed(table)
  BY DEF TableInv, WellFormed, Chained
<1>2. table' = [table EXCEPT !.node = g]
  BY DEF Collect
<1>3. ASSUME NEW j \in Nodes(table)
      PROVE  /\ g[j] \in NodeSet
             /\ g[j].key = table.node[j].key /\ g[j].next = table.node[j].next
             /\ g[j].val = table.node[j].val
             /\ g[j].dead = (table.node[j].dead \/ j \in {i})
  <2>1. table.node[j] \in NodeSet
    BY <1>1, NodeTypes
  <2>2. g[j] = [table.node[j] EXCEPT !.dead = table.node[j].dead \/ j \in {i}]
    BY DEF Nodes
  <2> QED  BY <2>1, <2>2 DEF NodeSet
<1>4. g \in [Nodes(table) -> NodeSet]
  <2>1. DOMAIN g = Nodes(table) /\ g = [j \in Nodes(table) |-> g[j]]
    BY DEF Nodes
  <2> HIDE DEF g
  <2> QED  BY <2>1, <1>3
<1> HIDE DEF g
<1>5. table.lastfree \in Nat
  BY <1>1 DEF Tables
<1>6. Renodes(table, table', g, table.lastfree)
  BY <1>1, <1>2 DEF Renodes, Tables
<1>7. /\ table' \in Tables /\ table'.node = g /\ Nodes(table') = Nodes(table)
      /\ SizeNode(table') = SizeNode(table) /\ table'.array = table.array
      /\ table'.dummy = table.dummy /\ table'.stuck = table.stuck
      /\ table'.lastfree = table.lastfree
  BY <1>1, <1>4, <1>5, <1>6, WithNodes
<1>8. i \in Nodes(table) /\ Collectable(table.node[i].key) /\ table.node[i].val = Nil
  BY DEF Removable, Nodes
<1>9. table.node[i].key # NoKey
  BY <1>8 DEF Collectable, NoKey
<1>10. ASSUME NEW j \in Nodes(table)
       PROVE  /\ table'.node[j].key = table.node[j].key /\ table'.node[j].next = table.node[j].next
              /\ table.node[j].dead => table'.node[j].dead
              /\ table'.node[j].dead => table'.node[j].val = Nil
              /\ table'.node[j].key = NoKey => table'.node[j].val = Nil /\ ~table'.node[j].dead
  <2>1. /\ table'.node[j].key = table.node[j].key /\ table'.node[j].next = table.node[j].next
        /\ table'.node[j].val = table.node[j].val
        /\ table'.node[j].dead = (table.node[j].dead \/ j \in {i})
    BY <1>3, <1>7
  <2>2. table.node[j].dead => table.node[j].val = Nil
    BY <1>1 DEF WellFormed, DeadEmpty
  <2>3. table.node[j].key = NoKey => table.node[j].val = Nil /\ ~table.node[j].dead
    BY <1>1 DEF WellFormed, FreeApart
  <2> QED  BY <2>1, <2>2, <2>3, <1>8, <1>9
<1>11. SameSizes(table, table')
  BY <1>7 DEF SameSizes
<1>12. SameChains(table, table')
  BY <1>7, <1>10, <1>11 DEF SameChains
<1> QED  BY <1>3, <1>7, <1>12

\* The collector.
LEMMA CollectInv ==
  ASSUME TableInv, NEW i \in Removable, Collect({i})
  PROVE  TableInv'
<1>1. /\ SameChains(table, table') /\ table'.array = table.array /\ table'.stuck = table.stuck
      /\ \A j \in Nodes(table) : table'.node[j].val = table.node[j].val
  BY CollectKeeps
<1>2. WellFormed(table')
  BY <1>1, SameChainsKeep DEF TableInv
<1>3. contents' = contents
  BY DEF Collect
<1>4. Nodes(table') = Nodes(table)
      /\ \A j \in Nodes(table) : table'.node[j].key = table.node[j].key
  BY <1>1 DEF SameChains, SameSizes
<1>5. ASSUME NEW k \in Storable PROVE Gives(table', k, Stored(contents', k))
  <2>1. Gives(table, k, Stored(contents, k))
    BY DEF TableInv
  <2> QED  BY <2>1, <1>1, <1>3, <1>4 DEF Gives, InArray
<1>6. Sizeable(table')
  BY <1>1 DEF TableInv, Sizeable
<1> QED  BY <1>1, <1>2, <1>3, <1>5, <1>6 DEF TableInv

\* Every step keeps the invariant.
LEMMA TableStepInv ==
  ASSUME TableInv, [TableStep]_tableVars PROVE TableInv'
<1>1. ASSUME NEW k \in Keys, NEW v \in Values \cup {Nil}, Assign(k, v) PROVE TableInv'
  BY <1>1, AssignInv
<1>2. ASSUME NEW n \in 0 .. MaxItems, NEW items \in [1 .. n -> Values \cup {Nil}], SetList(items)
      PROVE  TableInv'
  BY <1>2, SetListInv
<1>3. ASSUME NEW i \in Removable, Collect({i}) PROVE TableInv'
  BY <1>3, CollectInv
<1>4. CASE Traverse \/ Visit \/ UNCHANGED tableVars
  <2>1. table' = table /\ contents' = contents
    BY <1>4 DEF Traverse, Visit, tableVars
  <2> QED  BY <2>1 DEF TableInv
<1> QED  BY <1>1, <1>2, <1>3, <1>4 DEF TableStep

\* The invariant holds from the constructor on.
THEOREM TableIsWellFormed == TableSpec => []TableInv
<1>1. TableInit => TableInv
  BY TableInitInv
<1>2. TableInv /\ [TableStep]_tableVars => TableInv'
  BY TableStepInv
<1> QED  BY <1>1, <1>2, PTL DEF TableSpec

\* luaH_get, luaH_getstr and luaH_getint find the value stored last under every key, whatever the
\* script stored and the collector cleared before.
THEOREM TableKeepsItsMap == TableSpec => []KeepsItsMap
<1>1. ASSUME TableInv PROVE KeepsItsMap
  <2>1. ASSUME NEW k \in Keys PROVE Get(table, k) = contents[Normal(k)]
    <3> DEFINE c == Normal(k)
    <3>1. c \in Fields /\ c \in Storable /\ Normal(c) = c
      BY FieldsStorable, NormalKeys
    <3>2. contents[c] = Stored(contents, c) /\ contents[c] \in Nat /\ Gives(table, c, contents[c])
      BY <1>1, <3>1, StoredIsNat DEF TableInv, Stored
    <3> HIDE DEF c
    <3>3. Get(table, c) = contents[c]
      BY <1>1, <3>1, <3>2, GetGives DEF TableInv
    <3>4. Get(table, c) = Get(table, k)
      BY <3>1 DEF Get, c
    <3> QED  BY <3>3, <3>4 DEF c
  <2> QED  BY <2>1 DEF KeepsItsMap
<1> QED  BY <1>1, TableIsWellFormed, PTL

\* No insertion of a rehash (luaH_resize), of a constructor, or of the key that called for the
\* rehash ever calls for another one.
THEOREM TableMakesRoom == TableSpec => []RehashMakesRoom
<1>1. TableInv => RehashMakesRoom
  BY DEF TableInv, RehashMakesRoom
<1> QED  BY <1>1, TableIsWellFormed, PTL

-----------------------------------------------------------------------------
(* Length (luaH_getn, unbound_search).                                     *)

\* A binary search between i, in use or 0, and j, empty, ends at a border.
LEMMA HalveFinds ==
  ASSUME NEW used, NEW i \in Nat, NEW j \in Nat, i < j, i = 0 \/ i \in used, j \notin used
  PROVE  /\ Halve(used, i, j) \in i .. (j - 1)
         /\ Halve(used, i, j) = 0 \/ Halve(used, i, j) \in used
         /\ Halve(used, i, j) + 1 \notin used
<1> DEFINE D == (i .. j) \X (i .. j)
           mid(p) == (p[1] + p[2]) \div 2
           stop == {p \in D : p[2] - p[1] <= 1}
           on(p) == IF mid(p) \in used THEN <<mid(p), p[2]>> ELSE <<p[1], mid(p)>>
           step == [p \in D |-> IF p \in stop THEN p ELSE on(p)]
           rank == [p \in D |-> IF p[2] < p[1] THEN 0 ELSE p[2] - p[1]]
           I == {p \in D : p[1] < p[2] /\ (p[1] = 0 \/ p[1] \in used) /\ p[2] \notin used}
           half == CHOOSE half : half = [p \in (i .. j) \X (i .. j) |->
                     IF p[2] - p[1] <= 1 THEN p
                     ELSE IF mid(p) \in used THEN half[<<mid(p), p[2]>>] ELSE half[<<p[1], mid(p)>>]]
<1>1. ASSUME NEW p \in D
      PROVE  /\ p[1] \in Nat /\ p[2] \in Nat /\ p[1] \in i .. j /\ p[2] \in i .. j
             /\ p = <<p[1], p[2]>>
             /\ mid(p) \in Nat /\ mid(p) \in i .. j
             /\ p[2] - p[1] > 1 => p[1] < mid(p) /\ mid(p) < p[2]
  <2> DEFINE x == p[1]
             y == p[2]
  <2>1. x \in i .. j /\ y \in i .. j /\ p = <<x, y>>
    OBVIOUS
  <2> HIDE DEF x, y
  <2>2. /\ x \in Nat /\ y \in Nat /\ (x + y) \div 2 \in Nat /\ (x + y) \div 2 \in i .. j
        /\ y - x > 1 => x < (x + y) \div 2 /\ (x + y) \div 2 < y
    BY <2>1
  <2> QED  BY <2>1, <2>2 DEF x, y
<1>2. ASSUME NEW p \in D PROVE on(p) \in D
  <2>1. p[1] \in i .. j /\ p[2] \in i .. j /\ mid(p) \in i .. j
    BY <1>1
  <2> HIDE DEF mid
  <2> QED  BY <2>1
<1>3. Ranked(D, stop, step, rank, j - i) /\ j - i \in Nat
  <2>1. step \in [D -> D]
    <3> HIDE DEF D, on
    <3> QED  BY <1>2
  <2>2. rank \in [D -> 0 .. (j - i)]
    <3>1. ASSUME NEW p \in D PROVE (IF p[2] < p[1] THEN 0 ELSE p[2] - p[1]) \in 0 .. (j - i)
      BY <1>1
    <3> HIDE DEF D
    <3> QED  BY <3>1
  <2>3. ASSUME NEW p \in D, p \notin stop PROVE rank[step[p]] < rank[p]
    <3> DEFINE x == p[1]
               y == p[2]
               m == mid(p)
    <3>1. x \in Nat /\ y \in Nat /\ m \in Nat /\ (y - x > 1 => x < m /\ m < y)
      BY <1>1
    <3>2. ~(y - x <= 1)
      BY <2>3
    <3>3. step[p] = on(p) /\ on(p) \in D
      BY <2>3, <1>2
    <3>4. rank[p] = IF y < x THEN 0 ELSE y - x
      OBVIOUS
    <3>5. on(p) = (IF m \in used THEN <<m, y>> ELSE <<x, m>>)
      OBVIOUS
    <3>6. rank[on(p)] = IF on(p)[2] < on(p)[1] THEN 0 ELSE on(p)[2] - on(p)[1]
      BY <3>3
    <3> HIDE DEF D, stop, step, rank, on, x, y, m
    <3>7. \/ on(p)[1] = m /\ on(p)[2] = y
          \/ on(p)[1] = x /\ on(p)[2] = m
      BY <3>5
    <3>8. x < m /\ m < y
      BY <3>1, <3>2
    <3> QED  BY <3>1, <3>3, <3>4, <3>6, <3>7, <3>8
  <2> HIDE DEF D, stop, step, rank
  <2> QED  BY <2>1, <2>2, <2>3 DEF Ranked
<1>4. \A f : Loop(f, D, stop, step) <=>
         f = [p \in (i .. j) \X (i .. j) |->
                IF p[2] - p[1] <= 1 THEN p
                ELSE IF mid(p) \in used THEN f[<<mid(p), p[2]>>] ELSE f[<<p[1], mid(p)>>]]
  <2> TAKE f
  <2> DEFINE e(p) == IF p[2] - p[1] <= 1 THEN p
                     ELSE IF mid(p) \in used THEN f[<<mid(p), p[2]>>] ELSE f[<<p[1], mid(p)>>]
             l(p) == IF p \in stop THEN p ELSE f[step[p]]
  <2>1. ASSUME NEW p \in D PROVE l(p) = e(p)
    <3>1. p \in stop <=> p[2] - p[1] <= 1
      BY <2>1
    <3>2. p \notin stop => step[p] = on(p)
      BY <2>1
    <3> HIDE DEF stop, step, mid
    <3> QED  BY <3>1, <3>2
  <2>2. [p \in D |-> l(p)] = [p \in D |-> e(p)]
    <3> HIDE DEF l, e, D
    <3> QED  BY <2>1
  <2>3. Loop(f, D, stop, step) <=> f = [p \in D |-> l(p)]
    <3> HIDE DEF D, stop, step, mid
    <3> QED  BY DEF Loop
  <2>4. Loop(f, D, stop, step) <=> f = [p \in D |-> e(p)]
    <3> HIDE DEF D, l, e, stop, step
    <3> QED  BY <2>2, <2>3
  <2> HIDE DEF stop, step, mid
  <2> QED  BY <2>4
<1>5. Halve(used, i, j) = half[<<i, j>>][1]
  BY DEF Halve
<1>6. \E f : Loop(f, D, stop, step)
  <2> HIDE DEF D, stop, step, rank
  <2> QED  BY <1>3, LoopExists
<1>7. Loop(half, D, stop, step)
  <2> HIDE DEF stop, step, mid
  <2> QED  BY <1>4, <1>6
<1> HIDE DEF half
<1>8. <<i, j>> \in I
  OBVIOUS
<1>9. I \in SUBSET D
  OBVIOUS
<1>10. ASSUME NEW p \in I, p \notin stop PROVE step[p] \in I
  <2>1. p \in D
    OBVIOUS
  <2> DEFINE x == p[1]
             y == p[2]
             m == mid(p)
  <2>2. x \in Nat /\ y \in Nat /\ m \in Nat /\ (y - x > 1 => x < m /\ m < y) /\ ~(y - x <= 1)
    BY <2>1, <1>1, <1>10
  <2>3. step[p] = on(p) /\ on(p) \in D
    BY <2>1, <1>2, <1>10
  <2>4. on(p) = (IF m \in used THEN <<m, y>> ELSE <<x, m>>)
    OBVIOUS
  <2>5. (x = 0 \/ x \in used) /\ y \notin used
    OBVIOUS
  <2> HIDE DEF D, stop, step, rank, on, x, y, m
  <2>6. x < m /\ m < y
    BY <2>2
  <2>7. on(p)[1] < on(p)[2] /\ (on(p)[1] = 0 \/ on(p)[1] \in used) /\ on(p)[2] \notin used
    <3>1. CASE m \in used
      BY <3>1, <2>4, <2>5, <2>6
    <3>2. CASE m \notin used
      BY <3>2, <2>4, <2>5, <2>6
    <3> QED  BY <3>1, <3>2
  <2> QED  BY <2>3, <2>7
<1> DEFINE z == half[<<i, j>>]
<1>11. z \in I /\ z \in stop
  <2> HIDE DEF D, stop, step, rank, I
  <2>1. \A p \in I : half[p] \in I /\ half[p] \in stop
    BY <1>3, <1>7, <1>9, <1>10, LoopStays
  <2> QED  BY <2>1, <1>8
<1> HIDE DEF z
<1>12. /\ z[1] \in Nat /\ z[2] \in Nat /\ z[1] \in i .. j /\ z[2] \in i .. j
       /\ z[1] < z[2] /\ z[2] - z[1] <= 1 /\ (z[1] = 0 \/ z[1] \in used) /\ z[2] \notin used
  BY <1>11, <1>1
<1> DEFINE x == z[1]
           y == z[2]
<1>13. x = Halve(used, i, j)
  BY <1>5 DEF z
<1>14. x \in Nat /\ y \in Nat /\ x \in i .. j /\ y \in i .. j /\ x < y /\ y - x <= 1
       /\ (x = 0 \/ x \in used) /\ y \notin used
  BY <1>12
<1> HIDE DEF x, y
<1>15. y = x + 1 /\ x \in i .. (j - 1)
  BY <1>14
<1> QED  BY <1>13, <1>14, <1>15

\* No index above some bound is in use.
LEMMA IndicesBounded ==
  ASSUME NEW t, WellFormed(t)
  PROVE  \E b \in Nat : \A i \in Nat : i > b => GetInt(t, i) = Nil
<1>1. t \in Tables
  BY DEF WellFormed, Chained
<1>2. SizeNode(t) \in Nat /\ Nodes(t) = 0 .. (SizeNode(t) - 1) /\ Len(t.array) \in Nat
  BY <1>1, NodesShape, LenProperties DEF Tables
<1> DEFINE size == SizeNode(t)
           Key(j) == t.node[j].key.n
           Good == {m \in 0 .. size : \E b \in Nat : /\ Len(t.array) <= b
                                                     /\ \A j \in 0 .. (m - 1) : Key(j) <= b}
<1>3. \A j \in Nodes(t) : Key(j) \in Int
  <2> TAKE j \in Nodes(t)
  <2>1. t.node[j].key \in Storable \cup {NoKey}
    BY <1>1, NodeTypes
  <2> QED  BY <2>1 DEF Storable, NoKey
<1> HIDE DEF Key
<1>4. 0 \in Good
  BY <1>2
<1>5. ASSUME NEW m \in 1 .. size, m - 1 \in Good PROVE m \in Good
  <2>1. PICK b \in Nat : Len(t.array) <= b /\ \A j \in 0 .. ((m - 1) - 1) : Key(j) <= b
    BY <1>5
  <2>2. m - 1 \in Nodes(t) /\ m \in 0 .. size /\ Key(m - 1) \in Int
    BY <1>2, <1>3
  <2> DEFINE x == Key(m - 1)
             c == IF x <= b THEN b ELSE x
  <2>3. c \in Nat /\ b <= c /\ x <= c
    BY <2>2
  <2> HIDE DEF c
  <2>4. \A j \in 0 .. (m - 1) : Key(j) <= c
    <3> TAKE j \in 0 .. (m - 1)
    <3>1. CASE j = m - 1
      BY <3>1, <2>3
    <3>2. CASE j # m - 1
      <4>1. j \in 0 .. ((m - 1) - 1) /\ j \in Nodes(t)
        BY <3>2, <1>2
      <4>2. Key(j) <= b /\ Key(j) \in Int
        BY <4>1, <2>1, <1>3
      <4> QED  BY <4>2, <2>3
    <3> QED  BY <3>1, <3>2
  <2>5. Len(t.array) <= c
    BY <2>1, <2>3, <1>2
  <2> QED  BY <2>2, <2>3, <2>4, <2>5
<1>6. size \in Good
  <2> HIDE DEF Good, size
  <2>1. size \in Nat
    BY <1>2 DEF size
  <2>2. \A m \in 0 .. size : m \in Good
    BY <2>1, <1>4, <1>5, UpTo
  <2> QED  BY <2>1, <2>2
<1>7. PICK b \in Nat : Len(t.array) <= b /\ \A j \in Nodes(t) : Key(j) <= b
  BY <1>2, <1>6
<1>8. ASSUME NEW i \in Nat, i > b PROVE GetInt(t, i) = Nil
  <2>1. Index(i) \in Storable /\ Index(i).n = i /\ Index(i).kind = "int"
    BY NormalKeys
  <2>2. ~InArray(t, Index(i))
    BY <2>1, <1>2, <1>7, <1>8 DEF InArray
  <2>3. \A j \in Nodes(t) : t.node[j].key # Index(i)
    <3> TAKE j \in Nodes(t)
    <3>1. t.node[j].key.n <= b /\ t.node[j].key.n \in Int
      BY <1>3, <1>7 DEF Key
    <3> QED  BY <3>1, <2>1, <1>8
  <2>4. Gives(t, Index(i), Nil) /\ Nil \in Nat
    BY <2>2, <2>3 DEF Gives, Nil
  <2> QED  BY <2>1, <2>4, GetGives
<1> QED  BY <1>8

\* n is 0 or an index in use, and the next one is not.
Border(t, n) == n \in Nat /\ (n = 0 \/ GetInt(t, n) # Nil) /\ GetInt(t, n + 1) = Nil

\* A search from 1 upwards ends at a border.
LEMMA LinearFinds ==
  ASSUME NEW t, WellFormed(t) PROVE Border(t, Linear(t))
<1>1. PICK b \in Nat : \A i \in Nat : i > b => GetInt(t, i) = Nil
  BY IndicesBounded
<1> DEFINE stop == {i \in Nat : GetInt(t, i) = Nil}
           step == [i \in Nat |-> IF i \in stop THEN i ELSE i + 1]
           rank == [i \in Nat |-> IF i <= b THEN (b + 1) - i ELSE 0]
           I == {i \in Nat : 1 <= i /\ \A m \in 1 .. (i - 1) : GetInt(t, m) # Nil}
           up == CHOOSE up : up = [i \in Nat |-> IF GetInt(t, i) = Nil THEN i ELSE up[i + 1]]
<1>2. Ranked(Nat, stop, step, rank, b + 1) /\ b + 1 \in Nat
  <2>1. step \in [Nat -> Nat]
    OBVIOUS
  <2>2. rank \in [Nat -> 0 .. (b + 1)]
    OBVIOUS
  <2>3. ASSUME NEW i \in Nat, i \notin stop PROVE rank[step[i]] < rank[i]
    <3>1. i <= b /\ step[i] = i + 1
      BY <2>3, <1>1
    <3>2. rank[i] = (b + 1) - i
      BY <3>1
    <3>3. rank[i + 1] = IF i + 1 <= b THEN (b + 1) - (i + 1) ELSE 0
      OBVIOUS
    <3> HIDE DEF rank, step
    <3> QED  BY <3>1, <3>2, <3>3
  <2> HIDE DEF stop, step, rank
  <2> QED  BY <2>1, <2>2, <2>3 DEF Ranked
<1>3. \A f : Loop(f, Nat, stop, step) <=> f = [i \in Nat |-> IF GetInt(t, i) = Nil THEN i ELSE f[i + 1]]
  <2> TAKE f
  <2> DEFINE e(i) == IF GetInt(t, i) = Nil THEN i ELSE f[i + 1]
             l(i) == IF i \in stop THEN i ELSE f[step[i]]
  <2>1. ASSUME NEW i \in Nat PROVE l(i) = e(i)
    <3>1. i \in stop <=> GetInt(t, i) = Nil
      OBVIOUS
    <3>2. i \notin stop => step[i] = i + 1
      OBVIOUS
    <3> HIDE DEF stop, step
    <3> QED  BY <3>1, <3>2
  <2>2. [i \in Nat |-> l(i)] = [i \in Nat |-> e(i)]
    <3> HIDE DEF l, e
    <3> QED  BY <2>1
  <2>3. Loop(f, Nat, stop, step) <=> f = [i \in Nat |-> l(i)]
    <3> HIDE DEF stop, step
    <3> QED  BY DEF Loop
  <2>4. Loop(f, Nat, stop, step) <=> f = [i \in Nat |-> e(i)]
    <3> HIDE DEF l, e, stop, step
    <3> QED  BY <2>2, <2>3
  <2> HIDE DEF stop, step
  <2> QED  BY <2>4
<1>4. Linear(t) = up[1] - 1
  BY DEF Linear
<1>5. \E f : Loop(f, Nat, stop, step)
  <2> HIDE DEF stop, step, rank
  <2> QED  BY <1>2, LoopExists
<1>6. Loop(up, Nat, stop, step)
  <2> HIDE DEF stop, step
  <2> QED  BY <1>3, <1>5
<1> HIDE DEF up
<1>7. 1 \in I /\ I \in SUBSET Nat
  OBVIOUS
<1>8. ASSUME NEW i \in I, i \notin stop PROVE step[i] \in I
  <2>1. i \in Nat /\ 1 <= i /\ GetInt(t, i) # Nil /\ step[i] = i + 1
    BY <1>8
  <2>2. \A m \in 1 .. i : GetInt(t, m) # Nil
    <3> TAKE m \in 1 .. i
    <3>1. m \in 1 .. (i - 1) \/ m = i
      BY <2>1
    <3> QED  BY <3>1, <2>1
  <2>3. i + 1 \in Nat /\ 1 <= i + 1 /\ (i + 1) - 1 = i
    BY <2>1
  <2> QED  BY <2>1, <2>2, <2>3
<1> DEFINE z == up[1]
<1>9. z \in I /\ z \in stop
  <2> DEFINE N == Nat
             m == b + 1
  <2>0. /\ Ranked(N, stop, step, rank, m) /\ m \in Nat /\ Loop(up, N, stop, step)
        /\ I \in SUBSET N /\ \A i \in I : i \notin stop => step[i] \in I
    BY <1>2, <1>6, <1>7, <1>8
  <2> HIDE DEF stop, step, rank, I, N, m
  <2>1. \A i \in I : up[i] \in I /\ up[i] \in stop
    BY <2>0, LoopStays
  <2> QED  BY <2>1, <1>7
<1>10. Linear(t) = z - 1
  BY <1>4
<1> HIDE DEF z
<1>11. z \in Nat /\ 1 <= z /\ GetInt(t, z) = Nil /\ \A m \in 1 .. (z - 1) : GetInt(t, m) # Nil
  BY <1>9
<1>12. z - 1 \in Nat /\ (z - 1) + 1 = z /\ (z - 1 # 0 => z - 1 \in 1 .. (z - 1))
  BY <1>11
<1> QED  BY <1>10, <1>11, <1>12 DEF Border

\* The upper index doubles until it is empty; a number too large calls for the linear search.
LEMMA UnboundFinds ==
  ASSUME NEW t, WellFormed(t), NEW start \in Nat, start = 0 \/ GetInt(t, start) # Nil
  PROVE  Border(t, UnboundSearch(t, start))
<1> DEFINE top == start + 1 + MaxInt
           D == (0 .. top) \X (1 .. top)
           over(x) == GetInt(t, x) = Nil \/ x > MaxInt \div 2
           stop == {p \in D : over(p[2])}
           step == [p \in D |-> IF p \in stop THEN p ELSE <<p[2], 2 * p[2]>>]
           rank == [p \in D |-> top - p[2]]
           I == {p \in D : p[1] < p[2] /\ (p[1] = 0 \/ GetInt(t, p[1]) # Nil)}
           grow == CHOOSE grow : grow = [p \in (0 .. top) \X (1 .. top) |->
                     IF GetInt(t, p[2]) = Nil \/ p[2] > MaxInt \div 2 THEN p
                     ELSE grow[<<p[2], 2 * p[2]>>]]
           end == grow[<<start, start + 1>>]
<1>0. MaxInt \in Nat
  BY TableConstants
<1>1. top \in Nat /\ start + 1 <= top /\ MaxInt <= top
  BY <1>0
<1> DEFINE u == UnboundSearch(t, start)
<1>2. u = IF GetInt(t, end[2]) = Nil
          THEN Halve({n \in end[1] .. end[2] : GetInt(t, n) # Nil}, end[1], end[2])
          ELSE Linear(t)
  BY DEF UnboundSearch
<1> HIDE DEF u, top
<1>3. ASSUME NEW p \in D
      PROVE  /\ p[1] \in Nat /\ p[2] \in Nat /\ 1 <= p[2] /\ p[2] <= top
             /\ ~over(p[2]) => /\ <<p[2], 2 * p[2]>> \in D /\ 2 * p[2] > p[2]
                               /\ GetInt(t, p[2]) # Nil
  <2>1. p[1] \in 0 .. top /\ p[2] \in 1 .. top
    OBVIOUS
  <2> DEFINE y == p[2]
  <2>2. y \in 1 .. top
    BY <2>1
  <2>3. ~over(y) => GetInt(t, y) # Nil /\ ~(y > MaxInt \div 2)
    OBVIOUS
  <2> HIDE DEF y, over
  <2>4. ~(y > MaxInt \div 2) => 2 * y <= MaxInt
    BY <2>2, <1>0, <1>1
  <2>5. ~(y > MaxInt \div 2) => y \in 0 .. top /\ 2 * y \in 1 .. top /\ 2 * y > y
    BY <2>2, <2>4, <1>0, <1>1
  <2> QED  BY <2>1, <2>2, <2>3, <2>5, <1>1 DEF y
<1>4. Ranked(D, stop, step, rank, top) /\ top \in Nat
  <2>1. step \in [D -> D]
    <3>1. ASSUME NEW p \in D PROVE (IF p \in stop THEN p ELSE <<p[2], 2 * p[2]>>) \in D
      <4>1. p \notin stop => ~over(p[2])
        OBVIOUS
      <4> HIDE DEF stop, over, D
      <4> QED  BY <4>1, <1>3
    <3> HIDE DEF stop, D
    <3> QED  BY <3>1
  <2>2. rank \in [D -> 0 .. top]
    <3>1. ASSUME NEW p \in D PROVE top - p[2] \in 0 .. top
      BY <1>1, <1>3
    <3> HIDE DEF D
    <3> QED  BY <3>1
  <2>3. ASSUME NEW p \in D, p \notin stop PROVE rank[step[p]] < rank[p]
    <3> DEFINE q == <<p[2], 2 * p[2]>>
               y == p[2]
    <3>1. ~over(p[2])
      BY <2>3
    <3>2. step[p] = q
      BY <2>3
    <3>3. q \in D /\ y \in Nat /\ y <= top /\ 2 * y > y
      BY <3>1, <1>3
    <3>4. q[2] = 2 * y
      OBVIOUS
    <3>5. rank[p] = top - y
      OBVIOUS
    <3>6. rank[q] = top - q[2]
      BY <3>3
    <3> HIDE DEF q, y, rank, step, stop
    <3> QED  BY <3>2, <3>3, <3>4, <3>5, <3>6, <1>1
  <2> HIDE DEF D, stop, step, rank
  <2> QED  BY <2>1, <2>2, <2>3, <1>1 DEF Ranked
<1>5. \A f : Loop(f, D, stop, step) <=>
         f = [p \in (0 .. top) \X (1 .. top) |->
                IF GetInt(t, p[2]) = Nil \/ p[2] > MaxInt \div 2 THEN p
                ELSE f[<<p[2], 2 * p[2]>>]]
  <2> TAKE f
  <2> DEFINE e(p) == IF GetInt(t, p[2]) = Nil \/ p[2] > MaxInt \div 2 THEN p
                     ELSE f[<<p[2], 2 * p[2]>>]
             l(p) == IF p \in stop THEN p ELSE f[step[p]]
  <2>1. ASSUME NEW p \in D PROVE l(p) = e(p)
    <3>1. p \in stop <=> (GetInt(t, p[2]) = Nil \/ p[2] > MaxInt \div 2)
      BY <2>1
    <3>2. p \notin stop => step[p] = <<p[2], 2 * p[2]>>
      BY <2>1
    <3> HIDE DEF stop, step
    <3> QED  BY <3>1, <3>2
  <2>2. [p \in D |-> l(p)] = [p \in D |-> e(p)]
    <3> HIDE DEF l, e, D
    <3> QED  BY <2>1
  <2>3. Loop(f, D, stop, step) <=> f = [p \in D |-> l(p)]
    <3> HIDE DEF D, stop, step
    <3> QED  BY DEF Loop
  <2>4. Loop(f, D, stop, step) <=> f = [p \in D |-> e(p)]
    <3> HIDE DEF D, l, e, stop, step
    <3> QED  BY <2>2, <2>3
  <2> HIDE DEF stop, step
  <2> QED  BY <2>4
<1>6. \E f : Loop(f, D, stop, step)
  <2> HIDE DEF D, stop, step, rank
  <2> QED  BY <1>4, LoopExists
<1>7. Loop(grow, D, stop, step)
  <2> HIDE DEF stop, step
  <2> QED  BY <1>5, <1>6
<1> HIDE DEF grow
<1>8. <<start, start + 1>> \in I
  BY <1>1
<1>9. I \in SUBSET D
  OBVIOUS
<1>10. ASSUME NEW p \in I, p \notin stop PROVE step[p] \in I
  <2> DEFINE q == <<p[2], 2 * p[2]>>
             y == p[2]
  <2>1. p \in D /\ ~over(p[2])
    BY <1>10
  <2>2. step[p] = q
    BY <2>1, <1>10
  <2>3. q \in D /\ 2 * y > y /\ GetInt(t, y) # Nil /\ y \in Nat
    BY <2>1, <1>3
  <2>4. q[1] = y /\ q[2] = 2 * y
    OBVIOUS
  <2> HIDE DEF q, y, step, stop, D, over
  <2>5. q[1] < q[2] /\ GetInt(t, q[1]) # Nil
    BY <2>3, <2>4
  <2> QED  BY <2>2, <2>3, <2>5
<1>11. end \in I
  <2> HIDE DEF D, stop, step, rank, I
  <2>1. \A p \in I : grow[p] \in I /\ grow[p] \in stop
    BY <1>4, <1>7, <1>9, <1>10, LoopStays
  <2> QED  BY <2>1, <1>8
<1> HIDE DEF end
<1> DEFINE x == end[1]
           y == end[2]
           used == {n \in x .. y : GetInt(t, n) # Nil}
<1>12. x \in Nat /\ y \in Nat /\ x < y /\ (x = 0 \/ GetInt(t, x) # Nil)
  BY <1>11, <1>3
<1>13. u = IF GetInt(t, y) = Nil THEN Halve(used, x, y) ELSE Linear(t)
  BY <1>2
<1> HIDE DEF x, y
<1>14. CASE GetInt(t, y) = Nil
  <2>1. y \notin used /\ (x = 0 \/ x \in used)
    BY <1>12, <1>14
  <2> HIDE DEF used
  <2> DEFINE h == Halve(used, x, y)
  <2>2. h \in x .. (y - 1) /\ (h = 0 \/ h \in used) /\ h + 1 \notin used
    BY <2>1, <1>12, HalveFinds
  <2> HIDE DEF h
  <2>3. h \in Nat /\ h + 1 \in x .. y
    BY <2>2, <1>12
  <2>4. (h = 0 \/ GetInt(t, h) # Nil) /\ GetInt(t, h + 1) = Nil
    BY <2>2, <2>3 DEF used
  <2>5. u = h
    BY <1>13, <1>14 DEF h
  <2> QED  BY <2>3, <2>4, <2>5 DEF Border, u
<1>15. CASE GetInt(t, y) # Nil
  <2>1. u = Linear(t)
    BY <1>13, <1>15
  <2> QED  BY <2>1, LinearFinds DEF u
<1> QED  BY <1>14, <1>15

\* luaH_getn finds a border of every well-formed table.
LEMMA GetNFinds ==
  ASSUME NEW t, WellFormed(t) PROVE Border(t, GetN(t))
<1> DEFINE j == Len(t.array)
<1>1. t \in Tables
  BY DEF WellFormed, Chained
<1>2. j \in Nat
  BY <1>1, LenProperties DEF Tables
<1>3. ASSUME NEW i \in Nat
      PROVE  /\ Index(i) \in Storable
             /\ InArray(t, Index(i)) <=> i \in 1 .. j
             /\ i \in 1 .. j => GetInt(t, i) = t.array[i]
  <2>1. Index(i) \in Storable /\ Index(i).kind = "int" /\ Index(i).n = i
    BY NormalKeys
  <2> QED  BY <2>1 DEF InArray, GetInt
<1>4. CASE j > 0 /\ t.array[j] = Nil
  <2> DEFINE used == {n \in 1 .. j : t.array[n] # Nil}
             h == Halve(used, 0, j)
  <2>1. GetN(t) = h
    BY <1>4 DEF GetN
  <2>2. 0 < j /\ j \notin used
    BY <1>2, <1>4
  <2> HIDE DEF used, j
  <2>3. h \in 0 .. (j - 1) /\ (h = 0 \/ h \in used) /\ h + 1 \notin used
    BY <2>2, <1>2, HalveFinds
  <2> HIDE DEF h
  <2>4. h \in Nat /\ h + 1 \in Nat /\ h + 1 \in 1 .. j
    BY <2>3, <1>2
  <2>5. t.array[h + 1] = Nil /\ (h = 0 \/ (h \in 1 .. j /\ t.array[h] # Nil))
    BY <2>3, <2>4 DEF used
  <2> QED  BY <2>1, <2>4, <2>5, <1>3 DEF Border
<1>5. ASSUME ~(j > 0 /\ t.array[j] = Nil) PROVE j = 0 \/ GetInt(t, j) # Nil
  <2>1. j # 0 => j \in 1 .. j /\ t.array[j] # Nil
    BY <1>2, <1>5
  <2> HIDE DEF j
  <2> QED  BY <2>1, <1>2, <1>3
<1>6. CASE ~(j > 0 /\ t.array[j] = Nil) /\ t.dummy
  <2>1. GetN(t) = j
    BY <1>6 DEF GetN
  <2>2. Nodes(t) = {0} /\ t.node[0].key = NoKey
    <3>1. SizeNode(t) = 1 /\ t.node[0].key = NoKey
      BY <1>6 DEF WellFormed, DummyEmpty
    <3>2. Nodes(t) = 0 .. 0
      BY <3>1, <1>1, NodesShape
    <3> QED  BY <3>1, <3>2
  <2>3. Index(j + 1) \in Storable /\ ~InArray(t, Index(j + 1)) /\ Index(j + 1).n = j + 1
        /\ Index(j + 1).kind = "int"
    <3>1. j + 1 \in Nat /\ ~(j + 1 \in 1 .. j) /\ j + 1 \in Int
      BY <1>2
    <3> HIDE DEF j
    <3> QED  BY <3>1, <1>3, NormalKeys
  <2> HIDE DEF j
  <2>4. Gives(t, Index(j + 1), Nil) /\ Nil \in Nat
    BY <2>2, <2>3, NoKeyFree DEF Gives, Nil
  <2>5. GetInt(t, j + 1) = Nil
    BY <2>3, <2>4, GetGives
  <2> QED  BY <2>1, <2>5, <1>2, <1>5, <1>6 DEF Border
<1>7. CASE ~(j > 0 /\ t.array[j] = Nil) /\ ~t.dummy
  <2>1. GetN(t) = UnboundSearch(t, j)
    BY <1>7 DEF GetN
  <2> HIDE DEF j
  <2> QED  BY <2>1, <1>2, <1>5, <1>7, UnboundFinds
<1> QED  BY <1>4, <1>6, <1>7

\* The length operator yields a border (luaH_getn).
THEOREM TableLengthIsBorder == TableSpec => []LengthIsBorder
<1>1. ASSUME TableInv PROVE LengthIsBorder
  <2> DEFINE n == GetN(table)
             Present(i) == Index(i) \in DOMAIN contents /\ contents[Index(i)] # Nil
  <2>1. Border(table, n)
    BY <1>1, GetNFinds DEF TableInv
  <2> HIDE DEF n
  <2>2. ASSUME NEW i \in Nat PROVE Present(i) <=> GetInt(table, i) # Nil
    <3>1. Index(i) \in Storable /\ Index(i).kind = "int" /\ Index(i).n = i
      BY NormalKeys
    <3>2. Stored(contents, Index(i)) \in Nat /\ Gives(table, Index(i), Stored(contents, Index(i)))
      BY <1>1, <3>1, StoredIsNat DEF TableInv
    <3>3. GetInt(table, i) = Stored(contents, Index(i))
      BY <1>1, <3>1, <3>2, GetGives DEF TableInv
    <3>4. DOMAIN contents = Fields
      BY <1>1 DEF TableInv
    <3> QED  BY <3>3, <3>4 DEF Stored
  <2>3. n \in Nat /\ n + 1 \in Nat /\ (n = 0 \/ Present(n)) /\ ~Present(n + 1)
    <3>1. n \in Nat /\ n + 1 \in Nat /\ (n = 0 \/ GetInt(table, n) # Nil) /\ GetInt(table, n + 1) = Nil
      BY <2>1 DEF Border
    <3> HIDE DEF Present
    <3> QED  BY <3>1, <2>2
  <2> QED  BY <2>3 DEF LengthIsBorder, n
<1> QED  BY <1>1, TableIsWellFormed, PTL

-----------------------------------------------------------------------------
(* Traversal (findindex, luaH_next).                                       *)

Total(t) == Len(t.array) + SizeNode(t)

\* The entry before number p has key k; a node is the first of its key.
At(t, k, p) ==
  \/ k = NoKey /\ p = 0
  \/ k \in Storable /\ InArray(t, k) /\ p = k.n
  \/ /\ k \in Storable
     /\ \E q \in Nodes(t) :
          /\ p = q + 1 + Len(t.array)
          /\ t.node[q].key = k /\ (t.node[q].dead => Collectable(k))
          /\ \A j \in Nodes(t) : t.node[j].key = k => Reach(Succ(t), Nodes(t), q, j)

\* The keys of V are those visited before entry p: no entry from p on that is in use has
\* one of them, and every entry before p that is in use has.
Visited(t, V, p) ==
  \A i \in 0 .. (Total(t) - 1) : Entry(t, i).val # Nil =>
    (Entry(t, i).key \in V <=> i < p)

\* A traversal has come to key k and has visited the keys of V.
Traversing(t, k, V) ==
  \E p \in 0 .. Total(t) : At(t, k, p) /\ Visited(t, V, p) /\ V \subseteq Storable

\* findindex finds the entry of the last key, even when it is dead.
LEMMA AtIsFound ==
  ASSUME NEW t, WellFormed(t), Sizeable(t), NEW k, NEW p, At(t, k, p)
  PROVE  FindIndex(t, k) = p /\ p \in 0 .. Total(t)
<1>1. t \in Tables
  BY DEF WellFormed, Chained
<1>2. /\ SizeNode(t) \in Nat \ {0} /\ Nodes(t) = 0 .. (SizeNode(t) - 1)
      /\ Len(t.array) \in Nat
  BY <1>1, NodesShape, LenProperties DEF Tables
<1>3. CASE k = NoKey /\ p = 0
  BY <1>2, <1>3 DEF FindIndex, Total
<1>4. CASE k \in Storable /\ InArray(t, k) /\ p = k.n
  <2>1. k.kind = "int" /\ k.n \in 1 .. Len(t.array) /\ k # NoKey
    BY <1>4, NoKeyFree DEF InArray
  <2>2. k.n \in 1 .. Twos[MaxABits]
    BY <2>1, <1>2, TwosDouble DEF Sizeable
  <2>3. ArrayIndex(k) = k.n
    BY <2>1, <2>2 DEF ArrayIndex
  <2> QED  BY <2>1, <2>3, <1>2, <1>4 DEF FindIndex, Total
<1>5. ASSUME k \in Storable, NEW q \in Nodes(t), p = q + 1 + Len(t.array),
             t.node[q].key = k, t.node[q].dead => Collectable(k),
             \A j \in Nodes(t) : t.node[j].key = k => Reach(Succ(t), Nodes(t), q, j)
      PROVE  FindIndex(t, k) = p /\ p \in 0 .. Total(t)
  <2> DEFINE m == MainPosition(t, k)
             S == {i \in DOMAIN t.node : t.node[i].key = k /\ (t.node[i].dead => Collectable(k))}
             f == Along(t, m, S)
  <2>1. ~InArray(t, k) /\ k # NoKey
    BY <1>5, NoKeyFree DEF WellFormed, Outside
  <2>2. ~(ArrayIndex(k) \in 1 .. Len(t.array))
    BY <2>1 DEF ArrayIndex, InArray
  <2>3. FindIndex(t, k) = IF f = -1 THEN -1 ELSE f + 1 + Len(t.array)
    BY <2>1, <2>2 DEF FindIndex
  <2>4. m \in Nodes(t) /\ S \in SUBSET Nodes(t) /\ q \in S /\ Chained(t)
    BY <1>1, <1>5, MainIsNode DEF Nodes, WellFormed
  <2>5. Reach(Succ(t), Nodes(t), m, q)
    BY <1>5, <2>1 DEF WellFormed, Homed
  <2> HIDE DEF m
  <2>6. \A i \in S : i \in Nodes(t) /\ t.node[i].key = k
    BY DEF Nodes
  <2> HIDE DEF S
  <2>7. f \in S /\ Reach(Succ(t), Nodes(t), f, q)
    BY <2>4, <2>5, AlongFinds
  <2> HIDE DEF f
  <2>8. Reach(Succ(t), Nodes(t), q, f) /\ f \in Nodes(t)
    BY <1>5, <2>6, <2>7
  <2>9. Succ(t) \in [Nodes(t) -> Nodes(t)] /\ Acyclic(Succ(t), Nodes(t))
    BY <2>4 DEF Chained
  <2>10. f = q
    BY <2>7, <2>8, <2>9, ReachOneWay
  <2> DEFINE l == Len(t.array)
             z == SizeNode(t)
  <2>11. q \in 0 .. (z - 1) /\ z \in Nat /\ l \in Nat
    BY <1>2
  <2> HIDE DEF l, z
  <2>12. q # -1 /\ q + 1 + l \in 0 .. (l + z)
    BY <2>11
  <2>13. FindIndex(t, k) = q + 1 + l
    BY <2>3, <2>10, <2>12 DEF l
  <2> QED  BY <2>12, <2>13, <1>5 DEF Total, l, z
<1> QED  BY <1>3, <1>4, <1>5 DEF At

\* What the entries are.
LEMMA EntryIs ==
  ASSUME NEW t \in Tables, NEW i \in 0 .. (Total(t) - 1)
  PROVE  \/ /\ i < Len(t.array) /\ i + 1 \in 1 .. Len(t.array)
            /\ Entry(t, i).key = Index(i + 1) /\ Entry(t, i).val = t.array[i + 1]
         \/ /\ ~(i < Len(t.array)) /\ i - Len(t.array) \in Nodes(t)
            /\ Entry(t, i).key = t.node[i - Len(t.array)].key
            /\ Entry(t, i).val = t.node[i - Len(t.array)].val
<1>1. /\ SizeNode(t) \in Nat \ {0} /\ Nodes(t) = 0 .. (SizeNode(t) - 1)
      /\ Len(t.array) \in Nat
  BY NodesShape, LenProperties DEF Tables
<1>2. CASE i < Len(t.array)
  BY <1>1, <1>2 DEF Entry
<1>3. CASE ~(i < Len(t.array))
  <2>1. i - Len(t.array) \in Nodes(t)
    BY <1>1, <1>3 DEF Total
  <2> QED  BY <2>1, <1>3 DEF Entry
<1> QED  BY <1>2, <1>3

\* An entry in use has a key that can be stored, gives its value, and is at that key.
LEMMA EntryInUse ==
  ASSUME NEW t, WellFormed(t), NEW i \in 0 .. (Total(t) - 1), Entry(t, i).val # Nil
  PROVE  Entry(t, i).key \in Storable /\ At(t, Entry(t, i).key, i + 1)
<1>1. t \in Tables
  BY DEF WellFormed, Chained
<1>2. Len(t.array) \in Nat /\ i \in Nat
  BY <1>1, LenProperties, NodesShape DEF Tables, Total
<1> DEFINE l == Len(t.array)
           e == Entry(t, i)
<1>3. CASE i < l /\ i + 1 \in 1 .. l /\ e.key = Index(i + 1) /\ e.val = t.array[i + 1]
  <2>1. i + 1 \in Int
    BY <1>2
  <2>2. Index(i + 1) \in Storable /\ Index(i + 1).kind = "int" /\ Index(i + 1).n = i + 1
    BY <2>1, NormalKeys
  <2>3. InArray(t, Index(i + 1))
    BY <2>2, <1>3 DEF InArray
  <2> HIDE DEF e, l
  <2> QED  BY <2>2, <2>3, <1>3 DEF At, e
<1>4. CASE /\ ~(i < l) /\ i - l \in Nodes(t)
           /\ e.key = t.node[i - l].key /\ e.val = t.node[i - l].val
  <2> DEFINE q == i - l
  <2>1. q \in Nodes(t) /\ e.key = t.node[q].key /\ t.node[q].val # Nil
    BY <1>4
  <2>2. i + 1 = q + 1 + l
    BY <1>2
  <2> HIDE DEF q, e, l
  <2>3. t.node[q].key # NoKey /\ ~t.node[q].dead
    BY <2>1 DEF WellFormed, FreeApart, DeadEmpty
  <2>4. t.node[q].key \in Storable
    BY <2>1, <2>3, <1>1, NodeTypes
  <2>5. \A j \in Nodes(t) : t.node[j].key = t.node[q].key => Reach(Succ(t), Nodes(t), q, j)
    BY <2>1, <2>3 DEF WellFormed, LiveFirst
  <2> QED  BY <2>1, <2>2, <2>3, <2>4, <2>5 DEF At, e, l
<1> QED  BY <1>1, <1>3, <1>4, EntryIs

\* The least of a set of numbers.
LEMMA MinIs ==
  ASSUME NEW S \in SUBSET Nat, S # {}
  PROVE  Min(S) \in S /\ \A x \in S : Min(S) <= x
<1>1. \E n \in S : \A m \in S : n <= m
  BY NatMin
<1> QED  BY <1>1 DEF Min

\* Where a traversal goes from p: to the first entry in use, or to its end.
LEMMA NextIs ==
  ASSUME NEW t, WellFormed(t), Sizeable(t), NEW k, NEW V, NEW p \in 0 .. Total(t),
         At(t, k, p), Visited(t, V, p), V \subseteq Storable
  PROVE  \/ /\ TableNext(t, k).key = Idle
            /\ \A i \in 0 .. (Total(t) - 1) : Entry(t, i).val # Nil => Entry(t, i).key \in V
         \/ /\ TableNext(t, k).key \in Storable /\ TableNext(t, k).key \notin V
            /\ Traversing(t, TableNext(t, k).key, V \cup {TableNext(t, k).key})
<1> DEFINE N == Len(t.array) + SizeNode(t) - 1
           later == {i \in FindIndex(t, k) .. N : Entry(t, i).val # Nil}
<1>1. t \in Tables
  BY DEF WellFormed, Chained
<1>2. SizeNode(t) \in Nat \ {0} /\ Len(t.array) \in Nat /\ Total(t) \in Nat /\ N = Total(t) - 1
  BY <1>1, NodesShape, LenProperties DEF Tables, Total
<1>3. FindIndex(t, k) = p /\ p \in Nat
  BY <1>2, AtIsFound
<1>4. TableNext(t, k) = IF later = {} THEN [key |-> Idle, val |-> Nil] ELSE Entry(t, Min(later))
  BY DEF TableNext
<1> HIDE DEF N
<1>5. later = {i \in p .. (Total(t) - 1) : Entry(t, i).val # Nil}
  BY <1>2, <1>3
<1> HIDE DEF later
<1>6. CASE later = {}
  <2>1. TableNext(t, k).key = Idle
    BY <1>4, <1>6
  <2>2. ASSUME NEW i \in 0 .. (Total(t) - 1), Entry(t, i).val # Nil PROVE Entry(t, i).key \in V
    <3>1. i < p
      BY <2>2, <1>2, <1>3, <1>5, <1>6
    <3> QED  BY <2>2, <3>1 DEF Visited
  <2> QED  BY <2>1, <2>2
<1>7. CASE later # {}
  <2> DEFINE m == Min(later)
             e == Entry(t, m)
  <2>1. later \in SUBSET Nat
    BY <1>2, <1>3, <1>5
  <2>2. m \in later /\ \A x \in later : m <= x
    BY <2>1, <1>7, MinIs
  <2> HIDE DEF m
  <2>3. m \in 0 .. (Total(t) - 1) /\ p <= m /\ e.val # Nil
    BY <2>2, <1>2, <1>3, <1>5
  <2>4. TableNext(t, k) = e
    BY <1>4, <1>7 DEF m
  <2>5. e.key \in Storable /\ At(t, e.key, m + 1)
    BY <2>3, EntryInUse
  <2>6. e.key \notin V
    BY <2>3, <1>2, <1>3 DEF Visited
  <2> HIDE DEF e
  <2>7. Visited(t, V \cup {e.key}, m + 1)
    <3>1. ASSUME NEW i \in 0 .. (Total(t) - 1), Entry(t, i).val # Nil
          PROVE  Entry(t, i).key \in V \cup {e.key} <=> i < m + 1
      <4>0. i \in Nat /\ m \in Nat /\ p \in Nat
        BY <1>2, <1>3, <2>3
      <4>1. Entry(t, i).key \in V <=> i < p
        BY <3>1 DEF Visited
      <4>2. Entry(t, i).key = e.key => i = m
        <5>1. Entry(t, i).key \in Storable /\ At(t, Entry(t, i).key, i + 1)
          BY <3>1, EntryInUse
        <5>2. FindIndex(t, Entry(t, i).key) = i + 1 /\ FindIndex(t, e.key) = m + 1
          BY <5>1, <2>5, AtIsFound
        <5> QED  BY <5>2, <4>0
      <4>3. i = m => Entry(t, i).key = e.key
        BY DEF e
      <4>4. i >= p => m <= i
        BY <3>1, <4>0, <2>2, <1>5
      <4> QED  BY <4>0, <4>1, <4>2, <4>3, <4>4, <2>3
    <3> QED  BY <3>1 DEF Visited
  <2>8. m + 1 \in 0 .. Total(t)
    BY <2>3, <1>2
  <2>9. V \cup {e.key} \subseteq Storable
    BY <2>5
  <2>10. Traversing(t, e.key, V \cup {e.key})
    BY <2>5, <2>7, <2>8, <2>9 DEF Traversing
  <2> QED  BY <2>4, <2>5, <2>6, <2>10
<1> QED  BY <1>6, <1>7

\* u is t with other values and dead keys, but no entry in use that was not.
Kept(t, u) ==
  /\ SameSizes(t, u)
  /\ \A i \in Nodes(t) :
       /\ u.node[i].key = t.node[i].key /\ u.node[i].next = t.node[i].next
       /\ u.node[i].dead => t.node[i].dead \/ Collectable(t.node[i].key)
       /\ u.node[i].val # Nil => t.node[i].val # Nil
  /\ \A i \in 1 .. Len(t.array) : u.array[i] # Nil => t.array[i] # Nil

\* A traversal survives such changes.
LEMMA KeptIsTraversed ==
  ASSUME NEW t, WellFormed(t), NEW u, Kept(t, u), NEW k, NEW V, Traversing(t, k, V)
  PROVE  Traversing(u, k, V)
<1>1. t \in Tables /\ u \in Tables
  BY DEF WellFormed, Chained, Kept, SameSizes
<1>2. Nodes(u) = Nodes(t) /\ SizeNode(u) = SizeNode(t) /\ Len(u.array) = Len(t.array)
  BY DEF Kept, SameSizes
<1>3. Total(u) = Total(t)
  BY <1>2 DEF Total
<1>4. Succ(u) = Succ(t)
  <2>1. \A i \in Nodes(t) : i + u.node[i].next = i + t.node[i].next
    BY DEF Kept
  <2> QED  BY <2>1, <1>2 DEF Succ
<1>5. PICK p \in 0 .. Total(t) : At(t, k, p) /\ Visited(t, V, p) /\ V \subseteq Storable
  BY DEF Traversing
<1>6. At(u, k, p)
  <2>1. CASE k = NoKey /\ p = 0
    BY <2>1 DEF At
  <2>2. CASE k \in Storable /\ InArray(t, k) /\ p = k.n
    <3>1. InArray(u, k)
      BY <2>2, <1>2 DEF InArray
    <3> QED  BY <2>2, <3>1 DEF At
  <2>3. ASSUME k \in Storable, NEW q \in Nodes(t), p = q + 1 + Len(t.array),
               t.node[q].key = k, t.node[q].dead => Collectable(k),
               \A j \in Nodes(t) : t.node[j].key = k => Reach(Succ(t), Nodes(t), q, j)
        PROVE  At(u, k, p)
    <3>1. q \in Nodes(u) /\ p = q + 1 + Len(u.array) /\ u.node[q].key = k
      BY <2>3, <1>2 DEF Kept
    <3>2. u.node[q].dead => Collectable(k)
      BY <2>3 DEF Kept
    <3>3. \A j \in Nodes(u) : u.node[j].key = k => Reach(Succ(u), Nodes(u), q, j)
      <4>1. \A j \in Nodes(t) : u.node[j].key = t.node[j].key
        BY DEF Kept
      <4> QED  BY <4>1, <2>3, <1>2, <1>4
    <3> QED  BY <2>3, <3>1, <3>2, <3>3 DEF At
  <2> QED  BY <2>1, <2>2, <2>3, <1>5 DEF At
<1>7. ASSUME NEW i \in 0 .. (Total(t) - 1), Entry(u, i).val # Nil
      PROVE  Entry(t, i).val # Nil /\ Entry(u, i).key = Entry(t, i).key
  <2>1. CASE i < Len(t.array)
    <3>1. /\ i + 1 \in 1 .. Len(t.array)
          /\ Entry(t, i).key = Index(i + 1) /\ Entry(t, i).val = t.array[i + 1]
      BY <2>1, <1>1, EntryIs
    <3>2. Entry(u, i).key = Index(i + 1) /\ Entry(u, i).val = u.array[i + 1]
      BY <2>1, <1>1, <1>2, <1>3, EntryIs
    <3> QED  BY <3>1, <3>2, <1>7 DEF Kept
  <2>2. CASE ~(i < Len(t.array))
    <3>1. /\ i - Len(t.array) \in Nodes(t)
          /\ Entry(t, i).key = t.node[i - Len(t.array)].key
          /\ Entry(t, i).val = t.node[i - Len(t.array)].val
      BY <2>2, <1>1, EntryIs
    <3>2. /\ Entry(u, i).key = u.node[i - Len(t.array)].key
          /\ Entry(u, i).val = u.node[i - Len(t.array)].val
      BY <2>2, <1>1, <1>2, <1>3, EntryIs
    <3> QED  BY <3>1, <3>2, <1>7 DEF Kept
  <2> QED  BY <2>1, <2>2
<1>8. Visited(u, V, p)
  BY <1>3, <1>5, <1>7 DEF Visited
<1> QED  BY <1>3, <1>5, <1>6, <1>8 DEF Traversing

\* What is stored under a key that has a value needs no new node.
LEMMA PresentIsKept ==
  ASSUME NEW t, WellFormed(t), NEW key, Normal(key) \in Storable, NEW v \in Nat, NEW w \in Nat,
         Gives(t, Normal(key), w), w # Nil
  PROVE  Kept(t, Put(t, key, v))
<1> DEFINE k == Normal(key)
<1>1. t \in Tables /\ Normal(k) = k /\ k \in Storable
  BY NormalKeys DEF WellFormed, Chained
<1>2. Gives(t, k, w)
  OBVIOUS
<1>3. HasPlace(t, k) => Put(t, key, v) = Place(t, k, v)
  BY <1>1 DEF Put, Place
<1>4. Len(t.array) \in Nat /\ t.array \in Seq(Nat)
  BY <1>1, LenProperties DEF Tables
<1> HIDE DEF k
<1>5. CASE InArray(t, k)
  <2> DEFINE u == [t EXCEPT !.array[k.n] = v]
  <2>1. HasPlace(t, k)
    BY <1>5 DEF HasPlace
  <2>2. Put(t, key, v) = u
    BY <2>1, <1>1, <1>3, <1>5 DEF Place
  <2>3. t.array[k.n] # Nil /\ k.n \in 1 .. Len(t.array)
    BY <1>2, <1>5 DEF Gives, InArray
  <2>4. SameSizes(t, u)
    <3>1. Stores(t, u, k, v)
      BY <1>1, <1>5, SlotStores
    <3> HIDE DEF u
    <3> QED  BY <3>1 DEF Stores
  <2>5. u.node = t.node
    BY <1>1 DEF Tables
  <2>6. u.array = [t.array EXCEPT ![k.n] = v]
    BY <1>1 DEF Tables
  <2>7. \A i \in 1 .. Len(t.array) : u.array[i] # Nil => t.array[i] # Nil
    <3> TAKE i \in 1 .. Len(t.array)
    <3>1. DOMAIN t.array = 1 .. Len(t.array)
      BY <1>4, LenProperties
    <3>2. u.array[i] = IF i = k.n THEN v ELSE t.array[i]
      BY <2>6, <3>1
    <3> HIDE DEF u
    <3> QED  BY <3>2, <2>3
  <2> HIDE DEF u
  <2>8. Kept(t, u)
    BY <2>4, <2>5, <2>7 DEF Kept
  <2> QED  BY <2>2, <2>8
<1>6. CASE ~InArray(t, k)
  <2>1. PICK i \in Nodes(t) : t.node[i].key = k /\ t.node[i].val = w
    BY <1>2, <1>6 DEF Gives
  <2>2. ~t.node[i].dead /\ k # NoKey
    BY <2>1, <1>1, NoKeyFree DEF WellFormed, DeadEmpty
  <2> DEFINE f == Find(t, k)
             u == [t EXCEPT !.node[f].val = v]
  <2>3. f # -1 /\ f \in Nodes(t) /\ t.node[f].key = k /\ ~t.node[f].dead
    BY <2>1, <2>2, <1>1, FindFinds
  <2>4. HasPlace(t, k)
    BY <2>3 DEF HasPlace
  <2>5. Put(t, key, v) = u
    BY <2>3, <2>4, <1>1, <1>3, <1>6 DEF Place
  <2>6. SameSizes(t, u)
    <3>1. Stores(t, u, k, v)
      BY <1>1, <1>6, <2>3, FoundStores
    <3> HIDE DEF u
    <3> QED  BY <3>1 DEF Stores
  <2> HIDE DEF f
  <2>7. f = i
    BY <2>1, <2>2, <2>3, OneLive
  <2>8. u.array = t.array /\ u.node = [t.node EXCEPT ![f].val = v]
    BY <1>1 DEF Tables
  <2> HIDE DEF u
  <2>9. ASSUME NEW j \in Nodes(t)
        PROVE  /\ u.node[j].key = t.node[j].key /\ u.node[j].next = t.node[j].next
               /\ u.node[j].dead = t.node[j].dead
               /\ u.node[j].val # Nil => t.node[j].val # Nil
    <3>1. t.node[j] \in NodeSet /\ t.node \in [Nodes(t) -> NodeSet]
      BY <1>1, NodesShape
    <3>2. u.node[j] = IF j = f THEN [t.node[f] EXCEPT !.val = v] ELSE t.node[j]
      BY <3>1, <2>3, <2>8
    <3> QED  BY <3>1, <3>2, <2>1, <2>7 DEF NodeSet
  <2>10. Kept(t, u)
    BY <2>6, <2>8, <2>9 DEF Kept
  <2> QED  BY <2>5, <2>10
<1> QED  BY <1>5, <1>6

\* What a traversal has seen so far.
TraversalInv == TableInv /\ (last \notin {Making, Idle} => Traversing(table, last, seen))

\* Every step keeps it.
LEMMA TraversalStepInv ==
  ASSUME TraversalInv, [TableStep]_tableVars PROVE TraversalInv'
<1>1. TableInv /\ TableInv'
  BY TableStepInv DEF TraversalInv
<1>2. WellFormed(table) /\ Sizeable(table) /\ table \in Tables
  BY <1>1 DEF TableInv, WellFormed, Chained
<1>3. (last \notin {Making, Idle} => Traversing(table, last, seen))
  BY DEF TraversalInv
<1>4. ASSUME NEW k \in Keys, NEW v \in Values \cup {Nil}, Assign(k, v) PROVE TraversalInv'
  <2>1. last' = last /\ seen' = seen /\ table' = Put(table, k, v)
    BY <1>4 DEF Assign
  <2>2. CASE last \in {Making, Idle}
    BY <2>1, <2>2, <1>1 DEF TraversalInv
  <2>3. CASE last \notin {Making, Idle}
    <3> DEFINE c == Normal(k)
               w == contents[c]
    <3>1. c \in Fields /\ c \in Storable /\ v \in Nat
      BY FieldsStorable
    <3>2. w # Nil
      BY <1>4, <2>3 DEF Assign
    <3>3. w = Stored(contents, c) /\ w \in Nat /\ Gives(table, c, w)
      BY <3>1, <1>1, StoredIsNat DEF TableInv, Stored
    <3> HIDE DEF c, w
    <3>4. Normal(k) \in Storable /\ Gives(table, Normal(k), w)
      BY <3>1, <3>3 DEF c
    <3>5. Kept(table, Put(table, k, v))
      BY <1>2, <3>1, <3>2, <3>3, <3>4, PresentIsKept
    <3>6. Traversing(table', last, seen)
      BY <1>2, <1>3, <2>1, <2>3, <3>5, KeptIsTraversed
    <3> QED  BY <3>6, <2>1, <1>1 DEF TraversalInv
  <2> QED  BY <2>2, <2>3
<1>5. ASSUME NEW n \in 0 .. MaxItems, NEW items \in [1 .. n -> Values \cup {Nil}], SetList(items)
      PROVE  TraversalInv'
  <2>1. last' = Idle
    BY <1>5 DEF SetList
  <2> QED  BY <2>1, <1>1 DEF TraversalInv
<1>6. ASSUME NEW i \in Removable, Collect({i}) PROVE TraversalInv'
  <2>1. last' = last /\ seen' = seen
    BY <1>6 DEF Collect
  <2>2. CASE last \in {Making, Idle}
    BY <2>1, <2>2, <1>1 DEF TraversalInv
  <2>3. CASE last \notin {Making, Idle}
    <3>1. /\ SameChains(table, table') /\ table'.array = table.array
          /\ \A j \in Nodes(table) : /\ table'.node[j].val = table.node[j].val
                                     /\ table'.node[j].dead = (table.node[j].dead \/ j \in {i})
      BY <1>1, <1>6, CollectKeeps
    <3>2. Collectable(table.node[i].key)
      BY DEF Removable
    <3>3. Kept(table, table')
      BY <3>1, <3>2 DEF Kept, SameChains
    <3>4. Traversing(table', last, seen)
      BY <1>2, <1>3, <2>3, <3>3, KeptIsTraversed
    <3> QED  BY <3>4, <2>1, <1>1 DEF TraversalInv
  <2> QED  BY <2>2, <2>3
<1>7. CASE Traverse
  <2>1. last' = NoKey /\ seen' = {} /\ table' = table
    BY <1>7 DEF Traverse
  <2>2. At(table, NoKey, 0)
    BY DEF At
  <2>3. Visited(table, {}, 0)
    <3>1. \A i \in 0 .. (Total(table) - 1) : ~(i < 0)
      OBVIOUS
    <3> QED  BY <3>1 DEF Visited
  <2>4. 0 \in 0 .. Total(table)
    BY <1>2, NodesShape, LenProperties DEF Total, Tables
  <2>5. Traversing(table, NoKey, {})
    BY <2>2, <2>3, <2>4 DEF Traversing
  <2> QED  BY <2>1, <2>5, <1>1 DEF TraversalInv
<1>8. CASE Visit
  <2> DEFINE e == TableNext(table, last)
  <2>1. table' = table /\ last' = e.key /\ seen' = (IF e.key = Idle THEN {} ELSE seen \cup {e.key})
    BY <1>8 DEF Visit
  <2>2. Traversing(table, last, seen)
    BY <1>3, <1>8 DEF Visit
  <2>3. PICK p \in 0 .. Total(table) :
          At(table, last, p) /\ Visited(table, seen, p) /\ seen \subseteq Storable
    BY <2>2 DEF Traversing
  <2>4. \/ e.key = Idle
        \/ e.key \in Storable /\ Traversing(table, e.key, seen \cup {e.key})
    BY <1>2, <2>3, NextIs
  <2> HIDE DEF e
  <2>5. CASE e.key = Idle
    BY <2>1, <2>5, <1>1 DEF TraversalInv
  <2>6. CASE e.key # Idle
    <3>1. Traversing(table, e.key, seen \cup {e.key})
      BY <2>4, <2>6
    <3>2. seen' = seen \cup {e.key}
      BY <2>1, <2>6
    <3>3. Traversing(table', last', seen')
      BY <3>1, <3>2, <2>1
    <3> QED  BY <3>3, <1>1 DEF TraversalInv
  <2> QED  BY <2>5, <2>6
<1>9. CASE UNCHANGED tableVars
  <2>1. table' = table /\ last' = last /\ seen' = seen
    BY <1>9 DEF tableVars
  <2> QED  BY <2>1, <1>1, <1>3 DEF TraversalInv
<1> QED  BY <1>4, <1>5, <1>6, <1>7, <1>8, <1>9 DEF TableStep

\* A traversal goes on from any key it has come to, even one that was cleared and collected
\* since; it meets no key twice; and when it ends it has met every field that is still there.
THEOREM TableTraversalIsComplete == TableSpec => []TraversalIsComplete
<1>1. ASSUME TraversalInv PROVE TraversalIsComplete
  <2> SUFFICES ASSUME last \notin {Making, Idle}
               PROVE  /\ FindIndex(table, last) # -1
                      /\ TableNext(table, last).key \notin seen
                      /\ TableNext(table, last).key = Idle =>
                           {k \in DOMAIN contents : contents[k] # Nil} \subseteq seen
    BY DEF TraversalIsComplete
  <2>1. TableInv /\ Traversing(table, last, seen)
    BY <1>1 DEF TraversalInv
  <2>2. WellFormed(table) /\ Sizeable(table) /\ table \in Tables
    BY <2>1 DEF TableInv, WellFormed, Chained
  <2>3. PICK p \in 0 .. Total(table) :
          At(table, last, p) /\ Visited(table, seen, p) /\ seen \subseteq Storable
    BY <2>1 DEF Traversing
  <2>4. FindIndex(table, last) # -1
    BY <2>2, <2>3, AtIsFound
  <2>5. Idle \notin Storable
    BY DEF Idle, Storable, Kinds
  <2> DEFINE e == TableNext(table, last)
             In == \A i \in 0 .. (Total(table) - 1) :
                     Entry(table, i).val # Nil => Entry(table, i).key \in seen
  <2>6. (e.key = Idle /\ In) \/ (e.key \in Storable /\ e.key \notin seen)
    BY <2>2, <2>3, NextIs
  <2> HIDE DEF e
  <2>7. e.key \notin seen
    BY <2>3, <2>5, <2>6
  <2>8. ASSUME e.key = Idle, NEW k \in DOMAIN contents, contents[k] # Nil PROVE k \in seen
    <3> DEFINE w == contents[k]
    <3>1. k \in Storable /\ w # Nil /\ Gives(table, k, w)
      <4>1. k \in Fields
        BY <2>1, <2>8 DEF TableInv
      <4> QED  BY <4>1, <2>1, <2>8, FieldsStorable DEF TableInv, Stored
    <3>2. SizeNode(table) \in Nat \ {0} /\ Nodes(table) = 0 .. (SizeNode(table) - 1)
          /\ Len(table.array) \in Nat
      BY <2>2, NodesShape, LenProperties DEF Tables
    <3> HIDE DEF w
    <3>3. \E i \in 0 .. (Total(table) - 1) : Entry(table, i).key = k /\ Entry(table, i).val # Nil
      <4>1. CASE InArray(table, k)
        <5> DEFINE i == k.n - 1
                   l == Len(table.array)
        <5>1. k = Index(k.n) /\ k.n \in 1 .. l /\ table.array[k.n] = w
          BY <3>1, <4>1, NormalKeys DEF InArray, Gives
        <5>2. i \in 0 .. (Total(table) - 1) /\ i < l /\ i + 1 = k.n
          BY <5>1, <3>2 DEF Total
        <5> HIDE DEF i
        <5>3. Entry(table, i).key = Index(i + 1) /\ Entry(table, i).val = table.array[i + 1]
          BY <2>2, <5>2, EntryIs
        <5>4. Entry(table, i).key = k /\ Entry(table, i).val # Nil
          BY <5>1, <5>2, <5>3, <3>1
        <5> QED  BY <5>2, <5>4
      <4>2. CASE ~InArray(table, k)
        <5>1. PICK q \in Nodes(table) : table.node[q].key = k /\ table.node[q].val = w
          BY <3>1, <4>2 DEF Gives
        <5> DEFINE i == q + Len(table.array)
        <5>2. i \in 0 .. (Total(table) - 1) /\ ~(i < Len(table.array)) /\ i - Len(table.array) = q
          <6> DEFINE l == Len(table.array)
                     z == SizeNode(table)
          <6>1. q \in 0 .. (z - 1) /\ z \in Nat /\ l \in Nat /\ i = q + l
            BY <5>1, <3>2
          <6> HIDE DEF l, z, i
          <6>2. i \in 0 .. ((l + z) - 1) /\ ~(i < l) /\ i - l = q
            BY <6>1
          <6> QED  BY <6>2 DEF l, z, Total
        <5> HIDE DEF i
        <5>3. Entry(table, i).key = table.node[i - Len(table.array)].key
              /\ Entry(table, i).val = table.node[i - Len(table.array)].val
          BY <2>2, <5>2, EntryIs
        <5>4. Entry(table, i).key = k /\ Entry(table, i).val # Nil
          BY <5>1, <5>2, <5>3, <3>1
        <5> QED  BY <5>2, <5>4
      <4> QED  BY <4>1, <4>2
    <3>4. In
      BY <2>5, <2>6, <2>8
    <3> QED  BY <3>3, <3>4
  <2> QED  BY <2>4, <2>7, <2>8 DEF e
<1>2. TableInit => TraversalInv
  BY TableInitInv DEF TableInit, TraversalInv
<1>3. TraversalInv /\ [TableStep]_tableVars => TraversalInv'
  BY TraversalStepInv
<1> QED  BY <1>1, <1>2, <1>3, PTL DEF TableSpec

-----------------------------------------------------------------------------
(* The run.                                                                *)

\* A history of one table, or a question while the table stays: a behaviour of Library is
\* one of a table.
THEOREM LibraryIsTable == Spec => TableSpec
<1>1. Init => TableInit
  BY DEF Init
<1>2. [Next]_vars => [TableStep]_tableVars
  BY DEF Next, Compute, vars
<1> QED  BY <1>1, <1>2, PTL DEF Spec, TableSpec

=============================================================================
