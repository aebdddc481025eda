-------------------------- MODULE CollectorLemmas --------------------------
(***************************************************************************)
(* What the operators of module Collector do, for every set of objects and *)
(* every content of theirs: what marking and propagating visit, what       *)
(* sweeping keeps, what convergence and clearing leave, and what is true   *)
(* at the end of the atomic step.                                          *)
(*                                                                         *)
(* Nothing here speaks of a behaviour.  The lemmas say what is true of a   *)
(* heap n that carries the marks and the gray lists of the collector, and  *)
(* of the lists of objects that its sweep passes over.                     *)
(***************************************************************************)
EXTENDS Collector, Recursion, FiniteSetTheorems, SequenceTheorems, TLAPS

-----------------------------------------------------------------------------
(* Objects, content and colours.                                           *)

\* The kinds of objects exclude each other, and no object is plain.
LEMMA Kinds ==
  /\ Main \notin Userdata \cup Strings \cup Tables \cup Closures /\ Main # Reg
  /\ Reg \notin Userdata \cup Strings \cup Tables \cup Closures
  /\ Tables \cap (Userdata \cup Closures \cup Strings) = {}
  /\ Userdata \cap (Closures \cup Strings) = {} /\ Closures \cap Strings = {}
  /\ Plain \notin Obj
  /\ {Main, Reg} \subseteq Obj /\ Tables \subseteq Obj /\ Userdata \subseteq Obj /\ Closures \subseteq Obj /\ Strings \subseteq Obj
BY CollectorAssumption DEF Obj

\* There are finitely many objects.
LEMMA ObjFinite == IsFiniteSet(Obj) /\ Cardinality(Obj) \in Nat
<1>1. IsFiniteSet({Main}) /\ IsFiniteSet({Reg})
  BY FS_Singleton
<1>2. IsFiniteSet({Main} \cup {Reg})
  BY <1>1, FS_Union
<1> DEFINE made == Tables \cup Userdata \cup Closures \cup Strings
<1>3. IsFiniteSet(made)
  BY CollectorAssumption
<1>4. IsFiniteSet(({Main} \cup {Reg}) \cup made)
  <2> HIDE DEF made
  <2> QED  BY <1>2, <1>3, FS_Union
<1>5. Obj = ({Main} \cup {Reg}) \cup made
  BY DEF Obj
<1>6. IsFiniteSet(Obj)
  BY <1>4, <1>5
<1> QED  BY <1>6, FS_CardinalityType

\* The size of a set of objects.
LEMMA SizeOf ==
  ASSUME NEW X \in SUBSET Obj
  PROVE  IsFiniteSet(X) /\ Cardinality(X) \in 0..Cardinality(Obj)
<1>1. IsFiniteSet(X) /\ Cardinality(X) <= Cardinality(Obj)
  BY ObjFinite, FS_Subset
<1>2. Cardinality(X) \in Nat
  BY <1>1, FS_CardinalityType
<1> QED  BY <1>1, <1>2, ObjFinite

\* A part of a set of objects is not larger, and smaller when it is not all of it.
LEMMA PartIsSmaller ==
  ASSUME NEW X \in SUBSET Obj, NEW Y \in SUBSET X
  PROVE  Cardinality(Y) <= Cardinality(X) /\ (Y # X => Cardinality(Y) < Cardinality(X))
<1>1. IsFiniteSet(X) /\ Cardinality(X) \in Nat
  BY SizeOf
<1>2. Cardinality(Y) <= Cardinality(X) /\ (Cardinality(X) = Cardinality(Y) => X = Y)
  BY <1>1, FS_Subset
<1>3. Cardinality(Y) \in Nat
  BY SizeOf
<1> QED  BY <1>1, <1>2, <1>3

\* What a script's objects can hold: strings nothing, the stack and a userdata values only.
Contents ==
  {en \in [Obj -> SUBSET (Value \X Value)] :
     /\ \A o \in {Main} \cup Userdata : \A e \in en[o] : e[1] = Plain
     /\ \A s \in Strings : en[s] = {}}

Content(en, o) == Keys(en, o) \cup Vals(en, o)

\* Whatever an object of L holds is in L.
Closed(en, L) == \A o \in L : Content(en, o) \subseteq L

\* The content of an object is objects.
LEMMA ContentIsObjects ==
  ASSUME NEW en \in Contents, NEW o \in Obj
  PROVE  /\ Keys(en, o) \subseteq Obj /\ Vals(en, o) \subseteq Obj
         /\ \A e \in en[o] : e[1] \in Obj \cup {Plain} /\ e[2] \in Obj \cup {Plain}
         /\ o \in {Main} \cup Userdata => Keys(en, o) = {}
         /\ o \in Strings => Content(en, o) = {}
<1>1. en[o] \in SUBSET (Value \X Value)
  BY DEF Contents
<1>2. \A e \in en[o] : e[1] \in Obj \cup {Plain} /\ e[2] \in Obj \cup {Plain}
  BY <1>1 DEF Value
<1>3. Keys(en, o) \subseteq Obj /\ Vals(en, o) \subseteq Obj
  BY <1>2 DEF Keys, Vals
<1>4. o \in {Main} \cup Userdata => Keys(en, o) = {}
  BY DEF Contents, Keys
<1>5. o \in Strings => Content(en, o) = {}
  BY DEF Contents, Keys, Vals, Content
<1> QED  BY <1>2, <1>3, <1>4, <1>5

\* Marks are what their type says.
LEMMA MarksType ==
  ASSUME NEW n \in Marks
  PROVE  /\ n.color \in [Obj -> Colors]
         /\ n.gray \subseteq Obj /\ n.grayagain \subseteq Obj /\ n.weak \subseteq Obj
         /\ n.ephemeron \subseteq Obj /\ n.allweak \subseteq Obj
         /\ Whites(n) \subseteq Obj
         /\ \A o \in Obj : o \in Whites(n) <=> IsWhite(n.color[o])
BY DEF Marks, Whites

-----------------------------------------------------------------------------
(* Marking an object.                                                      *)

\* The objects visited from white ones are those, and the white values of the userdata
\* among them; all of them are in a closed set that has the first ones.
LEMMA VisitedIs ==
  ASSUME NEW n \in Marks, NEW en \in Contents, NEW S \in SUBSET Whites(n)
  PROVE  LET X == Visited(n, en, S)
         IN  /\ S \subseteq X /\ X \subseteq Whites(n)
             /\ \A u \in X \cap Userdata : Vals(en, u) \cap Whites(n) \subseteq X
             /\ \A L \in SUBSET Obj : Closed(en, L) /\ S \subseteq L => X \subseteq L
<1> DEFINE next(X) == X \cup (Whites(n) \cap UNION {Vals(en, u) : u \in X \cap Userdata})
           visited[X \in SUBSET Obj] == IF next(X) = X THEN X ELSE visited[next(X)]
           step == [X \in SUBSET Obj |-> next(X)]
           stop == {X \in SUBSET Obj : next(X) = X}
           rank == [X \in SUBSET Obj |-> Cardinality(Obj \ X)]
<1>1. Whites(n) \subseteq Obj
  BY MarksType
<1> DEFINE led(X) == UNION {Vals(en, u) : u \in X \cap Userdata}
<1>a. \A X : next(X) = X \cup (Whites(n) \cap led(X))
  OBVIOUS
<1>b. \A X : \A v : v \in led(X) <=> \E u \in X \cap Userdata : v \in Vals(en, u)
  OBVIOUS
<1>2. \A X \in SUBSET Obj : next(X) \in SUBSET Obj /\ X \subseteq next(X)
  <2> HIDE DEF led, next
  <2> QED  BY <1>a, <1>1
<1>3. Ranked(SUBSET Obj, stop, step, rank, Cardinality(Obj))
  <2>1. step \in [SUBSET Obj -> SUBSET Obj]
    BY <1>2
  <2>2. rank \in [SUBSET Obj -> 0..Cardinality(Obj)]
    BY SizeOf
  <2>3. ASSUME NEW X \in SUBSET Obj, X \notin stop PROVE rank[step[X]] < rank[X]
    <3>1. next(X) \in SUBSET Obj /\ X \subseteq next(X) /\ next(X) # X
      BY <1>2, <2>3
    <3>2. Obj \ next(X) \in SUBSET (Obj \ X) /\ Obj \ next(X) # Obj \ X
      BY <3>1
    <3> HIDE DEF next
    <3> QED  BY <3>1, <3>2, PartIsSmaller
  <2> QED  BY <2>1, <2>2, <2>3 DEF Ranked
<1>4. \A g : g = [X \in SUBSET Obj |-> IF next(X) = X THEN X ELSE g[next(X)]] <=> Loop(g, SUBSET Obj, stop, step)
  <2> TAKE g
  <2>1. \A X \in SUBSET Obj : (IF next(X) = X THEN X ELSE g[next(X)]) = (IF X \in stop THEN X ELSE g[step[X]])
    BY <1>2
  <2> HIDE DEF next, stop, step
  <2> QED  BY <2>1 DEF Loop
<1>5. Loop(visited, SUBSET Obj, stop, step)
  <2>1. \E g : Loop(g, SUBSET Obj, stop, step)
    BY <1>3, ObjFinite, LoopExists
  <2> HIDE DEF next, stop, step
  <2> QED  BY <2>1, <1>4
<1>6. Visited(n, en, S) = visited[S]
  BY DEF Visited
<1> HIDE DEF visited
<1>7. ASSUME NEW I \in SUBSET SUBSET Obj, S \in I, \A X \in I : next(X) \in I
      PROVE  visited[S] \in I /\ next(visited[S]) = visited[S]
  <2>1. \A X \in I : X \notin stop => step[X] \in I
    BY <1>7
  <2>2. visited[S] \in I /\ visited[S] \in stop
    <3> HIDE DEF stop, step, rank
    <3> QED  BY <2>1, <1>3, <1>5, <1>7, ObjFinite, LoopStays
  <2> QED  BY <2>2
<1>8. S \subseteq visited[S] /\ visited[S] \subseteq Whites(n) /\ next(visited[S]) = visited[S]
  <2> DEFINE I == {X \in SUBSET Obj : S \subseteq X /\ X \subseteq Whites(n)}
  <2>1. S \in I /\ \A X \in I : next(X) \in I
    <3> HIDE DEF led, next
    <3> QED  BY <1>a, <1>1
  <2>2. I \in SUBSET SUBSET Obj
    OBVIOUS
  <2>3. visited[S] \in I /\ next(visited[S]) = visited[S]
    <3> HIDE DEF I, next
    <3> QED  BY <2>1, <2>2, <1>7
  <2> QED  BY <2>3
<1>9. ASSUME NEW L \in SUBSET Obj, Closed(en, L), S \subseteq L
      PROVE  visited[S] \subseteq L
  <2> DEFINE I == SUBSET L
  <2>1. \A o \in L : Vals(en, o) \subseteq L
    BY <1>9 DEF Closed, Content
  <2>2. S \in I /\ \A X \in I : next(X) \in I
    BY <1>9, <2>1
  <2>3. I \in SUBSET SUBSET Obj
    OBVIOUS
  <2>4. visited[S] \in I
    <3> HIDE DEF I, next
    <3> QED  BY <2>2, <2>3, <1>7
  <2> QED  BY <2>4
<1>10. \A u \in visited[S] \cap Userdata : Vals(en, u) \cap Whites(n) \subseteq visited[S]
  <2> HIDE DEF led, next
  <2> QED  BY <1>a, <1>b, <1>8
<1> HIDE DEF next
<1> QED  BY <1>6, <1>8, <1>9, <1>10

\* Colours go from white over gray to black only, and no list of marks but gray and
\* ephemeron loses an object.
Advanced(n, r) ==
  /\ \A o \in Obj : \/ r.color[o] = n.color[o]
                    \/ IsWhite(n.color[o]) /\ r.color[o] \in {"gray", "black"}
                    \/ n.color[o] = "gray" /\ r.color[o] = "black"
  /\ n.grayagain \subseteq r.grayagain /\ n.weak \subseteq r.weak /\ n.allweak \subseteq r.allweak

\* Objects that have lost their white.
Fresh(n, r) == Whites(n) \ Whites(r)

\* What Mark does: the white objects of S, and the values of userdata visited so, become
\* gray and are linked, or black when there is nothing in them left to visit.
MarkedFrom(n, r, en, S) ==
  /\ r \in Marks
  /\ r.grayagain = n.grayagain /\ r.weak = n.weak /\ r.ephemeron = n.ephemeron /\ r.allweak = n.allweak
  /\ S \cap Whites(r) = {}
  /\ \A o \in Obj : r.color[o] = IF o \notin Fresh(n, r) THEN n.color[o]
                                 ELSE IF o \in Strings \cup Userdata THEN "black" ELSE "gray"
  /\ r.gray = n.gray \cup (Fresh(n, r) \ (Strings \cup Userdata))
  /\ \A u \in Fresh(n, r) \cap Userdata : Vals(en, u) \cap Whites(r) = {}
  /\ \A L \in SUBSET Obj : Closed(en, L) /\ S \cap Whites(n) \subseteq L => Fresh(n, r) \subseteq L

\* Mark does that.
LEMMA MarkIs ==
  ASSUME NEW n \in Marks, NEW en \in Contents, NEW S
  PROVE  MarkedFrom(n, Mark(n, en, S), en, S)
<1> DEFINE X == Visited(n, en, S \cap Whites(n))
           r == Mark(n, en, S)
           black == X \cap (Strings \cup Userdata)
<1>1. /\ S \cap Whites(n) \subseteq X /\ X \subseteq Whites(n)
      /\ \A u \in X \cap Userdata : Vals(en, u) \cap Whites(n) \subseteq X
      /\ \A L \in SUBSET Obj : Closed(en, L) /\ S \cap Whites(n) \subseteq L => X \subseteq L
  BY VisitedIs, SMTT(30)
<1>2. /\ n.color \in [Obj -> Colors] /\ Whites(n) \subseteq Obj
      /\ \A o \in Obj : o \in Whites(n) <=> IsWhite(n.color[o])
      /\ n.gray \subseteq Obj
  BY MarksType
<1> DEFINE col == [o \in Obj |-> IF o \in black THEN "black" ELSE IF o \in X THEN "gray" ELSE n.color[o]]
           gray == n.gray \cup (X \ black)
<1>3. r = [n EXCEPT !.color = col, !.gray = gray]
  BY DEF Mark
<1>4. col \in [Obj -> Colors] /\ gray \in SUBSET Obj
  <2>1. \A o \in Obj : n.color[o] \in Colors /\ "black" \in Colors /\ "gray" \in Colors
    BY <1>2 DEF Colors
  <2>2. gray \in SUBSET Obj
    BY <1>1, <1>2
  <2> QED  BY <2>1, <2>2
<1> HIDE DEF col, gray
<1>5. /\ r \in Marks /\ r.color = col /\ r.gray = gray
      /\ r.grayagain = n.grayagain /\ r.weak = n.weak /\ r.ephemeron = n.ephemeron /\ r.allweak = n.allweak
  BY <1>3, <1>4 DEF Marks
<1>6. \A o \in Obj : o \in Whites(r) <=> IsWhite(col[o])
  BY <1>5, MarksType
<1>7. \A o \in Obj : o \in Whites(r) <=> o \in Whites(n) /\ o \notin X
  BY <1>2, <1>6 DEF col, IsWhite
<1>8. Whites(r) \subseteq Obj
  BY <1>5, MarksType
<1>9. Fresh(n, r) = X
  BY <1>1, <1>2, <1>7, <1>8 DEF Fresh
<1>10. S \cap Whites(r) = {}
  BY <1>1, <1>7, <1>8
<1>11. \A o \in Obj : r.color[o] = IF o \notin X THEN n.color[o]
                                   ELSE IF o \in Strings \cup Userdata THEN "black" ELSE "gray"
  BY <1>5 DEF col
<1>12. r.gray = n.gray \cup (X \ (Strings \cup Userdata))
  BY <1>5 DEF gray
<1>13. \A u \in X \cap Userdata : Vals(en, u) \cap Whites(r) = {}
  BY <1>1, <1>7, <1>8
<1> HIDE DEF r, X
<1>14. MarkedFrom(n, r, en, S)
  BY <1>1, <1>5, <1>9, <1>10, <1>11, <1>12, <1>13 DEF MarkedFrom
<1> QED  BY <1>14 DEF r

\* What is marked so has advanced.
LEMMA MarkAdvances ==
  ASSUME NEW n \in Marks, NEW r, NEW en, NEW S, MarkedFrom(n, r, en, S)
  PROVE  /\ r \in Marks /\ Advanced(n, r)
         /\ Whites(r) \subseteq Whites(n)
         /\ \A o \in Obj : o \notin Fresh(n, r) => r.color[o] = n.color[o]
<1>1. r \in Marks
  BY DEF MarkedFrom
<1>2. /\ \A o \in Obj : o \in Whites(n) <=> IsWhite(n.color[o])
      /\ \A o \in Obj : o \in Whites(r) <=> IsWhite(r.color[o])
      /\ Whites(r) \subseteq Obj
  BY <1>1, MarksType
<1>3. \A o \in Obj : o \notin Fresh(n, r) => r.color[o] = n.color[o]
  BY DEF MarkedFrom
<1>4. \A o \in Fresh(n, r) : IsWhite(n.color[o]) /\ r.color[o] \in {"gray", "black"}
  <2> TAKE o \in Fresh(n, r)
  <2>1. o \in Whites(n) /\ o \in Obj
    BY DEF Fresh, Whites
  <2>2. r.color[o] = IF o \in Strings \cup Userdata THEN "black" ELSE "gray"
    BY <2>1 DEF MarkedFrom
  <2> QED  BY <1>2, <2>1, <2>2
<1>5. Advanced(n, r)
  BY <1>3, <1>4 DEF Advanced, MarkedFrom
<1>6. Whites(r) \subseteq Whites(n)
  BY <1>2, <1>3, <1>4 DEF Fresh
<1> QED  BY <1>1, <1>3, <1>5, <1>6

\* Advancing is reflexive and transitive, and takes whites away only.
LEMMA AdvancedStays ==
  ASSUME NEW n \in Marks, NEW r \in Marks
  PROVE  /\ Advanced(n, n)
         /\ Advanced(n, r) => Whites(r) \subseteq Whites(n)
         /\ \A q \in Marks : Advanced(n, r) /\ Advanced(r, q) => Advanced(n, q)
         /\ \A q \in Marks : Advanced(n, r) /\ Advanced(r, q) /\ q.color = n.color => r.color = n.color
<1>1. Advanced(n, n)
  BY DEF Advanced
<1>2. Advanced(n, r) => Whites(r) \subseteq Whites(n)
  BY MarksType DEF Advanced, IsWhite
<1>3. ASSUME NEW q \in Marks, Advanced(n, r), Advanced(r, q) PROVE Advanced(n, q)
  BY <1>3 DEF Advanced, IsWhite
<1>4. ASSUME NEW q \in Marks, Advanced(n, r), Advanced(r, q), q.color = n.color PROVE r.color = n.color
  <2>1. r.color \in [Obj -> Colors] /\ n.color \in [Obj -> Colors]
    BY MarksType
  <2>2. ASSUME NEW o \in Obj PROVE r.color[o] = n.color[o]
    BY <1>4 DEF Advanced, IsWhite
  <2> QED  BY <2>1, <2>2
<1> QED  BY <1>1, <1>2, <1>3, <1>4

-----------------------------------------------------------------------------
(* Traversing an object.                                                   *)

Weak(o, w) == IsTable(o) /\ mode[o] = w

\* Nothing is left to mark in o, or o is linked where atomic comes back to it.
Done(n, en, o) ==
  /\ Weak(o, "v") => /\ (Keys(en, o) \cup (Vals(en, o) \cap Strings)) \cap Whites(n) = {}
                     /\ o \in n.weak \/ \A v \in Vals(en, o) : ~Cleared(n, v)
  /\ Weak(o, "k") => /\ Keys(en, o) \cap Strings \cap Whites(n) = {}
                     /\ \/ o \in n.ephemeron
                        \/ /\ Vals(en, o) \cap Whites(n) = {}
                           /\ o \in n.allweak \/ \A k \in Keys(en, o) : ~Cleared(n, k)
  /\ Weak(o, "kv") => o \in n.allweak \/ Content(en, o) \cap Whites(n) = {}
  /\ ~(Weak(o, "v") \/ Weak(o, "k") \/ Weak(o, "kv")) => Content(en, o) \cap Whites(n) = {}

\* No entry of o has a key that is there and a value that is not.
Settled(n, en, o) == \A e \in en[o] : ~Cleared(n, e[1]) => e[2] \notin Whites(n)

\* An object that was gray is traversed within atomic.
Visits(n, r, en, o) ==
  /\ r \in Marks /\ Advanced(n, r)
  /\ n.ephemeron \subseteq r.ephemeron
  /\ r.grayagain \cup r.weak \cup r.ephemeron \cup r.allweak
       \subseteq {o} \cup n.grayagain \cup n.weak \cup n.ephemeron \cup n.allweak
  /\ n.gray \ {o} \subseteq r.gray
  /\ r.gray \subseteq (n.gray \ {o}) \cup Fresh(n, r)
  /\ Done(r, en, o)
  /\ \A p \in Fresh(n, r) : p = o \/ p \in r.gray \/ Done(r, en, p)
  /\ \A p \in r.ephemeron : \/ p \in n.ephemeron
                            \/ p = o /\ Weak(p, "k") /\ (r.color = n.color => Settled(r, en, p))
  /\ \A p \in r.weak : p \in n.weak \/ Weak(p, "v")
  /\ \A p \in r.allweak : \/ p \in n.allweak \/ Weak(p, "kv")
                          \/ Weak(p, "k") /\ Vals(en, p) \cap Whites(r) = {}
  /\ \A L \in SUBSET Obj : Closed(en, L) /\ o \in L => Fresh(n, r) \subseteq L

\* Cleared is about colours only.
LEMMA ClearedStays ==
  ASSUME NEW n \in Marks, NEW r \in Marks, NEW v \in Obj \cup {Plain}
  PROVE  /\ Whites(r) \subseteq Whites(n) /\ Cleared(r, v) => Cleared(n, v)
         /\ r.color = n.color => (Cleared(r, v) <=> Cleared(n, v)) /\ Whites(r) = Whites(n)
         /\ Cleared(n, v) <=> v \in Whites(n) \ Strings
         /\ v # Plain => v \in Obj
<1>1. Cleared(n, v) <=> v \in Whites(n) \ Strings
  BY Kinds DEF Cleared, Whites
<1>2. Cleared(r, v) <=> v \in Whites(r) \ Strings
  BY Kinds DEF Cleared, Whites
<1>3. r.color = n.color => Whites(r) = Whites(n)
  BY DEF Whites
<1> QED  BY <1>1, <1>2, <1>3

\* What is done for an object stays done.
LEMMA DoneStays ==
  ASSUME NEW n \in Marks, NEW r \in Marks, NEW en \in Contents, NEW ed \in Contents, NEW o \in Obj,
         ed[o] \subseteq en[o],
         Whites(r) \subseteq Whites(n), n.weak \subseteq r.weak, n.allweak \subseteq r.allweak,
         o \in n.ephemeron => o \in r.ephemeron,
         Done(n, en, o)
  PROVE  Done(r, ed, o)
<1>1. Keys(ed, o) \subseteq Keys(en, o) /\ Vals(ed, o) \subseteq Vals(en, o)
  BY DEF Keys, Vals
<1>2. Content(ed, o) \subseteq Content(en, o)
  BY <1>1 DEF Content
<1>3. Keys(en, o) \subseteq Obj /\ Vals(en, o) \subseteq Obj
  BY ContentIsObjects
<1>4. \A v \in Keys(en, o) \cup Vals(en, o) : Cleared(r, v) => Cleared(n, v)
  BY <1>3, ClearedStays
<1> QED  BY <1>1, <1>2, <1>4 DEF Done

\* Strings, and userdata whose values are marked, are done.
LEMMA BlackIsDone ==
  ASSUME NEW n \in Marks, NEW en \in Contents, NEW o \in Obj,
         \/ o \in Strings
         \/ o \in Userdata /\ Vals(en, o) \cap Whites(n) = {}
  PROVE  Done(n, en, o)
<1>1. ~IsTable(o)
  BY Kinds DEF IsTable
<1>2. Content(en, o) \cap Whites(n) = {}
  BY ContentIsObjects DEF Content
<1> QED  BY <1>1, <1>2 DEF Done, Weak

\* An object leaves the list gray (marks b), is perhaps made black, Mark visits S of its
\* content (marks q), and it is perhaps linked (marks r).
Passage(n, b, q, r, en, S, o) ==
  /\ b.gray = n.gray \ {o} /\ (b.color = n.color \/ b.color = [n.color EXCEPT ![o] = "black"])
  /\ MarkedFrom(b, q, en, S) /\ S \subseteq Content(en, o) \cup {Plain}
  /\ r.color = q.color /\ r.gray = q.gray
  /\ n.grayagain \subseteq r.grayagain /\ n.weak \subseteq r.weak
  /\ n.ephemeron \subseteq r.ephemeron /\ n.allweak \subseteq r.allweak
  /\ r.grayagain \cup r.weak \cup r.ephemeron \cup r.allweak
       \subseteq {o} \cup n.grayagain \cup n.weak \cup n.ephemeron \cup n.allweak
  /\ r.ephemeron \subseteq n.ephemeron \cup {o}
  /\ Done(r, en, o)
  /\ (o \in n.ephemeron \/ o \notin r.ephemeron \/ (Weak(o, "k") /\ (r.color = n.color => Settled(r, en, o))))
  /\ (r.weak = n.weak \/ (r.weak \subseteq n.weak \cup {o} /\ Weak(o, "v")))
  /\ (r.allweak = n.allweak \/ (r.allweak \subseteq n.allweak \cup {o} /\ Weak(o, "k") /\ Vals(en, o) \cap Whites(r) = {}))

\* Such a passage is a visit.
LEMMA VisitIs ==
  ASSUME NEW n \in Marks, NEW b \in Marks, NEW q \in Marks, NEW r \in Marks, NEW en \in Contents,
         NEW S, NEW o \in n.gray, Passage(n, b, q, r, en, S, o)
  PROVE  Visits(n, r, en, o)
<1> USE DEF Passage
<1>0. o \in Obj
  BY MarksType
<1>1. /\ n.color \in [Obj -> Colors]
      /\ Whites(n) \subseteq Obj /\ Whites(b) \subseteq Obj /\ Whites(q) \subseteq Obj
      /\ \A p \in Obj : /\ p \in Whites(n) <=> IsWhite(n.color[p])
                        /\ p \in Whites(b) <=> IsWhite(b.color[p])
                        /\ p \in Whites(q) <=> IsWhite(q.color[p])
  BY MarksType
<1>2. \A p \in Obj : b.color[p] = n.color[p] \/ (p = o /\ b.color[p] = "black")
  BY <1>1
<1>3. Advanced(b, q) /\ \A p \in Obj : p \notin Fresh(b, q) => q.color[p] = b.color[p]
  BY MarkAdvances
<1>4. Whites(r) = Whites(q)
  BY DEF Whites
<1>5. n.color[o] \in Colors
  BY <1>0, <1>1
<1>6. ASSUME NEW p \in Obj
      PROVE  \/ r.color[p] = n.color[p]
             \/ IsWhite(n.color[p]) /\ r.color[p] \in {"gray", "black"}
             \/ n.color[p] = "gray" /\ r.color[p] = "black"
  <2>1. CASE b.color[p] = n.color[p]
    BY <2>1, <1>3 DEF Advanced
  <2>2. CASE p = o /\ b.color[p] = "black"
    <3>1. r.color[p] = "black"
      BY <2>2, <1>3 DEF Advanced, IsWhite
    <3> QED  BY <3>1, <2>2, <1>5 DEF Colors, IsWhite
  <2> QED  BY <2>1, <2>2, <1>2
<1>7. Advanced(n, r)
  BY <1>6 DEF Advanced
<1>8. \A p \in Fresh(n, r) : p = o \/ p \in Fresh(b, q)
  BY <1>1, <1>2, <1>4 DEF Fresh
<1>9. Fresh(b, q) \subseteq Fresh(n, r)
  <2>1. \A p \in Obj : p \in Whites(b) => p \in Whites(n)
    BY <1>1, <1>2 DEF IsWhite
  <2> QED  BY <2>1, <1>1, <1>4 DEF Fresh
<1>10. r.gray = (n.gray \ {o}) \cup (Fresh(b, q) \ (Strings \cup Userdata))
  BY DEF MarkedFrom
<1>11. ASSUME NEW p \in Fresh(n, r) PROVE p = o \/ p \in r.gray \/ Done(r, en, p)
  <2>1. CASE p = o
    BY <2>1
  <2>2. CASE p \in Fresh(b, q) \ (Strings \cup Userdata)
    BY <2>2, <1>10
  <2>3. CASE p \in Fresh(b, q) /\ p \in Strings \cup Userdata
    <3>1. p \in Obj
      BY <1>1 DEF Fresh
    <3>2. p \in Userdata => Vals(en, p) \cap Whites(r) = {}
      BY <2>3, <1>4 DEF MarkedFrom
    <3>3. Done(r, en, p)
      BY <2>3, <3>1, <3>2, BlackIsDone
    <3> QED  BY <3>3
  <2> QED  BY <2>1, <2>2, <2>3, <1>8
<1>12. ASSUME NEW L \in SUBSET Obj, Closed(en, L), o \in L PROVE Fresh(n, r) \subseteq L
  <2>1. Content(en, o) \subseteq L
    BY <1>12 DEF Closed
  <2>2. Plain \notin Whites(b)
    BY <1>1, Kinds
  <2>3. S \cap Whites(b) \subseteq L
    BY <2>1, <2>2
  <2>4. Fresh(b, q) \subseteq L
    BY <2>3, <1>12 DEF MarkedFrom
  <2> QED  BY <2>4, <1>8, <1>12
<1>13. ASSUME NEW p \in r.ephemeron
       PROVE  p \in n.ephemeron \/ (p = o /\ Weak(p, "k") /\ (r.color = n.color => Settled(r, en, p)))
  OBVIOUS
<1>14. n.gray \ {o} \subseteq r.gray /\ r.gray \subseteq (n.gray \ {o}) \cup Fresh(n, r)
  BY <1>9, <1>10
<1>15. /\ \A p \in r.weak : p \in n.weak \/ Weak(p, "v")
       /\ \A p \in r.allweak : p \in n.allweak \/ Weak(p, "kv") \/ (Weak(p, "k") /\ Vals(en, p) \cap Whites(r) = {})
  OBVIOUS
<1> QED  BY <1>7, <1>11, <1>12, <1>13, <1>14, <1>15 DEF Visits

Gone(n, o) == [n EXCEPT !.gray = @ \ {o}]
Blackened(n, o) == [n EXCEPT !.color[o] = "black"]
GrayAgain(n, o) == [n EXCEPT !.grayagain = @ \cup {o}]

\* The ways to traverse an object within atomic.
LEMMA TraverseCases ==
  ASSUME NEW n, NEW en, NEW o
  PROVE  /\ o = Main => Traverse(n, en, o, TRUE) = Mark(GrayAgain(Gone(n, o), o), en, Vals(en, o))
         /\ o # Main /\ Weak(o, "v") => Traverse(n, en, o, TRUE) = TraverseWeakValue(Gone(n, o), en, o, TRUE)
         /\ o # Main /\ Weak(o, "k") => Traverse(n, en, o, TRUE) = TraverseEphemeron(Gone(n, o), en, o, TRUE)
         /\ o # Main /\ Weak(o, "kv") => Traverse(n, en, o, TRUE) = [Gone(n, o) EXCEPT !.allweak = @ \cup {o}]
         /\ o # Main /\ ~(Weak(o, "v") \/ Weak(o, "k") \/ Weak(o, "kv"))
              => Traverse(n, en, o, TRUE) = Mark(Blackened(Gone(n, o), o), en, Keys(en, o) \cup Vals(en, o))
<1> DEFINE gone == Gone(n, o)
           kv == [gone EXCEPT !.allweak = @ \cup {o}]
           r == Traverse(n, en, o, TRUE)
<1>1. r = CASE o = Main -> Mark(GrayAgain(gone, o), en, Vals(en, o))
            [] IsTable(o) /\ mode[o] = "v" -> TraverseWeakValue(gone, en, o, TRUE)
            [] IsTable(o) /\ mode[o] = "k" -> TraverseEphemeron(gone, en, o, TRUE)
            [] IsTable(o) /\ mode[o] = "kv" -> kv
            [] OTHER -> Mark(Blackened(gone, o), en, Keys(en, o) \cup Vals(en, o))
  BY DEF Traverse, Gone, Blackened, GrayAgain
<1>2. o = Main => ~IsTable(o)
  BY Kinds DEF IsTable
<1>3. "v" # "k" /\ "v" # "kv" /\ "k" # "kv"
  OBVIOUS
<1> HIDE DEF gone, r, kv
<1>4. /\ o = Main => r = Mark(GrayAgain(gone, o), en, Vals(en, o))
      /\ o # Main /\ Weak(o, "v") => r = TraverseWeakValue(gone, en, o, TRUE)
      /\ o # Main /\ Weak(o, "k") => r = TraverseEphemeron(gone, en, o, TRUE)
      /\ o # Main /\ Weak(o, "kv") => r = kv
      /\ o # Main /\ ~(Weak(o, "v") \/ Weak(o, "k") \/ Weak(o, "kv"))
           => r = Mark(Blackened(gone, o), en, Keys(en, o) \cup Vals(en, o))
  BY <1>1, <1>2, <1>3 DEF Weak
<1> QED  BY <1>4 DEF gone, r, kv

\* The main thread stays on a list.
LEMMA TraverseMain ==
  ASSUME NEW n, NEW en
  PROVE  Traverse(n, en, Main, TRUE) = Mark(GrayAgain(Gone(n, Main), Main), en, Vals(en, Main))
<1>1. ~IsTable(Main)
  BY Kinds DEF IsTable
<1> QED  BY <1>1 DEF Traverse, Gone, GrayAgain

\* Other objects become black.
LEMMA TraverseOther ==
  ASSUME NEW n, NEW en, NEW o, o # Main, ~Weak(o, "v"), ~Weak(o, "k"), ~Weak(o, "kv")
  PROVE  Traverse(n, en, o, TRUE) = Mark(Blackened(Gone(n, o), o), en, Keys(en, o) \cup Vals(en, o))
BY DEF Traverse, Gone, Blackened, Weak

\* The ways to traverse an object before.
LEMMA EarlyCases ==
  ASSUME NEW n, NEW en, NEW o
  PROVE  /\ o = Main => Traverse(n, en, o, FALSE) = Mark(GrayAgain(Gone(n, o), o), en, Vals(en, o))
         /\ o # Main /\ Weak(o, "v") => Traverse(n, en, o, FALSE) = TraverseWeakValue(Gone(n, o), en, o, FALSE)
         /\ o # Main /\ Weak(o, "k") => Traverse(n, en, o, FALSE) = TraverseEphemeron(Gone(n, o), en, o, FALSE)
         /\ o # Main /\ Weak(o, "kv") => Traverse(n, en, o, FALSE) = [Gone(n, o) EXCEPT !.allweak = @ \cup {o}]
         /\ o # Main /\ ~(Weak(o, "v") \/ Weak(o, "k") \/ Weak(o, "kv"))
              => Traverse(n, en, o, FALSE) = Mark(Blackened(Gone(n, o), o), en, Keys(en, o) \cup Vals(en, o))
<1> DEFINE gone == Gone(n, o)
           kv == [gone EXCEPT !.allweak = @ \cup {o}]
           r == Traverse(n, en, o, FALSE)
<1>1. r = CASE o = Main -> Mark(GrayAgain(gone, o), en, Vals(en, o))
            [] IsTable(o) /\ mode[o] = "v" -> TraverseWeakValue(gone, en, o, FALSE)
            [] IsTable(o) /\ mode[o] = "k" -> TraverseEphemeron(gone, en, o, FALSE)
            [] IsTable(o) /\ mode[o] = "kv" -> kv
            [] OTHER -> Mark(Blackened(gone, o), en, Keys(en, o) \cup Vals(en, o))
  BY DEF Traverse, Gone, Blackened, GrayAgain
<1>2. o = Main => ~IsTable(o)
  BY Kinds DEF IsTable
<1>3. "v" # "k" /\ "v" # "kv" /\ "k" # "kv"
  OBVIOUS
<1> HIDE DEF gone, r, kv
<1>4. /\ o = Main => r = Mark(GrayAgain(gone, o), en, Vals(en, o))
      /\ o # Main /\ Weak(o, "v") => r = TraverseWeakValue(gone, en, o, FALSE)
      /\ o # Main /\ Weak(o, "k") => r = TraverseEphemeron(gone, en, o, FALSE)
      /\ o # Main /\ Weak(o, "kv") => r = kv
      /\ o # Main /\ ~(Weak(o, "v") \/ Weak(o, "k") \/ Weak(o, "kv"))
           => r = Mark(Blackened(gone, o), en, Keys(en, o) \cup Vals(en, o))
  BY <1>1, <1>2, <1>3 DEF Weak
<1> QED  BY <1>4 DEF gone, r, kv

\* The main thread stays on a list.
LEMMA EarlyMain ==
  ASSUME NEW n, NEW en
  PROVE  Traverse(n, en, Main, FALSE) = Mark(GrayAgain(Gone(n, Main), Main), en, Vals(en, Main))
<1>1. ~IsTable(Main)
  BY Kinds DEF IsTable
<1> QED  BY <1>1 DEF Traverse, Gone, GrayAgain

\* Other objects become black.
LEMMA EarlyOther ==
  ASSUME NEW n, NEW en, NEW o, o # Main, ~Weak(o, "v"), ~Weak(o, "k"), ~Weak(o, "kv")
  PROVE  Traverse(n, en, o, FALSE) = Mark(Blackened(Gone(n, o), o), en, Keys(en, o) \cup Vals(en, o))
BY DEF Traverse, Gone, Blackened, Weak

\* Every way to traverse an object within atomic is a visit.
LEMMA TraverseVisits ==
  ASSUME NEW n \in Marks, NEW en \in Contents, NEW o \in n.gray
  PROVE  Visits(n, Traverse(n, en, o, TRUE), en, o)
<1> DEFINE gone == Gone(n, o)
           r == Traverse(n, en, o, TRUE)
<1>0. o \in Obj /\ Keys(en, o) \subseteq Obj /\ Vals(en, o) \subseteq Obj
  BY MarksType, ContentIsObjects
<1>1. /\ gone \in Marks /\ gone.gray = n.gray \ {o} /\ gone.color = n.color
      /\ gone.grayagain = n.grayagain /\ gone.weak = n.weak
      /\ gone.ephemeron = n.ephemeron /\ gone.allweak = n.allweak
      /\ Whites(gone) = Whites(n)
  BY DEF Marks, Whites, Gone
<1>2. n.color \in [Obj -> Colors] /\ "black" \in Colors
  BY MarksType DEF Colors
<1>3. Content(en, o) \subseteq Obj
  BY <1>0 DEF Content
<1>4. \A x \in Marks, v \in Content(en, o) \cup {Plain} : Cleared(x, v) <=> v \in Whites(x) \ Strings
  BY <1>3, ClearedStays
<1> HIDE DEF gone
<1>5. CASE o = Main
  <2> DEFINE b == GrayAgain(gone, o)
  <2>1. /\ b \in Marks /\ b.gray = gone.gray /\ b.color = gone.color /\ b.grayagain = n.grayagain \cup {o}
        /\ b.weak = n.weak /\ b.ephemeron = n.ephemeron /\ b.allweak = n.allweak
    BY <1>0, <1>1 DEF Marks, GrayAgain
  <2> HIDE DEF b
  <2>2. r = Mark(b, en, Vals(en, o))
    <3>1. Traverse(n, en, o, TRUE) = Mark(GrayAgain(Gone(n, o), o), en, Vals(en, o))
      BY <1>5, TraverseMain
    <3> QED  BY <3>1 DEF gone, b
  <2>3. MarkedFrom(b, r, en, Vals(en, o))
    BY <2>1, <2>2, MarkIs
  <2>4. Done(r, en, o)
    <3>1. ~IsTable(o) /\ Keys(en, o) = {}
      BY <1>5, Kinds, ContentIsObjects DEF IsTable
    <3>2. Vals(en, o) \cap Whites(r) = {}
      BY <2>3 DEF MarkedFrom
    <3> QED  BY <3>1, <3>2 DEF Done, Weak, Content
  <2>5. Vals(en, o) \subseteq Content(en, o)
    BY DEF Content
  <2>6. /\ r \in Marks /\ r.grayagain = n.grayagain \cup {o} /\ r.weak = n.weak
        /\ r.ephemeron = n.ephemeron /\ r.allweak = n.allweak
    BY <2>1, <2>3 DEF MarkedFrom
  <2> HIDE DEF r
  <2>7. b.gray = n.gray \ {o} /\ b.color = n.color
    BY <1>1, <2>1
  <2>8. /\ Vals(en, o) \subseteq Content(en, o) \cup {Plain}
        /\ n.grayagain \subseteq r.grayagain /\ n.weak \subseteq r.weak
        /\ n.ephemeron \subseteq r.ephemeron /\ n.allweak \subseteq r.allweak
        /\ r.grayagain \cup r.weak \cup r.ephemeron \cup r.allweak
             \subseteq {o} \cup n.grayagain \cup n.weak \cup n.ephemeron \cup n.allweak
        /\ r.ephemeron \subseteq n.ephemeron \cup {o}
        /\ o \in n.ephemeron \/ o \notin r.ephemeron
    BY <2>5, <2>6
  <2>9. Passage(n, b, r, r, en, Vals(en, o), o)
    BY <2>3, <2>4, <2>6, <2>7, <2>8 DEF Passage
  <2>10. Visits(n, r, en, o)
    BY <2>1, <2>6, <2>9, VisitIs
  <2> QED  BY <2>10 DEF r
<1>6. CASE o # Main /\ Weak(o, "v")
  <2> DEFINE S == Keys(en, o) \cup (Vals(en, o) \cap Strings)
             q == Mark(gone, en, S)
  <2>1. r = IF \E v \in Vals(en, o) : Cleared(q, v) THEN [q EXCEPT !.weak = @ \cup {o}] ELSE q
    <3>1. r = TraverseWeakValue(gone, en, o, TRUE)
      BY <1>6, TraverseCases DEF gone
    <3> QED  BY <3>1 DEF TraverseWeakValue
  <2>2. MarkedFrom(gone, q, en, S)
    BY <1>1, MarkIs
  <2> HIDE DEF q
  <2>3. /\ q \in Marks /\ q.grayagain = n.grayagain /\ q.weak = n.weak
        /\ q.ephemeron = n.ephemeron /\ q.allweak = n.allweak
        /\ S \cap Whites(q) = {}
    BY <1>1, <2>2 DEF MarkedFrom
  <2>4. /\ r \in Marks /\ r.color = q.color /\ r.gray = q.gray /\ r.grayagain = n.grayagain
        /\ n.weak \subseteq r.weak /\ r.weak \subseteq n.weak \cup {o}
        /\ r.ephemeron = n.ephemeron /\ r.allweak = n.allweak
        /\ o \in r.weak \/ \A v \in Vals(en, o) : ~Cleared(q, v)
    <3>1. [q EXCEPT !.weak = @ \cup {o}] \in Marks
      BY <1>0, <2>3 DEF Marks
    <3> HIDE DEF r
    <3>2. CASE \E v \in Vals(en, o) : Cleared(q, v)
      <4>1. r = [q EXCEPT !.weak = @ \cup {o}]
        BY <2>1, <3>2
      <4> QED  BY <2>3, <3>1, <4>1 DEF Marks
    <3>3. CASE ~(\E v \in Vals(en, o) : Cleared(q, v))
      <4>1. r = q
        BY <2>1, <3>3
      <4> QED  BY <2>3, <3>3, <4>1
    <3> QED  BY <3>2, <3>3
  <2>5. Done(r, en, o)
    <3>1. Whites(r) = Whites(q) /\ \A v \in Vals(en, o) : Cleared(r, v) <=> Cleared(q, v)
      BY <2>4 DEF Whites, Cleared
    <3>2. ~Weak(o, "k") /\ ~Weak(o, "kv")
      BY <1>6 DEF Weak
    <3> HIDE DEF r
    <3> QED  BY <1>6, <2>3, <2>4, <3>1, <3>2 DEF Done
  <2>6. S \subseteq Content(en, o)
    BY DEF Content
  <2> HIDE DEF r, S
  <2>7. /\ S \subseteq Content(en, o) \cup {Plain}
        /\ n.grayagain \subseteq r.grayagain /\ n.weak \subseteq r.weak
        /\ n.ephemeron \subseteq r.ephemeron /\ n.allweak \subseteq r.allweak
        /\ r.grayagain \cup r.weak \cup r.ephemeron \cup r.allweak
             \subseteq {o} \cup n.grayagain \cup n.weak \cup n.ephemeron \cup n.allweak
        /\ r.ephemeron \subseteq n.ephemeron \cup {o}
        /\ o \in n.ephemeron \/ o \notin r.ephemeron
    BY <2>4, <2>6
  <2>8. Passage(n, gone, q, r, en, S, o)
    BY <1>1, <1>6, <2>2, <2>4, <2>5, <2>7 DEF Passage
  <2>9. Visits(n, r, en, o)
    BY <1>1, <2>3, <2>4, <2>8, VisitIs
  <2> QED  BY <2>9 DEF r
<1>7. CASE o # Main /\ Weak(o, "k")
  <2> DEFINE white1 == {e \in en[o] : Cleared(gone, e[1])}
             S == {e[2] : e \in en[o] \ white1} \cup (Keys(en, o) \cap Strings)
             q == Mark(gone, en, S)
             linked == IF \E e \in white1 : e[2] \in Whites(gone) THEN [q EXCEPT !.ephemeron = @ \cup {o}]
                       ELSE IF white1 # {} THEN [q EXCEPT !.allweak = @ \cup {o}]
                       ELSE q
  <2>1. r = linked
    <3>1. r = TraverseEphemeron(gone, en, o, TRUE)
      BY <1>7, TraverseCases DEF gone
    <3> QED  BY <3>1 DEF TraverseEphemeron
  <2>2. MarkedFrom(gone, q, en, S)
    BY <1>1, MarkIs
  <2> HIDE DEF q, linked
  <2>3. /\ q \in Marks /\ q.grayagain = n.grayagain /\ q.weak = n.weak
        /\ q.ephemeron = n.ephemeron /\ q.allweak = n.allweak
        /\ S \cap Whites(q) = {} /\ Whites(q) \subseteq Whites(gone)
    <3>1. Whites(q) \subseteq Whites(gone)
      BY <1>1, <2>2, MarkAdvances
    <3> QED  BY <1>1, <2>2, <3>1 DEF MarkedFrom
  <2>4. \A e \in en[o] : e[1] \in Content(en, o) \cup {Plain} /\ e[2] \in Content(en, o) \cup {Plain}
    BY DEF Content, Keys, Vals
  <2>5. S \subseteq Content(en, o) \cup {Plain}
    <3> HIDE DEF white1
    <3> DEFINE T == Content(en, o) \cup {Plain}
    <3>0. \A e \in en[o] : e[2] \in T
      BY <2>4
    <3> HIDE DEF T
    <3>1. {e[2] : e \in en[o] \ white1} \subseteq T
      BY <3>0
    <3>2. Keys(en, o) \cap Strings \subseteq T
      BY DEF Content, T
    <3> QED  BY <3>1, <3>2 DEF T
  <2>6. \A e \in en[o] : e \notin white1 => e[2] \notin Whites(q)
    BY <2>3
  <2>7. Keys(en, o) \cap Strings \cap Whites(q) = {}
    BY <2>3
  <2>8. \A k \in Keys(en, o) : Cleared(q, k) => Cleared(gone, k)
    BY <1>1, <1>3, <2>3, ClearedStays DEF Content
  <2>9. \A k \in Keys(en, o) : \E e \in en[o] : e[1] = k
    BY DEF Keys
  <2>10. \A v \in Vals(en, o) : \E e \in en[o] : e[2] = v
    BY DEF Vals
  <2> HIDE DEF S
  <2>11. CASE \E e \in white1 : e[2] \in Whites(gone)
    <3>1. r = [q EXCEPT !.ephemeron = @ \cup {o}]
      BY <2>1, <2>11 DEF linked
    <3> HIDE DEF r
    <3>2. /\ r \in Marks /\ r.color = q.color /\ r.gray = q.gray /\ r.grayagain = q.grayagain
          /\ r.weak = q.weak /\ r.allweak = q.allweak /\ r.ephemeron = q.ephemeron \cup {o}
          /\ Whites(r) = Whites(q)
      BY <1>0, <2>3, <3>1 DEF Marks, Whites
    <3>3. Done(r, en, o)
      <4>1. ~Weak(o, "v") /\ ~Weak(o, "kv") /\ o \in r.ephemeron
        BY <1>7, <3>2 DEF Weak
      <4> QED  BY <1>7, <2>7, <3>2, <4>1 DEF Done
    <3>4. r.color = n.color => Settled(r, en, o)
      <4> SUFFICES ASSUME r.color = n.color, NEW e \in en[o], ~Cleared(r, e[1]) PROVE e[2] \notin Whites(r)
        BY DEF Settled
      <4>1. ~Cleared(gone, e[1])
        BY <1>1, <3>2 DEF Cleared
      <4>2. e \notin white1
        BY <4>1
      <4> QED  BY <2>6, <3>2, <4>2
    <3>5. Passage(n, gone, q, r, en, S, o)
      <4>1. /\ n.grayagain \subseteq r.grayagain /\ n.weak \subseteq r.weak
            /\ n.ephemeron \subseteq r.ephemeron /\ n.allweak \subseteq r.allweak
            /\ r.grayagain \cup r.weak \cup r.ephemeron \cup r.allweak
                 \subseteq {o} \cup n.grayagain \cup n.weak \cup n.ephemeron \cup n.allweak
            /\ r.ephemeron \subseteq n.ephemeron \cup {o}
            /\ r.weak = n.weak /\ r.allweak = n.allweak
        BY <2>3, <3>2
      <4> QED  BY <1>1, <1>7, <2>2, <2>5, <3>2, <3>3, <3>4, <4>1 DEF Passage
    <3>6. Visits(n, r, en, o)
      BY <1>1, <2>3, <3>2, <3>5, VisitIs
    <3> QED  BY <3>6 DEF r
  <2>12. CASE ~(\E e \in white1 : e[2] \in Whites(gone))
    <3>1. r = IF white1 # {} THEN [q EXCEPT !.allweak = @ \cup {o}] ELSE q
      BY <2>1, <2>12 DEF linked
    <3>2. /\ r \in Marks /\ r.color = q.color /\ r.gray = q.gray /\ r.grayagain = q.grayagain
          /\ r.weak = q.weak /\ r.ephemeron = q.ephemeron
          /\ q.allweak \subseteq r.allweak /\ r.allweak \subseteq q.allweak \cup {o}
          /\ Whites(r) = Whites(q) /\ (white1 # {} => o \in r.allweak)
      <4> HIDE DEF r, white1
      <4>1. CASE white1 # {}
        <5>1. r = [q EXCEPT !.allweak = @ \cup {o}]
          BY <3>1, <4>1
        <5> QED  BY <1>0, <2>3, <5>1 DEF Marks, Whites
      <4>2. CASE white1 = {}
        <5>1. r = q
          BY <3>1, <4>2
        <5> QED  BY <2>3, <4>2, <5>1
      <4> QED  BY <4>1, <4>2
    <3> HIDE DEF r
    <3>3. Done(r, en, o)
      <4>1. ~Weak(o, "v") /\ ~Weak(o, "kv")
        BY <1>7 DEF Weak
      <4>2. \A e \in en[o] : e[2] \notin Whites(q)
        BY <2>3, <2>6, <2>12
      <4>3. Vals(en, o) \cap Whites(r) = {}
        BY <2>10, <3>2, <4>2
      <4>4. o \in r.allweak \/ \A k \in Keys(en, o) : ~Cleared(r, k)
        <5>1. \A k \in Keys(en, o) : Cleared(r, k) => Cleared(q, k)
          BY <3>2 DEF Cleared
        <5>2. ASSUME NEW k \in Keys(en, o), Cleared(r, k) PROVE white1 # {}
          BY <2>8, <2>9, <5>1, <5>2
        <5> QED  BY <3>2, <5>2
      <4> QED  BY <1>7, <2>7, <3>2, <4>1, <4>3, <4>4 DEF Done
    <3>6. Vals(en, o) \cap Whites(r) = {}
      BY <2>3, <2>6, <2>10, <2>12, <3>2
    <3>4. Passage(n, gone, q, r, en, S, o)
      <4>1. /\ n.grayagain \subseteq r.grayagain /\ n.weak \subseteq r.weak
            /\ n.ephemeron \subseteq r.ephemeron /\ n.allweak \subseteq r.allweak
            /\ r.grayagain \cup r.weak \cup r.ephemeron \cup r.allweak
                 \subseteq {o} \cup n.grayagain \cup n.weak \cup n.ephemeron \cup n.allweak
            /\ r.ephemeron \subseteq n.ephemeron \cup {o}
            /\ o \in n.ephemeron \/ o \notin r.ephemeron
            /\ r.weak = n.weak /\ r.allweak \subseteq n.allweak \cup {o}
        BY <2>3, <3>2
      <4> QED  BY <1>1, <1>7, <2>2, <2>5, <3>2, <3>3, <3>6, <4>1 DEF Passage
    <3>5. Visits(n, r, en, o)
      BY <1>1, <2>3, <3>2, <3>4, VisitIs
    <3> QED  BY <3>5 DEF r
  <2> QED  BY <2>11, <2>12
<1>8. CASE o # Main /\ Weak(o, "kv")
  <2>1. r = [gone EXCEPT !.allweak = @ \cup {o}]
    BY <1>8, TraverseCases, ZenonT(30) DEF gone
  <2> HIDE DEF r
  <2>2. /\ r \in Marks /\ r.color = n.color /\ r.gray = gone.gray /\ r.grayagain = n.grayagain
        /\ r.weak = n.weak /\ r.ephemeron = n.ephemeron /\ r.allweak = n.allweak \cup {o}
        /\ Whites(r) = Whites(n)
    BY <1>0, <1>1, <2>1 DEF Marks, Whites
  <2>3. Done(r, en, o)
    <3>1. ~Weak(o, "v") /\ ~Weak(o, "k") /\ o \in r.allweak
      BY <1>8, <2>2 DEF Weak
    <3> QED  BY <1>8, <3>1 DEF Done
  <2>4. Fresh(n, r) = {}
    BY <2>2 DEF Fresh
  <2>5. Advanced(n, r)
    BY <2>2 DEF Advanced
  <2>6. Visits(n, r, en, o)
    BY <1>1, <1>8, <2>2, <2>3, <2>4, <2>5 DEF Visits
  <2> QED  BY <2>6 DEF r
<1>9. CASE o # Main /\ ~(Weak(o, "v") \/ Weak(o, "k") \/ Weak(o, "kv"))
  <2> DEFINE b == Blackened(gone, o)
             S == Content(en, o)
  <2>1. r = Mark(b, en, S)
    <3>1. Traverse(n, en, o, TRUE) = Mark(Blackened(Gone(n, o), o), en, Keys(en, o) \cup Vals(en, o))
      BY <1>9, TraverseOther
    <3> QED  BY <3>1 DEF gone, Content
  <2>2. /\ b \in Marks /\ b.gray = n.gray \ {o} /\ b.color = [n.color EXCEPT ![o] = "black"]
        /\ b.grayagain = n.grayagain /\ b.weak = n.weak
        /\ b.ephemeron = n.ephemeron /\ b.allweak = n.allweak
    BY <1>0, <1>1, <1>2 DEF Marks, Blackened
  <2> HIDE DEF b
  <2>3. MarkedFrom(b, r, en, S)
    BY <2>1, <2>2, MarkIs, ZenonT(30)
  <2> HIDE DEF r
  <2>4. /\ r \in Marks /\ r.grayagain = n.grayagain /\ r.weak = n.weak
        /\ r.ephemeron = n.ephemeron /\ r.allweak = n.allweak
        /\ S \cap Whites(r) = {}
    BY <2>2, <2>3 DEF MarkedFrom
  <2>5. Done(r, en, o)
    BY <1>9, <2>4 DEF Done
  <2>6. Passage(n, b, r, r, en, S, o)
    <3>1. /\ n.grayagain \subseteq r.grayagain /\ n.weak \subseteq r.weak
          /\ n.ephemeron \subseteq r.ephemeron /\ n.allweak \subseteq r.allweak
          /\ r.grayagain \cup r.weak \cup r.ephemeron \cup r.allweak
               \subseteq {o} \cup n.grayagain \cup n.weak \cup n.ephemeron \cup n.allweak
          /\ r.ephemeron \subseteq n.ephemeron \cup {o}
          /\ o \in n.ephemeron \/ o \notin r.ephemeron
          /\ S \subseteq Content(en, o) \cup {Plain}
          /\ r.weak = n.weak /\ r.allweak = n.allweak
      BY <2>4
    <3> QED  BY <2>2, <2>3, <2>5, <3>1 DEF Passage
  <2>7. Visits(n, r, en, o)
    BY <2>2, <2>4, <2>6, VisitIs
  <2> QED  BY <2>7 DEF r
<1> QED  BY <1>5, <1>6, <1>7, <1>8, <1>9

-----------------------------------------------------------------------------
(* Traversing until no object is gray.                                     *)

\* Nothing but objects of L has been marked or linked.
Within(n, L) ==
  /\ Obj \ Whites(n) \subseteq L
  /\ n.gray \cup n.grayagain \cup n.weak \cup n.ephemeron \cup n.allweak \subseteq L

\* What is marked is done, but for the list gray and the objects of K.
Pending(n, en, K) == \A o \in Obj : o \in Whites(n) \/ o \in n.gray \/ o \in K \/ Done(n, en, o)

\* The lists hold marked objects, those of weak tables the tables of a mode.  No value of
\* a table with weak keys is left to mark when it is with those that are weak in both.
Sorted(n, en) ==
  /\ (n.gray \cup n.grayagain \cup n.weak \cup n.ephemeron \cup n.allweak) \cap Whites(n) = {}
  /\ \A o \in n.weak : Weak(o, "v")
  /\ \A o \in n.ephemeron : Weak(o, "k")
  /\ \A o \in n.allweak : Weak(o, "kv") \/ (Weak(o, "k") /\ Vals(en, o) \cap Whites(n) = {})

\* The marks r come from n by traversing gray objects.
Traversed(n, r, en, L, K) ==
  /\ r \in Marks /\ Advanced(n, r) /\ n.ephemeron \subseteq r.ephemeron
  /\ Within(r, L) /\ Pending(r, en, K) /\ (Sorted(n, en) => Sorted(r, en))
  /\ \A o \in r.ephemeron : o \in n.ephemeron \/ (Weak(o, "k") /\ (r.color = n.color => Settled(r, en, o)))

\* One more visit.
LEMMA TraversedStays ==
  ASSUME NEW n \in Marks, NEW x \in Marks, NEW r \in Marks, NEW en \in Contents,
         NEW L \in SUBSET Obj, NEW K, Closed(en, L),
         Traversed(n, x, en, L, K), NEW o \in x.gray, Visits(x, r, en, o)
  PROVE  Traversed(n, r, en, L, K)
<1>1. Advanced(n, x) /\ Advanced(x, r)
  BY DEF Traversed, Visits
<1>2. Advanced(n, r) /\ (r.color = n.color => x.color = n.color)
  BY <1>1, AdvancedStays
<1>3. Whites(r) \subseteq Whites(x) /\ Whites(x) \subseteq Obj /\ Whites(r) \subseteq Obj
  BY <1>1, AdvancedStays, MarksType
<1>4. n.ephemeron \subseteq r.ephemeron /\ x.ephemeron \subseteq r.ephemeron
  BY DEF Traversed, Visits
<1>5. o \in L
  BY DEF Traversed, Within
<1>6. Within(r, L)
  <2>1. Fresh(x, r) \subseteq L
    BY <1>5 DEF Visits
  <2>2. Obj \ Whites(r) \subseteq L
    BY <1>3, <2>1 DEF Fresh, Traversed, Within
  <2>3. r.gray \subseteq L
    BY <2>1 DEF Visits, Traversed, Within
  <2>4. r.grayagain \cup r.weak \cup r.ephemeron \cup r.allweak \subseteq L
    BY <1>5 DEF Visits, Traversed, Within
  <2> QED  BY <2>2, <2>3, <2>4 DEF Within
<1>7. Pending(r, en, K)
  <2> SUFFICES ASSUME NEW p \in Obj, p \notin Whites(r), p \notin r.gray, p \notin K
               PROVE  Done(r, en, p)
    BY DEF Pending
  <2>1. CASE p = o
    BY <2>1 DEF Visits
  <2>2. CASE p # o /\ p \in Whites(x)
    BY <2>2 DEF Visits, Fresh
  <2>3. CASE p # o /\ p \notin Whites(x)
    <3>1. Done(x, en, p)
      BY <2>3 DEF Visits, Traversed, Pending
    <3>2. x.weak \subseteq r.weak /\ x.allweak \subseteq r.allweak /\ (p \in x.ephemeron => p \in r.ephemeron)
      BY <1>1, <1>4 DEF Advanced
    <3> QED  BY <1>3, <3>1, <3>2, DoneStays
  <2> QED  BY <2>1, <2>2, <2>3
<1>8. ASSUME NEW p \in r.ephemeron, p \notin n.ephemeron
      PROVE  Weak(p, "k") /\ (r.color = n.color => Settled(r, en, p))
  <2>1. r.color = n.color => x.color = r.color
    BY <1>2
  <2>2. CASE p \in x.ephemeron
    <3>1. Weak(p, "k") /\ (x.color = n.color => Settled(x, en, p))
      BY <1>8, <2>2 DEF Traversed
    <3>2. r.color = x.color /\ Settled(x, en, p) => Settled(r, en, p)
      BY DEF Settled, Cleared, Whites
    <3> QED  BY <2>1, <3>1, <3>2
  <2>3. CASE p \notin x.ephemeron
    BY <2>1, <2>3 DEF Visits
  <2> QED  BY <2>2, <2>3
<1>9. ASSUME Sorted(n, en) PROVE Sorted(r, en)
  <2>1. Sorted(x, en)
    BY <1>9 DEF Traversed
  <2>2. o \notin Whites(r)
    BY <1>3, <2>1 DEF Sorted
  <2>3. r.gray \cap Whites(r) = {}
    BY <1>3, <2>1 DEF Sorted, Visits, Fresh
  <2>4. (r.grayagain \cup r.weak \cup r.ephemeron \cup r.allweak) \cap Whites(r) = {}
    BY <1>3, <2>1, <2>2 DEF Sorted, Visits
  <2>5. /\ \A p \in r.weak : Weak(p, "v")
        /\ \A p \in r.ephemeron : Weak(p, "k")
        /\ \A p \in r.allweak : Weak(p, "kv") \/ (Weak(p, "k") /\ Vals(en, p) \cap Whites(r) = {})
    BY <1>3, <2>1 DEF Sorted, Visits
  <2> QED  BY <2>3, <2>4, <2>5 DEF Sorted
<1> QED  BY <1>2, <1>4, <1>6, <1>7, <1>8, <1>9 DEF Traversed

\* How much is left to mark: a white object may still become gray and then be traversed.
Left(n) == 2 * Cardinality(Whites(n)) + Cardinality(n.gray)

\* That is a number, with a bound for all marks.
LEMMA LeftType ==
  ASSUME NEW n \in Marks
  PROVE  Left(n) \in 0..(3 * Cardinality(Obj))
<1>1. Cardinality(Whites(n)) \in 0..Cardinality(Obj) /\ Cardinality(n.gray) \in 0..Cardinality(Obj)
  BY MarksType, SizeOf
<1> QED  BY <1>1, ObjFinite DEF Left

\* A visit makes it smaller.
LEMMA VisitFalls ==
  ASSUME NEW n \in Marks, NEW en, NEW o \in n.gray, NEW r, Visits(n, r, en, o)
  PROVE  Left(r) < Left(n)
<1> DEFINE fresh == Fresh(n, r)
           W == Whites(n)
           V == Whites(r)
           G == n.gray
           H == r.gray
<1>1. r \in Marks /\ Advanced(n, r)
  BY DEF Visits
<1>2. W \in SUBSET Obj /\ V \in SUBSET Obj /\ V \subseteq W /\ G \in SUBSET Obj /\ H \in SUBSET Obj
  BY <1>1, MarksType, AdvancedStays
<1>3. H \subseteq (G \ {o}) \cup (W \ V)
  BY DEF Visits, Fresh
<1> HIDE DEF W, V, G, H
<1>4. /\ IsFiniteSet(W) /\ IsFiniteSet(V) /\ IsFiniteSet(G) /\ IsFiniteSet(H)
      /\ Cardinality(W) \in Nat /\ Cardinality(V) \in Nat /\ Cardinality(G) \in Nat /\ Cardinality(H) \in Nat
  BY <1>2, SizeOf
<1>5. W \cap V = V
  BY <1>2
<1>6. IsFiniteSet(W \ V) /\ Cardinality(W \ V) = Cardinality(W) - Cardinality(V)
  BY <1>4, <1>5, FS_Difference
<1>7. o \in G
  BY DEF G
<1>8. IsFiniteSet(G \ {o}) /\ Cardinality(G \ {o}) = Cardinality(G) - 1
  BY <1>4, <1>7, FS_RemoveElement
<1>9. Cardinality((G \ {o}) \cup (W \ V)) <= Cardinality(G) - 1 + Cardinality(W) - Cardinality(V)
  <2> DEFINE A == G \ {o}
             B == W \ V
  <2> HIDE DEF A, B
  <2>1. IsFiniteSet(A) /\ IsFiniteSet(B)
    BY <1>6, <1>8 DEF A, B
  <2>2. Cardinality(A \cup B) = Cardinality(A) + Cardinality(B) - Cardinality(A \cap B)
    BY <2>1, FS_Union
  <2>3. Cardinality(A \cap B) \in Nat /\ Cardinality(A) \in Nat /\ Cardinality(B) \in Nat
    BY <2>1, FS_Intersection, FS_CardinalityType
  <2>4. Cardinality(A \cup B) <= Cardinality(A) + Cardinality(B)
    BY <2>2, <2>3
  <2>5. Cardinality(A) = Cardinality(G) - 1 /\ Cardinality(B) = Cardinality(W) - Cardinality(V)
    BY <1>6, <1>8 DEF A, B
  <2> QED  BY <1>4, <2>4, <2>5 DEF A, B
<1>10. Cardinality(H) <= Cardinality((G \ {o}) \cup (W \ V))
  <2>1. (G \ {o}) \cup (W \ V) \in SUBSET Obj
    BY <1>2
  <2> QED  BY <1>3, <2>1, PartIsSmaller
<1>11. Cardinality((G \ {o}) \cup (W \ V)) \in Nat
  <2>1. (G \ {o}) \cup (W \ V) \in SUBSET Obj
    BY <1>2
  <2> QED  BY <2>1, SizeOf
<1>12. Cardinality(V) <= Cardinality(W)
  BY <1>2, PartIsSmaller
<1>13. 2 * Cardinality(V) + Cardinality(H) < 2 * Cardinality(W) + Cardinality(G)
  BY <1>4, <1>9, <1>10, <1>11, <1>12
<1> QED  BY <1>13 DEF Left, V, W, G, H

\* From marks within a closed set, PropagateAll traverses what is gray until nothing is.
LEMMA PropagateAllIs ==
  ASSUME NEW n \in Marks, NEW en \in Contents
  PROVE  /\ PropagateAll(n, en) \in Marks /\ PropagateAll(n, en).gray = {}
         /\ \A L \in SUBSET Obj : \A K : Closed(en, L) /\ Within(n, L) /\ Pending(n, en, K)
              => Traversed(n, PropagateAll(n, en), en, L, K)
<1> DEFINE pick(x) == CHOOSE o \in x.gray : TRUE
           all[x \in Marks] == IF x.gray = {} THEN x ELSE all[Traverse(x, en, CHOOSE o \in x.gray : TRUE, TRUE)]
           stop == {x \in Marks : x.gray = {}}
           step == [x \in Marks |-> IF x.gray = {} THEN x ELSE Traverse(x, en, pick(x), TRUE)]
           rank == [x \in Marks |-> Left(x)]
           bound == 3 * Cardinality(Obj)
<1>0. bound \in Nat
  BY ObjFinite
<1>1. \A x \in Marks : x.gray # {} => pick(x) \in x.gray
  OBVIOUS
<1> HIDE DEF pick
<1>2. ASSUME NEW x \in Marks, x.gray # {}
      PROVE  Visits(x, Traverse(x, en, pick(x), TRUE), en, pick(x)) /\ Traverse(x, en, pick(x), TRUE) \in Marks
  <2>1. Visits(x, Traverse(x, en, pick(x), TRUE), en, pick(x))
    BY <1>1, <1>2, TraverseVisits
  <2> QED  BY <2>1 DEF Visits
<1>3. Ranked(Marks, stop, step, rank, bound)
  <2>1. step \in [Marks -> Marks]
    BY <1>2
  <2>2. rank \in [Marks -> 0..bound]
    BY LeftType
  <2>3. ASSUME NEW x \in Marks, x \notin stop PROVE rank[step[x]] < rank[x]
    <3>1. x.gray # {}
      BY <2>3
    <3>2. Left(Traverse(x, en, pick(x), TRUE)) < Left(x)
      BY <1>1, <1>2, <3>1, VisitFalls
    <3> QED  BY <1>2, <3>1, <3>2
  <2> HIDE DEF stop, step, rank, bound
  <2> QED  BY <2>1, <2>2, <2>3 DEF Ranked
<1>4. \A g : g = [x \in Marks |-> IF x.gray = {} THEN x ELSE g[Traverse(x, en, pick(x), TRUE)]] <=> Loop(g, Marks, stop, step)
  <2> TAKE g
  <2>1. \A x \in Marks : (IF x.gray = {} THEN x ELSE g[Traverse(x, en, pick(x), TRUE)]) = (IF x \in stop THEN x ELSE g[step[x]])
    OBVIOUS
  <2> HIDE DEF stop, step
  <2> QED  BY <2>1 DEF Loop
<1>5. Loop(all, Marks, stop, step)
  <2>1. \E g : Loop(g, Marks, stop, step)
    <3> HIDE DEF stop, step, rank, bound
    <3> QED  BY <1>0, <1>3, LoopExists
  <2> HIDE DEF stop, step
  <2> QED  BY <2>1, <1>4 DEF pick
<1>6. PropagateAll(n, en) = all[n]
  BY DEF PropagateAll
<1> HIDE DEF all
<1>7. ASSUME NEW I \in SUBSET Marks, n \in I, \A x \in I : x.gray # {} => Traverse(x, en, pick(x), TRUE) \in I
      PROVE  all[n] \in I /\ all[n].gray = {}
  <2>1. \A x \in I : x \notin stop => step[x] \in I
    BY <1>7
  <2>2. all[n] \in I /\ all[n] \in stop
    <3> HIDE DEF stop, step, rank, bound
    <3> QED  BY <2>1, <1>0, <1>3, <1>5, <1>7, LoopStays
  <2> QED  BY <2>2
<1>8. all[n] \in Marks /\ all[n].gray = {}
  <2>1. \A x \in Marks : x.gray # {} => Traverse(x, en, pick(x), TRUE) \in Marks
    BY <1>2
  <2> QED  BY <2>1, <1>7
<1>9. ASSUME NEW L \in SUBSET Obj, NEW K, Closed(en, L), Within(n, L), Pending(n, en, K)
      PROVE  Traversed(n, all[n], en, L, K)
  <2> DEFINE I == {x \in Marks : Traversed(n, x, en, L, K)}
  <2>1. n \in I
    BY <1>9, AdvancedStays DEF Traversed
  <2>2. ASSUME NEW x \in I, x.gray # {} PROVE Traverse(x, en, pick(x), TRUE) \in I
    <3>1. x \in Marks /\ Traversed(n, x, en, L, K)
      OBVIOUS
    <3> HIDE DEF I
    <3>2. Traversed(n, Traverse(x, en, pick(x), TRUE), en, L, K)
      BY <1>1, <1>2, <1>9, <2>2, <3>1, TraversedStays
    <3> QED  BY <1>2, <2>2, <3>1, <3>2 DEF I
  <2>3. I \in SUBSET Marks
    OBVIOUS
  <2>4. all[n] \in I
    <3> HIDE DEF I
    <3> QED  BY <1>7, <2>1, <2>2, <2>3
  <2> QED  BY <2>4
<1> QED  BY <1>6, <1>8, <1>9

-----------------------------------------------------------------------------
(* Ephemerons.                                                             *)

\* Traversing first one part and then another.
LEMMA TraversedThen ==
  ASSUME NEW n \in Marks, NEW x \in Marks, NEW r \in Marks, NEW en \in Contents,
         NEW L, NEW J, NEW K, Traversed(n, x, en, L, J), Traversed(x, r, en, L, K)
  PROVE  Traversed(n, r, en, L, K)
<1>1. Advanced(n, x) /\ Advanced(x, r)
  BY DEF Traversed
<1>2. Advanced(n, r) /\ (r.color = n.color => x.color = n.color)
  BY <1>1, AdvancedStays
<1>3. n.ephemeron \subseteq r.ephemeron
  BY DEF Traversed
<1>4. ASSUME NEW p \in r.ephemeron, p \notin n.ephemeron
      PROVE  Weak(p, "k") /\ (r.color = n.color => Settled(r, en, p))
  <2>1. CASE p \in x.ephemeron
    <3>1. Weak(p, "k") /\ (x.color = n.color => Settled(x, en, p))
      BY <1>4, <2>1 DEF Traversed
    <3>2. r.color = x.color /\ Settled(x, en, p) => Settled(r, en, p)
      BY DEF Settled, Cleared, Whites
    <3> QED  BY <1>2, <3>1, <3>2
  <2>2. CASE p \notin x.ephemeron
    <3>1. Weak(p, "k") /\ (r.color = x.color => Settled(r, en, p))
      BY <2>2 DEF Traversed
    <3> QED  BY <1>2, <3>1
  <2> QED  BY <2>1, <2>2
<1> QED  BY <1>2, <1>3, <1>4 DEF Traversed

\* A table of the list ephemeron is traversed as if it were gray.
LEMMA EphemeronAsGray ==
  ASSUME NEW x \in Marks, NEW en, NEW o \in Obj, x.gray = {}, Weak(o, "k")
  PROVE  LET y == [x EXCEPT !.gray = {o}]
         IN  y \in Marks /\ TraverseEphemeron(x, en, o, TRUE) = Traverse(y, en, o, TRUE)
<1> DEFINE y == [x EXCEPT !.gray = {o}]
<1>1. y \in Marks /\ y.gray = {o}
  BY DEF Marks
<1>2. Gone(y, o) = [y EXCEPT !.gray = {}]
  BY <1>1 DEF Gone
<1>3. [y EXCEPT !.gray = {}] = x
  BY DEF Marks
<1>4. Gone(y, o) = x
  BY <1>2, <1>3
<1> HIDE DEF y
<1>5. o # Main
  BY Kinds DEF Weak, IsTable
<1>6. Traverse(y, en, o, TRUE) = TraverseEphemeron(Gone(y, o), en, o, TRUE)
  BY <1>5, TraverseCases
<1> QED  BY <1>1, <1>4, <1>6 DEF y

\* So much for one of them.
LEMMA EphemeronVisited ==
  ASSUME NEW n \in Marks, NEW x \in Marks, NEW en \in Contents, NEW L \in SUBSET Obj, NEW K,
         Closed(en, L), NEW o \in L, Weak(o, "k"), x.gray = {}, o \notin Whites(x),
         Traversed(n, x, en, L, K \cup {o})
  PROVE  /\ TraverseEphemeron(x, en, o, TRUE) \in Marks
         /\ Traversed(n, TraverseEphemeron(x, en, o, TRUE), en, L, K)
<1> DEFINE y == [x EXCEPT !.gray = {o}]
           r == Traverse(y, en, o, TRUE)
<1>1. y \in Marks /\ TraverseEphemeron(x, en, o, TRUE) = r
  BY EphemeronAsGray
<1>2. /\ y.gray = {o} /\ y.color = x.color /\ y.grayagain = x.grayagain /\ y.weak = x.weak
      /\ y.ephemeron = x.ephemeron /\ y.allweak = x.allweak /\ Whites(y) = Whites(x)
  BY DEF Marks, Whites
<1> HIDE DEF y
<1>3. Visits(y, r, en, o)
  BY <1>1, <1>2, TraverseVisits
<1>4. Traversed(n, y, en, L, K)
  <2>1. Advanced(n, y) /\ n.ephemeron \subseteq y.ephemeron
    BY <1>2 DEF Traversed, Advanced
  <2>2. Within(y, L)
    BY <1>2 DEF Traversed, Within
  <2>3. Pending(y, en, K)
    <3> SUFFICES ASSUME NEW p \in Obj, p \notin Whites(y), p \notin y.gray, p \notin K
                 PROVE  Done(y, en, p)
      BY DEF Pending
    <3>1. Done(x, en, p)
      BY <1>2 DEF Traversed, Pending
    <3> QED  BY <1>1, <1>2, <3>1, DoneStays
  <2>4. \A p \in y.ephemeron : p \in n.ephemeron \/ (Weak(p, "k") /\ (y.color = n.color => Settled(y, en, p)))
    <3>1. \A p : Settled(x, en, p) => Settled(y, en, p)
      BY <1>2 DEF Settled, Cleared
    <3> QED  BY <1>2, <3>1 DEF Traversed
  <2>5. Sorted(n, en) => Sorted(y, en)
    BY <1>2 DEF Traversed, Sorted
  <2> QED  BY <1>1, <2>1, <2>2, <2>3, <2>4, <2>5 DEF Traversed
<1>5. r \in Marks
  BY <1>3 DEF Visits
<1> HIDE DEF r
<1>6. Traversed(n, r, en, L, K)
  BY <1>1, <1>2, <1>3, <1>4, <1>5, TraversedStays
<1> QED  BY <1>1, <1>5, <1>6

\* Whatever is traversed as an ephemeron, marks only advance.
LEMMA EphemeronAdvances ==
  ASSUME NEW x \in Marks, NEW en \in Contents, NEW o \in Obj
  PROVE  TraverseEphemeron(x, en, o, TRUE) \in Marks /\ Advanced(x, TraverseEphemeron(x, en, o, TRUE))
<1> DEFINE white1 == {e \in en[o] : Cleared(x, e[1])}
           q == Mark(x, en, {e[2] : e \in en[o] \ white1} \cup (Keys(en, o) \cap Strings))
           r == TraverseEphemeron(x, en, o, TRUE)
<1>1. q \in Marks /\ Advanced(x, q)
  BY MarkIs, MarkAdvances
<1>2. \/ r = [q EXCEPT !.ephemeron = @ \cup {o}]
      \/ r = [q EXCEPT !.allweak = @ \cup {o}]
      \/ r = q
  BY DEF TraverseEphemeron
<1> HIDE DEF r, q, white1
<1>3. r \in Marks /\ r.color = q.color /\ q.grayagain \subseteq r.grayagain
      /\ q.weak \subseteq r.weak /\ q.allweak \subseteq r.allweak
  <2>1. CASE r = [q EXCEPT !.ephemeron = @ \cup {o}]
    BY <1>1, <2>1 DEF Marks
  <2>2. CASE r = [q EXCEPT !.allweak = @ \cup {o}]
    BY <1>1, <2>2 DEF Marks
  <2>3. CASE r = q
    BY <1>1, <2>3
  <2> QED  BY <1>2, <2>1, <2>2, <2>3
<1>4. Advanced(x, r)
  BY <1>1, <1>3 DEF Advanced
<1> QED  BY <1>3, <1>4 DEF r

\* So does PropagateAll.
LEMMA PropagateAllAdvances ==
  ASSUME NEW n \in Marks, NEW en \in Contents
  PROVE  PropagateAll(n, en) \in Marks /\ Advanced(n, PropagateAll(n, en))
<1>1. Closed(en, Obj)
  BY ContentIsObjects DEF Closed, Content
<1>2. Within(n, Obj)
  BY MarksType DEF Within
<1>3. Pending(n, en, Obj)
  BY DEF Pending
<1>4. Obj \in SUBSET Obj
  OBVIOUS
<1>5. Traversed(n, PropagateAll(n, en), en, Obj, Obj)
  BY <1>1, <1>2, <1>3, <1>4, PropagateAllIs
<1> QED  BY <1>5 DEF Traversed

\* A pass over the list ephemeron.
LEMMA PassIs ==
  ASSUME NEW n \in Marks, NEW en \in Contents
  PROVE  LET n0 == [n EXCEPT !.ephemeron = {}]
             r  == Pass(n, en)
         IN  /\ r \in Marks /\ Advanced(n, r)
             /\ \A L \in SUBSET Obj :
                  /\ Closed(en, L) /\ Within(n, L) /\ Pending(n, en, {}) /\ n.gray = {}
                  /\ \A o \in n.ephemeron : Weak(o, "k") /\ o \notin Whites(n)
                  => Traversed(n0, r, en, L, {}) /\ r.gray = {}
<1> DEFINE D == Marks \X SUBSET Obj
           n0 == [n EXCEPT !.ephemeron = {}]
           start == <<n0, n.ephemeron>>
           pick(x) == CHOOSE o \in x[2] : TRUE
           next(x) == <<PropagateAll(TraverseEphemeron(x[1], en, pick(x), TRUE), en), x[2] \ {pick(x)}>>
           left[x \in Marks \X SUBSET Obj] ==
             IF x[2] = {} THEN x
             ELSE LET o == CHOOSE o \in x[2] : TRUE
                  IN  left[<<PropagateAll(TraverseEphemeron(x[1], en, o, TRUE), en), x[2] \ {o}>>]
           stop == {x \in D : x[2] = {}}
           step == [x \in D |-> IF x[2] = {} THEN x ELSE next(x)]
           rank == [x \in D |-> Cardinality(x[2])]
           bound == Cardinality(Obj)
<1>0. bound \in Nat
  BY ObjFinite
<1>1. \A x \in D : x[2] # {} => pick(x) \in x[2] /\ pick(x) \in Obj
  OBVIOUS
<1> HIDE DEF pick
<1>2. ASSUME NEW x \in D, x[2] # {}
      PROVE  /\ next(x) \in D /\ next(x)[2] = x[2] \ {pick(x)}
             /\ next(x)[1] = PropagateAll(TraverseEphemeron(x[1], en, pick(x), TRUE), en)
             /\ Advanced(x[1], next(x)[1])
  <2> DEFINE e == TraverseEphemeron(x[1], en, pick(x), TRUE)
  <2>1. x[1] \in Marks /\ x[2] \in SUBSET Obj /\ pick(x) \in Obj
    BY <1>1, <1>2
  <2>2. e \in Marks /\ Advanced(x[1], e)
    BY <2>1, EphemeronAdvances
  <2>3. PropagateAll(e, en) \in Marks /\ Advanced(e, PropagateAll(e, en))
    BY <2>2, PropagateAllAdvances
  <2> HIDE DEF e
  <2>4. Advanced(x[1], PropagateAll(e, en))
    BY <2>1, <2>2, <2>3, AdvancedStays
  <2>5. next(x) = <<PropagateAll(e, en), x[2] \ {pick(x)}>>
    BY DEF e
  <2> HIDE DEF next
  <2>6. next(x)[1] = PropagateAll(e, en) /\ next(x)[2] = x[2] \ {pick(x)} /\ next(x) \in D
    BY <2>1, <2>3, <2>5
  <2> QED  BY <2>4, <2>6 DEF e
<1>3. \A x \in D : x[2] # {} =>
        <<PropagateAll(TraverseEphemeron(x[1], en, pick(x), TRUE), en), x[2] \ {pick(x)}>> = next(x)
  OBVIOUS
<1> HIDE DEF next
<1>4. Ranked(D, stop, step, rank, bound)
  <2>1. step \in [D -> D]
    BY <1>2
  <2>2. rank \in [D -> 0..bound]
    BY SizeOf
  <2>3. ASSUME NEW x \in D, x \notin stop PROVE rank[step[x]] < rank[x]
    <3>1. x[2] # {} /\ x[2] \in SUBSET Obj
      BY <2>3
    <3>2. next(x) \in D /\ next(x)[2] = x[2] \ {pick(x)} /\ pick(x) \in x[2]
      BY <1>1, <1>2, <3>1
    <3>3. next(x)[2] \in SUBSET x[2] /\ next(x)[2] # x[2]
      BY <3>2
    <3>4. Cardinality(next(x)[2]) < Cardinality(x[2])
      BY <3>1, <3>3, PartIsSmaller
    <3> QED  BY <3>1, <3>2, <3>4
  <2> HIDE DEF stop, step, rank, bound, D
  <2> QED  BY <2>1, <2>2, <2>3 DEF Ranked
<1>5. \A g : g = [x \in D |-> IF x[2] = {} THEN x ELSE g[next(x)]] <=> Loop(g, D, stop, step)
  <2> TAKE g
  <2>1. \A x \in D : (IF x[2] = {} THEN x ELSE g[next(x)]) = (IF x \in stop THEN x ELSE g[step[x]])
    OBVIOUS
  <2> HIDE DEF stop, step, D
  <2> QED  BY <2>1 DEF Loop
<1>6. Loop(left, D, stop, step)
  <2>1. \E g : Loop(g, D, stop, step)
    <3> HIDE DEF stop, step, rank, bound, D
    <3> QED  BY <1>0, <1>4, LoopExists
  <2>2. \E g : g = [x \in D |-> IF x[2] = {} THEN x ELSE g[next(x)]]
    <3> HIDE DEF stop, step, D
    <3> QED  BY <2>1, <1>5
  <2>3. left = [x \in D |-> IF x[2] = {} THEN x ELSE left[next(x)]]
    BY <2>2 DEF pick, next
  <2> HIDE DEF stop, step, D, left
  <2> QED  BY <2>3, <1>5
<1>7. Pass(n, en) = left[start][1]
  BY DEF Pass
<1> HIDE DEF left
<1>8. n0 \in Marks /\ n.ephemeron \in SUBSET Obj
  BY DEF Marks
<1>9. start \in D
  BY <1>8
<1>10. ASSUME NEW I \in SUBSET D, start \in I, \A x \in I : x[2] # {} => next(x) \in I
       PROVE  left[start] \in I /\ left[start][2] = {}
  <2>1. \A x \in I : x \notin stop => step[x] \in I
    BY <1>10
  <2>2. left[start] \in I /\ left[start] \in stop
    <3> HIDE DEF stop, step, rank, bound, D, start
    <3> QED  BY <2>1, <1>0, <1>4, <1>6, <1>10, LoopStays
  <2> QED  BY <2>2
<1>11. Advanced(n, n0)
  BY DEF Advanced, Marks
<1>12. left[start][1] \in Marks /\ Advanced(n, left[start][1])
  <2> DEFINE I == {x \in D : Advanced(n, x[1])}
  <2>1. start \in I /\ I \in SUBSET D
    BY <1>9, <1>11
  <2>2. ASSUME NEW x \in I, x[2] # {} PROVE next(x) \in I
    <3>1. x \in D /\ x[1] \in Marks /\ Advanced(n, x[1])
      OBVIOUS
    <3>2. next(x) \in D /\ next(x)[1] \in Marks /\ Advanced(x[1], next(x)[1])
      BY <1>2, <2>2, <3>1
    <3>3. Advanced(n, next(x)[1])
      BY <3>1, <3>2, AdvancedStays
    <3> QED  BY <3>2, <3>3
  <2>3. left[start] \in I
    <3> HIDE DEF I, start, D
    <3> QED  BY <1>10, <2>1, <2>2
  <2> QED  BY <2>3
<1>13. ASSUME NEW L \in SUBSET Obj, Closed(en, L), Within(n, L), Pending(n, en, {}), n.gray = {},
              \A o \in n.ephemeron : Weak(o, "k") /\ o \notin Whites(n)
       PROVE  Traversed(n0, left[start][1], en, L, {}) /\ left[start][1].gray = {}
  <2> DEFINE I == {x \in D : /\ Traversed(n0, x[1], en, L, x[2]) /\ x[1].gray = {}
                             /\ x[2] \subseteq L /\ \A o \in x[2] : Weak(o, "k")
                             /\ x[2] \cap Whites(x[1]) = {}}
  <2>1. start \in I
    <3>1. /\ n0.gray = n.gray /\ n0.color = n.color /\ n0.grayagain = n.grayagain /\ n0.weak = n.weak
          /\ n0.ephemeron = {} /\ n0.allweak = n.allweak /\ Whites(n0) = Whites(n)
      BY DEF Marks, Whites
    <3> HIDE DEF n0
    <3>2. Within(n0, L) /\ n.ephemeron \subseteq L
      BY <1>13, <3>1 DEF Within
    <3>3. Pending(n0, en, n.ephemeron)
      <4> SUFFICES ASSUME NEW p \in Obj, p \notin Whites(n0), p \notin n0.gray, p \notin n.ephemeron
                   PROVE  Done(n0, en, p)
        BY DEF Pending
      <4>1. Done(n, en, p)
        BY <1>13, <3>1 DEF Pending
      <4> QED  BY <1>8, <3>1, <4>1, DoneStays
    <3>4. Traversed(n0, n0, en, L, n.ephemeron)
      BY <1>8, <3>2, <3>3, AdvancedStays DEF Traversed
    <3>5. n.ephemeron \cap Whites(n0) = {}
      BY <1>13, <3>1
    <3> QED  BY <1>9, <1>13, <3>1, <3>2, <3>4, <3>5
  <2>2. ASSUME NEW x \in I, x[2] # {} PROVE next(x) \in I
    <3> DEFINE o == pick(x)
               e == TraverseEphemeron(x[1], en, o, TRUE)
               T == x[2] \ {o}
    <3>1. /\ x \in D /\ x[1] \in Marks /\ Traversed(n0, x[1], en, L, x[2]) /\ x[1].gray = {}
          /\ x[2] \subseteq L /\ \A p \in x[2] : Weak(p, "k")
          /\ x[2] \cap Whites(x[1]) = {}
      OBVIOUS
    <3>2. next(x) \in D /\ next(x)[2] = T /\ next(x)[1] = PropagateAll(e, en)
      BY <1>2, <2>2, <3>1
    <3>3. o \in x[2] /\ o \in L /\ Weak(o, "k")
      BY <1>1, <2>2, <3>1
    <3>4. T \cup {o} = x[2]
      BY <3>3
    <3> HIDE DEF e, T, o
    <3>11. o \notin Whites(x[1])
      BY <3>1, <3>3
    <3>5. e \in Marks /\ Traversed(n0, e, en, L, T)
      BY <3>11, <1>8, <1>13, <3>1, <3>3, <3>4, EphemeronVisited DEF e
    <3>6. Within(e, L) /\ Pending(e, en, T)
      BY <3>5 DEF Traversed
    <3>7. /\ PropagateAll(e, en) \in Marks /\ PropagateAll(e, en).gray = {}
          /\ Traversed(e, PropagateAll(e, en), en, L, T)
      BY <1>13, <3>5, <3>6, PropagateAllIs
    <3>8. Traversed(n0, PropagateAll(e, en), en, L, T)
      BY <1>8, <3>5, <3>7, TraversedThen
    <3>9. T \subseteq L /\ \A p \in T : Weak(p, "k")
      BY <3>1 DEF T
    <3>10. T \cap Whites(PropagateAll(e, en)) = {}
      <4>1. Advanced(x[1], next(x)[1])
        BY <1>2, <2>2, <3>1
      <4>2. Whites(PropagateAll(e, en)) \subseteq Whites(x[1])
        BY <3>1, <3>2, <3>7, <4>1, AdvancedStays
      <4> QED  BY <3>1, <4>2 DEF T
    <3> QED  BY <3>2, <3>7, <3>8, <3>9, <3>10
  <2>3. left[start] \in I /\ left[start][2] = {}
    <3>1. I \in SUBSET D
      OBVIOUS
    <3> HIDE DEF I, start, D
    <3> QED  BY <1>10, <2>1, <2>2, <3>1
  <2> QED  BY <2>3
<1> HIDE DEF start
<1> QED  BY <1>7, <1>12, <1>13

\* Everything marked is done, with ephemerons perhaps to be visited again.
Ready(n, en, L) == n \in Marks /\ Within(n, L) /\ Pending(n, en, {}) /\ n.gray = {} /\ Sorted(n, en)

AllSettled(n, en) == \A o \in n.ephemeron : Settled(n, en, o)

\* A pass keeps that, and when it has marked nothing the ephemerons are settled.
LEMMA PassReady ==
  ASSUME NEW n \in Marks, NEW en \in Contents, NEW L \in SUBSET Obj, Closed(en, L), Ready(n, en, L)
  PROVE  /\ Ready(Pass(n, en), en, L)
         /\ Pass(n, en).color = n.color => AllSettled(Pass(n, en), en)
<1> DEFINE n0 == [n EXCEPT !.ephemeron = {}]
           r == Pass(n, en)
<1>1. \A o \in n.ephemeron : Weak(o, "k") /\ o \notin Whites(n)
  BY DEF Ready, Sorted
<1>2. Within(n, L) /\ Pending(n, en, {}) /\ n.gray = {} /\ Sorted(n, en)
  BY DEF Ready
<1>3. r \in Marks /\ Traversed(n0, r, en, L, {}) /\ r.gray = {}
  BY <1>1, <1>2, PassIs
<1>4. n0.ephemeron = {} /\ n0.color = n.color /\ Sorted(n0, en)
  <2>1. /\ n0.gray = n.gray /\ n0.color = n.color /\ n0.grayagain = n.grayagain /\ n0.weak = n.weak
        /\ n0.ephemeron = {} /\ n0.allweak = n.allweak /\ Whites(n0) = Whites(n)
    BY DEF Marks, Whites
  <2> HIDE DEF n0
  <2> QED  BY <1>2, <2>1 DEF Sorted
<1> HIDE DEF n0, r
<1>5. Within(r, L) /\ Pending(r, en, {}) /\ Sorted(r, en)
  BY <1>3, <1>4 DEF Traversed
<1>6. r.color = n.color => AllSettled(r, en)
  BY <1>3, <1>4 DEF Traversed, AllSettled
<1>7. Ready(r, en, L)
  BY <1>3, <1>5 DEF Ready
<1> QED  BY <1>6, <1>7 DEF r

\* How far colours may still go.
Pale(n) == {o \in Obj : n.color[o] # "black"}
Distance(n) == Cardinality(Whites(n)) + Cardinality(Pale(n))

\* That falls when marks advance and a colour changes.
LEMMA DistanceFalls ==
  ASSUME NEW n \in Marks, NEW r \in Marks, Advanced(n, r)
  PROVE  /\ Distance(n) \in 0..(2 * Cardinality(Obj))
         /\ r.color # n.color => Distance(r) < Distance(n)
<1>1. Whites(n) \in SUBSET Obj /\ Whites(r) \in SUBSET Whites(n)
  BY MarksType, AdvancedStays
<1>2. Pale(n) \in SUBSET Obj /\ Pale(r) \in SUBSET Pale(n)
  BY DEF Pale, Advanced, IsWhite
<1>3. r.color # n.color => Whites(r) # Whites(n) \/ Pale(r) # Pale(n)
  <2> SUFFICES ASSUME Whites(r) = Whites(n), Pale(r) = Pale(n) PROVE r.color = n.color
    OBVIOUS
  <2>1. r.color \in [Obj -> Colors] /\ n.color \in [Obj -> Colors]
    BY MarksType
  <2>2. ASSUME NEW o \in Obj PROVE r.color[o] = n.color[o]
    <3>1. IsWhite(r.color[o]) <=> IsWhite(n.color[o])
      BY MarksType
    <3>2. r.color[o] = "black" <=> n.color[o] = "black"
      BY DEF Pale
    <3> QED  BY <3>1, <3>2 DEF Advanced, IsWhite
  <2> QED  BY <2>1, <2>2
<1>4. /\ Cardinality(Whites(n)) \in 0..Cardinality(Obj) /\ Cardinality(Pale(n)) \in 0..Cardinality(Obj)
      /\ Cardinality(Whites(r)) \in Nat /\ Cardinality(Pale(r)) \in Nat
  <2>1. Whites(r) \in SUBSET Obj /\ Pale(r) \in SUBSET Obj
    BY <1>1, <1>2
  <2>2. \A X \in SUBSET Obj : Cardinality(X) \in 0..Cardinality(Obj)
    BY SizeOf
  <2> QED  BY <1>1, <1>2, <2>1, <2>2, ObjFinite
<1>5. /\ Cardinality(Whites(r)) <= Cardinality(Whites(n))
      /\ Whites(r) # Whites(n) => Cardinality(Whites(r)) < Cardinality(Whites(n))
  BY <1>1, PartIsSmaller
<1>6. /\ Cardinality(Pale(r)) <= Cardinality(Pale(n))
      /\ Pale(r) # Pale(n) => Cardinality(Pale(r)) < Cardinality(Pale(n))
  BY <1>2, PartIsSmaller
<1>7. Distance(n) \in 0..(2 * Cardinality(Obj))
  BY <1>4, ObjFinite DEF Distance
<1>8. r.color # n.color => Distance(r) < Distance(n)
  BY <1>3, <1>4, <1>5, <1>6 DEF Distance
<1> QED  BY <1>7, <1>8

\* In the end no entry of an ephemeron has a key that is there and a value that is not.
LEMMA ConvergeIs ==
  ASSUME NEW n \in Marks, NEW en \in Contents
  PROVE  LET r == ConvergeEphemerons(n, en)
         IN  /\ r \in Marks /\ Advanced(n, r)
             /\ \A L \in SUBSET Obj : Closed(en, L) /\ Ready(n, en, L) => Ready(r, en, L) /\ AllSettled(r, en)
<1> DEFINE stable[x \in Marks] == IF Pass(x, en).color = x.color THEN x ELSE stable[Pass(x, en)]
           stop == {x \in Marks : Pass(x, en).color = x.color}
           step == [x \in Marks |-> Pass(x, en)]
           rank == [x \in Marks |-> Distance(x)]
           bound == 2 * Cardinality(Obj)
<1>0. bound \in Nat
  BY ObjFinite
<1>1. \A x \in Marks : Pass(x, en) \in Marks /\ Advanced(x, Pass(x, en))
  BY PassIs
<1>2. Ranked(Marks, stop, step, rank, bound)
  <2>1. step \in [Marks -> Marks]
    BY <1>1
  <2>2. rank \in [Marks -> 0..bound]
    BY <1>1, DistanceFalls
  <2>3. ASSUME NEW x \in Marks, x \notin stop PROVE rank[step[x]] < rank[x]
    <3>1. Pass(x, en).color # x.color
      BY <2>3
    <3>2. Distance(Pass(x, en)) < Distance(x)
      BY <1>1, <3>1, DistanceFalls
    <3> QED  BY <1>1, <3>2
  <2> HIDE DEF stop, step, rank, bound
  <2> QED  BY <2>1, <2>2, <2>3 DEF Ranked
<1>3. \A g : g = [x \in Marks |-> IF Pass(x, en).color = x.color THEN x ELSE g[Pass(x, en)]] <=> Loop(g, Marks, stop, step)
  <2> TAKE g
  <2>1. \A x \in Marks : (IF Pass(x, en).color = x.color THEN x ELSE g[Pass(x, en)]) = (IF x \in stop THEN x ELSE g[step[x]])
    OBVIOUS
  <2> HIDE DEF stop, step
  <2> QED  BY <2>1 DEF Loop
<1>4. Loop(stable, Marks, stop, step)
  <2>1. \E g : Loop(g, Marks, stop, step)
    <3> HIDE DEF stop, step, rank, bound
    <3> QED  BY <1>0, <1>2, LoopExists
  <2> HIDE DEF stop, step
  <2> QED  BY <2>1, <1>3
<1>5. ConvergeEphemerons(n, en) = Pass(stable[n], en)
  BY DEF ConvergeEphemerons
<1> HIDE DEF stable
<1>6. ASSUME NEW I \in SUBSET Marks, n \in I, \A x \in I : Pass(x, en) \in I
      PROVE  stable[n] \in I /\ Pass(stable[n], en).color = stable[n].color
  <2>1. \A x \in I : x \notin stop => step[x] \in I
    BY <1>6
  <2>2. stable[n] \in I /\ stable[n] \in stop
    <3> HIDE DEF stop, step, rank, bound
    <3> QED  BY <2>1, <1>0, <1>2, <1>4, <1>6, LoopStays
  <2> QED  BY <2>2
<1>7. stable[n] \in Marks /\ Advanced(n, stable[n])
  <2> DEFINE I == {x \in Marks : Advanced(n, x)}
  <2>1. n \in I /\ I \in SUBSET Marks
    BY AdvancedStays
  <2>2. ASSUME NEW x \in I PROVE Pass(x, en) \in I
    BY <1>1, AdvancedStays
  <2>3. stable[n] \in I
    <3> HIDE DEF I
    <3> QED  BY <1>6, <2>1, <2>2
  <2> QED  BY <2>3
<1>8. Pass(stable[n], en) \in Marks /\ Advanced(n, Pass(stable[n], en))
  BY <1>1, <1>7, AdvancedStays
<1>9. ASSUME NEW L \in SUBSET Obj, Closed(en, L), Ready(n, en, L)
      PROVE  Ready(Pass(stable[n], en), en, L) /\ AllSettled(Pass(stable[n], en), en)
  <2> DEFINE I == {x \in Marks : Ready(x, en, L)}
  <2>1. n \in I /\ I \in SUBSET Marks
    BY <1>9
  <2>2. ASSUME NEW x \in I PROVE Pass(x, en) \in I
    <3>1. Ready(Pass(x, en), en, L)
      BY <1>9, PassReady
    <3> QED  BY <1>1, <3>1
  <2>3. stable[n] \in I /\ Pass(stable[n], en).color = stable[n].color
    <3> HIDE DEF I
    <3> QED  BY <1>6, <2>1, <2>2
  <2> QED  BY <1>9, <2>3, PassReady
<1> QED  BY <1>5, <1>8, <1>9

-----------------------------------------------------------------------------
(* The atomic step.                                                        *)

\* An object keeps its colour or is marked.
Darkened(n, r) == \A o \in Obj : r.color[o] = n.color[o] \/ r.color[o] \in {"gray", "black"}

\* That is transitive, and what advances is darkened.
LEMMA DarkenedStays ==
  ASSUME NEW n \in Marks, NEW r \in Marks
  PROVE  /\ Advanced(n, r) => Darkened(n, r)
         /\ Darkened(n, r) => Whites(r) \subseteq Whites(n)
         /\ \A q : Darkened(n, r) /\ Darkened(r, q) => Darkened(n, q)
<1>1. Darkened(n, r) => Whites(r) \subseteq Whites(n)
  <2> SUFFICES ASSUME Darkened(n, r), NEW o \in Whites(r) PROVE o \in Whites(n)
    OBVIOUS
  <2>1. o \in Obj /\ IsWhite(r.color[o])
    BY DEF Whites
  <2>2. r.color[o] = n.color[o]
    BY <2>1 DEF Darkened, IsWhite
  <2> QED  BY <2>1, <2>2 DEF Whites
<1> QED  BY <1>1 DEF Advanced, Darkened

\* Marking more objects leaves marked ones done.
LEMMA MarkKeeps ==
  ASSUME NEW n \in Marks, NEW r, NEW en \in Contents, NEW S, NEW L \in SUBSET Obj, NEW K,
         MarkedFrom(n, r, en, S), Closed(en, L), S \cap Whites(n) \subseteq L,
         Within(n, L), Pending(n, en, K)
  PROVE  Within(r, L) /\ Pending(r, en, K) /\ (Sorted(n, en) => Sorted(r, en))
<1>1. r \in Marks /\ Advanced(n, r) /\ Whites(r) \subseteq Whites(n)
  BY MarkAdvances
<1>2. /\ r.grayagain = n.grayagain /\ r.weak = n.weak /\ r.ephemeron = n.ephemeron /\ r.allweak = n.allweak
      /\ r.gray = n.gray \cup (Fresh(n, r) \ (Strings \cup Userdata))
      /\ Fresh(n, r) \subseteq L
      /\ \A u \in Fresh(n, r) \cap Userdata : Vals(en, u) \cap Whites(r) = {}
  BY DEF MarkedFrom
<1>3. Within(r, L)
  BY <1>1, <1>2, MarksType DEF Within, Fresh
<1>4. Pending(r, en, K)
  <2> SUFFICES ASSUME NEW o \in Obj, o \notin Whites(r), o \notin r.gray, o \notin K PROVE Done(r, en, o)
    BY DEF Pending
  <2>1. CASE o \in Fresh(n, r)
    <3>1. o \in Strings \/ (o \in Userdata /\ Vals(en, o) \cap Whites(r) = {})
      BY <1>2, <2>1
    <3> QED  BY <1>1, <3>1, BlackIsDone
  <2>2. CASE o \notin Fresh(n, r)
    <3>1. Done(n, en, o)
      BY <1>2, <2>2 DEF Pending, Fresh
    <3> QED  BY <1>1, <1>2, <3>1, DoneStays
  <2> QED  BY <2>1, <2>2
<1>5. Sorted(n, en) => Sorted(r, en)
  BY <1>1, <1>2 DEF Sorted, Fresh
<1> QED  BY <1>3, <1>4, <1>5

\* When all has been marked once, the first half of atomic makes it ready.
LEMMA MarkedIs ==
  ASSUME NEW n \in Marks, NEW en \in Contents, NEW L \in SUBSET Obj, Closed(en, L), {Main, Reg} \subseteq L,
         Within(n, L), Pending(n, en, n.grayagain), Sorted(n, en)
  PROVE  LET r == Marked(n, en)
         IN  /\ Ready(r, en, L) /\ AllSettled(r, en)
             /\ {Main, Reg} \cap Whites(r) = {} /\ Darkened(n, r)
<1> DEFINE n0 == Mark(n, en, {Main, Reg})
           n1 == PropagateAll(n0, en)
           y == [n1 EXCEPT !.gray = n1.grayagain, !.grayagain = {}]
           n2 == PropagateAll(y, en)
           r == ConvergeEphemerons(n2, en)
<1>1. MarkedFrom(n, n0, en, {Main, Reg})
  BY MarkIs
<1>2. /\ n0 \in Marks /\ Advanced(n, n0) /\ n0.grayagain = n.grayagain
      /\ {Main, Reg} \cap Whites(n0) = {}
  <2>1. n0 \in Marks /\ Advanced(n, n0)
    BY <1>1, MarkAdvances
  <2> HIDE DEF n0
  <2> QED  BY <1>1, <2>1 DEF MarkedFrom
<1>3. Within(n0, L) /\ Pending(n0, en, n.grayagain) /\ Sorted(n0, en)
  <2>1. {Main, Reg} \cap Whites(n) \subseteq L
    OBVIOUS
  <2> HIDE DEF n0
  <2> QED  BY <1>1, <2>1, MarkKeeps
<1> HIDE DEF n0
<1>4. n1 \in Marks /\ n1.gray = {} /\ Traversed(n0, n1, en, L, n.grayagain)
  BY <1>2, <1>3, PropagateAllIs
<1> HIDE DEF n1
<1>5. /\ Advanced(n0, n1) /\ Within(n1, L) /\ Pending(n1, en, n.grayagain) /\ Sorted(n1, en)
      /\ n.grayagain \subseteq n1.grayagain
  BY <1>2, <1>3, <1>4 DEF Traversed, Advanced
<1>6. /\ y \in Marks /\ y.gray = n1.grayagain /\ y.color = n1.color /\ y.grayagain = {} /\ y.weak = n1.weak
      /\ y.ephemeron = n1.ephemeron /\ y.allweak = n1.allweak /\ Whites(y) = Whites(n1)
  BY <1>4 DEF Marks, Whites
<1> HIDE DEF y
<1>7. Within(y, L) /\ Sorted(y, en)
  BY <1>5, <1>6 DEF Within, Sorted
<1>8. Pending(y, en, {})
  <2> SUFFICES ASSUME NEW o \in Obj, o \notin Whites(y), o \notin y.gray PROVE Done(y, en, o)
    BY DEF Pending
  <2>1. Done(n1, en, o)
    BY <1>4, <1>5, <1>6 DEF Pending
  <2> QED  BY <1>4, <1>6, <2>1, DoneStays
<1>9. n2 \in Marks /\ n2.gray = {} /\ Traversed(y, n2, en, L, {})
  BY <1>6, <1>7, <1>8, PropagateAllIs
<1> HIDE DEF n2
<1>10. Ready(n2, en, L) /\ Advanced(y, n2)
  BY <1>7, <1>9 DEF Traversed, Ready
<1>11. r \in Marks /\ Advanced(n2, r) /\ Ready(r, en, L) /\ AllSettled(r, en)
  BY <1>9, <1>10, ConvergeIs
<1> HIDE DEF r
<1>12. Darkened(n0, r) /\ Darkened(n, r)
  <2>1. Darkened(n, n0) /\ Darkened(n0, n1)
    BY <1>2, <1>4, <1>5, DarkenedStays
  <2>2. Darkened(n1, y)
    BY <1>6 DEF Darkened
  <2>3. Darkened(y, n2) /\ Darkened(n2, r)
    BY <1>6, <1>9, <1>10, <1>11, DarkenedStays
  <2>4. Darkened(n0, y)
    BY <1>2, <1>4, <2>1, <2>2, DarkenedStays
  <2>5. Darkened(n0, n2)
    BY <1>2, <1>6, <2>3, <2>4, DarkenedStays
  <2>6. Darkened(n0, r)
    BY <1>2, <1>9, <2>3, <2>5, DarkenedStays
  <2> QED  BY <1>2, <2>1, <2>6, DarkenedStays
<1>13. {Main, Reg} \cap Whites(r) = {}
  BY <1>2, <1>11, <1>12, DarkenedStays
<1>14. Marked(n, en) = r
  BY DEF Marked, r, n2, y, n1, n0
<1> QED  BY <1>11, <1>12, <1>13, <1>14

\* The entries of o have a marked key (i = 1) or a marked value (i = 2).
Clean(n, en, o, i) == \A e \in en[o] : e[i] \notin Whites(n)

\* The marks and the entries between the parts of atomic.
Snapshots == [n : Marks, en : Contents, ls : [Lists -> Seq(Obj)], weak : SUBSET Obj, allweak : SUBSET Obj]

\* What Clear does to a snapshot.
ClearedFrom(a, c, S, i) ==
  /\ c \in Snapshots /\ c.ls = a.ls /\ c.weak = a.weak /\ c.allweak = a.allweak
  /\ c.n.gray = a.n.gray /\ c.n.weak = a.n.weak /\ c.n.ephemeron = a.n.ephemeron /\ c.n.allweak = a.n.allweak
  /\ Advanced(a.n, c.n) /\ Fresh(a.n, c.n) \subseteq Strings
  /\ \A o \in Obj : c.en[o] \subseteq a.en[o] /\ (o \notin S => c.en[o] = a.en[o])
  /\ \A o \in S : Clean(c.n, c.en, o, i)
  /\ \A o \in S : \A e \in a.en[o] \ c.en[o] : Cleared(c.n, e[i])
  /\ \A L \in SUBSET Obj : Closed(a.en, L) /\ S \subseteq L /\ Ready(a.n, a.en, L)
       => Closed(c.en, L) /\ Ready(c.n, c.en, L) /\ (AllSettled(a.n, a.en) => AllSettled(c.n, c.en))

\* It does.
LEMMA ClearIs ==
  ASSUME NEW a \in Snapshots, NEW S \in SUBSET Obj, NEW i \in {1, 2}
  PROVE  ClearedFrom(a, Clear(a, S, i), S, i)
<1> DEFINE T == {e[i] : e \in UNION {a.en[o] : o \in S}} \cap Strings
           n == Mark(a.n, a.en, T)
           en == [o \in Obj |-> IF o \in S THEN {e \in a.en[o] : ~Cleared(n, e[i])} ELSE a.en[o]]
           c == Clear(a, S, i)
<1>1. a.n \in Marks /\ a.en \in Contents
  BY DEF Snapshots
<1>2. c = [a EXCEPT !.n = n, !.en = en]
  BY DEF Clear
<1>3. MarkedFrom(a.n, n, a.en, T)
  BY <1>1, MarkIs
<1>4. n \in Marks /\ Advanced(a.n, n) /\ Whites(n) \subseteq Whites(a.n)
  <2> HIDE DEF n, T
  <2> QED  BY <1>1, <1>3, MarkAdvances
<1>5. \A o \in S : \A e \in a.en[o] : e[i] \in Strings => e[i] \in T
  OBVIOUS
<1>6. T \subseteq Strings
  OBVIOUS
<1> HIDE DEF n, T
<1>7. en \in Contents
  <2>1. en \in [Obj -> SUBSET (Value \X Value)]
    BY <1>1 DEF Contents
  <2>2. \A o \in Obj : en[o] \subseteq a.en[o]
    OBVIOUS
  <2> HIDE DEF en
  <2>3. Main \in Obj /\ Userdata \subseteq Obj /\ Strings \subseteq Obj
    BY Kinds
  <2> QED  BY <1>1, <2>1, <2>2, <2>3 DEF Contents
<1>8. /\ \A o \in Obj : en[o] \subseteq a.en[o] /\ (o \notin S => en[o] = a.en[o])
      /\ \A o \in S : en[o] = {e \in a.en[o] : ~Cleared(n, e[i])}
  OBVIOUS
<1> HIDE DEF en
<1>9. c \in Snapshots /\ c.n = n /\ c.en = en /\ c.ls = a.ls /\ c.weak = a.weak /\ c.allweak = a.allweak
  BY <1>2, <1>4, <1>7 DEF Snapshots
<1> HIDE DEF c
<1>10. Fresh(a.n, n) \subseteq Strings
  <2>1. Strings \in SUBSET Obj /\ Closed(a.en, Strings)
    BY <1>1, Kinds, ContentIsObjects DEF Closed
  <2>2. T \cap Whites(a.n) \subseteq Strings
    BY <1>6
  <2> QED  BY <1>3, <2>1, <2>2 DEF MarkedFrom
<1>11. /\ n.gray = a.n.gray /\ n.weak = a.n.weak /\ n.ephemeron = a.n.ephemeron /\ n.allweak = a.n.allweak
       /\ T \cap Whites(n) = {}
  BY <1>3, <1>10 DEF MarkedFrom
<1>12. \A o \in Obj : \A e \in a.en[o] : e[1] \in Obj \cup {Plain} /\ e[2] \in Obj \cup {Plain}
  BY <1>1, ContentIsObjects
<1>13. \A v \in Obj \cup {Plain} : /\ Cleared(n, v) <=> v \in Whites(n) \ Strings
                                   /\ Cleared(a.n, v) <=> v \in Whites(a.n) \ Strings
  BY <1>1, <1>4, ClearedStays
<1>14. ASSUME NEW o \in S PROVE Clean(n, en, o, i)
  <2> SUFFICES ASSUME NEW e \in en[o], e[i] \in Whites(n) PROVE FALSE
    BY DEF Clean
  <2>1. e \in a.en[o] /\ ~Cleared(n, e[i])
    BY <1>8
  <2>2. e[i] \in Obj \cup {Plain}
    BY <1>12, <2>1
  <2>3. e[i] \in Strings
    BY <1>13, <2>1, <2>2
  <2> QED  BY <1>5, <1>11, <2>1, <2>3
<1>15. ASSUME NEW o \in S, NEW e \in a.en[o] \ en[o] PROVE Cleared(n, e[i])
  BY <1>8
<1>16. ASSUME NEW L \in SUBSET Obj, Closed(a.en, L), S \subseteq L, Ready(a.n, a.en, L)
       PROVE  Closed(en, L) /\ Ready(n, en, L) /\ (AllSettled(a.n, a.en) => AllSettled(n, en))
  <2>1. \A o \in Obj : Content(en, o) \subseteq Content(a.en, o)
    BY <1>8 DEF Content, Keys, Vals
  <2>2. Closed(en, L)
    BY <1>16, <2>1 DEF Closed
  <2>3. T \cap Whites(a.n) \subseteq L
    <3>1. \A v \in T : \E o \in S : \E e \in a.en[o] : v = e[i] /\ v \in Strings
      BY DEF T
    <3>2. ASSUME NEW v \in T PROVE v \in L
      <4>1. PICK o \in S : \E e \in a.en[o] : v = e[i] /\ v \in Strings
        BY <3>1
      <4>2. PICK e \in a.en[o] : v = e[i] /\ v \in Strings
        BY <4>1
      <4>3. v # Plain
        BY <4>2, Kinds
      <4>4. v \in Content(a.en, o)
        BY <4>2, <4>3 DEF Content, Keys, Vals
      <4> QED  BY <1>16, <4>4 DEF Closed
    <3> QED  BY <3>2
  <2>4. Within(a.n, L) /\ Pending(a.n, a.en, {}) /\ a.n.gray = {} /\ Sorted(a.n, a.en)
    BY <1>16 DEF Ready
  <2>5. Within(n, L) /\ Pending(n, a.en, {}) /\ Sorted(n, a.en)
    BY <1>1, <1>3, <1>16, <2>3, <2>4, MarkKeeps
  <2>6. Pending(n, en, {})
    <3> SUFFICES ASSUME NEW o \in Obj, o \notin Whites(n), o \notin n.gray PROVE Done(n, en, o)
      BY DEF Pending
    <3>1. Done(n, a.en, o)
      BY <2>5 DEF Pending
    <3> QED  BY <1>1, <1>4, <1>7, <1>8, <3>1, DoneStays
  <2>7. ASSUME AllSettled(a.n, a.en), NEW o \in n.ephemeron, NEW e \in en[o], ~Cleared(n, e[1])
        PROVE  e[2] \notin Whites(n)
    <3>1. o \in Obj /\ o \in a.n.ephemeron /\ e \in a.en[o]
      BY <1>1, <1>4, <1>8, <1>11, MarksType
    <3>2. e[1] \in Obj \cup {Plain}
      BY <1>12, <3>1
    <3>3. ~Cleared(a.n, e[1])
      BY <1>10, <1>13, <2>7, <3>2 DEF Fresh
    <3>4. e[2] \notin Whites(a.n)
      BY <2>7, <3>1, <3>3 DEF AllSettled, Settled
    <3> QED  BY <1>4, <3>4
  <2>8. Sorted(n, en)
    <3>1. \A o \in Obj : Vals(en, o) \subseteq Vals(a.en, o)
      BY <1>8 DEF Vals
    <3> QED  BY <1>4, <2>5, <3>1, MarksType DEF Sorted
  <2> QED  BY <1>4, <1>11, <2>2, <2>4, <2>5, <2>6, <2>7, <2>8 DEF Ready, AllSettled, Settled
<1>17. ClearedFrom(a, c, S, i)
  BY <1>4, <1>8, <1>9, <1>10, <1>11, <1>14, <1>15, <1>16 DEF ClearedFrom
<1> QED  BY <1>17 DEF c

-----------------------------------------------------------------------------
(* Lists of objects: which ones are in them, and in which order.           *)

\* In the list s there is a y after an x.
After(s, x, y) == \E i, j \in 1..Len(s) : i < j /\ s[i] = x /\ s[j] = y

\* What is in a list, and what it means that nothing is in it twice.
LEMMA ListIs ==
  ASSUME NEW s \in Seq(Obj)
  PROVE  /\ Range(s) \subseteq Obj
         /\ \A x : x \in Range(s) <=> \E i \in 1..Len(s) : s[i] = x
         /\ \A x, y : After(s, x, y) => x \in Range(s) /\ y \in Range(s)
         /\ IsInjective(s) <=> \A x : ~After(s, x, x)
         /\ Range(s) = {} <=> s = <<>>
<1>1. DOMAIN s = 1..Len(s) /\ Len(s) \in Nat /\ \A i \in 1..Len(s) : s[i] \in Obj
  OBVIOUS
<1>2. \A x : x \in Range(s) <=> \E i \in 1..Len(s) : s[i] = x
  BY <1>1 DEF Range
<1>3. Range(s) \subseteq Obj
  BY <1>1, <1>2
<1>4. \A x, y : After(s, x, y) => x \in Range(s) /\ y \in Range(s)
  BY <1>2 DEF After
<1>5. ASSUME IsInjective(s), NEW x, After(s, x, x) PROVE FALSE
  <2>1. PICK i, j \in 1..Len(s) : i < j /\ s[i] = x /\ s[j] = x
    BY <1>5 DEF After
  <2> QED  BY <2>1, <1>1, <1>5 DEF IsInjective
<1>6. ASSUME \A x : ~After(s, x, x) PROVE IsInjective(s)
  <2>1. SUFFICES ASSUME NEW i \in 1..Len(s), NEW j \in 1..Len(s), s[i] = s[j], i # j PROVE FALSE
    BY <1>1 DEF IsInjective
  <2>2. i < j \/ j < i
    BY <2>1, <1>1
  <2>3. After(s, s[i], s[i])
    BY <2>1, <2>2 DEF After
  <2> QED  BY <2>3, <1>6
<1>7. Range(s) = {} <=> s = <<>>
  <2>1. s = <<>> => Range(s) = {}
    BY <1>2, <1>1
  <2>2. s # <<>> => 1 \in 1..Len(s)
    BY <1>1
  <2> QED  BY <2>1, <2>2, <1>2
<1> QED  BY <1>2, <1>3, <1>4, <1>5, <1>6, <1>7

\* One list and then another.
LEMMA JoinedIs ==
  ASSUME NEW s \in Seq(Obj), NEW t \in Seq(Obj)
  PROVE  /\ s \o t \in Seq(Obj)
         /\ Range(s \o t) = Range(s) \cup Range(t)
         /\ \A x, y : After(s \o t, x, y) <=> \/ After(s, x, y) \/ After(t, x, y)
                                              \/ x \in Range(s) /\ y \in Range(t)
<1> DEFINE r == s \o t
           n == Len(s)
           k == Len(t)
<1>1. /\ r \in Seq(Obj) /\ Len(r) = n + k /\ n \in Nat /\ k \in Nat
      /\ \A i \in 1 .. n + k : r[i] = IF i <= n THEN s[i] ELSE t[i - n]
  BY ConcatProperties
<1>a. /\ \A i \in 1..n : i \in 1 .. n + k /\ r[i] = s[i]
      /\ \A i \in 1..k : n + i \in 1 .. n + k /\ r[n + i] = t[i]
  <2>1. ASSUME NEW i \in 1..n PROVE i \in 1 .. n + k /\ r[i] = s[i]
    BY <1>1
  <2>2. ASSUME NEW i \in 1..k PROVE n + i \in 1 .. n + k /\ r[n + i] = t[i]
    <3>1. n + i \in 1 .. n + k /\ ~(n + i <= n) /\ (n + i) - n = i
      BY <1>1
    <3> QED  BY <3>1, <1>1
  <2> QED  BY <2>1, <2>2
<1> HIDE DEF r
<1>2. ASSUME NEW x PROVE x \in Range(r) <=> x \in Range(s) \cup Range(t)
  <2>1. ASSUME x \in Range(r) PROVE x \in Range(s) \cup Range(t)
    <3>1. PICK i \in 1 .. n + k : r[i] = x
      BY <2>1, <1>1, ListIs
    <3>2. CASE i <= n
      <4>1. i \in 1..n /\ s[i] = x
        BY <3>1, <3>2, <1>1
      <4> QED  BY <4>1, ListIs
    <3>3. CASE ~(i <= n)
      <4>1. i - n \in 1..k /\ t[i - n] = x
        BY <3>1, <3>3, <1>1
      <4> QED  BY <4>1, ListIs
    <3> QED  BY <3>2, <3>3
  <2>2. ASSUME x \in Range(s) PROVE x \in Range(r)
    <3>1. PICK i \in 1..n : s[i] = x
      BY <2>2, ListIs
    <3>2. i \in 1 .. n + k /\ r[i] = x
      BY <3>1, <1>a
    <3> QED  BY <3>2, <1>1, ListIs
  <2>3. ASSUME x \in Range(t) PROVE x \in Range(r)
    <3>1. PICK i \in 1..k : t[i] = x
      BY <2>3, ListIs
    <3>2. n + i \in 1 .. n + k /\ r[n + i] = x
      BY <3>1, <1>a
    <3> QED  BY <3>2, <1>1, ListIs
  <2> QED  BY <2>1, <2>2, <2>3
<1>3. ASSUME NEW x, NEW y
      PROVE  After(r, x, y) <=> \/ After(s, x, y) \/ After(t, x, y)
                                \/ x \in Range(s) /\ y \in Range(t)
  <2>1. ASSUME After(r, x, y)
        PROVE  After(s, x, y) \/ After(t, x, y) \/ (x \in Range(s) /\ y \in Range(t))
    <3>1. PICK i, j \in 1 .. n + k : i < j /\ r[i] = x /\ r[j] = y
      BY <2>1, <1>1 DEF After
    <3>2. CASE j <= n
      <4>1. i \in 1..n /\ j \in 1..n /\ s[i] = x /\ s[j] = y
        BY <3>1, <3>2, <1>1
      <4> QED  BY <4>1, <3>1 DEF After
    <3>3. CASE ~(i <= n)
      <4>1. i - n \in 1..k /\ j - n \in 1..k /\ t[i - n] = x /\ t[j - n] = y /\ i - n < j - n
        BY <3>1, <3>3, <1>1
      <4> QED  BY <4>1, <3>1 DEF After
    <3>4. CASE i <= n /\ ~(j <= n)
      <4>1. i \in 1..n /\ j - n \in 1..k /\ s[i] = x /\ t[j - n] = y
        BY <3>1, <3>4, <1>1
      <4> QED  BY <4>1, ListIs
    <3> QED  BY <3>2, <3>3, <3>4
  <2>2. ASSUME After(s, x, y) PROVE After(r, x, y)
    <3>1. PICK i, j \in 1..n : i < j /\ s[i] = x /\ s[j] = y
      BY <2>2 DEF After
    <3>2. i \in 1..Len(r) /\ j \in 1..Len(r) /\ r[i] = x /\ r[j] = y
      BY <3>1, <1>a, <1>1
    <3> QED  BY <3>1, <3>2 DEF After
  <2>3. ASSUME After(t, x, y) PROVE After(r, x, y)
    <3>1. PICK i, j \in 1..k : i < j /\ t[i] = x /\ t[j] = y
      BY <2>3 DEF After
    <3>2. n + i \in 1..Len(r) /\ n + j \in 1..Len(r) /\ r[n + i] = x /\ r[n + j] = y
      BY <3>1, <1>a, <1>1
    <3>3. n + i < n + j
      BY <3>1, <1>1
    <3> QED  BY <3>3, <3>2 DEF After
  <2>4. ASSUME x \in Range(s), y \in Range(t) PROVE After(r, x, y)
    <3>1. PICK i \in 1..n : s[i] = x
      BY <2>4, ListIs
    <3>2. PICK j \in 1..k : t[j] = y
      BY <2>4, ListIs
    <3>3. i \in 1..Len(r) /\ n + j \in 1..Len(r) /\ r[i] = x /\ r[n + j] = y
      BY <3>1, <3>2, <1>a, <1>1
    <3>4. i < n + j
      BY <1>1
    <3> QED  BY <3>4, <3>3 DEF After
  <2> QED  BY <2>1, <2>2, <2>3, <2>4
<1>4. Range(r) = Range(s) \cup Range(t)
  BY <1>2
<1> QED  BY <1>1, <1>3, <1>4 DEF r

\* The list with one object.
LEMMA OneIs ==
  ASSUME NEW o \in Obj
  PROVE  /\ <<o>> \in Seq(Obj) /\ Range(<<o>>) = {o}
         /\ \A x, y : ~After(<<o>>, x, y)
<1>1. <<o>> \in Seq(Obj) /\ Len(<<o>>) = 1 /\ <<o>>[1] = o
  OBVIOUS
<1>2. \A x : x \in Range(<<o>>) <=> x = o
  <2>1. \A i \in 1..Len(<<o>>) : i = 1
    BY <1>1
  <2>2. 1 \in 1..Len(<<o>>)
    BY <1>1
  <2> QED  BY <1>1, <2>1, <2>2, ListIs
<1>3. \A x, y : ~After(<<o>>, x, y)
  BY <1>1 DEF After
<1> QED  BY <1>1, <1>2, <1>3

\* Kept leaves out what is not in T and changes no order.
LEMMA KeptIs ==
  ASSUME NEW s \in Seq(Obj), NEW T
  PROVE  /\ Kept(s, T) \in Seq(Obj)
         /\ Range(Kept(s, T)) = Range(s) \cap T
         /\ \A x, y : After(Kept(s, T), x, y) <=> After(s, x, y) /\ x \in T /\ y \in T
<1> DEFINE n == Len(s)
           step == [i \in 1..n |-> [q \in Seq(Obj) |-> IF s[i] \in T THEN Append(q, s[i]) ELSE q]]
           kept[i \in 0..n] == IF i = 0 THEN <<>>
                               ELSE IF s[i] \in T THEN Append(kept[i - 1], s[i])
                               ELSE kept[i - 1]
           Defined(f) == f = [i \in 0..n |-> IF i = 0 THEN <<>>
                                             ELSE IF s[i] \in T THEN Append(f[i - 1], s[i])
                                             ELSE f[i - 1]]
<1>1. n \in Nat /\ \A i \in 1..n : s[i] \in Obj
  OBVIOUS
<1>2. \E f : Defined(f) /\ f \in [0..n -> Seq(Obj)]
  <2>1. step \in [1..n -> [Seq(Obj) -> Seq(Obj)]]
    <3>1. ASSUME NEW i \in 1..n, NEW q \in Seq(Obj)
          PROVE  (IF s[i] \in T THEN Append(q, s[i]) ELSE q) \in Seq(Obj)
      BY <1>1, AppendProperties
    <3> QED  BY <3>1
  <2>2. <<>> \in Seq(Obj)
    OBVIOUS
  <2>3. PICK g : Chain(g, n, Seq(Obj), <<>>, step)
    <3> HIDE DEF step
    <3> QED  BY <2>1, <2>2, <1>1, ChainExists
  <2>4. g \in [0..n -> Seq(Obj)] /\ g[0] = <<>> /\ \A i \in 1..n : g[i] = step[i][g[i - 1]]
    BY <2>3 DEF Chain
  <2>5. ASSUME NEW i \in 1..n
        PROVE  g[i] = IF s[i] \in T THEN Append(g[i - 1], s[i]) ELSE g[i - 1]
    <3>1. i - 1 \in 0..n
      BY <1>1
    <3>2. g[i - 1] \in Seq(Obj)
      BY <3>1, <2>4
    <3> QED  BY <3>2, <2>4
  <2>6. \A i \in 0..n : g[i] = IF i = 0 THEN <<>>
                               ELSE IF s[i] \in T THEN Append(g[i - 1], s[i])
                               ELSE g[i - 1]
    <3>1. \A i \in 0..n : i = 0 \/ (i # 0 /\ i \in 1..n)
      BY <1>1
    <3> HIDE DEF n, step
    <3> QED  BY <3>1, <2>4, <2>5
  <2>7. Defined(g)
    <3> HIDE DEF n
    <3> QED  BY <2>4, <2>6
  <2> HIDE DEF Defined
  <2> QED  BY <2>7, <2>4
<1>3. kept = CHOOSE f : Defined(f)
  OBVIOUS
<1>4. Defined(kept)
  <2> HIDE DEF Defined, kept
  <2> QED  BY <1>2, <1>3
<1>5. Kept(s, T) = kept[n]
  BY DEF Kept
<1> DEFINE Good(i, q) == /\ q \in Seq(Obj)
                         /\ \A x : x \in Range(q) <=> x \in T /\ \E j \in 1..i : s[j] = x
                         /\ \A x, y : After(q, x, y) <=> /\ x \in T /\ y \in T
                                                         /\ \E j, k \in 1..i : j < k /\ s[j] = x /\ s[k] = y
           Bad == {i \in 0..n : ~Good(i, kept[i])}
<1>6. kept[0] = <<>> /\ \A i \in 1..n : kept[i] = IF s[i] \in T THEN Append(kept[i - 1], s[i]) ELSE kept[i - 1]
  <2> HIDE DEF kept
  <2>1. \A i \in 0..n : kept[i] = IF i = 0 THEN <<>>
                                  ELSE IF s[i] \in T THEN Append(kept[i - 1], s[i])
                                  ELSE kept[i - 1]
    BY <1>4
  <2> HIDE DEF Defined, n
  <2> QED  BY <2>1, <1>1
<1> HIDE DEF kept, Defined
<1>7. Good(0, kept[0])
  <2>1. <<>> \in Seq(Obj) /\ Len(<<>>) = 0
    OBVIOUS
  <2>2. Range(<<>>) = {} /\ \A x, y : ~After(<<>>, x, y)
    BY <2>1, ListIs
  <2> QED  BY <2>1, <2>2, <1>6
<1>8. ASSUME NEW i \in 1..n, Good(i - 1, kept[i - 1]) PROVE Good(i, kept[i])
  <2> DEFINE q == kept[i - 1]
             o == s[i]
  <2>1. q \in Seq(Obj) /\ o \in Obj
    BY <1>8, <1>1
  <2>3. kept[i] = IF o \in T THEN Append(q, o) ELSE q
    BY <1>6
  <2> DEFINE From(k, x) == \E j \in 1..k : s[j] = x
             Then(k, x, y) == \E j, h \in 1..k : j < h /\ s[j] = x /\ s[h] = y
  <2>4. /\ \A x : From(i, x) <=> From(i - 1, x) \/ x = o
        /\ \A x, y : Then(i, x, y) <=> Then(i - 1, x, y) \/ (y = o /\ From(i - 1, x))
    <3>1. \A j : j \in 1..i <=> j \in 1 .. i - 1 \/ j = i
      BY <1>1
    <3>2. \A j \in 1 .. i - 1 : j < i
      BY <1>1
    <3>3. \A j, k \in 1..i : j < k => j \in 1 .. i - 1
      BY <1>1
    <3>4. ~(i < i)
      BY <1>1
    <3> QED  BY <3>1, <3>2, <3>3, <3>4
  <2> HIDE DEF q, o, Good
  <2>2. /\ \A x : x \in Range(q) <=> x \in T /\ From(i - 1, x)
        /\ \A x, y : After(q, x, y) <=> x \in T /\ y \in T /\ Then(i - 1, x, y)
    BY <1>8 DEF Good, q
  <2>a. ASSUME NEW r \in Seq(Obj),
               \A x : x \in Range(r) <=> x \in T /\ From(i, x),
               \A x, y : After(r, x, y) <=> x \in T /\ y \in T /\ Then(i, x, y)
        PROVE  Good(i, r)
    BY <2>a DEF Good
  <2> HIDE DEF From, Then
  <2>5. CASE o \in T
    <3>1. Append(q, o) = q \o <<o>>
      BY <2>1, AppendIsConcat
    <3>2. /\ q \o <<o>> \in Seq(Obj) /\ Range(q \o <<o>>) = Range(q) \cup {o}
          /\ \A x, y : After(q \o <<o>>, x, y) <=> After(q, x, y) \/ (x \in Range(q) /\ y = o)
      <4>1. <<o>> \in Seq(Obj) /\ Range(<<o>>) = {o} /\ \A x, y : ~After(<<o>>, x, y)
        BY <2>1, OneIs
      <4> QED  BY <4>1, <2>1, JoinedIs
    <3>3. kept[i] = q \o <<o>>
      BY <3>1, <2>3, <2>5
    <3>4. \A x : x \in Range(q \o <<o>>) <=> x \in T /\ From(i, x)
      BY <3>2, <2>2, <2>4, <2>5
    <3>5. \A x, y : After(q \o <<o>>, x, y) <=> x \in T /\ y \in T /\ Then(i, x, y)
      BY <3>2, <2>2, <2>4, <2>5
    <3> QED  BY <3>2, <3>3, <3>4, <3>5, <2>a
  <2>6. CASE o \notin T
    <3>1. kept[i] = q
      BY <2>3, <2>6
    <3>2. \A x : x \in Range(q) <=> x \in T /\ From(i, x)
      BY <2>2, <2>4, <2>6
    <3>3. \A x, y : After(q, x, y) <=> x \in T /\ y \in T /\ Then(i, x, y)
      BY <2>2, <2>4, <2>6
    <3> QED  BY <2>1, <3>1, <3>2, <3>3, <2>a
  <2> QED  BY <2>5, <2>6
<1>9. Good(n, kept[n])
  <2> HIDE DEF Good
  <2>1. SUFFICES ASSUME Bad # {} PROVE FALSE
    BY <1>1
  <2>2. Bad \in SUBSET Nat
    BY <1>1
  <2>3. PICK i \in Bad : \A j \in Bad : i <= j
    <3> HIDE DEF Bad
    <3> QED  BY <2>1, <2>2, NatMin
  <2>4. i \in 0..n /\ ~Good(i, kept[i])
    BY <2>3
  <2>5. i # 0
    BY <2>4, <1>7
  <2>6. i \in 1..n /\ i - 1 \in 0..n /\ ~(i <= i - 1)
    BY <2>4, <2>5, <1>1
  <2>7. Good(i - 1, kept[i - 1])
    BY <2>6, <2>3
  <2> QED  BY <2>7, <2>6, <2>4, <1>8
<1>10. /\ kept[n] \in Seq(Obj)
       /\ \A x : x \in Range(kept[n]) <=> x \in T /\ \E j \in 1..n : s[j] = x
       /\ \A x, y : After(kept[n], x, y) <=> /\ x \in T /\ y \in T
                                             /\ \E j, k \in 1..n : j < k /\ s[j] = x /\ s[k] = y
  BY <1>9
<1>11. Range(kept[n]) = Range(s) \cap T
  BY <1>10, ListIs
<1>12. \A x, y : After(kept[n], x, y) <=> After(s, x, y) /\ x \in T /\ y \in T
  BY <1>10 DEF After
<1> QED  BY <1>5, <1>10, <1>11, <1>12

-----------------------------------------------------------------------------
(* Sweeping a list.                                                        *)

\* Lists that share no object, none of them twice in one.
Separate(ls) ==
  /\ ls \in [Lists -> Seq(Obj)]
  /\ \A l \in Lists : Main \notin Range(ls[l]) /\ \A x : ~After(ls[l], x, x)
  /\ \A k, l \in Lists : k # l => Range(ls[k]) \cap Range(ls[l]) = {}

\* A pointer into the list l.
Into(p, ls, l) == p = <<"head", l>> \/ \E x \in Range(ls[l]) : p = <<"next", x>>

\* What comes after a pointer.
Ahead(p, ls) ==
  IF p = None THEN {}
  ELSE IF p[1] = "head" THEN Range(ls[p[2]])
  ELSE {y \in Obj : \E l \in Lists : After(ls[l], p[2], y)}

\* Pointers of different kinds are different.
LEMMA Pointers ==
  ASSUME NEW a, NEW b
  PROVE  /\ None # <<"head", a>> /\ None # <<"next", a>> /\ <<"head", a>> # <<"next", b>>
         /\ <<"next", a>> = <<"next", b>> => a = b
<1>1. None[1] = "none" /\ <<"head", a>>[1] = "head" /\ <<"next", b>>[1] = "next" /\ <<"next", a>>[1] = "next"
  BY DEF None
<1> QED  BY <1>1

\* The smaller one of two numbers, and the smallest one of several.
LEMMA MinIs ==
  /\ \A a, b \in Int : Min({a, b}) = IF a <= b THEN a ELSE b
  /\ \A S \in SUBSET Nat : S # {} => Min(S) \in S
<1>1. ASSUME NEW a \in Int, NEW b \in Int PROVE Min({a, b}) = IF a <= b THEN a ELSE b
  <2>1. CASE a <= b
    <3>1. Min({a, b}) \in {a, b} /\ \A y \in {a, b} : Min({a, b}) <= y
      <4>1. \E x \in {a, b} : \A y \in {a, b} : x <= y
        BY <2>1
      <4> QED  BY <4>1 DEF Min
    <3> QED  BY <3>1, <2>1
  <2>2. CASE ~(a <= b)
    <3>1. Min({a, b}) \in {a, b} /\ \A y \in {a, b} : Min({a, b}) <= y
      <4>1. \E x \in {a, b} : \A y \in {a, b} : x <= y
        BY <2>2
      <4> QED  BY <4>1 DEF Min
    <3> QED  BY <3>1, <2>2
  <2> QED  BY <2>1, <2>2
<1>2. ASSUME NEW S \in SUBSET Nat, S # {} PROVE Min(S) \in S
  <2>1. \E x \in S : \A y \in S : x <= y
    BY <1>2, NatMin
  <2> QED  BY <2>1 DEF Min
<1> QED  BY <1>1, <1>2

\* A list in three pieces, and what comes after the last object of the first one.
LEMMA SplitIs ==
  ASSUME NEW s \in Seq(Obj), NEW b \in 1 .. Len(s) + 1, NEW u \in b - 1 .. Len(s)
  PROVE  LET first == SubSeq(s, 1, b - 1)
             part  == SubSeq(s, b, u)
             rest  == SubSeq(s, u + 1, Len(s))
         IN  /\ first \in Seq(Obj) /\ part \in Seq(Obj) /\ rest \in Seq(Obj)
             /\ s = first \o (part \o rest)
             /\ b = 1 => first = <<>>
             /\ \A x : x \in Range(part) <=> \E i \in b..u : s[i] = x
             /\ (\A x : ~After(s, x, x)) /\ b # 1
                  => /\ s[b - 1] \in Range(first)
                     /\ \A y : After(s, s[b - 1], y) <=> y \in Range(part) \cup Range(rest)
<1> DEFINE n == Len(s)
           first == SubSeq(s, 1, b - 1)
           part == SubSeq(s, b, u)
           rest == SubSeq(s, u + 1, n)
<1>1. n \in Nat /\ b \in Nat /\ u \in Int /\ b - 1 <= u /\ u <= n /\ 1 <= b /\ b <= n + 1
      /\ \A i \in 1..n : s[i] \in Obj
  OBVIOUS
<1>2. /\ first \in Seq(Obj) /\ Len(first) = b - 1
      /\ \A i \in 1 .. b - 1 : first[i] = s[i]
  <2>1. \A i \in 1 .. b - 1 : s[i] \in Obj
    BY <1>1
  <2>2. /\ first \in Seq(Obj) /\ Len(first) = IF 1 <= b - 1 THEN (b - 1) - 1 + 1 ELSE 0
        /\ \A i \in 1 .. (b - 1) - 1 + 1 : first[i] = s[1 + i - 1]
    <3>1. 1 \in Int /\ b - 1 \in Int
      BY <1>1
    <3> QED  BY <3>1, <2>1, SubSeqProperties
  <2>3. (b - 1) - 1 + 1 = b - 1 /\ (~(1 <= b - 1) => b - 1 = 0) /\ \A i \in 1 .. b - 1 : 1 + i - 1 = i
    BY <1>1
  <2> QED  BY <2>2, <2>3
<1>3. part \in Seq(Obj) /\ \A x : x \in Range(part) <=> \E i \in b..u : s[i] = x
  <2>1. \A i \in b..u : s[i] \in Obj
    BY <1>1
  <2>2. /\ part \in Seq(Obj) /\ Len(part) = IF b <= u THEN u - b + 1 ELSE 0
        /\ \A i \in 1 .. u - b + 1 : part[i] = s[b + i - 1]
    <3>1. b \in Int /\ u \in Int
      BY <1>1
    <3> QED  BY <3>1, <2>1, SubSeqProperties
  <2>3. Len(part) = u - b + 1
    BY <2>2, <1>1
  <2>4. ASSUME NEW x PROVE x \in Range(part) <=> \E i \in b..u : s[i] = x
    <3>1. ASSUME x \in Range(part) PROVE \E i \in b..u : s[i] = x
      <4>1. PICK i \in 1 .. u - b + 1 : part[i] = x
        BY <3>1, <2>2, <2>3, ListIs
      <4>2. b + i - 1 \in b..u /\ s[b + i - 1] = x
        BY <4>1, <2>2, <1>1
      <4> QED  BY <4>2
    <3>2. ASSUME NEW i \in b..u, s[i] = x PROVE x \in Range(part)
      <4>1. i - b + 1 \in 1 .. u - b + 1 /\ b + (i - b + 1) - 1 = i
        BY <1>1
      <4>2. part[i - b + 1] = x
        BY <4>1, <3>2, <2>2
      <4>3. i - b + 1 \in 1..Len(part)
        BY <4>1, <2>3
      <4> QED  BY <4>2, <4>3, <2>2, ListIs
    <3> QED  BY <3>1, <3>2
  <2> QED  BY <2>2, <2>4
<1>4. rest \in Seq(Obj)
  <2>1. \A i \in u + 1 .. n : s[i] \in Obj
    BY <1>1
  <2>2. u + 1 \in Int /\ n \in Int
    BY <1>1
  <2> QED  BY <2>1, <2>2, SubSeqProperties
<1>5. s = first \o (part \o rest)
  <2>1. SubSeq(s, 1, b - 1) \o SubSeq(s, (b - 1) + 1, n) = SubSeq(s, 1, n)
    <3>1. 1 \in 1 .. n + 1 /\ b - 1 \in 1 - 1 .. n /\ n \in b - 1 .. n
      BY <1>1
    <3> QED  BY <3>1, ConcatAdjacentSubSeq
  <2>2. SubSeq(s, b, u) \o SubSeq(s, u + 1, n) = SubSeq(s, b, n)
    <3>1. b \in 1 .. n + 1 /\ u \in b - 1 .. n /\ n \in u .. n
      BY <1>1
    <3> QED  BY <3>1, ConcatAdjacentSubSeq
  <2>3. (b - 1) + 1 = b
    BY <1>1
  <2>4. SubSeq(s, 1, n) = s
    BY SubSeqFull
  <2> QED  BY <2>1, <2>2, <2>3, <2>4
<1>6. b = 1 => first = <<>>
  <2>1. b = 1 => Len(first) = 0
    BY <1>2
  <2> QED  BY <2>1, <1>2
<1>7. ASSUME \A x : ~After(s, x, x), b # 1
      PROVE  /\ s[b - 1] \in Range(first)
             /\ \A y : After(s, s[b - 1], y) <=> y \in Range(part) \cup Range(rest)
  <2> DEFINE x == s[b - 1]
  <2>1. b - 1 \in 1 .. b - 1
    BY <1>7, <1>1
  <2>2. x \in Range(first)
    BY <2>1, <1>2, ListIs
  <2>3. part \o rest \in Seq(Obj) /\ Range(part \o rest) = Range(part) \cup Range(rest)
    BY <1>3, <1>4, JoinedIs
  <2>4. \A y : After(s, x, y) <=> \/ After(first, x, y) \/ After(part \o rest, x, y)
                                  \/ x \in Range(first) /\ y \in Range(part \o rest)
    <3>1. \A y : After(first \o (part \o rest), x, y)
                   <=> \/ After(first, x, y) \/ After(part \o rest, x, y)
                       \/ x \in Range(first) /\ y \in Range(part \o rest)
      BY <1>2, <2>3, JoinedIs
    <3> QED  BY <3>1, <1>5
  <2>5. \A y : ~After(first, x, y)
    <3>1. ASSUME NEW y, After(first, x, y) PROVE FALSE
      <4>1. PICK i, j \in 1..Len(first) : i < j /\ first[i] = x /\ first[j] = y
        BY <3>1 DEF After
      <4>2. i \in 1..n /\ b - 1 \in 1..n /\ i < b - 1 /\ s[i] = x
        BY <4>1, <1>2, <1>1
      <4>3. After(s, x, x)
        BY <4>2 DEF After
      <4> QED  BY <4>3, <1>7
    <3> QED  BY <3>1
  <2>6. \A y : ~After(part \o rest, x, y)
    <3>1. ASSUME x \in Range(part \o rest) PROVE FALSE
      <4>1. After(s, x, x)
        BY <3>1, <2>2, <2>4
      <4> QED  BY <4>1, <1>7
    <3> QED  BY <3>1, <2>3, ListIs
  <2> QED  BY <2>2, <2>3, <2>4, <2>5, <2>6
<1> QED  BY <1>2, <1>3, <1>4, <1>5, <1>6, <1>7

\* The list and the place that a pointer points to.
LEMMA WhereIs ==
  ASSUME NEW ls, Separate(ls), NEW l \in Lists, NEW p, Into(p, ls, l)
  PROVE  LET at == Where(p, ls)
         IN  /\ at[1] = l /\ at[2] \in 1 .. Len(ls[l]) + 1
             /\ p = <<"head", l>> => at[2] = 1
             /\ p # <<"head", l>> => at[2] # 1 /\ p = <<"next", ls[l][at[2] - 1]>>
<1>1. ls[l] \in Seq(Obj) /\ Len(ls[l]) \in Nat
  BY DEF Separate
<1>2. CASE p = <<"head", l>>
  <2>1. Where(p, ls) = <<l, 1>>
    BY <1>2 DEF Where
  <2>2. 1 \in 1 .. Len(ls[l]) + 1
    BY <1>1
  <2> QED  BY <2>1, <2>2, <1>2
<1>3. CASE p # <<"head", l>>
  <2>1. PICK x \in Range(ls[l]) : p = <<"next", x>>
    BY <1>3 DEF Into
  <2> DEFINE k == CHOOSE k \in Lists : p[2] \in Range(ls[k])
  <2>2. p[1] = "next" /\ p[2] = x
    BY <2>1
  <2>3. k = l
    <3>1. k \in Lists /\ x \in Range(ls[k])
      BY <2>1, <2>2
    <3> HIDE DEF k
    <3> QED  BY <3>1, <2>1 DEF Separate
  <2>4. Where(p, ls) = <<l, Place(ls[l], x) + 1>>
    <3>1. Where(p, ls) = <<k, Place(ls[k], p[2]) + 1>>
      BY <2>2 DEF Where
    <3> HIDE DEF k
    <3> QED  BY <3>1, <2>2, <2>3
  <2>5. Place(ls[l], x) \in 1..Len(ls[l]) /\ ls[l][Place(ls[l], x)] = x
    <3>1. \E i \in 1..Len(ls[l]) : ls[l][i] = x
      BY <1>1, <2>1, ListIs
    <3> QED  BY <3>1 DEF Place
  <2>6. /\ Place(ls[l], x) + 1 \in 1 .. Len(ls[l]) + 1 /\ Place(ls[l], x) + 1 # 1
        /\ (Place(ls[l], x) + 1) - 1 = Place(ls[l], x)
    BY <2>5, <1>1
  <2> QED  BY <2>1, <2>4, <2>5, <2>6, <1>3
<1> QED  BY <1>2, <1>3

\* What comes after a pointer into a list is in that list.
LEMMA AheadIs ==
  ASSUME NEW ls, Separate(ls), NEW l \in Lists
  PROVE  /\ Ahead(None, ls) = {}
         /\ Ahead(<<"head", l>>, ls) = Range(ls[l])
         /\ \A x \in Range(ls[l]) : \A y : y \in Ahead(<<"next", x>>, ls) <=> After(ls[l], x, y)
         /\ \A p : Into(p, ls, l) => Ahead(p, ls) \subseteq Range(ls[l])
         /\ \A x \in Range(ls[l]) : x \notin Ahead(<<"next", x>>, ls)
<1>1. Ahead(None, ls) = {}
  BY DEF Ahead
<1>2. Ahead(<<"head", l>>, ls) = Range(ls[l])
  <2>1. <<"head", l>> # None
    BY Pointers
  <2> QED  BY <2>1 DEF Ahead
<1>3. ASSUME NEW x \in Range(ls[l]), NEW y
      PROVE  y \in Ahead(<<"next", x>>, ls) <=> After(ls[l], x, y)
  <2>1. <<"next", x>> # None
    BY Pointers
  <2>2. Ahead(<<"next", x>>, ls) = {z \in Obj : \E k \in Lists : After(ls[k], x, z)}
    BY <2>1 DEF Ahead
  <2>3. \A k \in Lists : After(ls[k], x, y) => k = l /\ y \in Obj
    <3>1. ASSUME NEW k \in Lists, After(ls[k], x, y) PROVE k = l /\ y \in Obj
      <4>1. ls[k] \in Seq(Obj)
        BY DEF Separate
      <4>2. x \in Range(ls[k]) /\ y \in Obj
        BY <4>1, <3>1, ListIs
      <4> QED  BY <4>2, <1>3 DEF Separate
    <3> QED  BY <3>1
  <2> QED  BY <2>2, <2>3
<1>4. \A p : Into(p, ls, l) => Ahead(p, ls) \subseteq Range(ls[l])
  <2>1. ls[l] \in Seq(Obj)
    BY DEF Separate
  <2>2. \A x \in Range(ls[l]) : Ahead(<<"next", x>>, ls) \subseteq Range(ls[l])
    BY <1>3, <2>1, ListIs
  <2> QED  BY <2>2, <1>2 DEF Into
<1>5. \A x \in Range(ls[l]) : x \notin Ahead(<<"next", x>>, ls)
  BY <1>3 DEF Separate
<1> QED  BY <1>1, <1>2, <1>3, <1>4, <1>5

\* Nothing comes after the last object of a list.
LEMMA LastIs ==
  ASSUME NEW s \in Seq(Obj), s # <<>>, \A x : ~After(s, x, x)
  PROVE  s[Len(s)] \in Range(s) /\ \A y : ~After(s, s[Len(s)], y)
<1>1. Len(s) \in 1..Len(s) /\ Len(s) \in Nat
  <2>1. Len(s) # 0 /\ Len(s) \in Nat
    OBVIOUS
  <2> QED  BY <2>1
<1>2. ASSUME NEW y, After(s, s[Len(s)], y) PROVE FALSE
  <2>1. PICK i, j \in 1..Len(s) : i < j /\ s[i] = s[Len(s)] /\ s[j] = y
    BY <1>2 DEF After
  <2>2. i < Len(s)
    BY <2>1, <1>1
  <2>3. After(s, s[Len(s)], s[Len(s)])
    BY <2>1, <2>2, <1>1 DEF After
  <2> QED  BY <2>3
<1> QED  BY <1>1, <1>2, ListIs

\* The sweep s of objects B of the list l, from the pointer p on.
SweptFrom(s, B, l, p, ls, col, w) ==
  /\ B \subseteq Ahead(p, ls) /\ B \subseteq Range(ls[l])
  /\ s.freed = {o \in B : col[o] = Other(w)}
  /\ s.color = [o \in Obj |-> IF o \in B \ s.freed THEN w ELSE col[o]]
  /\ Separate(s.list)
  /\ \A k \in Lists : /\ Range(s.list[k]) = Range(ls[k]) \ s.freed
                      /\ \A x, y : After(s.list[k], x, y) <=> After(ls[k], x, y) /\ x \notin s.freed /\ y \notin s.freed
  /\ Ahead(s.p, s.list) = Ahead(p, ls) \ B
  /\ s.p = None \/ (s.p = p /\ B \subseteq s.freed) \/ \E y \in B : s.p = <<"next", y>>
  /\ s.p = None \/ (Into(s.p, s.list, l) /\ Ahead(s.p, s.list) # {})

\* Whatever SweepList leaves of a part of a list, the other lists are what they were.
LEMMA SweepIs ==
  ASSUME NEW ls, Separate(ls), NEW l \in Lists, NEW p, Into(p, ls, l),
         NEW k \in Nat, NEW col \in [Obj -> Colors], NEW w
  PROVE  LET b == Where(p, ls)[2]
             u == Min({Len(ls[l]), b + k - 1})
         IN  /\ b \in 1 .. Len(ls[l]) + 1 /\ u \in b - 1 .. Len(ls[l])
             /\ SweptFrom(SweepList(p, k, ls, col, w), {ls[l][i] : i \in b..u}, l, p, ls, col, w)
<1> DEFINE at == Where(p, ls)
           b == at[2]
           n == Len(ls[l])
           u == Min({n, b + k - 1})
           first == SubSeq(ls[l], 1, b - 1)
           part == SubSeq(ls[l], b, u)
           rest == SubSeq(ls[l], u + 1, n)
           T == {o \in Obj : col[o] # Other(w)}
           live == Kept(part, T)
           new == (first \o live) \o rest
           s == SweepList(p, k, ls, col, w)
           F == Range(first)
           B == Range(part)
           C == Range(rest)
<1>1. ls[l] \in Seq(Obj) /\ n \in Nat /\ \A x : ~After(ls[l], x, x)
  BY DEF Separate
<1>2. /\ at[1] = l /\ b \in 1 .. n + 1
      /\ p = <<"head", l>> => b = 1
      /\ p # <<"head", l>> => b # 1 /\ p = <<"next", ls[l][b - 1]>>
  BY WhereIs
<1>3. u \in b - 1 .. n
  <2>1. u = IF n <= b + k - 1 THEN n ELSE b + k - 1
    <3>1. n \in Int /\ b + k - 1 \in Int
      BY <1>1, <1>2
    <3> HIDE DEF n, b
    <3> QED  BY <3>1, MinIs
  <2> HIDE DEF u, n, b
  <2> QED  BY <2>1, <1>1, <1>2
<1>4. /\ s.list = [ls EXCEPT ![l] = new]
      /\ s.color = [o \in Obj |-> IF o \in Range(live) THEN w ELSE col[o]]
      /\ s.freed = B \ Range(live)
      /\ s.p = IF rest = <<>> THEN None ELSE IF live = <<>> THEN p ELSE <<"next", live[Len(live)]>>
  BY <1>2 DEF SweepList
<1> HIDE DEF at, b, n, u, s
<1>5. /\ first \in Seq(Obj) /\ part \in Seq(Obj) /\ rest \in Seq(Obj)
      /\ ls[l] = first \o (part \o rest)
      /\ b = 1 => first = <<>>
      /\ \A x : x \in B <=> \E i \in b..u : ls[l][i] = x
      /\ b # 1 => /\ ls[l][b - 1] \in F
                  /\ \A y : After(ls[l], ls[l][b - 1], y) <=> y \in B \cup C
  <2>1. b \in 1 .. Len(ls[l]) + 1 /\ u \in b - 1 .. Len(ls[l])
    BY <1>2, <1>3 DEF n
  <2>2. /\ first \in Seq(Obj) /\ part \in Seq(Obj) /\ rest \in Seq(Obj)
        /\ ls[l] = first \o (part \o rest)
        /\ b = 1 => first = <<>>
        /\ \A x : x \in B <=> \E i \in b..u : ls[l][i] = x
        /\ (\A x : ~After(ls[l], x, x)) /\ b # 1
             => /\ ls[l][b - 1] \in F
                /\ \A y : After(ls[l], ls[l][b - 1], y) <=> y \in B \cup C
    BY <1>1, <2>1, SplitIs DEF n
  <2> HIDE DEF first, part, rest
  <2> QED  BY <2>2, <1>1
<1>6. /\ live \in Seq(Obj) /\ Range(live) = B \cap T
      /\ \A x, y : After(live, x, y) <=> After(part, x, y) /\ x \in T /\ y \in T
  BY <1>5, KeptIs
<1>7. /\ part \o rest \in Seq(Obj) /\ Range(part \o rest) = B \cup C
      /\ \A x, y : After(part \o rest, x, y) <=> \/ After(part, x, y) \/ After(rest, x, y)
                                                 \/ x \in B /\ y \in C
  BY <1>5, JoinedIs
<1>8. /\ Range(ls[l]) = F \cup (B \cup C)
      /\ \A x, y : After(ls[l], x, y) <=> \/ After(first, x, y) \/ After(part \o rest, x, y)
                                          \/ x \in F /\ y \in B \cup C
  <2>1. /\ Range(first \o (part \o rest)) = F \cup Range(part \o rest)
        /\ \A x, y : After(first \o (part \o rest), x, y)
                       <=> \/ After(first, x, y) \/ After(part \o rest, x, y)
                           \/ x \in F /\ y \in Range(part \o rest)
    BY <1>5, <1>7, JoinedIs, ZenonT(30)
  <2> QED  BY <2>1, <1>5, <1>7
<1>9. /\ first \o live \in Seq(Obj) /\ Range(first \o live) = F \cup (B \cap T)
      /\ \A x, y : After(first \o live, x, y) <=> \/ After(first, x, y) \/ After(live, x, y)
                                                  \/ x \in F /\ y \in B \cap T
  <2>1. /\ first \o live \in Seq(Obj) /\ Range(first \o live) = F \cup Range(live)
        /\ \A x, y : After(first \o live, x, y) <=> \/ After(first, x, y) \/ After(live, x, y)
                                                    \/ x \in F /\ y \in Range(live)
    BY <1>5, <1>6, JoinedIs
  <2> QED  BY <2>1, <1>6
<1>10. /\ new \in Seq(Obj) /\ Range(new) = F \cup (B \cap T) \cup C
       /\ \A x, y : After(new, x, y) <=> \/ After(first \o live, x, y) \/ After(rest, x, y)
                                         \/ x \in F \cup (B \cap T) /\ y \in C
  <2>1. /\ new \in Seq(Obj) /\ Range(new) = Range(first \o live) \cup C
        /\ \A x, y : After(new, x, y) <=> \/ After(first \o live, x, y) \/ After(rest, x, y)
                                          \/ x \in Range(first \o live) /\ y \in C
    <3>1. first \o live \in Seq(Obj) /\ rest \in Seq(Obj)
      BY <1>5, <1>9
    <3> HIDE DEF first, live, rest
    <3> QED  BY <3>1, JoinedIs
  <2> QED  BY <2>1, <1>9
<1>11. F \cap B = {} /\ F \cap C = {} /\ B \cap C = {} /\ B \subseteq Obj
  <2>1. \A x : x \in F /\ x \in B \cup C => After(ls[l], x, x)
    BY <1>8
  <2>2. \A x : x \in B /\ x \in C => After(ls[l], x, x)
    BY <1>7, <1>8
  <2>3. B \subseteq Obj
    BY <1>5, ListIs
  <2> HIDE DEF first, part, rest
  <2> QED  BY <2>1, <2>2, <2>3, <1>1
<1> DEFINE in1(x, y) == After(first, x, y)
           in2(x, y) == After(part, x, y)
           in3(x, y) == After(rest, x, y)
<1>12. /\ \A x, y : in1(x, y) => x \in F /\ y \in F
       /\ \A x, y : in2(x, y) => x \in B /\ y \in B
       /\ \A x, y : in3(x, y) => x \in C /\ y \in C
  BY <1>5, ListIs
<1> DEFINE freed == B \ T
<1>13. s.freed = freed /\ s.freed = {o \in B : col[o] = Other(w)}
  <2> HIDE DEF first, part, rest, live
  <2> QED  BY <1>4, <1>6, <1>11
<1>14. s.color = [o \in Obj |-> IF o \in B \ s.freed THEN w ELSE col[o]]
  <2>1. B \ freed = B \cap T
    OBVIOUS
  <2> HIDE DEF first, part, rest, live, T, freed
  <2> QED  BY <2>1, <1>4, <1>6, <1>13
<1>15. /\ Range(new) = Range(ls[l]) \ freed
       /\ \A x, y : After(new, x, y) <=> After(ls[l], x, y) /\ x \notin freed /\ y \notin freed
  <2>1. Range(new) = Range(ls[l]) \ freed
    <3> HIDE DEF first, part, rest, live, T, new
    <3> QED  BY <1>8, <1>10, <1>11 DEF freed
  <2>2. ASSUME NEW x, NEW y
        PROVE  After(new, x, y) <=> After(ls[l], x, y) /\ x \notin freed /\ y \notin freed
    <3>1. After(new, x, y) <=> \/ in1(x, y) \/ (in2(x, y) /\ x \in T /\ y \in T) \/ in3(x, y)
                               \/ x \in F /\ y \in B \cap T
                               \/ x \in F \cup (B \cap T) /\ y \in C
      <4> HIDE DEF first, part, rest, live, T, new
      <4> QED  BY <1>10, <1>9, <1>6
    <3>2. After(ls[l], x, y) <=> \/ in1(x, y) \/ in2(x, y) \/ in3(x, y)
                                 \/ x \in B /\ y \in C
                                 \/ x \in F /\ y \in B \cup C
      <4> HIDE DEF first, part, rest
      <4> QED  BY <1>7, <1>8
    <3> HIDE DEF in1, in2, in3, first, part, rest, T, new
    <3> QED  BY <3>1, <3>2, <1>11, <1>12 DEF freed
  <2> QED  BY <2>1, <2>2
<1>16. s.list = [ls EXCEPT ![l] = new] /\ s.list[l] = new /\ \A j \in Lists \ {l} : s.list[j] = ls[j]
  <2> HIDE DEF new
  <2> QED  BY <1>4 DEF Separate
<1>17. \A j \in Lists : /\ Range(s.list[j]) = Range(ls[j]) \ freed
                        /\ \A x, y : After(s.list[j], x, y) <=> After(ls[j], x, y) /\ x \notin freed /\ y \notin freed
  <2> HIDE DEF new, first, part, rest, T
  <2>1. ASSUME NEW j \in Lists, j # l
        PROVE  /\ Range(ls[j]) = Range(ls[j]) \ freed
               /\ \A x, y : After(ls[j], x, y) => x \notin freed /\ y \notin freed
    <3>1. Range(ls[j]) \cap freed = {}
      BY <2>1, <1>8 DEF Separate, freed
    <3>2. ls[j] \in Seq(Obj)
      BY DEF Separate
    <3> HIDE DEF freed
    <3> QED  BY <3>1, <3>2, ListIs
  <2> HIDE DEF freed
  <2> QED  BY <2>1, <1>15, <1>16
<1>18. Separate(s.list)
  <2> HIDE DEF new, first, part, rest, T, freed
  <2>1. s.list \in [Lists -> Seq(Obj)]
    BY <1>16, <1>10 DEF Separate
  <2> QED  BY <2>1, <1>17 DEF Separate
<1>19. Ahead(p, ls) = B \cup C
  <2> HIDE DEF first, part, rest
  <2>1. CASE b = 1
    <3>1. p = <<"head", l>>
      BY <1>2, <2>1
    <3>2. F = {}
      <4>1. first = <<>>
        BY <2>1, <1>5
      <4> QED  BY <4>1, <1>5, ListIs
    <3> QED  BY <3>1, <3>2, <1>8, AheadIs
  <2>2. CASE b # 1
    <3>1. p = <<"next", ls[l][b - 1]>> /\ ls[l][b - 1] \in Range(ls[l])
      BY <1>2, <2>2, <1>5, <1>8
    <3>2. \A y : y \in Ahead(p, ls) <=> After(ls[l], ls[l][b - 1], y)
      BY <3>1, AheadIs, ZenonT(30)
    <3> QED  BY <3>2, <1>5, <2>2
  <2> QED  BY <2>1, <2>2
<1>20. /\ Ahead(s.p, s.list) = C
       /\ s.p = None \/ (s.p = p /\ B \subseteq s.freed) \/ \E y \in B : s.p = <<"next", y>>
       /\ s.p = None \/ (Into(s.p, s.list, l) /\ C # {})
  <2> HIDE DEF first, part, rest, T
  <2>a. rest # <<>> => C # {}
    BY <1>5, ListIs
  <2>1. CASE rest = <<>>
    <3>1. s.p = None /\ C = {}
      BY <1>4, <2>1, <1>5, ListIs
    <3> QED  BY <3>1, <1>18, AheadIs
  <2>2. CASE rest # <<>> /\ live = <<>>
    <3>1. s.p = p /\ B \cap T = {}
      <4>1. Range(live) = {}
        BY <2>2, <1>6, ListIs
      <4> QED  BY <4>1, <2>2, <1>4, <1>6
    <3>2. freed = B /\ Range(s.list[l]) = F \cup C
      <4> HIDE DEF live, new
      <4> QED  BY <3>1, <1>10, <1>16
    <3>3. CASE b = 1
      <4>1. p = <<"head", l>>
        BY <1>2, <3>3
      <4>2. F = {}
        <5>1. first = <<>>
          BY <3>3, <1>5
        <5> QED  BY <5>1, <1>5, ListIs
      <4>3. Ahead(p, s.list) = Range(s.list[l])
        BY <4>1, <1>18, AheadIs
      <4>4. Into(s.p, s.list, l)
        BY <4>1, <3>1 DEF Into
      <4> QED  BY <4>2, <4>3, <4>4, <3>1, <3>2, <1>13, <2>a, <2>2
    <3>4. CASE b # 1
      <4> DEFINE x == ls[l][b - 1]
      <4>1. p = <<"next", x>> /\ x \in F /\ x \in Range(s.list[l])
        BY <1>2, <3>4, <1>5, <3>2
      <4>2. \A y : y \in Ahead(p, s.list) <=> After(s.list[l], x, y)
        BY <4>1, <1>18, AheadIs, ZenonT(30)
      <4>3. \A y : After(s.list[l], x, y) <=> y \in (B \cup C) /\ x \notin freed /\ y \notin freed
        <5> HIDE DEF new, freed, live
        <5> QED  BY <1>17, <1>5, <3>4
      <4>4. \A y : After(s.list[l], x, y) <=> y \in C
        <5> HIDE DEF new, live, x
        <5> QED  BY <4>3, <4>1, <3>2, <1>11
      <4>5. Into(s.p, s.list, l)
        BY <4>1, <3>1 DEF Into
      <4> QED  BY <4>2, <4>4, <4>5, <3>1, <3>2, <1>13, <2>a, <2>2
    <3> QED  BY <3>3, <3>4
  <2>3. CASE rest # <<>> /\ live # <<>>
    <3> DEFINE x == live[Len(live)]
    <3>1. s.p = <<"next", x>>
      BY <1>4, <2>3
    <3>2. x \in B \cap T /\ \A y : ~After(live, x, y)
      <4>1. \A z : ~After(live, z, z)
        <5>1. \A z : After(part, z, z) => After(ls[l], z, z)
          BY <1>7, <1>8
        <5> HIDE DEF live
        <5> QED  BY <5>1, <1>6, <1>1
      <4>2. live # <<>>
        BY <2>3
      <4> HIDE DEF live
      <4> QED  BY <4>1, <4>2, <1>6, LastIs
    <3> HIDE DEF x
    <3>3. x \notin F /\ x \notin C /\ x \in Range(s.list[l])
      <4> HIDE DEF live, new
      <4> QED  BY <3>2, <1>10, <1>11, <1>16
    <3>4. \A y : After(new, x, y) <=> y \in C
      <4>1. \A y : ~in1(x, y) /\ ~in3(x, y)
        BY <3>3, <1>12
      <4>2. \A y : ~After(first \o live, x, y)
        <5> HIDE DEF live, new
        <5> QED  BY <4>1, <3>2, <3>3, <1>9
      <4> HIDE DEF live, new
      <4> QED  BY <4>1, <4>2, <3>2, <3>3, <1>10
    <3>5. \A y : y \in Ahead(s.p, s.list) <=> After(s.list[l], x, y)
      BY <3>1, <3>3, <1>18, AheadIs
    <3>6. Into(s.p, s.list, l)
      BY <3>1, <3>3 DEF Into
    <3> HIDE DEF live, new
    <3> QED  BY <3>1, <3>2, <3>4, <3>5, <3>6, <1>16, <2>a, <2>3
  <2> QED  BY <2>1, <2>2, <2>3
<1>21. B = {ls[l][i] : i \in b..u}
  BY <1>5
<1>22. C = Ahead(p, ls) \ B /\ B \subseteq Ahead(p, ls) /\ B \subseteq Range(ls[l])
  <2> HIDE DEF first, part, rest
  <2> QED  BY <1>19, <1>11, <1>8
<1> DEFINE R == {ls[l][i] : i \in b..u}
<1>23. SweptFrom(s, R, l, p, ls, col, w)
  <2> HIDE DEF first, part, rest, T, freed, live, new, R
  <2>1. B = R
    BY <1>21 DEF R
  <2>2. C = Ahead(p, ls) \ R
    BY <2>1, <1>22
  <2>3. \A j \in Lists : /\ Range(s.list[j]) = Range(ls[j]) \ s.freed
                         /\ \A x, y : After(s.list[j], x, y) <=> After(ls[j], x, y) /\ x \notin s.freed /\ y \notin s.freed
    BY <1>13, <1>17
  <2>4. Ahead(s.p, s.list) = Ahead(p, ls) \ R
    BY <2>2, <1>20
  <2> QED  BY <2>1, <2>3, <2>4, <1>13, <1>14, <1>18, <1>20, <1>22 DEF SweptFrom
<1> QED  BY <1>2, <1>3, <1>23 DEF s, u, b, at, n, R

\* SweepToLive sweeps a list up to an object that lives on, and never stops where it began.
LEMMA ToLiveIs ==
  ASSUME NEW ls, Separate(ls), NEW l \in Lists, NEW p, Into(p, ls, l),
         NEW col \in [Obj -> Colors], NEW w
  PROVE  LET s == SweepToLive(p, ls, col, w)
         IN  s.p # p /\ \E B \in SUBSET Obj : SweptFrom(s, B, l, p, ls, col, w)
<1> DEFINE at == Where(p, ls)
           b == at[2]
           n == Len(ls[l])
           live == {i \in b..n : col[ls[l][i]] # Other(w)}
           k == IF live = {} THEN n ELSE Min(live) - b + 1
           u == Min({n, b + k - 1})
           s == SweepList(p, k, ls, col, w)
           B == {ls[l][i] : i \in b..u}
<1>1. ls[l] \in Seq(Obj) /\ n \in Nat /\ \A i \in 1..n : ls[l][i] \in Obj
  BY DEF Separate
<1>2. at[1] = l /\ b \in 1 .. n + 1
  BY WhereIs
<1>3. SweepToLive(p, ls, col, w) = s
  BY <1>2 DEF SweepToLive
<1>4. live # {} => Min(live) \in live
  <2>1. live \in SUBSET Nat
    BY <1>1, <1>2
  <2> HIDE DEF live
  <2> QED  BY <2>1, MinIs
<1>5. k \in Nat
  <2>1. CASE live = {}
    BY <2>1, <1>1
  <2>2. CASE live # {}
    <3>1. Min(live) \in b..n
      BY <2>2, <1>4
    <3> HIDE DEF live, b, n
    <3> QED  BY <3>1, <2>2, <1>1, <1>2
  <2> QED  BY <2>1, <2>2
<1> HIDE DEF k
<1>6. u \in b - 1 .. n /\ SweptFrom(s, B, l, p, ls, col, w)
  BY <1>5, SweepIs
<1>7. B \in SUBSET Obj
  <2> HIDE DEF n, b, u
  <2>1. \A i \in b..u : i \in 1..n
    BY <1>1, <1>2, <1>6
  <2> QED  BY <2>1, <1>1
<1>8. s.p # p
  <2> HIDE DEF s, u, b, at, n
  <2>1. SUFFICES ASSUME s.p = p PROVE FALSE
    OBVIOUS
  <2>2. p # None
    BY Pointers DEF Into
  <2>3. p \notin {<<"next", y>> : y \in B}
    <3>1. SUFFICES ASSUME NEW y \in B, p = <<"next", y>> PROVE FALSE
      OBVIOUS
    <3>2. y \in Ahead(p, ls)
      BY <1>6 DEF SweptFrom
    <3>3. y \in Range(ls[l])
      BY <1>6 DEF SweptFrom
    <3> QED  BY <3>1, <3>2, <3>3, AheadIs
  <2>4. B \subseteq s.freed
    BY <2>1, <2>2, <2>3, <1>6 DEF SweptFrom
  <2>5. \A o \in B : col[o] = Other(w)
    <3>1. s.freed = {o \in B : col[o] = Other(w)}
      BY <1>6 DEF SweptFrom
    <3> HIDE DEF B
    <3> QED  BY <3>1, <2>4
  <2>6. CASE live # {}
    <3>1. Min(live) \in b..n /\ col[ls[l][Min(live)]] # Other(w) /\ k = Min(live) - b + 1
      BY <2>6, <1>4 DEF k
    <3>2. u = Min(live)
      <4>1. b + k - 1 \in Int /\ n \in Int /\ b + k - 1 = Min(live) /\ (n <= b + k - 1 => n = Min(live))
        <5> HIDE DEF live
        <5> QED  BY <3>1, <1>1, <1>2
      <4>2. u = IF n <= b + k - 1 THEN n ELSE b + k - 1
        BY <4>1, MinIs DEF u
      <4> HIDE DEF live
      <4> QED  BY <4>1, <4>2
    <3>3. ls[l][u] \in B
      <4>1. u \in b..u
        <5> HIDE DEF live
        <5> QED  BY <3>1, <3>2, <1>2, <1>1
      <4> QED  BY <4>1
    <3> HIDE DEF live, B
    <3> QED  BY <3>1, <3>2, <3>3, <2>5
  <2>7. CASE live = {}
    <3>1. k = n
      BY <2>7 DEF k
    <3>2. Ahead(p, ls) \subseteq B
      <4>1. u = n
        <5>1. b + n - 1 \in Int /\ n \in Int /\ n <= b + n - 1
          BY <1>1, <1>2
        <5> QED  BY <5>1, <3>1, MinIs DEF u
      <4>2. CASE b = 1
        <5>1. Range(ls[l]) = B
          BY <4>1, <4>2, <1>1, ListIs DEF n
        <5> HIDE DEF B
        <5> QED  BY <5>1, AheadIs
      <4>3. CASE b # 1
        <5>1. p # <<"head", l>> /\ p = <<"next", ls[l][b - 1]>>
          BY <4>3, WhereIs DEF b, at
        <5>2. b - 1 \in 1..n
          BY <4>3, <1>2, <1>1
        <5>3. ls[l][b - 1] \in Range(ls[l])
          BY <5>2, <1>1, ListIs DEF n
        <5>4. ASSUME NEW y, After(ls[l], ls[l][b - 1], y) PROVE y \in B
          <6>1. PICK i, j \in 1..n : i < j /\ ls[l][i] = ls[l][b - 1] /\ ls[l][j] = y
            BY <5>4 DEF After, n
          <6>2. i = b - 1
            <7>1. IsInjective(ls[l]) /\ DOMAIN ls[l] = 1..n
              BY <1>1, ListIs DEF Separate, n
            <7> QED  BY <7>1, <6>1, <5>2 DEF IsInjective
          <6>3. j \in b..u
            BY <6>1, <6>2, <4>1, <1>1, <1>2
          <6> QED  BY <6>3, <6>1
        <5> HIDE DEF B
        <5> QED  BY <5>1, <5>3, <5>4, AheadIs
      <4> QED  BY <4>2, <4>3
    <3>3. Ahead(s.p, s.list) = {}
      <4> HIDE DEF B
      <4> QED  BY <3>2, <1>6 DEF SweptFrom
    <3> QED  BY <3>3, <2>1, <2>2, <1>6 DEF SweptFrom
  <2> QED  BY <2>6, <2>7
<1> QED  BY <1>3, <1>6, <1>7, <1>8

-----------------------------------------------------------------------------
(* From one list to another.                                               *)

\* A new object in front of a list.
LEMMA PrependedIs ==
  ASSUME NEW ls, Separate(ls), NEW l \in Lists, NEW o \in Obj \ {Main},
         \A k \in Lists : o \notin Range(ls[k])
  PROVE  LET r == [ls EXCEPT ![l] = <<o>> \o @]
         IN  /\ Separate(r)
             /\ \A k \in Lists : Range(r[k]) = Range(ls[k]) \cup (IF k = l THEN {o} ELSE {})
             /\ \A k \in Lists : \A p : Into(p, ls, k)
                  => Into(p, r, k) /\ Ahead(p, r) \subseteq Ahead(p, ls) \cup {o} /\ Ahead(p, ls) \subseteq Ahead(p, r)
             /\ \A k \in Lists : \A x \in Range(ls[k]) : Ahead(<<"next", x>>, r) = Ahead(<<"next", x>>, ls)
<1> DEFINE r == [ls EXCEPT ![l] = <<o>> \o @]
<1>1. ls \in [Lists -> Seq(Obj)] /\ ls[l] \in Seq(Obj)
  BY DEF Separate
<1>2. /\ <<o>> \in Seq(Obj) /\ Range(<<o>>) = {o} /\ \A x, y : ~After(<<o>>, x, y)
  BY OneIs
<1>3. /\ <<o>> \o ls[l] \in Seq(Obj) /\ Range(<<o>> \o ls[l]) = {o} \cup Range(ls[l])
      /\ \A x, y : After(<<o>> \o ls[l], x, y) <=> After(ls[l], x, y) \/ (x = o /\ y \in Range(ls[l]))
  <2>1. /\ <<o>> \o ls[l] \in Seq(Obj) /\ Range(<<o>> \o ls[l]) = Range(<<o>>) \cup Range(ls[l])
        /\ \A x, y : After(<<o>> \o ls[l], x, y) <=> \/ After(<<o>>, x, y) \/ After(ls[l], x, y)
                                                     \/ x \in Range(<<o>>) /\ y \in Range(ls[l])
    BY <1>1, <1>2, JoinedIs
  <2> QED  BY <2>1, <1>2
<1>4. r \in [Lists -> Seq(Obj)] /\ r[l] = <<o>> \o ls[l] /\ \A k \in Lists \ {l} : r[k] = ls[k]
  BY <1>1, <1>3
<1> HIDE DEF r
<1>5. \A k \in Lists : Range(r[k]) = Range(ls[k]) \cup (IF k = l THEN {o} ELSE {})
  BY <1>3, <1>4
<1>6. \A k \in Lists : \A x, y : x # o => (After(r[k], x, y) <=> After(ls[k], x, y))
  <2>1. \A x, y : x # o => (After(r[l], x, y) <=> After(ls[l], x, y))
    BY <1>3, <1>4
  <2>2. ASSUME NEW k \in Lists \ {l} PROVE \A x, y : After(r[k], x, y) <=> After(ls[k], x, y)
    BY <1>4
  <2> QED  BY <2>1, <2>2
<1>7. \A k \in Lists : \A y : ~After(ls[k], o, y)
  BY <1>1, ListIs
<1>8. Separate(r)
  <2>1. \A k \in Lists : \A x : ~After(r[k], x, x)
    <3>1. \A k \in Lists : \A x : x # o => ~After(r[k], x, x)
      BY <1>6 DEF Separate
    <3>2. \A k \in Lists : k # l => ~After(r[k], o, o)
      BY <1>4, <1>7
    <3>3. ~After(r[l], o, o)
      BY <1>3, <1>4, <1>7
    <3> QED  BY <3>1, <3>2, <3>3
  <2>2. \A k \in Lists : Main \notin Range(r[k])
    BY <1>5 DEF Separate
  <2>3. ASSUME NEW j \in Lists, NEW k \in Lists, j # k PROVE Range(r[j]) \cap Range(r[k]) = {}
    <3>1. Range(ls[j]) \cap Range(ls[k]) = {} /\ o \notin Range(ls[j]) /\ o \notin Range(ls[k])
      BY <2>3 DEF Separate
    <3>2. /\ Range(r[j]) = Range(ls[j]) \cup (IF j = l THEN {o} ELSE {})
          /\ Range(r[k]) = Range(ls[k]) \cup (IF k = l THEN {o} ELSE {})
      BY <1>5
    <3> QED  BY <3>1, <3>2, <2>3
  <2> QED  BY <2>1, <2>2, <2>3, <1>4 DEF Separate
<1>9. ASSUME NEW k \in Lists, NEW x \in Range(ls[k])
      PROVE  Ahead(<<"next", x>>, r) = Ahead(<<"next", x>>, ls) /\ Into(<<"next", x>>, r, k)
  <2>1. x # o /\ x \in Range(r[k])
    BY <1>5
  <2>2. \A y : y \in Ahead(<<"next", x>>, r) <=> y \in Ahead(<<"next", x>>, ls)
    BY <2>1, <1>6, <1>8, AheadIs
  <2> QED  BY <2>1, <2>2 DEF Into
<1>10. ASSUME NEW k \in Lists, NEW p, Into(p, ls, k)
       PROVE  Into(p, r, k) /\ Ahead(p, r) \subseteq Ahead(p, ls) \cup {o} /\ Ahead(p, ls) \subseteq Ahead(p, r)
  <2>1. CASE p = <<"head", k>>
    <3>1. Ahead(p, r) = Range(r[k]) /\ Ahead(p, ls) = Range(ls[k])
      BY <2>1, <1>8, AheadIs
    <3> QED  BY <3>1, <2>1, <1>5 DEF Into
  <2>2. CASE \E x \in Range(ls[k]) : p = <<"next", x>>
    BY <2>2, <1>9
  <2> QED  BY <2>1, <2>2, <1>10 DEF Into
<1> QED  BY <1>5, <1>8, <1>9, <1>10 DEF r

\* An object is taken out of its list.
LEMMA RemovedIs ==
  ASSUME NEW ls, Separate(ls), NEW o, NEW r \in [Lists -> Seq(Obj)],
         \A k \in Lists : Range(r[k]) = Range(ls[k]) \ {o},
         \A k \in Lists : \A x, y : After(r[k], x, y) <=> After(ls[k], x, y) /\ x # o /\ y # o
  PROVE  /\ Separate(r)
         /\ \A k \in Lists : \A p : Into(p, ls, k) /\ p # <<"next", o>>
              => Into(p, r, k) /\ Ahead(p, r) = Ahead(p, ls) \ {o}
<1>1. Separate(r)
  BY DEF Separate
<1>2. ASSUME NEW k \in Lists, NEW p, Into(p, ls, k), p # <<"next", o>>
      PROVE  Into(p, r, k) /\ Ahead(p, r) = Ahead(p, ls) \ {o}
  <2>1. CASE p = <<"head", k>>
    <3>1. Ahead(p, r) = Range(r[k]) /\ Ahead(p, ls) = Range(ls[k])
      BY <2>1, <1>1, AheadIs
    <3> QED  BY <3>1, <2>1 DEF Into
  <2>2. ASSUME NEW x \in Range(ls[k]), p = <<"next", x>> PROVE Into(p, r, k) /\ Ahead(p, r) = Ahead(p, ls) \ {o}
    <3>1. x # o /\ x \in Range(r[k])
      BY <2>2, <1>2
    <3>2. \A y : y \in Ahead(p, r) <=> After(r[k], x, y)
      BY <3>1, <2>2, <1>1, AheadIs
    <3>3. \A y : y \in Ahead(p, ls) <=> After(ls[k], x, y)
      BY <2>2, AheadIs
    <3>4. \A y : y \in Ahead(p, r) <=> y \in Ahead(p, ls) /\ y # o
      BY <3>1, <3>2, <3>3
    <3> QED  BY <3>1, <3>4, <2>2 DEF Into
  <2> QED  BY <2>1, <2>2, <1>2 DEF Into
<1> QED  BY <1>1, <1>2

\* An object goes from the list j, of which q is left, to the front of the list l.
LEMMA MovedIs ==
  ASSUME NEW ls, Separate(ls), NEW j \in Lists, NEW l \in Lists, j # l, NEW o \in Obj \ {Main},
         \A k \in Lists \ {j} : o \notin Range(ls[k]),
         NEW q \in Seq(Obj), Range(q) = Range(ls[j]) \ {o},
         \A x, y : After(q, x, y) <=> After(ls[j], x, y) /\ x # o /\ y # o
  PROVE  LET r == [ls EXCEPT ![j] = q, ![l] = <<o>> \o @]
         IN  /\ Separate(r)
             /\ \A k \in Lists : Range(r[k]) = (Range(ls[k]) \ {o}) \cup (IF k = l THEN {o} ELSE {})
             /\ \A k \in Lists : \A p : Into(p, ls, k) /\ p # <<"next", o>>
                  => /\ Into(p, r, k)
                     /\ Ahead(p, ls) \ {o} \subseteq Ahead(p, r) /\ Ahead(p, r) \subseteq Ahead(p, ls) \cup {o}
<1> DEFINE h == [ls EXCEPT ![j] = q]
           r == [h EXCEPT ![l] = <<o>> \o @]
<1>1. ls \in [Lists -> Seq(Obj)]
  BY DEF Separate
<1>2. h \in [Lists -> Seq(Obj)] /\ h[j] = q /\ \A k \in Lists \ {j} : h[k] = ls[k]
  BY <1>1
<1>3. [ls EXCEPT ![j] = q, ![l] = <<o>> \o @] = r
  OBVIOUS
<1> HIDE DEF h
<1>4. \A k \in Lists : Range(h[k]) = Range(ls[k]) \ {o}
  BY <1>2
<1>5. \A k \in Lists : \A x, y : After(h[k], x, y) <=> After(ls[k], x, y) /\ x # o /\ y # o
  <2>1. ASSUME NEW k \in Lists \ {j}, NEW x, NEW y, After(ls[k], x, y) PROVE x # o /\ y # o
    <3>1. x \in Range(ls[k]) /\ y \in Range(ls[k])
      BY <2>1, <1>1, ListIs
    <3> QED  BY <3>1
  <2> QED  BY <2>1, <1>2
<1>6. /\ Separate(h)
      /\ \A k \in Lists : \A p : Into(p, ls, k) /\ p # <<"next", o>>
           => Into(p, h, k) /\ Ahead(p, h) = Ahead(p, ls) \ {o}
  BY <1>2, <1>4, <1>5, RemovedIs
<1>7. /\ Separate(r)
      /\ \A k \in Lists : Range(r[k]) = Range(h[k]) \cup (IF k = l THEN {o} ELSE {})
      /\ \A k \in Lists : \A p : Into(p, h, k)
           => Into(p, r, k) /\ Ahead(p, r) \subseteq Ahead(p, h) \cup {o} /\ Ahead(p, h) \subseteq Ahead(p, r)
  <2>1. \A k \in Lists : o \notin Range(h[k])
    BY <1>4
  <2>2. Separate(h)
    BY <1>6
  <2> HIDE DEF Into
  <2> QED  BY <2>1, <2>2, PrependedIs
<1> HIDE DEF r
<1>8. \A k \in Lists : Range(r[k]) = (Range(ls[k]) \ {o}) \cup (IF k = l THEN {o} ELSE {})
  BY <1>4, <1>7
<1>9. ASSUME NEW k \in Lists, NEW p, Into(p, ls, k), p # <<"next", o>>
      PROVE  /\ Into(p, r, k)
             /\ Ahead(p, ls) \ {o} \subseteq Ahead(p, r) /\ Ahead(p, r) \subseteq Ahead(p, ls) \cup {o}
  <2>1. Into(p, h, k) /\ Ahead(p, h) = Ahead(p, ls) \ {o}
    BY <1>6, <1>9
  <2>2. Into(p, r, k) /\ Ahead(p, r) \subseteq Ahead(p, h) \cup {o} /\ Ahead(p, h) \subseteq Ahead(p, r)
    BY <1>7, <2>1
  <2> QED  BY <2>1, <2>2
<1> QED  BY <1>3, <1>7, <1>8, <1>9

\* What is left of a list without one object, or without its first one.
LEMMA LeftOver ==
  ASSUME NEW s \in Seq(Obj), \A x : ~After(s, x, x)
  PROVE  /\ \A o : LET q == Kept(s, Obj \ {o})
                   IN  /\ q \in Seq(Obj) /\ Range(q) = Range(s) \ {o}
                       /\ \A x, y : After(q, x, y) <=> After(s, x, y) /\ x # o /\ y # o
         /\ s # <<>> => /\ Head(s) \in Range(s) /\ Tail(s) \in Seq(Obj) /\ Range(Tail(s)) = Range(s) \ {Head(s)}
                        /\ \A x, y : After(Tail(s), x, y) <=> After(s, x, y) /\ x # Head(s) /\ y # Head(s)
<1>1. ASSUME NEW o
      PROVE  LET q == Kept(s, Obj \ {o})
             IN  /\ q \in Seq(Obj) /\ Range(q) = Range(s) \ {o}
                 /\ \A x, y : After(q, x, y) <=> After(s, x, y) /\ x # o /\ y # o
  <2>1. /\ Range(s) \subseteq Obj
        /\ \A x, y : After(s, x, y) => x \in Range(s) /\ y \in Range(s)
    BY ListIs
  <2> DEFINE q == Kept(s, Obj \ {o})
  <2>2. /\ q \in Seq(Obj) /\ Range(q) = Range(s) \cap (Obj \ {o})
        /\ \A x, y : After(q, x, y) <=> After(s, x, y) /\ x \in Obj \ {o} /\ y \in Obj \ {o}
    BY KeptIs
  <2> HIDE DEF q
  <2>3. Range(q) = Range(s) \ {o}
    BY <2>1, <2>2
  <2>4. \A x, y : After(q, x, y) <=> After(s, x, y) /\ x # o /\ y # o
    BY <2>1, <2>2
  <2> QED  BY <2>2, <2>3, <2>4 DEF q
<1>2. ASSUME s # <<>>
      PROVE  /\ Head(s) \in Range(s) /\ Tail(s) \in Seq(Obj) /\ Range(Tail(s)) = Range(s) \ {Head(s)}
             /\ \A x, y : After(Tail(s), x, y) <=> After(s, x, y) /\ x # Head(s) /\ y # Head(s)
  <2> DEFINE o == Head(s)
             t == Tail(s)
  <2>1. o \in Obj /\ t \in Seq(Obj) /\ s = <<o>> \o t
    BY <1>2
  <2> HIDE DEF o, t
  <2>2. <<o>> \in Seq(Obj) /\ Range(<<o>>) = {o} /\ \A x, y : ~After(<<o>>, x, y)
    BY <2>1, OneIs
  <2>3. /\ Range(<<o>> \o t) = Range(<<o>>) \cup Range(t)
        /\ \A x, y : After(<<o>> \o t, x, y) <=> \/ After(<<o>>, x, y) \/ After(t, x, y)
                                                 \/ x \in Range(<<o>>) /\ y \in Range(t)
    BY <2>1, <2>2, JoinedIs
  <2>4. /\ Range(s) = {o} \cup Range(t)
        /\ \A x, y : After(s, x, y) <=> After(t, x, y) \/ (x = o /\ y \in Range(t))
    BY <2>1, <2>2, <2>3
  <2>5. o \notin Range(t)
    BY <2>4
  <2>6. \A x, y : After(t, x, y) => x # o /\ y # o
    BY <2>5, <2>1, ListIs
  <2>7. \A x, y : After(t, x, y) <=> After(s, x, y) /\ x # o /\ y # o
    BY <2>4, <2>6
  <2> QED  BY <2>1, <2>4, <2>5, <2>7 DEF o, t
<1> QED  BY <1>1, <1>2

-----------------------------------------------------------------------------
(* The atomic step, from its marks to the entries it clears.               *)

\* What is clean stays clean when marks advance and entries go.
LEMMA CleanStays ==
  ASSUME NEW n, NEW r, NEW en, NEW ed, NEW o, NEW i,
         Whites(r) \subseteq Whites(n), ed[o] \subseteq en[o], Clean(n, en, o, i)
  PROVE  Clean(r, ed, o, i)
BY DEF Clean

\* The white objects of the list finobj go to tobefnz, in their order.
LEMMA Separated ==
  ASSUME NEW ls, Separate(ls), NEW T \in SUBSET Obj
  PROVE  LET r == [ls EXCEPT !["finobj"] = Kept(@, Obj \ T), !["tobefnz"] = @ \o Kept(ls["finobj"], T)]
         IN  /\ Separate(r)
             /\ r["allgc"] = ls["allgc"] /\ Range(r["finobj"]) = Range(ls["finobj"]) \ T
             /\ Range(r["tobefnz"]) = Range(ls["tobefnz"]) \cup (Range(ls["finobj"]) \cap T)
<1> DEFINE f == ls["finobj"]
           t == ls["tobefnz"]
           live == Kept(f, Obj \ T)
           dead == Kept(f, T)
           r == [ls EXCEPT !["finobj"] = live, !["tobefnz"] = t \o dead]
<1>1. /\ "finobj" \in Lists /\ "tobefnz" \in Lists /\ "allgc" \in Lists
      /\ \A l \in Lists : l = "finobj" \/ l = "tobefnz" \/ l = "allgc"
  BY DEF Lists
<1>2. ls \in [Lists -> Seq(Obj)] /\ f \in Seq(Obj) /\ t \in Seq(Obj)
  BY <1>1 DEF Separate
<1>3. /\ live \in Seq(Obj) /\ Range(live) = Range(f) \cap (Obj \ T)
      /\ \A x, y : After(live, x, y) <=> After(f, x, y) /\ x \in Obj \ T /\ y \in Obj \ T
  BY <1>2, KeptIs
<1>4. /\ dead \in Seq(Obj) /\ Range(dead) = Range(f) \cap T
      /\ \A x, y : After(dead, x, y) <=> After(f, x, y) /\ x \in T /\ y \in T
  BY <1>2, KeptIs
<1>5. /\ t \o dead \in Seq(Obj) /\ Range(t \o dead) = Range(t) \cup Range(dead)
      /\ \A x, y : After(t \o dead, x, y) <=> \/ After(t, x, y) \/ After(dead, x, y)
                                              \/ x \in Range(t) /\ y \in Range(dead)
  BY <1>2, <1>4, JoinedIs
<1>6. [ls EXCEPT !["finobj"] = Kept(@, Obj \ T), !["tobefnz"] = @ \o Kept(ls["finobj"], T)] = r
  BY <1>1, <1>2
<1> HIDE DEF live, dead
<1>7. /\ r \in [Lists -> Seq(Obj)] /\ r["finobj"] = live /\ r["tobefnz"] = t \o dead
      /\ r["allgc"] = ls["allgc"]
  BY <1>1, <1>2, <1>3, <1>5
<1> HIDE DEF r
<1>8. Range(f) \subseteq Obj
  BY <1>2, ListIs
<1>9. Range(r["finobj"]) = Range(f) \ T /\ Range(r["tobefnz"]) = Range(t) \cup (Range(f) \cap T)
  BY <1>3, <1>4, <1>5, <1>7, <1>8
<1>10. Range(f) \cap Range(t) = {} /\ Range(f) \cap Range(ls["allgc"]) = {} /\ Range(t) \cap Range(ls["allgc"]) = {}
       /\ Main \notin Range(f) /\ Main \notin Range(t) /\ Main \notin Range(ls["allgc"])
       /\ \A x : ~After(f, x, x) /\ ~After(t, x, x) /\ ~After(ls["allgc"], x, x)
  BY <1>1 DEF Separate
<1>11. Separate(r)
  <2>1. \A x : ~After(r["finobj"], x, x)
    BY <1>3, <1>7, <1>10
  <2>2. \A x : ~After(r["tobefnz"], x, x)
    BY <1>4, <1>5, <1>7, <1>10
  <2>3. \A l \in Lists : Main \notin Range(r[l]) /\ \A x : ~After(r[l], x, x)
    BY <2>1, <2>2, <1>1, <1>7, <1>9, <1>10
  <2>4. \A k, l \in Lists : k # l => Range(r[k]) \cap Range(r[l]) = {}
    <3>1. /\ Range(r["finobj"]) \cap Range(r["tobefnz"]) = {} /\ Range(r["finobj"]) \cap Range(r["allgc"]) = {}
          /\ Range(r["tobefnz"]) \cap Range(r["allgc"]) = {}
      BY <1>7, <1>9, <1>10
    <3> QED  BY <3>1, <1>1
  <2> QED  BY <2>3, <2>4, <1>7 DEF Separate
<1> QED  BY <1>6, <1>7, <1>9, <1>11

\* What waits for its finalizer is marked, and what it leads to.
LEMMA ResurrectIs ==
  ASSUME NEW a \in Snapshots, Separate(a.ls), NEW L \in SUBSET Obj, Closed(a.en, L), Ready(a.n, a.en, L),
         Range(a.ls["finobj"]) \subseteq L, Range(a.ls["tobefnz"]) \subseteq L
  PROVE  LET r == Resurrect(a)
         IN  /\ r \in Snapshots /\ r.en = a.en /\ r.weak = a.weak /\ r.allweak = a.allweak
             /\ Advanced(a.n, r.n) /\ Ready(r.n, a.en, L) /\ AllSettled(r.n, a.en)
             /\ Separate(r.ls) /\ r.ls["allgc"] = a.ls["allgc"]
             /\ Range(r.ls["finobj"]) = Range(a.ls["finobj"]) \ Whites(a.n)
             /\ Range(r.ls["tobefnz"]) = Range(a.ls["tobefnz"]) \cup (Range(a.ls["finobj"]) \cap Whites(a.n))
             /\ Range(r.ls["tobefnz"]) \cap Whites(r.n) = {}
<1> DEFINE ls == [a.ls EXCEPT !["finobj"] = Kept(@, Obj \ Whites(a.n)),
                              !["tobefnz"] = @ \o Kept(a.ls["finobj"], Whites(a.n))]
           S == Range(ls["tobefnz"])
           x == Mark(a.n, a.en, S)
           y == PropagateAll(x, a.en)
           z == ConvergeEphemerons(y, a.en)
           r == [a EXCEPT !.ls = ls, !.n = z]
<1>1. /\ a.n \in Marks /\ a.en \in Contents /\ a.weak \in SUBSET Obj /\ a.allweak \in SUBSET Obj
      /\ a.ls \in [Lists -> Seq(Obj)]
      /\ a = [n |-> a.n, en |-> a.en, ls |-> a.ls, weak |-> a.weak, allweak |-> a.allweak]
  BY DEF Snapshots
<1>2. Whites(a.n) \in SUBSET Obj
  BY <1>1, MarksType
<1>3. /\ Separate(ls) /\ ls["allgc"] = a.ls["allgc"] /\ Range(ls["finobj"]) = Range(a.ls["finobj"]) \ Whites(a.n)
      /\ S = Range(a.ls["tobefnz"]) \cup (Range(a.ls["finobj"]) \cap Whites(a.n))
  BY <1>2, Separated
<1>4. Resurrect(a) = r
  BY <1>1 DEF Resurrect
<1> HIDE DEF ls, S
<1>5. S \subseteq L
  BY <1>3
<1>6. MarkedFrom(a.n, x, a.en, S)
  BY <1>1, MarkIs
<1> HIDE DEF x
<1>7. x \in Marks /\ Advanced(a.n, x)
  BY <1>1, <1>6, MarkAdvances
<1>8. S \cap Whites(x) = {}
  BY <1>6 DEF MarkedFrom
<1>9. Within(a.n, L) /\ Pending(a.n, a.en, {}) /\ Sorted(a.n, a.en) /\ S \cap Whites(a.n) \subseteq L
  BY <1>5 DEF Ready
<1>10. Within(x, L) /\ Pending(x, a.en, {}) /\ Sorted(x, a.en)
  BY <1>1, <1>6, <1>9, MarkKeeps
<1>11. y \in Marks /\ y.gray = {} /\ Traversed(x, y, a.en, L, {})
  BY <1>1, <1>7, <1>10, PropagateAllIs
<1> HIDE DEF y
<1>12. Ready(y, a.en, L) /\ Advanced(x, y)
  BY <1>10, <1>11 DEF Ready, Traversed
<1>13. z \in Marks /\ Advanced(y, z) /\ Ready(z, a.en, L) /\ AllSettled(z, a.en)
  BY <1>1, <1>11, <1>12, ConvergeIs
<1> HIDE DEF z
<1>14. Advanced(a.n, z) /\ Whites(z) \subseteq Whites(x)
  <2>1. Advanced(x, z)
    BY <1>7, <1>11, <1>12, <1>13, AdvancedStays
  <2>2. Advanced(a.n, z)
    BY <2>1, <1>1, <1>7, <1>13, AdvancedStays
  <2> QED  BY <2>1, <2>2, <1>7, <1>13, AdvancedStays
<1>15. S \cap Whites(z) = {}
  BY <1>8, <1>14
<1>16. ls \in [Lists -> Seq(Obj)]
  BY <1>3 DEF Separate
<1>17. r \in Snapshots /\ r.en = a.en /\ r.weak = a.weak /\ r.allweak = a.allweak /\ r.n = z /\ r.ls = ls
  BY <1>1, <1>13, <1>16 DEF Snapshots
<1> HIDE DEF r
<1> QED  BY <1>3, <1>4, <1>13, <1>14, <1>15, <1>17 DEF S

\* Of the tables that are marked and done nothing is left but entries of marked objects.
LEMMA CleanIsMarked ==
  ASSUME NEW n \in Marks, NEW en \in Contents, NEW o \in Obj,
         Done(n, en, o), o \in n.ephemeron => Settled(n, en, o),
         o \in n.ephemeron \cup n.allweak => Clean(n, en, o, 1),
         o \in n.weak \cup n.allweak => Clean(n, en, o, 2)
  PROVE  Content(en, o) \cap Whites(n) = {}
<1>1. Whites(n) \subseteq Obj /\ Plain \notin Obj /\ Strings \subseteq Obj
  BY MarksType, Kinds
<1>2. \A e \in en[o] : e[1] \in Obj \cup {Plain} /\ e[2] \in Obj \cup {Plain}
  BY ContentIsObjects
<1>3. \A v \in Obj \cup {Plain} : Cleared(n, v) <=> v \in Whites(n) \ Strings
  BY ClearedStays
<1>4. Clean(n, en, o, 1) => Keys(en, o) \cap Whites(n) = {}
  BY <1>1, <1>2 DEF Clean, Keys
<1>5. Clean(n, en, o, 2) => Vals(en, o) \cap Whites(n) = {}
  BY <1>1, <1>2 DEF Clean, Vals
<1>6. Keys(en, o) \subseteq Obj /\ Vals(en, o) \subseteq Obj
  BY ContentIsObjects
<1>7. CASE Weak(o, "v")
  <2>1. /\ (Keys(en, o) \cup (Vals(en, o) \cap Strings)) \cap Whites(n) = {}
        /\ o \in n.weak \/ \A v \in Vals(en, o) : ~Cleared(n, v)
    BY <1>7 DEF Done
  <2>2. Vals(en, o) \cap Whites(n) = {}
    BY <2>1, <1>3, <1>5, <1>6
  <2> QED  BY <2>1, <2>2 DEF Content
<1>8. CASE Weak(o, "k")
  <2>1. /\ Keys(en, o) \cap Strings \cap Whites(n) = {}
        /\ \/ o \in n.ephemeron
           \/ /\ Vals(en, o) \cap Whites(n) = {}
              /\ o \in n.allweak \/ \A k \in Keys(en, o) : ~Cleared(n, k)
    BY <1>8 DEF Done
  <2>2. Keys(en, o) \cap Whites(n) = {}
    BY <2>1, <1>3, <1>4, <1>6
  <2>3. CASE o \in n.ephemeron
    <3>1. \A e \in en[o] : ~Cleared(n, e[1])
      BY <2>3, <1>2, <1>3 DEF Clean
    <3>2. \A e \in en[o] : e[2] \notin Whites(n)
      BY <2>3, <3>1 DEF Settled
    <3>3. Vals(en, o) \cap Whites(n) = {}
      BY <3>2 DEF Vals
    <3> QED  BY <2>2, <3>3 DEF Content
  <2> QED  BY <2>1, <2>2, <2>3 DEF Content
<1>9. CASE Weak(o, "kv")
  <2>1. o \in n.allweak \/ Content(en, o) \cap Whites(n) = {}
    BY <1>9 DEF Done
  <2> QED  BY <2>1, <1>4, <1>5 DEF Content
<1>10. CASE ~(Weak(o, "v") \/ Weak(o, "k") \/ Weak(o, "kv"))
  BY <1>10 DEF Done
<1> QED  BY <1>7, <1>8, <1>9, <1>10

\* The parts of atomic: the marks r when everything reachable is marked, and the snapshots
\* when the values of weak tables are cleared (b), what waits for its finalizer lives on (d),
\* dead keys are cleared (f) and the values of weak tables marked last (c).
Stages(r, b, d, f, c, L) ==
  /\ Ready(r, entries, L) /\ AllSettled(r, entries) /\ {Main, Reg} \cap Whites(r) = {} /\ Darkened(m, r)
  /\ b \in Snapshots /\ b.ls = list /\ b.weak = r.weak /\ b.allweak = r.allweak /\ Advanced(r, b.n)
  /\ \A o \in Obj : b.en[o] \subseteq entries[o] /\ (o \notin r.weak \cup r.allweak => b.en[o] = entries[o])
  /\ \A o \in r.weak \cup r.allweak :
       Clean(b.n, b.en, o, 2) /\ \A e \in entries[o] \ b.en[o] : Cleared(b.n, e[2])
  /\ d \in Snapshots /\ d.en = b.en /\ d.weak = b.weak /\ d.allweak = b.allweak
  /\ Advanced(b.n, d.n) /\ Ready(d.n, b.en, L) /\ AllSettled(d.n, b.en)
  /\ Separate(d.ls) /\ d.ls["allgc"] = b.ls["allgc"]
  /\ Range(d.ls["finobj"]) = Range(b.ls["finobj"]) \ Whites(b.n)
  /\ Range(d.ls["tobefnz"]) = Range(b.ls["tobefnz"]) \cup (Range(b.ls["finobj"]) \cap Whites(b.n))
  /\ Range(d.ls["tobefnz"]) \cap Whites(d.n) = {}
  /\ ClearedFrom(d, f, d.n.ephemeron \cup d.n.allweak, 1) /\ Ready(f.n, f.en, L) /\ AllSettled(f.n, f.en)
  /\ ClearedFrom(f, c, (d.n.weak \ d.weak) \cup (d.n.allweak \ d.allweak), 2)
  /\ Ready(c.n, c.en, L) /\ AllSettled(c.n, c.en)

\* atomic goes through them.
LEMMA AtomicStages ==
  ASSUME m \in Marks, entries \in Contents, Separate(list), NEW L \in SUBSET Obj, Closed(entries, L),
         {Main, Reg} \cup HasFinalizer \subseteq L,
         Within(m, L), Pending(m, entries, m.grayagain), Sorted(m, entries)
  PROVE  \E b, d, f : Stages(Marked(m, entries), b, d, f, ClearRest(Resurrect(ClearValues(Marked(m, entries)))), L)
<1> DEFINE r == Marked(m, entries)
           a == [n |-> r, en |-> entries, ls |-> list, weak |-> r.weak, allweak |-> r.allweak]
           R == r.weak \cup r.allweak
           b == Clear(a, R, 2)
           d == Resurrect(b)
           S == d.n.ephemeron \cup d.n.allweak
           f == Clear(d, S, 1)
           T == (d.n.weak \ d.weak) \cup (d.n.allweak \ d.allweak)
           c == Clear(f, T, 2)
<1>1. {Main, Reg} \subseteq L /\ In("finobj") \subseteq L /\ In("tobefnz") \subseteq L
  BY DEF HasFinalizer
<1>2. /\ Ready(r, entries, L) /\ AllSettled(r, entries)
      /\ {Main, Reg} \cap Whites(r) = {} /\ Darkened(m, r)
  BY <1>1, MarkedIs
<1>3. r \in Marks /\ Within(r, L)
  BY <1>2 DEF Ready
<1>4. ClearRest(Resurrect(ClearValues(r))) = c
  BY DEF ClearValues, ClearRest
<1> HIDE DEF r
<1>5. a \in Snapshots
  <2>1. list \in [Lists -> Seq(Obj)]
    BY DEF Separate
  <2> QED  BY <1>3, <2>1, MarksType DEF Snapshots
<1>6. a.n = r /\ a.en = entries /\ a.ls = list /\ a.weak = r.weak /\ a.allweak = r.allweak
  OBVIOUS
<1> HIDE DEF a
<1>7. R \in SUBSET Obj /\ R \subseteq L
  BY <1>3 DEF Within
<1>8. ClearedFrom(a, b, R, 2)
  BY <1>5, <1>7, ClearIs
<1> HIDE DEF b
<1>9. /\ b \in Snapshots /\ b.ls = list /\ b.weak = r.weak /\ b.allweak = r.allweak
      /\ Advanced(r, b.n)
      /\ \A o \in Obj : b.en[o] \subseteq entries[o] /\ (o \notin R => b.en[o] = entries[o])
      /\ \A o \in R : Clean(b.n, b.en, o, 2) /\ \A e \in entries[o] \ b.en[o] : Cleared(b.n, e[2])
      /\ Closed(b.en, L) /\ Ready(b.n, b.en, L)
  BY <1>2, <1>6, <1>7, <1>8 DEF ClearedFrom
<1>10. /\ d \in Snapshots /\ d.en = b.en /\ d.weak = b.weak /\ d.allweak = b.allweak
       /\ Advanced(b.n, d.n) /\ Ready(d.n, b.en, L) /\ AllSettled(d.n, b.en)
       /\ Separate(d.ls) /\ d.ls["allgc"] = b.ls["allgc"]
       /\ Range(d.ls["finobj"]) = Range(b.ls["finobj"]) \ Whites(b.n)
       /\ Range(d.ls["tobefnz"]) = Range(b.ls["tobefnz"]) \cup (Range(b.ls["finobj"]) \cap Whites(b.n))
       /\ Range(d.ls["tobefnz"]) \cap Whites(d.n) = {}
  <2>1. Separate(b.ls) /\ Range(b.ls["finobj"]) \subseteq L /\ Range(b.ls["tobefnz"]) \subseteq L
    BY <1>1, <1>9 DEF In
  <2> QED  BY <1>9, <2>1, ResurrectIs
<1> HIDE DEF d
<1>11. S \in SUBSET Obj /\ T \in SUBSET Obj /\ S \subseteq L /\ T \subseteq L
  <2>1. d.n \in Marks /\ Within(d.n, L)
    BY <1>10 DEF Ready
  <2> QED  BY <2>1 DEF Within
<1>12. ClearedFrom(d, f, S, 1)
  BY <1>10, <1>11, ClearIs
<1> HIDE DEF f
<1>13. f \in Snapshots /\ Closed(f.en, L) /\ Ready(f.n, f.en, L) /\ AllSettled(f.n, f.en)
  <2>1. Closed(d.en, L) /\ Ready(d.n, d.en, L) /\ AllSettled(d.n, d.en)
    BY <1>9, <1>10
  <2> HIDE DEF S
  <2> QED  BY <1>11, <1>12, <2>1 DEF ClearedFrom
<1>14. ClearedFrom(f, c, T, 2)
  BY <1>11, <1>13, ClearIs
<1> HIDE DEF c
<1>15. Ready(c.n, c.en, L) /\ AllSettled(c.n, c.en)
  <2> HIDE DEF T
  <2> QED  BY <1>11, <1>13, <1>14 DEF ClearedFrom
<1>16. Stages(r, b, d, f, c, L)
  BY <1>2, <1>9, <1>10, <1>12, <1>13, <1>14, <1>15 DEF Stages
<1>17. \E b1, d1, f1 : Stages(r, b1, d1, f1, c, L)
  BY <1>16
<1> QED  BY <1>4, <1>17 DEF r

\* After atomic marked objects lead to marked ones only, and those of a set that
\* what is marked does not lead out of are the only ones marked.
LEMMA AtomicIs ==
  ASSUME m \in Marks, entries \in Contents, Separate(list), NEW L \in SUBSET Obj, Closed(entries, L),
         {Main, Reg} \cup HasFinalizer \subseteq L,
         Within(m, L), Pending(m, entries, m.grayagain), Sorted(m, entries)
  PROVE  LET c == ClearRest(Resurrect(ClearValues(Marked(m, entries))))
         IN  /\ c \in Snapshots /\ \A o \in Obj : c.en[o] \subseteq entries[o]
             /\ Darkened(m, c.n) /\ Within(c.n, L)
             /\ Separate(c.ls) /\ Range(c.ls["allgc"]) = In("allgc")
             /\ Range(c.ls["finobj"]) \cup Range(c.ls["tobefnz"]) = HasFinalizer
             /\ ({Main, Reg} \cup Range(c.ls["tobefnz"])) \cap Whites(c.n) = {}
             /\ \A o \in Obj : o \in Whites(c.n) \/ Content(c.en, o) \cap Whites(c.n) = {}
<1> DEFINE r == Marked(m, entries)
           c == ClearRest(Resurrect(ClearValues(r)))
<1>1. PICK b, d, f : Stages(r, b, d, f, c, L)
  BY AtomicStages
<1> HIDE DEF r, c
<1> DEFINE R == r.weak \cup r.allweak
           S == d.n.ephemeron \cup d.n.allweak
           T == (d.n.weak \ d.weak) \cup (d.n.allweak \ d.allweak)
<1>2. /\ Ready(r, entries, L) /\ AllSettled(r, entries)
      /\ {Main, Reg} \cap Whites(r) = {} /\ Darkened(m, r)
  BY <1>1 DEF Stages
<1>3. r \in Marks
  BY <1>2 DEF Ready
<1>4. /\ b \in Snapshots /\ b.ls = list /\ b.weak = r.weak /\ b.allweak = r.allweak
      /\ Advanced(r, b.n) /\ \A o \in Obj : b.en[o] \subseteq entries[o]
      /\ \A o \in R : Clean(b.n, b.en, o, 2)
  BY <1>1 DEF Stages
<1>5. /\ d \in Snapshots /\ d.en = b.en /\ d.weak = b.weak /\ d.allweak = b.allweak
      /\ Advanced(b.n, d.n) /\ Ready(d.n, b.en, L) /\ AllSettled(d.n, b.en)
      /\ Separate(d.ls) /\ d.ls["allgc"] = b.ls["allgc"]
      /\ Range(d.ls["finobj"]) = Range(b.ls["finobj"]) \ Whites(b.n)
      /\ Range(d.ls["tobefnz"]) = Range(b.ls["tobefnz"]) \cup (Range(b.ls["finobj"]) \cap Whites(b.n))
      /\ Range(d.ls["tobefnz"]) \cap Whites(d.n) = {}
  BY <1>1 DEF Stages
<1>6. d.n \in Marks
  BY <1>5 DEF Ready
<1>7. /\ f \in Snapshots /\ f.ls = d.ls
      /\ f.n.ephemeron = d.n.ephemeron /\ f.n.allweak = d.n.allweak /\ f.n.weak = d.n.weak
      /\ Advanced(d.n, f.n) /\ \A o \in Obj : f.en[o] \subseteq d.en[o]
      /\ \A o \in S : Clean(f.n, f.en, o, 1)
  <2>1. ClearedFrom(d, f, S, 1)
    BY <1>1 DEF Stages
  <2> HIDE DEF S
  <2> QED  BY <2>1 DEF ClearedFrom
<1>8. /\ c \in Snapshots /\ c.ls = d.ls
      /\ c.n.ephemeron = d.n.ephemeron /\ c.n.allweak = d.n.allweak /\ c.n.weak = d.n.weak
      /\ Advanced(f.n, c.n) /\ \A o \in Obj : c.en[o] \subseteq f.en[o]
      /\ \A o \in T : Clean(c.n, c.en, o, 2)
      /\ Ready(c.n, c.en, L) /\ AllSettled(c.n, c.en)
  <2>1. ClearedFrom(f, c, T, 2) /\ Ready(c.n, c.en, L) /\ AllSettled(c.n, c.en)
    BY <1>1 DEF Stages
  <2> HIDE DEF T
  <2> QED  BY <1>7, <2>1 DEF ClearedFrom
<1>9. b.n \in Marks /\ f.n \in Marks /\ c.n \in Marks /\ c.en \in Contents
  BY <1>4, <1>7, <1>8 DEF Snapshots
<1>10. /\ Whites(c.n) \subseteq Whites(f.n) /\ Whites(f.n) \subseteq Whites(d.n)
       /\ Whites(d.n) \subseteq Whites(b.n) /\ Whites(b.n) \subseteq Whites(r)
  BY <1>3, <1>4, <1>5, <1>6, <1>7, <1>8, <1>9, AdvancedStays
<1>11. Darkened(m, c.n)
  <2>1. Darkened(r, b.n) /\ Darkened(b.n, d.n) /\ Darkened(d.n, f.n) /\ Darkened(f.n, c.n)
    BY <1>3, <1>4, <1>5, <1>6, <1>7, <1>8, <1>9, DarkenedStays
  <2>2. Darkened(m, b.n)
    BY <1>2, <1>3, <2>1, DarkenedStays
  <2>3. Darkened(m, d.n)
    BY <1>9, <2>1, <2>2, DarkenedStays
  <2>4. Darkened(m, f.n)
    BY <1>6, <2>1, <2>3, DarkenedStays
  <2> QED  BY <1>9, <2>1, <2>4, DarkenedStays
<1>12. \A o \in Obj : c.en[o] \subseteq b.en[o] /\ c.en[o] \subseteq entries[o]
  BY <1>4, <1>5, <1>7, <1>8
<1>13. ASSUME NEW o \in Obj, o \notin Whites(c.n) PROVE Content(c.en, o) \cap Whites(c.n) = {}
  <2>1. Done(c.n, c.en, o)
    BY <1>8, <1>13 DEF Ready, Pending
  <2>2. o \in c.n.ephemeron => Settled(c.n, c.en, o)
    BY <1>8 DEF AllSettled
  <2>3. ASSUME o \in c.n.ephemeron \cup c.n.allweak PROVE Clean(c.n, c.en, o, 1)
    <3>1. Clean(f.n, f.en, o, 1)
      BY <2>3, <1>7, <1>8 DEF S
    <3> QED  BY <3>1, <1>8, <1>10, CleanStays
  <2>4. ASSUME o \in c.n.weak \cup c.n.allweak PROVE Clean(c.n, c.en, o, 2)
    <3>1. CASE o \in R
      <4>1. Clean(b.n, b.en, o, 2) /\ Whites(c.n) \subseteq Whites(b.n)
        BY <3>1, <1>4, <1>10
      <4> QED  BY <4>1, <1>12, CleanStays
    <3>2. CASE o \notin R
      <4>1. o \in T
        BY <2>4, <3>2, <1>4, <1>5, <1>8 DEF T
      <4> QED  BY <4>1, <1>8
    <3> QED  BY <3>1, <3>2
  <2> QED  BY <1>9, <2>1, <2>2, <2>3, <2>4, CleanIsMarked
<1>14. Within(c.n, L)
  BY <1>8 DEF Ready
<1>15. /\ Separate(c.ls) /\ Range(c.ls["allgc"]) = In("allgc")
       /\ Range(c.ls["finobj"]) \cup Range(c.ls["tobefnz"]) = HasFinalizer
  <2>1. /\ Separate(c.ls) /\ c.ls["allgc"] = list["allgc"]
        /\ Range(c.ls["finobj"]) = Range(list["finobj"]) \ Whites(b.n)
        /\ Range(c.ls["tobefnz"]) = Range(list["tobefnz"]) \cup (Range(list["finobj"]) \cap Whites(b.n))
    BY <1>4, <1>5, <1>8
  <2> QED  BY <2>1 DEF HasFinalizer, In
<1>16. ({Main, Reg} \cup Range(c.ls["tobefnz"])) \cap Whites(c.n) = {}
  BY <1>2, <1>5, <1>8, <1>10
<1> QED  BY <1>8, <1>11, <1>12, <1>13, <1>14, <1>15, <1>16 DEF c, r

=============================================================================
