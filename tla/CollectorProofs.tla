-------------------------- MODULE CollectorProofs --------------------------
(***************************************************************************)
(* Proofs about module Collector, for every set of objects and from every  *)
(* heap that its assumptions allow.                                        *)
(*                                                                         *)
(* The invariant has a part that always holds, TypeInv, and a part that    *)
(* holds until a finalizer overtakes the sweep, Good, which says:          *)
(*   SafeAt     objects that live on lead to objects that live on;         *)
(*   MarkingAt  while marking, no black object leads to a white one, and   *)
(*              gray objects are in the lists that will be visited;        *)
(*   SweepAt    what the sweep has passed has the current white;           *)
(*   GarbageAt  nothing leads to what was garbage when the cycle began.    *)
(***************************************************************************)
EXTENDS CollectorLemmas

-----------------------------------------------------------------------------
(* Everything that a script can read.                                      *)

\* A step that lets sets of objects grow.
Growing(step) == step \in [SUBSET Obj -> SUBSET Obj] /\ \A X \in SUBSET Obj : X \subseteq step[X]

\* The sets that it leaves as they are.
Stops(step) == {X \in SUBSET Obj : step[X] = X}

\* It is taken until it leaves a set as it is.
Closes(f, step) == Loop(f, SUBSET Obj, Stops(step), step)

\* It can be taken only so many times.
LEMMA GrowingEnds ==
  ASSUME NEW step, Growing(step)
  PROVE  \E rank : Ranked(SUBSET Obj, Stops(step), step, rank, Cardinality(Obj))
<1> DEFINE rank == [X \in SUBSET Obj |-> Cardinality(Obj \ X)]
<1>1. rank \in [SUBSET Obj -> 0..Cardinality(Obj)]
  BY SizeOf
<1>2. ASSUME NEW X \in SUBSET Obj, X \notin Stops(step) PROVE rank[step[X]] < rank[X]
  <2>1. step[X] \in SUBSET Obj /\ X \subseteq step[X] /\ step[X] # X
    BY <1>2 DEF Growing, Stops
  <2>2. Obj \ step[X] \in SUBSET (Obj \ X) /\ Obj \ step[X] # Obj \ X
    BY <2>1
  <2> QED  BY <2>1, <2>2, PartIsSmaller
<1>3. Ranked(SUBSET Obj, Stops(step), step, rank, Cardinality(Obj))
  BY <1>1, <1>2 DEF Ranked, Growing
<1> HIDE DEF rank
<1> QED  BY <1>3

\* So a loop of it is a function.
LEMMA ClosureExists ==
  ASSUME NEW step, Growing(step)
  PROVE  \E f : Closes(f, step)
BY GrowingEnds, ObjFinite, LoopExists DEF Closes

\* Its value has what every step keeps, and one more step changes nothing.
LEMMA ClosureIs ==
  ASSUME NEW step, Growing(step), NEW f, Closes(f, step),
         NEW I, I \subseteq SUBSET Obj, \A X \in I : step[X] \in I, NEW S, S \in I
  PROVE  f[S] \in I /\ step[f[S]] = f[S]
<1>1. PICK rank : Ranked(SUBSET Obj, Stops(step), step, rank, Cardinality(Obj))
  BY GrowingEnds
<1>2. f[S] \in I /\ f[S] \in Stops(step)
  <2>1. I \in SUBSET SUBSET Obj /\ Loop(f, SUBSET Obj, Stops(step), step)
    BY DEF Closes
  <2>2. \A X \in I : X \notin Stops(step) => step[X] \in I
    OBVIOUS
  <2> QED  BY <1>1, <2>1, <2>2, ObjFinite, LoopStays
<1> QED  BY <1>2 DEF Stops

\* What is read from S is the smallest closed set around it.
LEMMA AccessIs ==
  ASSUME NEW en \in Contents, NEW S \in SUBSET Obj
  PROVE  LET A == Access(en, S)
         IN  /\ S \subseteq A /\ A \subseteq Obj /\ Closed(en, A)
             /\ \A L \in SUBSET Obj : Closed(en, L) /\ S \subseteq L => A \subseteq L
<1> DEFINE next(X) == X \cup UNION {Keys(en, o) \cup Vals(en, o) : o \in X}
           access[X \in SUBSET Obj] == IF next(X) = X THEN X ELSE access[next(X)]
           step == [X \in SUBSET Obj |-> next(X)]
           stop == Stops(step)
           led(X) == UNION {Keys(en, o) \cup Vals(en, o) : o \in X}
<1>1. \A X \in SUBSET Obj : led(X) \subseteq Obj /\ \A v : v \in led(X) <=> \E o \in X : v \in Content(en, o)
  <2>1. \A o \in Obj : Keys(en, o) \cup Vals(en, o) \subseteq Obj
    BY ContentIsObjects
  <2> QED  BY <2>1 DEF Content
<1>2. \A X : next(X) = X \cup led(X)
  OBVIOUS
<1>3. \A X \in SUBSET Obj : next(X) \in SUBSET Obj /\ X \subseteq next(X)
  <2> HIDE DEF next, led
  <2> QED  BY <1>1, <1>2
<1>4. Growing(step) /\ \A X \in SUBSET Obj : step[X] = next(X)
  <2> HIDE DEF next
  <2> QED  BY <1>3 DEF Growing
<1>5. \A g : g = [X \in SUBSET Obj |-> IF next(X) = X THEN X ELSE g[next(X)]] <=> Closes(g, step)
  <2> TAKE g
  <2>1. \A X \in SUBSET Obj : (IF next(X) = X THEN X ELSE g[next(X)]) = (IF X \in stop THEN X ELSE g[step[X]])
    BY <1>4 DEF Stops
  <2> HIDE DEF next, stop, step
  <2> QED  BY <2>1 DEF Loop, Closes, stop
<1>6. Closes(access, step)
  <2>1. \E g : Closes(g, step)
    <3> HIDE DEF step
    <3> QED  BY <1>4, ClosureExists
  <2> HIDE DEF next, stop, step
  <2> QED  BY <2>1, <1>5
<1>7. Access(en, S) = access[S]
  BY DEF Access
<1> HIDE DEF access
<1>8. ASSUME NEW I \in SUBSET SUBSET Obj, S \in I, \A X \in I : next(X) \in I
      PROVE  access[S] \in I /\ next(access[S]) = access[S]
  <2>1. \A X \in I : step[X] \in I
    BY <1>8, <1>4
  <2>2. access[S] \in I /\ step[access[S]] = access[S]
    <3>1. Closes(access, step) /\ Growing(step) /\ I \in SUBSET SUBSET Obj /\ S \in I
      BY <1>4, <1>6, <1>8
    <3>2. \A X \in I : step[X] \in I
      BY <2>1
    <3> HIDE DEF step
    <3> QED  BY <3>1, <3>2, ClosureIs
  <2>3. access[S] \in SUBSET Obj
    BY <2>2
  <2> QED  BY <2>2, <2>3, <1>4
<1>9. access[S] \in SUBSET Obj /\ S \subseteq access[S] /\ next(access[S]) = access[S]
  <2> DEFINE I == {X \in SUBSET Obj : S \subseteq X}
  <2>1. S \in I /\ I \in SUBSET SUBSET Obj
    OBVIOUS
  <2>2. \A X \in I : next(X) \in I
    <3> HIDE DEF next
    <3> QED  BY <1>3
  <2>3. access[S] \in I /\ next(access[S]) = access[S]
    <3> HIDE DEF I, next
    <3> QED  BY <2>1, <2>2, <1>8
  <2> QED  BY <2>3
<1>10. ASSUME NEW L \in SUBSET Obj, Closed(en, L), S \subseteq L PROVE access[S] \subseteq L
  <2> DEFINE I == SUBSET L
  <2>1. S \in I /\ I \in SUBSET SUBSET Obj
    BY <1>10
  <2>2. \A X \in I : next(X) \in I
    <3>1. \A X \in I : led(X) \subseteq L
      <4> HIDE DEF led
      <4> QED  BY <1>1, <1>10 DEF Closed
    <3> HIDE DEF led, next
    <3> QED  BY <3>1, <1>2
  <2>3. access[S] \in I
    <3> HIDE DEF I, next
    <3> QED  BY <2>1, <2>2, <1>8
  <2> QED  BY <2>3
<1>11. Closed(en, access[S])
  <2> HIDE DEF next, led
  <2> QED  BY <1>1, <1>2, <1>9 DEF Closed
<1> HIDE DEF next
<1> QED  BY <1>7, <1>9, <1>10, <1>11

-----------------------------------------------------------------------------
(* The inductive invariant.  It speaks of entries en, marks n, lists ls,   *)
(* the current white w, the state gs, the place p of the sweep, the doomed *)
(* objects dm and the modes md, so that a step may be taken in parts.      *)

Keep == {"propagate", "atomic"}
Sweeps == {"swpallgc", "swpfinobj", "swptobefnz", "swpend"}
Rests == {"pause", "callfin"}
States == Keep \cup Sweeps \cup Rests
WhiteColors == {"white0", "white1"}

\* What has been allocated and not freed.
There(ls) == {Main} \cup Range(ls["allgc"]) \cup Range(ls["finobj"]) \cup Range(ls["tobefnz"])

\* What is there and will not be freed by the sweep.
Alive(n, ls, w) == {o \in There(ls) : n.color[o] # Other(w)}

\* The list that is swept, those that follow, and what there is left to sweep.
CurList(gs) == IF gs = "swpallgc" THEN "allgc" ELSE IF gs = "swpfinobj" THEN "finobj" ELSE "tobefnz"
Later(gs, ls) ==
  IF gs = "swpallgc" THEN Range(ls["finobj"]) \cup Range(ls["tobefnz"])
  ELSE IF gs = "swpfinobj" THEN Range(ls["tobefnz"])
  ELSE {}
Unswept(p, ls, gs) == Ahead(p, ls) \cup Later(gs, ls)

\* Objects that live on lead to objects that live on, and what is freed is empty.
SafeAt(en, n, ls, w) ==
  /\ \A o \in Obj \ There(ls) : IsWhite(n.color[o]) /\ en[o] = {}
  /\ {Main, Reg} \cup Range(ls["tobefnz"]) \subseteq Alive(n, ls, w)
  /\ Closed(en, Alive(n, ls, w))

\* While marking, gray objects are in one gray list, and black ones lead to marked ones.
MarkingAt(en, n, ls, w, md) ==
  /\ \A o \in There(ls) : n.color[o] # Other(w)
  /\ n.weak = {} /\ n.ephemeron = {}
  /\ n.gray \cap n.grayagain = {} /\ n.gray \cap n.allweak = {} /\ n.grayagain \cap n.allweak = {}
  /\ \A o \in Obj : n.color[o] = "gray" <=> o \in n.gray \cup n.grayagain \cup n.allweak
  /\ \A o \in Obj : n.color[o] = "black" => Content(en, o) \cap Whites(n) = {}
  /\ \A o \in n.allweak : IsTable(o) /\ md[o] = "kv"
  /\ n.color[Main] = "gray" /\ Reg \notin Whites(n)
  /\ Range(ls["tobefnz"]) \cap Whites(n) = {}

\* What has been swept has the current white, and between two cycles everything has it.
SweepAt(n, ls, w, gs, p) ==
  /\ gs \in Sweeps => \A o \in There(ls) : o = Main \/ o \in Unswept(p, ls, gs) \/ n.color[o] = w
  /\ gs \in Sweeps => p = None \/ Into(p, ls, CurList(gs))
  /\ gs \in Rests => \A o \in There(ls) : n.color[o] = w

\* Nothing leads to what is doomed: it stays white and is swept away.
GarbageAt(en, n, ls, w, gs, dm) ==
  /\ dm \subseteq Obj
  /\ ({Main, Reg} \cup Range(ls["finobj"]) \cup Range(ls["tobefnz"])) \cap dm = {}
  /\ Closed(en, Obj \ dm)
  /\ gs \in Keep => \A o \in dm \cap There(ls) : n.color[o] = w
  /\ gs \in Sweeps => \A o \in dm \cap There(ls) : n.color[o] = Other(w)
  /\ gs \in Rests => dm \cap There(ls) = {}

Good(en, n, ls, w, gs, p, dm, md) ==
  /\ SafeAt(en, n, ls, w)
  /\ gs \in Keep => MarkingAt(en, n, ls, w, md)
  /\ SweepAt(n, ls, w, gs, p)
  /\ GarbageAt(en, n, ls, w, gs, dm)

\* The states of the collector are different.
LEMMA StatesAre ==
  /\ \A gs \in Keep : gs \notin Sweeps /\ gs \notin Rests
  /\ \A gs \in Sweeps : gs \notin Rests /\ gs \notin Keep
  /\ \A gs \in Rests : gs \notin Sweeps /\ gs \notin Keep
BY DEF Keep, Sweeps, Rests

\* The two whites and the other colours.
LEMMA ColorsAre ==
  ASSUME NEW w \in WhiteColors
  PROVE  /\ Other(w) \in WhiteColors /\ Other(w) # w /\ Other(Other(w)) = w
         /\ IsWhite(w) /\ IsWhite(Other(w)) /\ ~IsWhite("gray") /\ ~IsWhite("black")
         /\ w # "gray" /\ w # "black" /\ Other(w) # "gray" /\ Other(w) # "black"
         /\ \A c \in Colors : IsWhite(c) <=> c = w \/ c = Other(w)
         /\ \A c \in Colors : ~IsWhite(c) <=> c = "gray" \/ c = "black"
BY DEF WhiteColors, Other, IsWhite, Colors

\* What is there.
LEMMA ThereIs ==
  ASSUME NEW ls, Separate(ls)
  PROVE  /\ There(ls) \subseteq Obj /\ Main \in There(ls) /\ Main \in Obj
         /\ \A l \in Lists : Range(ls[l]) \subseteq There(ls) /\ Main \notin Range(ls[l])
         /\ "allgc" \in Lists /\ "finobj" \in Lists /\ "tobefnz" \in Lists
         /\ \A l \in Lists : l = "allgc" \/ l = "finobj" \/ l = "tobefnz"
         /\ \A gs : CurList(gs) \in Lists
         /\ \A n, w : Alive(n, ls, w) \subseteq There(ls)
<1>1. /\ "allgc" \in Lists /\ "finobj" \in Lists /\ "tobefnz" \in Lists
      /\ \A l \in Lists : l = "allgc" \/ l = "finobj" \/ l = "tobefnz"
  BY DEF Lists
<1>2. \A l \in Lists : Range(ls[l]) \subseteq Obj /\ Main \notin Range(ls[l])
  BY ListIs DEF Separate
<1>3. Main \in Obj
  BY Kinds
<1>4. There(ls) \subseteq Obj /\ Main \in There(ls)
  BY <1>1, <1>2, <1>3 DEF There
<1>5. \A l \in Lists : Range(ls[l]) \subseteq There(ls)
  BY <1>1 DEF There
<1>6. \A gs : CurList(gs) \in Lists
  BY <1>1 DEF CurList
<1>7. \A n, w : Alive(n, ls, w) \subseteq There(ls)
  BY DEF Alive
<1> QED  BY <1>1, <1>2, <1>3, <1>4, <1>5, <1>6, <1>7

-----------------------------------------------------------------------------
(* An object that the script holds is written to.                          *)

\* Colours that a write changes: to the current white, by the barriers, or while marking.
Recoloured(n, r, ls, w, gs, dm) ==
  \A o \in Obj : \/ r.color[o] = n.color[o]
                 \/ /\ o \in Alive(n, ls, w) \ dm
                    /\ \/ r.color[o] = w /\ gs \notin Keep
                       \/ r.color[o] = "gray" /\ n.color[o] = "black"
                       \/ r.color[o] \in {"gray", "black"} /\ gs \in Keep

\* Only what lives on changes its colour, so the same objects live on.
LEMMA SameAlive ==
  ASSUME NEW n \in Marks, NEW r \in Marks, NEW ls, Separate(ls), NEW w \in WhiteColors, NEW gs, NEW dm,
         Recoloured(n, r, ls, w, gs, dm)
  PROVE  Alive(r, ls, w) = Alive(n, ls, w)
<1>1. There(ls) \subseteq Obj
  BY ThereIs
<1>2. \A o \in There(ls) : r.color[o] # Other(w) <=> n.color[o] # Other(w)
  BY <1>1, ColorsAre DEF Recoloured, Alive
<1> QED  BY <1>2 DEF Alive

\* Such a write keeps the invariant when it keeps that of marking.
LEMMA Written ==
  ASSUME NEW en \in Contents, NEW ed \in Contents, NEW n \in Marks, NEW r \in Marks,
         NEW ls, Separate(ls), NEW w \in WhiteColors, NEW gs \in States, NEW p, NEW dm, NEW md,
         Good(en, n, ls, w, gs, p, dm, md),
         NEW t \in Alive(n, ls, w) \ dm, \A o \in Obj : o # t => ed[o] = en[o],
         NEW X, X \subseteq Alive(n, ls, w) \ dm, Content(ed, t) \subseteq Content(en, t) \cup X,
         Recoloured(n, r, ls, w, gs, dm),
         gs \in Keep => MarkingAt(ed, r, ls, w, md)
  PROVE  Good(ed, r, ls, w, gs, p, dm, md)
<1> DEFINE A == Alive(n, ls, w)
           T == There(ls)
<1>1. Alive(r, ls, w) = A
  BY SameAlive
<1>2. T \subseteq Obj /\ A \subseteq T /\ t \in A /\ t \notin dm /\ t \in Obj
  BY ThereIs
<1>3. SafeAt(en, n, ls, w) /\ SweepAt(n, ls, w, gs, p) /\ GarbageAt(en, n, ls, w, gs, dm)
  BY DEF Good
<1>4. \A o \in Obj : o # t => Content(ed, o) = Content(en, o)
  BY DEF Content, Keys, Vals
<1>5. \A o \in Obj : \/ r.color[o] = n.color[o]
                     \/ /\ o \in A \ dm
                        /\ \/ r.color[o] = w /\ gs \notin Keep
                           \/ r.color[o] = "gray" /\ n.color[o] = "black"
                           \/ r.color[o] \in {"gray", "black"} /\ gs \in Keep
  BY DEF Recoloured
<1>6. SafeAt(ed, r, ls, w)
  <2>1. \A o \in Obj \ T : IsWhite(r.color[o]) /\ ed[o] = {}
    BY <1>2, <1>3, <1>5 DEF SafeAt
  <2>2. Closed(ed, A)
    <3>1. \A o \in A : Content(en, o) \subseteq A
      BY <1>3 DEF SafeAt, Closed
    <3>2. X \subseteq A
      OBVIOUS
    <3> HIDE DEF A
    <3> QED  BY <3>1, <3>2, <1>2, <1>4 DEF Closed
  <2> QED  BY <2>1, <2>2, <1>1, <1>3 DEF SafeAt
<1>7. SweepAt(r, ls, w, gs, p)
  <2>1. ASSUME gs \in Sweeps, NEW o \in T PROVE o = Main \/ o \in Unswept(p, ls, gs) \/ r.color[o] = w
    <3>1. gs \notin Keep /\ (o = Main \/ o \in Unswept(p, ls, gs) \/ n.color[o] = w)
      BY <1>3, <2>1, StatesAre DEF SweepAt
    <3> QED  BY <3>1, <1>2, <1>5, <2>1, ColorsAre
  <2>2. ASSUME gs \in Rests, NEW o \in T PROVE r.color[o] = w
    <3>1. gs \notin Keep /\ n.color[o] = w
      BY <1>3, <2>2, StatesAre DEF SweepAt
    <3> QED  BY <3>1, <1>2, <1>5, <2>2, ColorsAre
  <2>3. gs \in Sweeps => p = None \/ Into(p, ls, CurList(gs))
    BY <1>3 DEF SweepAt
  <2> QED  BY <2>1, <2>2, <2>3 DEF SweepAt
<1>8. GarbageAt(ed, r, ls, w, gs, dm)
  <2>1. \A o \in dm \cap T : r.color[o] = n.color[o]
    BY <1>2, <1>5
  <2>2. Closed(ed, Obj \ dm)
    <3>1. \A o \in Obj \ dm : Content(en, o) \subseteq Obj \ dm
      BY <1>3 DEF GarbageAt, Closed
    <3>2. X \subseteq Obj \ dm
      BY <1>2
    <3> HIDE DEF A
    <3> QED  BY <3>1, <3>2, <1>2, <1>4 DEF Closed
  <2> QED  BY <2>1, <2>2, <1>3 DEF GarbageAt
<1> QED  BY <1>6, <1>7, <1>8 DEF Good

\* A black object that is written to keeps what marking needs when nothing white is written.
LEMMA WrittenMarked ==
  ASSUME NEW en, NEW ed, NEW n, NEW ls, NEW w, NEW md, MarkingAt(en, n, ls, w, md),
         NEW t, \A o \in Obj : o # t => ed[o] = en[o],
         n.color[t] = "black" => Content(ed, t) \cap Whites(n) = {}
  PROVE  MarkingAt(ed, n, ls, w, md)
<1>1. \A o \in Obj : o # t => Content(ed, o) = Content(en, o)
  BY DEF Content, Keys, Vals
<1>2. \A o \in Obj : n.color[o] = "black" => Content(ed, o) \cap Whites(n) = {}
  BY <1>1 DEF MarkingAt
<1> QED  BY <1>2 DEF MarkingAt

\* The barrier back: a black table becomes gray and is linked in grayagain.
LEMMA WrittenBack ==
  ASSUME NEW en, NEW ed, NEW n \in Marks, NEW ls, NEW w \in WhiteColors, NEW md, MarkingAt(en, n, ls, w, md),
         NEW t \in Obj, \A o \in Obj : o # t => ed[o] = en[o], n.color[t] = "black"
  PROVE  MarkingAt(ed, [n EXCEPT !.color[t] = "gray", !.grayagain = @ \cup {t}], ls, w, md)
<1> DEFINE r == [n EXCEPT !.color[t] = "gray", !.grayagain = @ \cup {t}]
<1>1. n.color \in [Obj -> Colors]
  BY MarksType
<1>2. /\ r.color = [n.color EXCEPT ![t] = "gray"] /\ r.grayagain = n.grayagain \cup {t}
      /\ r.gray = n.gray /\ r.weak = n.weak /\ r.ephemeron = n.ephemeron /\ r.allweak = n.allweak
  BY DEF Marks
<1> HIDE DEF r
<1>3. /\ r.color[t] = "gray" /\ \A o \in Obj : o # t => r.color[o] = n.color[o]
  BY <1>1, <1>2
<1>4. Whites(r) = Whites(n)
  BY <1>3, ColorsAre DEF Whites
<1>5. t \notin n.gray /\ t \notin n.allweak
  BY DEF MarkingAt
<1>6. \A o \in There(ls) : r.color[o] # Other(w)
  <2>1. ASSUME NEW o \in There(ls) PROVE r.color[o] # Other(w)
    <3>1. n.color[o] # Other(w)
      BY DEF MarkingAt
    <3>2. CASE o = t
      BY <3>2, <1>3, ColorsAre
    <3>3. CASE o # t
      <4>1. r.color[o] = n.color[o]
        BY <3>3, <1>1, <1>2
      <4> QED  BY <4>1, <3>1
    <3> QED  BY <3>2, <3>3
  <2> QED  BY <2>1
<1>7. \A o \in Obj : r.color[o] = "gray" <=> o \in r.gray \cup r.grayagain \cup r.allweak
  BY <1>2, <1>3 DEF MarkingAt
<1>8. \A o \in Obj : r.color[o] = "black" => Content(ed, o) \cap Whites(r) = {}
  <2>1. \A o \in Obj : o # t => Content(ed, o) = Content(en, o)
    BY DEF Content, Keys, Vals
  <2> QED  BY <2>1, <1>3, <1>4 DEF MarkingAt
<1>9. r.color[Main] = "gray"
  BY <1>3, Kinds DEF MarkingAt
<1> QED  BY <1>2, <1>4, <1>5, <1>6, <1>7, <1>8, <1>9 DEF MarkingAt, r

\* The barrier forward: Mark visits what is written.
LEMMA WrittenForward ==
  ASSUME NEW en, NEW ed \in Contents, NEW n \in Marks, NEW r, NEW ls, Separate(ls), NEW w \in WhiteColors, NEW md,
         MarkingAt(en, n, ls, w, md),
         NEW t, \A o \in Obj : o # t => ed[o] = en[o], NEW v, Content(ed, t) \subseteq {v},
         MarkedFrom(n, r, ed, {v})
  PROVE  MarkingAt(ed, r, ls, w, md)
<1>1. r \in Marks /\ Whites(r) \subseteq Whites(n) /\ \A o \in Obj : o \notin Fresh(n, r) => r.color[o] = n.color[o]
  BY MarkAdvances
<1>2. /\ r.grayagain = n.grayagain /\ r.weak = n.weak /\ r.ephemeron = n.ephemeron /\ r.allweak = n.allweak
      /\ v \notin Whites(r)
      /\ \A o \in Fresh(n, r) : r.color[o] = IF o \in Strings \cup Userdata THEN "black" ELSE "gray"
      /\ r.gray = n.gray \cup (Fresh(n, r) \ (Strings \cup Userdata))
      /\ \A u \in Fresh(n, r) \cap Userdata : Vals(ed, u) \cap Whites(r) = {}
  <2>1. Fresh(n, r) \subseteq Obj
    BY MarksType DEF Fresh
  <2> QED  BY <2>1 DEF MarkedFrom
<1>3. \A o \in Fresh(n, r) : o \in Obj /\ IsWhite(n.color[o])
  BY MarksType DEF Fresh
<1>4. There(ls) \subseteq Obj
  BY ThereIs
<1>5. \A o \in Fresh(n, r) : o \notin n.gray /\ o \notin n.grayagain /\ o \notin n.allweak
  BY <1>3, ColorsAre DEF MarkingAt
<1>6. \A o \in There(ls) : r.color[o] # Other(w)
  BY <1>1, <1>2, <1>4, ColorsAre DEF MarkingAt
<1>7. r.gray \cap r.grayagain = {} /\ r.gray \cap r.allweak = {} /\ r.grayagain \cap r.allweak = {}
  BY <1>2, <1>5 DEF MarkingAt
<1>8. \A o \in Obj : r.color[o] = "gray" <=> o \in r.gray \cup r.grayagain \cup r.allweak
  <2>1. ASSUME NEW o \in Obj PROVE r.color[o] = "gray" <=> o \in r.gray \cup r.grayagain \cup r.allweak
    <3>1. CASE o \in Fresh(n, r)
      BY <3>1, <1>2, <1>5
    <3>2. CASE o \notin Fresh(n, r)
      BY <3>2, <1>1, <1>2 DEF MarkingAt
    <3> QED  BY <3>1, <3>2
  <2> QED  BY <2>1
<1>9. ASSUME NEW o \in Obj, r.color[o] = "black" PROVE Content(ed, o) \cap Whites(r) = {}
  <2>1. CASE o = t
    BY <2>1, <1>2
  <2>2. CASE o # t /\ o \notin Fresh(n, r)
    <3>1. n.color[o] = "black" /\ Content(ed, o) = Content(en, o)
      BY <2>2, <1>1, <1>9 DEF Content, Keys, Vals
    <3> QED  BY <3>1, <1>1 DEF MarkingAt
  <2>3. CASE o \in Fresh(n, r)
    <3>1. o \in Strings \cup Userdata
      BY <2>3, <1>2, <1>9
    <3>2. CASE o \in Strings
      BY <3>2, ContentIsObjects
    <3>3. CASE o \in Userdata
      <4>1. Keys(ed, o) = {} /\ Vals(ed, o) \cap Whites(r) = {}
        BY <3>3, <2>3, <1>2, ContentIsObjects
      <4> QED  BY <4>1 DEF Content
    <3> QED  BY <3>1, <3>2, <3>3
  <2> QED  BY <2>1, <2>2, <2>3
<1>10. r.color[Main] = "gray" /\ Reg \notin Whites(r) /\ Range(ls["tobefnz"]) \cap Whites(r) = {}
  <2>1. Main \in Obj /\ n.color[Main] = "gray"
    BY Kinds DEF MarkingAt
  <2>2. Main \notin Fresh(n, r)
    BY <2>1, <1>3, ColorsAre
  <2> QED  BY <2>1, <2>2, <1>1 DEF MarkingAt
<1> QED  BY <1>2, <1>6, <1>7, <1>8, <1>9, <1>10 DEF MarkingAt

\* It marks what lives on and is not doomed only.
LEMMA MarkedInside ==
  ASSUME NEW en, NEW ed \in Contents, NEW n \in Marks, NEW r, NEW ls, Separate(ls), NEW w \in WhiteColors,
         NEW gs \in Keep, NEW p, NEW dm, NEW md, Good(en, n, ls, w, gs, p, dm, md),
         NEW t, \A o \in Obj : o # t => ed[o] = en[o], NEW v, Content(ed, t) \subseteq {v},
         v \in Alive(n, ls, w) \ dm \/ v \notin Obj,
         MarkedFrom(n, r, ed, {v})
  PROVE  Recoloured(n, r, ls, w, gs, dm)
<1> DEFINE A == Alive(n, ls, w)
           F == Fresh(n, r)
<1>1. A \subseteq Obj
  BY ThereIs
<1>2. Closed(en, A) /\ Closed(en, Obj \ dm)
  BY DEF Good, SafeAt, GarbageAt
<1>3. \A o \in Obj : o # t => Content(ed, o) = Content(en, o)
  BY DEF Content, Keys, Vals
<1>4. Content(ed, t) = {} \/ v \in A \ dm \/ t \notin Obj
  <2>1. t \in Obj => Content(ed, t) \subseteq Obj
    BY ContentIsObjects DEF Content
  <2> QED  BY <2>1
<1> HIDE DEF A
<1>5. Closed(ed, A) /\ Closed(ed, Obj \ dm)
  <2>1. ASSUME NEW o \in A PROVE Content(ed, o) \subseteq A
    BY <1>1, <1>2, <1>3, <1>4 DEF Closed
  <2>2. ASSUME NEW o \in Obj \ dm PROVE Content(ed, o) \subseteq Obj \ dm
    BY <1>1, <1>2, <1>3, <1>4 DEF Closed
  <2> QED  BY <2>1, <2>2 DEF Closed
<1>6. {v} \cap Whites(n) \subseteq A \ dm
  BY MarksType DEF A
<1>7. F \subseteq A /\ F \subseteq Obj \ dm
  <2>1. {v} \cap Whites(n) \subseteq A /\ {v} \cap Whites(n) \subseteq Obj \ dm /\ A \in SUBSET Obj /\ Obj \ dm \in SUBSET Obj
    BY <1>1, <1>6
  <2> QED  BY <2>1, <1>5 DEF MarkedFrom
<1> HIDE DEF F
<1>8. \A o \in Obj : r.color[o] = n.color[o] \/ (o \in F /\ r.color[o] \in {"gray", "black"})
  BY DEF MarkedFrom, F
<1> QED  BY <1>7, <1>8 DEF Recoloured, A

-----------------------------------------------------------------------------
(* An object is made, found again, or goes to another list.                *)

\* What was not there, or is dead, gets the current white and is held by the stack.
Appears(en, ed, n, r, ls, lt, w, p, md, me, o) ==
  /\ o \in Obj \ {Main, Reg} /\ en[o] = {} /\ ed[o] = {}
  /\ \A x \in Obj \ {o, Main} : ed[x] = en[x]
  /\ Content(ed, Main) \subseteq Content(en, Main) \cup {o}
  /\ \A x \in Obj \ {o} : r.color[x] = n.color[x]
  /\ r.color[o] = w \/ (r.color[o] = n.color[o] /\ o \in Alive(n, ls, w))
  /\ o \notin There(ls) \/ n.color[o] = Other(w) \/ r.color[o] = n.color[o]
  /\ r.gray = n.gray /\ r.grayagain = n.grayagain /\ r.weak = n.weak /\ r.ephemeron = n.ephemeron /\ r.allweak = n.allweak
  /\ There(lt) = There(ls) \cup {o}
  /\ Range(lt["finobj"]) = Range(ls["finobj"]) /\ Range(lt["tobefnz"]) = Range(ls["tobefnz"])
  /\ \A k \in Lists : Into(p, ls, k) => Into(p, lt, k) /\ Ahead(p, ls) \subseteq Ahead(p, lt)
  /\ me = md \/ (o \notin There(ls) /\ \A x \in Tables \cup {Reg} : x # o => me[x] = md[x])

\* That keeps the invariant.
LEMMA Appeared ==
  ASSUME NEW en \in Contents, NEW ed \in Contents, NEW n \in Marks, NEW r \in Marks,
         NEW ls, Separate(ls), NEW lt, Separate(lt),
         NEW w \in WhiteColors, NEW gs \in States, NEW p, NEW dm, NEW md, NEW me,
         Good(en, n, ls, w, gs, p, dm, md), NEW o, Appears(en, ed, n, r, ls, lt, w, p, md, me, o)
  PROVE  Good(ed, r, lt, w, gs, p, dm \ {o}, me)
<1> USE DEF Appears
<1> DEFINE A == Alive(n, ls, w)
           T == There(ls)
<1>1. T \subseteq Obj /\ A \subseteq T /\ Main \in T /\ There(lt) = T \cup {o} /\ {Main, Reg} \subseteq Obj /\ o # Main /\ o # Reg
  BY ThereIs, Kinds
<1>2. SafeAt(en, n, ls, w) /\ SweepAt(n, ls, w, gs, p) /\ GarbageAt(en, n, ls, w, gs, dm)
  BY DEF Good
<1>3. /\ \A x \in Obj \ T : IsWhite(n.color[x]) /\ en[x] = {}
      /\ {Main, Reg} \cup Range(ls["tobefnz"]) \subseteq A
      /\ \A x \in A : Content(en, x) \subseteq A
  BY <1>2 DEF SafeAt, Closed
<1>4. \A x \in Obj \ {o, Main} : Content(ed, x) = Content(en, x)
  BY DEF Content, Keys, Vals
<1>5. Content(ed, o) = {} /\ Content(en, o) = {}
  BY DEF Content, Keys, Vals
<1>6. r.color[o] # Other(w)
  BY ColorsAre DEF Alive
<1>7. Alive(r, lt, w) = A \cup {o}
  <2>1. ASSUME NEW x \in T \cup {o} PROVE r.color[x] # Other(w) <=> x \in A \cup {o}
    <3>1. CASE x = o
      BY <3>1, <1>6
    <3>2. CASE x # o
      <4>1. r.color[x] = n.color[x] /\ x \in T
        BY <3>2, <2>1, <1>1
      <4> QED  BY <4>1, <3>2 DEF Alive
    <3> QED  BY <3>1, <3>2
  <2> QED  BY <2>1, <1>1 DEF Alive
<1>8. SafeAt(ed, r, lt, w)
  <2>1. \A x \in Obj \ There(lt) : IsWhite(r.color[x]) /\ ed[x] = {}
    BY <1>1, <1>3
  <2>2. Closed(ed, A \cup {o})
    <3> HIDE DEF A
    <3> QED  BY <1>1, <1>3, <1>4, <1>5 DEF Closed
  <2>3. {Main, Reg} \cup Range(lt["tobefnz"]) \subseteq A \cup {o}
    BY <1>3
  <2> QED  BY <2>1, <2>2, <2>3, <1>7 DEF SafeAt
<1>9. ASSUME gs \in Keep PROVE MarkingAt(ed, r, lt, w, me)
  <2>1. MarkingAt(en, n, ls, w, md)
    BY <1>9 DEF Good
  <2>2. IsWhite(n.color[o]) \/ r.color[o] = n.color[o]
    <3>1. CASE o \notin T
      BY <3>1, <1>3
    <3>2. CASE o \in T
      BY <3>2, <2>1 DEF MarkingAt
    <3> QED  BY <3>1, <3>2
  <2>3. IsWhite(r.color[o]) <=> IsWhite(n.color[o])
    BY <2>2, ColorsAre
  <2>4. \A x \in Obj : IsWhite(r.color[x]) <=> IsWhite(n.color[x])
    BY <2>3
  <2>5. Whites(r) = Whites(n)
    BY <2>4 DEF Whites
  <2>6. \A x \in Obj : r.color[x] # n.color[x] => x = o /\ IsWhite(n.color[o]) /\ IsWhite(r.color[o])
    BY <2>2, <2>3
  <2>7. \A x \in Obj : (r.color[x] = "gray" <=> n.color[x] = "gray") /\ (r.color[x] = "black" <=> n.color[x] = "black")
    <3>1. \A c : IsWhite(c) => c # "gray" /\ c # "black"
      BY DEF IsWhite
    <3> QED  BY <2>6, <3>1
  <2>8. \A x \in There(lt) : r.color[x] # Other(w)
    <3>1. \A x \in T : n.color[x] # Other(w)
      BY <2>1 DEF MarkingAt
    <3> QED  BY <3>1, <1>1, <1>6
  <2>9. ASSUME NEW x \in Obj, r.color[x] = "black" PROVE Content(ed, x) \cap Whites(r) = {}
    <3>1. n.color[x] = "black" /\ n.color[Main] = "gray"
      BY <2>1, <2>7, <2>9 DEF MarkingAt
    <3>2. x # Main
      BY <3>1
    <3> QED  BY <3>1, <3>2, <2>1, <2>5, <1>4, <1>5 DEF MarkingAt
  <2>10. \A x \in r.allweak : IsTable(x) /\ me[x] = "kv"
    <3>1. CASE md = me
      BY <3>1, <2>1 DEF MarkingAt
    <3>2. CASE o \notin T
      <4>1. o \notin n.allweak
        <5>1. IsWhite(n.color[o])
          BY <3>2, <1>3
        <5> QED  BY <5>1, <2>1, ColorsAre DEF MarkingAt
      <4>2. \A x \in Tables \cup {Reg} : x # o => me[x] = md[x]
        BY <3>2
      <4> QED  BY <4>1, <4>2, <2>1 DEF MarkingAt, IsTable
    <3> QED  BY <3>1, <3>2
  <2>11. r.color[Main] = "gray" /\ Reg \notin Whites(r) /\ Range(lt["tobefnz"]) \cap Whites(r) = {}
    BY <2>1, <2>5, <1>1 DEF MarkingAt
  <2>12. \A x \in Obj : r.color[x] = "gray" <=> x \in r.gray \cup r.grayagain \cup r.allweak
    BY <2>1, <2>7 DEF MarkingAt
  <2> QED  BY <2>1, <2>8, <2>9, <2>10, <2>11, <2>12 DEF MarkingAt
<1>10. SweepAt(r, lt, w, gs, p)
  <2>1. gs \in Sweeps => p = None \/ Into(p, lt, CurList(gs))
    BY <1>2, ThereIs DEF SweepAt
  <2>2. ASSUME gs \in Sweeps, NEW x \in T \cup {o} PROVE x = Main \/ x \in Unswept(p, lt, gs) \/ r.color[x] = w
    <3>1. Unswept(p, ls, gs) \subseteq Unswept(p, lt, gs)
      <4>1. Later(gs, ls) = Later(gs, lt)
        BY DEF Later
      <4>2. Ahead(p, ls) \subseteq Ahead(p, lt)
        <5>1. CASE p = None
          BY <5>1 DEF Ahead
        <5>2. CASE Into(p, ls, CurList(gs))
          BY <5>2, ThereIs
        <5> QED  BY <5>1, <5>2, <1>2, <2>2 DEF SweepAt
      <4> QED  BY <4>1, <4>2 DEF Unswept
    <3>2. \A y \in T : y = Main \/ y \in Unswept(p, ls, gs) \/ n.color[y] = w
      BY <1>2, <2>2 DEF SweepAt
    <3>3. CASE x # o
      BY <3>1, <3>2, <3>3, <2>2, <1>1
    <3>4. CASE x = o
      <4>1. CASE r.color[o] = w
        BY <4>1, <3>4
      <4>2. CASE r.color[o] = n.color[o] /\ o \in A
        <5>1. o \in T
          BY <4>2, <1>1
        <5> QED  BY <5>1, <4>2, <3>4, <3>1, <3>2
      <4> QED  BY <4>1, <4>2
    <3> QED  BY <3>3, <3>4
  <2>3. ASSUME gs \in Rests, NEW x \in T \cup {o} PROVE r.color[x] = w
    <3>1. \A y \in T : n.color[y] = w
      BY <1>2, <2>3 DEF SweepAt
    <3> QED  BY <3>1, <2>3, <1>1
  <2> QED  BY <2>1, <2>2, <2>3, <1>1 DEF SweepAt
<1>11. GarbageAt(ed, r, lt, w, gs, dm \ {o})
  <2>1. \A x \in (dm \ {o}) \cap There(lt) : x \in dm \cap T /\ r.color[x] = n.color[x]
    BY <1>1
  <2>2. Closed(ed, Obj \ (dm \ {o}))
    <3>1. \A x \in Obj \ dm : Content(en, x) \subseteq Obj \ dm
      BY <1>2 DEF GarbageAt, Closed
    <3>2. Main \notin dm
      BY <1>2 DEF GarbageAt
    <3> QED  BY <3>1, <3>2, <1>1, <1>4, <1>5 DEF Closed
  <2>3. ({Main, Reg} \cup Range(lt["finobj"]) \cup Range(lt["tobefnz"])) \cap (dm \ {o}) = {}
    BY <1>2 DEF GarbageAt
  <2> QED  BY <2>1, <2>2, <2>3, <1>2 DEF GarbageAt
<1> QED  BY <1>8, <1>9, <1>10, <1>11 DEF Good

\* An object that lives on goes to another list; while lists are swept it gets the current white.
LEMMA Moved ==
  ASSUME NEW en \in Contents, NEW ed \in Contents, NEW n \in Marks, NEW r \in Marks,
         NEW ls, Separate(ls), NEW lt, Separate(lt),
         NEW w \in WhiteColors, NEW gs \in States, NEW p, NEW dm, NEW md,
         Good(en, n, ls, w, gs, p, dm, md),
         NEW o \in Alive(n, ls, w) \ dm, o # Main,
         \A x \in Obj \ {Main} : ed[x] = en[x], Content(ed, Main) \subseteq Content(en, Main) \cup {o},
         \A x \in Obj \ {o} : r.color[x] = n.color[x],
         IF gs \in Sweeps THEN r.color[o] = w ELSE r.color[o] = n.color[o],
         r.gray = n.gray, r.grayagain = n.grayagain, r.weak = n.weak, r.ephemeron = n.ephemeron, r.allweak = n.allweak,
         There(lt) = There(ls),
         Range(lt["tobefnz"]) \subseteq Range(ls["tobefnz"]),
         Range(ls["tobefnz"]) \ {o} \subseteq Range(lt["tobefnz"]),
         Range(lt["finobj"]) \subseteq Range(ls["finobj"]) \cup {o},
         Range(ls["finobj"]) \ {o} \subseteq Range(lt["finobj"]),
         \A k \in Lists : Into(p, ls, k) => Into(p, lt, k) /\ Ahead(p, ls) \ {o} \subseteq Ahead(p, lt)
  PROVE  Good(ed, r, lt, w, gs, p, dm, md)
<1> DEFINE A == Alive(n, ls, w)
           T == There(ls)
<1>1. T \subseteq Obj /\ A \subseteq T /\ Main \in T /\ There(lt) = T /\ {Main, Reg} \subseteq Obj /\ o \in A /\ o \in Obj /\ o \notin dm
  BY ThereIs, Kinds
<1>2. SafeAt(en, n, ls, w) /\ SweepAt(n, ls, w, gs, p) /\ GarbageAt(en, n, ls, w, gs, dm)
  BY DEF Good
<1>3. /\ \A x \in Obj \ T : IsWhite(n.color[x]) /\ en[x] = {}
      /\ {Main, Reg} \cup Range(ls["tobefnz"]) \subseteq A
      /\ \A x \in A : Content(en, x) \subseteq A
  BY <1>2 DEF SafeAt, Closed
<1>4. \A x \in Obj \ {Main} : Content(ed, x) = Content(en, x)
  BY DEF Content, Keys, Vals
<1>5. r.color[o] # Other(w)
  BY ColorsAre DEF Alive
<1>6. Alive(r, lt, w) = A
  <2>1. ASSUME NEW x \in T PROVE r.color[x] # Other(w) <=> x \in A
    <3>1. CASE x = o
      BY <3>1, <1>1, <1>5
    <3>2. CASE x # o
      <4>1. r.color[x] = n.color[x]
        BY <3>2, <2>1, <1>1
      <4> QED  BY <4>1 DEF Alive
    <3> QED  BY <3>1, <3>2
  <2> QED  BY <2>1, <1>1 DEF Alive
<1>7. SafeAt(ed, r, lt, w)
  <2>1. \A x \in Obj \ There(lt) : IsWhite(r.color[x]) /\ ed[x] = {}
    BY <1>1, <1>3
  <2>2. Closed(ed, A)
    <3> HIDE DEF A
    <3> QED  BY <1>1, <1>3, <1>4 DEF Closed
  <2>3. {Main, Reg} \cup Range(lt["tobefnz"]) \subseteq A
    BY <1>3
  <2> QED  BY <2>1, <2>2, <2>3, <1>6 DEF SafeAt
<1>8. ASSUME gs \in Keep PROVE MarkingAt(ed, r, lt, w, md)
  <2>1. MarkingAt(en, n, ls, w, md)
    BY <1>8 DEF Good
  <2>2. \A x \in Obj : r.color[x] = n.color[x]
    BY <1>8, StatesAre
  <2>3. Whites(r) = Whites(n)
    BY <2>2 DEF Whites
  <2>4. ASSUME NEW x \in Obj, r.color[x] = "black" PROVE Content(ed, x) \cap Whites(r) = {}
    <3>1. n.color[x] = "black" /\ n.color[Main] = "gray"
      BY <2>1, <2>2, <2>4 DEF MarkingAt
    <3>2. x # Main
      BY <3>1
    <3> QED  BY <3>1, <3>2, <2>1, <2>3, <1>4 DEF MarkingAt
  <2>5. \A x \in There(lt) : r.color[x] # Other(w)
    BY <2>1, <2>2, <1>1 DEF MarkingAt
  <2>6. r.color[Main] = "gray" /\ Reg \notin Whites(r) /\ Range(lt["tobefnz"]) \cap Whites(r) = {}
    BY <2>1, <2>2, <2>3, <1>1 DEF MarkingAt
  <2>7. \A x \in Obj : r.color[x] = "gray" <=> x \in r.gray \cup r.grayagain \cup r.allweak
    BY <2>1, <2>2 DEF MarkingAt
  <2> QED  BY <2>1, <2>4, <2>5, <2>6, <2>7 DEF MarkingAt
<1>9. SweepAt(r, lt, w, gs, p)
  <2>1. gs \in Sweeps => p = None \/ Into(p, lt, CurList(gs))
    BY <1>2, ThereIs DEF SweepAt
  <2>2. ASSUME gs \in Sweeps, NEW x \in T PROVE x = Main \/ x \in Unswept(p, lt, gs) \/ r.color[x] = w
    <3>1. Unswept(p, ls, gs) \ {o} \subseteq Unswept(p, lt, gs)
      <4>1. Later(gs, ls) \ {o} \subseteq Later(gs, lt)
        BY DEF Later
      <4>2. Ahead(p, ls) \ {o} \subseteq Ahead(p, lt)
        <5>1. CASE p = None
          BY <5>1 DEF Ahead
        <5>2. CASE Into(p, ls, CurList(gs))
          BY <5>2, ThereIs
        <5> QED  BY <5>1, <5>2, <1>2, <2>2 DEF SweepAt
      <4> QED  BY <4>1, <4>2 DEF Unswept
    <3>2. x = Main \/ x \in Unswept(p, ls, gs) \/ n.color[x] = w
      BY <1>2, <2>2 DEF SweepAt
    <3>3. CASE x # o
      BY <3>1, <3>2, <3>3, <1>1
    <3>4. CASE x = o
      BY <3>4, <2>2
    <3> QED  BY <3>3, <3>4
  <2>3. ASSUME gs \in Rests, NEW x \in T PROVE r.color[x] = w
    <3>1. n.color[x] = w /\ gs \notin Sweeps
      BY <1>2, <2>3, StatesAre DEF SweepAt
    <3> QED  BY <3>1, <1>1
  <2> QED  BY <2>1, <2>2, <2>3, <1>1 DEF SweepAt
<1>10. GarbageAt(ed, r, lt, w, gs, dm)
  <2>1. \A x \in dm \cap There(lt) : x \in dm \cap T /\ r.color[x] = n.color[x]
    BY <1>1
  <2>2. Closed(ed, Obj \ dm)
    <3>1. \A x \in Obj \ dm : Content(en, x) \subseteq Obj \ dm
      BY <1>2 DEF GarbageAt, Closed
    <3> HIDE DEF A
    <3> QED  BY <3>1, <1>1, <1>4 DEF Closed
  <2>3. ({Main, Reg} \cup Range(lt["finobj"]) \cup Range(lt["tobefnz"])) \cap dm = {}
    BY <1>1, <1>2 DEF GarbageAt
  <2> QED  BY <2>1, <2>2, <2>3, <1>2 DEF GarbageAt
<1> QED  BY <1>7, <1>8, <1>9, <1>10 DEF Good

-----------------------------------------------------------------------------
(* Sweeping keeps what lives on.                                           *)

\* Content without that of freed objects is content.
LEMMA FreeIs ==
  ASSUME NEW en \in Contents, NEW S
  PROVE  /\ Free(en, S) \in Contents
         /\ \A o \in Obj : Free(en, S)[o] = IF o \in S THEN {} ELSE en[o]
<1>1. \A o \in Obj : Free(en, S)[o] = IF o \in S THEN {} ELSE en[o]
  BY DEF Free
<1>2. Free(en, S) \in [Obj -> SUBSET (Value \X Value)]
  BY DEF Free, Contents
<1>3. {Main} \cup Userdata \subseteq Obj /\ Strings \subseteq Obj
  BY Kinds
<1> QED  BY <1>1, <1>2, <1>3 DEF Contents

\* A sweep in the list that is swept.
LEMMA SweptGood ==
  ASSUME NEW en \in Contents, NEW n \in Marks, NEW ls, Separate(ls), NEW w \in WhiteColors,
         NEW gs \in Sweeps, NEW p, NEW dm, NEW md, Good(en, n, ls, w, gs, p, dm, md),
         NEW s, NEW B, SweptFrom(s, B, CurList(gs), p, ls, n.color, w)
  PROVE  LET r == [n EXCEPT !.color = s.color]
         IN  /\ r \in Marks /\ Free(en, s.freed) \in Contents /\ Separate(s.list)
             /\ Good(Free(en, s.freed), r, s.list, w, gs, s.p, dm, md)
<1> DEFINE r == [n EXCEPT !.color = s.color]
           ed == Free(en, s.freed)
           A == Alive(n, ls, w)
           T == There(ls)
           F == s.freed
           l == CurList(gs)
<1>1. /\ B \subseteq Ahead(p, ls) /\ B \subseteq Range(ls[l]) /\ F = {o \in B : n.color[o] = Other(w)}
      /\ s.color = [o \in Obj |-> IF o \in B \ F THEN w ELSE n.color[o]]
      /\ Separate(s.list)
      /\ \A k \in Lists : Range(s.list[k]) = Range(ls[k]) \ F
      /\ Ahead(s.p, s.list) = Ahead(p, ls) \ B
      /\ s.p = None \/ Into(s.p, s.list, l)
  BY DEF SweptFrom
<1>2. /\ T \subseteq Obj /\ Main \in T /\ l \in Lists /\ Range(ls[l]) \subseteq T /\ Main \notin Range(ls[l])
      /\ "allgc" \in Lists /\ "finobj" \in Lists /\ "tobefnz" \in Lists
  BY ThereIs
<1>3. n.color \in [Obj -> Colors]
  BY MarksType
<1>4. r \in Marks /\ r.color = s.color /\ \A o \in Obj : r.color[o] = IF o \in B \ F THEN w ELSE n.color[o]
  <2>1. s.color \in [Obj -> Colors]
    BY <1>1, <1>3 DEF WhiteColors, Colors
  <2>2. r \in Marks /\ r.color = s.color
    BY <2>1 DEF Marks
  <2> HIDE DEF r
  <2> QED  BY <2>2, <1>1
<1> HIDE DEF r
<1>5. ed \in Contents /\ \A o \in Obj : ed[o] = IF o \in F THEN {} ELSE en[o]
  BY FreeIs
<1> HIDE DEF ed
<1> HIDE DEF l
<1>6. There(s.list) = T \ F
  <2>1. Main \notin F
    BY <1>1, <1>2
  <2> QED  BY <2>1, <1>1, <1>2 DEF There
<1>7. SafeAt(en, n, ls, w) /\ SweepAt(n, ls, w, gs, p) /\ GarbageAt(en, n, ls, w, gs, dm) /\ gs \notin Keep /\ gs \notin Rests
  BY StatesAre DEF Good
<1>8. A \cap F = {} /\ A \subseteq T /\ \A o \in T : o \in A <=> n.color[o] # Other(w)
  BY <1>1 DEF Alive
<1>9. Alive(r, s.list, w) = A
  <2>1. \A o \in T \ F : r.color[o] # Other(w) <=> n.color[o] # Other(w)
    <3>1. \A o \in B \ F : n.color[o] # Other(w)
      BY <1>1
    <3> QED  BY <3>1, <1>2, <1>4, ColorsAre
  <2> HIDE DEF A
  <2> QED  BY <2>1, <1>6, <1>8 DEF Alive
<1>10. SafeAt(ed, r, s.list, w)
  <2>1. ASSUME NEW o \in Obj \ (T \ F) PROVE IsWhite(r.color[o]) /\ ed[o] = {}
    <3>1. CASE o \in F
      <4>1. r.color[o] = n.color[o] /\ n.color[o] = Other(w)
        BY <3>1, <1>1, <1>4
      <4> QED  BY <4>1, <3>1, <1>5, ColorsAre
    <3>2. CASE o \notin F
      <4>1. o \notin T /\ o \notin B
        BY <3>2, <2>1, <1>1, <1>2
      <4> QED  BY <4>1, <3>2, <1>4, <1>5, <1>7 DEF SafeAt
    <3> QED  BY <3>1, <3>2
  <2>2. Closed(ed, A)
    <3>1. \A o \in A : o \in Obj /\ ed[o] = en[o]
      BY <1>2, <1>5, <1>8
    <3> QED  BY <3>1, <1>7 DEF SafeAt, Closed, Content, Keys, Vals
  <2>3. {Main, Reg} \cup Range(s.list["tobefnz"]) \subseteq A
    BY <1>1, <1>2, <1>7 DEF SafeAt
  <2> QED  BY <2>1, <2>2, <2>3, <1>6, <1>9 DEF SafeAt
<1>11. SweepAt(r, s.list, w, gs, s.p)
  <2>1. ASSUME NEW o \in T \ F PROVE o = Main \/ o \in Unswept(s.p, s.list, gs) \/ r.color[o] = w
    <3>1. o = Main \/ o \in Unswept(p, ls, gs) \/ n.color[o] = w
      BY <1>7 DEF SweepAt
    <3>2. Later(gs, ls) \ F \subseteq Later(gs, s.list)
      BY <1>1, <1>2 DEF Later
    <3>3. CASE o \in B
      BY <3>3, <1>2, <1>4
    <3>4. CASE o \notin B
      BY <3>1, <3>2, <3>4, <1>1, <1>2, <1>4 DEF Unswept
    <3> QED  BY <3>3, <3>4
  <2> QED  BY <2>1, <1>1, <1>6, <1>7 DEF SweepAt, l
<1>12. GarbageAt(ed, r, s.list, w, gs, dm)
  <2>1. \A o \in dm \cap (T \ F) : r.color[o] = Other(w)
    <3>1. \A o \in dm \cap T : n.color[o] = Other(w)
      BY <1>7 DEF GarbageAt
    <3>2. \A o \in dm \cap (T \ F) : o \notin B
      BY <3>1, <1>1
    <3> QED  BY <3>1, <3>2, <1>2, <1>4
  <2>2. Closed(ed, Obj \ dm)
    <3>1. \A o \in Obj : Content(ed, o) \subseteq Content(en, o)
      BY <1>5 DEF Content, Keys, Vals
    <3> QED  BY <3>1, <1>7 DEF GarbageAt, Closed
  <2>3. ({Main, Reg} \cup Range(s.list["finobj"]) \cup Range(s.list["tobefnz"])) \cap dm = {}
    BY <1>1, <1>2, <1>7 DEF GarbageAt
  <2> QED  BY <2>1, <2>2, <2>3, <1>6, <1>7 DEF GarbageAt
<1>13. Good(ed, r, s.list, w, gs, s.p, dm, md)
  BY <1>7, <1>10, <1>11, <1>12 DEF Good
<1> QED  BY <1>1, <1>4, <1>5, <1>13 DEF r, ed

\* At the end of a list the next one is swept.
LEMMA ListEnds ==
  ASSUME NEW en, NEW n, NEW ls, Separate(ls), NEW w, NEW gs \in {"swpallgc", "swpfinobj", "swptobefnz"}, NEW dm, NEW md,
         Good(en, n, ls, w, gs, None, dm, md)
  PROVE  Good(en, n, ls, w, NextState(gs), NextList(gs), dm, md)
<1>1. /\ gs \in Sweeps /\ NextState(gs) \in Sweeps
      /\ NextState(gs) \notin Keep /\ NextState(gs) \notin Rests
  BY StatesAre DEF Sweeps, NextState
<1>2. /\ gs = "swpallgc" => NextState(gs) = "swpfinobj" /\ NextList(gs) = <<"head", "finobj">>
      /\ gs = "swpfinobj" => NextState(gs) = "swptobefnz" /\ NextList(gs) = <<"head", "tobefnz">>
      /\ gs = "swptobefnz" => NextState(gs) = "swpend" /\ NextList(gs) = None
  BY DEF NextState, NextList
<1>3. Unswept(None, ls, gs) = Unswept(NextList(gs), ls, NextState(gs))
  <2>1. /\ Ahead(None, ls) = {} /\ Ahead(<<"head", "finobj">>, ls) = Range(ls["finobj"])
        /\ Ahead(<<"head", "tobefnz">>, ls) = Range(ls["tobefnz"])
    BY AheadIs, ThereIs
  <2> QED  BY <2>1, <1>2 DEF Unswept, Later
<1>4. NextList(gs) = None \/ Into(NextList(gs), ls, CurList(NextState(gs)))
  BY <1>2 DEF Into, CurList
<1>5. SweepAt(n, ls, w, NextState(gs), NextList(gs))
  BY <1>1, <1>3, <1>4 DEF Good, SweepAt
<1>6. GarbageAt(en, n, ls, w, NextState(gs), dm)
  BY <1>1 DEF Good, GarbageAt
<1>7. SafeAt(en, n, ls, w)
  BY DEF Good
<1>8. NextState(gs) = "swpend" => NextList(gs) = None
  BY <1>2
<1> QED  BY <1>1, <1>4, <1>5, <1>6, <1>7, <1>8 DEF Good

\* At the end of the sweep everything has the current white, and what was doomed is gone.
LEMMA SweepEnds ==
  ASSUME NEW en, NEW n \in Marks, NEW ls, Separate(ls), NEW w \in WhiteColors, NEW dm, NEW md,
         Good(en, n, ls, w, "swpend", None, dm, md)
  PROVE  LET r == [n EXCEPT !.color[Main] = w]
         IN  r \in Marks /\ Good(en, r, ls, w, "callfin", None, dm, md)
<1> DEFINE r == [n EXCEPT !.color[Main] = w]
           T == There(ls)
<1>1. n.color \in [Obj -> Colors] /\ Main \in Obj /\ T \subseteq Obj /\ Main \in T /\ "swpend" \in Sweeps
      /\ "callfin" \in Rests /\ "callfin" \notin Sweeps /\ "callfin" \notin Keep
  BY MarksType, ThereIs, StatesAre DEF Sweeps, Rests
<1>2. r \in Marks /\ r.color = [n.color EXCEPT ![Main] = w]
  <2>1. [n.color EXCEPT ![Main] = w] \in [Obj -> Colors]
    BY <1>1 DEF WhiteColors, Colors
  <2> QED  BY <2>1 DEF Marks
<1> HIDE DEF r
<1>3. r.color[Main] = w /\ \A o \in Obj \ {Main} : r.color[o] = n.color[o]
  BY <1>1, <1>2
<1>4. SafeAt(en, n, ls, w) /\ SweepAt(n, ls, w, "swpend", None) /\ GarbageAt(en, n, ls, w, "swpend", dm)
  BY DEF Good
<1>5. Unswept(None, ls, "swpend") = {}
  BY DEF Unswept, Later, Ahead
<1>6. \A o \in T : r.color[o] = w
  BY <1>1, <1>3, <1>4, <1>5 DEF SweepAt
<1>7. \A o \in T : o = Main \/ n.color[o] = w
  BY <1>1, <1>4, <1>5 DEF SweepAt
<1>8. dm \cap T = {}
  BY <1>1, <1>4, <1>7, ColorsAre DEF GarbageAt
<1>9. Alive(r, ls, w) = T
  BY <1>6, ColorsAre DEF Alive
<1>10. Alive(n, ls, w) = T
  <2>1. Main \in Alive(n, ls, w)
    BY <1>4 DEF SafeAt
  <2> QED  BY <2>1, <1>7, ColorsAre DEF Alive
<1>11. SafeAt(en, r, ls, w)
  BY <1>1, <1>3, <1>4, <1>9, <1>10 DEF SafeAt
<1>12. SweepAt(r, ls, w, "callfin", None)
  BY <1>1, <1>6 DEF SweepAt
<1>13. GarbageAt(en, r, ls, w, "callfin", dm)
  BY <1>1, <1>4, <1>8 DEF GarbageAt
<1> QED  BY <1>1, <1>2, <1>11, <1>12, <1>13 DEF Good, r

\* After that the collector rests.
LEMMA CycleEnds ==
  ASSUME NEW en, NEW n, NEW ls, NEW w, NEW p, NEW dm, NEW md, Good(en, n, ls, w, "callfin", p, dm, md)
  PROVE  Good(en, n, ls, w, "pause", p, dm, md)
<1>1. /\ "callfin" \in Rests /\ "pause" \in Rests /\ "pause" \notin Sweeps /\ "pause" \notin Keep
  BY StatesAre DEF Rests
<1> QED  BY <1>1 DEF Good, SweepAt, GarbageAt

-----------------------------------------------------------------------------
(* A cycle begins, and objects are marked.                                 *)

\* The marks with empty gray lists.
Emptied(n) == [n EXCEPT !.gray = {}, !.grayagain = {}, !.weak = {}, !.ephemeron = {}, !.allweak = {}]

\* The roots are marked, and what nothing leads to is doomed.
LEMMA CycleBegins ==
  ASSUME NEW en \in Contents, NEW n \in Marks, NEW ls, Separate(ls), NEW w \in WhiteColors, NEW p, NEW dm, NEW md,
         Good(en, n, ls, w, "pause", p, dm, md),
         NEW r, MarkedFrom(Emptied(n), r, en, {Main, Reg} \cup Range(ls["tobefnz"])),
         NEW G, G = There(ls) \ Access(en, {Main, Reg} \cup (Range(ls["finobj"]) \cup Range(ls["tobefnz"])))
  PROVE  r \in Marks /\ Good(en, r, ls, w, "propagate", p, G, md)
<1> DEFINE b == Emptied(n)
           T == There(ls)
           R == {Main, Reg} \cup Range(ls["tobefnz"])
           S == {Main, Reg} \cup (Range(ls["finobj"]) \cup Range(ls["tobefnz"]))
           A == Access(en, S)
           F == Fresh(b, r)
<1>1. /\ "pause" \in Rests /\ "pause" \notin Sweeps /\ "pause" \notin Keep
      /\ "propagate" \in Keep /\ "propagate" \notin Sweeps /\ "propagate" \notin Rests
  BY StatesAre DEF Rests, Keep
<1>2. /\ b \in Marks /\ b.color = n.color /\ b.gray = {} /\ b.grayagain = {} /\ b.weak = {}
      /\ b.ephemeron = {} /\ b.allweak = {}
  BY DEF Emptied, Marks
<1>a. MarkedFrom(b, r, en, R)
  OBVIOUS
<1> HIDE DEF b
<1>3. /\ T \subseteq Obj /\ Main \in T /\ Main \in Obj /\ Main \notin Strings \cup Userdata /\ Reg \in Obj
      /\ n.color \in [Obj -> Colors]
  BY ThereIs, Kinds, MarksType
<1>4. SafeAt(en, n, ls, w) /\ \A o \in T : n.color[o] = w
  BY <1>1 DEF Good, SweepAt
<1>5. Alive(n, ls, w) = T
  BY <1>4, ColorsAre DEF Alive
<1>6. Closed(en, T) /\ R \subseteq T /\ \A o \in Obj \ T : IsWhite(n.color[o]) /\ en[o] = {}
  BY <1>4, <1>5 DEF SafeAt
<1>7. S \subseteq T
  BY <1>6, ThereIs
<1>8. Whites(b) = Obj
  BY <1>2, <1>4, <1>6, ColorsAre DEF Whites
<1>9. S \subseteq A /\ A \subseteq Obj /\ Closed(en, A)
  <2>1. S \in SUBSET Obj
    BY <1>3, <1>7
  <2> HIDE DEF S
  <2> QED  BY <2>1, AccessIs
<1>10. R \subseteq S
  OBVIOUS
<1>11. /\ r \in Marks /\ Whites(r) \subseteq Whites(b) /\ \A o \in Obj : o \notin F => r.color[o] = b.color[o]
  BY <1>2, <1>a, MarkAdvances
<1>12. /\ r.grayagain = {} /\ r.weak = {} /\ r.ephemeron = {} /\ r.allweak = {}
       /\ R \cap Whites(r) = {}
       /\ \A o \in Obj : r.color[o] = IF o \notin F THEN n.color[o]
                                      ELSE IF o \in Strings \cup Userdata THEN "black" ELSE "gray"
       /\ r.gray = F \ (Strings \cup Userdata)
       /\ \A u \in F \cap Userdata : Vals(en, u) \cap Whites(r) = {}
       /\ \A L \in SUBSET Obj : Closed(en, L) /\ R \cap Whites(b) \subseteq L => F \subseteq L
  BY <1>2, <1>a DEF MarkedFrom
<1> HIDE DEF A, S, R
<1>13. F \subseteq T /\ F \subseteq A
  <2>1. T \in SUBSET Obj /\ A \in SUBSET Obj /\ R \cap Whites(b) \subseteq T /\ R \cap Whites(b) \subseteq A
    BY <1>3, <1>6, <1>9, <1>10
  <2> QED  BY <2>1, <1>6, <1>9, <1>12
<1>14. \A o \in Obj : o \in F <=> o \notin Whites(r)
  BY <1>8 DEF Fresh
<1>15. Main \in R /\ Reg \in R /\ Range(ls["tobefnz"]) \subseteq R
  BY DEF R
<1> HIDE DEF F
<1>16. \A o \in T : r.color[o] # Other(w)
  BY <1>3, <1>4, <1>12, ColorsAre
<1>17. Alive(r, ls, w) = T
  BY <1>16 DEF Alive
<1>18. SafeAt(en, r, ls, w)
  BY <1>6, <1>12, <1>13, <1>15, <1>17 DEF SafeAt
<1>19. MarkingAt(en, r, ls, w, md)
  <2>1. ASSUME NEW o \in Obj PROVE r.color[o] = "gray" <=> o \in r.gray \cup r.grayagain \cup r.allweak
    <3>1. IsWhite(n.color[o])
      BY <1>2, <1>8, MarksType
    <3> QED  BY <3>1, <1>12, ColorsAre
  <2>2. ASSUME NEW o \in Obj, r.color[o] = "black" PROVE Content(en, o) \cap Whites(r) = {}
    <3>1. IsWhite(n.color[o])
      BY <1>2, <1>8, MarksType
    <3>2. o \in F /\ o \in Strings \cup Userdata
      BY <3>1, <2>2, <1>12, ColorsAre
    <3>3. CASE o \in Strings
      BY <3>3, ContentIsObjects
    <3>4. CASE o \in Userdata
      <4>1. Keys(en, o) = {} /\ Vals(en, o) \cap Whites(r) = {}
        BY <3>2, <3>4, <1>12, ContentIsObjects
      <4> QED  BY <4>1 DEF Content
    <3> QED  BY <3>2, <3>3, <3>4
  <2>3. r.color[Main] = "gray" /\ Reg \notin Whites(r) /\ Range(ls["tobefnz"]) \cap Whites(r) = {}
    <3>1. Main \in F
      BY <1>3, <1>12, <1>14, <1>15
    <3> QED  BY <3>1, <1>3, <1>12, <1>15
  <2> QED  BY <2>1, <2>2, <2>3, <1>12, <1>16 DEF MarkingAt
<1>20. SweepAt(r, ls, w, "propagate", p)
  BY <1>1 DEF SweepAt
<1>21. GarbageAt(en, r, ls, w, "propagate", G)
  <2>1. G = T \ A
    BY DEF A, S
  <2>2. ({Main, Reg} \cup Range(ls["finobj"]) \cup Range(ls["tobefnz"])) \cap G = {}
    BY <2>1, <1>9 DEF S
  <2>3. Closed(en, Obj \ G)
    <3>1. \A o \in Obj \ T : Content(en, o) = {}
      BY <1>6 DEF Content, Keys, Vals
    <3> QED  BY <2>1, <3>1, <1>9 DEF Closed
  <2>4. \A o \in G \cap T : r.color[o] = w
    BY <2>1, <1>3, <1>4, <1>12, <1>13
  <2> QED  BY <2>1, <2>2, <2>3, <2>4, <1>1, <1>3 DEF GarbageAt
<1> QED  BY <1>1, <1>11, <1>18, <1>19, <1>20, <1>21 DEF Good

\* An object leaves gray: what it leads to is marked from S, and it is black or in another list.
EarlyPassage(n, b, q, r, en, S, o, md) ==
  /\ b.gray = n.gray \ {o} /\ MarkedFrom(b, q, en, S) /\ S \subseteq Content(en, o) \cup {Plain}
  /\ r.color = q.color /\ r.gray = q.gray /\ r.weak = n.weak /\ r.ephemeron = n.ephemeron
  /\ \/ /\ b.color = n.color
        /\ \/ r.grayagain = n.grayagain \cup {o} /\ r.allweak = n.allweak
           \/ r.grayagain = n.grayagain /\ r.allweak = n.allweak \cup {o} /\ IsTable(o) /\ md[o] = "kv"
     \/ /\ o # Main /\ b.color = [n.color EXCEPT ![o] = "black"] /\ Content(en, o) \cap Whites(q) = {}
        /\ r.grayagain = n.grayagain /\ r.allweak = n.allweak

\* Such a passage keeps the invariant.
LEMMA EarlyPassageGood ==
  ASSUME NEW en \in Contents, NEW n \in Marks, NEW b \in Marks, NEW q \in Marks, NEW r \in Marks,
         NEW ls, Separate(ls), NEW w \in WhiteColors, NEW gs \in Keep, NEW ge \in Keep, NEW p, NEW dm, NEW md,
         Good(en, n, ls, w, gs, p, dm, md),
         NEW S, NEW o \in n.gray, EarlyPassage(n, b, q, r, en, S, o, md)
  PROVE  Good(en, r, ls, w, ge, p, dm, md)
<1> DEFINE A == Alive(n, ls, w)
           T == There(ls)
           F == Fresh(b, q)
<1>1. gs \notin Sweeps /\ gs \notin Rests /\ ge \notin Sweeps /\ ge \notin Rests
  BY StatesAre
<1>2. SafeAt(en, n, ls, w) /\ MarkingAt(en, n, ls, w, md) /\ GarbageAt(en, n, ls, w, gs, dm)
  BY DEF Good
<1>3. T \subseteq Obj /\ A \subseteq T /\ n.color \in [Obj -> Colors] /\ o \in Obj /\ Main \in Obj /\ Reg \in Obj
  BY ThereIs, MarksType, Kinds
<1>4. n.color[o] = "gray"
  BY <1>2, <1>3 DEF MarkingAt
<1>5. b.color[o] \in {"gray", "black"} /\ \A x \in Obj : x # o => b.color[x] = n.color[x]
  BY <1>3, <1>4 DEF EarlyPassage
<1>6. Whites(b) = Whites(n)
  BY <1>4, <1>5, ColorsAre DEF Whites
<1>7. o \in T /\ o \in A /\ o \notin dm
  <2>1. o \in T
    BY <1>2, <1>3, <1>4, ColorsAre DEF SafeAt
  <2> QED  BY <2>1, <1>2, <1>4, ColorsAre DEF Alive, GarbageAt
<1>8. /\ q \in Marks /\ Whites(q) \subseteq Whites(b)
      /\ \A x \in Obj : q.color[x] = IF x \notin F THEN b.color[x]
                                     ELSE IF x \in Strings \cup Userdata THEN "black" ELSE "gray"
      /\ q.gray = b.gray \cup (F \ (Strings \cup Userdata))
      /\ \A u \in F \cap Userdata : Vals(en, u) \cap Whites(q) = {}
  <2>1. MarkedFrom(b, q, en, S)
    BY DEF EarlyPassage
  <2> QED  BY <2>1, MarkAdvances, SMTT(30) DEF MarkedFrom
<1>9. F \subseteq A /\ F \subseteq Obj \ dm /\ F \subseteq Whites(n)
  <2>1. Closed(en, A) /\ Closed(en, Obj \ dm)
    BY <1>2 DEF SafeAt, GarbageAt
  <2>2. Content(en, o) \subseteq A /\ Content(en, o) \subseteq Obj \ dm
    BY <2>1, <1>3, <1>7 DEF Closed
  <2>3. Plain \notin Whites(b)
    BY Kinds, MarksType
  <2> HIDE DEF A
  <2>4. S \cap Whites(b) \subseteq A /\ S \cap Whites(b) \subseteq Obj \ dm /\ A \in SUBSET Obj /\ Obj \ dm \in SUBSET Obj
    BY <2>2, <2>3, <1>3 DEF EarlyPassage
  <2>5. F \subseteq A /\ F \subseteq Obj \ dm
    BY <2>1, <2>4 DEF EarlyPassage, MarkedFrom
  <2> QED  BY <2>5, <1>6 DEF Fresh
<1> HIDE DEF F
<1>10. r.color = q.color /\ r.gray = (n.gray \ {o}) \cup (F \ (Strings \cup Userdata)) /\ r.weak = {} /\ r.ephemeron = {}
  BY <1>2, <1>8 DEF EarlyPassage, MarkingAt
<1>11. \A x \in Obj : r.color[x] = n.color[x] \/ (x \in F \cup {o} /\ r.color[x] \in {"gray", "black"})
  BY <1>5, <1>8, <1>10
<1>12. \A x \in T : r.color[x] # Other(w)
  BY <1>2, <1>3, <1>11, ColorsAre DEF MarkingAt
<1>13. Alive(r, ls, w) = A
  <2>1. A = T
    BY <1>2 DEF MarkingAt, Alive
  <2> QED  BY <2>1, <1>12 DEF Alive
<1>14. SafeAt(en, r, ls, w)
  <2>1. \A x \in Obj \ T : IsWhite(r.color[x]) /\ en[x] = {}
    BY <1>2, <1>3, <1>7, <1>9, <1>11 DEF SafeAt
  <2> QED  BY <2>1, <1>2, <1>13 DEF SafeAt
<1>15. \A x \in F : x \in Obj /\ x # o /\ IsWhite(n.color[x]) /\ x \notin n.gray \cup n.grayagain \cup n.allweak
  BY <1>2, <1>4, <1>9, MarksType, ColorsAre DEF MarkingAt
<1>16. /\ n.gray \cap n.grayagain = {} /\ n.gray \cap n.allweak = {} /\ n.grayagain \cap n.allweak = {}
       /\ \A x \in Obj : n.color[x] = "gray" <=> x \in n.gray \cup n.grayagain \cup n.allweak
       /\ \A x \in Obj : n.color[x] = "black" => Content(en, x) \cap Whites(n) = {}
       /\ \A x \in n.allweak : IsTable(x) /\ md[x] = "kv"
  BY <1>2 DEF MarkingAt
<1>17. \/ /\ b.color[o] = "gray"
          /\ \/ r.grayagain = n.grayagain \cup {o} /\ r.allweak = n.allweak
             \/ r.grayagain = n.grayagain /\ r.allweak = n.allweak \cup {o} /\ IsTable(o) /\ md[o] = "kv"
       \/ /\ o # Main /\ b.color[o] = "black" /\ Content(en, o) \cap Whites(q) = {}
          /\ r.grayagain = n.grayagain /\ r.allweak = n.allweak
  BY <1>3, <1>4 DEF EarlyPassage
<1>18. r.gray \cap r.grayagain = {} /\ r.gray \cap r.allweak = {} /\ r.grayagain \cap r.allweak = {}
  BY <1>10, <1>15, <1>16, <1>17
<1>19. ASSUME NEW x \in Obj PROVE r.color[x] = "gray" <=> x \in r.gray \cup r.grayagain \cup r.allweak
  <2>1. CASE x = o
    <3>1. o \notin F /\ o \notin n.grayagain /\ o \notin n.allweak /\ r.color[o] = b.color[o] /\ o \notin r.gray
      BY <1>3, <1>8, <1>10, <1>15, <1>16
    <3> QED  BY <2>1, <3>1, <1>17
  <2>2. CASE x # o /\ x \in F
    <3>1. r.color[x] = IF x \in Strings \cup Userdata THEN "black" ELSE "gray"
      BY <2>2, <1>8, <1>10
    <3> QED  BY <2>2, <3>1, <1>10, <1>15, <1>17
  <2>3. CASE x # o /\ x \notin F
    <3>1. r.color[x] = n.color[x]
      BY <2>3, <1>5, <1>8, <1>10
    <3> QED  BY <2>3, <3>1, <1>10, <1>16, <1>17
  <2> QED  BY <2>1, <2>2, <2>3
<1>20. ASSUME NEW x \in Obj, r.color[x] = "black" PROVE Content(en, x) \cap Whites(r) = {}
  <2>1. Whites(r) = Whites(q) /\ Whites(q) \subseteq Whites(n)
    BY <1>6, <1>8, <1>10 DEF Whites
  <2>2. CASE x = o
    <3>1. r.color[o] = b.color[o]
      BY <1>3, <1>8, <1>10, <1>15
    <3> QED  BY <2>1, <2>2, <3>1, <1>17, <1>20
  <2>3. CASE x # o /\ x \in F
    <3>1. x \in Strings \cup Userdata
      BY <2>3, <1>8, <1>10, <1>20
    <3>2. CASE x \in Strings
      BY <3>2, ContentIsObjects
    <3>3. CASE x \in Userdata
      <4>1. Keys(en, x) = {} /\ Vals(en, x) \cap Whites(r) = {}
        BY <2>1, <2>3, <3>3, <1>8, ContentIsObjects
      <4> QED  BY <4>1 DEF Content
    <3> QED  BY <3>1, <3>2, <3>3
  <2>4. CASE x # o /\ x \notin F
    <3>1. n.color[x] = "black"
      BY <2>4, <1>5, <1>8, <1>10, <1>20
    <3> QED  BY <2>1, <3>1, <1>16
  <2> QED  BY <2>2, <2>3, <2>4
<1>21. \A x \in r.allweak : IsTable(x) /\ md[x] = "kv"
  BY <1>16, <1>17
<1>22. Reg \notin Whites(r) /\ Range(ls["tobefnz"]) \cap Whites(r) = {}
  <2>1. Whites(r) \subseteq Whites(n)
    BY <1>6, <1>8, <1>10 DEF Whites
  <2> QED  BY <2>1, <1>2 DEF MarkingAt
<1>23. r.color[Main] = "gray"
  <2>1. Main \notin F /\ n.color[Main] = "gray"
    BY <1>2, <1>15, ColorsAre DEF MarkingAt
  <2>2. r.color[Main] = b.color[Main]
    BY <2>1, <1>3, <1>8, <1>10
  <2>3. CASE o = Main
    BY <2>2, <2>3, <1>17
  <2>4. CASE o # Main
    BY <2>1, <2>2, <2>4, <1>3, <1>5
  <2> QED  BY <2>3, <2>4
<1>24. MarkingAt(en, r, ls, w, md)
  BY <1>10, <1>12, <1>18, <1>19, <1>20, <1>21, <1>22, <1>23 DEF MarkingAt
<1>25. SweepAt(r, ls, w, ge, p)
  BY <1>1 DEF SweepAt
<1>26. GarbageAt(en, r, ls, w, ge, dm)
  <2>1. \A x \in dm \cap T : r.color[x] = w
    BY <1>2, <1>3, <1>7, <1>9, <1>11 DEF GarbageAt
  <2> QED  BY <2>1, <1>1, <1>2 DEF GarbageAt
<1> QED  BY <1>14, <1>24, <1>25, <1>26 DEF Good

\* Every way to traverse an object while the script goes on is such a passage.
LEMMA EarlyGood ==
  ASSUME NEW en \in Contents, NEW n \in Marks, NEW ls, Separate(ls), NEW w \in WhiteColors,
         NEW gs \in Keep, NEW ge \in Keep, NEW p, NEW dm,
         Good(en, n, ls, w, gs, p, dm, mode), NEW o \in n.gray
  PROVE  LET r == Traverse(n, en, o, FALSE)
         IN  r \in Marks /\ Good(en, r, ls, w, ge, p, dm, mode)
<1> DEFINE gone == Gone(n, o)
           r == Traverse(n, en, o, FALSE)
<1>0. o \in Obj /\ Keys(en, o) \subseteq Obj /\ Vals(en, o) \subseteq Obj
  BY MarksType, ContentIsObjects
<1>1. /\ gone \in Marks /\ gone.gray = n.gray \ {o} /\ gone.color = n.color
      /\ gone.grayagain = n.grayagain /\ gone.weak = n.weak
      /\ gone.ephemeron = n.ephemeron /\ gone.allweak = n.allweak
  BY DEF Marks, Gone
<1>2. n.color \in [Obj -> Colors] /\ "black" \in Colors
  BY MarksType DEF Colors
<1> HIDE DEF gone
<1>3. ASSUME NEW b \in Marks, NEW q \in Marks, NEW S, EarlyPassage(n, b, q, r, en, S, o, mode), r \in Marks
      PROVE  Good(en, r, ls, w, ge, p, dm, mode)
  <2> HIDE DEF r
  <2> QED  BY <1>3, EarlyPassageGood
<1>4. CASE o = Main
  <2> DEFINE b == GrayAgain(gone, o)
  <2>1. /\ b \in Marks /\ b.gray = gone.gray /\ b.color = gone.color /\ b.grayagain = n.grayagain \cup {o}
        /\ b.weak = n.weak /\ b.ephemeron = n.ephemeron /\ b.allweak = n.allweak
    BY <1>0, <1>1 DEF Marks, GrayAgain
  <2> HIDE DEF b
  <2>2. r = Mark(b, en, Vals(en, o))
    <3>1. Traverse(n, en, o, FALSE) = Mark(GrayAgain(Gone(n, o), o), en, Vals(en, o))
      BY <1>4, EarlyMain
    <3> QED  BY <3>1 DEF gone, b
  <2>3. MarkedFrom(b, r, en, Vals(en, o))
    BY <2>1, <2>2, MarkIs
  <2> HIDE DEF r
  <2>4. /\ r \in Marks /\ r.grayagain = n.grayagain \cup {o} /\ r.weak = n.weak
        /\ r.ephemeron = n.ephemeron /\ r.allweak = n.allweak
    BY <2>1, <2>3 DEF MarkedFrom
  <2>5. Vals(en, o) \subseteq Content(en, o) \cup {Plain}
    BY DEF Content
  <2>6. EarlyPassage(n, b, r, r, en, Vals(en, o), o, mode)
    BY <1>1, <2>1, <2>3, <2>4, <2>5 DEF EarlyPassage
  <2> QED  BY <1>3, <2>1, <2>4, <2>6 DEF r
<1>5. ASSUME NEW S, S \subseteq Content(en, o) \cup {Plain}, r = GrayAgain(Mark(gone, en, S), o)
      PROVE  r \in Marks /\ Good(en, r, ls, w, ge, p, dm, mode)
  <2> DEFINE q == Mark(gone, en, S)
  <2>1. MarkedFrom(gone, q, en, S)
    BY <1>1, MarkIs
  <2> HIDE DEF q
  <2>2. /\ q \in Marks /\ q.grayagain = n.grayagain /\ q.weak = n.weak
        /\ q.ephemeron = n.ephemeron /\ q.allweak = n.allweak
    BY <1>1, <2>1 DEF MarkedFrom
  <2>3. GrayAgain(q, o) \in Marks /\ GrayAgain(q, o).color = q.color /\ GrayAgain(q, o).gray = q.gray
        /\ GrayAgain(q, o).grayagain = n.grayagain \cup {o} /\ GrayAgain(q, o).weak = n.weak
        /\ GrayAgain(q, o).ephemeron = n.ephemeron /\ GrayAgain(q, o).allweak = n.allweak
    BY <1>0, <2>2 DEF Marks, GrayAgain
  <2>4. r = GrayAgain(q, o)
    BY <1>5 DEF q
  <2> HIDE DEF r
  <2>5. EarlyPassage(n, gone, q, r, en, S, o, mode)
    BY <1>1, <1>5, <2>1, <2>3, <2>4 DEF EarlyPassage
  <2> QED  BY <1>1, <1>3, <2>2, <2>3, <2>4, <2>5 DEF r
<1>6. CASE o # Main /\ Weak(o, "v")
  <2> DEFINE S == Keys(en, o) \cup (Vals(en, o) \cap Strings)
  <2>1. r = GrayAgain(Mark(gone, en, S), o)
    <3>1. r = TraverseWeakValue(gone, en, o, FALSE)
      BY <1>6, EarlyCases DEF gone
    <3> QED  BY <3>1 DEF TraverseWeakValue, GrayAgain
  <2>2. S \subseteq Content(en, o) \cup {Plain}
    BY DEF Content
  <2> HIDE DEF S, r
  <2> QED  BY <1>5, <2>1, <2>2 DEF r
<1>7. CASE o # Main /\ Weak(o, "k")
  <2> DEFINE white1 == {e \in en[o] : Cleared(gone, e[1])}
             S == {e[2] : e \in en[o] \ white1} \cup (Keys(en, o) \cap Strings)
  <2>1. r = GrayAgain(Mark(gone, en, S), o)
    <3>1. r = TraverseEphemeron(gone, en, o, FALSE)
      BY <1>7, EarlyCases DEF gone
    <3> QED  BY <3>1 DEF TraverseEphemeron, GrayAgain
  <2>2. S \subseteq Content(en, o) \cup {Plain}
    BY DEF Content, Keys, Vals
  <2> HIDE DEF S, r
  <2> QED  BY <1>5, <2>1, <2>2 DEF r
<1>8. CASE o # Main /\ Weak(o, "kv")
  <2>1. r = [gone EXCEPT !.allweak = @ \cup {o}]
    BY <1>8, EarlyCases, ZenonT(30) DEF gone
  <2>2. MarkedFrom(gone, gone, en, {})
    <3>1. Fresh(gone, gone) = {}
      BY DEF Fresh
    <3> QED  BY <3>1, <1>1 DEF MarkedFrom
  <2>3. /\ r \in Marks /\ r.color = gone.color /\ r.gray = gone.gray /\ r.grayagain = n.grayagain
        /\ r.weak = n.weak /\ r.ephemeron = n.ephemeron /\ r.allweak = n.allweak \cup {o}
    <3> DEFINE q == [gone EXCEPT !.allweak = @ \cup {o}]
    <3>1. /\ q \in Marks /\ q.color = gone.color /\ q.gray = gone.gray /\ q.grayagain = gone.grayagain
          /\ q.weak = gone.weak /\ q.ephemeron = gone.ephemeron /\ q.allweak = gone.allweak \cup {o}
      BY <1>0, <1>1 DEF Marks
    <3>2. r = q
      BY <2>1
    <3> HIDE DEF q, r
    <3> QED  BY <1>1, <3>1, <3>2
  <2>4. IsTable(o) /\ mode[o] = "kv"
    BY <1>8 DEF Weak
  <2> HIDE DEF r
  <2>5. EarlyPassage(n, gone, gone, r, en, {}, o, mode)
    BY <1>1, <2>2, <2>3, <2>4 DEF EarlyPassage
  <2> QED  BY <1>1, <1>3, <2>3, <2>5 DEF r
<1>9. CASE o # Main /\ ~(Weak(o, "v") \/ Weak(o, "k") \/ Weak(o, "kv"))
  <2> DEFINE b == Blackened(gone, o)
             S == Keys(en, o) \cup Vals(en, o)
  <2>1. /\ b \in Marks /\ b.gray = gone.gray /\ b.color = [n.color EXCEPT ![o] = "black"] /\ b.grayagain = n.grayagain
        /\ b.weak = n.weak /\ b.ephemeron = n.ephemeron /\ b.allweak = n.allweak
    <3>1. [n.color EXCEPT ![o] = "black"] \in [Obj -> Colors]
      BY <1>0, <1>2
    <3> QED  BY <3>1, <1>1 DEF Marks, Blackened
  <2> HIDE DEF b
  <2>2. r = Mark(b, en, S)
    <3>1. Traverse(n, en, o, FALSE) = Mark(Blackened(Gone(n, o), o), en, Keys(en, o) \cup Vals(en, o))
      BY <1>9, EarlyOther
    <3> QED  BY <3>1 DEF gone, b
  <2>3. MarkedFrom(b, r, en, S)
    BY <2>1, <2>2, MarkIs
  <2> HIDE DEF r
  <2>4. /\ r \in Marks /\ r.grayagain = n.grayagain /\ r.weak = n.weak
        /\ r.ephemeron = n.ephemeron /\ r.allweak = n.allweak /\ S \cap Whites(r) = {}
    BY <2>1, <2>3 DEF MarkedFrom
  <2>5. S = Content(en, o)
    BY DEF Content
  <2> HIDE DEF S
  <2>6. EarlyPassage(n, b, r, r, en, S, o, mode)
    BY <1>1, <1>9, <2>1, <2>3, <2>4, <2>5 DEF EarlyPassage
  <2> QED  BY <1>3, <2>1, <2>4, <2>6 DEF r
<1> QED  BY <1>4, <1>6, <1>7, <1>8, <1>9

-----------------------------------------------------------------------------
(* The sweep begins.                                                       *)

\* The first part of the first list is swept.
LEMMA SweepBegins ==
  ASSUME NEW en \in Contents, NEW n \in Marks, NEW ls, Separate(ls), NEW w \in WhiteColors, NEW dm, NEW md,
         SafeAt(en, n, ls, w), GarbageAt(en, n, ls, w, "swpallgc", dm),
         NEW s, s = SweepToLive(<<"head", "allgc">>, ls, n.color, w)
  PROVE  LET r == [n EXCEPT !.color = s.color]
         IN  /\ r \in Marks /\ Free(en, s.freed) \in Contents /\ Separate(s.list)
             /\ Good(Free(en, s.freed), r, s.list, w, "swpallgc", s.p, dm, md)
             /\ s.p = None \/ Into(s.p, s.list, "allgc")
<1> DEFINE p == <<"head", "allgc">>
<1>1. /\ "swpallgc" \in Sweeps /\ "swpallgc" \notin Keep /\ "swpallgc" \notin Rests
      /\ CurList("swpallgc") = "allgc" /\ "allgc" \in Lists
  BY StatesAre DEF Sweeps, CurList, Lists
<1>2. Into(p, ls, "allgc") /\ Ahead(p, ls) = Range(ls["allgc"])
  BY <1>1, AheadIs DEF Into
<1>3. n.color \in [Obj -> Colors]
  BY MarksType
<1> HIDE DEF p
<1>4. Unswept(p, ls, "swpallgc") = Range(ls["allgc"]) \cup (Range(ls["finobj"]) \cup Range(ls["tobefnz"]))
  BY <1>2 DEF Unswept, Later
<1>5. SweepAt(n, ls, w, "swpallgc", p)
  BY <1>1, <1>2, <1>4 DEF SweepAt, There
<1>6. Good(en, n, ls, w, "swpallgc", p, dm, md)
  BY <1>1, <1>5 DEF Good
<1>7. PICK B \in SUBSET Obj : SweptFrom(s, B, "allgc", p, ls, n.color, w)
  BY <1>1, <1>2, <1>3, ToLiveIs DEF p
<1>8. SweptFrom(s, B, CurList("swpallgc"), p, ls, n.color, w)
  BY <1>1, <1>7
<1>9. s.p = None \/ Into(s.p, s.list, "allgc")
  BY <1>7 DEF SweptFrom
<1> QED  BY <1>1, <1>6, <1>8, <1>9, SweptGood

\* A mark that is abandoned leaves nothing doomed.
LEMMA AbandonGood ==
  ASSUME NEW en \in Contents, NEW n \in Marks, NEW ls, Separate(ls), NEW w \in WhiteColors, NEW md,
         NEW gs, NEW p, NEW dm, Good(en, n, ls, w, gs, p, dm, md),
         NEW s, s = SweepToLive(<<"head", "allgc">>, ls, n.color, w)
  PROVE  LET r == [n EXCEPT !.color = s.color]
         IN  /\ r \in Marks /\ Free(en, s.freed) \in Contents /\ Separate(s.list)
             /\ Good(Free(en, s.freed), r, s.list, w, "swpallgc", s.p, {}, md)
             /\ s.p = None \/ Into(s.p, s.list, "allgc")
<1>1. SafeAt(en, n, ls, w)
  BY DEF Good
<1>2. Closed(en, Obj \ {})
  BY ContentIsObjects DEF Closed, Content
<1>3. GarbageAt(en, n, ls, w, "swpallgc", {})
  BY <1>2 DEF GarbageAt
<1> QED  BY <1>1, <1>3, SweepBegins

\* While marking, what is neither white nor gray, and every weak table that is linked, is done.
LEMMA MarkedIsDone ==
  ASSUME NEW en \in Contents, NEW n \in Marks, NEW ls, NEW w, MarkingAt(en, n, ls, w, mode)
  PROVE  Pending(n, en, n.grayagain) /\ Sorted(n, en)
<1>1. n.color \in [Obj -> Colors]
  BY MarksType
<1>2. ASSUME NEW o \in Obj PROVE o \in Whites(n) \/ o \in n.gray \/ o \in n.grayagain \/ Done(n, en, o)
  <2>1. CASE n.color[o] = "gray"
    <3>1. CASE o \in n.allweak
      <4>1. IsTable(o) /\ mode[o] = "kv"
        BY <3>1 DEF MarkingAt
      <4> QED  BY <3>1, <4>1 DEF Done, Weak
    <3>2. CASE o \notin n.allweak
      BY <2>1, <3>2 DEF MarkingAt
    <3> QED  BY <3>1, <3>2
  <2>2. CASE n.color[o] = "black"
    <3>1. Content(en, o) \cap Whites(n) = {}
      BY <2>2 DEF MarkingAt
    <3>2. \A v \in Keys(en, o) \cup Vals(en, o) : ~Cleared(n, v)
      <4>1. \A v \in Keys(en, o) \cup Vals(en, o) : v \in Obj /\ v \notin Whites(n)
        BY <3>1, ContentIsObjects DEF Content
      <4> QED  BY <4>1, MarksType DEF Cleared
    <3> QED  BY <3>1, <3>2 DEF Done, Content
  <2>3. CASE IsWhite(n.color[o])
    BY <2>3, MarksType
  <2> QED  BY <2>1, <2>2, <2>3, <1>1 DEF Colors, IsWhite
<1>3. (n.gray \cup n.grayagain \cup n.weak \cup n.ephemeron \cup n.allweak) \cap Whites(n) = {}
  BY MarksType, ColorsAre DEF MarkingAt, IsWhite
<1>4. (\A o \in n.weak : Weak(o, "v")) /\ (\A o \in n.ephemeron : Weak(o, "k")) /\ (\A o \in n.allweak : Weak(o, "kv"))
  BY DEF MarkingAt, Weak
<1> QED  BY <1>2, <1>3, <1>4 DEF Pending, Sorted

\* What is marked is there, and not doomed.
LEMMA MarkedIsWithin ==
  ASSUME NEW en, NEW n \in Marks, NEW ls, Separate(ls), NEW w \in WhiteColors, NEW gs \in Keep, NEW dm, NEW md,
         SafeAt(en, n, ls, w), MarkingAt(en, n, ls, w, md), GarbageAt(en, n, ls, w, gs, dm)
  PROVE  /\ Closed(en, There(ls)) /\ Within(n, There(ls))
         /\ Closed(en, Obj \ dm) /\ Within(n, Obj \ dm)
<1>1. There(ls) \subseteq Obj /\ n.color \in [Obj -> Colors]
  BY ThereIs, MarksType
<1>2. Alive(n, ls, w) = There(ls)
  BY DEF MarkingAt, Alive
<1>3. n.gray \cup n.grayagain \cup n.weak \cup n.ephemeron \cup n.allweak \subseteq Obj \ Whites(n)
  BY MarksType, ColorsAre DEF MarkingAt
<1>4. Obj \ Whites(n) \subseteq There(ls)
  BY MarksType DEF SafeAt
<1>5. Obj \ Whites(n) \subseteq Obj \ dm
  <2>1. ASSUME NEW o \in dm PROVE o \in Whites(n)
    <3>1. o \in Obj
      BY DEF GarbageAt
    <3>2. CASE o \in There(ls)
      BY <3>1, <3>2, <2>1, MarksType, ColorsAre DEF GarbageAt
    <3>3. CASE o \notin There(ls)
      BY <3>1, <3>3, <1>4
    <3> QED  BY <3>2, <3>3
  <2> QED  BY <2>1
<1> QED  BY <1>2, <1>3, <1>4, <1>5 DEF SafeAt, GarbageAt, Within

\* atomic: what stays white is what the sweep may free.
LEMMA AtomicGood ==
  ASSUME entries \in Contents, m \in Marks, Separate(list), white \in WhiteColors,
         NEW gs \in Keep, Good(entries, m, list, white, gs, sweepgc, doomed, mode),
         NEW a, a = ClearRest(Resurrect(ClearValues(Marked(m, entries)))),
         NEW s, s = SweepToLive(<<"head", "allgc">>, a.ls, a.n.color, Other(white))
  PROVE  LET r == [a.n EXCEPT !.color = s.color]
         IN  /\ r \in Marks /\ Free(a.en, s.freed) \in Contents /\ Separate(s.list)
             /\ Good(Free(a.en, s.freed), r, s.list, Other(white), "swpallgc", s.p, doomed, mode)
             /\ s.p = None \/ Into(s.p, s.list, "allgc")
<1> DEFINE T == There(list)
<1>1. SafeAt(entries, m, list, white) /\ MarkingAt(entries, m, list, white, mode) /\ GarbageAt(entries, m, list, white, gs, doomed)
  BY DEF Good
<1>2. /\ T \subseteq Obj /\ Main \in T /\ {Main, Reg} \subseteq Obj /\ Range(list["finobj"]) \subseteq T /\ Range(list["tobefnz"]) \subseteq T
      /\ m.color \in [Obj -> Colors]
  BY ThereIs, Kinds, MarksType
<1>3. Closed(entries, T) /\ Within(m, T) /\ Closed(entries, Obj \ doomed) /\ Within(m, Obj \ doomed)
  BY <1>1, MarkedIsWithin
<1>4. Pending(m, entries, m.grayagain) /\ Sorted(m, entries)
  BY <1>1, MarkedIsDone
<1>5. /\ HasFinalizer = Range(list["finobj"]) \cup Range(list["tobefnz"])
      /\ In("allgc") = Range(list["allgc"])
  BY DEF HasFinalizer, In
<1>6. Reg \in T
  BY <1>1 DEF SafeAt, Alive
<1>7. ASSUME NEW L \in SUBSET Obj, Closed(entries, L), {Main, Reg} \cup HasFinalizer \subseteq L, Within(m, L)
      PROVE  /\ a \in Snapshots /\ \A o \in Obj : a.en[o] \subseteq entries[o]
             /\ Darkened(m, a.n) /\ Within(a.n, L)
             /\ Separate(a.ls) /\ Range(a.ls["allgc"]) = In("allgc")
             /\ Range(a.ls["finobj"]) \cup Range(a.ls["tobefnz"]) = HasFinalizer
             /\ ({Main, Reg} \cup Range(a.ls["tobefnz"])) \cap Whites(a.n) = {}
             /\ \A o \in Obj : o \in Whites(a.n) \/ Content(a.en, o) \cap Whites(a.n) = {}
  BY <1>4, <1>7, AtomicIs
<1>8. /\ a \in Snapshots /\ \A o \in Obj : a.en[o] \subseteq entries[o]
      /\ Darkened(m, a.n) /\ Within(a.n, T)
      /\ Separate(a.ls) /\ Range(a.ls["allgc"]) = In("allgc")
      /\ Range(a.ls["finobj"]) \cup Range(a.ls["tobefnz"]) = HasFinalizer
      /\ ({Main, Reg} \cup Range(a.ls["tobefnz"])) \cap Whites(a.n) = {}
      /\ \A o \in Obj : o \in Whites(a.n) \/ Content(a.en, o) \cap Whites(a.n) = {}
  <2>1. T \in SUBSET Obj /\ {Main, Reg} \cup HasFinalizer \subseteq T
    BY <1>2, <1>5, <1>6
  <2> HIDE DEF T
  <2> QED  BY <2>1, <1>3, <1>7
<1>9. Within(a.n, Obj \ doomed)
  <2>1. {Main, Reg} \cup HasFinalizer \subseteq Obj \ doomed
    BY <1>1, <1>2, <1>5 DEF GarbageAt
  <2> QED  BY <2>1, <1>3, <1>7
<1>10. a.n \in Marks /\ a.en \in Contents
  BY <1>8 DEF Snapshots
<1>11. There(a.ls) = T
  BY <1>5, <1>8 DEF There
<1>12. /\ a.n.color \in [Obj -> Colors] /\ \A o \in Obj : o \in Whites(a.n) <=> IsWhite(a.n.color[o])
  BY <1>10, MarksType
<1>13. Other(white) \in WhiteColors /\ Other(Other(white)) = white
  BY ColorsAre
<1>14. \A o \in T : o \in Whites(a.n) <=> a.n.color[o] = white
  <2>1. \A o \in T : o \in Obj /\ m.color[o] # Other(white)
    BY <1>1, <1>2 DEF MarkingAt
  <2> QED  BY <2>1, <1>2, <1>8, <1>12, ColorsAre DEF Darkened
<1>15. Alive(a.n, a.ls, Other(white)) = T \ Whites(a.n)
  BY <1>11, <1>13, <1>14 DEF Alive
<1>16. Obj \ Whites(a.n) \subseteq T /\ Obj \ Whites(a.n) \subseteq Obj \ doomed
  BY <1>8, <1>9 DEF Within
<1>17. SafeAt(a.en, a.n, a.ls, Other(white))
  <2>1. ASSUME NEW o \in Obj \ There(a.ls) PROVE IsWhite(a.n.color[o]) /\ a.en[o] = {}
    <3>1. entries[o] = {}
      BY <2>1, <1>1, <1>11 DEF SafeAt
    <3> QED  BY <2>1, <3>1, <1>8, <1>11, <1>12, <1>16
  <2>2. {Main, Reg} \cup Range(a.ls["tobefnz"]) \subseteq T \ Whites(a.n)
    BY <1>2, <1>5, <1>6, <1>8
  <2>3. Closed(a.en, T \ Whites(a.n))
    <3>1. ASSUME NEW o \in T \ Whites(a.n) PROVE Content(a.en, o) \subseteq T \ Whites(a.n)
      <4>1. o \in Obj /\ Content(a.en, o) \subseteq Obj
        BY <3>1, <1>2, <1>10, ContentIsObjects DEF Content
      <4>2. Content(a.en, o) \cap Whites(a.n) = {}
        BY <3>1, <4>1, <1>8
      <4> QED  BY <4>1, <4>2, <1>16
    <3> QED  BY <3>1 DEF Closed
  <2> QED  BY <2>1, <2>2, <2>3, <1>15 DEF SafeAt
<1>18. GarbageAt(a.en, a.n, a.ls, Other(white), "swpallgc", doomed)
  <2>1. \A o \in doomed \cap There(a.ls) : a.n.color[o] = Other(Other(white))
    BY <1>2, <1>11, <1>13, <1>14, <1>16
  <2>2. Closed(a.en, Obj \ doomed)
    <3>1. \A o \in Obj : Content(a.en, o) \subseteq Content(entries, o)
      BY <1>8 DEF Content, Keys, Vals
    <3> QED  BY <3>1, <1>3 DEF Closed
  <2>3. ({Main, Reg} \cup Range(a.ls["finobj"]) \cup Range(a.ls["tobefnz"])) \cap doomed = {}
    BY <1>1, <1>5, <1>8 DEF GarbageAt
  <2>4. doomed \subseteq Obj /\ "swpallgc" \notin Keep /\ "swpallgc" \notin Rests
    BY <1>1, StatesAre DEF GarbageAt, Sweeps
  <2> QED  BY <2>1, <2>2, <2>3, <2>4 DEF GarbageAt
<1> QED  BY <1>8, <1>10, <1>13, <1>17, <1>18, SweepBegins

-----------------------------------------------------------------------------
(* Types, whatever state the collector is in.                              *)

\* Traversed while the script goes on, an object leaves marks.
LEMMA EarlyType ==
  ASSUME NEW n \in Marks, NEW en \in Contents, NEW o \in n.gray
  PROVE  Traverse(n, en, o, FALSE) \in Marks
<1> DEFINE gone == Gone(n, o)
<1>0. o \in Obj /\ n.color \in [Obj -> Colors] /\ "black" \in Colors
  BY MarksType DEF Colors
<1>1. gone \in Marks
  BY DEF Marks, Gone
<1>2. GrayAgain(gone, o) \in Marks /\ [gone EXCEPT !.allweak = @ \cup {o}] \in Marks
  BY <1>0, <1>1 DEF Marks, GrayAgain
<1>3. Blackened(gone, o) \in Marks
  BY <1>0, <1>1 DEF Marks, Blackened
<1> HIDE DEF gone
<1>4. \A S : \A b \in Marks : Mark(b, en, S) \in Marks
  BY MarkIs DEF MarkedFrom
<1>5. \A b \in Marks : GrayAgain(b, o) \in Marks
  BY <1>0 DEF Marks, GrayAgain
<1>6. CASE o = Main
  <2>1. Traverse(n, en, o, FALSE) = Mark(GrayAgain(gone, o), en, Vals(en, o))
    BY <1>6, EarlyMain DEF gone
  <2> QED  BY <2>1, <1>2, <1>4
<1>7. CASE o # Main /\ Weak(o, "v")
  <2>1. Traverse(n, en, o, FALSE) = GrayAgain(Mark(gone, en, Keys(en, o) \cup (Vals(en, o) \cap Strings)), o)
    <3>1. Traverse(n, en, o, FALSE) = TraverseWeakValue(gone, en, o, FALSE)
      BY <1>7, EarlyCases DEF gone
    <3> QED  BY <3>1 DEF TraverseWeakValue, GrayAgain
  <2> QED  BY <2>1, <1>1, <1>4, <1>5
<1>8. CASE o # Main /\ Weak(o, "k")
  <2> DEFINE S == {e[2] : e \in en[o] \ {e \in en[o] : Cleared(gone, e[1])}} \cup (Keys(en, o) \cap Strings)
  <2>1. Traverse(n, en, o, FALSE) = GrayAgain(Mark(gone, en, S), o)
    <3>1. Traverse(n, en, o, FALSE) = TraverseEphemeron(gone, en, o, FALSE)
      BY <1>8, EarlyCases DEF gone
    <3> QED  BY <3>1 DEF TraverseEphemeron, GrayAgain
  <2> HIDE DEF S
  <2> QED  BY <2>1, <1>1, <1>4, <1>5
<1>9. CASE o # Main /\ Weak(o, "kv")
  <2>1. Traverse(n, en, o, FALSE) = [gone EXCEPT !.allweak = @ \cup {o}]
    BY <1>9, EarlyCases, ZenonT(30) DEF gone
  <2> QED  BY <2>1, <1>2
<1>10. CASE o # Main /\ ~(Weak(o, "v") \/ Weak(o, "k") \/ Weak(o, "kv"))
  <2>1. Traverse(n, en, o, FALSE) = Mark(Blackened(gone, o), en, Keys(en, o) \cup Vals(en, o))
    BY <1>10, EarlyOther DEF gone
  <2> QED  BY <2>1, <1>3, <1>4
<1> QED  BY <1>6, <1>7, <1>8, <1>9, <1>10

\* atomic leaves marks, content and lists.
LEMMA AtomicType ==
  ASSUME m \in Marks, entries \in Contents, Separate(list)
  PROVE  LET c == ClearRest(Resurrect(ClearValues(Marked(m, entries))))
         IN  c.n \in Marks /\ c.en \in Contents /\ Separate(c.ls)
<1>1. \A S : \A b \in Marks, en \in Contents : Mark(b, en, S) \in Marks
  BY MarkIs DEF MarkedFrom
<1>2. \A b \in Marks, en \in Contents : PropagateAll(b, en) \in Marks
  BY PropagateAllAdvances
<1>3. \A b \in Marks, en \in Contents : ConvergeEphemerons(b, en) \in Marks
  BY ConvergeIs
<1>4. Marked(m, entries) \in Marks
  <2> DEFINE n1 == PropagateAll(Mark(m, entries, {Main, Reg}), entries)
             y == [n1 EXCEPT !.gray = n1.grayagain, !.grayagain = {}]
  <2>1. n1 \in Marks
    BY <1>1, <1>2
  <2> HIDE DEF n1
  <2>2. y \in Marks
    BY <2>1 DEF Marks
  <2> HIDE DEF y
  <2>3. ConvergeEphemerons(PropagateAll(y, entries), entries) \in Marks
    BY <2>2, <1>2, <1>3
  <2> QED  BY <2>3 DEF Marked, y, n1
<1> DEFINE r == Marked(m, entries)
           a == [n |-> r, en |-> entries, ls |-> list, weak |-> r.weak, allweak |-> r.allweak]
           b == Clear(a, r.weak \cup r.allweak, 2)
           d == Resurrect(b)
           S == d.n.ephemeron \cup d.n.allweak
           f == Clear(d, S, 1)
           T == (d.n.weak \ d.weak) \cup (d.n.allweak \ d.allweak)
           c == Clear(f, T, 2)
<1>5. ClearValues(r) = b /\ ClearRest(d) = c
  BY DEF ClearValues, ClearRest
<1> HIDE DEF r
<1>6. r \in Marks
  BY <1>4 DEF r
<1>7. a \in Snapshots /\ a.ls = list
  <2>1. list \in [Lists -> Seq(Obj)]
    BY DEF Separate
  <2> QED  BY <1>6, <2>1, MarksType DEF Snapshots
<1> HIDE DEF a
<1>8. b \in Snapshots /\ b.ls = list
  <2>1. r.weak \cup r.allweak \in SUBSET Obj
    BY <1>6, MarksType
  <2>2. ClearedFrom(a, b, r.weak \cup r.allweak, 2)
    BY <1>7, <2>1, ClearIs
  <2> HIDE DEF b
  <2> QED  BY <1>7, <2>2 DEF ClearedFrom
<1> HIDE DEF b
<1>9. d \in Snapshots /\ Separate(d.ls)
  <2> DEFINE ls == [b.ls EXCEPT !["finobj"] = Kept(@, Obj \ Whites(b.n)),
                                !["tobefnz"] = @ \o Kept(b.ls["finobj"], Whites(b.n))]
             Z == Range(ls["tobefnz"])
             z == ConvergeEphemerons(PropagateAll(Mark(b.n, b.en, Z), b.en), b.en)
             q == [b EXCEPT !.ls = ls, !.n = z]
  <2>1. /\ b.n \in Marks /\ b.en \in Contents
        /\ b = [n |-> b.n, en |-> b.en, ls |-> b.ls, weak |-> b.weak, allweak |-> b.allweak]
        /\ b.weak \in SUBSET Obj /\ b.allweak \in SUBSET Obj
    BY <1>8 DEF Snapshots
  <2>2. Whites(b.n) \in SUBSET Obj
    BY <2>1, MarksType
  <2>3. Separate(ls)
    BY <1>8, <2>2, Separated
  <2>4. d = q
    BY <2>1 DEF Resurrect
  <2> HIDE DEF ls, d
  <2> HIDE DEF Z
  <2>5. z \in Marks
    BY <2>1, <1>1, <1>2, <1>3
  <2> HIDE DEF z
  <2>6. ls \in [Lists -> Seq(Obj)]
    BY <2>3 DEF Separate
  <2>7. q \in Snapshots /\ q.ls = ls
    BY <2>1, <2>5, <2>6 DEF Snapshots
  <2> QED  BY <2>3, <2>4, <2>7
<1> HIDE DEF d
<1>10. S \in SUBSET Obj /\ T \in SUBSET Obj
  <2>1. d.n \in Marks
    BY <1>9 DEF Snapshots
  <2> QED  BY <2>1, MarksType
<1> HIDE DEF S
<1>11. f \in Snapshots /\ f.ls = d.ls
  <2>1. ClearedFrom(d, f, S, 1)
    BY <1>9, <1>10, ClearIs
  <2> HIDE DEF f
  <2> QED  BY <2>1 DEF ClearedFrom
<1> HIDE DEF f, T
<1>12. c \in Snapshots /\ c.ls = d.ls
  <2>1. ClearedFrom(f, c, T, 2)
    BY <1>10, <1>11, ClearIs
  <2> HIDE DEF c
  <2> QED  BY <1>11, <2>1 DEF ClearedFrom
<1> HIDE DEF c
<1>13. c.n \in Marks /\ c.en \in Contents /\ Separate(c.ls)
  BY <1>9, <1>12 DEF Snapshots
<1> QED  BY <1>5, <1>13 DEF c, d, b, r, a, f, S, T

\* A sweep leaves colours and lists, and its place is in the list that it swept.
LEMMA SweptType ==
  ASSUME NEW en \in Contents, NEW n \in Marks, NEW ls, Separate(ls), NEW l \in Lists, NEW p,
         NEW w \in WhiteColors, NEW s, NEW B, SweptFrom(s, B, l, p, ls, n.color, w)
  PROVE  /\ [n EXCEPT !.color = s.color] \in Marks /\ Free(en, s.freed) \in Contents /\ Separate(s.list)
         /\ s.p = None \/ Into(s.p, s.list, l)
<1>1. n.color \in [Obj -> Colors]
  BY MarksType
<1>2. s.color = [o \in Obj |-> IF o \in B \ s.freed THEN w ELSE n.color[o]]
  BY DEF SweptFrom
<1>3. s.color \in [Obj -> Colors]
  BY <1>1, <1>2 DEF WhiteColors, Colors
<1>4. [n EXCEPT !.color = s.color] \in Marks
  BY <1>3 DEF Marks
<1>5. Free(en, s.freed) \in Contents
  BY FreeIs
<1> QED  BY <1>4, <1>5 DEF SweptFrom

\* The outcome of a sweep is a record.
LEMMA SweepRecord ==
  ASSUME NEW p, NEW k, NEW ls, NEW col, NEW w
  PROVE  /\ LET s == SweepList(p, k, ls, col, w)
            IN  s = [list |-> s.list, color |-> s.color, freed |-> s.freed, p |-> s.p]
         /\ LET s == SweepToLive(p, ls, col, w)
            IN  s = [list |-> s.list, color |-> s.color, freed |-> s.freed, p |-> s.p]
<1>1. ASSUME NEW j
      PROVE  LET s == SweepList(p, j, ls, col, w)
             IN  s = [list |-> s.list, color |-> s.color, freed |-> s.freed, p |-> s.p]
  BY DEF SweepList
<1>2. \E j : SweepToLive(p, ls, col, w) = SweepList(p, j, ls, col, w)
  BY DEF SweepToLive
<1> QED  BY <1>1, <1>2

-----------------------------------------------------------------------------
(* The invariant of the specification: types always, the rest until a      *)
(* finalizer overtakes the sweep.                                          *)

TypeInv ==
  /\ entries \in Contents /\ m \in Marks /\ Separate(list)
  /\ mode \in [Tables \cup {Reg} -> {"", "k", "v", "kv"}]
  /\ white \in WhiteColors /\ gcstate \in States /\ overtaken \in BOOLEAN
  /\ \/ sweepgc = None
     \/ gcstate \in {"swpallgc", "swpfinobj", "swptobefnz"} /\ \E l \in Lists : Into(sweepgc, list, l)

GoodNow == Good(entries, m, list, white, gcstate, sweepgc, doomed, mode)

Inv == TypeInv /\ (~overtaken => GoodNow)

\* The model's abbreviations in the words of the invariant.
LEMMA NowIs ==
  ASSUME TypeInv
  PROVE  /\ Allocated = There(list) /\ HasFinalizer = Range(list["finobj"]) \cup Range(list["tobefnz"])
         /\ In("tobefnz") = Range(list["tobefnz"])
         /\ Sweeping <=> gcstate \in Sweeps
         /\ KeepInvariant <=> gcstate \in Keep
         /\ Held \subseteq Obj /\ Main \in Obj /\ Main \notin Held \cap (Tables \cup Userdata \cup Closures \cup Strings)
         /\ There(list) \subseteq Obj
<1>1. Allocated = There(list)
  <2>1. \A x : x \in UNION {In(l) : l \in Lists} <=> \E l \in Lists : x \in Range(list[l])
    BY DEF In
  <2>2. Lists = {"allgc", "finobj", "tobefnz"}
    BY DEF Lists
  <2>3. \A x : x \in UNION {In(l) : l \in Lists}
                 <=> x \in Range(list["allgc"]) \cup Range(list["finobj"]) \cup Range(list["tobefnz"])
    BY <2>1, <2>2
  <2> QED  BY <2>3 DEF Allocated, There
<1>2. Held \subseteq Obj
  <2>1. Vals(entries, Main) \subseteq Obj
    BY Kinds, ContentIsObjects DEF TypeInv
  <2> QED  BY <2>1, Kinds DEF Held
<1>3. There(list) \subseteq Obj
  BY ThereIs DEF TypeInv
<1>4. HasFinalizer = Range(list["finobj"]) \cup Range(list["tobefnz"]) /\ In("tobefnz") = Range(list["tobefnz"])
  BY DEF HasFinalizer, In
<1> QED  BY <1>1, <1>2, <1>3, <1>4, Kinds DEF Sweeping, Sweeps, KeepInvariant, Keep

\* What the script holds lives on and is not doomed.
LEMMA HeldIs ==
  ASSUME TypeInv, GoodNow
  PROVE  Held \subseteq Alive(m, list, white) \ doomed /\ Main \in Alive(m, list, white) \ doomed
<1> DEFINE A == Alive(m, list, white)
<1>1. {Main, Reg} \subseteq A /\ {Main, Reg} \cap doomed = {} /\ Closed(entries, A) /\ Closed(entries, Obj \ doomed)
  BY DEF GoodNow, Good, SafeAt, GarbageAt
<1>2. Content(entries, Main) \subseteq A /\ Content(entries, Main) \subseteq Obj \ doomed
  BY <1>1, Kinds DEF Closed
<1> HIDE DEF A
<1>3. Held \subseteq A \ doomed
  BY <1>1, <1>2 DEF Held, Content
<1> QED  BY <1>1, <1>3 DEF A

\* A list of some of the objects is a list of objects, and all that is in it is some of them.
LEMMA SomeList ==
  ASSUME NEW S, S \subseteq Obj, NEW s \in Seq(S)
  PROVE  s \in Seq(Obj) /\ \A x \in Range(s) : x \in S
<1>1. DOMAIN s = 1..Len(s) /\ Len(s) \in Nat /\ \A i \in 1..Len(s) : s[i] \in S
  OBVIOUS
<1>2. s = [i \in 1..Len(s) |-> s[i]]
  OBVIOUS
<1>3. s \in [1..Len(s) -> Obj]
  BY <1>1, <1>2
<1>4. s \in Seq(Obj)
  BY <1>1, <1>3
<1> QED  BY <1>1, <1>4 DEF Range

\* A heap between two cycles satisfies it.
LEMMA InitGood ==
  ASSUME Init
  PROVE  Inv
<1>1. PICK h \in Heaps :
        /\ entries = h.entries
        /\ mode = h.mode
        /\ list = [l \in Lists |-> IF l = "allgc" THEN Append(h.allgc, Reg)
                                  ELSE IF l = "finobj" THEN h.finobj ELSE <<>>]
  BY DEF Init
<1> DEFINE there == {Main, Reg} \cup Range(h.allgc) \cup Range(h.finobj)
<1>2. /\ h.entries \in [Obj -> SUBSET ((there \cup {Plain}) \X (there \cup {Plain}))]
      /\ \A o \in {Main} \cup Userdata : \A e \in h.entries[o] : e[1] = Plain
      /\ \A o \in Strings \cup (Obj \ there) : h.entries[o] = {}
      /\ h.mode \in [Tables \cup {Reg} -> {"", "k", "v", "kv"}]
      /\ h.allgc \in Seq(Obj \ {Main, Reg}) /\ h.finobj \in Seq(Tables \cup Userdata)
      /\ IsInjective(h.allgc) /\ IsInjective(h.finobj)
      /\ Range(h.allgc) \cap Range(h.finobj) = {}
  BY HeapsAssumption
<1>3. /\ m = [color |-> [o \in Obj |-> "white0"],
              gray |-> {}, grayagain |-> {}, weak |-> {}, ephemeron |-> {}, allweak |-> {}]
      /\ white = "white0" /\ gcstate = "pause" /\ sweepgc = None /\ doomed = {} /\ overtaken = FALSE
  BY DEF Init
<1>a. Obj \ {Main, Reg} \subseteq Obj /\ Tables \cup Userdata \subseteq Obj /\ Reg \in Obj
      /\ Main \notin Tables \cup Userdata /\ Reg \notin Tables \cup Userdata /\ Main # Reg
  BY Kinds
<1>b. h.allgc \in Seq(Obj) /\ \A x \in Range(h.allgc) : x \in Obj \ {Main, Reg}
  BY <1>2, <1>a, SomeList
<1>c. h.finobj \in Seq(Obj) /\ \A x \in Range(h.finobj) : x \in Tables \cup Userdata
  BY <1>2, <1>a, SomeList
<1>4. h.allgc \in Seq(Obj) /\ h.finobj \in Seq(Obj) /\ <<Reg>> \in Seq(Obj) /\ <<>> \in Seq(Obj)
  BY <1>a, <1>b, <1>c
<1>5. Append(h.allgc, Reg) = h.allgc \o <<Reg>>
  BY <1>4, SMTT(30)
<1>6. Reg \notin Range(h.allgc) /\ Main \notin Range(h.allgc) /\ {Main, Reg} \cap Range(h.finobj) = {}
  BY <1>a, <1>b, <1>c
<1>7. /\ h.allgc \o <<Reg>> \in Seq(Obj) /\ Range(h.allgc \o <<Reg>>) = Range(h.allgc) \cup {Reg}
      /\ \A x : ~After(h.allgc \o <<Reg>>, x, x)
  <2>1. <<Reg>> \in Seq(Obj) /\ Range(<<Reg>>) = {Reg} /\ \A x, y : ~After(<<Reg>>, x, y)
    BY OneIs, Kinds
  <2>2. \A x : ~After(h.allgc, x, x)
    BY <1>2, <1>4, ListIs
  <2>3. /\ h.allgc \o <<Reg>> \in Seq(Obj)
        /\ Range(h.allgc \o <<Reg>>) = Range(h.allgc) \cup Range(<<Reg>>)
        /\ \A x, y : After(h.allgc \o <<Reg>>, x, y) <=> \/ After(h.allgc, x, y) \/ After(<<Reg>>, x, y)
                                                        \/ (x \in Range(h.allgc) /\ y \in Range(<<Reg>>))
    <3> DEFINE s == h.allgc
               t == <<Reg>>
    <3>1. s \in Seq(Obj) /\ t \in Seq(Obj)
      BY <1>4
    <3> HIDE DEF s, t
    <3>2. /\ s \o t \in Seq(Obj) /\ Range(s \o t) = Range(s) \cup Range(t)
          /\ \A x, y : After(s \o t, x, y) <=> \/ After(s, x, y) \/ After(t, x, y)
                                               \/ (x \in Range(s) /\ y \in Range(t))
      BY <3>1, JoinedIs
    <3> QED  BY <3>2 DEF s, t
  <2> QED  BY <2>1, <2>2, <2>3, <1>6
<1>8. Range(<<>>) = {} /\ \A x : ~After(<<>>, x, x)
  <2>1. <<>> \in Seq(Obj) /\ Len(<<>>) = 0
    OBVIOUS
  <2>2. \A i \in 1..Len(<<>>) : FALSE
    BY <2>1
  <2> HIDE DEF there
  <2> QED  BY <2>1, <2>2, ListIs DEF After
<1>9. \A x : ~After(h.finobj, x, x)
  BY <1>2, <1>4, ListIs
<1>10. /\ "allgc" \in Lists /\ "finobj" \in Lists /\ "tobefnz" \in Lists
       /\ \A l \in Lists : l = "allgc" \/ l = "finobj" \/ l = "tobefnz"
  BY DEF Lists
<1>11. list["allgc"] = h.allgc \o <<Reg>> /\ list["finobj"] = h.finobj /\ list["tobefnz"] = <<>>
  BY <1>1, <1>5, <1>10
<1>12. Separate(list)
  <2>1. list \in [Lists -> Seq(Obj)]
    BY <1>1, <1>4, <1>5, <1>7
  <2>2. Range(list["allgc"]) = Range(h.allgc) \cup {Reg} /\ Range(list["finobj"]) = Range(h.finobj) /\ Range(list["tobefnz"]) = {}
    BY <1>7, <1>8, <1>11
  <2>3. \A l \in Lists : Main \notin Range(list[l]) /\ \A x : ~After(list[l], x, x)
    BY <2>2, <1>6, <1>7, <1>8, <1>9, <1>10, <1>11, Kinds, ZenonT(30)
  <2>4. \A k, l \in Lists : k # l => Range(list[k]) \cap Range(list[l]) = {}
    BY <2>2, <1>2, <1>6, <1>10
  <2> QED  BY <2>1, <2>3, <2>4 DEF Separate
<1>13. There(list) = there /\ there \subseteq Obj
  <2>1. Range(list["allgc"]) = Range(h.allgc) \cup {Reg} /\ Range(list["finobj"]) = Range(h.finobj)
        /\ Range(list["tobefnz"]) = {}
    BY <1>7, <1>8, <1>11
  <2> QED  BY <2>1, <1>12, ThereIs DEF There
<1>14. entries \in Contents
  <2>1. entries \in [Obj -> SUBSET (Value \X Value)]
    <3>1. there \cup {Plain} \subseteq Value
      BY <1>13 DEF Value
    <3> HIDE DEF there
    <3>2. SUBSET ((there \cup {Plain}) \X (there \cup {Plain})) \subseteq SUBSET (Value \X Value)
      BY <3>1
    <3> QED  BY <1>1, <1>2, <3>2
  <2>2. \A o \in {Main} \cup Userdata : \A e \in entries[o] : e[1] = Plain
    BY <1>1, <1>2
  <2>3. \A o \in Strings : entries[o] = {}
    BY <1>1, <1>2
  <2> QED  BY <2>1, <2>2, <2>3 DEF Contents
<1>15. m \in Marks /\ \A o \in Obj : m.color[o] = "white0"
  BY <1>3 DEF Marks, Colors
<1>16. white \in WhiteColors /\ gcstate \in States /\ gcstate \in Rests /\ gcstate \notin Sweeps /\ gcstate \notin Keep
  BY <1>3, StatesAre DEF WhiteColors, States, Rests
<1>17. TypeInv
  BY <1>1, <1>2, <1>3, <1>12, <1>14, <1>15, <1>16 DEF TypeInv
<1>18. Alive(m, list, white) = there
  BY <1>3, <1>13, <1>15, <1>16, ColorsAre DEF Alive
<1>19. \A o \in there : Content(entries, o) \subseteq there
  <2>1. ASSUME NEW o \in there, NEW e \in entries[o] PROVE e[1] \in there \cup {Plain} /\ e[2] \in there \cup {Plain}
    <3>1. e \in (there \cup {Plain}) \X (there \cup {Plain})
      BY <2>1, <1>1, <1>2, <1>13
    <3> HIDE DEF there
    <3> QED  BY <3>1
  <2> HIDE DEF there
  <2> QED  BY <2>1 DEF Content, Keys, Vals
<1>20. SafeAt(entries, m, list, white)
  <2>1. \A o \in Obj \ there : IsWhite(m.color[o]) /\ entries[o] = {}
    BY <1>1, <1>2, <1>15 DEF IsWhite
  <2>2. {Main, Reg} \cup Range(list["tobefnz"]) \subseteq there
    BY <1>8, <1>11
  <2> HIDE DEF there
  <2> QED  BY <2>1, <2>2, <1>13, <1>18, <1>19 DEF SafeAt, Closed
<1>21. SweepAt(m, list, white, gcstate, sweepgc)
  BY <1>3, <1>13, <1>15, <1>16 DEF SweepAt
<1>22. GarbageAt(entries, m, list, white, gcstate, doomed)
  BY <1>3, <1>14, <1>16, ContentIsObjects DEF GarbageAt, Closed, Content
<1> QED  BY <1>3, <1>16, <1>17, <1>20, <1>21, <1>22 DEF Inv, GoodNow, Good

-----------------------------------------------------------------------------
(* The script.                                                             *)

\* A write to an object that the script holds: its content, and colours, change.
Writes(t, X) ==
  /\ entries' \in Contents /\ m' \in Marks
  /\ UNCHANGED <<mode, list, white, gcstate, sweepgc, doomed, overtaken>>
  /\ t \in Obj /\ \A o \in Obj : o # t => entries'[o] = entries[o]
  /\ Content(entries', t) \subseteq Content(entries, t) \cup X

\* The content of an object that is no string is replaced.
LEMMA EntrySet ==
  ASSUME NEW en \in Contents, NEW t \in Obj, t \notin Strings, NEW E, E \subseteq Value \X Value,
         t \in {Main} \cup Userdata => \A e \in E : e[1] = Plain
  PROVE  /\ [en EXCEPT ![t] = E] \in Contents
         /\ [en EXCEPT ![t] = E][t] = E /\ \A o \in Obj : o # t => [en EXCEPT ![t] = E][o] = en[o]
<1> DEFINE ed == [en EXCEPT ![t] = E]
<1>1. en \in [Obj -> SUBSET (Value \X Value)]
  BY DEF Contents
<1>2. ed \in [Obj -> SUBSET (Value \X Value)] /\ ed[t] = E /\ \A o \in Obj : o # t => ed[o] = en[o]
  BY <1>1
<1> HIDE DEF ed
<1>3. \A o \in {Main} \cup Userdata : \A e \in ed[o] : e[1] = Plain
  BY <1>2, Kinds DEF Contents
<1>4. \A o \in Strings : ed[o] = {}
  BY <1>2, Kinds DEF Contents
<1>5. ed \in Contents
  BY <1>2, <1>3, <1>4 DEF Contents
<1> QED  BY <1>2, <1>5 DEF ed

\* A pair that the stack or a userdata may hold.
LEMMA PairIs ==
  ASSUME NEW v \in Obj
  PROVE  {<<Plain, v>>} \subseteq Value \X Value /\ \A f \in {<<Plain, v>>} : f[1] = Plain
BY DEF Value

\* The script pushes an object.
LEMMA PushIs ==
  ASSUME NEW en \in Contents, NEW o \in Obj
  PROVE  /\ Push(en, o) \in Contents
         /\ Push(en, o)[Main] = en[Main] \cup {<<Plain, o>>}
         /\ \A x \in Obj : x # Main => Push(en, o)[x] = en[x]
         /\ Content(Push(en, o), Main) \subseteq Content(en, Main) \cup {o}
<1> DEFINE E == en[Main] \cup {<<Plain, o>>}
<1>1. Main \in Obj /\ Main \notin Strings /\ en \in [Obj -> SUBSET (Value \X Value)] /\ \A f \in en[Main] : f[1] = Plain
  BY Kinds DEF Contents
<1>2. {<<Plain, o>>} \subseteq Value \X Value /\ \A f \in {<<Plain, o>>} : f[1] = Plain
  BY PairIs
<1>3. E \subseteq Value \X Value /\ \A f \in E : f[1] = Plain
  BY <1>1, <1>2
<1>4. Push(en, o) = [en EXCEPT ![Main] = E]
  BY DEF Push
<1> HIDE DEF E
<1>5. Push(en, o) \in Contents /\ Push(en, o)[Main] = E /\ \A x \in Obj : x # Main => Push(en, o)[x] = en[x]
  <2>1. Main \in {Main} \cup Userdata => \A f \in E : f[1] = Plain
    BY <1>3
  <2>2. E \subseteq Value \X Value
    BY <1>3
  <2>3. /\ [en EXCEPT ![Main] = E] \in Contents
        /\ [en EXCEPT ![Main] = E][Main] = E /\ \A x \in Obj : x # Main => [en EXCEPT ![Main] = E][x] = en[x]
    BY <1>1, <2>1, <2>2, EntrySet
  <2> HIDE DEF Push
  <2> QED  BY <1>4, <2>3
<1>6. Content(Push(en, o), Main) \subseteq Content(en, Main) \cup {o}
  BY <1>5 DEF E, Content, Keys, Vals
<1> QED  BY <1>5, <1>6 DEF E

\* An object gets the current white.
LEMMA WhiteSet ==
  ASSUME NEW c \in [Obj -> Colors], NEW o \in Obj, NEW w \in WhiteColors
  PROVE  /\ [c EXCEPT ![o] = w] \in [Obj -> Colors]
         /\ [c EXCEPT ![o] = w][o] = w /\ \A x \in Obj \ {o} : [c EXCEPT ![o] = w][x] = c[x]
BY DEF WhiteColors, Colors

\* Types survive such a write.
LEMMA WritesType ==
  ASSUME TypeInv, NEW t, NEW X, Writes(t, X)
  PROVE  TypeInv'
BY DEF TypeInv, Writes

\* The invariant survives it, when marking does.
LEMMA WritesGood ==
  ASSUME TypeInv, GoodNow, NEW t, NEW X, Writes(t, X),
         t \in Alive(m, list, white) \ doomed, X \subseteq Alive(m, list, white) \ doomed,
         Recoloured(m, m', list, white, gcstate, doomed),
         gcstate \in Keep => MarkingAt(entries', m', list, white, mode)
  PROVE  GoodNow'
<1>1. Good(entries', m', list, white, gcstate, sweepgc, doomed, mode)
  BY Written DEF TypeInv, GoodNow, Writes
<1> QED  BY <1>1 DEF GoodNow, Writes

\* A write that leaves the marks alone.
LEMMA WritesPlainly ==
  ASSUME Inv, NEW t, NEW X, Writes(t, X), m' = m,
         ~overtaken => t \in Alive(m, list, white) \ doomed /\ X \subseteq Alive(m, list, white) \ doomed,
         gcstate \in Keep /\ m.color[t] = "black" => X \cap Whites(m) = {}
  PROVE  Inv'
<1>1. TypeInv'
  BY WritesType DEF Inv
<1>2. ASSUME ~overtaken PROVE GoodNow'
  <2>1. TypeInv /\ GoodNow
    BY <1>2 DEF Inv
  <2>2. Recoloured(m, m', list, white, gcstate, doomed)
    BY DEF Recoloured
  <2>3. ASSUME gcstate \in Keep PROVE MarkingAt(entries', m', list, white, mode)
    <3>1. MarkingAt(entries, m, list, white, mode)
      BY <2>1, <2>3 DEF GoodNow, Good
    <3>2. m.color[t] = "black" => Content(entries', t) \cap Whites(m) = {}
      BY <2>3, <3>1 DEF MarkingAt, Writes
    <3>3. MarkingAt(entries', m, list, white, mode)
      BY <3>1, <3>2, WrittenMarked DEF Writes
    <3> QED  BY <3>3
  <2> QED  BY <1>2, <2>1, <2>2, <2>3, WritesGood
<1>3. overtaken' = overtaken
  BY DEF Writes
<1> QED  BY <1>1, <1>2, <1>3 DEF Inv

\* t[k] = v, with the barrier back.
LEMMA SetTableKeeps ==
  ASSUME Inv, NEW t \in Held, NEW k \in Held \cup {Plain}, NEW v \in Held \cup {Plain}, SetTable(t, k, v)
  PROVE  Inv'
<1> DEFINE others == {e \in entries[t] : e[1] # k}
           X == {k, v} \ {Plain}
<1>1. TypeInv
  BY DEF Inv
<1>2. /\ entries' = [entries EXCEPT ![t] = others \cup {<<k, v>>}] /\ m' = BarrierBack(t, {k, v})
      /\ UNCHANGED <<mode, list, white, gcstate, sweepgc, doomed, overtaken>> /\ IsTable(t)
  BY DEF SetTable, Operation
<1>3. t \in Obj /\ Held \subseteq Obj /\ t \notin {Main} \cup Userdata \cup Strings
  BY <1>1, <1>2, NowIs, Kinds DEF IsTable
<1>4. entries \in [Obj -> SUBSET (Value \X Value)] /\ m.color \in [Obj -> Colors]
  BY <1>1, MarksType DEF TypeInv, Contents
<1>5. others \subseteq entries[t] /\ <<k, v>> \in Value \X Value
  BY <1>3 DEF Value
<1> HIDE DEF others
<1>6. entries' \in Contents
  <2>1. others \cup {<<k, v>>} \subseteq Value \X Value
    BY <1>3, <1>4, <1>5
  <2>2. entries \in Contents
    BY <1>1 DEF TypeInv
  <2> QED  BY <1>2, <1>3, <2>1, <2>2, EntrySet
<1>7. Content(entries', t) \subseteq Content(entries, t) \cup X
  <2>1. entries'[t] = others \cup {<<k, v>>}
    BY <1>2, <1>3, <1>4
  <2> QED  BY <2>1, <1>5 DEF Content, Keys, Vals
<1>8. \A o \in Obj : o # t => entries'[o] = entries[o]
  BY <1>2, <1>4
<1>9. X \subseteq Held
  OBVIOUS
<1>10. X \cap Whites(m) = {k, v} \cap Whites(m)
  <2>1. Plain \notin Whites(m)
    BY <1>1, MarksType, Kinds DEF TypeInv
  <2> QED  BY <2>1
<1> HIDE DEF X
<1>11. CASE ~(m.color[t] = "black" /\ {k, v} \cap Whites(m) # {})
  <2>1. m' = m
    BY <1>2, <1>11 DEF BarrierBack
  <2>2. Writes(t, X)
    BY <1>1, <1>2, <1>3, <1>6, <1>7, <1>8, <2>1 DEF Writes, TypeInv
  <2>3. ~overtaken => t \in Alive(m, list, white) \ doomed /\ X \subseteq Alive(m, list, white) \ doomed
    BY <1>1, <1>9, HeldIs DEF Inv
  <2> QED  BY <1>10, <1>11, <2>1, <2>2, <2>3, WritesPlainly
<1>12. CASE m.color[t] = "black" /\ {k, v} \cap Whites(m) # {}
  <2>1. m' = [m EXCEPT !.color[t] = "gray", !.grayagain = @ \cup {t}]
    BY <1>2, <1>12 DEF BarrierBack
  <2>2. m' \in Marks /\ m'.color = [m.color EXCEPT ![t] = "gray"]
    <3>1. [m.color EXCEPT ![t] = "gray"] \in [Obj -> Colors]
      BY <1>3, <1>4 DEF Colors
    <3> QED  BY <2>1, <3>1, <1>1, <1>3 DEF Marks, TypeInv
  <2>3. Writes(t, X)
    BY <1>2, <1>3, <1>6, <1>7, <1>8, <2>2 DEF Writes
  <2>4. TypeInv'
    BY <1>1, <2>3, WritesType
  <2>5. ASSUME ~overtaken PROVE GoodNow'
    <3>1. GoodNow /\ t \in Alive(m, list, white) \ doomed /\ X \subseteq Alive(m, list, white) \ doomed
      BY <1>1, <1>9, <2>5, HeldIs DEF Inv
    <3>2. Recoloured(m, m', list, white, gcstate, doomed)
      <4>1. \A o \in Obj : m'.color[o] = IF o = t THEN "gray" ELSE m.color[o]
        BY <1>3, <1>4, <2>2
      <4> QED  BY <3>1, <4>1, <1>12 DEF Recoloured
    <3>3. ASSUME gcstate \in Keep PROVE MarkingAt(entries', m', list, white, mode)
      <4>1. MarkingAt(entries, m, list, white, mode)
        BY <3>1, <3>3 DEF GoodNow, Good
      <4>2. MarkingAt(entries', [m EXCEPT !.color[t] = "gray", !.grayagain = @ \cup {t}], list, white, mode)
        BY <1>1, <1>3, <1>8, <1>12, <4>1, WrittenBack DEF TypeInv
      <4> QED  BY <2>1, <4>2
    <3> QED  BY <1>1, <2>3, <3>1, <3>2, <3>3, WritesGood
  <2> QED  BY <1>2, <2>4, <2>5 DEF Inv
<1> QED  BY <1>11, <1>12

\* t[k] = nil.
LEMMA UnsetKeeps ==
  ASSUME Inv, NEW o \in Held, NEW e \in entries[o], Unset(o, e)
  PROVE  Inv'
<1>1. TypeInv
  BY DEF Inv
<1>2. /\ entries' = [entries EXCEPT ![o] = @ \ {e}] /\ m' = m
      /\ UNCHANGED <<mode, list, white, gcstate, sweepgc, doomed, overtaken>>
  BY DEF Unset, Operation
<1>a. IsTable(o)
  BY DEF Unset
<1>3. o \in Obj /\ entries \in [Obj -> SUBSET (Value \X Value)] /\ o \notin {Main} \cup Userdata \cup Strings
  BY <1>1, <1>a, NowIs, Kinds DEF TypeInv, Contents, IsTable
<1>4. entries' \in Contents
  <2>1. entries[o] \ {e} \subseteq Value \X Value /\ entries \in Contents
    BY <1>1, <1>3 DEF TypeInv
  <2> QED  BY <1>2, <1>3, <2>1, EntrySet
<1>5. Content(entries', o) \subseteq Content(entries, o) \cup {}
  BY <1>2, <1>3 DEF Content, Keys, Vals
<1>6. Writes(o, {})
  BY <1>1, <1>2, <1>3, <1>4, <1>5 DEF Writes, TypeInv
<1>7. ~overtaken => o \in Alive(m, list, white) \ doomed
  BY <1>1, HeldIs DEF Inv
<1> QED  BY <1>2, <1>6, <1>7, WritesPlainly

\* What is read goes on the stack.
LEMMA GetKeeps ==
  ASSUME Inv, NEW o \in Held, NEW e \in entries[o], Get(o, e)
  PROVE  Inv'
<1> DEFINE new == {<<Plain, e[1]>>, <<Plain, e[2]>>} \ {<<Plain, Plain>>}
<1>1. TypeInv
  BY DEF Inv
<1>2. /\ entries' = [entries EXCEPT ![Main] = @ \cup new] /\ m' = m
      /\ UNCHANGED <<mode, list, white, gcstate, sweepgc, doomed, overtaken>>
  BY DEF Get, Operation
<1>3. o \in Obj /\ Main \in Obj /\ entries \in [Obj -> SUBSET (Value \X Value)] /\ Main \notin Strings
  BY <1>1, NowIs, Kinds DEF TypeInv, Contents
<1>4. new \subseteq Value \X Value /\ \A f \in new : f[1] = Plain /\ f[2] \in {e[1], e[2]}
  <2>1. e \in Value \X Value
    BY <1>3
  <2> QED  BY <2>1 DEF Value
<1> HIDE DEF new
<1>5. entries' \in Contents
  <2>1. entries \in Contents /\ \A f \in entries[Main] : f[1] = Plain
    BY <1>1 DEF TypeInv, Contents
  <2>2. /\ entries[Main] \cup new \subseteq Value \X Value
        /\ \A f \in entries[Main] \cup new : f[1] = Plain
    BY <1>3, <1>4, <2>1
  <2> QED  BY <1>2, <1>3, <2>1, <2>2, EntrySet
<1>6. Content(entries', Main) \subseteq Content(entries, Main) \cup Content(entries, o)
  <2>1. entries'[Main] = entries[Main] \cup new
    BY <1>2, <1>3
  <2> QED  BY <2>1, <1>4 DEF Content, Keys, Vals
<1>7. Writes(Main, Content(entries, o))
  BY <1>1, <1>2, <1>3, <1>5, <1>6 DEF Writes, TypeInv
<1>8. ASSUME ~overtaken
      PROVE  /\ Main \in Alive(m, list, white) \ doomed /\ Content(entries, o) \subseteq Alive(m, list, white) \ doomed
             /\ gcstate \in Keep => m.color[Main] # "black"
  <2>1. GoodNow /\ o \in Alive(m, list, white) \ doomed /\ Main \in Alive(m, list, white) \ doomed
    BY <1>1, <1>8, HeldIs DEF Inv
  <2>2. Closed(entries, Alive(m, list, white)) /\ Closed(entries, Obj \ doomed)
    BY <2>1 DEF GoodNow, Good, SafeAt, GarbageAt
  <2>3. Content(entries, o) \subseteq Alive(m, list, white) /\ Content(entries, o) \subseteq Obj \ doomed
    BY <2>1, <2>2, <1>3 DEF Closed
  <2>4. gcstate \in Keep => m.color[Main] # "black"
    BY <2>1 DEF GoodNow, Good, MarkingAt
  <2> QED  BY <2>1, <2>3, <2>4
<1>9. CASE ~overtaken
  BY <1>2, <1>7, <1>8, <1>9, WritesPlainly
<1>10. CASE overtaken
  <2>1. TypeInv'
    BY <1>1, <1>7, WritesType
  <2> QED  BY <1>2, <1>10, <2>1 DEF Inv
<1> QED  BY <1>9, <1>10

\* A value leaves the stack.
LEMMA PopKeeps ==
  ASSUME Inv, NEW v, Pop(v)
  PROVE  Inv'
<1>1. TypeInv
  BY DEF Inv
<1>2. /\ entries' = [entries EXCEPT ![Main] = @ \ {<<Plain, v>>}] /\ m' = m
      /\ UNCHANGED <<mode, list, white, gcstate, sweepgc, doomed, overtaken>>
  BY DEF Pop, Operation
<1>3. Main \in Obj /\ Main \notin Strings /\ entries \in [Obj -> SUBSET (Value \X Value)]
  BY <1>1, Kinds DEF TypeInv, Contents
<1>4. entries' \in Contents
  <2>1. entries \in Contents /\ \A f \in entries[Main] : f[1] = Plain
    BY <1>1 DEF TypeInv, Contents
  <2>2. /\ entries[Main] \ {<<Plain, v>>} \subseteq Value \X Value
        /\ \A f \in entries[Main] \ {<<Plain, v>>} : f[1] = Plain
    BY <1>3, <2>1
  <2> QED  BY <1>2, <1>3, <2>1, <2>2, EntrySet
<1>5. Content(entries', Main) \subseteq Content(entries, Main) \cup {}
  BY <1>2, <1>3 DEF Content, Keys, Vals
<1>6. Writes(Main, {})
  BY <1>1, <1>2, <1>3, <1>4, <1>5 DEF Writes, TypeInv
<1>7. ~overtaken => Main \in Alive(m, list, white) \ doomed
  BY <1>1, HeldIs DEF Inv
<1> QED  BY <1>2, <1>6, <1>7, WritesPlainly

\* One value is written, and the barrier forward marks it.
LEMMA ForwardKeeps ==
  ASSUME Inv, NEW t \in Held, NEW v \in Held, Writes(t, {v}), Content(entries', t) \subseteq {v},
         gcstate \in Keep, m' = Mark(m, entries', {v})
  PROVE  Inv'
<1>1. TypeInv /\ m \in Marks /\ entries' \in Contents
  BY DEF Inv, TypeInv, Writes
<1>2. TypeInv'
  BY <1>1, WritesType
<1>3. MarkedFrom(m, m', entries', {v})
  BY <1>1, MarkIs
<1>4. ASSUME ~overtaken PROVE GoodNow'
  <2>1. GoodNow /\ t \in Alive(m, list, white) \ doomed /\ v \in Alive(m, list, white) \ doomed
    BY <1>1, <1>4, HeldIs DEF Inv
  <2>2. /\ Separate(list) /\ white \in WhiteColors /\ MarkingAt(entries, m, list, white, mode)
        /\ \A o \in Obj : o # t => entries'[o] = entries[o]
    BY <1>1, <2>1 DEF TypeInv, GoodNow, Good, Writes
  <2>3. MarkingAt(entries', m', list, white, mode)
    BY <1>1, <1>3, <2>2, WrittenForward
  <2>4. Recoloured(m, m', list, white, gcstate, doomed)
    <3>1. Good(entries, m, list, white, gcstate, sweepgc, doomed, mode)
      BY <2>1 DEF GoodNow
    <3> QED  BY <1>1, <1>3, <2>1, <2>2, <3>1, MarkedInside
  <2>5. {v} \subseteq Alive(m, list, white) \ doomed
    BY <2>1
  <2> QED  BY <1>1, <2>1, <2>3, <2>4, <2>5, WritesGood
<1>5. overtaken' = overtaken
  BY DEF Writes
<1> QED  BY <1>2, <1>4, <1>5 DEF Inv

\* One value is written to a userdata or a closure.
LEMMA OneValue ==
  ASSUME TypeInv, NEW t \in Held, t \in Userdata \cup Closures, NEW v \in Held,
         entries' = [entries EXCEPT ![t] = {<<Plain, v>>}], m' \in Marks,
         UNCHANGED <<mode, list, white, gcstate, sweepgc, doomed, overtaken>>
  PROVE  Writes(t, {v}) /\ Content(entries', t) \subseteq {v}
<1>1. t \in Obj /\ v \in Obj /\ t \notin Strings /\ t # Main /\ entries \in [Obj -> SUBSET (Value \X Value)]
  BY NowIs, Kinds DEF TypeInv, Contents
<1>2. entries' \in Contents
  <2>1. /\ {<<Plain, v>>} \subseteq Value \X Value /\ \A f \in {<<Plain, v>>} : f[1] = Plain
        /\ entries \in Contents
    BY <1>1, PairIs DEF TypeInv
  <2> QED  BY <1>1, <2>1, EntrySet
<1>3. Content(entries', t) \subseteq {v}
  BY <1>1 DEF Content, Keys, Vals
<1> QED  BY <1>1, <1>2, <1>3 DEF Writes

\* lua_setuservalue.
LEMMA SetUserValueKeeps ==
  ASSUME Inv, NEW u \in Held, NEW v \in Held, SetUserValue(u, v)
  PROVE  Inv'
<1>1. TypeInv /\ m \in Marks /\ m.color \in [Obj -> Colors]
  BY MarksType DEF Inv, TypeInv
<1>2. /\ u \in Userdata /\ entries' = [entries EXCEPT ![u] = {<<Plain, v>>}]
      /\ m' = IF m.color[u] # "black" \/ v \notin Whites(m) THEN m
              ELSE IF KeepInvariant THEN Mark(m, entries', {v})
              ELSE [m EXCEPT !.color[u] = white]
      /\ UNCHANGED <<mode, list, white, gcstate, sweepgc, doomed, overtaken>>
  BY DEF SetUserValue, Operation
<1>3. ASSUME m' \in Marks PROVE Writes(u, {v}) /\ Content(entries', u) \subseteq {v}
  BY <1>1, <1>2, <1>3, OneValue
<1>4. entries' \in Contents /\ u \in Obj
  <2>1. u \in Obj /\ v \in Obj /\ u \notin Strings
    BY <1>1, <1>2, NowIs, Kinds
  <2>2. /\ {<<Plain, v>>} \subseteq Value \X Value /\ \A f \in {<<Plain, v>>} : f[1] = Plain
        /\ entries \in Contents
    BY <1>1, <2>1, PairIs DEF TypeInv
  <2> QED  BY <1>2, <2>1, <2>2, EntrySet
<1>5. KeepInvariant <=> gcstate \in Keep
  BY <1>1, NowIs
<1>6. ~overtaken => u \in Alive(m, list, white) \ doomed /\ {v} \subseteq Alive(m, list, white) \ doomed
  BY <1>1, HeldIs DEF Inv
<1>7. CASE m.color[u] # "black" \/ v \notin Whites(m)
  <2>1. m' = m
    BY <1>2, <1>7
  <2> QED  BY <1>1, <1>3, <1>6, <1>7, <2>1, WritesPlainly
<1>8. CASE m.color[u] = "black" /\ v \in Whites(m) /\ gcstate \in Keep
  <2>1. m' = Mark(m, entries', {v})
    BY <1>2, <1>5, <1>8
  <2>2. m' \in Marks
    BY <1>1, <1>4, <2>1, MarkIs DEF MarkedFrom
  <2> QED  BY <1>3, <1>8, <2>1, <2>2, ForwardKeeps
<1>9. CASE m.color[u] = "black" /\ v \in Whites(m) /\ gcstate \notin Keep
  <2>1. m' = [m EXCEPT !.color[u] = white]
    BY <1>2, <1>5, <1>9
  <2>2. m' \in Marks /\ m'.color = [m.color EXCEPT ![u] = white]
    <3>1. [m.color EXCEPT ![u] = white] \in [Obj -> Colors]
      BY <1>1, <1>4 DEF TypeInv, WhiteColors, Colors
    <3> QED  BY <2>1, <3>1, <1>1 DEF Marks
  <2>3. TypeInv'
    BY <1>1, <1>3, <2>2, WritesType
  <2>4. ASSUME ~overtaken PROVE GoodNow'
    <3>1. Recoloured(m, m', list, white, gcstate, doomed)
      <4>1. \A o \in Obj : m'.color[o] = IF o = u THEN white ELSE m.color[o]
        BY <1>1, <1>4, <2>2
      <4> QED  BY <1>6, <1>9, <2>4, <4>1 DEF Recoloured
    <3> QED  BY <1>1, <1>3, <1>6, <1>9, <2>2, <2>4, <3>1, WritesGood DEF Inv
  <2> QED  BY <1>2, <2>3, <2>4 DEF Inv
<1> QED  BY <1>7, <1>8, <1>9

\* OP_SETUPVAL.
LEMMA SetUpvalueKeeps ==
  ASSUME Inv, NEW c \in Held, NEW v \in Held, SetUpvalue(c, v)
  PROVE  Inv'
<1>1. TypeInv /\ m \in Marks
  BY DEF Inv, TypeInv
<1>2. /\ c \in Closures /\ entries' = [entries EXCEPT ![c] = {<<Plain, v>>}]
      /\ m' = IF KeepInvariant THEN Mark(m, entries', {v}) ELSE m
      /\ UNCHANGED <<mode, list, white, gcstate, sweepgc, doomed, overtaken>>
  BY DEF SetUpvalue, Operation
<1>3. ASSUME m' \in Marks PROVE Writes(c, {v}) /\ Content(entries', c) \subseteq {v}
  BY <1>1, <1>2, <1>3, OneValue
<1>4. entries' \in Contents
  <2>1. c \in Obj /\ v \in Obj /\ c \notin Strings
    BY <1>1, <1>2, NowIs, Kinds
  <2>2. /\ {<<Plain, v>>} \subseteq Value \X Value /\ \A f \in {<<Plain, v>>} : f[1] = Plain
        /\ entries \in Contents
    BY <1>1, <2>1, PairIs DEF TypeInv
  <2> QED  BY <1>2, <2>1, <2>2, EntrySet
<1>5. KeepInvariant <=> gcstate \in Keep
  BY <1>1, NowIs
<1>6. ~overtaken => c \in Alive(m, list, white) \ doomed /\ {v} \subseteq Alive(m, list, white) \ doomed
  BY <1>1, HeldIs DEF Inv
<1>7. CASE gcstate \in Keep
  <2>1. m' = Mark(m, entries', {v})
    BY <1>2, <1>5, <1>7
  <2>2. m' \in Marks
    BY <1>1, <1>4, <2>1, MarkIs DEF MarkedFrom
  <2> QED  BY <1>3, <1>7, <2>1, <2>2, ForwardKeeps
<1>8. CASE gcstate \notin Keep
  <2>1. m' = m
    BY <1>2, <1>5, <1>8
  <2> QED  BY <1>1, <1>3, <1>6, <1>8, <2>1, WritesPlainly
<1> QED  BY <1>7, <1>8

\* An object goes to the head of the first list.
AtHead(lt, ls, o) == o \in Obj /\ o # Main /\ Separate(ls) /\ lt = [ls EXCEPT !["allgc"] = <<o>> \o @]

LEMMA HeadOfFirst ==
  ASSUME NEW ls, NEW lt, NEW o, AtHead(lt, ls, o), \A k \in Lists : o \notin Range(ls[k])
  PROVE  /\ Separate(lt)
         /\ \A k \in Lists : Range(lt[k]) = Range(ls[k]) \cup (IF k = "allgc" THEN {o} ELSE {})
         /\ \A k \in Lists : \A p : Into(p, ls, k)
              => Into(p, lt, k) /\ Ahead(p, lt) \subseteq Ahead(p, ls) \cup {o} /\ Ahead(p, ls) \subseteq Ahead(p, lt)
<1>1. "allgc" \in Lists
  BY DEF Lists
<1>2. LET r == [ls EXCEPT !["allgc"] = <<o>> \o @]
      IN  /\ Separate(r)
          /\ \A k \in Lists : Range(r[k]) = Range(ls[k]) \cup (IF k = "allgc" THEN {o} ELSE {})
          /\ \A k \in Lists : \A p : Into(p, ls, k)
               => Into(p, r, k) /\ Ahead(p, r) \subseteq Ahead(p, ls) \cup {o} /\ Ahead(p, ls) \subseteq Ahead(p, r)
          /\ \A k \in Lists : \A x \in Range(ls[k]) : Ahead(<<"next", x>>, r) = Ahead(<<"next", x>>, ls)
  <2>1. Separate(ls) /\ o \in Obj \ {Main}
    BY DEF AtHead
  <2> QED  BY <1>1, <2>1, PrependedIs
<1>3. lt = [ls EXCEPT !["allgc"] = <<o>> \o @]
  BY DEF AtHead
<1> QED  BY <1>2, <1>3

\* An object that was not there is made: it goes to the head of its list and on the stack.
Makes(o) ==
  /\ o \notin There(list) /\ list' = [list EXCEPT !["allgc"] = <<o>> \o @] /\ m' = [m EXCEPT !.color[o] = white]
  /\ entries' \in Contents /\ entries'[o] = {} /\ \A x \in Obj \ {o, Main} : entries'[x] = entries[x]
  /\ Content(entries', Main) \subseteq Content(entries, Main) \cup {o}
  /\ mode' \in [Tables \cup {Reg} -> {"", "k", "v", "kv"}] /\ \A x \in Tables \cup {Reg} : x # o => mode'[x] = mode[x]
  /\ doomed' = doomed \ {o} /\ UNCHANGED <<white, gcstate, sweepgc, overtaken>>

\* That keeps the invariant.
LEMMA MadeKeeps ==
  ASSUME Inv, NEW o \in Obj \ {Main, Reg}, Makes(o)
  PROVE  Inv'
<1>1. TypeInv /\ m \in Marks /\ m.color \in [Obj -> Colors] /\ Separate(list) /\ white \in WhiteColors /\ gcstate \in States
  BY MarksType DEF Inv, TypeInv
<1>a. /\ list' = [list EXCEPT !["allgc"] = <<o>> \o @] /\ m' = [m EXCEPT !.color[o] = white]
      /\ UNCHANGED <<white, gcstate, sweepgc, overtaken>>
  BY DEF Makes
<1>b. /\ o \notin There(list) /\ entries' \in Contents /\ entries'[o] = {}
      /\ \A x \in Obj \ {o, Main} : entries'[x] = entries[x]
      /\ Content(entries', Main) \subseteq Content(entries, Main) \cup {o}
      /\ mode' \in [Tables \cup {Reg} -> {"", "k", "v", "kv"}] /\ \A x \in Tables \cup {Reg} : x # o => mode'[x] = mode[x]
      /\ doomed' = doomed \ {o}
  BY DEF Makes
<1>2. m' \in Marks /\ m'.color = [m.color EXCEPT ![o] = white]
      /\ m'.gray = m.gray /\ m'.grayagain = m.grayagain /\ m'.weak = m.weak
      /\ m'.ephemeron = m.ephemeron /\ m'.allweak = m.allweak
  <2>1. [m.color EXCEPT ![o] = white] \in [Obj -> Colors]
    BY <1>1, WhiteSet
  <2> QED  BY <2>1, <1>1, <1>a DEF Marks
<1>3. m'.color[o] = white /\ \A x \in Obj \ {o} : m'.color[x] = m.color[x]
  <2>1. o \in Obj
    OBVIOUS
  <2> QED  BY <1>1, <1>2, <2>1, WhiteSet
<1>4. "allgc" \in Lists /\ "finobj" \in Lists /\ "tobefnz" \in Lists /\ \A k \in Lists : o \notin Range(list[k])
  BY <1>1, <1>b, ThereIs
<1>5. /\ Separate(list')
      /\ \A k \in Lists : Range(list'[k]) = Range(list[k]) \cup (IF k = "allgc" THEN {o} ELSE {})
      /\ \A k \in Lists : \A p : Into(p, list, k)
           => Into(p, list', k) /\ Ahead(p, list') \subseteq Ahead(p, list) \cup {o} /\ Ahead(p, list) \subseteq Ahead(p, list')
  <2>1. AtHead(list', list, o)
    BY <1>1, <1>a DEF AtHead
  <2> QED  BY <1>4, <2>1, HeadOfFirst
<1>6. /\ Range(list'["allgc"]) = Range(list["allgc"]) \cup {o}
      /\ Range(list'["finobj"]) = Range(list["finobj"]) /\ Range(list'["tobefnz"]) = Range(list["tobefnz"])
  BY <1>4, <1>5
<1>7. There(list') = There(list) \cup {o}
  BY <1>6 DEF There
<1>8. sweepgc = None \/ (gcstate \in {"swpallgc", "swpfinobj", "swptobefnz"} /\ \E l \in Lists : Into(sweepgc, list', l))
  BY <1>1, <1>5, <1>a DEF TypeInv
<1>9. TypeInv'
  BY <1>1, <1>2, <1>5, <1>8, <1>a, <1>b DEF TypeInv
<1>10. ASSUME ~overtaken PROVE GoodNow'
  <2>1. Good(entries, m, list, white, gcstate, sweepgc, doomed, mode) /\ entries \in Contents
    BY <1>10 DEF Inv, TypeInv, GoodNow
  <2>2. entries[o] = {}
    BY <2>1, <1>b DEF Good, SafeAt
  <2>3. \A k \in Lists : Into(sweepgc, list, k) => Into(sweepgc, list', k) /\ Ahead(sweepgc, list) \subseteq Ahead(sweepgc, list')
    BY <1>5
  <2>4. m'.color[o] = white \/ (m'.color[o] = m.color[o] /\ o \in Alive(m, list, white))
    BY <1>3
  <2>5. mode' = mode \/ (o \notin There(list) /\ \A x \in Tables \cup {Reg} : x # o => mode'[x] = mode[x])
    BY <1>b
  <2>6. Good(entries', m', list', white, gcstate, sweepgc, doomed \ {o}, mode')
    <3>1. Appears(entries, entries', m, m', list, list', white, sweepgc, mode, mode', o)
      BY <1>2, <1>3, <1>6, <1>7, <1>b, <2>2, <2>3, <2>4, <2>5 DEF Appears
    <3> QED  BY <1>1, <1>2, <1>5, <1>b, <2>1, <3>1, Appeared
  <2> QED  BY <1>a, <1>b, <2>6 DEF GoodNow
<1> QED  BY <1>9, <1>10, <1>a DEF Inv

\* luaC_newobj.
LEMMA NewKeeps ==
  ASSUME Inv, NEW o \in Tables \cup Userdata \cup Closures, New(o)
  PROVE  Inv'
<1>1. TypeInv
  BY DEF Inv
<1>2. /\ o \notin Allocated
      /\ list' = [list EXCEPT !["allgc"] = <<o>> \o @] /\ m' = [m EXCEPT !.color[o] = white]
      /\ entries' = Push([entries EXCEPT ![o] = {}], o)
      /\ doomed' = doomed \ {o} /\ UNCHANGED <<white, gcstate, sweepgc, overtaken>>
      /\ \/ o \in Tables /\ \E w \in Modes : mode' = [mode EXCEPT ![o] = w]
         \/ mode' = mode
  BY DEF New, Operation
<1>3. o \in Obj \ {Main, Reg} /\ Main \in Obj /\ o \notin There(list) /\ Main \notin Strings
  BY <1>1, <1>2, NowIs, Kinds
<1>4. entries \in Contents /\ entries \in [Obj -> SUBSET (Value \X Value)]
  BY <1>1 DEF TypeInv, Contents
<1>5. entries' = [[entries EXCEPT ![o] = {}] EXCEPT ![Main] = entries[Main] \cup {<<Plain, o>>}]
  BY <1>2, <1>3, <1>4 DEF Push
<1>6. entries'[o] = {} /\ entries'[Main] = entries[Main] \cup {<<Plain, o>>} /\ \A x \in Obj \ {o, Main} : entries'[x] = entries[x]
  BY <1>3, <1>4, <1>5
<1>7. entries' \in Contents
  <2>1. entries' \in [Obj -> SUBSET (Value \X Value)]
    BY <1>3, <1>4, <1>5 DEF Value
  <2> QED  BY <2>1, <1>3, <1>4, <1>6, Kinds DEF Contents
<1>8. Content(entries', Main) \subseteq Content(entries, Main) \cup {o}
  BY <1>6 DEF Content, Keys, Vals
<1>9. mode' \in [Tables \cup {Reg} -> {"", "k", "v", "kv"}] /\ \A x \in Tables \cup {Reg} : x # o => mode'[x] = mode[x]
  <2>1. mode \in [Tables \cup {Reg} -> {"", "k", "v", "kv"}] /\ Modes \subseteq {"", "k", "v", "kv"}
    BY <1>1, CollectorAssumption DEF TypeInv
  <2> QED  BY <2>1, <1>2
<1>10. o \in Obj \ {Main, Reg} /\ Makes(o)
  BY <1>2, <1>3, <1>6, <1>7, <1>8, <1>9 DEF Makes
<1> QED  BY <1>10, MadeKeeps

\* internshrstr: a string is made, or one that is there lives on.
LEMMA InternKeeps ==
  ASSUME Inv, NEW s \in Strings, Intern(s)
  PROVE  Inv'
<1>1. /\ TypeInv /\ m \in Marks /\ m.color \in [Obj -> Colors] /\ Separate(list)
      /\ white \in WhiteColors /\ gcstate \in States /\ entries \in Contents
  BY MarksType DEF Inv, TypeInv
<1>2. /\ entries' = Push(entries, s)
      /\ doomed' = doomed \ {s} /\ UNCHANGED <<mode, white, gcstate, sweepgc, overtaken>>
  BY DEF Intern, Operation
<1>3. /\ s \in Obj \ {Main, Reg} /\ Main \in Obj /\ s \in Obj \ {Main} /\ Main \notin Strings /\ s \in Obj
      /\ entries \in [Obj -> SUBSET (Value \X Value)] /\ Allocated = There(list)
  BY <1>1, NowIs, Kinds DEF Contents
<1>4. entries' = [entries EXCEPT ![Main] = entries[Main] \cup {<<Plain, s>>}]
  BY <1>2, <1>3 DEF Push
<1>5. entries[s] = {} /\ entries'[s] = {} /\ entries'[Main] = entries[Main] \cup {<<Plain, s>>}
      /\ \A x \in Obj \ {s, Main} : entries'[x] = entries[x]
  BY <1>1, <1>3, <1>4 DEF Contents
<1>6. entries' \in Contents
  <2>1. entries' \in [Obj -> SUBSET (Value \X Value)]
    BY <1>3, <1>4 DEF Value
  <2> QED  BY <2>1, <1>1, <1>3, <1>4, <1>5, Kinds DEF Contents
<1>7. Content(entries', Main) \subseteq Content(entries, Main) \cup {s}
  BY <1>5 DEF Content, Keys, Vals
<1>8. mode' \in [Tables \cup {Reg} -> {"", "k", "v", "kv"}] /\ \A x \in Tables \cup {Reg} : x # s => mode'[x] = mode[x]
  BY <1>1, <1>2 DEF TypeInv
<1>9. CASE s \notin Allocated
  <2>1. m' = [m EXCEPT !.color[s] = white] /\ list' = [list EXCEPT !["allgc"] = <<s>> \o @]
    BY <1>9 DEF Intern
  <2>2. s \in Obj \ {Main, Reg} /\ Makes(s)
    BY <1>2, <1>3, <1>5, <1>6, <1>7, <1>8, <1>9, <2>1 DEF Makes
  <2> QED  BY <2>2, MadeKeeps
<1>10. CASE s \in Allocated
  <2>1. list' = list /\ m' = IF m.color[s] = Other(white) THEN [m EXCEPT !.color[s] = white] ELSE m
    BY <1>10 DEF Intern
  <2>2. /\ m' \in Marks /\ m'.gray = m.gray /\ m'.grayagain = m.grayagain /\ m'.weak = m.weak
        /\ m'.ephemeron = m.ephemeron /\ m'.allweak = m.allweak
        /\ m'.color = IF m.color[s] = Other(white) THEN [m.color EXCEPT ![s] = white] ELSE m.color
    <3>1. [m.color EXCEPT ![s] = white] \in [Obj -> Colors]
      BY <1>1 DEF WhiteColors, Colors
    <3> QED  BY <2>1, <3>1, <1>1 DEF Marks
  <2>3. m'.color[s] = (IF m.color[s] = Other(white) THEN white ELSE m.color[s]) /\ \A x \in Obj \ {s} : m'.color[x] = m.color[x]
    BY <1>1, <1>3, <2>2
  <2>4. TypeInv'
    BY <1>1, <1>2, <1>6, <2>1, <2>2 DEF Inv, TypeInv
  <2>5. ASSUME ~overtaken PROVE GoodNow'
    <3>1. Good(entries, m, list, white, gcstate, sweepgc, doomed, mode)
      BY <2>5 DEF Inv, GoodNow
    <3>2. m'.color[s] = white \/ (m'.color[s] = m.color[s] /\ s \in Alive(m, list, white))
      BY <1>3, <1>10, <2>3 DEF Alive
    <3>3. s \notin There(list) \/ m.color[s] = Other(white) \/ m'.color[s] = m.color[s]
      BY <2>3
    <3>4. There(list) = There(list) \cup {s}
      BY <1>3, <1>10
    <3>5. Good(entries', m', list, white, gcstate, sweepgc, doomed \ {s}, mode)
      <4>1. Appears(entries, entries', m, m', list, list, white, sweepgc, mode, mode, s)
        BY <1>3, <1>5, <1>7, <2>2, <2>3, <3>2, <3>3, <3>4 DEF Appears
      <4> QED  BY <1>1, <1>6, <2>2, <3>1, <4>1, Appeared
    <3> QED  BY <1>2, <2>1, <3>5 DEF GoodNow
  <2> QED  BY <1>2, <2>4, <2>5 DEF Inv
<1> QED  BY <1>9, <1>10

\* udata2finalize and GCTM.
LEMMA RunFinalizerKeeps ==
  ASSUME Inv, RunFinalizer
  PROVE  Inv'
<1> DEFINE s == list["tobefnz"]
           o == Head(s)
<1>1. /\ TypeInv /\ m \in Marks /\ m.color \in [Obj -> Colors] /\ Separate(list)
      /\ white \in WhiteColors /\ gcstate \in States /\ entries \in Contents /\ overtaken \in BOOLEAN
  BY MarksType DEF Inv, TypeInv
<1>2. /\ s # <<>>
      /\ list' = [list EXCEPT !["tobefnz"] = Tail(@), !["allgc"] = <<o>> \o @]
      /\ m' = IF Sweeping THEN [m EXCEPT !.color[o] = white] ELSE m
      /\ entries' = Push(entries, o)
      /\ overtaken' = (overtaken \/ sweepgc = <<"next", o>>)
      /\ UNCHANGED <<mode, white, gcstate, sweepgc, doomed>>
  BY DEF RunFinalizer
<1>3. "allgc" \in Lists /\ "finobj" \in Lists /\ "tobefnz" \in Lists /\ s \in Seq(Obj) /\ \A x : ~After(s, x, x)
  BY <1>1, ThereIs DEF Separate
<1>4. /\ o \in Range(s) /\ Tail(s) \in Seq(Obj) /\ Range(Tail(s)) = Range(s) \ {o}
      /\ \A x, y : After(Tail(s), x, y) <=> After(s, x, y) /\ x # o /\ y # o
  BY <1>2, <1>3, LeftOver
<1> DEFINE lt == [list EXCEPT !["tobefnz"] = Tail(s), !["allgc"] = <<o>> \o @]
<1>5. list' = lt
  BY <1>2
<1>6. There(list) \subseteq Obj /\ o \in There(list) /\ o # Main /\ o \in Obj \ {Main} /\ Main \in Obj /\ o \in Obj /\ Main \notin Strings
  BY <1>1, <1>3, <1>4, ThereIs, Kinds
<1> DEFINE q == Tail(s)
<1>7. /\ Separate(lt)
      /\ \A k \in Lists : Range(lt[k]) = (Range(list[k]) \ {o}) \cup (IF k = "allgc" THEN {o} ELSE {})
      /\ \A k \in Lists : \A p : Into(p, list, k) /\ p # <<"next", o>>
           => /\ Into(p, lt, k)
              /\ Ahead(p, list) \ {o} \subseteq Ahead(p, lt) /\ Ahead(p, lt) \subseteq Ahead(p, list) \cup {o}
  <2>1. \A k \in Lists \ {"tobefnz"} : o \notin Range(list[k])
    BY <1>1, <1>3, <1>4 DEF Separate
  <2>2. "tobefnz" # "allgc" /\ q \in Seq(Obj) /\ Range(q) = Range(list["tobefnz"]) \ {o}
        /\ \A x, y : After(q, x, y) <=> After(list["tobefnz"], x, y) /\ x # o /\ y # o
    BY <1>4
  <2>3. LET r == [list EXCEPT !["tobefnz"] = q, !["allgc"] = <<o>> \o @]
        IN  /\ Separate(r)
            /\ \A k \in Lists : Range(r[k]) = (Range(list[k]) \ {o}) \cup (IF k = "allgc" THEN {o} ELSE {})
            /\ \A k \in Lists : \A p : Into(p, list, k) /\ p # <<"next", o>>
                 => /\ Into(p, r, k)
                    /\ Ahead(p, list) \ {o} \subseteq Ahead(p, r) /\ Ahead(p, r) \subseteq Ahead(p, list) \cup {o}
    <3> HIDE DEF q, o
    <3> QED  BY <1>1, <1>3, <1>6, <2>1, <2>2, MovedIs
  <2> QED  BY <2>3
<1> HIDE DEF lt
<1>8. /\ Range(lt["allgc"]) = Range(list["allgc"]) \cup {o} /\ Range(lt["finobj"]) = Range(list["finobj"])
      /\ Range(lt["tobefnz"]) = Range(list["tobefnz"]) \ {o}
  <2>1. o \notin Range(list["finobj"])
    BY <1>1, <1>3, <1>4 DEF Separate
  <2> HIDE DEF o
  <2> QED  BY <2>1, <1>3, <1>7, ZenonT(30)
<1> HIDE DEF s
<1>9. There(lt) = There(list)
  <2>1. o \in Range(list["tobefnz"])
    BY <1>4 DEF s
  <2> HIDE DEF o
  <2> QED  BY <2>1, <1>8 DEF There
<1> HIDE DEF o
<1>10. /\ m' \in Marks /\ m'.gray = m.gray /\ m'.grayagain = m.grayagain /\ m'.weak = m.weak
       /\ m'.ephemeron = m.ephemeron /\ m'.allweak = m.allweak
       /\ m'.color = IF Sweeping THEN [m.color EXCEPT ![o] = white] ELSE m.color
  <2>1. [m.color EXCEPT ![o] = white] \in [Obj -> Colors]
    BY <1>1 DEF WhiteColors, Colors
  <2> QED  BY <1>2, <2>1, <1>1 DEF Marks
<1>11. m'.color[o] = (IF Sweeping THEN white ELSE m.color[o]) /\ \A x \in Obj \ {o} : m'.color[x] = m.color[x]
  BY <1>1, <1>6, <1>10
<1>12. Sweeping <=> gcstate \in Sweeps
  BY <1>1, NowIs
<1>13. /\ entries' = [entries EXCEPT ![Main] = entries[Main] \cup {<<Plain, o>>}]
       /\ entries \in [Obj -> SUBSET (Value \X Value)]
  BY <1>1, <1>2 DEF Push, Contents
<1>14. entries' \in Contents
  BY <1>1, <1>2, <1>6, PushIs
<1>15. Content(entries', Main) \subseteq Content(entries, Main) \cup {o}
  BY <1>6, <1>13 DEF Content, Keys, Vals
<1>16. sweepgc = None \/ (gcstate \in {"swpallgc", "swpfinobj", "swptobefnz"} /\ \E l \in Lists : Into(sweepgc, lt, l))
  <2>1. CASE sweepgc = <<"next", o>>
    <3>1. sweepgc # None
      BY <2>1, Pointers
    <3>2. Into(sweepgc, lt, "allgc")
      BY <2>1, <1>8 DEF Into
    <3> QED  BY <3>1, <3>2, <1>1, <1>3 DEF TypeInv
  <2>2. CASE sweepgc # <<"next", o>>
    BY <2>2, <1>1, <1>7 DEF TypeInv
  <2> QED  BY <2>1, <2>2
<1>17. TypeInv'
  <2>1. overtaken' \in BOOLEAN
    BY <1>1, <1>2
  <2>2. /\ mode' \in [Tables \cup {Reg} -> {"", "k", "v", "kv"}] /\ white' \in WhiteColors /\ gcstate' \in States
        /\ Separate(list')
    BY <1>1, <1>2, <1>5, <1>7 DEF TypeInv
  <2>3. \/ sweepgc' = None
        \/ gcstate' \in {"swpallgc", "swpfinobj", "swptobefnz"} /\ \E l \in Lists : Into(sweepgc', list', l)
    BY <1>2, <1>5, <1>16
  <2> QED  BY <2>1, <2>2, <2>3, <1>10, <1>14 DEF TypeInv
<1>18. ASSUME ~overtaken' PROVE GoodNow'
  <2>1. ~overtaken /\ sweepgc # <<"next", o>>
    BY <1>2, <1>18
  <2>2. Good(entries, m, list, white, gcstate, sweepgc, doomed, mode)
    BY <2>1 DEF Inv, GoodNow
  <2>3. o \in Alive(m, list, white) \ doomed
    <3>1. o \in Range(list["tobefnz"])
      BY <1>4 DEF s
    <3> QED  BY <2>2, <3>1 DEF Good, SafeAt, GarbageAt
  <2>4. \A k \in Lists : Into(sweepgc, list, k) => Into(sweepgc, lt, k) /\ Ahead(sweepgc, list) \ {o} \subseteq Ahead(sweepgc, lt)
    BY <1>7, <2>1
  <2>5. IF gcstate \in Sweeps THEN m'.color[o] = white ELSE m'.color[o] = m.color[o]
    BY <1>11, <1>12
  <2>6. \A x \in Obj \ {Main} : entries'[x] = entries[x]
    BY <1>13
  <2>7. /\ Range(lt["tobefnz"]) \subseteq Range(list["tobefnz"])
        /\ Range(list["tobefnz"]) \ {o} \subseteq Range(lt["tobefnz"])
        /\ Range(lt["finobj"]) \subseteq Range(list["finobj"]) \cup {o}
        /\ Range(list["finobj"]) \ {o} \subseteq Range(lt["finobj"])
    BY <1>8
  <2>8. Good(entries', m', lt, white, gcstate, sweepgc, doomed, mode)
    BY <1>1, <1>6, <1>7, <1>9, <1>10, <1>11, <1>14, <1>15, <2>2, <2>3, <2>4, <2>5, <2>6, <2>7, Moved
  <2> QED  BY <1>2, <1>5, <2>8 DEF GoodNow
<1> QED  BY <1>17, <1>18 DEF Inv

\* What luaC_checkfinalizer does when the sweep does not stand on o, from colours n and place p.
LEMMA FinalizerMoves ==
  ASSUME NEW en \in Contents, NEW n \in Marks, NEW ls, Separate(ls), NEW o \in Tables \cup Userdata,
         o \notin Range(ls["finobj"]) \cup Range(ls["tobefnz"]),
         NEW p, p # <<"next", o>>
  PROVE  LET lt == [ls EXCEPT !["allgc"] = Kept(@, Obj \ {o}), !["finobj"] = <<o>> \o @]
         IN  /\ Separate(lt) /\ \A k \in Lists : Into(p, ls, k) => Into(p, lt, k)
             /\ \A w \in WhiteColors, gs \in States : \A dm, md :
                  /\ Good(en, n, ls, w, gs, p, dm, md)
                  /\ o \in Alive(n, ls, w) \ dm
                  /\ gs \in Sweeps => n.color[o] = w
                  => Good(en, n, lt, w, gs, p, dm, md)
<1> DEFINE q == Kept(ls["allgc"], Obj \ {o})
           lt == [ls EXCEPT !["allgc"] = q, !["finobj"] = <<o>> \o @]
<1>1. "allgc" \in Lists /\ "finobj" \in Lists /\ "tobefnz" \in Lists /\ "allgc" # "finobj"
      /\ \A k \in Lists : k = "allgc" \/ k = "finobj" \/ k = "tobefnz"
  BY ThereIs
<1>2. ls["allgc"] \in Seq(Obj) /\ \A x : ~After(ls["allgc"], x, x)
  BY <1>1 DEF Separate
<1>3. /\ q \in Seq(Obj) /\ Range(q) = Range(ls["allgc"]) \ {o}
      /\ \A x, y : After(q, x, y) <=> After(ls["allgc"], x, y) /\ x # o /\ y # o
  BY <1>2, LeftOver
<1> HIDE DEF q
<1>4. o \in Obj \ {Main} /\ o # Main /\ \A k \in Lists \ {"allgc"} : o \notin Range(ls[k])
  BY <1>1, Kinds
<1>5. /\ Separate(lt)
      /\ \A k \in Lists : Range(lt[k]) = (Range(ls[k]) \ {o}) \cup (IF k = "finobj" THEN {o} ELSE {})
      /\ \A k \in Lists : \A x : Into(x, ls, k) /\ x # <<"next", o>>
           => /\ Into(x, lt, k)
              /\ Ahead(x, ls) \ {o} \subseteq Ahead(x, lt) /\ Ahead(x, lt) \subseteq Ahead(x, ls) \cup {o}
  BY <1>1, <1>3, <1>4, MovedIs
<1> HIDE DEF lt
<1>6. ASSUME NEW w \in WhiteColors, NEW gs \in States, NEW dm, NEW md,
             Good(en, n, ls, w, gs, p, dm, md), o \in Alive(n, ls, w) \ dm, gs \in Sweeps => n.color[o] = w
      PROVE  Good(en, n, lt, w, gs, p, dm, md)
  <2>1. /\ Range(lt["allgc"]) = Range(ls["allgc"]) \ {o} /\ Range(lt["finobj"]) = Range(ls["finobj"]) \cup {o}
        /\ Range(lt["tobefnz"]) = Range(ls["tobefnz"])
    BY <1>1, <1>4, <1>5, SMTT(30)
  <2>2. o \in There(ls)
    BY <1>6 DEF Alive
  <2>3. There(lt) = There(ls)
    BY <2>1, <2>2 DEF There
  <2>4. \A k \in Lists : Into(p, ls, k) => Into(p, lt, k) /\ Ahead(p, ls) \ {o} \subseteq Ahead(p, lt)
    BY <1>5
  <2>5. Content(en, Main) \subseteq Content(en, Main) \cup {o}
    OBVIOUS
  <2>6. /\ Range(lt["tobefnz"]) \subseteq Range(ls["tobefnz"]) /\ Range(ls["tobefnz"]) \ {o} \subseteq Range(lt["tobefnz"])
        /\ Range(lt["finobj"]) \subseteq Range(ls["finobj"]) \cup {o} /\ Range(ls["finobj"]) \ {o} \subseteq Range(lt["finobj"])
    BY <2>1
  <2>7. o \in Alive(n, ls, w) \ dm
    BY <1>6
  <2>8. IF gs \in Sweeps THEN n.color[o] = w ELSE n.color[o] = n.color[o]
    BY <1>6
  <2> QED  BY <1>4, <1>5, <1>6, <2>3, <2>4, <2>5, <2>6, <2>7, <2>8, Moved
<1>7. \A w \in WhiteColors, gs \in States : \A dm, md :
        /\ Good(en, n, ls, w, gs, p, dm, md)
        /\ o \in Alive(n, ls, w) \ dm
        /\ gs \in Sweeps => n.color[o] = w
        => Good(en, n, lt, w, gs, p, dm, md)
  BY <1>6
<1>8. Separate(lt) /\ \A k \in Lists : Into(p, ls, k) => Into(p, lt, k)
  BY <1>5
<1> QED  BY <1>7, <1>8 DEF lt, q

\* luaC_checkfinalizer.
LEMMA SetFinalizerKeeps ==
  ASSUME Inv, NEW o \in Held, SetFinalizer(o)
  PROVE  Inv'
<1> DEFINE col == IF Sweeping THEN [m.color EXCEPT ![o] = white] ELSE m.color
           n == [m EXCEPT !.color = col]
           t == SweepToLive(sweepgc, list, col, white)
           s == IF Sweeping /\ sweepgc = <<"next", o>> THEN t
                ELSE [list |-> list, color |-> col, freed |-> {}, p |-> sweepgc]
           lt == [s.list EXCEPT !["allgc"] = Kept(@, Obj \ {o}), !["finobj"] = <<o>> \o @]
           r == [m EXCEPT !.color = s.color]
<1>1. /\ TypeInv /\ m \in Marks /\ m.color \in [Obj -> Colors] /\ Separate(list)
      /\ white \in WhiteColors /\ gcstate \in States /\ entries \in Contents
  BY MarksType DEF Inv, TypeInv
<1>2. /\ o \in Tables \cup Userdata /\ o \notin HasFinalizer
      /\ Swept([s EXCEPT !.list = lt], entries)
      /\ UNCHANGED <<mode, white, gcstate, doomed, overtaken>>
  <2>1. o \in Tables \cup Userdata /\ o \notin HasFinalizer /\ UNCHANGED <<mode, doomed>> /\ Operation
    BY DEF SetFinalizer
  <2>2. Swept([s EXCEPT !.list = lt], entries)
    BY Zenon DEF SetFinalizer
  <2>3. UNCHANGED <<white, gcstate, overtaken>>
    BY <2>1 DEF Operation
  <2> QED  BY <2>1, <2>2, <2>3
<1>3. s = [list |-> s.list, color |-> s.color, freed |-> s.freed, p |-> s.p]
  <2>1. t = [list |-> t.list, color |-> t.color, freed |-> t.freed, p |-> t.p]
    BY SweepRecord
  <2> HIDE DEF t
  <2> QED  BY <2>1
<1>4. list' = lt /\ m' = r /\ entries' = Free(entries, s.freed) /\ sweepgc' = s.p
  <2>1. Swept([s EXCEPT !.list = lt], entries)
    BY <1>2
  <2> HIDE DEF s, lt
  <2> QED  BY <1>3, <2>1 DEF Swept, r
<1>5. o \in Obj /\ o \notin Range(list["finobj"]) \cup Range(list["tobefnz"]) /\ (Sweeping <=> gcstate \in Sweeps)
      /\ "allgc" \in Lists /\ "finobj" \in Lists /\ "tobefnz" \in Lists
  BY <1>1, <1>2, NowIs, ThereIs
<1>6. col \in [Obj -> Colors] /\ col[o] = (IF Sweeping THEN white ELSE m.color[o]) /\ \A x \in Obj : x # o => col[x] = m.color[x]
  BY <1>1, <1>5 DEF WhiteColors, Colors
<1> HIDE DEF col
<1>7. n \in Marks /\ n.color = col
  BY <1>1, <1>6 DEF Marks
<1>8. ASSUME ~overtaken
      PROVE  /\ Good(entries, n, list, white, gcstate, sweepgc, doomed, mode)
             /\ o \in Alive(n, list, white) \ doomed
             /\ (gcstate \in Sweeps => n.color[o] = white)
             /\ Good(entries, m, list, white, gcstate, sweepgc, doomed, mode)
  <2>1. GoodNow /\ o \in Alive(m, list, white) \ doomed
    BY <1>1, <1>8, HeldIs DEF Inv
  <2>2. Good(entries, m, list, white, gcstate, sweepgc, doomed, mode)
    BY <2>1 DEF GoodNow
  <2>3. Recoloured(m, n, list, white, gcstate, doomed)
    BY <1>5, <1>6, <1>7, <2>1, StatesAre DEF Recoloured
  <2>4. Alive(n, list, white) = Alive(m, list, white)
    BY <1>1, <1>7, <2>3, SameAlive
  <2>5. ASSUME gcstate \in Keep PROVE MarkingAt(entries, n, list, white, mode)
    <3>1. col = m.color
      BY <1>5, <2>5, StatesAre DEF col
    <3>2. n = m
      BY <1>1, <3>1 DEF Marks
    <3> QED  BY <2>2, <2>5, <3>2 DEF Good
  <2>6. Content(entries, o) \subseteq Content(entries, o) \cup {}
    OBVIOUS
  <2> HIDE DEF n
  <2>7. Good(entries, n, list, white, gcstate, sweepgc, doomed, mode)
    BY <1>1, <1>7, <2>1, <2>2, <2>3, <2>5, <2>6, Written
  <2> QED  BY <1>5, <1>6, <1>7, <2>1, <2>2, <2>4, <2>7
<1>9. CASE ~(Sweeping /\ sweepgc = <<"next", o>>)
  <2>1. s = [list |-> list, color |-> col, freed |-> {}, p |-> sweepgc]
    BY <1>9
  <2>2. s.list = list /\ s.color = col /\ s.freed = {} /\ s.p = sweepgc
    BY <2>1
  <2> HIDE DEF s
  <2>3. sweepgc # <<"next", o>>
    <3>1. CASE sweepgc = None
      BY <3>1, Pointers
    <3>2. CASE sweepgc # None
      BY <3>2, <1>1, <1>5, <1>9 DEF TypeInv, Sweeps
    <3> QED  BY <3>1, <3>2
  <2>4. entries' = entries
    BY <1>1, <1>4, <2>2 DEF Free, Contents
  <2>5. m' = n /\ lt = [list EXCEPT !["allgc"] = Kept(@, Obj \ {o}), !["finobj"] = <<o>> \o @]
    BY <1>4, <2>2
  <2> DEFINE lu == [list EXCEPT !["allgc"] = Kept(@, Obj \ {o}), !["finobj"] = <<o>> \o @]
  <2>6. list' = lu /\ sweepgc' = sweepgc
    BY <1>4, <2>2
  <2> HIDE DEF n, lt
  <2>7. /\ Separate(lu) /\ \A k \in Lists : Into(sweepgc, list, k) => Into(sweepgc, lu, k)
        /\ \A w \in WhiteColors, gs \in States : \A dm, md :
             /\ Good(entries, n, list, w, gs, sweepgc, dm, md)
             /\ o \in Alive(n, list, w) \ dm
             /\ gs \in Sweeps => n.color[o] = w
             => Good(entries, n, lu, w, gs, sweepgc, dm, md)
    BY <1>1, <1>2, <1>5, <1>7, <2>3, FinalizerMoves
  <2> HIDE DEF lu
  <2>8. TypeInv'
    <3>1. sweepgc = None \/ (gcstate \in {"swpallgc", "swpfinobj", "swptobefnz"} /\ \E l \in Lists : Into(sweepgc, lu, l))
      BY <1>1, <2>7 DEF TypeInv
    <3> QED  BY <1>1, <1>2, <1>7, <2>4, <2>5, <2>6, <2>7, <3>1 DEF TypeInv
  <2>9. ASSUME ~overtaken PROVE GoodNow'
    <3>1. Good(entries, n, lu, white, gcstate, sweepgc, doomed, mode)
      BY <1>1, <1>8, <2>7, <2>9
    <3> QED  BY <1>2, <2>4, <2>5, <2>6, <3>1 DEF GoodNow
  <2> QED  BY <1>2, <2>8, <2>9 DEF Inv
<1>10. CASE Sweeping /\ sweepgc = <<"next", o>>
  <2>1. s = t
    BY <1>10
  <2>2. PICK l \in Lists : Into(sweepgc, list, l)
    BY <1>1, <1>10, Pointers DEF TypeInv
  <2>3. t.p # sweepgc /\ \E B \in SUBSET Obj : SweptFrom(t, B, l, sweepgc, list, col, white)
    <3>1. SweepToLive(sweepgc, list, col, white).p # sweepgc
          /\ \E B \in SUBSET Obj : SweptFrom(SweepToLive(sweepgc, list, col, white), B, l, sweepgc, list, col, white)
      BY <1>1, <1>6, <2>2, ToLiveIs
    <3> QED  BY <3>1
  <2> HIDE DEF s, t
  <2>4. PICK B \in SUBSET Obj : SweptFrom(t, B, l, sweepgc, list, col, white)
    BY <2>3
  <2>5. o \in Range(list[l]) /\ o \notin Ahead(sweepgc, list)
    <3>1. o \in Range(list[l])
      <4>1. sweepgc # <<"head", l>> /\ \A x : sweepgc = <<"next", x>> => x = o
        BY <1>10, Pointers
      <4> QED  BY <2>2, <4>1 DEF Into
    <3> QED  BY <3>1, <1>1, <1>10, AheadIs
  <2>6. B \subseteq Ahead(sweepgc, list) /\ o \notin B /\ o \notin t.freed
        /\ t.freed \subseteq B
    BY <2>4, <2>5 DEF SweptFrom
  <2>7. t.p # <<"next", o>> /\ \A k \in Lists : Range(t.list[k]) = Range(list[k]) \ t.freed
    BY <2>3, <2>4, <1>10 DEF SweptFrom
  <2>8. r = [n EXCEPT !.color = t.color]
    BY <1>1, <2>1 DEF Marks
  <2>9. /\ r \in Marks /\ Free(entries, t.freed) \in Contents /\ Separate(t.list)
        /\ t.p = None \/ Into(t.p, t.list, l)
    <3>1. SweptFrom(t, B, l, sweepgc, list, n.color, white)
      BY <1>7, <2>4
    <3> HIDE DEF n, r
    <3> QED  BY <1>1, <1>7, <2>8, <3>1, SweptType
  <2>10. r.color[o] = white
    <3>1. r.color = t.color /\ t.color = [x \in Obj |-> IF x \in B \ t.freed THEN white ELSE col[x]]
      BY <1>1, <2>1, <2>4 DEF SweptFrom, Marks
    <3> QED  BY <3>1, <1>5, <1>6, <1>10, <2>6
  <2>11. o \notin Range(t.list["finobj"]) \cup Range(t.list["tobefnz"])
    BY <1>5, <2>7
  <2> DEFINE lu == [t.list EXCEPT !["allgc"] = Kept(@, Obj \ {o}), !["finobj"] = <<o>> \o @]
             ed == Free(entries, t.freed)
  <2>12. list' = lu /\ m' = r /\ entries' = ed /\ sweepgc' = t.p
    BY <1>4, <2>1
  <2> HIDE DEF r, n, lt, ed
  <2>13. ed \in Contents
    BY <2>9 DEF ed
  <2>14. /\ Separate(lu) /\ \A k \in Lists : Into(t.p, t.list, k) => Into(t.p, lu, k)
         /\ \A w \in WhiteColors, gs \in States : \A dm, md :
              /\ Good(ed, r, t.list, w, gs, t.p, dm, md)
              /\ o \in Alive(r, t.list, w) \ dm
              /\ gs \in Sweeps => r.color[o] = w
              => Good(ed, r, lu, w, gs, t.p, dm, md)
    BY <1>2, <2>7, <2>9, <2>11, <2>13, FinalizerMoves
  <2> HIDE DEF lu
  <2>15. TypeInv'
    <3>1. t.p = None \/ (gcstate \in {"swpallgc", "swpfinobj", "swptobefnz"} /\ \E k \in Lists : Into(t.p, lu, k))
      <4>1. sweepgc # None
        BY <1>10, Pointers
      <4>2. gcstate \in {"swpallgc", "swpfinobj", "swptobefnz"}
        BY <1>1, <4>1 DEF TypeInv
      <4> QED  BY <2>9, <2>14, <4>2
    <3> QED  BY <1>1, <1>2, <2>9, <2>12, <2>13, <2>14, <3>1 DEF TypeInv
  <2>16. ASSUME ~overtaken PROVE GoodNow'
    <3>1. /\ Good(entries, n, list, white, gcstate, sweepgc, doomed, mode) /\ o \in Alive(n, list, white) \ doomed
          /\ gcstate \in Sweeps
      BY <1>5, <1>8, <1>10, <2>16
    <3>2. CurList(gcstate) = l
      <4>1. Into(sweepgc, list, CurList(gcstate))
        <5>1. sweepgc # None
          BY <1>10, Pointers
        <5> QED  BY <3>1, <5>1 DEF Good, SweepAt
      <4>2. o \in Range(list[CurList(gcstate)])
        <5>1. sweepgc # <<"head", CurList(gcstate)>> /\ \A x : sweepgc = <<"next", x>> => x = o
          BY <1>10, Pointers
        <5> QED  BY <4>1, <5>1 DEF Into
      <4>3. CurList(gcstate) \in Lists
        BY <1>1, ThereIs
      <4> QED  BY <1>1, <2>5, <4>2, <4>3 DEF Separate
    <3>3. SweptFrom(t, B, CurList(gcstate), sweepgc, list, n.color, white)
      BY <1>7, <2>4, <3>2
    <3>4. Good(ed, [n EXCEPT !.color = t.color], t.list, white, gcstate, t.p, doomed, mode)
      BY <1>1, <1>7, <3>1, <3>3, SweptGood DEF ed
    <3>5. Good(ed, r, t.list, white, gcstate, t.p, doomed, mode)
      BY <2>8, <3>4 DEF r, n
    <3>6. o \in Alive(r, t.list, white) \ doomed
      <4>1. o \in There(t.list)
        <5>1. o \in Range(t.list[l])
          BY <2>5, <2>6, <2>7
        <5> QED  BY <2>9, <5>1, ThereIs
      <4> QED  BY <1>1, <2>10, <3>1, <4>1, ColorsAre DEF Alive
    <3>7. Good(ed, r, lu, white, gcstate, t.p, doomed, mode)
      BY <1>1, <2>10, <2>14, <3>5, <3>6
    <3> QED  BY <1>2, <2>12, <3>7 DEF GoodNow
  <2> QED  BY <1>2, <2>15, <2>16 DEF Inv
<1> QED  BY <1>9, <1>10

-----------------------------------------------------------------------------
(* The collector.                                                          *)

\* restartcollection.
LEMMA RestartKeeps ==
  ASSUME Inv, Restart
  PROVE  Inv'
<1>1. TypeInv /\ m \in Marks /\ entries \in Contents /\ Separate(list) /\ white \in WhiteColors
  BY DEF Inv, TypeInv
<1> DEFINE R == {Main, Reg} \cup Range(list["tobefnz"])
           S == {Main, Reg} \cup (Range(list["finobj"]) \cup Range(list["tobefnz"]))
<1>2. /\ gcstate = "pause" /\ gcstate' = "propagate"
      /\ m' = Mark(Emptied(m), entries, R) /\ doomed' = There(list) \ Access(entries, S)
      /\ UNCHANGED <<entries, mode, list, white, sweepgc, overtaken>>
  BY <1>1, NowIs DEF Restart, Emptied
<1>3. Emptied(m) \in Marks
  BY <1>1 DEF Emptied, Marks
<1>4. MarkedFrom(Emptied(m), m', entries, R)
  BY <1>1, <1>2, <1>3, MarkIs
<1>5. m' \in Marks
  BY <1>4 DEF MarkedFrom
<1>6. TypeInv'
  <2>1. sweepgc = None
    BY <1>1, <1>2 DEF TypeInv
  <2>2. gcstate' \in States
    BY <1>2 DEF States, Keep
  <2> QED  BY <1>1, <1>2, <1>5, <2>1, <2>2 DEF TypeInv
<1>7. ASSUME ~overtaken PROVE GoodNow'
  <2>1. Good(entries, m, list, white, "pause", sweepgc, doomed, mode)
    BY <1>2, <1>7 DEF Inv, GoodNow
  <2>2. Good(entries, m', list, white, "propagate", sweepgc, doomed', mode)
    BY <1>1, <1>2, <1>4, <2>1, CycleBegins
  <2> QED  BY <1>2, <2>2 DEF GoodNow
<1> QED  BY <1>2, <1>6, <1>7 DEF Inv

\* propagate.
LEMMA PropagateKeeps ==
  ASSUME Inv, Propagate
  PROVE  Inv'
<1>1. TypeInv /\ m \in Marks /\ entries \in Contents /\ Separate(list) /\ white \in WhiteColors
  BY DEF Inv, TypeInv
<1>2. PICK o \in m.gray : m' = Traverse(m, entries, o, FALSE)
  BY DEF Propagate
<1>3. /\ gcstate = "propagate" /\ UNCHANGED <<entries, mode, list, white, sweepgc, doomed, overtaken>>
      /\ gcstate \in Keep /\ gcstate' \in Keep
  BY DEF Propagate, Keep
<1>4. m' \in Marks
  BY <1>1, <1>2, EarlyType
<1>5. TypeInv'
  <2>1. sweepgc = None
    BY <1>1, <1>3 DEF TypeInv
  <2>2. gcstate' \in States
    BY <1>3 DEF States
  <2> QED  BY <1>1, <1>3, <1>4, <2>1, <2>2 DEF TypeInv
<1>6. ASSUME ~overtaken PROVE GoodNow'
  <2>1. Good(entries, m, list, white, gcstate, sweepgc, doomed, mode)
    BY <1>6 DEF Inv, GoodNow
  <2>2. Good(entries, Traverse(m, entries, o, FALSE), list, white, gcstate', sweepgc, doomed, mode)
    BY <1>1, <1>3, <2>1, EarlyGood
  <2> QED  BY <1>2, <1>3, <2>2 DEF GoodNow
<1> QED  BY <1>3, <1>5, <1>6 DEF Inv

\* The first part of the sweep leaves colours, content and lists.
LEMMA SweepBeginsType ==
  ASSUME NEW en \in Contents, NEW n \in Marks, NEW ls, Separate(ls), NEW w \in WhiteColors,
         NEW s, s = SweepToLive(<<"head", "allgc">>, ls, n.color, w)
  PROVE  /\ [n EXCEPT !.color = s.color] \in Marks /\ Free(en, s.freed) \in Contents /\ Separate(s.list)
         /\ s.p = None \/ \E l \in Lists : Into(s.p, s.list, l)
<1>1. n.color \in [Obj -> Colors]
  BY MarksType
<1>2. "allgc" \in Lists /\ Into(<<"head", "allgc">>, ls, "allgc")
  BY DEF Lists, Into
<1>3. \E B \in SUBSET Obj : SweptFrom(s, B, "allgc", <<"head", "allgc">>, ls, n.color, w)
  BY <1>1, <1>2, ToLiveIs
<1> QED  BY <1>2, <1>3, SweptType

\* atomic, then entersweep.
LEMMA AtomicKeeps ==
  ASSUME Inv, Atomic
  PROVE  Inv'
<1> DEFINE a == ClearRest(Resurrect(ClearValues(Marked(m, entries))))
           s == SweepToLive(<<"head", "allgc">>, a.ls, a.n.color, Other(white))
<1>1. /\ TypeInv /\ m \in Marks /\ entries \in Contents /\ Separate(list) /\ white \in WhiteColors
      /\ Other(white) \in WhiteColors
  BY ColorsAre DEF Inv, TypeInv
<1>2. /\ gcstate = "atomic" /\ gcstate' = "swpallgc" /\ white' = Other(white)
      /\ list' = s.list /\ m' = [a.n EXCEPT !.color = s.color]
      /\ entries' = Free(a.en, s.freed) /\ sweepgc' = s.p
      /\ UNCHANGED <<mode, doomed, overtaken>>
  BY DEF Atomic, EnterSweep
<1>3. a.n \in Marks /\ a.en \in Contents /\ Separate(a.ls)
  BY <1>1, AtomicType
<1>4. TypeInv'
  <2> HIDE DEF a
  <2>1. /\ m' \in Marks /\ entries' \in Contents /\ Separate(list')
        /\ sweepgc' = None \/ \E l \in Lists : Into(sweepgc', list', l)
    BY <1>1, <1>2, <1>3, SweepBeginsType
  <2>2. gcstate' \in States
    BY <1>2 DEF States, Sweeps
  <2> QED  BY <1>1, <1>2, <2>1, <2>2 DEF TypeInv
<1>5. ASSUME ~overtaken PROVE GoodNow'
  <2>1. Good(entries, m, list, white, gcstate, sweepgc, doomed, mode) /\ gcstate \in Keep
    BY <1>2, <1>5 DEF Inv, GoodNow, Keep
  <2>2. Good(Free(a.en, s.freed), [a.n EXCEPT !.color = s.color], s.list, Other(white), "swpallgc", s.p, doomed, mode)
    BY <1>1, <2>1, AtomicGood
  <2> HIDE DEF a, s
  <2> QED  BY <1>2, <2>2 DEF GoodNow
<1> QED  BY <1>2, <1>4, <1>5 DEF Inv

\* The outcome of a sweep, whose place may be changed.
LEMMA SweptIs ==
  ASSUME NEW s, s = [list |-> s.list, color |-> s.color, freed |-> s.freed, p |-> s.p], NEW p,
         Swept([s EXCEPT !.p = p], entries)
  PROVE  list' = s.list /\ m' = [m EXCEPT !.color = s.color] /\ entries' = Free(entries, s.freed) /\ sweepgc' = p
<1> DEFINE t == [s EXCEPT !.p = p]
<1>1. t.list = s.list /\ t.color = s.color /\ t.freed = s.freed /\ t.p = p
  OBVIOUS
<1>2. Swept(t, entries)
  OBVIOUS
<1> HIDE DEF t
<1> QED  BY <1>1, <1>2 DEF Swept

\* luaC_fullgc while marking.
LEMMA AbandonKeeps ==
  ASSUME Inv, Abandon
  PROVE  Inv'
<1> DEFINE s == SweepToLive(<<"head", "allgc">>, list, m.color, white)
<1>1. TypeInv /\ m \in Marks /\ entries \in Contents /\ Separate(list) /\ white \in WhiteColors
  BY DEF Inv, TypeInv
<1>2. /\ gcstate' = "swpallgc" /\ doomed' = {} /\ UNCHANGED <<mode, white, overtaken>>
      /\ list' = s.list /\ m' = [m EXCEPT !.color = s.color] /\ entries' = Free(entries, s.freed) /\ sweepgc' = s.p
  BY DEF Abandon, Swept
<1>3. TypeInv'
  <2>1. /\ m' \in Marks /\ entries' \in Contents /\ Separate(list')
        /\ sweepgc' = None \/ \E l \in Lists : Into(sweepgc', list', l)
    BY <1>1, <1>2, SweepBeginsType
  <2>2. gcstate' \in States
    BY <1>2 DEF States, Sweeps
  <2> QED  BY <1>1, <1>2, <2>1, <2>2 DEF TypeInv
<1>4. ASSUME ~overtaken PROVE GoodNow'
  <2>1. Good(entries, m, list, white, gcstate, sweepgc, doomed, mode)
    BY <1>4 DEF Inv, GoodNow
  <2>2. Good(Free(entries, s.freed), [m EXCEPT !.color = s.color], s.list, white, "swpallgc", s.p, {}, mode)
    BY <1>1, <2>1, AbandonGood
  <2> QED  BY <1>2, <2>2 DEF GoodNow
<1> QED  BY <1>2, <1>3, <1>4 DEF Inv

\* The list that is swept after another one.
LEMMA NextIs ==
  ASSUME NEW gs \in {"swpallgc", "swpfinobj", "swptobefnz"}, NEW ls
  PROVE  /\ NextState(gs) \in {"swpfinobj", "swptobefnz", "swpend"} /\ gs \in Sweeps
         /\ NextState(gs) = "swpend" => NextList(gs) = None
         /\ NextState(gs) # "swpend" => \E l \in Lists : Into(NextList(gs), ls, l)
BY DEF NextState, NextList, Lists, Into, Sweeps

\* A step of the sweep.
LEMMA SweepStepKeeps ==
  ASSUME Inv, SweepStep
  PROVE  Inv'
<1> DEFINE done == [list |-> list, color |-> m.color, freed |-> {}, p |-> None]
           t == SweepList(sweepgc, SweepMax, list, m.color, white)
           s == IF sweepgc = None THEN done ELSE t
           place == IF s.p = None THEN NextList(gcstate) ELSE s.p
<1>1. /\ TypeInv /\ m \in Marks /\ entries \in Contents /\ Separate(list) /\ white \in WhiteColors
      /\ m.color \in [Obj -> Colors] /\ SweepMax \in Nat
  BY MarksType, CollectorAssumption DEF Inv, TypeInv
<1>2. /\ gcstate \in {"swpallgc", "swpfinobj", "swptobefnz"}
      /\ Swept([s EXCEPT !.p = place], entries)
      /\ gcstate' = IF s.p = None THEN NextState(gcstate) ELSE gcstate
      /\ UNCHANGED <<mode, white, doomed, overtaken>>
  BY DEF SweepStep
<1>3. s = [list |-> s.list, color |-> s.color, freed |-> s.freed, p |-> s.p]
  <2>1. t = [list |-> t.list, color |-> t.color, freed |-> t.freed, p |-> t.p]
    BY SweepRecord
  <2> HIDE DEF t
  <2> QED  BY <2>1
<1>4. /\ list' = s.list /\ m' = [m EXCEPT !.color = s.color] /\ entries' = Free(entries, s.freed)
      /\ sweepgc' = place
  <2> HIDE DEF s, place
  <2> QED  BY <1>2, <1>3, SweptIs
<1>5. ASSUME sweepgc # None, NEW l \in Lists, Into(sweepgc, list, l)
      PROVE  \E B : SweptFrom(s, B, l, sweepgc, list, m.color, white)
  <2>1. \E B : SweptFrom(SweepList(sweepgc, SweepMax, list, m.color, white), B, l, sweepgc, list, m.color, white)
    BY <1>1, <1>5, SweepIs
  <2> QED  BY <1>5, <2>1
<1>6. sweepgc = None => /\ s.list = list /\ s.color = m.color /\ s.freed = {} /\ s.p = None
                        /\ [m EXCEPT !.color = s.color] = m /\ Free(entries, s.freed) = entries
  <2>1. [m EXCEPT !.color = m.color] = m
    BY <1>1 DEF Marks
  <2>2. Free(entries, {}) = entries
    BY <1>1 DEF Free, Contents
  <2> QED  BY <2>1, <2>2
<1> HIDE DEF s
<1>7. /\ m' \in Marks /\ entries' \in Contents /\ Separate(list')
      /\ s.p = None \/ \E l \in Lists : Into(s.p, s.list, l)
  <2>1. CASE sweepgc = None
    BY <1>1, <1>4, <1>6, <2>1
  <2>2. CASE sweepgc # None
    <3>1. PICK l \in Lists : Into(sweepgc, list, l)
      BY <1>1, <2>2 DEF TypeInv
    <3>2. PICK B : SweptFrom(s, B, l, sweepgc, list, m.color, white)
      BY <1>5, <2>2, <3>1
    <3> QED  BY <1>1, <1>4, <3>2, SweptType
  <2> QED  BY <2>1, <2>2
<1>8. TypeInv'
  <2>1. gcstate' \in States
    <3>1. NextState(gcstate) \in {"swpfinobj", "swptobefnz", "swpend"}
      BY <1>2, NextIs
    <3> QED  BY <1>2, <3>1 DEF States, Sweeps
  <2>2. \/ sweepgc' = None
        \/ gcstate' \in {"swpallgc", "swpfinobj", "swptobefnz"} /\ \E l \in Lists : Into(sweepgc', list', l)
    <3>1. CASE s.p = None
      <4>1. sweepgc' = NextList(gcstate) /\ gcstate' = NextState(gcstate)
        BY <1>2, <1>4, <3>1
      <4>2. /\ NextState(gcstate) \in {"swpfinobj", "swptobefnz", "swpend"}
            /\ NextState(gcstate) = "swpend" => NextList(gcstate) = None
            /\ NextState(gcstate) # "swpend" => \E l \in Lists : Into(NextList(gcstate), list', l)
        BY <1>2, NextIs
      <4> QED  BY <4>1, <4>2
    <3>2. CASE s.p # None
      BY <1>2, <1>4, <1>7, <3>2
    <3> QED  BY <3>1, <3>2
  <2> QED  BY <1>1, <1>2, <1>7, <2>1, <2>2 DEF TypeInv
<1>9. ASSUME ~overtaken PROVE GoodNow'
  <2>1. Good(entries, m, list, white, gcstate, sweepgc, doomed, mode) /\ gcstate \in Sweeps
    BY <1>2, <1>9, NextIs DEF Inv, GoodNow
  <2>2. Good(entries', m', list', white, gcstate, s.p, doomed, mode)
    <3>1. CASE sweepgc = None
      BY <1>4, <1>6, <2>1, <3>1
    <3>2. CASE sweepgc # None
      <4>1. CurList(gcstate) \in Lists /\ Into(sweepgc, list, CurList(gcstate))
        BY <1>1, <2>1, <3>2, ThereIs DEF Good, SweepAt
      <4>2. PICK B : SweptFrom(s, B, CurList(gcstate), sweepgc, list, m.color, white)
        BY <1>5, <3>2, <4>1
      <4>3. Good(Free(entries, s.freed), [m EXCEPT !.color = s.color], s.list, white, gcstate, s.p, doomed, mode)
        BY <1>1, <2>1, <4>2, SweptGood
      <4> QED  BY <1>4, <4>3
    <3> QED  BY <3>1, <3>2
  <2>3. CASE s.p = None
    <3>1. Good(entries', m', list', white, NextState(gcstate), NextList(gcstate), doomed, mode)
      BY <1>2, <1>7, <2>2, <2>3, ListEnds
    <3> QED  BY <1>2, <1>4, <2>3, <3>1 DEF GoodNow
  <2>4. CASE s.p # None
    BY <1>2, <1>4, <2>2, <2>4 DEF GoodNow
  <2> QED  BY <2>3, <2>4
<1> QED  BY <1>2, <1>8, <1>9 DEF Inv

\* The end of the sweep.
LEMMA SweepEndKeeps ==
  ASSUME Inv, SweepEnd
  PROVE  Inv'
<1>1. /\ TypeInv /\ m \in Marks /\ entries \in Contents /\ Separate(list) /\ white \in WhiteColors
      /\ m.color \in [Obj -> Colors] /\ Main \in Obj
  BY MarksType, Kinds DEF Inv, TypeInv
<1>2. /\ gcstate = "swpend" /\ gcstate' = "callfin" /\ m' = [m EXCEPT !.color[Main] = white]
      /\ UNCHANGED <<entries, mode, list, white, sweepgc, doomed, overtaken>>
  BY DEF SweepEnd
<1>3. sweepgc = None
  BY <1>1, <1>2 DEF TypeInv
<1>4. m' \in Marks
  <2>1. [m.color EXCEPT ![Main] = white] \in [Obj -> Colors]
    BY <1>1, WhiteSet
  <2> QED  BY <1>1, <1>2, <2>1 DEF Marks
<1>5. TypeInv'
  <2>1. gcstate' \in States
    BY <1>2 DEF States, Rests
  <2> QED  BY <1>1, <1>2, <1>3, <1>4, <2>1 DEF TypeInv
<1>6. ASSUME ~overtaken PROVE GoodNow'
  <2>1. Good(entries, m, list, white, "swpend", None, doomed, mode)
    BY <1>2, <1>3, <1>6 DEF Inv, GoodNow
  <2>2. Good(entries, [m EXCEPT !.color[Main] = white], list, white, "callfin", None, doomed, mode)
    BY <1>1, <2>1, SweepEnds
  <2> QED  BY <1>2, <1>3, <2>2 DEF GoodNow
<1> QED  BY <1>2, <1>5, <1>6 DEF Inv

\* The end of the cycle.
LEMMA FinishKeeps ==
  ASSUME Inv, Finish
  PROVE  Inv'
<1>1. TypeInv
  BY DEF Inv
<1>2. /\ gcstate = "callfin" /\ gcstate' = "pause"
      /\ UNCHANGED <<entries, mode, m, list, white, sweepgc, doomed, overtaken>>
  BY DEF Finish
<1>3. TypeInv'
  <2>1. sweepgc = None /\ gcstate' \in States
    BY <1>1, <1>2 DEF TypeInv, States, Rests
  <2> QED  BY <1>1, <1>2, <2>1 DEF TypeInv
<1>4. ASSUME ~overtaken PROVE GoodNow'
  <2>1. Good(entries, m, list, white, "pause", sweepgc, doomed, mode)
    BY <1>2, <1>4, CycleEnds DEF Inv, GoodNow
  <2> QED  BY <1>2, <2>1 DEF GoodNow
<1> QED  BY <1>2, <1>3, <1>4 DEF Inv

\* What changes none of this keeps the invariant.
LEMMA StutterKeeps ==
  ASSUME Inv, UNCHANGED vars
  PROVE  Inv'
BY DEF Inv, TypeInv, GoodNow, vars

\* Every operation of the script keeps the invariant.
LEMMA ScriptKeeps ==
  ASSUME Inv, Script
  PROVE  Inv'
<1>1. CASE \E o \in Tables \cup Userdata \cup Closures : New(o)
  BY <1>1, NewKeeps
<1>2. CASE \E s \in Strings : Intern(s)
  BY <1>2, InternKeeps
<1>3. CASE \E t \in Held, k, v \in Held \cup {Plain} : SetTable(t, k, v)
  BY <1>3, SetTableKeeps
<1>4. CASE \E o \in Held : \E e \in entries[o] : Unset(o, e) \/ Get(o, e)
  BY <1>4, UnsetKeeps, GetKeeps
<1>5. CASE \E v \in Held \ {Reg} : Pop(v) \/ SetFinalizer(v)
  BY <1>5, PopKeeps, SetFinalizerKeeps
<1>6. CASE \E o, v \in Held : SetUserValue(o, v) \/ SetUpvalue(o, v)
  BY <1>6, SetUserValueKeeps, SetUpvalueKeeps
<1> QED  BY <1>1, <1>2, <1>3, <1>4, <1>5, <1>6 DEF Script

\* Every step of the collector keeps the invariant.
LEMMA StepKeeps ==
  ASSUME Inv, Step
  PROVE  Inv'
<1>1. CASE Restart
  BY <1>1, RestartKeeps
<1>2. CASE Propagate
  BY <1>2, PropagateKeeps
<1>3. CASE Atomic
  BY <1>3, AtomicKeeps
<1>4. CASE Abandon
  BY <1>4, AbandonKeeps
<1>5. CASE SweepStep
  BY <1>5, SweepStepKeeps
<1>6. CASE SweepEnd
  BY <1>6, SweepEndKeeps
<1>7. CASE Finish
  BY <1>7, FinishKeeps
<1>8. CASE RunFinalizer
  BY <1>8, RunFinalizerKeeps
<1> QED  BY <1>1, <1>2, <1>3, <1>4, <1>5, <1>6, <1>7, <1>8 DEF Step

\* The inductive invariant: types, lists without duplicates and a sweep pointer into one of them,
\* always; and until a finalizer overtakes the sweep, what marking and sweeping rely on.
THEOREM InductiveInvariant == Spec => []Inv
<1>1. Init => Inv
  BY InitGood
<1>2. Inv /\ [Next]_vars => Inv'
  <2>1. ASSUME Inv, Next PROVE Inv'
    BY <2>1, ScriptKeeps, StepKeeps DEF Next
  <2>2. ASSUME Inv, UNCHANGED vars PROVE Inv'
    BY <2>2, StutterKeeps
  <2> QED  BY <2>1, <2>2
<1> QED  BY <1>1, <1>2, PTL DEF Spec

-----------------------------------------------------------------------------
(* What the invariant is for.                                              *)

\* While marking, a gray object is in one gray list, and no other object is in any.
LEMMA InOneList ==
  ASSUME NEW en, NEW ls, NEW w, NEW md, MarkingAt(en, m, ls, w, md), NEW o \in Obj
  PROVE  GrayLists(o) = IF m.color[o] = "gray" THEN 1 ELSE 0
<1> DEFINE names == {"gray", "grayagain", "weak", "ephemeron", "allweak"}
           G == {l \in names : o \in m[l]}
<1>1. /\ m.weak = {} /\ m.ephemeron = {}
      /\ m.gray \cap m.grayagain = {} /\ m.gray \cap m.allweak = {} /\ m.grayagain \cap m.allweak = {}
      /\ m.color[o] = "gray" <=> o \in m.gray \cup m.grayagain \cup m.allweak
  BY DEF MarkingAt
<1>2. \A l : l \in G <=> \/ l = "gray" /\ o \in m.gray
                         \/ l = "grayagain" /\ o \in m.grayagain
                         \/ l = "allweak" /\ o \in m.allweak
  BY <1>1
<1>3. GrayLists(o) = Cardinality(G)
  BY DEF GrayLists
<1> HIDE DEF G
<1>4. CASE o \in m.gray
  <2>1. G = {"gray"}
    BY <1>1, <1>2, <1>4
  <2> QED  BY <2>1, <1>1, <1>3, <1>4, FS_Singleton
<1>5. CASE o \in m.grayagain
  <2>1. G = {"grayagain"}
    BY <1>1, <1>2, <1>5
  <2> QED  BY <2>1, <1>1, <1>3, <1>5, FS_Singleton
<1>6. CASE o \in m.allweak
  <2>1. G = {"allweak"}
    BY <1>1, <1>2, <1>6
  <2> QED  BY <2>1, <1>1, <1>3, <1>6, FS_Singleton
<1>7. CASE o \notin m.gray \cup m.grayagain \cup m.allweak
  <2>1. G = {}
    BY <1>2, <1>7
  <2> QED  BY <2>1, <1>1, <1>3, <1>7, FS_EmptySet
<1> QED  BY <1>4, <1>5, <1>6, <1>7

\* The types of the runs' invariant.
LEMMA TypesAre ==
  ASSUME TypeInv
  PROVE  TypeOK
<1>1. \A l \in Lists : IsInjective(list[l])
  BY ListIs DEF TypeInv, Separate
<1>2. entries \in [Obj -> SUBSET (Value \X Value)]
  BY DEF TypeInv, Contents
<1>3. m.color \in [Obj -> {"white0", "white1", "gray", "black"}]
  BY MarksType DEF TypeInv, Colors
<1> QED  BY <1>1, <1>2, <1>3 DEF TypeOK, TypeInv, WhiteColors

\* Types, lists in which no object occurs twice; while marking, no black object leads to a
\* white one and every gray object is in exactly one gray list; between cycles all is white.
THEOREM MarkingIsSound == Spec => []MainInvariant
<1>1. ASSUME Inv PROVE MainInvariant
  <2>1. TypeInv /\ TypeOK
    BY <1>1, TypesAre DEF Inv
  <2>2. Allocated = There(list) /\ There(list) \subseteq Obj /\ (KeepInvariant <=> gcstate \in Keep)
    BY <2>1, NowIs
  <2>3. ASSUME ~overtaken, KeepInvariant PROVE BlackPointsToMarked /\ \A o \in Allocated : GrayLists(o) = IF m.color[o] = "gray" THEN 1 ELSE 0
    <3>1. MarkingAt(entries, m, list, white, mode)
      BY <1>1, <2>2, <2>3 DEF Inv, GoodNow, Good
    <3>2. BlackPointsToMarked
      BY <2>2, <3>1 DEF BlackPointsToMarked, MarkingAt, Content
    <3>3. ASSUME NEW o \in Allocated PROVE GrayLists(o) = IF m.color[o] = "gray" THEN 1 ELSE 0
      BY <2>2, <3>1, InOneList
    <3> QED  BY <3>2, <3>3
  <2>4. ASSUME ~overtaken, gcstate = "pause" PROVE \A o \in Allocated : m.color[o] = white
    <3>1. SweepAt(m, list, white, gcstate, sweepgc) /\ gcstate \in Rests
      BY <1>1, <2>4 DEF Inv, GoodNow, Good, Rests
    <3> QED  BY <2>2, <3>1 DEF SweepAt
  <2> QED  BY <2>1, <2>3, <2>4 DEF MainInvariant
<1> QED  BY <1>1, InductiveInvariant, PTL

\* As long as no finalizer has overtaken the sweep, nothing that the script or a finalizer
\* can get hold of is freed, or about to be freed.
THEOREM NothingDangles == Spec => [](~overtaken => NoDangling)
<1>1. ASSUME Inv PROVE ~overtaken => NoDangling
  <2> DEFINE S == {Main, Reg} \cup In("tobefnz")
             A == Alive(m, list, white)
  <2>1. ASSUME ~overtaken, NEW o \in Access(entries, S)
        PROVE  o \in Allocated /\ m.color[o] # Other(white)
    <3>1. TypeInv /\ SafeAt(entries, m, list, white)
      BY <1>1, <2>1 DEF Inv, GoodNow, Good
    <3>2. S \subseteq A /\ Closed(entries, A) /\ A \subseteq There(list)
      BY <3>1, NowIs DEF SafeAt, Alive
    <3>3. entries \in Contents /\ There(list) \subseteq Obj /\ Allocated = There(list)
      BY <3>1, NowIs DEF TypeInv
    <3> HIDE DEF S, A
    <3>4. S \in SUBSET Obj /\ A \in SUBSET Obj
      BY <3>2, <3>3
    <3>5. Access(entries, S) \subseteq A
      BY <3>2, <3>3, <3>4, AccessIs
    <3> QED  BY <2>1, <3>3, <3>5 DEF A, Alive
  <2> QED  BY <2>1 DEF NoDangling
<1> QED  BY <1>1, InductiveInvariant, PTL

\* What nothing led to when a cycle began is gone when it has ended.
THEOREM GarbageIsFreed == Spec => []GarbageGoes
<1>1. ASSUME Inv PROVE GarbageGoes
  <2>1. ASSUME gcstate = "pause", ~overtaken PROVE doomed \cap Allocated = {}
    <3>1. TypeInv /\ GarbageAt(entries, m, list, white, gcstate, doomed) /\ gcstate \in Rests
      BY <1>1, <2>1 DEF Inv, GoodNow, Good, Rests
    <3> QED  BY <3>1, NowIs DEF GarbageAt
  <2> QED  BY <2>1 DEF GarbageGoes
<1> QED  BY <1>1, InductiveInvariant, PTL

-----------------------------------------------------------------------------
(* What weak tables lose.                                                  *)

\* The entries that keep an object alive keep objects alive, the more the more is alive.
LEMMA StrongIs ==
  ASSUME NEW en \in Contents, NEW o \in Obj, NEW X, NEW Y, X \subseteq Y
  PROVE  /\ Strong(en, o, X) \subseteq Obj \cup {Plain}
         /\ Strong(en, o, X) \subseteq Strong(en, o, Y)
         /\ o \in Strings => Strong(en, o, X) = {}
<1>1. /\ Keys(en, o) \subseteq Obj /\ Vals(en, o) \subseteq Obj
      /\ \A e \in en[o] : e[1] \in Obj \cup {Plain} /\ e[2] \in Obj \cup {Plain}
  BY ContentIsObjects
<1>2. o \in Strings => ~IsTable(o) /\ Content(en, o) = {}
  BY ContentIsObjects, Kinds DEF IsTable
<1>3. {e[2] : e \in {f \in en[o] : f[1] \in X \cup Strings \cup {Plain}}} \subseteq Obj \cup {Plain}
  BY <1>1
<1>4. Strong(en, o, X) \subseteq Obj \cup {Plain}
  BY <1>1, <1>3 DEF Strong
<1>5. Strong(en, o, X) \subseteq Strong(en, o, Y)
  BY DEF Strong
<1> QED  BY <1>2, <1>4, <1>5 DEF Strong, Content

\* What the objects of L keep alive is in L.
StrongClosed(en, L) == \A o \in L : Strong(en, o, L) \subseteq L \cup {Plain}

\* What is reached from objects of such a set is in the set.
LEMMA ReachIs ==
  ASSUME NEW en \in Contents, NEW L \in SUBSET Obj, StrongClosed(en, L), NEW S, S \subseteq L
  PROVE  Reach(en, S) \subseteq L
<1> DEFINE led(X) == UNION {Strong(en, o, X) : o \in X}
           next(X) == X \cup (led(X) \ {Plain})
           reach[X \in SUBSET Obj] == IF next(X) = X THEN X ELSE reach[next(X)]
           step == [X \in SUBSET Obj |-> next(X)]
           stop == Stops(step)
           I == SUBSET L
<1>1. \A X \in SUBSET Obj : led(X) \subseteq Obj \cup {Plain}
  BY StrongIs
<1>2. \A X \in SUBSET L : led(X) \subseteq L \cup {Plain}
  <2>1. ASSUME NEW X \in SUBSET L, NEW o \in X PROVE Strong(en, o, X) \subseteq L \cup {Plain}
    <3>1. o \in Obj /\ X \subseteq L /\ Strong(en, o, L) \subseteq L \cup {Plain}
      BY <2>1 DEF StrongClosed
    <3>2. Strong(en, o, X) \subseteq Strong(en, o, L)
      BY <3>1, StrongIs
    <3> QED  BY <3>1, <3>2
  <2> QED  BY <2>1
<1>3. \A X \in SUBSET Obj : next(X) \in SUBSET Obj /\ X \subseteq next(X)
  <2> HIDE DEF led
  <2> QED  BY <1>1
<1>4. \A X \in I : next(X) \in I
  <2> HIDE DEF led
  <2> QED  BY <1>2
<1>5. Growing(step) /\ \A X \in SUBSET Obj : step[X] = next(X)
  <2> HIDE DEF next
  <2> QED  BY <1>3 DEF Growing
<1>6. \A g : g = [X \in SUBSET Obj |-> IF next(X) = X THEN X ELSE g[next(X)]] <=> Closes(g, step)
  <2> TAKE g
  <2>1. \A X \in SUBSET Obj : (IF next(X) = X THEN X ELSE g[next(X)]) = (IF X \in stop THEN X ELSE g[step[X]])
    BY <1>5 DEF Stops
  <2> HIDE DEF next, stop, step
  <2> QED  BY <2>1 DEF Loop, Closes, stop
<1>7. Closes(reach, step)
  <2>1. \E g : Closes(g, step)
    <3> HIDE DEF step
    <3> QED  BY <1>5, ClosureExists
  <2> HIDE DEF next, stop, step
  <2> QED  BY <2>1, <1>6
<1>8. Reach(en, S) = reach[S]
  BY DEF Reach
<1> HIDE DEF reach
<1>9. reach[S] \in I
  <2>1. Closes(reach, step) /\ Growing(step) /\ I \subseteq SUBSET Obj /\ S \in I
    BY <1>5, <1>7
  <2>2. \A X \in I : step[X] \in I
    <3> HIDE DEF next, step
    <3> QED  BY <1>4, <1>5
  <2> HIDE DEF step, I
  <2> QED  BY <2>1, <2>2, ClosureIs
<1> QED  BY <1>8, <1>9

\* What marks n do not let go: strings are values.
Lasting(n) == (Obj \ Whites(n)) \cup Strings

\* It is objects, more of them when fewer are white, and what is cleared is not among it.
LEMMA LastingIs ==
  ASSUME NEW n \in Marks
  PROVE  /\ Lasting(n) \in SUBSET Obj /\ Strings \subseteq Lasting(n)
         /\ \A r : Whites(r) \subseteq Whites(n) => Lasting(n) \subseteq Lasting(r)
         /\ \A v \in Obj \cup {Plain} : Cleared(n, v) <=> v \in Obj \ Lasting(n)
<1>1. \A v \in Obj \cup {Plain} : Cleared(n, v) <=> v \in Whites(n) \ Strings
  BY ClearedStays
<1>2. Strings \subseteq Obj /\ Plain \notin Obj /\ Whites(n) \subseteq Obj
  BY Kinds, MarksType
<1> QED  BY <1>1, <1>2 DEF Lasting

\* Of an object that is done nothing white is kept alive by an entry.
LEMMA DoneKeeps ==
  ASSUME NEW n \in Marks, NEW en \in Contents, NEW o \in Obj,
         Done(n, en, o), o \in n.ephemeron => Settled(n, en, o),
         mode \in [Tables \cup {Reg} -> {"", "k", "v", "kv"}]
  PROVE  Strong(en, o, Lasting(n)) \subseteq Lasting(n) \cup {Plain}
<1> DEFINE L == Lasting(n)
           K == {e[2] : e \in {f \in en[o] : f[1] \in L \cup Strings \cup {Plain}}}
<1>1. /\ Keys(en, o) \subseteq Obj /\ Vals(en, o) \subseteq Obj
      /\ \A e \in en[o] : e[1] \in Obj \cup {Plain} /\ e[2] \in Obj \cup {Plain}
  BY ContentIsObjects
<1>2. /\ L \in SUBSET Obj /\ Strings \subseteq L
      /\ \A v \in Obj \cup {Plain} : Cleared(n, v) <=> v \in Obj \ L
      /\ \A v \in Obj : v \notin Whites(n) => v \in L
  BY LastingIs DEF Lasting
<1>3. Plain \notin Obj
  BY Kinds
<1> HIDE DEF L
<1>4. CASE Weak(o, "v")
  <2>1. Keys(en, o) \subseteq L
    BY <1>1, <1>2, <1>4 DEF Done
  <2>2. Strong(en, o, L) \subseteq Keys(en, o) \cup Strings
    BY <1>4 DEF Strong, Weak
  <2> QED  BY <2>1, <2>2, <1>2 DEF L
<1>5. CASE Weak(o, "k")
  <2>1. Strong(en, o, L) \subseteq K \cup Strings
    BY <1>5 DEF Strong, Weak
  <2>2. CASE o \in n.ephemeron
    <3>1. ASSUME NEW f \in en[o], f[1] \in L \cup Strings \cup {Plain} PROVE f[2] \in L \cup {Plain}
      <4>1. f[1] \in Obj \cup {Plain} /\ f[2] \in Obj \cup {Plain} /\ ~Cleared(n, f[1])
        BY <3>1, <1>1, <1>2, <1>3
      <4>2. f[2] \notin Whites(n)
        BY <2>2, <4>1 DEF Settled
      <4> QED  BY <4>1, <4>2, <1>2
    <3>2. K \subseteq L \cup {Plain}
      BY <3>1
    <3> QED  BY <2>1, <3>2, <1>2 DEF L
  <2>3. CASE o \notin n.ephemeron
    <3>1. Vals(en, o) \cap Whites(n) = {}
      BY <1>5, <2>3 DEF Done
    <3>2. K \subseteq Vals(en, o) \cup {Plain}
      BY DEF Vals
    <3> QED  BY <2>1, <3>1, <3>2, <1>1, <1>2 DEF L
  <2> QED  BY <2>2, <2>3
<1>6. CASE Weak(o, "kv")
  <2>1. Strong(en, o, L) \subseteq Strings
    BY <1>6 DEF Strong, Weak
  <2> QED  BY <2>1, <1>2 DEF L
<1>7. CASE ~(Weak(o, "v") \/ Weak(o, "k") \/ Weak(o, "kv"))
  <2>1. Content(en, o) \cap Whites(n) = {}
    BY <1>7 DEF Done
  <2>2. Content(en, o) \subseteq L
    BY <2>1, <1>1, <1>2 DEF Content
  <2>3. IsTable(o) => mode[o] = ""
    BY <1>7 DEF Weak, IsTable
  <2>4. Strong(en, o, L) = Content(en, o)
    BY <2>3 DEF Strong, Content
  <2> QED  BY <2>2, <2>4 DEF L
<1> QED  BY <1>4, <1>5, <1>6, <1>7

\* Less and less is white.
Fewer(r, b, d, f, c) ==
  /\ r \in Marks /\ b.n \in Marks /\ d.n \in Marks /\ f.n \in Marks /\ c.n \in Marks
  /\ Whites(c.n) \subseteq Whites(f.n) /\ Whites(f.n) \subseteq Whites(d.n)
  /\ Whites(d.n) \subseteq Whites(b.n) /\ Whites(b.n) \subseteq Whites(r)

\* Nothing white is kept alive when everything reachable is marked, nor when what waits
\* for its finalizer is marked as well, by the entries there were before any was cleared.
LEMMA StagesKeep ==
  ASSUME entries \in Contents, mode \in [Tables \cup {Reg} -> {"", "k", "v", "kv"}],
         NEW L, NEW r, NEW b, NEW d, NEW f, NEW c, Stages(r, b, d, f, c, L)
  PROVE  /\ Fewer(r, b, d, f, c)
         /\ Lasting(r) \subseteq Lasting(d.n)
         /\ StrongClosed(entries, Lasting(r)) /\ StrongClosed(entries, Lasting(d.n))
<1>1. /\ Ready(r, entries, L) /\ AllSettled(r, entries)
      /\ b \in Snapshots /\ Advanced(r, b.n)
      /\ \A o \in Obj : b.en[o] \subseteq entries[o] /\ (o \notin r.weak \cup r.allweak => b.en[o] = entries[o])
      /\ d \in Snapshots /\ d.en = b.en /\ Advanced(b.n, d.n) /\ Ready(d.n, b.en, L) /\ AllSettled(d.n, b.en)
  BY DEF Stages
<1>2. f \in Snapshots /\ c \in Snapshots /\ Advanced(d.n, f.n) /\ Advanced(f.n, c.n)
  BY DEF Stages, ClearedFrom
<1>3. r \in Marks /\ b.n \in Marks /\ d.n \in Marks /\ f.n \in Marks /\ c.n \in Marks /\ b.en \in Contents
  BY <1>1, <1>2 DEF Ready, Snapshots
<1>4. /\ Whites(c.n) \subseteq Whites(f.n) /\ Whites(f.n) \subseteq Whites(d.n)
      /\ Whites(d.n) \subseteq Whites(b.n) /\ Whites(b.n) \subseteq Whites(r)
  BY <1>1, <1>2, <1>3, AdvancedStays
<1>5. /\ Lasting(r) \subseteq Lasting(d.n) /\ Lasting(r) \in SUBSET Obj /\ Lasting(d.n) \in SUBSET Obj
  BY <1>3, <1>4, LastingIs
<1>6. ASSUME NEW o \in Obj, o \notin Whites(r) PROVE Strong(entries, o, Lasting(r)) \subseteq Lasting(r) \cup {Plain}
  <2>1. Done(r, entries, o) /\ (o \in r.ephemeron => Settled(r, entries, o))
    BY <1>1, <1>6 DEF Ready, Pending, AllSettled
  <2> QED  BY <1>3, <2>1, DoneKeeps
<1>7. ASSUME NEW o \in Obj, o \notin Whites(d.n) PROVE Strong(entries, o, Lasting(d.n)) \subseteq Lasting(d.n) \cup {Plain}
  <2>1. CASE o \notin r.weak \cup r.allweak
    <3>1. Done(d.n, b.en, o) /\ (o \in d.n.ephemeron => Settled(d.n, b.en, o))
      BY <1>1, <1>7 DEF Ready, Pending, AllSettled
    <3>2. Strong(b.en, o, Lasting(d.n)) \subseteq Lasting(d.n) \cup {Plain}
      BY <1>3, <1>7, <3>1, DoneKeeps
    <3>3. b.en[o] = entries[o]
      BY <1>1, <1>7, <2>1
    <3>4. Strong(b.en, o, Lasting(d.n)) = Strong(entries, o, Lasting(d.n))
      BY <3>3 DEF Strong, Keys, Vals
    <3> QED  BY <3>2, <3>4
  <2>2. CASE o \in r.weak \cup r.allweak
    <3>1. /\ o \notin Whites(r)
          /\ o \in r.weak => Weak(o, "v")
          /\ o \in r.allweak => Weak(o, "kv") \/ (Weak(o, "k") /\ Vals(entries, o) \cap Whites(r) = {})
      BY <1>1, <2>2 DEF Ready, Sorted
    <3>2. Strong(entries, o, Lasting(r)) \subseteq Lasting(r) \cup {Plain}
      BY <3>1, <1>6, <1>7
    <3>3. CASE Weak(o, "v") \/ Weak(o, "kv")
      <4>1. Strong(entries, o, Lasting(d.n)) = Strong(entries, o, Lasting(r))
        BY <3>3 DEF Strong, Weak
      <4> QED  BY <4>1, <3>2, <1>5
    <3>4. CASE Weak(o, "k") /\ Vals(entries, o) \cap Whites(r) = {}
      <4>1. Strong(entries, o, Lasting(d.n)) \subseteq Vals(entries, o) \cup Strings \cup {Plain}
        BY <3>4 DEF Strong, Weak, Vals
      <4>2. Vals(entries, o) \subseteq Obj
        BY <1>7, ContentIsObjects
      <4>3. Vals(entries, o) \subseteq Lasting(r) /\ Strings \subseteq Lasting(r)
        BY <4>2, <3>4 DEF Lasting
      <4> QED  BY <4>1, <4>3, <1>5
    <3> QED  BY <2>2, <3>1, <3>3, <3>4
  <2> QED  BY <2>1, <2>2
<1>8. \A o \in Strings : o \in Obj /\ \A X : Strong(entries, o, X) = {}
  BY StrongIs, Kinds
<1>9. StrongClosed(entries, Lasting(r))
  BY <1>6, <1>8 DEF StrongClosed, Lasting
<1>10. StrongClosed(entries, Lasting(d.n))
  BY <1>7, <1>8 DEF StrongClosed, Lasting
<1> QED  BY <1>3, <1>4, <1>5, <1>9, <1>10 DEF Fewer

\* An entry is cleared for its value, when the table has weak values and everything reachable
\* is marked, or for its key, when the table has weak keys and the resurrected are marked too.
LEMMA StagesClear ==
  ASSUME entries \in Contents, mode \in [Tables \cup {Reg} -> {"", "k", "v", "kv"}],
         NEW L, NEW r, NEW b, NEW d, NEW f, NEW c, Stages(r, b, d, f, c, L)
  PROVE  \A o \in Obj : \A e \in entries[o] \ c.en[o] :
           \/ (Weak(o, "v") \/ Weak(o, "kv")) /\ e[2] \notin Lasting(r)
           \/ (Weak(o, "k") \/ Weak(o, "kv")) /\ e[1] \notin Lasting(d.n)
<1>1. /\ r \in Marks /\ b.n \in Marks /\ d.n \in Marks /\ f.n \in Marks /\ c.n \in Marks
      /\ Whites(c.n) \subseteq Whites(f.n) /\ Whites(f.n) \subseteq Whites(d.n)
      /\ Whites(d.n) \subseteq Whites(b.n) /\ Whites(b.n) \subseteq Whites(r)
      /\ Lasting(r) \subseteq Lasting(d.n)
  <2>1. Fewer(r, b, d, f, c) /\ Lasting(r) \subseteq Lasting(d.n)
    BY StagesKeep
  <2> QED  BY <2>1 DEF Fewer
<1> TAKE o \in Obj
<1> TAKE e \in entries[o] \ c.en[o]
<1>2. e[1] \in Obj \cup {Plain} /\ e[2] \in Obj \cup {Plain} /\ Plain \notin Obj /\ e \in entries[o]
  BY ContentIsObjects, Kinds
<1>3. /\ \A v \in Obj \cup {Plain} : Cleared(b.n, v) => v \in Obj \ Lasting(r)
      /\ \A v \in Obj \cup {Plain} : Cleared(f.n, v) => v \in Obj \ Lasting(d.n)
      /\ \A v \in Obj \cup {Plain} : Cleared(c.n, v) => v \in Obj \ Lasting(d.n)
  BY <1>1, LastingIs
<1>4. /\ Sorted(r, entries) /\ Sorted(d.n, b.en)
      /\ \A p \in Obj : b.en[p] \subseteq entries[p] /\ (p \notin r.weak \cup r.allweak => b.en[p] = entries[p])
      /\ \A p \in r.weak \cup r.allweak : \A g \in entries[p] \ b.en[p] : Cleared(b.n, g[2])
      /\ d.en = b.en /\ d \in Snapshots
  BY DEF Stages, Ready
<1> DEFINE S == d.n.ephemeron \cup d.n.allweak
           T == (d.n.weak \ d.weak) \cup (d.n.allweak \ d.allweak)
<1>5. ClearedFrom(d, f, S, 1) /\ ClearedFrom(f, c, T, 2)
  BY DEF Stages
<1>6. \A p \in Obj \ S : f.en[p] = d.en[p]
  <2> HIDE DEF S, T
  <2> QED  BY <1>5 DEF ClearedFrom
<1>7. \A p \in S : \A g \in d.en[p] \ f.en[p] : Cleared(f.n, g[1])
  <2> HIDE DEF S, T
  <2> QED  BY <1>5 DEF ClearedFrom
<1>8. /\ \A p \in Obj : f.en[p] \subseteq d.en[p]
      /\ \A p \in Obj \ T : c.en[p] = f.en[p]
      /\ \A p \in T : \A g \in f.en[p] \ c.en[p] : Cleared(c.n, g[2])
  <2> HIDE DEF S, T
  <2> QED  BY <1>5 DEF ClearedFrom
<1>9. CASE e \notin b.en[o]
  <2>1. o \in r.weak \cup r.allweak /\ Cleared(b.n, e[2])
    BY <1>2, <1>4, <1>9
  <2>2. e[2] \in Obj \ Lasting(r)
    BY <1>2, <1>3, <2>1
  <2>3. e[2] \in Vals(entries, o) /\ e[2] \in Whites(r)
    BY <1>2, <2>2 DEF Vals, Lasting
  <2>4. Weak(o, "v") \/ Weak(o, "kv")
    BY <1>4, <2>1, <2>3 DEF Sorted
  <2> QED  BY <2>2, <2>4
<1>10. CASE e \in b.en[o] /\ e \notin f.en[o]
  <2>1. o \in S /\ Cleared(f.n, e[1])
    BY <1>4, <1>6, <1>7, <1>10
  <2>2. e[1] \notin Lasting(d.n)
    BY <1>2, <1>3, <2>1
  <2>3. Weak(o, "k") \/ Weak(o, "kv")
    BY <1>4, <2>1 DEF Sorted
  <2> QED  BY <2>2, <2>3
<1>11. CASE e \in f.en[o]
  <2>1. o \in T /\ Cleared(c.n, e[2]) /\ e \in b.en[o]
    BY <1>4, <1>8, <1>11
  <2>2. e[2] \in Obj \ Lasting(d.n)
    BY <1>2, <1>3, <2>1
  <2>3. e[2] \in Vals(b.en, o) /\ e[2] \in Whites(d.n)
    BY <1>2, <2>1, <2>2 DEF Vals, Lasting
  <2>4. Weak(o, "v") \/ Weak(o, "kv")
    BY <1>4, <2>1, <2>3 DEF Sorted
  <2> QED  BY <1>1, <2>2, <2>4
<1> QED  BY <1>9, <1>10, <1>11

\* So atomic clears an entry only for a key or a value that nothing leads to.
LEMMA AtomicClears ==
  ASSUME Inv, Atomic, ~overtaken, NEW c \in last'
  PROVE  LET live == Reach(entries, {Main, Reg} \cup In("tobefnz"))
             resurrected == Reach(entries, live \cup In("tobefnz")')
         IN  \/ mode[c[1]] \in {"v", "kv"} /\ c[2][2] \notin live
             \/ mode[c[1]] \in {"k", "kv"} /\ c[2][1] \notin resurrected
<1> DEFINE r == Marked(m, entries)
           a == ClearRest(Resurrect(ClearValues(r)))
           s == SweepToLive(<<"head", "allgc">>, a.ls, a.n.color, Other(white))
           live == Reach(entries, {Main, Reg} \cup In("tobefnz"))
           resurrected == Reach(entries, live \cup In("tobefnz")')
<1>1. /\ TypeInv /\ m \in Marks /\ entries \in Contents /\ Separate(list) /\ white \in WhiteColors
      /\ mode \in [Tables \cup {Reg} -> {"", "k", "v", "kv"}]
      /\ gcstate \in Keep /\ Good(entries, m, list, white, gcstate, sweepgc, doomed, mode)
  BY DEF Inv, TypeInv, GoodNow, Atomic, Keep
<1>2. list' = s.list /\ last' = UNION {{<<o, e>> : e \in entries[o] \ a.en[o]} : o \in Obj}
  BY DEF Atomic, EnterSweep
<1>3. PICK o \in Obj : \E e \in entries[o] \ a.en[o] : c = <<o, e>>
  <2> HIDE DEF a
  <2> QED  BY <1>2
<1>4. PICK e \in entries[o] \ a.en[o] : c = <<o, e>>
  BY <1>3
<1>5. Obj \in SUBSET Obj /\ Closed(entries, Obj) /\ {Main, Reg} \cup HasFinalizer \subseteq Obj
  <2>1. Closed(entries, Obj)
    BY <1>1, ContentIsObjects DEF Closed, Content
  <2>2. {Main, Reg} \subseteq Obj /\ Range(list["finobj"]) \subseteq Obj /\ Range(list["tobefnz"]) \subseteq Obj
    BY <1>1, ThereIs, Kinds
  <2> QED  BY <2>1, <2>2 DEF HasFinalizer, In
<1>6. Within(m, Obj) /\ Pending(m, entries, m.grayagain) /\ Sorted(m, entries)
  <2>1. MarkingAt(entries, m, list, white, mode)
    BY <1>1 DEF Good
  <2> QED  BY <1>1, <2>1, MarkedIsDone, MarksType DEF Within
<1>7. PICK b, d, f : Stages(r, b, d, f, a, Obj)
  BY <1>1, <1>5, <1>6, AtomicStages
<1> HIDE DEF r, a
<1>8. /\ r \in Marks /\ d.n \in Marks /\ Lasting(r) \subseteq Lasting(d.n)
      /\ StrongClosed(entries, Lasting(r)) /\ StrongClosed(entries, Lasting(d.n))
  BY <1>1, <1>7, StagesKeep DEF Fewer
<1>9. /\ Lasting(r) \in SUBSET Obj /\ Lasting(d.n) \in SUBSET Obj
  BY <1>8, LastingIs
<1>10. live \subseteq Lasting(r)
  <2>1. {Main, Reg} \cap Whites(r) = {} /\ Darkened(m, r)
    BY <1>7 DEF Stages
  <2>2. Range(list["tobefnz"]) \cap Whites(m) = {}
    BY <1>1 DEF Good, MarkingAt
  <2>3. Whites(r) \subseteq Whites(m)
    BY <1>1, <1>8, <2>1, DarkenedStays
  <2>4. {Main, Reg} \cup In("tobefnz") \subseteq Lasting(r)
    BY <1>5, <2>1, <2>2, <2>3 DEF Lasting, In, HasFinalizer
  <2> QED  BY <1>1, <1>8, <1>9, <2>4, ReachIs
<1>11. In("tobefnz")' \subseteq Lasting(d.n)
  <2>1. Separate(d.ls) /\ a.ls = d.ls /\ Range(d.ls["tobefnz"]) \cap Whites(d.n) = {}
    BY <1>7 DEF Stages, ClearedFrom
  <2>2. a.n.color \in [Obj -> Colors]
    BY <1>1, <1>7, StagesKeep, MarksType DEF Fewer
  <2>3. Into(<<"head", "allgc">>, a.ls, "allgc") /\ "allgc" \in Lists /\ "tobefnz" \in Lists
    BY DEF Into, Lists
  <2>4. PICK B \in SUBSET Obj : SweptFrom(s, B, "allgc", <<"head", "allgc">>, a.ls, a.n.color, Other(white))
    BY <2>1, <2>2, <2>3, ToLiveIs
  <2> HIDE DEF s
  <2>5. Range(s.list["tobefnz"]) \subseteq Range(d.ls["tobefnz"])
    <3>1. \A k \in Lists : Range(s.list[k]) = Range(a.ls[k]) \ s.freed
      BY <2>4 DEF SweptFrom
    <3>2. Range(s.list["tobefnz"]) = Range(a.ls["tobefnz"]) \ s.freed
      BY <3>1, <2>3
    <3> QED  BY <2>1, <3>2
  <2>6. Range(d.ls["tobefnz"]) \subseteq Obj
    BY <2>1, ThereIs
  <2>7. In("tobefnz")' = Range(s.list["tobefnz"])
    BY <1>2 DEF In
  <2> QED  BY <2>1, <2>5, <2>6, <2>7 DEF Lasting
<1>12. resurrected \subseteq Lasting(d.n)
  <2>1. live \cup In("tobefnz")' \subseteq Lasting(d.n)
    BY <1>8, <1>10, <1>11
  <2> HIDE DEF live
  <2> QED  BY <1>1, <1>8, <1>9, <2>1, ReachIs
<1>13. \/ (Weak(o, "v") \/ Weak(o, "kv")) /\ e[2] \notin Lasting(r)
       \/ (Weak(o, "k") \/ Weak(o, "kv")) /\ e[1] \notin Lasting(d.n)
  BY <1>1, <1>7, StagesClear
<1>14. c[1] = o /\ c[2] = e
  BY <1>4
<1> HIDE DEF live, resurrected
<1>15. \/ mode[c[1]] \in {"v", "kv"} /\ c[2][2] \notin live
       \/ mode[c[1]] \in {"k", "kv"} /\ c[2][1] \notin resurrected
  BY <1>10, <1>12, <1>13, <1>14 DEF Weak
<1> QED  BY <1>15 DEF live, resurrected

\* No other step clears an entry.
LEMMA OnlyAtomicClears ==
  ASSUME Next, last' # {}
  PROVE  Atomic
<1>1. ASSUME Script PROVE last' = {}
  BY <1>1 DEF Script, New, Intern, SetTable, Unset, Get, Pop, SetFinalizer, SetUserValue, SetUpvalue, Operation
<1>2. ASSUME Step, ~Atomic PROVE last' = {}
  BY <1>2 DEF Step, Restart, Propagate, Abandon, SweepStep, SweepEnd, Finish, RunFinalizer
<1> QED  BY <1>1, <1>2 DEF Next

\* A weak table loses an entry only when its weak key or its weak value was reachable
\* neither from the script nor, for a key, from an object waiting for its finalizer.
THEOREM OnlyGarbageIsCleared == Spec => OnlyGarbageCleared
<1> DEFINE live == Reach(entries, {Main, Reg} \cup In("tobefnz"))
           resurrected == Reach(entries, live \cup In("tobefnz")')
           Lost(c) == \/ mode[c[1]] \in {"v", "kv"} /\ c[2][2] \notin live
                      \/ mode[c[1]] \in {"k", "kv"} /\ c[2][1] \notin resurrected
           Clears == last' # {} /\ ~overtaken => \A c \in last' : Lost(c)
<1>1. ASSUME Inv, [Next]_vars PROVE [Clears]_vars
  <2>1. CASE UNCHANGED vars
    BY <2>1
  <2>2. CASE Next
    <3>1. ASSUME last' # {}, ~overtaken, NEW c \in last' PROVE Lost(c)
      <4>1. Atomic
        BY <2>2, <3>1, OnlyAtomicClears
      <4> QED  BY <1>1, <3>1, <4>1, AtomicClears
    <3> QED  BY <3>1
  <2> QED  BY <1>1, <2>1, <2>2
<1>2. Spec => [][Clears]_vars
  <2> HIDE DEF Clears
  <2> QED  BY <1>1, InductiveInvariant, PTL DEF Spec
<1> QED  BY <1>2 DEF OnlyGarbageCleared

=============================================================================
