---------------------------- MODULE HooksProofs ----------------------------
(***************************************************************************)
(* Theorems about Hooks, for every set of client threads, every relation   *)
(* Calls and every bound on the depth of the calls: its invariants, and    *)
(* that it implements Interception.                                        *)
(***************************************************************************)
EXTENDS Hooks, SequenceTheorems, FiniteSetTheorems, TLAPS

USE DEF IsDirect

-----------------------------------------------------------------------------
(* What the three changes of a stack leave behind.                         *)

\* Every thread but t keeps its frames.
Others(t) == \A u \in Threads \ {t} : stack'[u] = stack[u]

\* PushFrame puts f on top of the frames of t and moves nothing else.
LEMMA PushFacts ==
  ASSUME TypeOK, NEW t \in Threads, NEW f \in Frame, PushFrame(t, f)
  PROVE  /\ stack' \in [Threads -> Seq(Frame)]
         /\ Others(t)
         /\ stack'[t] = Append(stack[t], f)
         /\ Len(stack'[t]) = Len(stack[t]) + 1
         /\ stack'[t][Len(stack'[t])] = f
         /\ \A i \in 1..Len(stack[t]) : stack'[t][i] = stack[t][i]
  BY DEF TypeOK, PushFrame, Others

\* PopFrame takes the top frame of t and moves nothing else.
LEMMA PopFacts ==
  ASSUME TypeOK, NEW t \in Threads, Running(t), PopFrame(t)
  PROVE  /\ stack' \in [Threads -> Seq(Frame)]
         /\ Others(t)
         /\ Len(stack'[t]) = Len(stack[t]) - 1
         /\ \A i \in 1..Len(stack'[t]) : stack'[t][i] = stack[t][i]
<1> DEFINE s == stack[t]
           r == SubSeq(s, 1, Len(s) - 1)
<1>1. s \in Seq(Frame) /\ Len(s) \in Nat \ {0}
  BY DEF TypeOK, Running
<1>2. r \in Seq(Frame) /\ Len(r) = Len(s) - 1 /\ \A i \in 1..Len(s) - 1 : r[i] = s[i]
  BY <1>1
<1>3. stack' = [stack EXCEPT ![t] = r]
  BY DEF PopFrame
<1>4. stack'[t] = r
  BY <1>3 DEF TypeOK
<1> HIDE DEF r
<1> QED
  BY <1>1, <1>2, <1>3, <1>4 DEF TypeOK, Others

\* GoTo moves the top frame of t to p and changes nothing else of it.
LEMMA GoToFacts ==
  ASSUME TypeOK, NEW t \in Threads, NEW p \in Points, Running(t), GoTo(t, p)
  PROVE  /\ stack' \in [Threads -> Seq(Frame)]
         /\ Others(t)
         /\ Len(stack'[t]) = Len(stack[t])
         /\ stack'[t][Len(stack[t])] = [Top(t) EXCEPT !.pc = p]
         /\ \A i \in 1..Len(stack[t]) - 1 : stack'[t][i] = stack[t][i]
<1> DEFINE s == stack[t]
           f == [Top(t) EXCEPT !.pc = p]
           r == [s EXCEPT ![Len(s)] = f]
<1>1. s \in Seq(Frame) /\ Len(s) \in Nat \ {0} /\ DOMAIN s = 1..Len(s)
  BY DEF TypeOK, Running
<1>2. Top(t) \in Frame
  BY <1>1 DEF Top
<1>3. f \in Frame
  BY <1>2 DEF Frame
<1>4. stack' = [stack EXCEPT ![t] = r]
  BY DEF GoTo, Top
<1>5. stack'[t] = r
  BY <1>4 DEF TypeOK
<1> HIDE DEF f
<1>6. r \in Seq(Frame) /\ Len(r) = Len(s)
  BY <1>1, <1>3, ExceptSeq
<1>7. r[Len(s)] = f /\ \A i \in 1..Len(s) - 1 : r[i] = s[i]
  BY <1>1
<1> HIDE DEF r
<1> QED
  BY <1>4, <1>5, <1>6, <1>7 DEF TypeOK, Others, f

-----------------------------------------------------------------------------
(* How the three changes preserve the shape of the stacks and who holds which *)
(* mutex.                                                                  *)

Shape == BelowWaits /\ DirectInside
SameHolding == \A u \in Threads, g \in HookNames : Holding(u, g)' = Holding(u, g)

\* A new frame that holds nothing, above a frame that waits.
LEMMA PushShape ==
  ASSUME TypeOK, Shape, NEW t \in Threads, NEW f \in Frame, PushFrame(t, f),
         Running(t) => Top(t).pc \in {"scripts", "inside"},
         f.kind \in {"bypass", "early"} => f.pc \in {"entering", "inside"},
         \A g \in HookNames : ~HoldsLock(f, g)
  PROVE  Shape' /\ SameHolding
<1>1. /\ Len(stack[t]) \in Nat
      /\ Others(t)
      /\ Len(stack'[t]) = Len(stack[t]) + 1
      /\ stack'[t][Len(stack'[t])] = f
      /\ \A i \in 1..Len(stack[t]) : stack'[t][i] = stack[t][i]
  BY PushFacts DEF TypeOK
<1>2. BelowWaits'
  <2> SUFFICES ASSUME NEW u \in Threads, NEW i \in 1..Len(stack'[u]) - 1
               PROVE  stack'[u][i].pc \in {"scripts", "inside"}
    BY DEF BelowWaits
  <2>1. CASE u = t /\ i = Len(stack[t])
    <3>1. stack[t] # <<>> /\ stack[t][i].pc \in {"scripts", "inside"}
      BY <1>1, <2>1 DEF Running, Top, TypeOK
    <3> QED  BY <1>1, <2>1, <3>1
  <2>2. CASE u = t /\ i # Len(stack[t])
    BY <1>1, <2>2 DEF Shape, BelowWaits
  <2>3. CASE u # t
    BY <1>1, <2>3 DEF Shape, BelowWaits, Others
  <2> QED  BY <2>1, <2>2, <2>3
<1>3. DirectInside'
  <2> SUFFICES ASSUME NEW u \in Threads, NEW i \in 1..Len(stack'[u]),
                      stack'[u][i].kind \in {"bypass", "early"}
               PROVE  stack'[u][i].pc \in {"entering", "inside"}
    BY DEF DirectInside
  <2>1. CASE u = t
    BY <1>1, <2>1 DEF Shape, DirectInside
  <2>2. CASE u # t
    BY <1>1, <2>2 DEF Shape, DirectInside, Others
  <2> QED  BY <2>1, <2>2
<1>4. SameHolding
  BY <1>1 DEF SameHolding, Holding, Others
<1> QED  BY <1>2, <1>3, <1>4 DEF Shape

\* The end of a frame that holds nothing; a frame that holds h gives up one lock.
LEMMA PopShape ==
  ASSUME TypeOK, Shape, NEW t \in Threads, Running(t), PopFrame(t)
  PROVE  /\ Shape'
         /\ \A u \in Threads, g \in HookNames :
              Holding(u, g)' = IF u = t THEN Holding(u, g) \ {Len(stack[t])} ELSE Holding(u, g)
<1>1. /\ Len(stack[t]) \in Nat \ {0}
      /\ Others(t)
      /\ Len(stack'[t]) = Len(stack[t]) - 1
      /\ \A i \in 1..Len(stack'[t]) : stack'[t][i] = stack[t][i]
  BY PopFacts DEF TypeOK, Running
<1>2. BelowWaits'
  BY <1>1 DEF Shape, BelowWaits, Others
<1>3. DirectInside'
  BY <1>1 DEF Shape, DirectInside, Others
<1>4. ASSUME NEW u \in Threads, NEW g \in HookNames
      PROVE  Holding(u, g)' = IF u = t THEN Holding(u, g) \ {Len(stack[t])} ELSE Holding(u, g)
  BY <1>1 DEF Holding, Others
<1> QED  BY <1>2, <1>3, <1>4 DEF Shape

\* A top frame that goes on holds afterwards what its new point says.
LEMMA GoToShape ==
  ASSUME TypeOK, Shape, NEW t \in Threads, NEW p \in Points, Running(t), GoTo(t, p),
         Top(t).kind \in {"bypass", "early"} => p \in {"entering", "inside"}
  PROVE  /\ Shape'
         /\ \A u \in Threads, g \in HookNames :
              Holding(u, g)' =
                IF u # t THEN Holding(u, g)
                ELSE IF HoldsLock([Top(t) EXCEPT !.pc = p], g)
                     THEN Holding(u, g) \cup {Len(stack[t])}
                     ELSE Holding(u, g) \ {Len(stack[t])}
<1> DEFINE f == [Top(t) EXCEPT !.pc = p]
<1>1. /\ Len(stack[t]) \in Nat \ {0}
      /\ Others(t)
      /\ Len(stack'[t]) = Len(stack[t])
      /\ stack'[t][Len(stack[t])] = f
      /\ \A i \in 1..Len(stack[t]) - 1 : stack'[t][i] = stack[t][i]
  BY GoToFacts DEF TypeOK, Running
<1>2. Top(t) \in Frame /\ Top(t) = stack[t][Len(stack[t])]
  BY <1>1 DEF Top, TypeOK
<1>3. f.pc = p /\ f.kind = Top(t).kind
  BY <1>2 DEF Frame
<1> HIDE DEF f
<1>4. BelowWaits'
  BY <1>1 DEF Shape, BelowWaits, Others
<1>5. DirectInside'
  <2> SUFFICES ASSUME NEW u \in Threads, NEW i \in 1..Len(stack'[u]),
                      stack'[u][i].kind \in {"bypass", "early"}
               PROVE  stack'[u][i].pc \in {"entering", "inside"}
    BY DEF DirectInside
  <2>1. CASE u = t /\ i = Len(stack[t])
    BY <1>1, <1>3, <2>1
  <2>2. CASE u = t /\ i # Len(stack[t])
    BY <1>1, <2>2 DEF Shape, DirectInside
  <2>3. CASE u # t
    BY <1>1, <2>3 DEF Shape, DirectInside, Others
  <2> QED  BY <2>1, <2>2, <2>3
<1>6. ASSUME NEW u \in Threads, NEW g \in HookNames
      PROVE  Holding(u, g)' = IF u # t THEN Holding(u, g)
                              ELSE IF HoldsLock(f, g)
                                   THEN Holding(u, g) \cup {Len(stack[t])}
                                   ELSE Holding(u, g) \ {Len(stack[t])}
  BY <1>1 DEF Holding, Others
<1> QED  BY <1>4, <1>5, <1>6 DEF Shape, f

-----------------------------------------------------------------------------
(* Who holds a mutex.                                                      *)

\* The frames of a thread that hold a mutex are finitely many.
LEMMA HoldingFinite ==
  ASSUME TypeOK, NEW t \in Threads, NEW h \in HookNames
  PROVE  IsFiniteSet(Holding(t, h)) /\ Holding(t, h) \subseteq 1..Len(stack[t])
<1>1. Len(stack[t]) \in Nat
  BY DEF TypeOK
<1>2. IsFiniteSet(1..Len(stack[t]))
  BY <1>1, FS_Interval
<1> QED  BY <1>2, FS_Subset DEF Holding

\* A thread whose top frame stands between Lock() and Unlock() owns the mutex.
LEMMA HolderOwns ==
  ASSUME IInv, NEW t \in Threads, NEW h \in HookNames, NEW p \in HeldPoints,
         At(t, h, p), p \in {"entering", "inside"} => ~IsDirect(Top(t))
  PROVE  /\ owner[h] = t
         /\ depth[h] # 0
         /\ Top(t).kind \notin {"bypass", "early"}
         /\ Len(stack[t]) \in Holding(t, h)
<1>1. Len(stack[t]) \in 1..Len(stack[t]) /\ Top(t) = stack[t][Len(stack[t])]
  BY DEF IInv, TypeOK, At, Running, Top
<1>2. Top(t).kind \notin {"bypass", "early"}
  BY <1>1 DEF IInv, DirectInside, At
<1>3. Len(stack[t]) \in Holding(t, h)
  BY <1>1, <1>2 DEF Holding, HoldsLock, At
<1>4. owner[h] = t
  BY <1>3 DEF IInv, MutexMatchesFrames
<1>5. owner[h] # NoThread
  BY <1>4, ThreadsAssumption
<1> QED  BY <1>2, <1>3, <1>4, <1>5 DEF IInv, MutexMatchesFrames

\* A step that changes neither the code nor a mutex, by a thread that is not copying
\* and whose top frame is not at a point that says something of the code.
LEMMA Quiet ==
  ASSUME IInv, NEW t \in Threads,
         UNCHANGED <<code, installed, owner, depth>>,
         stack' \in [Threads -> Seq(Frame)],
         netClient' \in {NetClient, NoNetClient},
         vtable' \in Int,
         crashed' \in Threads \cup {NoThread},
         Shape', SameHolding, Others(t),
         Running(t) => Top(t).pc \notin {"offing", "oning"},
         Running(t)' => Top(t)'.pc \notin {"call", "unlock"},
         \A h \in HookNames : At(t, h, "entering")' => code[h] = "orig"
  PROVE  IInv'
<1>1. TypeOK'
  BY DEF IInv, TypeOK
<1>2. ASSUME NEW u \in Threads, NEW h \in HookNames, NEW p \in Points, u # t
      PROVE  At(u, h, p)' <=> At(u, h, p)
  BY <1>2 DEF Others, At, Running, Top
<1>3. BelowWaits' /\ DirectInside'
  BY DEF Shape
<1>4. MutexMatchesFrames'
  BY DEF IInv, MutexMatchesFrames, SameHolding
<1>5. OriginalIsReached' /\ ArmedAtUnlock' /\ OwnerEnters'
  <2> SUFFICES ASSUME NEW u \in Threads, NEW h \in HookNames
               PROVE  /\ At(u, h, "call")' => code[h] = "orig"
                      /\ At(u, h, "entering")' /\ (~IsDirect(Top(u)') \/ owner[h] = u) => code[h] = "orig"
                      /\ At(u, h, "unlock")' => code[h] = "hook" /\ h \in installed
    BY DEF OriginalIsReached, OwnerEnters, ArmedAtUnlock
  <2>1. CASE u = t
    BY <2>1 DEF At
  <2>2. CASE u # t
    <3>1. Top(u)' = Top(u)
      BY <2>2 DEF Others, Top
    <3> QED  BY <1>2, <2>2, <3>1 DEF IInv, OriginalIsReached, OwnerEnters, ArmedAtUnlock, Points
  <2> QED  BY <2>1, <2>2
<1>6. ArmedWhenFree'
  BY DEF IInv, ArmedWhenFree
<1>7. TornByOwner'
  <2> SUFFICES ASSUME NEW h \in HookNames, code[h] = "torn"
               PROVE  owner[h] # NoThread /\ (At(owner[h], h, "offing")' \/ At(owner[h], h, "oning")')
    BY DEF TornByOwner
  <2>1. owner[h] \in Threads /\ (At(owner[h], h, "offing") \/ At(owner[h], h, "oning"))
    BY DEF IInv, TypeOK, TornByOwner
  <2>2. owner[h] # t
    BY <2>1 DEF At
  <2> QED  BY <1>2, <2>1, <2>2, ThreadsAssumption DEF Points
<1> QED  BY <1>1, <1>3, <1>4, <1>5, <1>6, <1>7 DEF IInv

\* A quiet step that pushes a frame.
LEMMA QuietPush ==
  ASSUME IInv, NEW t \in Threads, NEW f \in Frame, PushFrame(t, f),
         Running(t) => Top(t).pc \in {"scripts", "inside"},
         f.pc \in {"scripts", "lock", "entering"},
         f.pc = "entering" <=> f.kind \in {"bypass", "early"},
         f.pc = "entering" => code[f.hook] = "orig",
         UNCHANGED <<code, installed, owner, depth>>,
         netClient' \in {NetClient, NoNetClient}, vtable' \in Int,
         crashed' \in Threads \cup {NoThread}
  PROVE  IInv'
<1>1. \A g \in HookNames : ~HoldsLock(f, g)
  BY DEF HoldsLock, HeldPoints
<1>2. Shape' /\ SameHolding
  BY <1>1, PushShape DEF IInv, Shape
<1>3. /\ stack' \in [Threads -> Seq(Frame)]
      /\ Others(t)
      /\ stack'[t][Len(stack'[t])] = f
  BY PushFacts DEF IInv
<1>4. \A h \in HookNames : At(t, h, "entering")' => code[h] = "orig"
  BY <1>3 DEF At, Top
<1> QED  BY <1>2, <1>3, <1>4, Quiet DEF Top

\* The top frame goes on and holds what it held.
LEMMA SteadyGoTo ==
  ASSUME IInv, NEW t \in Threads, NEW p \in Points, Running(t), GoTo(t, p),
         Top(t).kind \in {"bypass", "early"} => p \in {"entering", "inside"},
         Top(t).pc \in HeldPoints <=> p \in HeldPoints
  PROVE  /\ stack' \in [Threads -> Seq(Frame)]
         /\ Others(t)
         /\ Shape' /\ SameHolding
         /\ Running(t)' /\ Top(t)'.pc = p /\ Top(t)'.hook = Top(t).hook
<1> DEFINE f == [Top(t) EXCEPT !.pc = p]
<1>1. /\ stack' \in [Threads -> Seq(Frame)]
      /\ Others(t)
      /\ Len(stack'[t]) = Len(stack[t])
      /\ stack'[t][Len(stack[t])] = f
  BY GoToFacts DEF IInv
<1>2. Len(stack[t]) \in 1..Len(stack[t]) /\ Top(t) \in Frame
  BY DEF IInv, TypeOK, Running, Top
<1>3. f.pc = p /\ f.hook = Top(t).hook /\ f.kind = Top(t).kind
  BY <1>2 DEF Frame
<1>4. \A g \in HookNames : HoldsLock(f, g) <=> HoldsLock(Top(t), g)
  BY <1>3 DEF HoldsLock
<1>5. \A g \in HookNames : Len(stack[t]) \in Holding(t, g) <=> HoldsLock(Top(t), g)
  BY <1>2 DEF Holding, Top
<1>6. Shape' /\ SameHolding
  <2>1. TypeOK /\ Shape
    BY DEF IInv, Shape
  <2>2. /\ Shape'
        /\ \A u \in Threads, g \in HookNames :
             Holding(u, g)' = IF u # t THEN Holding(u, g)
                              ELSE IF HoldsLock(f, g)
                                   THEN Holding(u, g) \cup {Len(stack[t])}
                                   ELSE Holding(u, g) \ {Len(stack[t])}
    BY <2>1, GoToShape
  <2> HIDE DEF f
  <2>3. ASSUME NEW u \in Threads, NEW g \in HookNames
        PROVE  Holding(u, g)' = Holding(u, g)
    <3>1. CASE u # t
      BY <2>2, <3>1
    <3>2. CASE u = t /\ HoldsLock(f, g)
      <4>1. Len(stack[t]) \in Holding(t, g)
        BY <1>4, <1>5, <3>2
      <4>2. Holding(t, g)' = Holding(t, g) \cup {Len(stack[t])}
        BY <2>2, <3>2
      <4> QED  BY <3>2, <4>1, <4>2
    <3>3. CASE u = t /\ ~HoldsLock(f, g)
      <4>1. Len(stack[t]) \notin Holding(t, g)
        BY <1>4, <1>5, <3>3
      <4>2. Holding(t, g)' = Holding(t, g) \ {Len(stack[t])}
        BY <2>2, <3>3
      <4> QED  BY <3>3, <4>1, <4>2
    <3> QED  BY <3>1, <3>2, <3>3
  <2> QED  BY <2>2, <2>3 DEF SameHolding
<1>7. Running(t)' /\ Top(t)'.pc = p /\ Top(t)'.hook = Top(t).hook
  BY <1>1, <1>2, <1>3 DEF Top, Running
<1> QED  BY <1>1, <1>6, <1>7

\* A quiet step in which the top frame goes on and holds what it held.
LEMMA QuietGoTo ==
  ASSUME IInv, NEW t \in Threads, NEW p \in Points, Running(t), GoTo(t, p),
         Top(t).pc \notin {"offing", "oning"}, p \notin {"call", "unlock"},
         Top(t).kind \in {"bypass", "early"} => p \in {"entering", "inside"},
         Top(t).pc \in HeldPoints <=> p \in HeldPoints,
         p = "entering" => code[Top(t).hook] = "orig",
         UNCHANGED <<code, installed, owner, depth>>,
         netClient' \in {NetClient, NoNetClient}, vtable' \in Int,
         crashed' \in Threads \cup {NoThread}
  PROVE  IInv'
<1>1. /\ stack' \in [Threads -> Seq(Frame)] /\ Others(t) /\ Shape' /\ SameHolding
      /\ Running(t)' /\ Top(t)'.pc = p /\ Top(t)'.hook = Top(t).hook
  BY SteadyGoTo
<1>2. \A h \in HookNames : At(t, h, "entering")' => code[h] = "orig"
  BY <1>1 DEF At
<1> QED  BY <1>1, <1>2, Quiet

\* The end of a frame that holds nothing.
LEMMA QuietPop ==
  ASSUME IInv, NEW t \in Threads, Running(t), PopFrame(t),
         Top(t).pc \notin {"offing", "oning"},
         Top(t).pc \in HeldPoints => Top(t).kind \in {"bypass", "early"},
         UNCHANGED <<code, installed, owner, depth, netClient, vtable, crashed>>
  PROVE  IInv'
<1>1. /\ stack' \in [Threads -> Seq(Frame)]
      /\ Others(t)
      /\ Len(stack'[t]) = Len(stack[t]) - 1
      /\ \A i \in 1..Len(stack'[t]) : stack'[t][i] = stack[t][i]
  BY PopFacts DEF IInv
<1>2. \A g \in HookNames : Len(stack[t]) \notin Holding(t, g)
  BY DEF Holding, HoldsLock, Top
<1>3. Shape' /\ SameHolding
  <2>1. TypeOK /\ Shape
    BY DEF IInv, Shape
  <2>2. /\ Shape'
        /\ \A u \in Threads, g \in HookNames :
             Holding(u, g)' = IF u = t THEN Holding(u, g) \ {Len(stack[t])} ELSE Holding(u, g)
    BY <2>1, PopShape
  <2>3. ASSUME NEW u \in Threads, NEW g \in HookNames
        PROVE  Holding(u, g)' = Holding(u, g)
    <3>1. CASE u # t
      BY <2>2, <3>1
    <3>2. CASE u = t
      <4>1. Holding(t, g)' = Holding(t, g) \ {Len(stack[t])}
        BY <2>2
      <4> QED  BY <1>2, <3>2, <4>1
    <3> QED  BY <3>1, <3>2
  <2> QED  BY <2>2, <2>3 DEF SameHolding
<1>4. Running(t)' => Top(t)'.pc \in {"scripts", "inside"}
  <2> SUFFICES ASSUME stack'[t] # <<>>
               PROVE  stack'[t][Len(stack'[t])].pc \in {"scripts", "inside"}
    BY DEF Running, Top
  <2>1. Len(stack'[t]) \in 1..Len(stack[t]) - 1
    BY <1>1
  <2> QED  BY <1>1, <2>1 DEF IInv, BelowWaits
<1>5. \A h \in HookNames : ~At(t, h, "entering")'
  BY <1>4 DEF At
<1> QED  BY <1>1, <1>3, <1>4, <1>5, Quiet DEF IInv, TypeOK

-----------------------------------------------------------------------------
(* The steps that change the code or a mutex.                              *)

\* Intercept, as it begins and as it ends: the owner of the mutex moves on inside
\* its own window, and writes nothing but the bytes of its hook.
LEMMA CopyStep ==
  ASSUME IInv, NEW t \in Threads, NEW h \in HookNames,
         NEW p \in {"off", "offing", "on", "oning"},
         NEW q \in {"offing", "call", "oning", "unlock"},
         NEW b \in {"orig", "hook", "torn"},
         At(t, h, p), GoTo(t, q),
         code' = [code EXCEPT ![h] = b],
         installed' \in {installed, installed \cup {h}},
         UNCHANGED <<owner, depth, netClient, vtable, crashed>>,
         b = "torn" => q \in {"offing", "oning"},
         q = "call" => b = "orig",
         q = "unlock" => b = "hook" /\ h \in installed'
  PROVE  IInv'
<1>1. p \in HeldPoints \ {"entering", "inside"} /\ q \in HeldPoints /\ q \in Points
  BY DEF HeldPoints, Points
<1>2. /\ owner[h] = t
      /\ Top(t).kind \notin {"bypass", "early"}
  BY <1>1, HolderOwns
<1>3. Running(t) /\ Top(t).pc \in HeldPoints /\ Top(t).hook = h
  BY <1>1 DEF At
<1>4. /\ stack' \in [Threads -> Seq(Frame)]
      /\ Others(t)
      /\ Shape' /\ SameHolding
      /\ Running(t)' /\ Top(t)'.pc = q /\ Top(t)'.hook = h
  BY <1>1, <1>2, <1>3, SteadyGoTo
<1>5. TypeOK'
  BY <1>4 DEF IInv, TypeOK
<1>6. MutexMatchesFrames'
  BY <1>4 DEF IInv, MutexMatchesFrames, SameHolding
<1>7. ASSUME NEW u \in Threads, NEW r, u # t
      PROVE  Top(u)' = Top(u) /\ \A g : At(u, g, r)' <=> At(u, g, r)
  BY <1>4, <1>7 DEF Others, At, Running, Top
<1>8. \A u \in Threads \ {t} :
        /\ ~At(u, h, "call") /\ ~At(u, h, "unlock")
        /\ At(u, h, "entering") => IsDirect(Top(u))
  BY <1>2, HolderOwns DEF HeldPoints
<1>9. h \in HookNames /\ code \in [HookNames -> {"orig", "hook", "torn"}]
  BY DEF IInv, TypeOK
<1>10. OriginalIsReached' /\ ArmedAtUnlock' /\ OwnerEnters'
  <2> SUFFICES ASSUME NEW u \in Threads, NEW g \in HookNames
               PROVE  /\ At(u, g, "call")' => code'[g] = "orig"
                      /\ At(u, g, "entering")' /\ (~IsDirect(Top(u)') \/ owner[g] = u) => code'[g] = "orig"
                      /\ At(u, g, "unlock")' => code'[g] = "hook" /\ g \in installed'
    BY DEF OriginalIsReached, OwnerEnters, ArmedAtUnlock
  <2>1. CASE u = t
    BY <1>4, <1>9, <2>1 DEF At
  <2>2. CASE u # t /\ g = h
    BY <1>2, <1>7, <1>8, <2>2
  <2>3. CASE u # t /\ g # h
    BY <1>7, <1>9, <2>3 DEF IInv, OriginalIsReached, OwnerEnters, ArmedAtUnlock
  <2> QED  BY <2>1, <2>2, <2>3
<1>11. ArmedWhenFree'
  BY <1>2, <1>9, ThreadsAssumption DEF IInv, ArmedWhenFree
<1>12. TornByOwner'
  <2> SUFFICES ASSUME NEW g \in HookNames, code'[g] = "torn"
               PROVE  owner[g] # NoThread /\ (At(owner[g], g, "offing")' \/ At(owner[g], g, "oning")')
    BY DEF TornByOwner
  <2>1. CASE g = h
    BY <1>2, <1>4, <1>9, <2>1, ThreadsAssumption DEF At
  <2>2. CASE g # h
    <3>1. owner[g] \in Threads /\ (At(owner[g], g, "offing") \/ At(owner[g], g, "oning"))
      BY <1>9, <2>2 DEF IInv, TypeOK, TornByOwner
    <3>2. owner[g] # t
      BY <1>3, <2>2, <3>1 DEF At
    <3> QED  BY <1>7, <3>1, <3>2, ThreadsAssumption
  <2> QED  BY <2>1, <2>2
<1> QED  BY <1>4, <1>5, <1>6, <1>10, <1>11, <1>12 DEF IInv, Shape

\* Lock: one more frame of t between Lock() and Unlock(), nobody else has any.
LEMMA LockStep ==
  ASSUME IInv, NEW t \in Threads, NEW h \in HookNames, Lock(t, h)
  PROVE  IInv'
<1> DEFINE p == IF Top(t).kind = "install" THEN "on" ELSE "off"
           f == [Top(t) EXCEPT !.pc = p]
           n == Len(stack[t])
<1>1. /\ Running(t) /\ Top(t).pc = "lock" /\ Top(t).hook = h
      /\ p \in Points /\ p \in HeldPoints /\ p \notin {"call", "unlock", "entering", "inside"}
      /\ GoTo(t, p)
      /\ owner[h] \in {NoThread, t}
      /\ owner' = [owner EXCEPT ![h] = t]
      /\ depth' = [depth EXCEPT ![h] = @ + 1]
      /\ UNCHANGED <<code, installed, netClient, vtable, crashed>>
  BY DEF Lock, At, Points, HeldPoints
<1>2. n \in 1..n /\ n \in Nat /\ Top(t) \in Frame /\ Top(t) = stack[t][n]
  BY <1>1 DEF IInv, TypeOK, Running, Top
<1>3. Top(t).kind \notin {"bypass", "early"}
  BY <1>1, <1>2 DEF IInv, DirectInside
<1>4. f.pc = p /\ f.hook = h /\ f.kind = Top(t).kind
  BY <1>1, <1>2 DEF Frame
<1>5. \A g \in HookNames : n \notin Holding(t, g)
  BY <1>1, <1>2 DEF Holding, HoldsLock, HeldPoints
<1>6. \A g \in HookNames : HoldsLock(f, g) <=> g = h
  BY <1>1, <1>3, <1>4 DEF HoldsLock
<1>7. /\ stack' \in [Threads -> Seq(Frame)]
      /\ Others(t)
      /\ Len(stack'[t]) = n
      /\ stack'[t][n] = f
  BY <1>1, GoToFacts DEF IInv
<1>8. /\ Shape'
      /\ \A u \in Threads, g \in HookNames :
           Holding(u, g)' = IF u # t THEN Holding(u, g)
                            ELSE IF HoldsLock(f, g) THEN Holding(u, g) \cup {n}
                                                    ELSE Holding(u, g) \ {n}
  <2>1. TypeOK /\ Shape
    BY DEF IInv, Shape
  <2> QED  BY <1>1, <1>3, <2>1, GoToShape
<1> HIDE DEF p, f, n
<1>9. Holding(t, h)' = Holding(t, h) \cup {n}
  BY <1>6, <1>8
<1>10. ASSUME NEW u \in Threads, NEW g \in HookNames, u # t \/ g # h
       PROVE  Holding(u, g)' = Holding(u, g)
  <2>1. CASE u # t
    BY <1>8, <2>1
  <2>2. CASE u = t /\ g # h
    <3>1. Holding(t, g)' = Holding(t, g) \ {n}
      BY <1>6, <1>8, <2>2
    <3> QED  BY <1>5, <2>2, <3>1
  <2> QED  BY <1>10, <2>1, <2>2
<1>11. /\ owner \in [HookNames -> Threads \cup {NoThread}]
       /\ depth \in [HookNames -> Nat]
  BY DEF IInv, TypeOK
<1>12. depth[h] = Cardinality(Holding(t, h))
  <2>1. CASE owner[h] = t
    BY <2>1 DEF IInv, MutexMatchesFrames
  <2>2. CASE owner[h] = NoThread
    BY <2>2, FS_EmptySet, ThreadsAssumption DEF IInv, MutexMatchesFrames
  <2> QED  BY <1>1, <2>1, <2>2
<1>13. Cardinality(Holding(t, h) \cup {n}) = Cardinality(Holding(t, h)) + 1
  BY <1>5, HoldingFinite, FS_AddElement DEF IInv
<1>14. \A u \in Threads \ {t} : Holding(u, h) = {}
  BY <1>1, ThreadsAssumption DEF IInv, MutexMatchesFrames
<1>15. MutexMatchesFrames'
  <2> SUFFICES ASSUME NEW g \in HookNames
               PROVE  /\ (owner'[g] = NoThread) <=> (depth'[g] = 0)
                      /\ \A u \in Threads :
                           IF owner'[g] = u THEN depth'[g] = Cardinality(Holding(u, g)')
                                            ELSE Holding(u, g)' = {}
    BY DEF MutexMatchesFrames
  <2>1. CASE g = h
    <3>1. owner'[h] = t /\ depth'[h] = depth[h] + 1 /\ depth[h] \in Nat
      BY <1>1, <1>11
    <3>2. depth'[h] = Cardinality(Holding(t, h)') /\ depth'[h] # 0
      BY <1>9, <1>12, <1>13, <3>1
    <3>3. \A u \in Threads \ {t} : Holding(u, h)' = {}
      BY <1>10, <1>14
    <3> QED  BY <2>1, <3>1, <3>2, <3>3, ThreadsAssumption
  <2>2. CASE g # h
    BY <1>1, <1>10, <1>11, <2>2 DEF IInv, MutexMatchesFrames
  <2> QED  BY <2>1, <2>2
<1>16. TypeOK'
  BY <1>1, <1>7 DEF IInv, TypeOK
<1>17. ASSUME NEW u \in Threads, NEW r, u # t
       PROVE  Top(u)' = Top(u) /\ \A g : At(u, g, r)' <=> At(u, g, r)
  BY <1>7, <1>17 DEF Others, At, Running, Top
<1>18. Top(t)'.pc = p
  BY <1>4, <1>7 DEF Top
<1>19. OriginalIsReached' /\ ArmedAtUnlock' /\ OwnerEnters'
  <2> SUFFICES ASSUME NEW u \in Threads, NEW g \in HookNames
               PROVE  /\ At(u, g, "call")' => code[g] = "orig"
                      /\ At(u, g, "entering")' /\ (~IsDirect(Top(u)') \/ owner'[g] = u) => code[g] = "orig"
                      /\ At(u, g, "unlock")' => code[g] = "hook" /\ g \in installed
    BY <1>1 DEF OriginalIsReached, OwnerEnters, ArmedAtUnlock
  <2>1. CASE u = t
    BY <1>1, <1>18, <2>1 DEF At
  <2>2. CASE u # t
    <3>1. owner'[g] = u => owner[g] = u
      BY <1>1, <1>11, <2>2
    <3> QED  BY <1>17, <2>2, <3>1 DEF IInv, OriginalIsReached, OwnerEnters, ArmedAtUnlock
  <2> QED  BY <2>1, <2>2
<1>20. ArmedWhenFree'
  BY <1>1, <1>11, ThreadsAssumption DEF IInv, ArmedWhenFree
<1>21. TornByOwner'
  <2> SUFFICES ASSUME NEW g \in HookNames, code[g] = "torn"
               PROVE  (owner[g] # NoThread /\ (At(owner[g], g, "offing") \/ At(owner[g], g, "oning")))'
    BY <1>1 DEF TornByOwner
  <2>1. PICK u \in Threads : owner[g] = u /\ (At(u, g, "offing") \/ At(u, g, "oning"))
    BY <1>11 DEF IInv, TornByOwner
  <2>2. u # t
    BY <1>1, <2>1 DEF At
  <2>3. g # h
    BY <1>1, <2>1, <2>2, ThreadsAssumption
  <2>4. owner'[g] = u
    BY <1>1, <1>11, <2>1, <2>3
  <2>5. At(u, g, "offing")' \/ At(u, g, "oning")'
    BY <1>17, <2>1, <2>2
  <2> QED  BY <2>4, <2>5, ThreadsAssumption DEF At, Running, Top
<1> QED  BY <1>8, <1>15, <1>16, <1>19, <1>20, <1>21 DEF IInv, Shape

\* Unlock: one frame less; the last one leaves the mutex free and the hook in place.
LEMMA UnlockStep ==
  ASSUME IInv, NEW t \in Threads, NEW h \in HookNames, Unlock(t, h)
  PROVE  IInv'
<1> DEFINE n == Len(stack[t])
<1>1. /\ At(t, h, "unlock") /\ Running(t) /\ Top(t).pc = "unlock" /\ Top(t).hook = h
      /\ PopFrame(t)
      /\ depth' = [depth EXCEPT ![h] = @ - 1]
      /\ owner' = [owner EXCEPT ![h] = IF depth[h] = 1 THEN NoThread ELSE @]
      /\ UNCHANGED <<code, installed, netClient, vtable, crashed>>
  BY DEF Unlock, At
<1>2. owner[h] = t /\ depth[h] # 0 /\ n \in Holding(t, h)
  BY <1>1, HolderOwns DEF HeldPoints
<1>3. \A g \in HookNames : g # h => n \notin Holding(t, g)
  BY <1>1 DEF Holding, HoldsLock, Top
<1>4. /\ stack' \in [Threads -> Seq(Frame)]
      /\ Others(t)
      /\ Len(stack'[t]) = n - 1
      /\ \A i \in 1..Len(stack'[t]) : stack'[t][i] = stack[t][i]
  BY <1>1, PopFacts DEF IInv
<1>5. /\ Shape'
      /\ \A u \in Threads, g \in HookNames :
           Holding(u, g)' = IF u = t THEN Holding(u, g) \ {n} ELSE Holding(u, g)
  <2>1. TypeOK /\ Shape
    BY DEF IInv, Shape
  <2> QED  BY <1>1, <2>1, PopShape
<1>6. Running(t)' => Top(t)'.pc \in {"scripts", "inside"}
  <2> SUFFICES ASSUME stack'[t] # <<>>
               PROVE  stack'[t][Len(stack'[t])].pc \in {"scripts", "inside"}
    BY DEF Running, Top
  <2>1. Len(stack'[t]) \in 1..n - 1
    BY <1>4
  <2> QED  BY <1>4, <2>1 DEF IInv, BelowWaits
<1> HIDE DEF n
<1>7. Holding(t, h)' = Holding(t, h) \ {n}
  BY <1>5
<1>8. ASSUME NEW u \in Threads, NEW g \in HookNames, u # t \/ g # h
      PROVE  Holding(u, g)' = Holding(u, g)
  <2>1. CASE u # t
    BY <1>5, <2>1
  <2>2. CASE u = t /\ g # h
    <3>1. Holding(t, g)' = Holding(t, g) \ {n}
      BY <1>5
    <3> QED  BY <1>3, <2>2, <3>1
  <2> QED  BY <1>8, <2>1, <2>2
<1>9. /\ owner \in [HookNames -> Threads \cup {NoThread}]
      /\ depth \in [HookNames -> Nat]
  BY DEF IInv, TypeOK
<1>10. depth[h] = Cardinality(Holding(t, h)) /\ \A u \in Threads \ {t} : Holding(u, h) = {}
  BY <1>2 DEF IInv, MutexMatchesFrames
<1>11. /\ IsFiniteSet(Holding(t, h) \ {n})
       /\ Cardinality(Holding(t, h) \ {n}) = depth[h] - 1
  BY <1>2, <1>10, HoldingFinite, FS_RemoveElement DEF IInv
<1>12. depth[h] = 1 => Holding(t, h) \ {n} = {}
  BY <1>11, FS_EmptySet
<1>13. MutexMatchesFrames'
  <2> SUFFICES ASSUME NEW g \in HookNames
               PROVE  /\ (owner'[g] = NoThread) <=> (depth'[g] = 0)
                      /\ \A u \in Threads :
                           IF owner'[g] = u THEN depth'[g] = Cardinality(Holding(u, g)')
                                            ELSE Holding(u, g)' = {}
    BY DEF MutexMatchesFrames
  <2>1. CASE g = h
    <3>1. depth'[h] = Cardinality(Holding(t, h)') /\ depth'[h] \in Nat
      BY <1>1, <1>2, <1>7, <1>9, <1>11
    <3>2. \A u \in Threads \ {t} : Holding(u, h)' = {}
      BY <1>8, <1>10
    <3>3. CASE depth[h] = 1
      <4>1. owner'[h] = NoThread /\ depth'[h] = 0
        BY <1>1, <1>9, <3>3
      <4>2. Holding(t, h)' = {}
        BY <1>7, <1>12, <3>3
      <4> QED  BY <2>1, <3>2, <4>1, <4>2, ThreadsAssumption
    <3>4. CASE depth[h] # 1
      <4>1. owner'[h] = t /\ depth'[h] # 0
        BY <1>1, <1>2, <1>9, <3>4
      <4> QED  BY <2>1, <3>1, <3>2, <4>1, ThreadsAssumption
    <3> QED  BY <3>3, <3>4
  <2>2. CASE g # h
    BY <1>1, <1>8, <1>9, <2>2 DEF IInv, MutexMatchesFrames
  <2> QED  BY <2>1, <2>2
<1>14. TypeOK'
  BY <1>1, <1>2, <1>4 DEF IInv, TypeOK
<1>15. ASSUME NEW u \in Threads, NEW r, u # t
       PROVE  Top(u)' = Top(u) /\ \A g : At(u, g, r)' <=> At(u, g, r)
  BY <1>4, <1>15 DEF Others, At, Running, Top
<1>16. OriginalIsReached' /\ ArmedAtUnlock' /\ OwnerEnters'
  <2> SUFFICES ASSUME NEW u \in Threads, NEW g \in HookNames
               PROVE  /\ At(u, g, "call")' => code[g] = "orig"
                      /\ At(u, g, "entering")' /\ (~IsDirect(Top(u)') \/ owner'[g] = u) => code[g] = "orig"
                      /\ At(u, g, "unlock")' => code[g] = "hook" /\ g \in installed
    BY <1>1 DEF OriginalIsReached, OwnerEnters, ArmedAtUnlock
  <2>1. CASE u = t
    BY <1>6, <2>1 DEF At
  <2>2. CASE u # t
    <3>1. owner'[g] = u => owner[g] = u
      BY <1>1, <1>9, <2>2, ThreadsAssumption
    <3> QED  BY <1>15, <2>2, <3>1 DEF IInv, OriginalIsReached, OwnerEnters, ArmedAtUnlock
  <2> QED  BY <2>1, <2>2
<1>17. code[h] = "hook"
  BY <1>1 DEF IInv, ArmedAtUnlock
<1>18. ArmedWhenFree'
  BY <1>1, <1>9, <1>17 DEF IInv, ArmedWhenFree
<1>19. TornByOwner'
  <2> SUFFICES ASSUME NEW g \in HookNames, code[g] = "torn"
               PROVE  (owner[g] # NoThread /\ (At(owner[g], g, "offing") \/ At(owner[g], g, "oning")))'
    BY <1>1 DEF TornByOwner
  <2>1. PICK u \in Threads : owner[g] = u /\ (At(u, g, "offing") \/ At(u, g, "oning"))
    BY <1>9 DEF IInv, TornByOwner
  <2>2. u # t /\ g # h
    BY <1>1, <1>17, <2>1 DEF At
  <2>3. owner'[g] = u
    BY <1>1, <1>9, <2>1, <2>2
  <2>4. At(u, g, "offing")' \/ At(u, g, "oning")'
    BY <1>15, <2>1, <2>2
  <2> QED  BY <2>3, <2>4, ThreadsAssumption DEF At, Running, Top
<1> QED  BY <1>5, <1>13, <1>14, <1>16, <1>18, <1>19 DEF IInv, Shape

-----------------------------------------------------------------------------
(* The calls, and every step.                                              *)

\* The frame of a call of the client that goes past the hook.
Direct(h) == [hook |-> h, kind |-> IF h \in installed THEN "bypass" ELSE "early",
              pc |-> "entering", vtable |-> ClientVTable]

\* A call of the client goes past the hook, into HookFunction, or crashes.
LEMMA ClientCallCases ==
  ASSUME TypeOK, NEW t \in Threads, NEW h \in HookNames, ClientCall(t, h)
  PROVE  /\ Running(t) => Top(t).pc = "inside"
         /\ \/ code[h] = "orig" /\ PushFrame(t, Direct(h)) /\ crashed' = crashed
            \/ code[h] = "hook" /\ PushFrame(t, HookFrame(h)) /\ crashed' = crashed
            \/ code[h] = "torn" /\ stack' = stack /\ crashed' = t
         /\ UNCHANGED <<code, installed, owner, depth>>
         /\ netClient' \in {NetClient, NoNetClient}
         /\ vtable' \in Int
<1>1. code[h] \in {"orig", "hook", "torn"}
  BY DEF TypeOK
<1>2. [stack EXCEPT ![t] = stack[t]] = stack
  BY DEF TypeOK
<1>3. /\ Running(t) => Top(t).pc = "inside"
      /\ Execute(t, h, stack[t], Append(stack[t], Direct(h)))
  BY DEF ClientCall, Direct
<1>4. /\ UNCHANGED <<code, installed, owner, depth>>
      /\ netClient' \in {NetClient, NoNetClient}
      /\ vtable' \in Int
  BY <1>3, ClientAssumption DEF Execute, TypeOK
<1>5. CASE code[h] = "orig"
  <2>1. stack' = [stack EXCEPT ![t] = Append(stack[t], Direct(h))] /\ crashed' = crashed
    BY <1>3, <1>5 DEF Execute
  <2> QED  BY <1>3, <1>4, <1>5, <2>1 DEF PushFrame
<1>6. CASE code[h] = "hook"
  <2>1. stack' = [stack EXCEPT ![t] = Append(stack[t], HookFrame(h))] /\ crashed' = crashed
    BY <1>3, <1>6 DEF Execute
  <2> QED  BY <1>3, <1>4, <1>6, <2>1 DEF PushFrame
<1>7. CASE code[h] = "torn"
  <2>1. stack' = [stack EXCEPT ![t] = stack[t]] /\ crashed' = t
    BY <1>3, <1>7 DEF Execute
  <2> QED  BY <1>2, <1>3, <1>4, <1>7, <2>1
<1> QED  BY <1>1, <1>5, <1>6, <1>7

\* A call of the client keeps the invariant.
LEMMA ClientCallStep ==
  ASSUME IInv, NEW t \in Threads, NEW h \in HookNames, ClientCall(t, h)
  PROVE  IInv'
<1>1. TypeOK
  BY DEF IInv
<1>2. /\ Running(t) => Top(t).pc = "inside"
      /\ UNCHANGED <<code, installed, owner, depth>>
      /\ netClient' \in {NetClient, NoNetClient}
      /\ vtable' \in Int
  BY <1>1, ClientCallCases
<1>3. Direct(h) \in Frame /\ HookFrame(h) \in Frame
  BY ClientAssumption DEF Direct, HookFrame, Frame, Kinds, Points
<1>4. CASE code[h] = "orig" /\ PushFrame(t, Direct(h)) /\ crashed' = crashed
  <2>1. /\ Direct(h).pc \in {"scripts", "lock", "entering"}
        /\ Direct(h).pc = "entering" <=> Direct(h).kind \in {"bypass", "early"}
        /\ code[Direct(h).hook] = "orig"
    BY <1>4 DEF Direct
  <2>2. crashed' \in Threads \cup {NoThread}
    BY <1>1, <1>4 DEF TypeOK
  <2> QED  BY <1>2, <1>3, <1>4, <2>1, <2>2, QuietPush
<1>5. CASE code[h] = "hook" /\ PushFrame(t, HookFrame(h)) /\ crashed' = crashed
  <2>1. /\ HookFrame(h).pc \in {"scripts", "lock", "entering"}
        /\ HookFrame(h).pc # "entering"
        /\ HookFrame(h).pc = "entering" <=> HookFrame(h).kind \in {"bypass", "early"}
    BY DEF HookFrame
  <2>2. crashed' \in Threads \cup {NoThread}
    BY <1>1, <1>5 DEF TypeOK
  <2> QED  BY <1>2, <1>3, <1>5, <2>1, <2>2, QuietPush
<1>6. CASE code[h] = "torn" /\ stack' = stack /\ crashed' = t
  <2>1. Shape' /\ SameHolding /\ Others(t)
    BY <1>6 DEF IInv, Shape, BelowWaits, DirectInside, SameHolding, Holding, Others
  <2>2. /\ Running(t)' => Top(t)'.pc \notin {"call", "unlock"}
        /\ \A g \in HookNames : ~At(t, g, "entering")'
    BY <1>2, <1>6 DEF Running, Top, At
  <2> QED  BY <1>1, <1>2, <1>6, <2>1, <2>2, Quiet DEF TypeOK
<1> QED  BY <1>1, <1>4, <1>5, <1>6, ClientCallCases

\* OriginalFunction runs the client's own bytes.
LEMMA CallOriginalStep ==
  ASSUME IInv, NEW t \in Threads, NEW h \in HookNames, CallOriginal(t, h)
  PROVE  IInv' /\ crashed' = crashed /\ Len(stack'[t]) = Len(stack[t])
<1>1. At(t, h, "call") /\ code[h] = "orig"
  BY DEF CallOriginal, IInv, OriginalIsReached
<1>2. /\ GoTo(t, "entering")
      /\ UNCHANGED <<code, installed, owner, depth, netClient, vtable, crashed>>
  BY <1>1 DEF CallOriginal, Execute, GoTo
<1>3. Running(t) /\ Top(t).pc = "call" /\ Top(t).hook = h /\ "entering" \in Points
  BY <1>1 DEF At, Points
<1>4. Top(t).kind \notin {"bypass", "early"} /\ crashed' \in Threads \cup {NoThread}
  BY <1>1, <1>2, HolderOwns DEF HeldPoints, IInv, TypeOK
<1>5. IInv'
  BY <1>1, <1>2, <1>3, <1>4, QuietGoTo DEF HeldPoints, IInv, TypeOK
<1> QED  BY <1>2, <1>3, <1>5, GoToFacts DEF IInv

\* The end of the first six bytes keeps the invariant.  Where a thread finds there what
\* it has not begun with, it went past the hook and does not hold the mutex.
LEMMA EnterStep ==
  ASSUME IInv, NEW t \in Threads, NEW h \in HookNames, Enter(t, h)
  PROVE  /\ IInv'
         /\ \A u \in Threads : Len(stack'[u]) = Len(stack[u])
         /\ crashed' # crashed =>
              /\ crashed' = t /\ code[h] # "orig" /\ owner[h] # t
              /\ At(t, h, "entering") /\ IsDirect(Top(t))
<1>1. /\ At(t, h, "entering") /\ Running(t) /\ Top(t).pc = "entering" /\ "inside" \in Points
      /\ Len(stack[t]) \in 1..Len(stack[t])
      /\ UNCHANGED <<code, installed, owner, depth, netClient, vtable>>
  BY DEF Enter, At, Points, IInv, TypeOK, Running
<1>2. CASE code[h] = "orig"
  <2>1. GoTo(t, "inside") /\ crashed' = crashed
    BY <1>2 DEF Enter
  <2>2. Others(t) /\ Len(stack'[t]) = Len(stack[t])
    BY <1>1, <2>1, GoToFacts DEF IInv
  <2>3. IInv'
    BY <1>1, <2>1, QuietGoTo DEF HeldPoints, IInv, TypeOK
  <2> QED  BY <2>1, <2>2, <2>3 DEF Others
<1>3. CASE code[h] # "orig"
  <2>1. crashed' = t /\ stack' = stack
    BY <1>3 DEF Enter
  <2>2. IsDirect(Top(t)) /\ owner[h] # t
    BY <1>1, <1>3 DEF IInv, OriginalIsReached, OwnerEnters
  <2>3. Shape' /\ SameHolding /\ Others(t)
    BY <2>1 DEF IInv, Shape, BelowWaits, DirectInside, SameHolding, Holding, Others
  <2>4. TypeOK'
    BY <1>1, <2>1 DEF IInv, TypeOK
  <2>5. MutexMatchesFrames' /\ OriginalIsReached' /\ OwnerEnters' /\ ArmedAtUnlock'
    BY <1>1, <2>1 DEF IInv, MutexMatchesFrames, Holding, OriginalIsReached, OwnerEnters,
       ArmedAtUnlock, At, Running, Top
  <2>6. ArmedWhenFree' /\ TornByOwner'
    BY <1>1, <2>1 DEF IInv, ArmedWhenFree, TornByOwner, At, Running, Top
  <2> QED  BY <1>1, <1>3, <2>1, <2>2, <2>3, <2>4, <2>5, <2>6 DEF IInv, Shape
<1> QED  BY <1>2, <1>3

\* The return of the client's function keeps the invariant.
LEMMA ReturnStep ==
  ASSUME IInv, NEW t \in Threads, NEW h \in HookNames, Return(t, h)
  PROVE  IInv'
<1>1. /\ Running(t) /\ Top(t).pc = "inside" /\ "on" \in Points
      /\ UNCHANGED <<code, installed, owner, depth, netClient, vtable, crashed>>
  BY DEF Return, At, Points
<1>2. CASE Top(t).kind \in {"bypass", "early"}
  BY <1>1, <1>2, QuietPop DEF Return
<1>3. CASE Top(t).kind \notin {"bypass", "early"}
  BY <1>1, <1>3, QuietGoTo DEF Return, HeldPoints, IInv, TypeOK
<1> QED  BY <1>2, <1>3

\* The answer of the scripts keeps the invariant.
LEMMA VerdictStep ==
  ASSUME IInv, NEW t \in Threads, NEW h \in HookNames, Verdict(t, h)
  PROVE  IInv'
<1>1. /\ Running(t) /\ Top(t).pc = "scripts" /\ "lock" \in Points
      /\ UNCHANGED <<code, installed, owner, depth, netClient, vtable, crashed>>
  BY DEF Verdict, At, Points
<1>2. Top(t).kind \notin {"bypass", "early"}
  <2>1. Len(stack[t]) \in 1..Len(stack[t]) /\ Top(t) = stack[t][Len(stack[t])]
    BY <1>1 DEF IInv, TypeOK, Running, Top
  <2> QED  BY <1>1, <2>1 DEF IInv, DirectInside
<1>3. CASE PopFrame(t)
  <2>1. Top(t).pc \notin HeldPoints
    BY <1>1 DEF HeldPoints
  <2> QED  BY <1>1, <1>3, <2>1, QuietPop
<1>4. CASE GoTo(t, "lock")
  BY <1>1, <1>2, <1>4, QuietGoTo DEF HeldPoints, IInv, TypeOK
<1> QED  BY <1>3, <1>4 DEF Verdict

\* A packet made by a script keeps the invariant.
LEMMA ForgeStep ==
  ASSUME IInv, NEW t \in Threads, NEW h \in HookNames, Forge(t, h)
  PROVE  IInv'
<1> DEFINE f == [hook |-> h, kind |-> "forged", pc |-> "lock", vtable |-> vtable]
<1>1. f \in Frame
  BY DEF Frame, Kinds, Points, IInv, TypeOK
<1>2. /\ PushFrame(t, f)
      /\ Running(t) => Top(t).pc = "scripts"
      /\ UNCHANGED <<code, installed, owner, depth, netClient, vtable, crashed>>
  BY DEF Forge
<1>3. /\ f.pc \in {"scripts", "lock", "entering"} /\ f.pc # "entering"
      /\ f.pc = "entering" <=> f.kind \in {"bypass", "early"}
  OBVIOUS
<1>4. /\ netClient' \in {NetClient, NoNetClient}
      /\ vtable' \in Int
      /\ crashed' \in Threads \cup {NoThread}
  BY <1>2 DEF IInv, TypeOK
<1> HIDE DEF f
<1> QED  BY <1>1, <1>2, <1>3, <1>4, QuietPush

\* The beginning of an installation keeps the invariant.
LEMMA InitializeStep ==
  ASSUME IInv, NEW h \in HookNames, Initialize(h)
  PROVE  IInv'
<1> DEFINE f == [hook |-> h, kind |-> "install", pc |-> "lock", vtable |-> 0]
<1>1. f \in Frame /\ Console \in Threads
  BY DEF Frame, Kinds, Points, Threads
<1>2. /\ PushFrame(Console, f)
      /\ ~Running(Console)
      /\ UNCHANGED <<code, installed, owner, depth, netClient, vtable, crashed>>
  BY DEF Initialize
<1>3. /\ f.pc \in {"scripts", "lock", "entering"} /\ f.pc # "entering"
      /\ f.pc = "entering" <=> f.kind \in {"bypass", "early"}
  OBVIOUS
<1>4. /\ netClient' \in {NetClient, NoNetClient}
      /\ vtable' \in Int
      /\ crashed' \in Threads \cup {NoThread}
  BY <1>2 DEF IInv, TypeOK
<1> HIDE DEF f
<1> QED  BY <1>1, <1>2, <1>3, <1>4, QuietPush

\* Taking the hook off, in both its halves, keeps the invariant.
LEMMA InterceptFalseStep ==
  ASSUME IInv, NEW t \in Threads, NEW h \in HookNames, InterceptFalse(t, h)
  PROVE  IInv'
<1>1. CASE BeginCopy(t, h, "off", "orig", "offing")
  <2> DEFINE b == IF code[h] = "orig" THEN code[h] ELSE "torn"
  <2>1. b \in {"orig", "hook", "torn"} /\ code' = [code EXCEPT ![h] = b]
    BY <1>1 DEF BeginCopy
  <2> HIDE DEF b
  <2> QED  BY <1>1, <2>1, CopyStep DEF BeginCopy
<1>2. CASE /\ At(t, h, "offing")
           /\ code' = [code EXCEPT ![h] = "orig"]
           /\ GoTo(t, "call")
           /\ UNCHANGED <<installed, owner, depth, netClient, vtable, crashed>>
  BY <1>2, CopyStep
<1> QED  BY <1>1, <1>2 DEF InterceptFalse

\* Putting the hook back, in both its halves, keeps the invariant.
LEMMA InterceptTrueStep ==
  ASSUME IInv, NEW t \in Threads, NEW h \in HookNames, InterceptTrue(t, h)
  PROVE  IInv'
<1>1. CASE BeginCopy(t, h, "on", "hook", "oning")
  <2> DEFINE b == IF code[h] = "hook" THEN code[h] ELSE "torn"
  <2>1. b \in {"orig", "hook", "torn"} /\ code' = [code EXCEPT ![h] = b]
    BY <1>1 DEF BeginCopy
  <2> HIDE DEF b
  <2> QED  BY <1>1, <2>1, CopyStep DEF BeginCopy
<1>2. CASE /\ At(t, h, "oning")
           /\ code' = [code EXCEPT ![h] = "hook"]
           /\ installed' = installed \cup {h}
           /\ GoTo(t, "unlock")
           /\ UNCHANGED <<owner, depth, netClient, vtable, crashed>>
  BY <1>2, CopyStep
<1> QED  BY <1>1, <1>2 DEF InterceptTrue

\* The initial state: nothing is held, nothing is half written.
LEMMA InitIInv == Init => IInv
<1> SUFFICES ASSUME Init PROVE IInv
  OBVIOUS
<1>1. \A t \in Threads : Len(stack[t]) = 0 /\ ~Running(t)
  BY DEF Init, Running
<1>2. TypeOK
  BY DEF Init, TypeOK
<1>3. BelowWaits /\ DirectInside
  BY <1>1 DEF BelowWaits, DirectInside
<1>4. MutexMatchesFrames
  BY <1>1, ThreadsAssumption DEF Init, MutexMatchesFrames, Holding
<1>5. OriginalIsReached /\ OwnerEnters /\ ArmedAtUnlock
  BY <1>1 DEF OriginalIsReached, OwnerEnters, ArmedAtUnlock, At
<1>6. ArmedWhenFree /\ TornByOwner
  BY DEF Init, ArmedWhenFree, TornByOwner
<1> QED  BY <1>2, <1>3, <1>4, <1>5, <1>6 DEF IInv

\* Every step keeps the inductive invariant.
LEMMA NextIInv == IInv /\ [Next]_vars => IInv'
<1> SUFFICES ASSUME IInv, [Next]_vars PROVE IInv'
  OBVIOUS
<1>1. ASSUME NEW h \in HookNames, Initialize(h) PROVE IInv'
  BY <1>1, InitializeStep
<1>2. ASSUME NEW t \in Threads, NEW h \in HookNames, Step(t, h) PROVE IInv'
  <2>1. CASE ClientCall(t, h)      BY <2>1, ClientCallStep
  <2>2. CASE Forge(t, h)           BY <2>2, ForgeStep
  <2>3. CASE Verdict(t, h)         BY <2>3, VerdictStep
  <2>4. CASE Lock(t, h)            BY <2>4, LockStep
  <2>5. CASE InterceptFalse(t, h)  BY <2>5, InterceptFalseStep
  <2>6. CASE CallOriginal(t, h)    BY <2>6, CallOriginalStep
  <2>7. CASE Return(t, h)          BY <2>7, ReturnStep
  <2>8. CASE InterceptTrue(t, h)   BY <2>8, InterceptTrueStep
  <2>9. CASE Unlock(t, h)          BY <2>9, UnlockStep
  <2>10. CASE Enter(t, h)          BY <2>10, EnterStep
  <2> QED  BY <1>2, <2>1, <2>2, <2>3, <2>4, <2>5, <2>6, <2>7, <2>8, <2>9, <2>10 DEF Step
<1>3. CASE UNCHANGED vars
  <2> USE <1>3 DEF vars, At, Running, Top
  <2>1. TypeOK'
    BY DEF IInv, TypeOK
  <2>2. BelowWaits' /\ DirectInside'
    BY DEF IInv, BelowWaits, DirectInside
  <2>3. MutexMatchesFrames'
    BY DEF IInv, MutexMatchesFrames, Holding
  <2>4. /\ OriginalIsReached' /\ OwnerEnters' /\ ArmedAtUnlock'
        /\ ArmedWhenFree' /\ TornByOwner'
    BY DEF IInv, OriginalIsReached, OwnerEnters, ArmedAtUnlock, ArmedWhenFree, TornByOwner
  <2> QED  BY <2>1, <2>2, <2>3, <2>4 DEF IInv
<1> QED  BY <1>1, <1>2, <1>3 DEF Next, Crashed

\* The inductive invariant holds for any number of threads and any depth of calls.
THEOREM IInvHolds == Spec => []IInv
  BY InitIInv, NextIInv, PTL DEF Spec

\* Type correctness: no value leaves its set, the recursion counts stay natural.
THEOREM TypeCorrect == Spec => []TypeOK
<1>1. IInv => TypeOK
  BY DEF IInv
<1> QED  BY <1>1, IInvHolds, PTL

\* Lock and Unlock are paired on every path, whatever number of threads and of calls
\* nested inside one another.
THEOREM MutexDiscipline == Spec => []MutexMatchesFrames
<1>1. IInv => MutexMatchesFrames
  BY DEF IInv
<1> QED  BY <1>1, IInvHolds, PTL

\* OriginalFunction is only ever called when the client's own bytes are in place, and
\* they stay in place until the call is past them.
THEOREM OriginalReached == Spec => []OriginalIsReached
<1>1. IInv => OriginalIsReached
  BY DEF IInv
<1> QED  BY <1>1, IInvHolds, PTL

\* An installed hook is in place whenever its mutex is free.
THEOREM Armed == Spec => []ArmedWhenFree
<1>1. IInv => ArmedWhenFree
  BY DEF IInv
<1> QED  BY <1>1, IInvHolds, PTL

-----------------------------------------------------------------------------
(* What a step may do.                                                     *)

\* Only the calls of the client and of scripts, and main(), push a frame.
LEMMA NoGrowth ==
  ASSUME IInv, NEW t \in Threads, NEW h \in HookNames,
         \/ Verdict(t, h) \/ Lock(t, h) \/ InterceptFalse(t, h) \/ CallOriginal(t, h)
         \/ Return(t, h) \/ InterceptTrue(t, h) \/ Unlock(t, h)
  PROVE  /\ crashed' = crashed
         /\ \A u \in Threads : Len(stack'[u]) <= Len(stack[u])
<1> DEFINE Shrinks == \A u \in Threads : Len(stack'[u]) <= Len(stack[u])
<1>1. TypeOK /\ \A u \in Threads : Len(stack[u]) \in Nat
  BY DEF IInv, TypeOK
<1>2. ASSUME Running(t), PopFrame(t) PROVE Shrinks
  BY <1>1, <1>2, PopFacts DEF Others
<1>3. ASSUME NEW p \in Points, Running(t), GoTo(t, p) PROVE Shrinks
  <2>1. Others(t) /\ Len(stack'[t]) = Len(stack[t])
    BY <1>1, <1>3, GoToFacts
  <2>2. \A u \in Threads : Len(stack'[u]) = Len(stack[u])
    BY <2>1 DEF Others
  <2> QED  BY <1>1, <2>2
<1> SUFFICES crashed' = crashed /\ Shrinks
  OBVIOUS
<1> HIDE DEF Shrinks
<1>4. CASE Verdict(t, h)
  BY <1>2, <1>3, <1>4 DEF Verdict, At, Points
<1>5. CASE Lock(t, h)
  BY <1>3, <1>5 DEF Lock, At, Points
<1>6. CASE InterceptFalse(t, h)
  BY <1>3, <1>6 DEF InterceptFalse, BeginCopy, At, Points
<1>7. CASE CallOriginal(t, h)
  <2>1. GoTo(t, "entering") /\ Running(t) /\ crashed' = crashed
    BY <1>7 DEF CallOriginal, Execute, GoTo, At, IInv, OriginalIsReached
  <2> QED  BY <1>3, <2>1 DEF Points
<1>8. CASE Return(t, h)
  BY <1>2, <1>3, <1>8 DEF Return, At, Points
<1>9. CASE InterceptTrue(t, h)
  BY <1>3, <1>9 DEF InterceptTrue, BeginCopy, At, Points
<1>10. CASE Unlock(t, h)
  BY <1>2, <1>10 DEF Unlock, At
<1> QED  BY <1>4, <1>5, <1>6, <1>7, <1>8, <1>9, <1>10

\* What MixedOnlyUnlocked says of one step.
MixedStep ==
  crashed' # crashed =>
    \E h \in HookNames :
      /\ code[h] # "orig" /\ owner[h] # crashed'
      /\ \/ code[h] = "torn" /\ owner[h] # NoThread
         \/ At(crashed', h, "entering") /\ IsDirect(Top(crashed'))

\* The two action properties, for one step.
LEMMA StepIsSafe ==
  ASSUME IInv, [Next]_vars
  PROVE  /\ \A h \in HookNames : Escapes(h) => owner[h] # NoThread
         /\ MixedStep
<1> DEFINE Goal == (\A h \in HookNames : Escapes(h) => owner[h] # NoThread) /\ MixedStep
<1>1. TypeOK /\ \A u \in Threads : Len(stack[u]) \in Nat
  BY DEF IInv, TypeOK
<1>2. ASSUME crashed' = crashed, \A u \in Threads : Len(stack'[u]) <= Len(stack[u])
      PROVE  Goal
  BY <1>1, <1>2 DEF Escapes, TypeOK, MixedStep
<1>3. ASSUME NEW t \in Threads, NEW f \in Frame, PushFrame(t, f), crashed' = crashed,
             f.kind = "bypass" => owner[f.hook] # NoThread
      PROVE  Goal
  <2>1. Others(t) /\ stack'[t][Len(stack'[t])] = f
    BY <1>1, <1>3, PushFacts
  <2>2. \A u \in Threads : u # t => Len(stack'[u]) = Len(stack[u])
    BY <2>1 DEF Others
  <2> QED  BY <1>1, <1>3, <2>1, <2>2 DEF Escapes, MixedStep
<1>4. ASSUME NEW h \in HookNames, Initialize(h) PROVE Goal
  <2> DEFINE f == [hook |-> h, kind |-> "install", pc |-> "lock", vtable |-> 0]
  <2>1. f \in Frame /\ Console \in Threads /\ f.kind # "bypass"
    BY DEF Frame, Kinds, Points, Threads
  <2>2. PushFrame(Console, f) /\ crashed' = crashed
    BY <1>4 DEF Initialize
  <2> HIDE DEF f, Goal
  <2> QED  BY <1>3, <2>1, <2>2
<1>5. ASSUME NEW t \in Threads, NEW h \in HookNames, Forge(t, h) PROVE Goal
  <2> DEFINE f == [hook |-> h, kind |-> "forged", pc |-> "lock", vtable |-> vtable]
  <2>1. f \in Frame /\ f.kind # "bypass"
    BY <1>1 DEF Frame, Kinds, Points, TypeOK
  <2>2. PushFrame(t, f) /\ crashed' = crashed
    BY <1>5 DEF Forge
  <2> HIDE DEF f, Goal
  <2> QED  BY <1>3, <2>1, <2>2
<1>6. ASSUME NEW t \in Threads, NEW h \in HookNames, ClientCall(t, h) PROVE Goal
  <2>1. /\ Direct(h) \in Frame /\ HookFrame(h) \in Frame
        /\ HookFrame(h).kind # "bypass"
        /\ Direct(h).hook = h
        /\ Direct(h).kind = "bypass" => h \in installed
    BY ClientAssumption DEF Direct, HookFrame, Frame, Kinds, Points
  <2>2. CASE code[h] = "orig" /\ PushFrame(t, Direct(h)) /\ crashed' = crashed
    <3>1. h \in installed => owner[h] # NoThread
      BY <2>2 DEF IInv, ArmedWhenFree
    <3> HIDE DEF Goal
    <3> QED  BY <1>3, <2>1, <2>2, <3>1
  <2>3. CASE code[h] = "hook" /\ PushFrame(t, HookFrame(h)) /\ crashed' = crashed
    <3> HIDE DEF Goal
    <3> QED  BY <1>3, <2>1, <2>3
  <2>4. CASE code[h] = "torn" /\ stack' = stack /\ crashed' = t
    <3>1. /\ owner[h] # NoThread
          /\ At(owner[h], h, "offing") \/ At(owner[h], h, "oning")
      BY <2>4 DEF IInv, TornByOwner
    <3>2. Running(t) => Top(t).pc = "inside"
      BY <1>6 DEF ClientCall
    <3>3. owner[h] # t
      BY <3>1, <3>2 DEF At
    <3>4. \A g \in HookNames : ~Escapes(g)
      BY <1>1, <2>4 DEF Escapes
    <3> QED  BY <2>4, <3>1, <3>3, <3>4 DEF MixedStep
  <2> QED  BY <1>1, <1>6, <2>2, <2>3, <2>4, ClientCallCases
<1>7. ASSUME NEW t \in Threads, NEW h \in HookNames, Step(t, h) PROVE Goal
  <2>1. ASSUME Enter(t, h) PROVE Goal
    BY <1>1, <2>1, EnterStep DEF Escapes, MixedStep
  <2> HIDE DEF Goal
  <2> QED  BY <1>2, <1>5, <1>6, <1>7, <2>1, NoGrowth DEF Step
<1>8. ASSUME UNCHANGED vars PROVE Goal
  <2>1. crashed' = crashed /\ \A u \in Threads : Len(stack'[u]) <= Len(stack[u])
    BY <1>1, <1>8 DEF vars
  <2> HIDE DEF Goal
  <2> QED  BY <1>2, <2>1
<1> HIDE DEF Goal
<1>9. Goal
  BY <1>4, <1>7, <1>8 DEF Next, Crashed
<1> QED  BY <1>9 DEF Goal

\* A packet of the client escapes the scripts only inside a window that a thread has
\* opened under the mutex of that hook.
THEOREM EscapesOnlyInWindow == Spec => EscapeOnlyInWindow
<1>1. IInv /\ [Next]_vars => [\A h \in HookNames : Escapes(h) => owner[h] # NoThread]_vars
  BY StepIsSafe
<1> QED  BY <1>1, IInvHolds, PTL DEF Spec, EscapeOnlyInWindow

\* A thread executes a mixture of bytes only in a function whose mutex it does not
\* hold, while another one writes them or in a call that went past the hook.
THEOREM MixedUnlocked == Spec => MixedOnlyUnlocked
<1>1. IInv /\ [Next]_vars =>
        [crashed' # crashed =>
           \E h \in HookNames :
             /\ code[h] # "orig" /\ owner[h] # crashed'
             /\ \/ code[h] = "torn" /\ owner[h] # NoThread
                \/ At(crashed', h, "entering") /\ IsDirect(Top(crashed'))]_vars
  BY StepIsSafe DEF MixedStep
<1> QED  BY <1>1, IInvHolds, PTL DEF Spec, MixedOnlyUnlocked

-----------------------------------------------------------------------------
(* Nobody waits in a circle, where sending calls neither function.         *)

\* While a thread is inside the client's Send it calls nothing that is hooked.
SendOnTop ==
  \A t \in Threads : \A i \in 1..Len(stack[t]) - 1 :
    ~(stack[t][i].hook = "Send" /\ stack[t][i].pc = "inside")

SendCallsNobody == \A h \in HookNames : <<"Send", h>> \notin Calls

\* A new frame comes upon one that is not inside Send.
LEMMA PushOnTop ==
  ASSUME IInv, SendOnTop, NEW t \in Threads, NEW f \in Frame, PushFrame(t, f),
         Running(t) => ~(Top(t).hook = "Send" /\ Top(t).pc = "inside")
  PROVE  SendOnTop'
<1>1. /\ Len(stack[t]) \in Nat
      /\ Others(t)
      /\ Len(stack'[t]) = Len(stack[t]) + 1
      /\ \A i \in 1..Len(stack[t]) : stack'[t][i] = stack[t][i]
  BY PushFacts DEF IInv, TypeOK
<1>2. \A i \in 1..Len(stack[t]) : ~(stack[t][i].hook = "Send" /\ stack[t][i].pc = "inside")
  <2> SUFFICES ASSUME NEW i \in 1..Len(stack[t])
               PROVE  ~(stack[t][i].hook = "Send" /\ stack[t][i].pc = "inside")
    OBVIOUS
  <2>1. CASE i = Len(stack[t])
    BY <1>1, <2>1 DEF Running, Top, IInv, TypeOK
  <2>2. CASE i # Len(stack[t])
    BY <1>1, <2>2 DEF SendOnTop
  <2> QED  BY <2>1, <2>2
<1> QED  BY <1>1, <1>2 DEF SendOnTop, Others

\* The frames below the top stay as they are, or get fewer.
LEMMA BelowOnTop ==
  ASSUME IInv, SendOnTop, NEW t \in Threads, Running(t),
         PopFrame(t) \/ \E p \in Points : GoTo(t, p)
  PROVE  SendOnTop'
<1>1. TypeOK /\ Len(stack[t]) \in Nat
  BY DEF IInv, TypeOK
<1>2. /\ Others(t)
      /\ Len(stack'[t]) \in Nat /\ Len(stack'[t]) <= Len(stack[t])
      /\ \A i \in 1..Len(stack'[t]) - 1 : stack'[t][i] = stack[t][i]
  <2>1. CASE PopFrame(t)
    BY <1>1, <2>1, PopFacts
  <2>2. ASSUME NEW p \in Points, GoTo(t, p)
        PROVE  /\ Others(t)
               /\ Len(stack'[t]) = Len(stack[t])
               /\ \A i \in 1..Len(stack[t]) - 1 : stack'[t][i] = stack[t][i]
    BY <1>1, <2>2, GoToFacts
  <2> QED  BY <1>1, <2>1, <2>2
<1>3. \A u \in Threads \ {t} : stack'[u] = stack[u]
  BY <1>2 DEF Others
<1> QED  BY <1>1, <1>2, <1>3 DEF SendOnTop

\* No step puts a frame on top of one that is inside Send.
LEMMA NextOnTop == SendCallsNobody /\ IInv /\ SendOnTop /\ [Next]_vars => SendOnTop'
<1> SUFFICES ASSUME SendCallsNobody, IInv, SendOnTop, [Next]_vars PROVE SendOnTop'
  OBVIOUS
<1>1. ASSUME NEW h \in HookNames, Initialize(h) PROVE SendOnTop'
  <2> DEFINE f == [hook |-> h, kind |-> "install", pc |-> "lock", vtable |-> 0]
  <2>1. f \in Frame /\ Console \in Threads
    BY DEF Frame, Kinds, Points, Threads
  <2>2. PushFrame(Console, f) /\ ~Running(Console)
    BY <1>1 DEF Initialize
  <2> HIDE DEF f
  <2> QED  BY <2>1, <2>2, PushOnTop
<1>2. ASSUME NEW t \in Threads, NEW h \in HookNames, Forge(t, h) PROVE SendOnTop'
  <2> DEFINE f == [hook |-> h, kind |-> "forged", pc |-> "lock", vtable |-> vtable]
  <2>1. f \in Frame
    BY DEF Frame, Kinds, Points, IInv, TypeOK
  <2>2. PushFrame(t, f) /\ (Running(t) => Top(t).pc = "scripts")
    BY <1>2 DEF Forge
  <2> HIDE DEF f
  <2> QED  BY <2>1, <2>2, PushOnTop
<1>3. ASSUME NEW t \in Threads, NEW h \in HookNames, ClientCall(t, h) PROVE SendOnTop'
  <2>1. Direct(h) \in Frame /\ HookFrame(h) \in Frame
    BY ClientAssumption DEF Direct, HookFrame, Frame, Kinds, Points
  <2>2. Running(t) => ~(Top(t).hook = "Send" /\ Top(t).pc = "inside")
    BY <1>3 DEF ClientCall, SendCallsNobody
  <2>3. PushFrame(t, Direct(h)) \/ PushFrame(t, HookFrame(h)) \/ stack' = stack
    BY <1>3, ClientCallCases DEF IInv
  <2>4. stack' = stack => SendOnTop'
    BY DEF SendOnTop
  <2> QED  BY <2>1, <2>2, <2>3, <2>4, PushOnTop
<1>4. ASSUME NEW t \in Threads, NEW h \in HookNames,
             \/ Verdict(t, h) \/ Lock(t, h) \/ InterceptFalse(t, h) \/ CallOriginal(t, h)
             \/ Return(t, h) \/ InterceptTrue(t, h) \/ Unlock(t, h)
      PROVE  SendOnTop'
  <2>1. Running(t) /\ (PopFrame(t) \/ \E p \in Points : GoTo(t, p))
    <3>1. CASE CallOriginal(t, h)
      BY <3>1 DEF CallOriginal, Execute, GoTo, At, Points, IInv, OriginalIsReached
    <3>2. CASE Verdict(t, h) \/ Return(t, h) \/ Unlock(t, h)
      BY <3>2 DEF Verdict, Return, Unlock, At, Points
    <3>3. CASE Lock(t, h) \/ InterceptFalse(t, h) \/ InterceptTrue(t, h)
      BY <3>3 DEF Lock, InterceptFalse, InterceptTrue, BeginCopy, At, Points
    <3> QED  BY <1>4, <3>1, <3>2, <3>3
  <2> QED  BY <2>1, BelowOnTop
<1>5. ASSUME NEW t \in Threads, NEW h \in HookNames, Enter(t, h) PROVE SendOnTop'
  <2>1. stack' = stack => SendOnTop'
    BY DEF SendOnTop
  <2> QED  BY <1>5, <2>1, BelowOnTop DEF Enter, At, Points
<1>6. CASE UNCHANGED vars
  BY <1>6 DEF vars, SendOnTop
<1> QED  BY <1>1, <1>2, <1>3, <1>4, <1>5, <1>6 DEF Next, Step, Crashed

\* A thread that holds one mutex and waits for the other is inside the client's Process.
LEMMA HoldsProcess ==
  ASSUME IInv, SendOnTop, NEW t \in Threads, NEW g \in HookNames, NEW h \in HookNames,
         Waits(t, h), owner[g] = t
  PROVE  g = "Process"
<1>1. Cardinality(Holding(t, g)) # 0
  BY ThreadsAssumption DEF IInv, MutexMatchesFrames
<1>2. PICK i : i \in Holding(t, g)
  BY <1>1, FS_EmptySet
<1>3. i \in 1..Len(stack[t]) /\ HoldsLock(stack[t][i], g) /\ Len(stack[t]) \in Nat
  BY <1>2 DEF Holding, IInv, TypeOK
<1>4. i # Len(stack[t])
  BY <1>3 DEF Waits, At, Top, HoldsLock, HeldPoints
<1>5. stack[t][i].pc = "inside" /\ stack[t][i].hook = g
  BY <1>3, <1>4 DEF IInv, BelowWaits, HoldsLock, HeldPoints
<1>6. g # "Send"
  BY <1>3, <1>4, <1>5 DEF SendOnTop
<1> QED  BY <1>6 DEF HookNames

\* No two threads wait for each other's mutex, provided that the client's code of
\* sending calls neither function.  The proviso is what the client does and no more:
\* with <<"Send", "Process">> in Calls two threads may deadlock at a depth of three,
\* where a packet forged inside a nested call has put the outer call's hook back.
THEOREM NoCircle ==
  ASSUME SendCallsNobody
  PROVE  Spec => []NoWaitCycle
<1>1. Init => SendOnTop
  BY DEF Init, SendOnTop
<1>2. IInv /\ SendOnTop => NoWaitCycle
  <2> SUFFICES ASSUME IInv, SendOnTop,
                      NEW t \in Threads, NEW u \in Threads, NEW g \in HookNames, NEW h \in HookNames,
                      Waits(t, h), owner[h] = u, Waits(u, g), owner[g] = t
               PROVE  FALSE
    BY DEF NoWaitCycle
  <2>1. g = "Process" /\ h = "Process"
    BY HoldsProcess
  <2> QED  BY <2>1 DEF Waits
<1>3. IInv /\ SendOnTop /\ [Next]_vars => SendOnTop'
  BY NextOnTop
<1> QED  BY <1>1, <1>2, <1>3, IInvHolds, PTL DEF Spec

-----------------------------------------------------------------------------
(* Hooks implements Interception, for every value of its constants: every  *)
(* step of the hooks is a step in the life of a packet, or none.           *)

(* What the refinement needs beyond IInv.                                  *)

InstallOK(f) == f.kind = "install" => f.pc \in {"lock", "on", "oning", "unlock"}

\* The installation of a hook asks no script and calls nothing.
InstallPoints == \A t \in Threads : \A i \in 1..Len(stack[t]) : InstallOK(stack[t][i])

\* The jump is in place only where a hook is installed.
HookInstalled == \A h \in HookNames : code[h] = "hook" => h \in installed

RInv == IInv /\ InstallPoints /\ HookInstalled

Simulated(t, h) == Promise!Live(t, h) \/ UNCHANGED Promise!ivars

-----------------------------------------------------------------------------
(* What the changes of a stack are in terms of packets.                    *)

Packets == {PacketOf(f) : f \in Frame}

\* The packets of a thread mirror its frames.
LEMMA InflightOf ==
  ASSUME TypeOK, NEW t \in Threads
  PROVE  /\ Inflight[t] \in Seq(Packets)
         /\ Len(Inflight[t]) = Len(stack[t])
         /\ \A i \in 1..Len(stack[t]) : Inflight[t][i] = PacketOf(stack[t][i])
<1> DEFINE n == Len(stack[t])
           r == [i \in 1..n |-> PacketOf(stack[t][i])]
<1>1. Inflight[t] = r
  BY DEF Inflight
<1>2. n \in Nat /\ \A i \in 1..n : stack[t][i] \in Frame
  BY DEF TypeOK
<1>3. \A i \in 1..n : PacketOf(stack[t][i]) \in Packets
  BY <1>2 DEF Packets
<1> HIDE DEF n
<1>4. r \in [1..n -> Packets] /\ \A i \in 1..n : r[i] = PacketOf(stack[t][i])
  BY <1>3
<1> HIDE DEF r
<1>5. r \in Seq(Packets)
  BY <1>2, <1>4, SeqDef
<1>6. Len(r) = n
  BY <1>2, <1>4, <1>5, LenProperties
<1> QED  BY <1>1, <1>4, <1>5, <1>6 DEF n

\* Two sequences that mirror the same frames are the same.
LEMMA SamePackets ==
  ASSUME TypeOK, TypeOK', NEW t \in Threads, NEW s \in Seq(Packets),
         Len(s) = Len(stack'[t]), \A i \in 1..Len(s) : s[i] = PacketOf(stack'[t][i]),
         \A u \in Threads \ {t} : stack'[u] = stack[u]
  PROVE  Inflight' = [Inflight EXCEPT ![t] = s]
<1>1. /\ Inflight'[t] \in Seq(Packets)
      /\ Len(Inflight'[t]) = Len(stack'[t])
      /\ \A i \in 1..Len(stack'[t]) : Inflight'[t][i] = PacketOf(stack'[t][i])
  <2> DEFINE q == stack'[t]
             n == Len(q)
             r == [i \in 1..n |-> PacketOf(q[i])]
  <2>1. Inflight'[t] = r
    BY DEF Inflight
  <2>2. n \in Nat /\ \A i \in 1..n : q[i] \in Frame
    BY DEF TypeOK
  <2>3. \A i \in 1..n : PacketOf(q[i]) \in Packets
    BY <2>2 DEF Packets
  <2> HIDE DEF n, q
  <2>4. r \in [1..n -> Packets] /\ \A i \in 1..n : r[i] = PacketOf(q[i])
    BY <2>3
  <2> HIDE DEF r
  <2>5. r \in Seq(Packets)
    BY <2>2, <2>4, SeqDef
  <2>6. Len(r) = n
    BY <2>2, <2>4, <2>5, LenProperties
  <2> QED  BY <2>1, <2>4, <2>5, <2>6 DEF n, q
<1>2. Inflight'[t] = s
  BY <1>1, SeqEqual
<1>3. \A u \in Threads \ {t} : Inflight'[u] = Inflight[u]
  BY DEF Inflight
<1>4. Inflight' = [u \in Threads |-> Inflight'[u]] /\ Inflight = [u \in Threads |-> Inflight[u]]
  BY DEF Inflight
<1> QED  BY <1>2, <1>3, <1>4

\* A new frame is a new packet.
LEMMA PushMaps ==
  ASSUME TypeOK, TypeOK', NEW t \in Threads, NEW f \in Frame, PushFrame(t, f)
  PROVE  Inflight' = [Inflight EXCEPT ![t] = Append(@, PacketOf(f))]
<1> DEFINE s == Append(Inflight[t], PacketOf(f))
           n == Len(stack[t])
<1>1. /\ Others(t)
      /\ n \in Nat
      /\ Len(stack'[t]) = n + 1
      /\ stack'[t][n + 1] = f
      /\ \A i \in 1..n : stack'[t][i] = stack[t][i]
  BY PushFacts DEF TypeOK
<1>2. /\ Inflight[t] \in Seq(Packets) /\ Len(Inflight[t]) = n
      /\ \A i \in 1..n : Inflight[t][i] = PacketOf(stack[t][i])
  BY InflightOf
<1>3. PacketOf(f) \in Packets
  BY DEF Packets
<1>4. /\ s \in Seq(Packets) /\ Len(s) = n + 1
      /\ s[n + 1] = PacketOf(f) /\ \A i \in 1..n : s[i] = Inflight[t][i]
  BY <1>2, <1>3
<1> HIDE DEF s
<1>5. \A i \in 1..Len(s) : s[i] = PacketOf(stack'[t][i])
  BY <1>1, <1>2, <1>4
<1>6. Inflight' = [Inflight EXCEPT ![t] = s]
  BY <1>1, <1>4, <1>5, SamePackets DEF Others
<1> QED  BY <1>6 DEF s

\* The end of a frame is the end of its packet.
LEMMA PopMaps ==
  ASSUME TypeOK, TypeOK', NEW t \in Threads, Running(t), PopFrame(t)
  PROVE  Inflight' = [Inflight EXCEPT ![t] = SubSeq(@, 1, Len(@) - 1)]
<1> DEFINE q == Inflight[t]
           s == SubSeq(q, 1, Len(q) - 1)
           n == Len(stack[t])
<1>1. /\ Others(t)
      /\ n \in Nat \ {0}
      /\ Len(stack'[t]) = n - 1
      /\ \A i \in 1..n - 1 : stack'[t][i] = stack[t][i]
  BY PopFacts DEF TypeOK, Running
<1>2. /\ q \in Seq(Packets) /\ Len(q) = n
      /\ \A i \in 1..n : q[i] = PacketOf(stack[t][i])
  BY InflightOf
<1> HIDE DEF q, n
<1>3. s \in Seq(Packets) /\ Len(s) = n - 1 /\ \A i \in 1..n - 1 : s[i] = q[i]
  BY <1>1, <1>2
<1> HIDE DEF s
<1>4. \A i \in 1..Len(s) : s[i] = PacketOf(stack'[t][i])
  BY <1>1, <1>2, <1>3
<1>5. Inflight' = [Inflight EXCEPT ![t] = s]
  BY <1>1, <1>3, <1>4, SamePackets DEF Others
<1> QED  BY <1>5 DEF s, q

\* A frame that goes on changes the stage of its packet.
LEMMA GoToMaps ==
  ASSUME TypeOK, TypeOK', NEW t \in Threads, NEW p \in Points, Running(t), GoTo(t, p)
  PROVE  Inflight' = [Inflight EXCEPT ![t] =
           [Inflight[t] EXCEPT ![Len(stack[t])] = PacketOf([Top(t) EXCEPT !.pc = p])]]
<1> DEFINE q == Inflight[t]
           n == Len(stack[t])
           f == [Top(t) EXCEPT !.pc = p]
           s == [q EXCEPT ![n] = PacketOf(f)]
<1>1. /\ Others(t)
      /\ n \in Nat \ {0}
      /\ Len(stack'[t]) = n
      /\ stack'[t][n] = f
      /\ \A i \in 1..n - 1 : stack'[t][i] = stack[t][i]
  BY GoToFacts DEF TypeOK, Running
<1>2. /\ q \in Seq(Packets) /\ Len(q) = n
      /\ \A i \in 1..n : q[i] = PacketOf(stack[t][i])
  BY InflightOf
<1>3. Top(t) \in Frame
  BY <1>1 DEF Top, TypeOK
<1>4. f \in Frame
  BY <1>3 DEF Frame
<1> HIDE DEF q, n, f
<1>5. PacketOf(f) \in Packets
  BY <1>4 DEF Packets
<1>6. /\ s \in Seq(Packets) /\ Len(s) = n
      /\ \A i \in 1..n : s[i] = IF i = n THEN PacketOf(f) ELSE q[i]
  BY <1>1, <1>2, <1>5, ExceptSeq
<1> HIDE DEF s
<1>7. \A i \in 1..Len(s) : s[i] = PacketOf(stack'[t][i])
  BY <1>1, <1>2, <1>6
<1>8. Inflight' = [Inflight EXCEPT ![t] = s]
  BY <1>1, <1>6, <1>7, SamePackets DEF Others
<1> QED  BY <1>8 DEF s, q, f, n

-----------------------------------------------------------------------------
(* What a stage says of a frame.                                           *)

\* The stage of a packet by the point of its frame.
LEMMA StageFacts ==
  ASSUME NEW f \in Frame
  PROVE  /\ f.kind = "install" => StageOf(f) = "arming"
         /\ f.kind # "install" =>
              /\ f.pc = "scripts" => StageOf(f) = "offered"
              /\ f.pc = "lock" => StageOf(f) = "accepted"
              /\ f.pc \in {"off", "offing", "call", "entering"} => StageOf(f) = "turn"
              /\ f.pc = "inside" => StageOf(f) = "inside"
              /\ f.pc \in {"on", "oning", "unlock"} => StageOf(f) = "delivered"
  BY DEF StageOf

\* The packet of a frame has its hook, its way past the hook and its stage.
LEMMA PacketFields ==
  ASSUME NEW f
  PROVE  /\ PacketOf(f).hook = f.hook
         /\ PacketOf(f).stage = StageOf(f)
         /\ PacketOf(f).direct <=> f.kind \in {"bypass", "early"}
  BY DEF PacketOf

\* The packet of a frame that goes by the framework.
LEMMA Guided ==
  ASSUME NEW f, f.kind \notin {"bypass", "early"}
  PROVE  PacketOf(f) = Promise!Item(f.hook, FALSE, StageOf(f))
<1>1. (f.kind \in {"bypass", "early"}) = FALSE
  OBVIOUS
<1> QED  BY <1>1, Zenon DEF PacketOf, Promise!Item

\* The innermost packet of a thread is that of its top frame.
LEMMA TopPacket ==
  ASSUME TypeOK, NEW t \in Threads, Running(t)
  PROVE  /\ Inflight[t] # <<>>
         /\ Len(Inflight[t]) = Len(stack[t])
         /\ Promise!Innermost(t) = PacketOf(Top(t))
         /\ Top(t) \in Frame
<1>1. Len(stack[t]) \in 1..Len(stack[t]) /\ Top(t) \in Frame
  BY DEF TypeOK, Running, Top
<1>2. Len(Inflight[t]) = Len(stack[t]) /\ Inflight[t][Len(stack[t])] = PacketOf(stack[t][Len(stack[t])])
  BY <1>1, InflightOf
<1> QED  BY <1>1, <1>2, InflightOf DEF Promise!Innermost, Top

\* Is, said of the top frame.
LEMMA TopIs ==
  ASSUME TypeOK, NEW t \in Threads, Running(t)
  PROVE  /\ Top(t).kind \notin {"bypass", "early"} => Promise!Is(t, Top(t).hook, FALSE, StageOf(Top(t)))
         /\ Top(t).kind \in {"bypass", "early"} => Promise!Is(t, Top(t).hook, TRUE, StageOf(Top(t)))
<1> DEFINE f == Top(t)
<1>1. Inflight[t] # <<>> /\ Promise!Innermost(t) = PacketOf(f)
  BY TopPacket
<1> HIDE DEF f
<1>2. CASE f.kind \notin {"bypass", "early"}
  <2>1. PacketOf(f) = Promise!Item(f.hook, FALSE, StageOf(f))
    BY <1>2, Guided
  <2> QED  BY <1>1, <1>2, <2>1 DEF f, Promise!Is
<1>3. CASE f.kind \in {"bypass", "early"}
  <2>1. PacketOf(f) = Promise!Item(f.hook, TRUE, StageOf(f))
    <3>1. (f.kind \in {"bypass", "early"}) = TRUE
      BY <1>3
    <3> QED  BY <3>1, Zenon DEF PacketOf, Promise!Item
  <2> QED  BY <1>1, <1>3, <2>1 DEF f, Promise!Is
<1> QED  BY <1>2, <1>3

\* A frame that goes on, as a change of stage.
LEMMA Becomes ==
  ASSUME TypeOK, TypeOK', NEW t \in Threads, NEW p \in Points, Running(t), GoTo(t, p),
         UNCHANGED <<installed, crashed>>
  PROVE  Promise!Become(t, StageOf([Top(t) EXCEPT !.pc = p]))
<1> DEFINE f == [Top(t) EXCEPT !.pc = p]
           q == Inflight[t]
<1>1. Top(t) \in Frame /\ q # <<>> /\ Len(q) = Len(stack[t]) /\ q[Len(q)] = PacketOf(Top(t))
  BY TopPacket DEF Promise!Innermost
<1>2. f.hook = Top(t).hook /\ f.kind = Top(t).kind
  BY <1>1 DEF Frame
<1>3. Inflight' = [Inflight EXCEPT ![t] = [q EXCEPT ![Len(q)] = PacketOf(f)]]
  BY <1>1, GoToMaps
<1> HIDE DEF f, q
<1>4. PacketOf(f) = [q[Len(q)] EXCEPT !.stage = StageOf(f)]
  BY <1>1, <1>2 DEF PacketOf
<1>5. Inflight' = [Inflight EXCEPT ![t][Len(q)].stage = StageOf(f)]
  BY <1>3, <1>4 DEF q
<1> QED  BY <1>5 DEF Promise!Become, f, q

\* A frame that goes on within its stage is no step of its packet.
LEMMA Stays ==
  ASSUME TypeOK, TypeOK', NEW t \in Threads, NEW p \in Points, Running(t), GoTo(t, p),
         StageOf([Top(t) EXCEPT !.pc = p]) = StageOf(Top(t))
  PROVE  Inflight' = Inflight
<1> DEFINE f == [Top(t) EXCEPT !.pc = p]
           q == Inflight[t]
<1>1. /\ Top(t) \in Frame /\ q # <<>> /\ Len(q) = Len(stack[t])
      /\ q[Len(q)] = PacketOf(Top(t)) /\ q \in Seq(Packets)
  BY TopPacket, InflightOf DEF Promise!Innermost
<1>2. f.hook = Top(t).hook /\ f.kind = Top(t).kind
  BY <1>1 DEF Frame
<1>3. Inflight' = [Inflight EXCEPT ![t] = [q EXCEPT ![Len(q)] = PacketOf(f)]]
  BY <1>1, GoToMaps
<1> HIDE DEF f
<1>4. PacketOf(f) = q[Len(q)]
  BY <1>1, <1>2 DEF PacketOf, f
<1>5. [q EXCEPT ![Len(q)] = q[Len(q)]] = q
  BY <1>1
<1>6. Inflight = [u \in Threads |-> Inflight[u]]
  BY DEF Inflight
<1> QED  BY <1>3, <1>4, <1>5, <1>6

\* Whoever holds the mutex of a hook has its turn or installs it.
LEMMA HolderIsSeen ==
  ASSUME RInv, NEW t \in Threads, NEW h \in HookNames, NEW i \in Holding(t, h)
  PROVE  Promise!HasTurn(t, h) \/ Promise!Arming(h)
<1> DEFINE f == stack[t][i]
<1>1. i \in 1..Len(stack[t]) /\ HoldsLock(f, h) /\ f \in Frame
  BY DEF Holding, RInv, IInv, TypeOK
<1>2. i \in 1..Len(Inflight[t]) /\ Inflight[t][i] = PacketOf(f)
  BY <1>1, InflightOf DEF RInv, IInv
<1> HIDE DEF f
<1>3. /\ PacketOf(f).hook = h /\ ~PacketOf(f).direct
      /\ PacketOf(f).stage = StageOf(f)
      /\ PacketOf(f) = Promise!Item(h, FALSE, StageOf(f))
  BY <1>1, PacketFields, Guided DEF HoldsLock
<1>4. CASE f.kind = "install"
  <2>1. Inflight[t][i] = Promise!Item(h, FALSE, "arming")
    BY <1>1, <1>2, <1>3, <1>4, StageFacts
  <2> QED  BY <1>2, <2>1 DEF Promise!Arming
<1>5. CASE f.kind # "install"
  <2>1. StageOf(f) \in {"turn", "inside", "delivered"}
    BY <1>1, <1>5, StageFacts DEF HoldsLock, HeldPoints
  <2> QED  BY <1>2, <1>3, <2>1 DEF Promise!HasTurn
<1> QED  BY <1>4, <1>5

\* Nobody else has a turn while a thread has the mutex, or nobody has it.
LEMMA NoHolderNoTurn ==
  ASSUME RInv, NEW t \in Threads, NEW h \in HookNames, Holding(t, h) = {}
  PROVE  ~Promise!HasTurn(t, h)
<1> SUFFICES ASSUME NEW i \in 1..Len(Inflight[t]),
                    Inflight[t][i].hook = h, ~Inflight[t][i].direct,
                    Inflight[t][i].stage \in {"turn", "inside", "delivered"}
             PROVE  FALSE
  BY DEF Promise!HasTurn
<1> DEFINE f == stack[t][i]
<1>1. i \in 1..Len(stack[t]) /\ Inflight[t][i] = PacketOf(f)
  BY InflightOf DEF RInv, IInv
<1>2. f \in Frame
  BY <1>1 DEF RInv, IInv, TypeOK
<1>3. f.hook = h /\ f.kind \notin {"bypass", "early"} /\ StageOf(f) \in {"turn", "inside", "delivered"}
  BY <1>1, PacketFields
<1>4. ~HoldsLock(f, h)
  BY <1>1 DEF Holding
<1> HIDE DEF f
<1>5. f.pc \in {"scripts", "lock"} /\ f.kind # "install"
  BY <1>2, <1>3, <1>4, StageFacts DEF HoldsLock, HeldPoints, Frame, Points
<1> QED  BY <1>2, <1>3, <1>5, StageFacts

-----------------------------------------------------------------------------
(* What the changes of a stack mean.                                       *)

\* A new frame is a packet that enters.
LEMMA PushMeans ==
  ASSUME RInv, TypeOK', NEW t \in Threads, NEW f \in Frame, PushFrame(t, f), InstallOK(f),
         UNCHANGED <<code, installed, crashed>>
  PROVE  InstallPoints' /\ HookInstalled' /\ Promise!Enter(t, PacketOf(f))
<1>1. TypeOK
  BY DEF RInv, IInv
<1>2. /\ Len(stack[t]) \in Nat
      /\ Others(t)
      /\ Len(stack'[t]) = Len(stack[t]) + 1
      /\ stack'[t][Len(stack'[t])] = f
      /\ \A i \in 1..Len(stack[t]) : stack'[t][i] = stack[t][i]
  BY <1>1, PushFacts DEF TypeOK
<1>3. InstallPoints'
  BY <1>2 DEF RInv, InstallPoints, InstallOK, Others
<1>4. HookInstalled'
  BY DEF RInv, HookInstalled
<1>5. Promise!Enter(t, PacketOf(f))
  BY <1>1, PushMaps DEF Promise!Enter
<1> QED  BY <1>3, <1>4, <1>5

\* The end of a frame is a packet that leaves.
LEMMA PopMeans ==
  ASSUME RInv, TypeOK', NEW t \in Threads, Running(t), PopFrame(t),
         UNCHANGED <<code, installed, crashed>>
  PROVE  InstallPoints' /\ HookInstalled' /\ Promise!Leave(t)
<1>1. TypeOK
  BY DEF RInv, IInv
<1>2. /\ Len(stack[t]) \in Nat
      /\ Others(t)
      /\ Len(stack'[t]) = Len(stack[t]) - 1
      /\ \A i \in 1..Len(stack'[t]) : stack'[t][i] = stack[t][i]
  BY <1>1, PopFacts DEF TypeOK
<1>3. InstallPoints'
  BY <1>2 DEF RInv, InstallPoints, InstallOK, Others
<1>4. HookInstalled'
  BY DEF RInv, HookInstalled
<1>5. Promise!Leave(t)
  BY <1>1, PopMaps DEF Promise!Leave
<1> QED  BY <1>3, <1>4, <1>5

\* A frame that goes on stays where its kind may be.
LEMMA GoToInstall ==
  ASSUME RInv, NEW t \in Threads, NEW p \in Points, Running(t), GoTo(t, p),
         Top(t).kind = "install" => p \in {"lock", "on", "oning", "unlock"}
  PROVE  InstallPoints'
<1> DEFINE f == [Top(t) EXCEPT !.pc = p]
<1>1. /\ Len(stack[t]) \in Nat \ {0}
      /\ Others(t)
      /\ Len(stack'[t]) = Len(stack[t])
      /\ stack'[t][Len(stack[t])] = f
      /\ \A i \in 1..Len(stack[t]) - 1 : stack'[t][i] = stack[t][i]
  BY GoToFacts DEF RInv, IInv, TypeOK, Running
<1>2. f.pc = p /\ f.kind = Top(t).kind
  BY TopPacket DEF RInv, IInv, Frame
<1> HIDE DEF f
<1> QED  BY <1>1, <1>2 DEF RInv, InstallPoints, InstallOK, Others

\* What is known of the frame that takes a step.
LEMMA TopKnows ==
  ASSUME RInv, NEW t \in Threads, NEW h \in HookNames, NEW p \in Points, At(t, h, p)
  PROVE  /\ Running(t) /\ Top(t) \in Frame /\ Top(t).hook = h /\ Top(t).pc = p /\ TypeOK
         /\ InstallOK(Top(t))
         /\ p \notin {"entering", "inside"} => Top(t).kind \notin {"bypass", "early"}
         /\ Top(t).kind \notin {"bypass", "early"} => Promise!Is(t, h, FALSE, StageOf(Top(t)))
         /\ Top(t).kind \in {"bypass", "early"} => Promise!Is(t, h, TRUE, StageOf(Top(t)))
<1>1. Running(t) /\ Top(t) \in Frame /\ Top(t).hook = h /\ Top(t).pc = p /\ TypeOK
  BY TopPacket DEF At, RInv, IInv
<1>2. Len(stack[t]) \in 1..Len(stack[t]) /\ Top(t) = stack[t][Len(stack[t])]
  BY <1>1 DEF TypeOK, Running, Top
<1>3. InstallOK(Top(t)) /\ (p \notin {"entering", "inside"} => Top(t).kind \notin {"bypass", "early"})
  BY <1>1, <1>2 DEF RInv, InstallPoints, IInv, DirectInside
<1> QED  BY <1>1, <1>3, TopIs

\* The stage that a frame goes on to.
LEMMA Goes ==
  ASSUME NEW f \in Frame, NEW p \in Points
  PROVE  /\ f.kind = "install" => StageOf([f EXCEPT !.pc = p]) = "arming"
         /\ f.kind # "install" =>
              /\ p = "lock" => StageOf([f EXCEPT !.pc = p]) = "accepted"
              /\ p \in {"off", "offing", "call", "entering"} => StageOf([f EXCEPT !.pc = p]) = "turn"
              /\ p = "inside" => StageOf([f EXCEPT !.pc = p]) = "inside"
              /\ p \in {"on", "oning", "unlock"} => StageOf([f EXCEPT !.pc = p]) = "delivered"
<1> DEFINE g == [f EXCEPT !.pc = p]
<1>1. g \in Frame /\ g.kind = f.kind /\ g.pc = p
  BY DEF Frame
<1> HIDE DEF g
<1>2. /\ f.kind = "install" => StageOf(g) = "arming"
      /\ f.kind # "install" =>
           /\ p = "lock" => StageOf(g) = "accepted"
           /\ p \in {"off", "offing", "call", "entering"} => StageOf(g) = "turn"
           /\ p = "inside" => StageOf(g) = "inside"
           /\ p \in {"on", "oning", "unlock"} => StageOf(g) = "delivered"
  BY <1>1, StageFacts
<1> QED  BY <1>2 DEF g

-----------------------------------------------------------------------------
(* Every step is a step in the life of a packet.                           *)

Good(t, h) == InstallPoints' /\ HookInstalled' /\ Simulated(t, h)

\* The beginning of an installation is Arm.
LEMMA InitializeMeans ==
  ASSUME RInv, TypeOK', NEW h \in HookNames, Initialize(h)
  PROVE  Good(Console, h)
<1> DEFINE f == [hook |-> h, kind |-> "install", pc |-> "lock", vtable |-> 0]
<1>1. f \in Frame /\ Console \in Threads /\ InstallOK(f)
  BY DEF Frame, Kinds, Points, Threads, InstallOK
<1>2. PushFrame(Console, f) /\ h \notin installed /\ UNCHANGED <<code, installed, crashed>>
  BY DEF Initialize
<1>3. f.hook = h /\ f.kind = "install"
  OBVIOUS
<1> HIDE DEF f
<1>4. InstallPoints' /\ HookInstalled' /\ Promise!Enter(Console, PacketOf(f))
  BY <1>1, <1>2, PushMeans
<1>5. PacketOf(f) = Promise!Item(h, FALSE, "arming")
  BY <1>1, <1>3, Guided, StageFacts
<1> QED  BY <1>2, <1>4, <1>5 DEF Good, Simulated, Promise!Live, Promise!Arm

\* A call that goes past the hook does so before it is installed or during a turn.
LEMMA ClientCallMeans ==
  ASSUME RInv, TypeOK', crashed = NoThread,
         NEW t \in Threads, NEW h \in HookNames, ClientCall(t, h)
  PROVE  Good(t, h)
<1>1. TypeOK /\ IInv /\ HookInstalled
  BY DEF RInv, IInv
<1>2. Running(t) => Top(t).pc = "inside"
  BY <1>1, ClientCallCases
<1>3. UNCHANGED <<code, installed>>
  BY <1>1, ClientCallCases
<1>4. CASE code[h] = "orig" /\ PushFrame(t, Direct(h)) /\ crashed' = crashed
  <2>1. Direct(h) \in Frame /\ InstallOK(Direct(h)) /\ Direct(h).kind \in {"bypass", "early"}
        /\ Direct(h).hook = h /\ Direct(h).pc = "entering"
    BY ClientAssumption DEF Direct, Frame, Kinds, Points, InstallOK
  <2>2. InstallPoints' /\ HookInstalled' /\ Promise!Enter(t, PacketOf(Direct(h)))
    BY <1>3, <1>4, <2>1, PushMeans
  <2>3. PacketOf(Direct(h)) = Promise!Item(h, TRUE, "turn")
    <3>1. (Direct(h).kind \in {"bypass", "early"}) = TRUE
      BY <2>1
    <3>2. StageOf(Direct(h)) = "turn"
      BY <2>1, StageFacts
    <3> QED  BY <2>1, <3>1, <3>2, Zenon DEF PacketOf, Promise!Item
  <2>4. h \notin installed \/ Promise!Arming(h) \/ \E u \in Threads : Promise!HasTurn(u, h)
    <3> SUFFICES ASSUME h \in installed
                 PROVE  Promise!Arming(h) \/ \E u \in Threads : Promise!HasTurn(u, h)
      OBVIOUS
    <3>1. owner[h] \in Threads /\ owner[h] # NoThread
      BY <1>1, <1>4 DEF IInv, ArmedWhenFree, TypeOK
    <3>2. Cardinality(Holding(owner[h], h)) # 0
      BY <1>1, <3>1 DEF IInv, MutexMatchesFrames
    <3>3. PICK i : i \in Holding(owner[h], h)
      BY <3>2, FS_EmptySet
    <3> QED  BY <3>1, <3>3, HolderIsSeen
  <2> QED  BY <2>2, <2>3, <2>4 DEF Good, Simulated, Promise!Live, Promise!PassBy
<1>5. CASE code[h] = "hook" /\ PushFrame(t, HookFrame(h)) /\ crashed' = crashed
  <2>1. /\ HookFrame(h) \in Frame /\ InstallOK(HookFrame(h)) /\ HookFrame(h).kind = "hooked"
        /\ HookFrame(h).hook = h /\ HookFrame(h).pc = "scripts"
    BY ClientAssumption DEF HookFrame, Frame, Kinds, Points, InstallOK
  <2>2. InstallPoints' /\ HookInstalled' /\ Promise!Enter(t, PacketOf(HookFrame(h)))
    BY <1>3, <1>5, <2>1, PushMeans
  <2>3. PacketOf(HookFrame(h)) = Promise!Item(h, FALSE, "offered")
    BY <2>1, Guided, StageFacts
  <2>4. h \in installed
    BY <1>1, <1>5 DEF HookInstalled
  <2> QED  BY <2>2, <2>3, <2>4 DEF Good, Simulated, Promise!Live, Promise!Offer
<1>6. CASE code[h] = "torn" /\ stack' = stack /\ crashed' = t
  <2>1. InstallPoints' /\ HookInstalled' /\ Inflight' = Inflight
    BY <1>3, <1>6 DEF RInv, InstallPoints, HookInstalled, Inflight
  <2>2. PICK u \in Threads : owner[h] = u /\ (At(u, h, "offing") \/ At(u, h, "oning"))
    BY <1>1, <1>6 DEF IInv, TypeOK, TornByOwner
  <2>3. u # t
    BY <1>2, <2>2 DEF At
  <2>4. PICK i : i \in Holding(u, h)
    BY <1>1, <2>2, HolderOwns DEF HeldPoints
  <2>5. Promise!Arming(h) \/ \E v \in Threads \ {t} : Promise!HasTurn(v, h)
    BY <2>3, <2>4, HolderIsSeen
  <2>6. (crashed' # NoThread) = TRUE
    BY <1>6, ThreadsAssumption
  <2>7. Promise!Halt(t, h)
    BY <1>3, <2>1, <2>5, <2>6 DEF Promise!Halt
  <2> QED  BY <2>1, <2>7 DEF Good, Simulated, Promise!Live
<1> QED  BY <1>1, <1>4, <1>5, <1>6, ClientCallCases

\* A packet made by a script is Submit.
LEMMA ForgeMeans ==
  ASSUME RInv, TypeOK', NEW t \in Threads, NEW h \in HookNames, Forge(t, h)
  PROVE  Good(t, h)
<1> DEFINE f == [hook |-> h, kind |-> "forged", pc |-> "lock", vtable |-> vtable]
<1>1. f \in Frame /\ InstallOK(f)
  BY DEF Frame, Kinds, Points, InstallOK, RInv, IInv, TypeOK
<1>2. PushFrame(t, f) /\ installed = HookNames /\ UNCHANGED <<code, installed, crashed>>
  BY DEF Forge
<1>3. f.hook = h /\ f.kind = "forged" /\ f.pc = "lock"
  OBVIOUS
<1> HIDE DEF f
<1>4. InstallPoints' /\ HookInstalled' /\ Promise!Enter(t, PacketOf(f))
  BY <1>1, <1>2, PushMeans
<1>5. PacketOf(f) = Promise!Item(h, FALSE, "accepted")
  BY <1>1, <1>3, Guided, StageFacts
<1> QED  BY <1>2, <1>4, <1>5 DEF Good, Simulated, Promise!Live, Promise!Submit

\* The answer of the scripts is Discard or Accept.
LEMMA VerdictMeans ==
  ASSUME RInv, TypeOK', NEW t \in Threads, NEW h \in HookNames, Verdict(t, h)
  PROVE  Good(t, h)
<1> DEFINE f == Top(t)
<1>1. At(t, h, "scripts") /\ "scripts" \in Points /\ "lock" \in Points
      /\ UNCHANGED <<code, installed, crashed>>
  BY DEF Verdict, Points
<1>2. /\ Running(t) /\ f \in Frame /\ f.hook = h /\ f.pc = "scripts" /\ TypeOK
      /\ f.kind # "install" /\ Promise!Is(t, h, FALSE, StageOf(f))
  BY <1>1, TopKnows DEF InstallOK
<1>3. Promise!Is(t, h, FALSE, "offered")
  BY <1>2, StageFacts
<1>4. CASE PopFrame(t)
  <2>1. InstallPoints' /\ HookInstalled' /\ Promise!Leave(t)
    BY <1>1, <1>2, <1>4, PopMeans
  <2> QED  BY <1>3, <2>1 DEF Good, Simulated, Promise!Live, Promise!Discard
<1>5. CASE GoTo(t, "lock")
  <2>1. InstallPoints' /\ HookInstalled'
    BY <1>1, <1>2, <1>5, GoToInstall DEF RInv, HookInstalled
  <2>2. Promise!Become(t, StageOf([f EXCEPT !.pc = "lock"]))
    BY <1>1, <1>2, <1>5, Becomes
  <2>3. StageOf([f EXCEPT !.pc = "lock"]) = "accepted"
    BY <1>1, <1>2, Goes, StageFacts
  <2> QED  BY <1>3, <2>1, <2>2, <2>3 DEF Good, Simulated, Promise!Live, Promise!Accept
<1> QED  BY <1>4, <1>5 DEF Verdict

\* The mutex is given to one thread, so that one thread at a time has its turn.
LEMMA LockMeans ==
  ASSUME RInv, TypeOK', NEW t \in Threads, NEW h \in HookNames, Lock(t, h)
  PROVE  Good(t, h)
<1> DEFINE f == Top(t)
           p == IF f.kind = "install" THEN "on" ELSE "off"
<1>1. /\ At(t, h, "lock") /\ "lock" \in Points /\ p \in Points /\ GoTo(t, p)
      /\ UNCHANGED <<code, installed, crashed>>
  BY DEF Lock, Points
<1>2. /\ Running(t) /\ f \in Frame /\ f.hook = h /\ f.pc = "lock" /\ TypeOK
      /\ Promise!Is(t, h, FALSE, StageOf(f))
  BY <1>1, TopKnows
<1>3. InstallPoints' /\ HookInstalled'
  BY <1>1, <1>2, GoToInstall DEF RInv, HookInstalled
<1>4. CASE f.kind = "install"
  <2>1. StageOf([f EXCEPT !.pc = p]) = StageOf(f)
    BY <1>1, <1>2, <1>4, Goes, StageFacts
  <2>2. Inflight' = Inflight
    BY <1>1, <1>2, <2>1, Stays
  <2> QED  BY <1>1, <1>3, <2>2 DEF Good, Simulated, Promise!ivars
<1>5. CASE f.kind # "install"
  <2>1. StageOf([f EXCEPT !.pc = p]) = "turn" /\ StageOf(f) = "accepted"
    BY <1>1, <1>2, <1>5, Goes, StageFacts
  <2>2. Promise!Become(t, "turn")
    BY <1>1, <1>2, <2>1, Becomes
  <2>3. ASSUME NEW u \in Threads \ {t} PROVE ~Promise!HasTurn(u, h)
    <3>1. Holding(u, h) = {}
      BY ThreadsAssumption DEF Lock, RInv, IInv, MutexMatchesFrames
    <3> QED  BY <3>1, NoHolderNoTurn
  <2> QED  BY <1>2, <1>3, <2>1, <2>2, <2>3 DEF Good, Simulated, Promise!Live, Promise!TakeTurn
<1> QED  BY <1>4, <1>5

\* Taking the hook off is within the turn.
LEMMA InterceptFalseMeans ==
  ASSUME RInv, TypeOK', NEW t \in Threads, NEW h \in HookNames, InterceptFalse(t, h)
  PROVE  Good(t, h)
<1> DEFINE f == Top(t)
<1>1. PICK p \in {"off", "offing"}, q \in {"offing", "call"} :
        At(t, h, p) /\ GoTo(t, q) /\ UNCHANGED <<installed, crashed>>
  BY DEF InterceptFalse, BeginCopy
<1>2. p \in Points /\ q \in Points
  BY DEF Points
<1>3. /\ Running(t) /\ f \in Frame /\ f.pc = p /\ f.kind # "install" /\ TypeOK
  BY <1>1, <1>2, TopKnows DEF InstallOK
<1>4. StageOf([f EXCEPT !.pc = q]) = "turn" /\ StageOf(f) = "turn"
  BY <1>2, <1>3, Goes, StageFacts
<1>5. Inflight' = Inflight
  BY <1>1, <1>2, <1>3, <1>4, Stays
<1>6. InstallPoints'
  BY <1>1, <1>2, <1>3, GoToInstall
<1>7. HookInstalled'
  BY DEF InterceptFalse, BeginCopy, RInv, IInv, TypeOK, HookInstalled
<1> QED  BY <1>1, <1>5, <1>6, <1>7 DEF Good, Simulated, Promise!ivars

\* The call of the original function is within the turn.
LEMMA CallOriginalMeans ==
  ASSUME RInv, TypeOK', NEW t \in Threads, NEW h \in HookNames, CallOriginal(t, h)
  PROVE  Good(t, h)
<1> DEFINE f == Top(t)
<1>1. At(t, h, "call") /\ "call" \in Points /\ "entering" \in Points /\ code[h] = "orig"
  BY DEF CallOriginal, RInv, IInv, OriginalIsReached, Points
<1>2. GoTo(t, "entering") /\ UNCHANGED <<code, installed, crashed>>
  BY <1>1 DEF CallOriginal, Execute, GoTo
<1>3. /\ Running(t) /\ f \in Frame /\ f.pc = "call" /\ f.kind # "install" /\ TypeOK
  BY <1>1, TopKnows DEF InstallOK
<1>4. StageOf([f EXCEPT !.pc = "entering"]) = "turn" /\ StageOf(f) = "turn"
  BY <1>1, <1>3, Goes, StageFacts
<1>5. Inflight' = Inflight
  BY <1>1, <1>2, <1>3, <1>4, Stays
<1>6. InstallPoints' /\ HookInstalled'
  BY <1>1, <1>2, <1>3, GoToInstall DEF RInv, HookInstalled
<1> QED  BY <1>2, <1>5, <1>6 DEF Good, Simulated, Promise!ivars

\* The way past the first six bytes is Deliver, or Halt.
LEMMA EnterMeans ==
  ASSUME RInv, TypeOK', crashed = NoThread,
         NEW t \in Threads, NEW h \in HookNames, Enter(t, h)
  PROVE  Good(t, h)
<1> DEFINE f == Top(t)
<1>1. /\ At(t, h, "entering") /\ "entering" \in Points /\ "inside" \in Points
      /\ UNCHANGED <<code, installed>>
  BY DEF Enter, Points
<1>2. /\ Running(t) /\ f \in Frame /\ f.pc = "entering" /\ f.kind # "install" /\ TypeOK
      /\ f.kind \notin {"bypass", "early"} => Promise!Is(t, h, FALSE, StageOf(f))
      /\ f.kind \in {"bypass", "early"} => Promise!Is(t, h, TRUE, StageOf(f))
  BY <1>1, TopKnows DEF InstallOK
<1>3. StageOf(f) = "turn"
  BY <1>2, StageFacts
<1>4. CASE code[h] = "orig"
  <2>1. GoTo(t, "inside") /\ crashed' = crashed
    BY <1>4 DEF Enter
  <2>2. StageOf([f EXCEPT !.pc = "inside"]) = "inside"
    BY <1>1, <1>2, Goes
  <2>3. Promise!Become(t, "inside")
    BY <1>1, <1>2, <2>1, <2>2, Becomes
  <2>4. InstallPoints' /\ HookInstalled'
    BY <1>1, <1>2, <2>1, GoToInstall DEF RInv, HookInstalled
  <2> QED  BY <1>2, <1>3, <2>3, <2>4 DEF Good, Simulated, Promise!Live, Promise!Deliver
<1>5. CASE code[h] # "orig"
  <2>1. crashed' = t /\ stack' = stack
    BY <1>5 DEF Enter
  <2>2. f.kind \in {"bypass", "early"}
    BY <1>1, <1>5 DEF RInv, IInv, OriginalIsReached
  <2>3. Promise!Is(t, h, TRUE, "turn")
    BY <1>2, <1>3, <2>2
  <2>4. InstallPoints' /\ HookInstalled' /\ Inflight' = Inflight
    BY <1>1, <2>1 DEF RInv, InstallPoints, HookInstalled, Inflight
  <2>5. (crashed' # NoThread) = TRUE
    BY <2>1, ThreadsAssumption
  <2> QED  BY <1>1, <2>3, <2>4, <2>5 DEF Good, Simulated, Promise!Live, Promise!Halt
<1> QED  BY <1>4, <1>5

\* The return of the original function is Finish.
LEMMA ReturnMeans ==
  ASSUME RInv, TypeOK', NEW t \in Threads, NEW h \in HookNames, Return(t, h)
  PROVE  Good(t, h)
<1> DEFINE f == Top(t)
<1>1. /\ At(t, h, "inside") /\ "inside" \in Points /\ "on" \in Points
      /\ UNCHANGED <<code, installed, crashed>>
  BY DEF Return, Points
<1>2. /\ Running(t) /\ f \in Frame /\ f.pc = "inside" /\ f.kind # "install" /\ TypeOK
      /\ f.kind \notin {"bypass", "early"} => Promise!Is(t, h, FALSE, StageOf(f))
      /\ f.kind \in {"bypass", "early"} => Promise!Is(t, h, TRUE, StageOf(f))
  BY <1>1, TopKnows DEF InstallOK
<1>3. StageOf(f) = "inside"
  BY <1>2, StageFacts
<1>4. CASE f.kind \in {"bypass", "early"}
  <2>1. InstallPoints' /\ HookInstalled' /\ Promise!Leave(t)
    BY <1>1, <1>2, <1>4, PopMeans DEF Return
  <2> QED  BY <1>2, <1>3, <1>4, <2>1 DEF Good, Simulated, Promise!Live, Promise!Finish
<1>5. CASE f.kind \notin {"bypass", "early"}
  <2>1. GoTo(t, "on")
    BY <1>5 DEF Return
  <2>2. StageOf([f EXCEPT !.pc = "on"]) = "delivered"
    BY <1>1, <1>2, Goes, StageFacts
  <2>3. Promise!Become(t, "delivered")
    BY <1>1, <1>2, <2>1, <2>2, Becomes
  <2>4. InstallPoints' /\ HookInstalled'
    BY <1>1, <1>2, <2>1, GoToInstall DEF RInv, HookInstalled
  <2> QED  BY <1>2, <1>3, <1>5, <2>3, <2>4 DEF Good, Simulated, Promise!Live, Promise!Finish
<1> QED  BY <1>4, <1>5

\* The guard is up when the jump is complete.
LEMMA InterceptTrueMeans ==
  ASSUME RInv, TypeOK', NEW t \in Threads, NEW h \in HookNames, InterceptTrue(t, h)
  PROVE  Good(t, h)
<1> DEFINE f == Top(t)
<1>1. PICK p \in {"on", "oning"}, q \in {"oning", "unlock"} :
        /\ At(t, h, p) /\ GoTo(t, q) /\ UNCHANGED crashed
        /\ installed' \in {installed, installed \cup {h}}
  BY DEF InterceptTrue, BeginCopy
<1>2. p \in Points /\ q \in Points
  BY DEF Points
<1>3. /\ Running(t) /\ f \in Frame /\ f.pc = p /\ TypeOK
      /\ Promise!Is(t, h, FALSE, StageOf(f))
  BY <1>1, <1>2, TopKnows
<1>4. StageOf([f EXCEPT !.pc = q]) = StageOf(f) /\ StageOf(f) \in {"arming", "delivered"}
  BY <1>2, <1>3, Goes, StageFacts
<1>5. Inflight' = Inflight
  BY <1>1, <1>2, <1>3, <1>4, Stays
<1>6. InstallPoints'
  BY <1>1, <1>2, <1>3, GoToInstall
<1>7. HookInstalled'
  BY DEF InterceptTrue, BeginCopy, RInv, IInv, TypeOK, HookInstalled
<1>8. CASE installed' = installed
  BY <1>1, <1>5, <1>6, <1>7, <1>8 DEF Good, Simulated, Promise!ivars
<1>9. CASE installed' = installed \cup {h}
  <2>1. Promise!Is(t, h, FALSE, "arming") \/ Promise!Is(t, h, FALSE, "delivered")
    BY <1>3, <1>4
  <2> QED  BY <1>1, <1>5, <1>6, <1>7, <1>9, <2>1 DEF Good, Simulated, Promise!Live, Promise!Guard
<1> QED  BY <1>1, <1>8, <1>9

\* The release of the mutex is EndTurn.
LEMMA UnlockMeans ==
  ASSUME RInv, TypeOK', NEW t \in Threads, NEW h \in HookNames, Unlock(t, h)
  PROVE  Good(t, h)
<1> DEFINE f == Top(t)
<1>1. At(t, h, "unlock") /\ "unlock" \in Points /\ PopFrame(t) /\ UNCHANGED <<code, installed, crashed>>
  BY DEF Unlock, Points
<1>2. /\ Running(t) /\ f \in Frame /\ f.pc = "unlock" /\ TypeOK
      /\ Promise!Is(t, h, FALSE, StageOf(f))
  BY <1>1, TopKnows
<1>3. StageOf(f) \in {"arming", "delivered"}
  BY <1>2, StageFacts
<1>4. h \in installed
  BY <1>1 DEF RInv, IInv, ArmedAtUnlock
<1>5. InstallPoints' /\ HookInstalled' /\ Promise!Leave(t)
  BY <1>1, <1>2, PopMeans
<1> QED  BY <1>2, <1>3, <1>4, <1>5 DEF Good, Simulated, Promise!Live, Promise!EndTurn

-----------------------------------------------------------------------------
(* The refinement.                                                         *)

\* Every initial state is one of Interception.
LEMMA InitMaps == Init => RInv /\ Promise!IInit
<1> SUFFICES ASSUME Init PROVE RInv /\ Promise!IInit
  OBVIOUS
<1>1. IInv
  BY InitIInv
<1>2. \A t \in Threads : Len(stack[t]) = 0
  BY DEF Init
<1>3. InstallPoints /\ HookInstalled
  BY <1>2 DEF Init, InstallPoints, HookInstalled
<1>4. Inflight = [t \in Threads |-> <<>>]
  <2>1. ASSUME NEW t \in Threads PROVE Inflight[t] = <<>>
    BY <1>1, <1>2, InflightOf DEF IInv
  <2> QED  BY <2>1 DEF Inflight
<1>5. (crashed # NoThread) = FALSE
  BY DEF Init
<1> QED  BY <1>1, <1>3, <1>4, <1>5 DEF RInv, Promise!IInit, Init

\* Every step is one of Interception, or changes nothing it knows of.
LEMMA NextMaps == RInv /\ [Next]_vars => RInv' /\ [Promise!INext]_(Promise!ivars)
<1> SUFFICES ASSUME RInv, [Next]_vars PROVE RInv' /\ [Promise!INext]_(Promise!ivars)
  OBVIOUS
<1>1. IInv' /\ TypeOK'
  BY NextIInv DEF RInv, IInv
<1>2. ASSUME crashed = NoThread, NEW t \in Threads, NEW h \in HookNames, Good(t, h)
      PROVE  RInv' /\ [Promise!INext]_(Promise!ivars)
  BY <1>1, <1>2 DEF Good, Simulated, RInv, Promise!INext
<1>3. ASSUME crashed = NoThread, NEW h \in HookNames, Initialize(h)
      PROVE  RInv' /\ [Promise!INext]_(Promise!ivars)
  BY <1>1, <1>2, <1>3, InitializeMeans DEF Threads
<1>4. ASSUME crashed = NoThread, NEW t \in Threads, NEW h \in HookNames, Step(t, h)
      PROVE  RInv' /\ [Promise!INext]_(Promise!ivars)
  <2>1. Good(t, h)
    BY <1>1, <1>4, ClientCallMeans, ForgeMeans, VerdictMeans, LockMeans, InterceptFalseMeans,
       CallOriginalMeans, EnterMeans, ReturnMeans, InterceptTrueMeans, UnlockMeans DEF Step
  <2> QED  BY <1>2, <1>4, <2>1
<1>5. CASE UNCHANGED vars
  <2>1. InstallPoints' /\ HookInstalled'
    BY <1>5 DEF vars, RInv, InstallPoints, HookInstalled
  <2>2. UNCHANGED Promise!ivars
    BY <1>5 DEF vars, Promise!ivars, Inflight
  <2> QED  BY <1>1, <2>1, <2>2 DEF RInv
<1> QED  BY <1>3, <1>4, <1>5 DEF Next, Crashed

\* The hooks keep the promise of Interception, for every set of client threads, every
\* relation Calls and every depth: Hooks implements Interception.
THEOREM HooksKeepPromise == Spec => KeepsPromise
  BY InitMaps, NextMaps, PTL DEF Spec, KeepsPromise, Promise!ISpec
=============================================================================
