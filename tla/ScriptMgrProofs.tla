-------------------------- MODULE ScriptMgrProofs --------------------------
(***************************************************************************)
(* Theorems about ScriptMgr, for every set of names, states, threads and   *)
(* lengths, whether or not packets are dispatched during commands.         *)
(***************************************************************************)
EXTENDS ScriptMgr, SequenceTheorems, TLAPS

-----------------------------------------------------------------------------
(* The inductive invariant.                                                *)

\* What a command knows of the script it is about.
CommandKnows ==
  /\ console.pc \notin {"idle", "closeAll", "closingOne", "clear"} => console.name \in Names
  /\ console.pc \in {"create", "script", "failed", "onload", "register"} =>
       scripts[console.name] = NoState
  /\ Loading => console.state \in States
  /\ console.pc \in {"unload", "onunload", "close", "closing", "erase"} =>
       console.state \in States /\ scripts[console.name] = console.state
  /\ console.pc = "closingOne" =>
       console.state \in States /\ \E n \in Names : scripts[n] = console.state
  /\ console.pc = "erase" => status[console.state] # "open"
  /\ console.pc = "clear" => \A n \in Loaded : status[scripts[n]] # "open"
  /\ console.pc = "register" => phase[console.state] # "new"

\* Whatever is registered has had its OnLoad.
RegisteredConstructed == \A n \in Loaded : phase[scripts[n]] # "new"

Increasing(s) == \A j, k \in 1..Len(s) : j < k => s[j] < s[k]
Among(n, s) == \E j \in 1..Len(s) : s[j] = n

\* What a dispatch knows of the scripts: it has asked those it had to, up to the one
\* it is at, and the one it asks has had its OnLoad.
Sound(d) ==
  /\ d.length <= d.alloc
  /\ Increasing(d.seen)
  /\ \A j \in 1..Len(d.seen) : d.seen[j] <= d.at
  /\ d.held \subseteq Loaded
  /\ \A n \in d.held : n <= d.at \/ d.pc = "done" => Among(n, d.seen)
  /\ d.pc \in {"call", "running"} => d.node \in States /\ phase[d.node] # "new"
AllSound == \A t \in Threads : \A i \in 1..Len(calls[t]) : Sound(calls[t][i])

IInv == TypeOK /\ NoLeak /\ CommandKnows /\ RegisteredConstructed /\ AllSound

-----------------------------------------------------------------------------
(* What the changes of calls leave behind.                                 *)

Typed == calls' \in [Threads -> Seq(Dispatch)]

\* Every dispatch is d, or one that has not changed.
Only(d) ==
  \A t \in Threads : \A i \in 1..Len(calls'[t]) :
    calls'[t][i] = d \/ (i \in 1..Len(calls[t]) /\ calls'[t][i] = calls[t][i])

\* A thread in a dispatch has an innermost one, and that one is sound.
LEMMA TopFacts ==
  ASSUME IInv, NEW t \in Threads, InDispatch(t)
  PROVE  /\ calls[t] \in Seq(Dispatch)
         /\ Len(calls[t]) \in Nat \ {0}
         /\ Top(t) = calls[t][Len(calls[t])]
         /\ Top(t) \in Dispatch
         /\ Sound(Top(t))
<1>1. calls[t] \in Seq(Dispatch) /\ Len(calls[t]) \in Nat \ {0}
  BY DEF IInv, TypeOK, InDispatch
<1>2. Top(t) = calls[t][Len(calls[t])] /\ Top(t) \in Dispatch
  BY <1>1 DEF Top
<1>3. Sound(Top(t))
  BY <1>1, <1>2 DEF IInv, AllSound
<1> QED  BY <1>1, <1>2, <1>3

\* SetTop puts d in the place of the innermost dispatch.
LEMMA SetTopFacts ==
  ASSUME IInv, NEW t \in Threads, InDispatch(t), NEW d \in Dispatch, SetTop(t, d)
  PROVE  Typed /\ Only(d)
<1> DEFINE s == calls[t]
           r == [s EXCEPT ![Len(s)] = d]
<1>1. s \in Seq(Dispatch) /\ Len(s) \in Nat \ {0} /\ DOMAIN s = 1..Len(s)
  BY TopFacts
<1>2. calls' = [calls EXCEPT ![t] = r]
  BY DEF SetTop
<1>3. calls \in [Threads -> Seq(Dispatch)]
  BY DEF IInv, TypeOK
<1>4. r \in Seq(Dispatch) /\ Len(r) = Len(s)
  BY <1>1, ExceptSeq
<1>5. \A i \in 1..Len(s) : r[i] = d \/ r[i] = s[i]
  BY <1>1
<1> HIDE DEF r
<1>6. Typed
  BY <1>2, <1>3, <1>4 DEF Typed
<1>7. calls'[t] = r /\ \A u \in Threads \ {t} : calls'[u] = calls[u]
  BY <1>2, <1>3
<1>8. Only(d)
  BY <1>4, <1>5, <1>7 DEF Only
<1> QED  BY <1>6, <1>8

\* Append puts d on top of the dispatches of t.
LEMMA AppendFacts ==
  ASSUME IInv, NEW t \in Threads, NEW d \in Dispatch,
         calls' = [calls EXCEPT ![t] = Append(@, d)]
  PROVE  Typed /\ Only(d)
<1>1. calls \in [Threads -> Seq(Dispatch)] /\ calls[t] \in Seq(Dispatch)
  BY DEF IInv, TypeOK
<1>2. /\ Append(calls[t], d) \in Seq(Dispatch)
      /\ Len(Append(calls[t], d)) = Len(calls[t]) + 1
      /\ \A i \in 1..Len(calls[t]) : Append(calls[t], d)[i] = calls[t][i]
      /\ Append(calls[t], d)[Len(calls[t]) + 1] = d
  BY <1>1
<1>3. calls'[t] = Append(calls[t], d) /\ \A u \in Threads \ {t} : calls'[u] = calls[u]
  BY <1>1
<1>4. Typed
  BY <1>1, <1>2 DEF Typed
<1>5. Len(calls[t]) \in Nat
  BY <1>1
<1>6. Only(d)
  BY <1>2, <1>3, <1>5 DEF Only
<1> QED  BY <1>4, <1>6

\* The end of a dispatch leaves the others as they are.
LEMMA EndFacts ==
  ASSUME IInv, NEW t \in Threads, InDispatch(t),
         calls' = [calls EXCEPT ![t] = SubSeq(@, 1, Len(@) - 1)]
  PROVE  Typed /\ Only(Top(t))
<1> DEFINE s == calls[t]
           r == SubSeq(s, 1, Len(s) - 1)
<1>1. s \in Seq(Dispatch) /\ Len(s) \in Nat \ {0}
  BY TopFacts
<1>2. r \in Seq(Dispatch) /\ Len(r) = Len(s) - 1 /\ \A i \in 1..Len(s) - 1 : r[i] = s[i]
  BY <1>1
<1>3. calls \in [Threads -> Seq(Dispatch)] /\ calls' = [calls EXCEPT ![t] = r]
  BY DEF IInv, TypeOK
<1> HIDE DEF r
<1>4. Typed
  BY <1>2, <1>3 DEF Typed
<1>5. calls'[t] = r /\ \A u \in Threads \ {t} : calls'[u] = calls[u]
  BY <1>3
<1>6. Only(Top(t))
  BY <1>1, <1>2, <1>5 DEF Only
<1> QED  BY <1>4, <1>6

\* Unhold changes nothing of a dispatch but what it holds.
LEMMA UnholdFacts ==
  ASSUME IInv, NEW gone, Unhold(gone)
  PROVE  /\ Typed
         /\ \A t \in Threads :
              /\ Len(calls'[t]) = Len(calls[t])
              /\ \A i \in 1..Len(calls[t]) :
                   calls[t][i] \in Dispatch /\ calls'[t][i] = Without(calls[t][i], gone)
<1>1. ASSUME NEW t \in Threads
      PROVE  /\ Len(calls[t]) \in Nat
             /\ \A i \in 1..Len(calls[t]) : calls[t][i] \in Dispatch
             /\ calls'[t] = [i \in 1..Len(calls[t]) |-> Without(calls[t][i], gone)]
  BY DEF IInv, TypeOK, Unhold
<1>2. ASSUME NEW d \in Dispatch PROVE Without(d, gone) \in Dispatch
  BY DEF Without, Dispatch
<1>3. ASSUME NEW t \in Threads
      PROVE  /\ calls'[t] \in Seq(Dispatch) /\ Len(calls'[t]) = Len(calls[t])
             /\ \A i \in 1..Len(calls[t]) : calls'[t][i] = Without(calls[t][i], gone)
  <2> DEFINE n == Len(calls[t])
             r == calls'[t]
  <2>1. n \in Nat /\ r = [i \in 1..n |-> Without(calls[t][i], gone)]
    BY <1>1
  <2>2. \A i \in 1..n : Without(calls[t][i], gone) \in Dispatch
    BY <1>1, <1>2
  <2> HIDE DEF n, r
  <2>3. r \in [1..n -> Dispatch] /\ \A i \in 1..n : r[i] = Without(calls[t][i], gone)
    BY <2>1, <2>2
  <2>4. r \in Seq(Dispatch)
    BY <2>1, <2>3, SeqDef
  <2>5. Len(r) = n
    BY <2>1, <2>3, <2>4, LenProperties
  <2> QED  BY <2>3, <2>4, <2>5 DEF n, r
<1>4. calls' = [t \in Threads |-> calls'[t]]
  BY DEF Unhold
<1>5. Typed
  BY <1>3, <1>4 DEF Typed
<1> QED  BY <1>1, <1>3, <1>5

-----------------------------------------------------------------------------
(* What keeps dispatches sound.                                            *)

\* A dispatch of a thread, with what is known of it.
LEMMA SoundOne ==
  ASSUME IInv, NEW t \in Threads, NEW i \in 1..Len(calls[t])
  PROVE  calls[t][i] \in Dispatch /\ Sound(calls[t][i])
  BY DEF IInv, TypeOK, AllSound

\* A step that puts in one sound dispatch, and touches no script.
LEMMA OneSound ==
  ASSUME IInv, UNCHANGED <<scripts, phase>>, NEW d \in Dispatch, Sound(d), Only(d)
  PROVE  AllSound'
<1> SUFFICES ASSUME NEW t \in Threads, NEW i \in 1..Len(calls'[t])
             PROVE  Sound(calls[t][i])'
  BY DEF AllSound
<1>1. Loaded' = Loaded
  BY DEF Loaded
<1>2. calls'[t][i] = d \/ (calls'[t][i] = calls[t][i] /\ i \in 1..Len(calls[t]))
  BY DEF Only
<1>3. Sound(d) /\ (i \in 1..Len(calls[t]) => Sound(calls[t][i]))
  BY SoundOne
<1>4. CASE calls'[t][i] = d
  BY <1>1, <1>3, <1>4 DEF Sound, Increasing, Among
<1>5. CASE calls'[t][i] = calls[t][i] /\ i \in 1..Len(calls[t])
  BY <1>1, <1>3, <1>5 DEF Sound, Increasing, Among
<1> QED  BY <1>2, <1>4, <1>5

\* A step of the console that registers or unregisters scripts, and makes no state new
\* that a dispatch refers to.
LEMMA StillSound ==
  ASSUME IInv, NEW gone,
         Unhold(gone) \/ (gone = {} /\ UNCHANGED calls),
         Loaded \ gone \subseteq Loaded',
         \A s \in States : Referred(s) /\ phase[s] # "new" => phase'[s] # "new"
  PROVE  AllSound'
<1> SUFFICES ASSUME NEW t \in Threads, NEW i \in 1..Len(calls'[t])
             PROVE  Sound(calls[t][i])'
  BY DEF AllSound
<1> DEFINE d == calls[t][i]
           e == calls'[t][i]
<1>1. i \in 1..Len(calls[t])
  BY UnholdFacts
<1>2. d \in Dispatch /\ Sound(d)
  BY <1>1, SoundOne
<1>3. /\ e.length = d.length /\ e.alloc = d.alloc /\ e.seen = d.seen
      /\ e.at = d.at /\ e.pc = d.pc /\ e.node = d.node
      /\ e.held = d.held \ gone
  <2>1. CASE Unhold(gone)
    <3>1. e = Without(d, gone)
      BY <1>1, <2>1, UnholdFacts
    <3> QED  BY <1>2, <3>1 DEF Without, Dispatch
  <2>2. CASE gone = {} /\ UNCHANGED calls
    BY <2>2
  <2> QED  BY <2>1, <2>2
<1>4. d.node \in States => Referred(d.node)
  BY <1>1 DEF Referred
<1> HIDE DEF d
<1> SUFFICES /\ e.length <= e.alloc
             /\ Increasing(e.seen)
             /\ \A j \in 1..Len(e.seen) : e.seen[j] <= e.at
             /\ e.held \subseteq Loaded'
             /\ \A n \in e.held : n <= e.at \/ e.pc = "done" => Among(n, e.seen)
             /\ e.pc \in {"call", "running"} => e.node \in States /\ phase'[e.node] # "new"
  BY DEF Sound, Increasing, Among
<1> HIDE DEF e
<1>5. e.held \subseteq Loaded'
  BY <1>2, <1>3 DEF Sound
<1>6. e.pc \in {"call", "running"} => e.node \in States /\ phase'[e.node] # "new"
  BY <1>2, <1>3, <1>4 DEF Sound
<1> QED  BY <1>2, <1>3, <1>5, <1>6 DEF Sound

-----------------------------------------------------------------------------
(* Every command keeps the invariant.                                      *)

\* A command begins with a script that is loaded, or one that is not.
LEMMA HandleCommandsKeeps ==
  ASSUME IInv, HandleCommands
  PROVE  IInv'
<1>1. TypeOK'
  <2>1. ASSUME NEW n \in Names, NEW p \in ConsolePoints, NEW b \in BOOLEAN
        PROVE  [pc |-> p, name |-> n, state |-> scripts[n], reload |-> b] \in Command
    BY DEF IInv, TypeOK, Command
  <2>2. [Idle EXCEPT !.pc = "closeAll"] \in Command
    BY DEF Command, ConsolePoints, Idle
  <2>3. console' \in Command
    BY <2>1, <2>2 DEF HandleCommands, Loaded, ConsolePoints
  <2> QED  BY <2>3 DEF IInv, TypeOK, HandleCommands
<1>2. NoLeak'
  BY DEF IInv, NoLeak, Loaded, Loading, HandleCommands, Idle
<1>3. CommandKnows'
  BY DEF IInv, TypeOK, CommandKnows, Loaded, Loading, HandleCommands, Idle
<1>4. RegisteredConstructed'
  BY DEF IInv, RegisteredConstructed, Loaded, HandleCommands
<1>5. AllSound'
  BY StillSound DEF Loaded, HandleCommands
<1> QED  BY <1>1, <1>2, <1>3, <1>4, <1>5 DEF IInv

\* The new state is one that nobody refers to.
LEMMA CreateKeeps ==
  ASSUME IInv, Create
  PROVE  IInv'
<1>1. TypeOK'
  BY DEF IInv, TypeOK, Command, ConsolePoints, Phases, Create
<1>2. NoLeak'
  BY DEF IInv, TypeOK, NoLeak, Loaded, Loading, Referred, Create
<1>3. CommandKnows'
  BY DEF IInv, CommandKnows, Create
<1>4. RegisteredConstructed'
  BY DEF IInv, RegisteredConstructed, Loaded, Referred, Create
<1>5. AllSound'
  <2>1. UNCHANGED <<scripts, calls>>
    BY DEF Create
  <2>2. \A r \in States : Referred(r) => phase'[r] = phase[r]
    BY DEF Create, IInv, TypeOK
  <2>3. Loaded \ {} \subseteq Loaded'
    BY <2>1 DEF Loaded
  <2> QED  BY <2>1, <2>2, <2>3, StillSound
<1> QED  BY <1>1, <1>2, <1>3, <1>4, <1>5 DEF IInv

\* A step that does nothing but end the process, or leave it undefined.
LEMMA FaultKeeps ==
  ASSUME IInv, UNCHANGED <<scripts, status, phase, console, calls>>, fault' \in Faults
  PROVE  IInv'
<1>1. AllSound'
  BY StillSound DEF Loaded
<1>2. TypeOK'
  BY DEF IInv, TypeOK
<1>3. Loaded' = Loaded /\ Loading' = Loading
  BY DEF Loaded, Loading
<1>4. NoLeak' /\ CommandKnows' /\ RegisteredConstructed'
  BY <1>3 DEF IInv, NoLeak, CommandKnows, RegisteredConstructed
<1> QED  BY <1>1, <1>2, <1>4 DEF IInv

\* The body of the script fails or returns; its state stays the command's.
LEMMA DoFileKeeps ==
  ASSUME IInv, DoFile
  PROVE  IInv'
<1> SUFFICES ASSUME NEW p \in {"failed", "onload"}, GoOn(p), UNCHANGED fault
             PROVE  IInv'
  BY FaultKeeps DEF DoFile, Faults
<1>0. console.pc = "script" /\ UNCHANGED <<scripts, status, phase, calls>>
  BY DEF DoFile
<1>a. /\ console' \in Command /\ console'.pc = p
      /\ console'.name = console.name /\ console'.state = console.state
  BY DEF IInv, TypeOK, Command, ConsolePoints, GoOn
<1>1. TypeOK'
  BY <1>0, <1>a DEF IInv, TypeOK
<1>2. NoLeak'
  BY <1>0, <1>a DEF IInv, NoLeak, Loaded, Loading
<1>3. CommandKnows'
  BY <1>0, <1>a DEF IInv, CommandKnows, Loading
<1>4. RegisteredConstructed'
  BY <1>0 DEF IInv, RegisteredConstructed, Loaded
<1>5. AllSound'
  BY <1>0, StillSound DEF Loaded
<1> QED  BY <1>1, <1>2, <1>3, <1>4, <1>5 DEF IInv

\* The state that lua_close frees is registered nowhere, or goes next with all its names.
LEMMA LuaCloseKeeps ==
  ASSUME IInv, FailedClosed \/ Closed \/ ClosedOne
  PROVE  IInv'
<1> DEFINE s == console.state
<1>1. CASE fault' = "uncaught" /\ UNCHANGED <<status, console>>
  BY <1>1, FaultKeeps DEF FailedClosed, Closed, ClosedOne, LuaClose, Faults
<1>2. CASE /\ status' = [status EXCEPT ![s] = "closed"] /\ UNCHANGED fault
           /\ \/ console.pc = "failed" /\ console' = Idle
              \/ console.pc = "closing" /\ console' = [console EXCEPT !.pc = "erase"]
              \/ console.pc = "closingOne" /\ console' = [console EXCEPT !.pc = "closeAll"]
  <2>1. UNCHANGED <<scripts, phase, calls>>
    BY DEF FailedClosed, Closed, ClosedOne, LuaClose
  <2>2. s \in States /\ TypeOK
    BY <1>2 DEF IInv, CommandKnows, Loading
  <2>3. /\ status' \in [States -> {"none", "open", "closed"}] /\ status'[s] = "closed"
        /\ \A r \in States \ {s} : status'[r] = status[r]
    BY <1>2, <2>2 DEF TypeOK
  <2>4. /\ console' \in Command
        /\ console.pc = "failed" => console'.pc = "idle"
        /\ console.pc = "closing" => console'.pc = "erase" /\ console'.name = console.name
                                      /\ console'.state = s
        /\ console.pc = "closingOne" => console'.pc = "closeAll"
    <3>1. console \in Command
      BY <2>2 DEF TypeOK
    <3>2. CASE console.pc = "failed" /\ console' = Idle
      BY <3>2 DEF Idle, Command, ConsolePoints
    <3>3. ASSUME NEW p \in ConsolePoints, console' = [console EXCEPT !.pc = p]
          PROVE  /\ console' \in Command /\ console'.pc = p
                 /\ console'.name = console.name /\ console'.state = s
      BY <3>1, <3>3 DEF Command
    <3>4. CASE console.pc = "closing" /\ console' = [console EXCEPT !.pc = "erase"]
      BY <3>3, <3>4 DEF ConsolePoints
    <3>5. CASE console.pc = "closingOne" /\ console' = [console EXCEPT !.pc = "closeAll"]
      BY <3>3, <3>5 DEF ConsolePoints
    <3> QED  BY <1>2, <3>2, <3>4, <3>5
  <2>5. TypeOK'
    BY <1>2, <2>1, <2>2, <2>3, <2>4 DEF TypeOK
  <2>6. NoLeak'
    <3>1. Loaded' = Loaded /\ \A n \in Loaded : scripts[n] \in States
      BY <2>1, <2>2 DEF Loaded, TypeOK
    <3>2. NoLeak /\ CommandKnows
      BY DEF IInv
    <3> QED  BY <1>2, <2>1, <2>2, <2>3, <2>4, <3>1, <3>2, StatesAssumption
             DEF NoLeak, CommandKnows, Loading, Loaded
  <2>7. CommandKnows'
    BY <1>2, <2>1, <2>2, <2>3, <2>4 DEF IInv, CommandKnows, Loading
  <2>8. RegisteredConstructed'
    BY <2>1 DEF IInv, RegisteredConstructed, Loaded
  <2>9. AllSound'
    BY <2>1, StillSound DEF Loaded
  <2> QED  BY <2>5, <2>6, <2>7, <2>8, <2>9 DEF IInv
<1> QED  BY <1>1, <1>2 DEF FailedClosed, Closed, ClosedOne, LuaClose

\* OnLoad makes the state one that may be registered.
LEMMA OnLoadKeeps ==
  ASSUME IInv, OnLoad
  PROVE  IInv'
<1>1. TypeOK'
  <2>1. CASE fault' = fault
    <3>1. console' \in Command
      BY DEF IInv, TypeOK, OnLoad, Called, GoOn, Command, ConsolePoints
    <3>2. phase' \in [States -> Phases]
      BY DEF IInv, TypeOK, OnLoad, Called, Phases
    <3> QED  BY <2>1, <3>1, <3>2 DEF IInv, TypeOK, OnLoad, Called
  <2>2. CASE fault' \in {"nullError", "uncaught"} /\ UNCHANGED <<console, phase>>
    BY <2>2 DEF IInv, TypeOK, OnLoad, Called, Faults
  <2> QED  BY <2>1, <2>2 DEF OnLoad, Called
<1>2. NoLeak'
  BY DEF IInv, TypeOK, NoLeak, Loaded, Loading, Command, OnLoad, Called, GoOn
<1>3. CommandKnows'
  BY DEF IInv, TypeOK, CommandKnows, Loading, Command, OnLoad, Called, GoOn
<1>4. RegisteredConstructed'
  BY DEF IInv, TypeOK, RegisteredConstructed, Loaded, OnLoad, Called
<1>5. AllSound'
  BY StillSound DEF IInv, TypeOK, Loaded, OnLoad, Called
<1> QED  BY <1>1, <1>2, <1>3, <1>4, <1>5 DEF IInv

\* The state gets a name that had none.
LEMMA RegisterKeeps ==
  ASSUME IInv, Register
  PROVE  IInv'
<1>1. TypeOK'
  BY DEF IInv, TypeOK, Command, ConsolePoints, Register, Idle
<1>2. NoLeak'
  BY StatesAssumption DEF IInv, TypeOK, NoLeak, CommandKnows, Loaded, Loading, Register, Idle
<1>3. CommandKnows'
  BY DEF CommandKnows, Loading, Register, Idle
<1>4. RegisteredConstructed'
  BY DEF IInv, CommandKnows, RegisteredConstructed, Loaded, Register
<1>5. AllSound'
  BY StillSound DEF IInv, CommandKnows, Loaded, Referred, Register, Idle
<1> QED  BY <1>1, <1>2, <1>3, <1>4, <1>5 DEF IInv

\* The console thread goes into a script that is registered, and changes nothing else.
LEMMA GoIntoKeeps ==
  ASSUME IInv, NEW s, NEW p \in ConsolePoints, GoInto(s, p),
         UNCHANGED <<scripts, status, phase, calls>>,
         \/ /\ s = console.state /\ console.pc \in {"unload", "close"}
            /\ p \in {"onunload", "closing"}
         \/ console.pc = "closeAll" /\ p = "closingOne" /\ \E n \in Loaded : s = scripts[n]
  PROVE  IInv'
<1>0. CASE fault' = "raced" /\ UNCHANGED console
  BY <1>0, FaultKeeps DEF Faults
<1>1. CASE console' = [console EXCEPT !.pc = p, !.state = s] /\ UNCHANGED fault
  <2>0. s \in States /\ \E n \in Names : scripts[n] = s
    BY DEF IInv, TypeOK, CommandKnows, Loaded
  <2>1. /\ console' \in Command /\ console'.pc = p
        /\ console'.name = console.name /\ console'.state = s
    BY <1>1, <2>0 DEF IInv, TypeOK, Command
  <2>2. TypeOK'
    BY <1>1, <2>1 DEF IInv, TypeOK
  <2>3. NoLeak'
    BY <2>1 DEF IInv, NoLeak, Loaded, Loading
  <2>4. CommandKnows'
    BY <2>0, <2>1 DEF IInv, CommandKnows, Loading
  <2>5. RegisteredConstructed'
    BY DEF IInv, RegisteredConstructed, Loaded
  <2>6. AllSound'
    BY StillSound DEF Loaded
  <2> QED  BY <2>2, <2>3, <2>4, <2>5, <2>6 DEF IInv
<1> QED  BY <1>0, <1>1 DEF GoInto

\* Looking OnUnload up changes no script.
LEMMA UnloadKeeps ==
  ASSUME IInv, Unload
  PROVE  IInv'
  BY GoIntoKeeps DEF Unload, ConsolePoints

\* OnUnload changes the phase of a state, which does not become new.
LEMMA OnUnloadKeeps ==
  ASSUME IInv, OnUnload
  PROVE  IInv'
<1>1. TypeOK'
  BY DEF IInv, TypeOK, Command, ConsolePoints, Phases, Faults, OnUnload, Called, GoOn
<1>2. NoLeak'
  BY DEF IInv, TypeOK, NoLeak, Loaded, Loading, Command, OnUnload, Called, GoOn
<1>3. CommandKnows'
  BY DEF IInv, TypeOK, CommandKnows, Command, OnUnload, Called, GoOn
<1>4. RegisteredConstructed'
  BY DEF IInv, TypeOK, RegisteredConstructed, Loaded, OnUnload, Called
<1>5. AllSound'
  BY StillSound DEF IInv, TypeOK, Loaded, OnUnload, Called
<1> QED  BY <1>1, <1>2, <1>3, <1>4, <1>5 DEF IInv

\* Going into lua_close changes no script.
LEMMA CloseKeeps ==
  ASSUME IInv, Close
  PROVE  IInv'
  BY GoIntoKeeps DEF Close, ConsolePoints

\* The name that goes has a closed state.
LEMMA EraseKeeps ==
  ASSUME IInv, Erase
  PROVE  IInv'
<1>1. TypeOK'
  <2>1. console' \in Command
    BY DEF IInv, TypeOK, Erase, Idle, Command, ConsolePoints
  <2>2. Typed
    BY UnholdFacts DEF Erase
  <2> QED  BY <2>1, <2>2 DEF IInv, TypeOK, Erase, Typed
<1>2. NoLeak'
  BY DEF IInv, TypeOK, NoLeak, CommandKnows, Loaded, Loading, Erase, Idle
<1>3. CommandKnows'
  BY DEF IInv, TypeOK, CommandKnows, Loading, Erase, Idle
<1>4. RegisteredConstructed'
  BY DEF IInv, RegisteredConstructed, Loaded, Erase
<1>5. AllSound'
  BY StillSound DEF Loaded, Erase
<1> QED  BY <1>1, <1>2, <1>3, <1>4, <1>5 DEF IInv

\* UnloadAll goes into the next open state, or has closed all of them.
LEMMA CloseAllKeeps ==
  ASSUME IInv, CloseAll
  PROVE  IInv'
<1> DEFINE open == {n \in Loaded : status[scripts[n]] = "open"}
<1>0. console.pc = "closeAll" /\ UNCHANGED <<scripts, status, phase, calls>>
  BY DEF CloseAll
<1>1. CASE open = {} /\ GoOn("clear") /\ UNCHANGED fault
  <2>1. console' \in Command /\ console'.pc = "clear"
    BY <1>1 DEF IInv, TypeOK, Command, ConsolePoints, GoOn
  <2>2. TypeOK'
    BY <1>0, <1>1, <2>1 DEF IInv, TypeOK
  <2>3. NoLeak'
    BY <1>0, <2>1 DEF IInv, NoLeak, Loaded, Loading
  <2>4. CommandKnows'
    BY <1>0, <1>1, <2>1 DEF CommandKnows, Loading, Loaded
  <2>5. RegisteredConstructed'
    BY <1>0 DEF IInv, RegisteredConstructed, Loaded
  <2>6. AllSound'
    BY <1>0, StillSound DEF Loaded
  <2> QED  BY <2>2, <2>3, <2>4, <2>5, <2>6 DEF IInv
<1>2. ASSUME NEW n \in open, GoInto(scripts[n], "closingOne") PROVE IInv'
  BY <1>0, <1>2, GoIntoKeeps DEF ConsolePoints
<1> QED  BY <1>1, <1>2 DEF CloseAll

\* The names go when all their states are closed.
LEMMA ClearKeeps ==
  ASSUME IInv, Clear
  PROVE  IInv'
<1>1. TypeOK'
  <2>1. console' \in Command
    BY DEF Clear, Idle, Command, ConsolePoints
  <2>2. Typed
    BY UnholdFacts DEF Clear
  <2> QED  BY <2>1, <2>2 DEF IInv, TypeOK, Clear, Typed
<1>2. NoLeak'
  BY DEF IInv, TypeOK, NoLeak, CommandKnows, Loaded, Loading, Clear, Idle
<1>3. CommandKnows'
  BY DEF CommandKnows, Loading, Clear, Idle
<1>4. RegisteredConstructed'
  BY DEF RegisteredConstructed, Loaded, Clear
<1>5. AllSound'
  BY StillSound DEF Loaded, Clear
<1> QED  BY <1>1, <1>2, <1>3, <1>4, <1>5 DEF IInv

-----------------------------------------------------------------------------
(* Every step of a dispatch keeps the invariant.                           *)

\* A step that changes nothing but the dispatches and the fault.
LEMMA DispatchKeeps ==
  ASSUME IInv, UNCHANGED <<scripts, status, phase, console>>,
         Typed, fault' \in Faults, AllSound'
  PROVE  IInv'
<1>1. TypeOK'
  BY DEF IInv, TypeOK, Typed
<1>2. Loaded' = Loaded /\ Loading' = Loading
  BY DEF Loaded, Loading
<1>3. NoLeak' /\ CommandKnows' /\ RegisteredConstructed'
  BY <1>2 DEF IInv, NoLeak, CommandKnows, RegisteredConstructed
<1> QED  BY <1>1, <1>3 DEF IInv

\* A new dispatch has asked nobody and is at no name.
LEMMA BeginKeeps ==
  ASSUME IInv, NEW t \in Threads, Begin(t)
  PROVE  IInv'
<1>1. PICK len \in Lengths :
        calls' = [calls EXCEPT ![t] = Append(@,
          [pc |-> "advance", at |-> Start, node |-> NoState, alloc |-> len, length |-> len,
           allow |-> TRUE, seen |-> <<>>, held |-> Loaded])]
  BY DEF Begin
<1> DEFINE d == [pc |-> "advance", at |-> Start, node |-> NoState, alloc |-> len, length |-> len,
                 allow |-> TRUE, seen |-> <<>>, held |-> Loaded]
<1>2. d \in Dispatch
  BY LengthsAssumption DEF Dispatch, Loaded
<1>3. Sound(d)
  BY LengthsAssumption, NamesAssumption DEF Sound, Increasing, Loaded, Start
<1>4. calls' = [calls EXCEPT ![t] = Append(@, d)]
  BY <1>1
<1> HIDE DEF d
<1>5. Typed /\ Only(d)
  BY <1>2, <1>4, AppendFacts
<1> QED  BY <1>2, <1>3, <1>5, OneSound, DispatchKeeps DEF Begin, IInv, TypeOK

\* A step that puts a sound dispatch in the place of the innermost one.
LEMMA TopKeeps ==
  ASSUME IInv, NEW t \in Threads, InDispatch(t), NEW d \in Dispatch, SetTop(t, d), Sound(d),
         UNCHANGED <<scripts, status, phase, console>>, fault' \in Faults
  PROVE  IInv'
  BY SetTopFacts, OneSound, DispatchKeeps

\* The iterator skips no script that is registered.
LEMMA AdvanceKeeps ==
  ASSUME IInv, NEW t \in Threads, Advance(t)
  PROVE  IInv'
<1> DEFINE o == Top(t)
           later == {n \in Loaded : n > o.at}
<1>1. InDispatch(t) /\ o.pc = "advance" /\ UNCHANGED <<scripts, status, phase, console>>
  BY DEF Advance
<1>2. o \in Dispatch /\ Sound(o)
  BY <1>1, TopFacts
<1>3. CASE fault' \in {"erased", "torn"} /\ UNCHANGED calls
  BY <1>1, <1>3, FaultKeeps DEF Faults
<1>4. CASE later = {} /\ SetTop(t, [o EXCEPT !.pc = "done"]) /\ UNCHANGED fault
  <2> DEFINE d == [o EXCEPT !.pc = "done"]
  <2>1. d \in Dispatch
    BY <1>2 DEF Dispatch
  <2>2. \A n \in o.held : n <= o.at
    BY <1>2, <1>4, NamesAssumption DEF Sound, Loaded, Dispatch, Start
  <2>3. Sound(d)
    BY <1>1, <1>2, <2>2 DEF Sound, Dispatch
  <2> HIDE DEF d
  <2> QED  BY <1>1, <1>4, <2>1, <2>3, TopKeeps DEF d, IInv, TypeOK
<1>5. ASSUME NEW n \in later, \A m \in later : n <= m, UNCHANGED fault,
             SetTop(t, [o EXCEPT !.pc = "call", !.at = n,
                                 !.node = scripts[n], !.seen = Append(@, n)])
      PROVE  IInv'
  <2> DEFINE d == [o EXCEPT !.pc = "call", !.at = n,
                            !.node = scripts[n], !.seen = Append(@, n)]
             seen == Append(o.seen, n)
  <2>1. n \in Names /\ n \in Nat /\ o.at \in Nat /\ o.at < n /\ n \in Loaded /\ o.seen \in Seq(Names)
    BY <1>2, <1>5, NamesAssumption DEF Dispatch, Loaded, Start
  <2>2. scripts[n] \in States /\ phase[scripts[n]] # "new"
    BY <2>1 DEF IInv, TypeOK, RegisteredConstructed, Loaded
  <2>3. /\ seen \in Seq(Names) /\ Len(seen) = Len(o.seen) + 1 /\ seen[Len(seen)] = n
        /\ Len(o.seen) \in Nat /\ \A j \in 1..Len(o.seen) : seen[j] = o.seen[j]
    BY <2>1
  <2>4. /\ d \in Dispatch /\ d.pc = "call" /\ d.at = n /\ d.node = scripts[n] /\ d.seen = seen
        /\ d.length = o.length /\ d.alloc = o.alloc /\ d.held = o.held
    BY <1>2, <2>1, <2>2, <2>3 DEF Dispatch
  <2>5. \A j \in 1..Len(o.seen) : o.seen[j] \in Nat /\ o.seen[j] <= o.at
    <3>1. \A j \in 1..Len(o.seen) : o.seen[j] \in Names
      BY <2>1
    <3> QED  BY <1>2, <3>1, NamesAssumption DEF Sound
  <2> HIDE DEF seen, d
  <2>6. \A j \in 1..Len(seen) : seen[j] <= n
    BY <2>1, <2>3, <2>5
  <2>7. Increasing(seen)
    <3> SUFFICES ASSUME NEW j \in 1..Len(seen), NEW k \in 1..Len(seen), j < k
                 PROVE  seen[j] < seen[k]
      BY DEF Increasing
    <3>1. j \in 1..Len(o.seen)
      BY <2>3
    <3>2. CASE k = Len(seen)
      BY <2>1, <2>3, <2>5, <3>1, <3>2
    <3>3. CASE k # Len(seen)
      <4>1. k \in 1..Len(o.seen)
        BY <2>3, <3>3
      <4> QED  BY <1>2, <2>3, <3>1, <4>1 DEF Sound, Increasing
    <3> QED  BY <3>2, <3>3
  <2>8. ASSUME NEW m \in o.held, m <= n
        PROVE  Among(m, seen)
    <3>1. m \in Loaded /\ m \in Nat
      BY <1>2, NamesAssumption DEF Sound, Loaded
    <3>2. m <= o.at \/ m = n
      BY <1>5, <2>1, <2>8, <3>1
    <3>3. CASE m <= o.at
      <4>1. Among(m, o.seen)
        BY <1>2, <3>3 DEF Sound
      <4> QED  BY <2>3, <4>1 DEF Among
    <3>4. CASE m = n
      BY <2>3, <3>4 DEF Among
    <3> QED  BY <3>2, <3>3, <3>4
  <2>9. Sound(d)
    BY <1>2, <2>2, <2>4, <2>6, <2>7, <2>8 DEF Sound
  <2> QED  BY <1>1, <1>5, <2>4, <2>9, TopKeeps DEF d, IInv, TypeOK
<1> QED  BY <1>3, <1>4, <1>5 DEF Advance

\* The script is asked, or has nothing to say.
LEMMA CallKeeps ==
  ASSUME IInv, NEW t \in Threads, Call(t)
  PROVE  IInv'
<1> DEFINE o == Top(t)
<1>1. InDispatch(t) /\ o.pc = "call" /\ UNCHANGED <<scripts, status, phase, console>>
  BY DEF Call
<1>2. o \in Dispatch /\ Sound(o)
  BY <1>1, TopFacts
<1>3. CASE fault' \in {"closed", "raced"} /\ UNCHANGED calls
  BY <1>1, <1>3, FaultKeeps DEF Faults
<1>4. ASSUME NEW p \in {"advance", "running"}, SetTop(t, [o EXCEPT !.pc = p]), UNCHANGED fault
      PROVE  IInv'
  <2> DEFINE d == [o EXCEPT !.pc = p]
  <2>1. d \in Dispatch
    BY <1>2 DEF Dispatch
  <2>2. Sound(d)
    BY <1>1, <1>2 DEF Sound, Dispatch
  <2> HIDE DEF d
  <2> QED  BY <1>1, <1>4, <2>1, <2>2, TopKeeps DEF d, IInv, TypeOK
<1> QED  BY <1>3, <1>4 DEF Call

\* The answer of a script never makes the packet longer.
LEMMA FinishKeeps ==
  ASSUME IInv, NEW t \in Threads, Finish(t)
  PROVE  IInv'
<1> DEFINE o == Top(t)
           next(r, z) == [o EXCEPT !.pc = "advance", !.allow = @ /\ r,
                                   !.length = IF z > @ THEN @ ELSE z]
<1>1. InDispatch(t) /\ o.pc = "running" /\ UNCHANGED <<scripts, status, phase, console>>
  BY DEF Finish
<1>2. o \in Dispatch /\ Sound(o)
  BY <1>1, TopFacts
<1>3. CASE fault' \in {"nullError", "uncaught"} /\ UNCHANGED calls
  BY <1>1, <1>3, FaultKeeps DEF Faults
<1>4. ASSUME NEW r \in BOOLEAN, NEW z \in {o.length} \cup Lengths,
             SetTop(t, next(r, z)), UNCHANGED fault
      PROVE  IInv'
  <2> DEFINE d == next(r, z)
  <2>1. z \in Nat /\ o.length \in Nat /\ o.alloc \in Nat /\ o.length <= o.alloc
    BY <1>2, LengthsAssumption DEF Dispatch, Sound
  <2>2. d \in Dispatch
    BY <1>2, <2>1 DEF Dispatch
  <2>3. /\ d.pc = "advance" /\ d.length <= d.alloc
        /\ d.seen = o.seen /\ d.at = o.at /\ d.held = o.held
    BY <1>2, <2>1 DEF Dispatch
  <2> HIDE DEF d
  <2>4. Sound(d)
    BY <1>1, <1>2, <2>3 DEF Sound
  <2> QED  BY <1>1, <1>4, <2>2, <2>4, TopKeeps DEF d, IInv, TypeOK
<1> QED  BY <1>3, <1>4 DEF Finish

\* The end of a dispatch leaves the one around it as it was.
LEMMA EndKeeps ==
  ASSUME IInv, NEW t \in Threads, End(t)
  PROVE  IInv'
<1>1. Top(t) \in Dispatch /\ Sound(Top(t)) /\ Typed /\ Only(Top(t))
  BY TopFacts, EndFacts DEF End
<1> QED  BY <1>1, OneSound, DispatchKeeps DEF End, IInv, TypeOK

-----------------------------------------------------------------------------
(* The theorems.                                                           *)

\* The invariant holds initially.
LEMMA InitIInv == Init => IInv
<1> SUFFICES ASSUME Init PROVE IInv
  OBVIOUS
<1>1. TypeOK
  BY DEF Init, TypeOK, Idle, Command, ConsolePoints, Phases, Faults, Dispatch
<1>2. Loaded = {} /\ ~Loading
  BY DEF Init, Loaded, Loading, Idle
<1>3. NoLeak /\ CommandKnows /\ RegisteredConstructed
  BY <1>2 DEF Init, NoLeak, CommandKnows, RegisteredConstructed, Idle
<1>4. AllSound
  BY DEF Init, AllSound
<1> QED  BY <1>1, <1>3, <1>4 DEF IInv

\* Every step keeps the invariant.
LEMMA NextIInv == IInv /\ [Next]_vars => IInv'
<1> SUFFICES ASSUME IInv, [Next]_vars PROVE IInv'
  OBVIOUS
<1>1. CASE CommandStep
  BY <1>1, HandleCommandsKeeps, CreateKeeps, DoFileKeeps, OnLoadKeeps, RegisterKeeps,
     UnloadKeeps, OnUnloadKeeps, CloseKeeps, EraseKeeps, CloseAllKeeps, LuaCloseKeeps,
     ClearKeeps DEF CommandStep
<1>2. CASE \E t \in Threads : DispatchStep(t)
  BY <1>2, BeginKeeps, AdvanceKeeps, CallKeeps, FinishKeeps, EndKeeps DEF DispatchStep
<1>3. CASE UNCHANGED vars
  BY <1>3, FaultKeeps DEF vars, IInv, TypeOK
<1> QED  BY <1>1, <1>2, <1>3 DEF Next, Faulted

\* The inductive invariant: what the console knows of the scripts, and what every
\* dispatch knows of them, in every state.
THEOREM IInvHolds == Spec => []IInv
  BY InitIInv, NextIInv, PTL DEF Spec

\* The variables keep their types: console and dispatch never hold a name or a state
\* that is none.
THEOREM TypeCorrect == Spec => []TypeOK
<1>1. IInv => TypeOK
  BY DEF IInv
<1> QED  BY <1>1, IInvHolds, PTL

\* No command, failed load or reload leaks an open Lua state or closes one twice.
THEOREM NothingLeaks == Spec => []NoLeak
<1>1. IInv => NoLeak
  BY DEF IInv
<1> QED  BY <1>1, IInvHolds, PTL

\* No callback of a script runs before its OnLoad has returned.
THEOREM Constructed == Spec => []ConstructedFirst
<1>1. IInv => ConstructedFirst
  BY DEF IInv, AllSound, Sound, ConstructedFirst
<1> QED  BY <1>1, IInvHolds, PTL

\* Scripts are asked in the order of their names, each at most once, whatever is
\* loaded and unloaded meanwhile.
THEOREM Ordered == Spec => []InOrder
<1>1. IInv => InOrder
  BY DEF IInv, AllSound, Sound, Increasing, InOrder
<1> QED  BY <1>1, IInvHolds, PTL

\* A script that stays registered from the beginning to the end of a dispatch is asked.
THEOREM NotMissed == Spec => []NoneMissed
<1>1. ASSUME IInv PROVE NoneMissed
  <2> SUFFICES ASSUME NEW t \in Threads, NEW i \in 1..Len(calls[t]),
                      calls[t][i].pc = "done", NEW n \in calls[t][i].held
               PROVE  n \in {calls[t][i].seen[j] : j \in 1..Len(calls[t][i].seen)}
    BY DEF NoneMissed
  <2>1. Among(n, calls[t][i].seen)
    BY <1>1, SoundOne DEF Sound
  <2> QED  BY <2>1 DEF Among
<1> QED  BY <1>1, IInvHolds, PTL

\* No sequence of answers makes a packet longer than the client's buffer.
THEOREM Fits == Spec => []LengthFits
<1>1. IInv => LengthFits
  BY DEF IInv, AllSound, Sound, LengthFits
<1> QED  BY <1>1, IInvHolds, PTL

-----------------------------------------------------------------------------
(* Packets and commands on one thread at a time: Overlap is false.         *)

\* Packets are dispatched between commands, or for what a command's script forges.
OneAtATime ==
  /\ console.pc # "idle" => \A t \in ClientThreads : calls[t] = <<>>
  /\ calls[Console] # <<>> => ConsoleInScript

\* The iterator of a dispatch is at a node of the map.
AtNode(d) ==
  /\ d.pc \in {"call", "running"} => d.at # Start
  /\ d.at # Start => scripts[d.at] = d.node
AllAtNode == \A t \in Threads : \A i \in 1..Len(calls[t]) : AtNode(calls[t][i])

\* A script that has had its OnUnload is the one that the command removes.
DestructedGoes ==
  /\ \A n \in Loaded : phase[scripts[n]] = "destructed" =>
       console.pc \in {"close", "closing", "erase"} /\ console.name = n
  /\ console.pc \in {"script", "onload"} => phase[console.state] = "new"
  /\ console.pc = "register" => phase[console.state] = "constructed"

SerialInv == IInv /\ OneAtATime /\ AllAtNode /\ DestructedGoes

\* While the console is about to change the map, no thread is in a dispatch.
LEMMA NoneInDispatch ==
  ASSUME SerialInv, console.pc # "idle", ~ConsoleInScript, NEW t \in Threads
  PROVE  calls[t] = <<>> /\ ~InDispatch(t)
BY DEF SerialInv, OneAtATime, Threads, InDispatch

\* A step of the console while no thread is in a dispatch, before it and after it.
LEMMA QuietStep ==
  ASSUME SerialInv, IInv', \A t \in Threads : calls[t] = <<>>,
         UNCHANGED calls \/ \E gone : Unhold(gone), DestructedGoes'
  PROVE  SerialInv'
<1>1. \A t \in Threads : calls'[t] = <<>>
  <2>1. CASE UNCHANGED calls
    BY <2>1
  <2>2. ASSUME NEW gone, Unhold(gone), NEW t \in Threads PROVE calls'[t] = <<>>
    <3>1. Len(calls'[t]) = 0
      BY <2>2, UnholdFacts DEF SerialInv
    <3>2. calls'[t] \in Seq(Dispatch)
      BY <2>2, UnholdFacts DEF SerialInv, Typed
    <3> QED  BY <3>1, <3>2
  <2> QED  BY <2>1, <2>2
<1>2. OneAtATime' /\ AllAtNode'
  BY <1>1 DEF OneAtATime, AllAtNode, Threads
<1> QED  BY <1>2 DEF SerialInv

\* A step that does nothing but use a dead object, or nothing at all.
LEMMA NothingMoves ==
  ASSUME SerialInv, IInv', UNCHANGED <<scripts, phase, console, calls>>
  PROVE  SerialInv'
<1>1. OneAtATime' /\ AllAtNode'
  BY DEF SerialInv, OneAtATime, ConsoleInScript, AllAtNode, AtNode
<1>2. DestructedGoes'
  BY DEF SerialInv, DestructedGoes, Loaded
<1> QED  BY <1>1, <1>2 DEF SerialInv

\* A step of a thread that is in a dispatch, or may begin one.
LEMMA ThreadStep ==
  ASSUME SerialInv, IInv', NEW t \in Threads, UNCHANGED <<scripts, phase, console>>,
         IF t = Console THEN ConsoleInScript ELSE console.pc = "idle",
         \A u \in Threads \ {t} : calls'[u] = calls[u],
         NEW d, AtNode(d), Only(d)
  PROVE  SerialInv'
<1>1. DestructedGoes'
  BY DEF SerialInv, DestructedGoes, Loaded
<1>2. OneAtATime'
  BY ThreadsAssumption DEF SerialInv, OneAtATime, ConsoleInScript, Threads
<1>3. AllAtNode'
  BY DEF SerialInv, AllAtNode, AtNode, Only
<1> QED  BY <1>1, <1>2, <1>3 DEF SerialInv

\* Where a thread in a dispatch is: the console in a script, or nobody at the console.
LEMMA WhoDispatches ==
  ASSUME SerialInv, NEW t \in Threads, InDispatch(t)
  PROVE  /\ IF t = Console THEN ConsoleInScript ELSE console.pc = "idle"
         /\ AtNode(Top(t))
<1>1. IF t = Console THEN ConsoleInScript ELSE console.pc = "idle"
  BY DEF SerialInv, OneAtATime, InDispatch, Threads
<1>2. AtNode(Top(t))
  <2>1. Len(calls[t]) \in 1..Len(calls[t]) /\ Top(t) = calls[t][Len(calls[t])]
    BY TopFacts DEF SerialInv
  <2> QED  BY <2>1 DEF SerialInv, AllAtNode
<1> QED  BY <1>1, <1>2

\* Commands begin when no packet is in flight.
LEMMA HandleCommandsSerial ==
  ASSUME SerialInv, IInv', ~Overlap, HandleCommands
  PROVE  SerialInv'
<1>1. \A t \in Threads : calls[t] = <<>>
  BY DEF HandleCommands, InDispatch
<1>2. console.pc = "idle" /\ UNCHANGED <<scripts, phase, calls>>
      /\ console'.pc \in {"unload", "create", "closeAll"}
  BY DEF HandleCommands, Idle
<1>3. DestructedGoes'
  BY <1>2 DEF SerialInv, DestructedGoes, Loaded
<1> QED  BY <1>1, <1>2, <1>3, QuietStep

\* Load makes a state that nobody refers to.
LEMMA CreateSerial ==
  ASSUME SerialInv, IInv', Create
  PROVE  SerialInv'
<1>0. TypeOK /\ DestructedGoes
  BY DEF SerialInv, IInv
<1>1. \A t \in Threads : calls[t] = <<>>
  BY NoneInDispatch DEF Create, ConsoleInScript
<1>2. PICK s \in States :
        /\ status[s] # "open" /\ ~Referred(s)
        /\ status' = [status EXCEPT ![s] = "open"]
        /\ phase' = [phase EXCEPT ![s] = "new"]
        /\ console' = [console EXCEPT !.pc = "script", !.state = s]
  BY Zenon DEF Create
<1>3. console.pc = "create" /\ UNCHANGED <<scripts, calls>> /\ console \in Command
  BY <1>0 DEF Create, TypeOK
<1>4. console'.pc = "script" /\ console'.state = s /\ phase'[s] = "new"
  BY <1>0, <1>2, <1>3 DEF Command, TypeOK
<1>5. \A n \in Loaded : scripts[n] # s /\ phase'[scripts[n]] = phase[scripts[n]]
  BY <1>0, <1>2 DEF Referred, Loaded, TypeOK
<1>6. Loaded' = Loaded
  BY <1>3 DEF Loaded
<1>7. DestructedGoes'
  BY <1>0, <1>3, <1>4, <1>5, <1>6 DEF DestructedGoes
<1> QED  BY <1>1, <1>3, <1>7, QuietStep

\* Load, from the script's body to its registration.
LEMMA LoadSerial ==
  ASSUME SerialInv, IInv', DoFile \/ FailedClosed \/ OnLoad \/ Register
  PROVE  SerialInv'
<1>1. TypeOK /\ DestructedGoes
  BY DEF SerialInv, IInv
<1>2. CASE FailedClosed
  <2>1. \A t \in Threads : calls[t] = <<>>
    BY <1>2 DEF SerialInv, OneAtATime, FailedClosed, LuaClose, InDispatch, Threads
  <2>2. console.pc = "failed" /\ UNCHANGED <<scripts, phase, calls>>
        /\ (console' = console \/ console' = Idle)
    BY <1>2 DEF FailedClosed, LuaClose
  <2>3. DestructedGoes'
    BY <1>1, <2>2 DEF DestructedGoes, Loaded, Idle
  <2> QED  BY <2>1, <2>2, <2>3, QuietStep
<1>3. CASE DoFile
  <2>1. \A t \in Threads : calls[t] = <<>>
    BY <1>3 DEF SerialInv, OneAtATime, DoFile, InDispatch, Threads
  <2>2. console.pc = "script" /\ UNCHANGED <<scripts, phase, calls>>
        /\ \/ console' = console
           \/ console' = [console EXCEPT !.pc = "failed"]
           \/ console' = [console EXCEPT !.pc = "onload"]
    BY <1>3 DEF DoFile, GoOn
  <2>3. DestructedGoes'
    BY <1>1, <2>2 DEF DestructedGoes, Loaded, TypeOK, Command
  <2> QED  BY <2>1, <2>2, <2>3, QuietStep
<1>4. CASE OnLoad
  <2>1. \A t \in Threads : calls[t] = <<>>
    BY <1>4 DEF SerialInv, OneAtATime, OnLoad, Called, InDispatch, Threads
  <2>2. console.pc = "onload" /\ UNCHANGED <<scripts, calls>>
    BY <1>4 DEF OnLoad, Called
  <2>3. CASE UNCHANGED <<console, phase>>
    BY <2>2, <2>3, NothingMoves
  <2>4. CASE /\ console' = [console EXCEPT !.pc = "register"]
             /\ phase' = [phase EXCEPT ![console.state] = "constructed"]
    <3>1. console.state \in States /\ \A n \in Names : scripts[n] # console.state
      BY <2>2 DEF SerialInv, IInv, CommandKnows, NoLeak, Loading
    <3>2. \A n \in Loaded : phase'[scripts[n]] = phase[scripts[n]]
      BY <1>1, <2>4, <3>1 DEF Loaded, TypeOK
    <3>3. console'.pc = "register" /\ console'.state = console.state
          /\ phase'[console.state] = "constructed"
      BY <1>1, <2>4, <3>1 DEF TypeOK, Command
    <3>4. Loaded' = Loaded
      BY <2>2 DEF Loaded
    <3>5. DestructedGoes'
      BY <1>1, <2>2, <3>2, <3>3, <3>4 DEF DestructedGoes
    <3> QED  BY <2>1, <2>2, <3>5, QuietStep
  <2> QED  BY <1>4, <2>3, <2>4 DEF OnLoad, Called, GoOn
<1>5. CASE Register
  <2>1. \A t \in Threads : calls[t] = <<>>
    BY <1>5, NoneInDispatch DEF Register, ConsoleInScript
  <2>2. /\ console.pc = "register" /\ UNCHANGED <<phase, calls>>
        /\ scripts' = [scripts EXCEPT ![console.name] = console.state] /\ console' = Idle
    BY <1>5 DEF Register
  <2>3. DestructedGoes'
    BY <1>1, <2>2 DEF DestructedGoes, Loaded, Idle, TypeOK
  <2> QED  BY <2>1, <2>2, <2>3, QuietStep
<1> QED  BY <1>2, <1>3, <1>4, <1>5

\* Unload and UnloadAll.
LEMMA UnloadSerial ==
  ASSUME SerialInv, IInv',
         Unload \/ OnUnload \/ Close \/ Closed \/ Erase \/ CloseAll \/ ClosedOne \/ Clear
  PROVE  SerialInv'
<1>1. TypeOK /\ DestructedGoes
  BY DEF SerialInv, IInv
<1>2. CASE Unload
  <2>1. \A t \in Threads : calls[t] = <<>>
    BY <1>2, NoneInDispatch DEF Unload, ConsoleInScript
  <2>2. console.pc = "unload" /\ UNCHANGED <<scripts, phase, calls>>
        /\ \/ console' = console
           \/ console' = [console EXCEPT !.pc = "onunload", !.state = console.state]
    BY <1>2 DEF Unload, GoInto
  <2>3. DestructedGoes'
    BY <1>1, <2>2 DEF DestructedGoes, Loaded, TypeOK, Command
  <2> QED  BY <2>1, <2>2, <2>3, QuietStep
<1>3. CASE OnUnload
  <2>1. \A t \in Threads : calls[t] = <<>>
    BY <1>3 DEF SerialInv, OneAtATime, OnUnload, Called, InDispatch, Threads
  <2>2. console.pc = "onunload" /\ UNCHANGED <<scripts, calls>>
    BY <1>3 DEF OnUnload, Called
  <2>3. CASE UNCHANGED <<console, phase>>
    BY <2>2, <2>3, NothingMoves
  <2>4. CASE /\ console' = [console EXCEPT !.pc = "close"]
             /\ phase' = [phase EXCEPT ![console.state] = "destructed"]
    <3>1. /\ console.state \in States /\ scripts[console.name] = console.state
          /\ console.name \in Names
      BY <2>2 DEF SerialInv, IInv, CommandKnows
    <3>2. \A n \in Loaded : scripts[n] = console.state => n = console.name
      BY <3>1, StatesAssumption DEF SerialInv, IInv, NoLeak, Loaded
    <3>3. \A n \in Loaded : scripts[n] # console.state => phase'[scripts[n]] = phase[scripts[n]]
      BY <1>1, <2>4 DEF Loaded, TypeOK
    <3>4. console'.pc = "close" /\ console'.name = console.name
      BY <1>1, <2>4 DEF TypeOK, Command
    <3>5. Loaded' = Loaded
      BY <2>2 DEF Loaded
    <3>6. DestructedGoes'
      BY <1>1, <2>2, <3>2, <3>3, <3>4, <3>5 DEF DestructedGoes
    <3> QED  BY <2>1, <2>2, <3>6, QuietStep
  <2> QED  BY <1>3, <2>3, <2>4 DEF OnUnload, Called, GoOn
<1>4. CASE Close
  <2>1. \A t \in Threads : calls[t] = <<>>
    BY <1>4, NoneInDispatch DEF Close, ConsoleInScript
  <2>2. console.pc = "close" /\ UNCHANGED <<scripts, phase, calls>>
        /\ \/ console' = console
           \/ console' = [console EXCEPT !.pc = "closing", !.state = console.state]
    BY <1>4 DEF Close, GoInto
  <2>3. Loaded' = Loaded /\ console'.name = console.name /\ console'.pc \in {"close", "closing"}
    BY <1>1, <2>2 DEF Loaded, TypeOK, Command
  <2>4. DestructedGoes'
    BY <1>1, <2>2, <2>3 DEF DestructedGoes
  <2> QED  BY <2>1, <2>2, <2>4, QuietStep
<1>7. CASE Closed \/ ClosedOne
  <2>1. \A t \in Threads : calls[t] = <<>>
    BY <1>7 DEF SerialInv, OneAtATime, Closed, ClosedOne, LuaClose, InDispatch, Threads
  <2>2. /\ UNCHANGED <<scripts, phase, calls>>
        /\ \/ console' = console
           \/ console.pc = "closing" /\ console' = [console EXCEPT !.pc = "erase"]
           \/ console.pc = "closingOne" /\ console' = [console EXCEPT !.pc = "closeAll"]
    BY <1>7 DEF Closed, ClosedOne, LuaClose
  <2>3. DestructedGoes'
    BY <1>1, <2>2 DEF DestructedGoes, Loaded, TypeOK, Command
  <2> QED  BY <2>1, <2>2, <2>3, QuietStep
<1>5. CASE Erase
  <2>1. \A t \in Threads : calls[t] = <<>>
    BY <1>5, NoneInDispatch DEF Erase, ConsoleInScript
  <2>2. /\ console.pc = "erase" /\ UNCHANGED phase /\ Unhold({console.name})
        /\ scripts' = [scripts EXCEPT ![console.name] = NoState]
        /\ console'.pc \in {"create", "idle"}
    BY <1>1, <1>5 DEF Erase, Idle, TypeOK, Command
  <2>3. \A n \in Loaded' : n \in Loaded /\ n # console.name /\ scripts'[n] = scripts[n]
    BY <1>1, <2>2 DEF Loaded, TypeOK
  <2>4. DestructedGoes'
    BY <1>1, <2>2, <2>3 DEF DestructedGoes
  <2> QED  BY <2>1, <2>2, <2>4, QuietStep
<1>6. CASE CloseAll
  <2>1. \A t \in Threads : calls[t] = <<>>
    BY <1>6, NoneInDispatch DEF CloseAll, ConsoleInScript
  <2>2. console.pc = "closeAll" /\ UNCHANGED <<scripts, phase, calls>>
        /\ \/ console' = console
           \/ console' = [console EXCEPT !.pc = "clear"]
           \/ \E n \in Names :
                console' = [console EXCEPT !.pc = "closingOne", !.state = scripts[n]]
    BY <1>6 DEF CloseAll, GoInto, GoOn, Loaded
  <2>3. console'.pc \in {"closeAll", "clear", "closingOne"}
    BY <1>1, <2>2 DEF TypeOK, Command
  <2>4. DestructedGoes'
    BY <1>1, <2>2, <2>3 DEF DestructedGoes, Loaded
  <2> QED  BY <2>1, <2>2, <2>4, QuietStep
<1>8. CASE Clear
  <2>1. \A t \in Threads : calls[t] = <<>>
    BY <1>8, NoneInDispatch DEF Clear, ConsoleInScript
  <2>2. /\ UNCHANGED phase /\ scripts' = [n \in Names |-> NoState] /\ console' = Idle
        /\ Unhold(Loaded)
    BY <1>8 DEF Clear
  <2>3. DestructedGoes'
    BY <2>2 DEF DestructedGoes, Loaded, Idle
  <2> QED  BY <2>1, <2>2, <2>3, QuietStep
<1> QED  BY <1>2, <1>3, <1>4, <1>5, <1>6, <1>7, <1>8

\* The hook hands over a packet.
LEMMA BeginSerial ==
  ASSUME SerialInv, IInv', ~Overlap, NEW t \in Threads, Begin(t)
  PROVE  SerialInv'
<1>1. IF t = Console THEN ConsoleInScript ELSE console.pc = "idle"
  BY WhoDispatches DEF Begin
<1>2. UNCHANGED <<scripts, phase, console>>
  BY DEF Begin
<1>3. PICK len \in Lengths :
        calls' = [calls EXCEPT ![t] = Append(@,
          [pc |-> "advance", at |-> Start, node |-> NoState, alloc |-> len, length |-> len,
           allow |-> TRUE, seen |-> <<>>, held |-> Loaded])]
  BY DEF Begin
<1> DEFINE d == [pc |-> "advance", at |-> Start, node |-> NoState, alloc |-> len, length |-> len,
                 allow |-> TRUE, seen |-> <<>>, held |-> Loaded]
<1>4. d \in Dispatch /\ AtNode(d)
  BY LengthsAssumption DEF Dispatch, Loaded, AtNode
<1>5. calls' = [calls EXCEPT ![t] = Append(@, d)] /\ IInv
  BY <1>3 DEF SerialInv
<1> HIDE DEF d
<1>6. Only(d)
  BY <1>4, <1>5, AppendFacts
<1>7. \A u \in Threads \ {t} : calls'[u] = calls[u]
  BY <1>5 DEF IInv, TypeOK
<1> QED  BY <1>1, <1>2, <1>4, <1>6, <1>7, ThreadStep

\* A step that puts a dispatch at a node of the map in the place of the innermost one.
LEMMA TopSerial ==
  ASSUME SerialInv, IInv', NEW t \in Threads, InDispatch(t), NEW d \in Dispatch, SetTop(t, d),
         AtNode(d), UNCHANGED <<scripts, phase, console>>
  PROVE  SerialInv'
<1>1. Only(d)
  BY SetTopFacts DEF SerialInv
<1>2. \A u \in Threads \ {t} : calls'[u] = calls[u]
  BY DEF SetTop, SerialInv, IInv, TypeOK
<1> QED  BY <1>1, <1>2, WhoDispatches, ThreadStep

\* The iterator goes to a node of the map.
LEMMA AdvanceSerial ==
  ASSUME SerialInv, IInv', NEW t \in Threads, Advance(t)
  PROVE  SerialInv'
<1> DEFINE o == Top(t)
           later == {n \in Loaded : n > o.at}
<1>1. InDispatch(t) /\ UNCHANGED <<scripts, phase, console>>
  BY Zenon DEF Advance
<1>2. o \in Dispatch /\ AtNode(o)
  BY <1>1, TopFacts, WhoDispatches DEF SerialInv
<1>3. CASE UNCHANGED calls
  BY <1>1, <1>3, NothingMoves
<1>4. CASE SetTop(t, [o EXCEPT !.pc = "done"])
  <2> DEFINE d == [o EXCEPT !.pc = "done"]
  <2>1. d \in Dispatch /\ AtNode(d)
    BY <1>2 DEF Dispatch, AtNode
  <2> HIDE DEF d
  <2> QED  BY <1>1, <1>4, <2>1, TopSerial DEF d
<1>5. ASSUME NEW n \in later,
             SetTop(t, [o EXCEPT !.pc = "call", !.at = n,
                                 !.node = scripts[n], !.seen = Append(@, n)])
      PROVE  SerialInv'
  <2> DEFINE d == [o EXCEPT !.pc = "call", !.at = n,
                            !.node = scripts[n], !.seen = Append(@, n)]
  <2>1. n \in Names /\ n # Start /\ scripts[n] \in States /\ Append(o.seen, n) \in Seq(Names)
    BY <1>2, NamesAssumption DEF SerialInv, IInv, TypeOK, Loaded, Dispatch
  <2>2. d \in Dispatch /\ d.at = n /\ d.node = scripts[n]
    BY <1>2, <2>1 DEF Dispatch
  <2> HIDE DEF d
  <2>3. AtNode(d)
    BY <2>1, <2>2 DEF AtNode
  <2> QED  BY <1>1, <1>5, <2>2, <2>3, TopSerial DEF d
<1> QED  BY <1>3, <1>4, <1>5, Zenon DEF Advance

\* A callback begins and ends at the node of its script.
LEMMA CallSerial ==
  ASSUME SerialInv, IInv', NEW t \in Threads, Call(t) \/ Finish(t)
  PROVE  SerialInv'
<1> DEFINE o == Top(t)
<1>1. InDispatch(t) /\ UNCHANGED <<scripts, phase, console>> /\ o.pc \in {"call", "running"}
  BY Zenon DEF Call, Finish
<1>2. o \in Dispatch /\ AtNode(o)
  BY <1>1, TopFacts, WhoDispatches DEF SerialInv
<1>3. CASE UNCHANGED calls
  BY <1>1, <1>3, NothingMoves
<1>4. CASE Call(t) /\ ~UNCHANGED calls
  <2>1. PICK p \in {"advance", "running"} : SetTop(t, [o EXCEPT !.pc = p])
    BY <1>4 DEF Call
  <2> DEFINE d == [o EXCEPT !.pc = p]
  <2>2. d \in Dispatch /\ AtNode(d)
    BY <1>1, <1>2, <2>1 DEF Dispatch, AtNode
  <2> HIDE DEF d
  <2> QED  BY <1>1, <2>1, <2>2, TopSerial DEF d
<1>5. ASSUME NEW r \in BOOLEAN, NEW z \in {o.length} \cup Lengths,
             SetTop(t, [o EXCEPT !.pc = "advance", !.allow = @ /\ r,
                                 !.length = IF z > @ THEN @ ELSE z])
      PROVE  SerialInv'
  <2> DEFINE d == [o EXCEPT !.pc = "advance", !.allow = @ /\ r,
                            !.length = IF z > @ THEN @ ELSE z]
  <2>1. z \in Nat /\ o.length \in Nat
    BY <1>2, LengthsAssumption DEF Dispatch
  <2>2. d \in Dispatch
    BY <1>2, <2>1 DEF Dispatch
  <2>3. d.pc = "advance" /\ d.at = o.at /\ d.node = o.node
    BY <1>2 DEF Dispatch
  <2> HIDE DEF d
  <2>4. AtNode(d)
    BY <1>1, <1>2, <2>3 DEF AtNode
  <2> QED  BY <1>1, <1>5, <2>2, <2>4, TopSerial DEF d
<1> QED  BY <1>3, <1>4, <1>5, Zenon DEF Finish

\* The dispatch around the one that ends is at its node.
LEMMA EndSerial ==
  ASSUME SerialInv, IInv', NEW t \in Threads, End(t)
  PROVE  SerialInv'
<1>1. InDispatch(t) /\ IInv /\ UNCHANGED <<scripts, phase, console>>
      /\ calls' = [calls EXCEPT ![t] = SubSeq(@, 1, Len(@) - 1)]
  BY DEF End, SerialInv
<1>2. Only(Top(t))
  BY <1>1, EndFacts
<1>3. \A u \in Threads \ {t} : calls'[u] = calls[u]
  BY <1>1 DEF IInv, TypeOK
<1> QED  BY <1>1, <1>2, <1>3, WhoDispatches, ThreadStep

\* The invariant of commands and packets that do not overlap.
LEMMA SerialInvHolds ==
  ASSUME ~Overlap
  PROVE  Spec => []SerialInv
<1>1. Init => SerialInv
  <2> SUFFICES ASSUME Init PROVE SerialInv
    OBVIOUS
  <2>1. IInv
    BY InitIInv
  <2>2. console.pc = "idle" /\ Loaded = {} /\ \A t \in Threads : calls[t] = <<>>
    BY DEF Init, Idle, Loaded
  <2>3. OneAtATime /\ AllAtNode /\ DestructedGoes
    BY <2>2 DEF OneAtATime, AllAtNode, DestructedGoes, Threads
  <2> QED  BY <2>1, <2>3 DEF SerialInv
<1>2. SerialInv /\ [Next]_vars => SerialInv'
  <2> SUFFICES ASSUME SerialInv, [Next]_vars PROVE SerialInv'
    OBVIOUS
  <2>1. IInv'
    BY NextIInv DEF SerialInv
  <2>2. CASE CommandStep
    BY <2>1, <2>2, HandleCommandsSerial, CreateSerial, LoadSerial, UnloadSerial DEF CommandStep
  <2>3. CASE \E t \in Threads : DispatchStep(t)
    BY <2>1, <2>3, BeginSerial, AdvanceSerial, CallSerial, EndSerial DEF DispatchStep
  <2>4. CASE UNCHANGED vars
    BY <2>1, <2>4, NothingMoves DEF vars
  <2> QED  BY <2>2, <2>3, <2>4 DEF Next, Faulted
<1> QED  BY <1>1, <1>2, PTL DEF Spec

\* With no packet in flight during a command, on any number of threads and whatever
\* scripts forge: a script is called after its OnUnload only by its own finalizers'
\* packets, on the console thread that is in its lua_close.
THEOREM OnlyFinalizersAfterUnload ==
  ASSUME ~Overlap
  PROVE  Spec => []AfterUnload
<1>1. SerialInv => AfterUnload
  <2> SUFFICES ASSUME SerialInv, NEW t \in Threads, NEW i \in 1..Len(calls[t]),
                      calls[t][i].pc = "running", phase[calls[t][i].node] = "destructed"
               PROVE  t = Console /\ console.pc = "closing" /\ console.state = calls[t][i].node
    BY DEF AfterUnload
  <2> DEFINE d == calls[t][i]
  <2>1. d \in Dispatch /\ d.node \in States /\ AtNode(d)
    BY SoundOne DEF SerialInv, Sound, AllAtNode
  <2>2. d.at \in Loaded /\ scripts[d.at] = d.node
    BY <2>1, StatesAssumption DEF AtNode, Loaded, Dispatch
  <2>3. console.pc \in {"close", "closing", "erase"} /\ console.name = d.at
    BY <2>2 DEF SerialInv, DestructedGoes
  <2>4. calls[t] # <<>>
    OBVIOUS
  <2>5. ConsoleInScript /\ t = Console
    BY <2>3, <2>4, NoneInDispatch DEF SerialInv, OneAtATime, Threads
  <2>6. console.state = scripts[console.name]
    BY <2>3 DEF SerialInv, IInv, CommandKnows
  <2> QED  BY <2>2, <2>3, <2>5, <2>6 DEF ConsoleInScript
<1> QED  BY <1>1, SerialInvHolds, PTL

\* The node of a dispatch is open, unless UnloadAll is in lua_close; and nobody else
\* executes it if there is one client thread.
LEMMA NodeIsSafe ==
  ASSUME SerialInv, NEW t \in Threads, InDispatch(t), Top(t).pc \in {"call", "running"}
  PROVE  /\ status[Top(t).node] = "open" \/ console.pc = "closingOne"
         /\ (\A u, v \in ClientThreads : u = v) => Executing(Top(t).node) \ {t} = {}
<1>1. AtNode(Top(t)) /\ Sound(Top(t)) /\ Top(t) \in Dispatch
      /\ (IF t = Console THEN ConsoleInScript ELSE console.pc = "idle")
  BY WhoDispatches, TopFacts DEF SerialInv
<1>2. Top(t).at \in Loaded /\ scripts[Top(t).at] = Top(t).node
  BY <1>1, StatesAssumption DEF AtNode, Loaded, Dispatch, Sound
<1>3. status[Top(t).node] = "open" \/ console.pc = "closingOne"
  BY <1>1, <1>2 DEF SerialInv, IInv, NoLeak, ConsoleInScript
<1>4. ASSUME \A u, v \in ClientThreads : u = v,
             NEW u \in Executing(Top(t).node), u # t
      PROVE  FALSE
  <2>1. CASE t = Console
    <3>1. u \in ClientThreads /\ calls[u] # <<>>
      BY <1>4, <2>1 DEF Executing, Threads
    <3>2. console.pc # "idle"
      BY <1>1, <2>1 DEF ConsoleInScript
    <3> QED  BY <3>1, <3>2 DEF SerialInv, OneAtATime
  <2>2. CASE t # Console
    <3>1. console.pc = "idle" /\ ~ConsoleInScript /\ t \in ClientThreads
      BY <1>1, <2>2 DEF ConsoleInScript, Threads
    <3>2. u \in Threads /\ calls[u] # <<>>
      BY <3>1 DEF Executing
    <3>3. u # Console
      BY <3>1, <3>2 DEF SerialInv, OneAtATime
    <3> QED  BY <1>4, <3>1, <3>2, <3>3 DEF Threads
  <2> QED  BY <2>1, <2>2
<1> QED  BY <1>3, <1>4 DEF Executing

\* With no packet in flight during a command and one client thread, no step uses an
\* erased node of the map, a map that is being changed or a state that another thread
\* executes; and a closed state is used only for a packet that a finalizer causes, in the
\* middle of UnloadAll.
THEOREM NothingDeadIsUsed ==
  ASSUME ~Overlap, \A u, v \in ClientThreads : u = v
  PROVE  Spec => []DeadUseOnlyInUnloadAll
<1> USE DEF DeadUseOnlyInUnloadAll
<1>1. Init => DeadUseOnlyInUnloadAll
  BY DEF Init
<1>2. SerialInv /\ DeadUseOnlyInUnloadAll /\ [Next]_vars => DeadUseOnlyInUnloadAll'
  <2> SUFFICES ASSUME SerialInv, DeadUseOnlyInUnloadAll, [Next]_vars
               PROVE  DeadUseOnlyInUnloadAll'
    OBVIOUS
  <2>1. CASE fault = "none" /\ CommandStep
    <3>1. CASE Unload \/ Close \/ CloseAll
      <4>1. ~ConsoleInScript /\ \A t \in Threads : calls[t] = <<>>
        BY <3>1, NoneInDispatch DEF Unload, Close, CloseAll, ConsoleInScript
      <4>2. \A s : Executing(s) = {}
        BY <4>1 DEF Executing
      <4>3. UNCHANGED fault
        BY <3>1, <4>2, Zenon DEF Unload, Close, CloseAll, GoInto
      <4> QED  BY <2>1, <4>3
    <3>2. CASE HandleCommands \/ Create \/ Register \/ Erase \/ Clear
      <4>1. UNCHANGED fault
        BY <3>2, Zenon DEF HandleCommands, Create, Register, Erase, Clear
      <4> QED  BY <2>1, <4>1
    <3>3. CASE OnLoad \/ OnUnload
      BY <2>1, <3>3 DEF OnLoad, OnUnload, Called
    <3>4. CASE DoFile \/ FailedClosed \/ Closed \/ ClosedOne
      BY <2>1, <3>4 DEF DoFile, FailedClosed, Closed, ClosedOne, LuaClose
    <3> QED  BY <2>1, <3>1, <3>2, <3>3, <3>4 DEF CommandStep
  <2>2. ASSUME fault = "none", NEW t \in Threads, DispatchStep(t)
        PROVE  DeadUseOnlyInUnloadAll'
    <3>1. CASE Begin(t) \/ End(t)
      BY <2>2, <3>1 DEF Begin, End
    <3>2. CASE Advance(t)
      <4>1. Top(t).at # Start => scripts[Top(t).at] = Top(t).node
        BY <3>2, WhoDispatches, Zenon DEF Advance, AtNode
      <4>2. ~Rebalancing
        <5>1. InDispatch(t)
          BY <3>2, Zenon DEF Advance
        <5> QED  BY <5>1, WhoDispatches DEF ConsoleInScript, Rebalancing
      <4>3. UNCHANGED fault
        BY <3>2, <4>1, <4>2, Zenon DEF Advance
      <4> QED  BY <2>2, <4>3
    <3>3. CASE Call(t)
      <4>1. Executing(Top(t).node) \ {t} = {}
        BY <3>3, NodeIsSafe DEF Call
      <4>2. status[Top(t).node] = "closed" => console.pc = "closingOne"
        BY <3>3, NodeIsSafe DEF Call
      <4> QED  BY <2>2, <3>3, <4>1, <4>2 DEF Call
    <3>4. CASE Finish(t)
      <4>1. fault' \in {"nullError", "uncaught", fault}
        BY <3>4, Zenon DEF Finish
      <4> QED  BY <2>2, <4>1
    <3> QED  BY <2>2, <3>1, <3>2, <3>3, <3>4 DEF DispatchStep
  <2>3. CASE UNCHANGED vars
    BY <2>3 DEF vars
  <2> QED  BY <2>1, <2>2, <2>3 DEF Next, Faulted
<1> QED  BY <1>1, <1>2, SerialInvHolds, PTL DEF Spec
=============================================================================
