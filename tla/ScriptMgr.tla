----------------------------- MODULE ScriptMgr -----------------------------
(***************************************************************************)
(* The script manager of src/src/ScriptMgr.cpp, driven by the commands of  *)
(* src/src/Console.cpp.                                                    *)
(*                                                                         *)
(* The console thread loads and unloads scripts, each a Lua state in the   *)
(* map Scripts.  The hooks call OnSend and OnProcessMessage on the client's *)
(* threads: both walk over Scripts and ask each script in turn.  No mutex  *)
(* protects the map or the states.  A script that forges packets may cause *)
(* a packet to be dispatched from within its own callback, on its thread;  *)
(* so may a finalizer that lua_close runs.                                 *)
(***************************************************************************)
EXTENDS Integers, Sequences, FiniteSets

CONSTANTS
  Names,          \* names of scripts, in the order of std::map
  States,         \* Lua states; bound: how many there can be at a time
  ClientThreads,  \* threads on which the client sends and processes packets
  Console,        \* the thread of HandleCommands
  NoState,        \* no Lua state
  Overlap,        \* packets are dispatched while a command is executed
  Lengths,        \* lengths of packets
  MaxDepth        \* bound: dispatches of a thread inside one another

Threads == ClientThreads \cup {Console}

\* The position of an iterator before its first increment.
Start == 0

ASSUME NamesAssumption == Names \subseteq Nat \ {Start}
ASSUME StatesAssumption == NoState \notin States
ASSUME ThreadsAssumption == Console \notin ClientThreads
\* No packet is empty: it starts with its opcode, and a script cannot empty it.
ASSUME LengthsAssumption == Lengths \subseteq Nat \ {0}
ASSUME BoundsAssumption == Overlap \in BOOLEAN /\ MaxDepth \in Nat

VARIABLES
  scripts,  \* Scripts: the state registered for a name, or NoState
  status,   \* of each state: "none", "open" or "closed"
  phase,    \* of each state: what has been called of its OnLoad and OnUnload
  console,  \* the command being executed
  calls,    \* the dispatches each thread is in
  fault     \* what has ended the process, or left it undefined; or "none"

vars == <<scripts, status, phase, console, calls, fault>>

-----------------------------------------------------------------------------
Phases == {"new", "constructed", "destructed"}

\* "closed"     a state is used after lua_close
\* "raced"      two threads use one state
\* "erased"     an iterator is used whose node is gone
\* "torn"       a loop meets the map while a node goes in or out
\* "nullError"  a string is made of the null pointer of an error value that is none
\* "uncaught"   an exception that nothing catches ends the process where it is thrown
Faults == {"none", "closed", "raced", "erased", "torn", "nullError", "uncaught"}

\* Points of a command: "script" and "onload" run the body and the OnLoad of a new
\* script, "onunload" the OnUnload of one that goes; "failed", "closing" and
\* "closingOne" are in lua_close, which runs finalizers of the script.
ConsolePoints == {"idle", "create", "script", "failed", "onload", "register",
                  "unload", "onunload", "close", "closing", "erase",
                  "closeAll", "closingOne", "clear"}
Command == [pc : ConsolePoints, name : Names \cup {Start},
            state : States \cup {NoState}, reload : BOOLEAN]
Idle == [pc |-> "idle", name |-> Start, state |-> NoState, reload |-> FALSE]

\* A dispatch: the node the iterator is at, the packet, the answers so far.
\*   alloc    the length with which the client allocated the packet
\*   seen     the names the iterator has been at, in order
\*   held     the scripts that have been registered ever since it began
Dispatch == [pc : {"advance", "call", "running", "done"},
             at : Names \cup {Start}, node : States \cup {NoState},
             alloc : Nat, length : Nat, allow : BOOLEAN,
             seen : Seq(Names), held : SUBSET Names]

Loaded == {n \in Names : scripts[n] # NoState}

InDispatch(t) == calls[t] # <<>>
Top(t) == calls[t][Len(calls[t])]
SetTop(t, d) == calls' = [calls EXCEPT ![t][Len(calls[t])] = d]

\* Load has a state that it has not registered yet.
Loading == console.pc \in {"script", "failed", "onload", "register"}

\* The console thread executes code of the script of its command.
ConsoleInScript ==
  console.pc \in {"script", "failed", "onload", "onunload", "closing", "closingOne"}

\* The console thread puts a node into Scripts, or takes nodes out, and meanwhile the
\* tree is not in order for anybody else.
Rebalancing == console.pc \in {"register", "erase", "clear"}

\* The threads that execute the Lua state s.
Executing(s) ==
  {t \in Threads : \E i \in 1..Len(calls[t]) : calls[t][i].pc = "running" /\ calls[t][i].node = s}
    \cup (IF ConsoleInScript /\ console.state = s THEN {Console} ELSE {})

Init ==
  /\ scripts = [n \in Names |-> NoState]
  /\ status = [s \in States |-> "none"]
  /\ phase = [s \in States |-> "new"]
  /\ console = Idle
  /\ calls = [t \in Threads |-> <<>>]
  /\ fault = "none"

-----------------------------------------------------------------------------
(* Commands.                                                               *)

GoOn(p) == console' = [console EXCEPT !.pc = p]

\* HandleCommands: a line with a command that changes something.  Load unloads the
\* script first if it is loaded; Unload and UnloadAll of nothing only print.
HandleCommands ==
  /\ console.pc = "idle"
  /\ Overlap \/ \A t \in Threads : ~InDispatch(t)
  /\ \/ \E n \in Names : console' =
          [pc |-> IF n \in Loaded THEN "unload" ELSE "create", name |-> n,
           state |-> scripts[n], reload |-> TRUE]
     \/ \E n \in Loaded : console' =
          [pc |-> "unload", name |-> n, state |-> scripts[n], reload |-> FALSE]
     \/ Loaded # {} /\ console' = [Idle EXCEPT !.pc = "closeAll"]
  /\ UNCHANGED <<scripts, status, phase, calls, fault>>

\* Somebody still has a pointer to s.
Referred(s) ==
  \/ \E n \in Names : scripts[n] = s
  \/ \E t \in Threads : \E i \in 1..Len(calls[t]) : calls[t][i].node = s

\* Mutant of Create: the state is registered before OnLoad has run.
CreateRegisters ==
  /\ console.pc = "create"
  /\ \E s \in States :
       /\ status[s] # "open" /\ ~Referred(s)
       /\ status' = [status EXCEPT ![s] = "open"]
       /\ phase' = [phase EXCEPT ![s] = "new"]
       /\ scripts' = [scripts EXCEPT ![console.name] = s]
       /\ console' = [console EXCEPT !.pc = "script", !.state = s]
  /\ UNCHANGED <<calls, fault>>

\* Load: a new state, with the bridged classes and the opcodes.
Create ==
  /\ console.pc = "create"
  /\ \E s \in States :
       /\ status[s] # "open" /\ ~Referred(s)
       /\ status' = [status EXCEPT ![s] = "open"]
       /\ phase' = [phase EXCEPT ![s] = "new"]
       /\ console' = [console EXCEPT !.pc = "script", !.state = s]
  /\ UNCHANGED <<scripts, calls, fault>>

\* Mutant of DoFile: the state of a script that cannot be loaded is not closed.
DoFileLeaks ==
  /\ console.pc = "script" /\ ~InDispatch(Console)
  /\ console' = Idle \/ GoOn("onload")
  /\ UNCHANGED <<scripts, status, phase, calls, fault>>

\* Load: luaL_dofile fails and lua_close begins, or defines the callbacks.  No handler
\* is around it: the ByteBufferException of a packet that the body reads too far ends
\* the process, as any other exception does.
DoFile ==
  /\ console.pc = "script" /\ ~InDispatch(Console)
  /\ \/ GoOn("failed") /\ UNCHANGED fault
     \/ GoOn("onload") /\ UNCHANGED fault
     \/ fault' = "uncaught" /\ UNCHANGED console
  /\ UNCHANGED <<scripts, status, phase, calls>>

\* lua_close has run the script's finalizers and frees the state.  No handler is around
\* it either; an error in a finalizer is dropped.
LuaClose(pc, after) ==
  /\ console.pc = pc /\ ~InDispatch(Console)
  /\ \/ /\ status' = [status EXCEPT ![console.state] = "closed"]
        /\ console' = after
        /\ UNCHANGED fault
     \/ fault' = "uncaught" /\ UNCHANGED <<status, console>>
  /\ UNCHANGED <<scripts, phase, calls>>

\* Load: the end of the lua_close of a script that cannot be loaded.
FailedClosed == LuaClose("failed", Idle)

\* A callback of the command returns, fails with a message or with a
\* ByteBufferException, or the script has none; or it fails with a value of which
\* lua_tostring makes a null pointer, or with an exception of the standard library.
Called(pc, next, newPhase) ==
  /\ console.pc = pc /\ ~InDispatch(Console)
  /\ \/ GoOn(next) /\ phase' = [phase EXCEPT ![console.state] = newPhase] /\ UNCHANGED fault
     \/ fault' \in {"nullError", "uncaught"} /\ UNCHANGED <<console, phase>>
  /\ UNCHANGED <<scripts, status, calls>>

OnLoad == Called("onload", "register", "constructed")

\* Load: Scripts[scriptName] = state.
Register ==
  /\ console.pc = "register"
  /\ scripts' = [scripts EXCEPT ![console.name] = console.state]
  /\ console' = Idle
  /\ UNCHANGED <<status, phase, calls, fault>>

\* The console thread goes into the state s of a registered script, at p.
GoInto(s, p) ==
  IF Executing(s) = {}
  THEN console' = [console EXCEPT !.pc = p, !.state = s] /\ UNCHANGED fault
  ELSE fault' = "raced" /\ UNCHANGED console

\* Unload: looks OnUnload up and calls it.
Unload ==
  /\ console.pc = "unload"
  /\ GoInto(console.state, "onunload")
  /\ UNCHANGED <<scripts, status, phase, calls>>

\* Mutant of OnUnload: Unload gives up when OnUnload fails.
OnUnloadAborts ==
  \/ Called("onunload", "close", "destructed")
  \/ /\ console.pc = "onunload" /\ ~InDispatch(Console)
     /\ console' = Idle
     /\ phase' = [phase EXCEPT ![console.state] = "destructed"]
     /\ UNCHANGED <<scripts, status, calls, fault>>

OnUnload == Called("onunload", "close", "destructed")

\* Unload: lua_close begins.
Close ==
  /\ console.pc = "close"
  /\ GoInto(console.state, "closing")
  /\ UNCHANGED <<scripts, status, phase, calls>>

\* Unload: lua_close ends.
Closed == LuaClose("closing", [console EXCEPT !.pc = "erase"])

Without(d, gone) == [d EXCEPT !.held = @ \ gone]
Unhold(gone) ==
  calls' = [t \in Threads |-> [i \in 1..Len(calls[t]) |-> Without(calls[t][i], gone)]]

\* Mutant of Erase: the closed state stays in the map.
EraseForgotten ==
  /\ console.pc = "erase"
  /\ console' = IF console.reload
                THEN [console EXCEPT !.pc = "create", !.state = NoState]
                ELSE Idle
  /\ UNCHANGED <<scripts, status, phase, calls, fault>>

\* Mutant of Erase: Unload starts over.
EraseRepeats ==
  /\ console.pc = "erase"
  /\ GoOn("unload")
  /\ UNCHANGED <<scripts, status, phase, calls, fault>>

\* Unload: Scripts.erase(itr), and Load goes on if it has called Unload.
Erase ==
  /\ console.pc = "erase"
  /\ scripts' = [scripts EXCEPT ![console.name] = NoState]
  /\ console' = IF console.reload
                THEN [console EXCEPT !.pc = "create", !.state = NoState]
                ELSE Idle
  /\ Unhold({console.name})
  /\ UNCHANGED <<status, phase, fault>>

\* UnloadAll: closes the states one by one, in the order of the map.
CloseAll ==
  /\ console.pc = "closeAll"
  /\ LET open == {n \in Loaded : status[scripts[n]] = "open"}
     IN  IF open = {}
         THEN GoOn("clear") /\ UNCHANGED fault
         ELSE \E n \in open : (\A m \in open : n <= m) /\ GoInto(scripts[n], "closingOne")
  /\ UNCHANGED <<scripts, status, phase, calls>>

\* UnloadAll: the end of one lua_close.
ClosedOne == LuaClose("closingOne", [console EXCEPT !.pc = "closeAll"])

\* UnloadAll: Scripts.clear().
Clear ==
  /\ console.pc = "clear"
  /\ scripts' = [n \in Names |-> NoState]
  /\ console' = Idle
  /\ Unhold(Loaded)
  /\ UNCHANGED <<status, phase, fault>>

-----------------------------------------------------------------------------
(* OnSend and OnProcessMessage.                                            *)

\* The hook hands over a packet: of the client, or, from within a script's callback or
\* finalizer, one that the client sends while it processes a forged packet.
Begin(t) ==
  /\ Len(calls[t]) < MaxDepth
  /\ IF InDispatch(t) THEN Top(t).pc = "running"
     ELSE IF t = Console THEN ConsoleInScript
     ELSE Overlap \/ console.pc = "idle"
  /\ \E len \in Lengths :
       calls' = [calls EXCEPT ![t] = Append(@,
         [pc |-> "advance", at |-> Start, node |-> NoState, alloc |-> len, length |-> len,
          allow |-> TRUE, seen |-> <<>>, held |-> Loaded])]
  /\ UNCHANGED <<scripts, status, phase, console, fault>>

\* Mutant of Advance: the iterator is not incremented.
AdvanceStays(t) ==
  /\ InDispatch(t) /\ Top(t).pc = "advance"
  /\ \/ Loaded = {} /\ SetTop(t, [Top(t) EXCEPT !.pc = "done"])
     \/ \E n \in Loaded :
          /\ n >= Top(t).at
          /\ SetTop(t, [Top(t) EXCEPT !.pc = "call", !.at = n,
                                 !.node = scripts[n], !.seen = Append(@, n)])
  /\ UNCHANGED <<scripts, status, phase, console, fault>>

\* The iterator goes on to the next name; its node must still be in the map, and the
\* map in order.
Advance(t) ==
  /\ InDispatch(t) /\ Top(t).pc = "advance"
  /\ LET later == {n \in Loaded : n > Top(t).at}
     IN  IF Top(t).at # Start /\ scripts[Top(t).at] # Top(t).node
         THEN fault' = "erased" /\ UNCHANGED calls
         ELSE \/ Rebalancing /\ fault' = "torn" /\ UNCHANGED calls
              \/ /\ IF later = {}
                    THEN SetTop(t, [Top(t) EXCEPT !.pc = "done"])
                    ELSE \E n \in later :
                           /\ \A m \in later : n <= m
                           /\ SetTop(t, [Top(t) EXCEPT !.pc = "call", !.at = n,
                                                  !.node = scripts[n], !.seen = Append(@, n)])
                 /\ UNCHANGED fault
  /\ UNCHANGED <<scripts, status, phase, console>>

\* lua_getglobal: the script has no such callback, or a packet object is made for it
\* (which may collect garbage and so run finalizers) and the callback is called.
Call(t) ==
  /\ InDispatch(t) /\ Top(t).pc = "call"
  /\ IF status[Top(t).node] = "closed" THEN fault' = "closed" /\ UNCHANGED calls
     ELSE IF Executing(Top(t).node) \ {t} # {} THEN fault' = "raced" /\ UNCHANGED calls
     ELSE /\ \/ SetTop(t, [Top(t) EXCEPT !.pc = "advance"])
             \/ SetTop(t, [Top(t) EXCEPT !.pc = "running"])
          /\ UNCHANGED fault
  /\ UNCHANGED <<scripts, status, phase, console>>

\* What Finish does with the answer: next, and the new verdict and length.
Answer(t, pc, allow, length) ==
  /\ InDispatch(t) /\ Top(t).pc = "running"
  /\ SetTop(t, [Top(t) EXCEPT !.pc = pc, !.allow = allow, !.length = length])
  /\ UNCHANGED <<scripts, status, phase, console, fault>>

\* Mutant of Finish: the length is reduced by the size of the changed packet.
FinishSubtracts(t) ==
  \E size \in Lengths : Answer(t, "advance", Top(t).allow, Top(t).length - size)

\* Mutant of Finish: the first script that refuses the packet ends the loop.
FinishStops(t) ==
  \E result \in BOOLEAN :
    Answer(t, IF result THEN "advance" ELSE "done", Top(t).allow /\ result, Top(t).length)

\* Mutant of Finish: the size of the changed packet is not compared.
FinishUnchecked(t) ==
  \E size \in Lengths : Answer(t, "advance", Top(t).allow, size)

\* Mutant of Finish: the script is asked again.
FinishAgain(t) == Answer(t, "call", Top(t).allow, Top(t).length)

\* The callback is over.  false refuses the packet; true, an error (its message is
\* left as the result) and a ByteBufferException allow it.  The changes of the script
\* are applied, unless they do not fit into what is left of the packet.
Finish(t) ==
  /\ InDispatch(t) /\ Top(t).pc = "running"
  /\ \/ fault' \in {"nullError", "uncaught"} /\ UNCHANGED calls
     \/ /\ \E result \in BOOLEAN, size \in {Top(t).length} \cup Lengths :
             SetTop(t, [Top(t) EXCEPT
               !.pc = "advance",
               !.allow = @ /\ result,
               !.length = IF size > @ THEN @ ELSE size])
        /\ UNCHANGED fault
  /\ UNCHANGED <<scripts, status, phase, console>>

\* return allowPacket.
End(t) ==
  /\ InDispatch(t) /\ Top(t).pc = "done"
  /\ calls' = [calls EXCEPT ![t] = SubSeq(@, 1, Len(@) - 1)]
  /\ UNCHANGED <<scripts, status, phase, console, fault>>

-----------------------------------------------------------------------------
CommandStep ==
  \/ HandleCommands \/ Create \/ DoFile \/ FailedClosed \/ OnLoad \/ Register
  \/ Unload \/ OnUnload \/ Close \/ Closed \/ Erase \/ CloseAll \/ ClosedOne \/ Clear

DispatchStep(t) == Begin(t) \/ Advance(t) \/ Call(t) \/ Finish(t) \/ End(t)

\* After a fault nothing is known of the process.
Faulted == fault # "none" /\ UNCHANGED vars

Next ==
  \/ fault = "none" /\ CommandStep
  \/ fault = "none" /\ \E t \in Threads : DispatchStep(t)
  \/ Faulted

Spec == Init /\ [][Next]_vars

\* Code of the framework runs on; the body, OnLoad, OnUnload and the finalizers of a
\* script return.
CommandGoesOn ==
  fault = "none" /\ (Create \/ Register \/ Unload \/ Close \/ Erase \/ CloseAll \/ Clear)
ScriptReturns ==
  fault = "none" /\ (DoFile \/ FailedClosed \/ OnLoad \/ OnUnload \/ Closed \/ ClosedOne)
DispatchGoesOn(t) == fault = "none" /\ (Advance(t) \/ Call(t) \/ End(t))

\* The callback of the d-th dispatch of t returns.
CallbackReturns(t, d) == fault = "none" /\ Len(calls[t]) = d /\ Finish(t)

\* Threads run.  A script's code returns, whatever packets it forges before.
Fairness ==
  /\ WF_vars(CommandGoesOn)
  /\ SF_vars(ScriptReturns)
  /\ \A t \in Threads :
       /\ WF_vars(DispatchGoesOn(t))
       /\ \A d \in 1..MaxDepth : SF_vars(CallbackReturns(t, d))

FairSpec == Spec /\ Fairness

-----------------------------------------------------------------------------
(* Properties.                                                             *)

TypeOK ==
  /\ scripts \in [Names -> States \cup {NoState}]
  /\ status \in [States -> {"none", "open", "closed"}]
  /\ phase \in [States -> Phases]
  /\ console \in Command
  /\ calls \in [Threads -> Seq(Dispatch)]
  /\ fault \in Faults

\* Every open Lua state belongs to somebody who will close it: it is registered under
\* one name, or the Load that created it still has it.  Failed loads, reloads and
\* commands in any order leak none and close none twice.  That an exception leaves
\* luaL_dofile or lua_close is no way around it: nothing catches it, so that the process
\* ends there, with the state still the command's.
NoLeak ==
  /\ \A s \in States : status[s] = "open" =>
       \/ \E n \in Names : scripts[n] = s
       \/ Loading /\ console.state = s
  /\ \A n \in Loaded :
       \/ status[scripts[n]] = "open"
       \/ console.pc \in {"closeAll", "closingOne", "clear"}
       \/ console.pc = "erase" /\ console.name = n
  /\ \A m, n \in Loaded : scripts[m] = scripts[n] => m = n
  /\ Loading => status[console.state] = "open" /\ \A n \in Names : scripts[n] # console.state

\* No callback of a script runs before its OnLoad has returned, though packets are
\* dispatched while it is loaded.
ConstructedFirst ==
  \A t \in Threads : \A i \in 1..Len(calls[t]) :
    calls[t][i].pc = "running" => phase[calls[t][i].node] # "new"

\* Scripts are asked in the order of their names and none is asked twice about a
\* packet, whatever is loaded and unloaded meanwhile; except that a loop which goes on
\* in the very moment of an insertion or removal may do anything (the fault "torn").
InOrder ==
  \A t \in Threads : \A i \in 1..Len(calls[t]) :
    LET seen == calls[t][i].seen
    IN  \A j, k \in 1..Len(seen) : j < k => seen[j] < seen[k]

\* A script registered from the beginning to the end of a dispatch is asked, with the
\* same exception.
NoneMissed ==
  \A t \in Threads : \A i \in 1..Len(calls[t]) :
    LET d == calls[t][i]
    IN  d.pc = "done" => d.held \subseteq {d.seen[j] : j \in 1..Len(d.seen)}

\* However many scripts shorten the packet in turn, none makes it longer than the
\* buffer the client allocated.
LengthFits ==
  \A t \in Threads : \A i \in 1..Len(calls[t]) : calls[t][i].length <= calls[t][i].alloc

\* With no packet in flight during a command, no erased node and no state of another
\* thread is ever used; and a closed state only in one way: a finalizer that UnloadAll
\* runs causes a packet, which is dispatched to the scripts it has closed before.
DeadUseOnlyInUnloadAll ==
  \/ fault \in {"none", "nullError", "uncaught"}
  \/ fault = "closed" /\ console.pc = "closingOne"

\* With no packet in flight during a command, a script is only called after its OnUnload
\* while lua_close runs its finalizers, for packets that they have caused.
AfterUnload ==
  \A t \in Threads : \A i \in 1..Len(calls[t]) :
    LET d == calls[t][i]
    IN  d.pc = "running" /\ phase[d.node] = "destructed" =>
          t = Console /\ console.pc = "closing" /\ console.state = d.node

\* README.md, of OnUnload: "This method can be considered as a destructor": no
\* callback of a script is called after it.
DestructedLast ==
  \A t \in Threads : \A i \in 1..Len(calls[t]) :
    calls[t][i].pc = "running" => phase[calls[t][i].node] # "destructed"

\* Every command ends, and every packet gets its verdict, unless the process ends before.
CommandEnds == console.pc # "idle" ~> console.pc = "idle" \/ fault # "none"
DispatchEnds == \A t \in Threads : InDispatch(t) ~> ~InDispatch(t) \/ fault # "none"
=============================================================================
