# Verification of PacketFramework

PacketFramework is a DLL that is injected into a game client. It overwrites the first
bytes of two functions of the client with jumps, shows every packet the client sends or
receives to the loaded Lua scripts, and lets them change the packet, discard it, or make
packets of their own. The interpreter the scripts run in is part of the repository and of
the DLL. This directory holds TLA+ models of the framework and of the parts of the
interpreter that have algorithms or invariants of their own, the TLC runs that check them
on small instances, and proofs that hold for every instance.

Paths such as `Hooks.cpp` are relative to `src/src/`, where the program's own code is, and
`lgc.c` to `src/dep/lua-5.3.0/`; `README.md:43` is a line of the repository's README.
PROJECT.json lists the components, runs, mutants, findings, hazards and theorems, and maps
every definition to its lines.

## 1. Inventory

| Component | Source | State it keeps | Operations | Model |
|---|---|---|---|---|
| Hooks | `Hooks.*`, `Offset.*` | first bytes of two functions, two recursive mutexes, `Offset::NetClient`, `Offset::CDataStore_VTable` | `Initialize`, `Lock`, `Unlock`, `Intercept`, `HookFunction` | `Hooks`, `Interception` |
| Script manager | `ScriptMgr.*` | `Scripts`, a map from name to `lua_State*` | `Load`, `Unload`, `UnloadAll`, `IsLoaded`, `OnSend`, `OnProcessMessage`, `AddOpcodes` | `ScriptMgr` |
| Console | `Console.*`, `Utils.*`, `Main.cpp` | none | `HandleCommands`, `Split`, `main`, `DllMain` | in `ScriptMgr`, `Hooks` |
| Packet buffer | `ByteBuffer.*` | storage, read and write position, bit position, byte in progress | append, put, read, bits, flush, reset | `ByteBuffer` |
| Packet class | `LuaPacket.*`, `CDataStore.h` | a packet buffer, `changed_` | some 45 methods called from Lua | `Packet`, `Hooks` |
| Lua binding | `Luna.h` | userdata and closures in a Lua state | `Register`, `constructor`, `push`, `function_dispatch`, `gc_obj` | `Stack`, `MCCore` |
| Memory editor | `MemoryEditor.*` | none | single loads and stores in the client's memory | none |
| Opcode table | `Opcodes.h` | constant | none | none |
| Lua calls and coroutines | `ldo.c`, `lstate.c`, `lcorolib.c` | calls of every thread, counts, chained handlers | `luaD_call`, `luaD_pcall`, `luaD_throw`, resume, yield | `LuaCall` |
| Garbage collector | `lgc.c`, `lstring.c` | colours, gray lists, lists of objects, phase | a step of each phase, barriers, a full collection | `Collector`, `MCCollector` |
| Compiler and virtual machine | `lparser.c`, `lcode.c`, `lvm.c`, `lfunc.c` | functions being compiled; stack, frames, upvalues | every production; every group of instructions | `Compiler`, `Parser`, `Interpreter`, `Meaning` |
| Lua tables | `ltable.c` | array part, hash part with its chains | get, set, insert, rehash, next, length | `Table`, `Library` |
| Lua libraries | `lstrlib.c`, `ltablib.c`, `lutf8lib.c`, `lbitlib.c`, `lmathlib.c` | none | the functions scripts call | `TableLibrary`, `Patterns`, `Packing`, `Strings`, `Numbers` |
| Lexer | `llex.c`, `lobject.c` | position, line | one token | `Lexer` |
| Core services | `lapi.c`, `lauxlib.c`, `lundump.c`, `ldump.c`, `ldebug.c`, `lmem.c`, ... | the C API's stack, string table, stack size | stack operations, precompiled chunks, names in messages | `Chunk`, `Names`, `Stack`, `Text`, `Pools` |
| Rest of Lua | `lua.c`, `luac.c`, `loslib.c`, ... | none of interest | wrappers of the C library | none |
| Build files | `CMakeLists.txt` | none | none | none |

How they interact:

- A thread of the client that calls a hooked function enters `HookFunction`, which calls
  the script manager's `OnSend` or `OnProcessMessage` with a pointer to the client's
  packet. That asks every script in turn, through `lua_pcall`, each with a `LuaPacket`
  copy, and copies changes back. `HookFunction` then takes the hook's mutex, writes the
  original bytes back, calls the client's function and writes the jump again.
- A script calls the methods `Send` and `Process` of a packet, which do the same from within its
  callback, and so may cause the client to send or process further packets.
- The console thread installs the hooks, then executes commands: it loads and unloads
  scripts, which run their body, `OnLoad`, `OnUnload` and finalizers on that thread.
- Between the console thread and the client's threads nothing but the hooks' mutexes is
  synchronised, and these are not held while scripts run.
- Every script runs in a Lua state of its own: the compiler turns its file into code that
  the virtual machine executes, which enters the C functions of the libraries and of the
  binding; the collector works between the instructions and calls the binding's finalizers.
- An error in a script is a jump to the nearest `lua_pcall`. A `ByteBufferException` of a
  packet method instead unwinds the C++ stack up to the script manager, through an
  interpreter compiled as C, which does not notice.

What is hard: code patched under the feet of other threads; calls nested through the
client; one mutex per hook and two hooks; a map iterated while it is changed; Lua states
closed while they are called; exceptions and errors half way through an operation; a
buffer whose bit reader and bit writer share their state; in the interpreter, two records
of the same calls that an error has to unwind alike, a collector whose every step the
script interrupts, code emitted in one pass and patched later, chains threaded through an
array that is rebuilt.

What makes each component correct:

- *Hooks*: the framework runs the client's bytes, never its own jump or a mixture; the
  mutexes are released on every path; a hook that is off comes back; a packet escapes the
  scripts only while its hook is off; no deadlock; and in sum, every packet is offered and
  then delivered once or discarded.
- *Script manager*: every Lua state is closed exactly once; a script is constructed before
  and destructed after all its callbacks; a dispatch asks each script once, in order, and
  misses none; the packet never outgrows the client's buffer.
- *Packet*: what is written is read back; writes and reads stay where they should; a
  changed packet is marked; the packet is never empty.
- *Lua binding*: a method is called on an object of its class; the stack is left as found.
- *Lua calls*: the count of C calls matches the calls in progress; a thread may yield
  exactly when no call of C would be lost; an error ends in the innermost protected call.
- *Collector*: no object in reach is freed; garbage goes; a finalizer is called once; weak
  tables lose exactly the entries whose objects are lost.
- *Compiler and virtual machine*: a script does what its text means; closures share their
  variables; code stays inside its registers.
- *Tables and libraries*: a table is a map; a traversal sees each entry once; each function
  returns what its reference says.

## 2. Plan

| Status | Module | Content |
|---|---|---|
| done | `Hooks`, `MCHooks`, `HooksProofs` | the hooks, their safety and liveness; proofs of all the safety |
| done | `Interception` | the abstract promise of a hook; `Hooks` implements it, checked and proved |
| done | `ScriptMgr`, `MCScriptMgr`, `ScriptMgrProofs` | commands and dispatches and their interleavings; proofs of the safety, with overlap and without |
| done | `ByteBuffer`, `Packet`, `MCPacket`, `PacketProofs` | the packets of the scripts; proofs of the safety, the round trip included |
| done | `LuaCall`, `LuaCallProofs` | protected calls, coroutines, and the exception that passes through them; proofs of the safety |
| done | `Collector`, `MCCollector`, `CollectorLemmas`, `CollectorProofs` | the incremental collector; proofs of its safety |
| done | `Recursion` | what the proofs need of recursive functions |
| done | `Compiler`, `Parser`, `Interpreter`, `Meaning`, `MCInterpreter` | scripts from their text to their effects |
| done | `Table`, `TableProofs` | tables; proofs of all that the run checks of them |
| done | `TableLibrary`, `Patterns`, `Packing`, `Strings`, `Numbers`, `Lexer`, `Library`, `LibraryReference`, `MCLibrary` | the algorithms of the libraries |
| done | `Chunk`, `Names`, `Stack`, `Text`, `Pools`, `CoreReference`, `MCCore` | the core's services and the binding |
| open | `Framework` | `Hooks` composed with `ScriptMgr`: the "scripts" point of a frame is a dispatch |
| open | `Binding` | lifetime of a packet object against the pointers of `Luna.h` and `ScriptMgr.cpp:198`, over `Collector` |

The order follows the importance of the behaviour: the hooks decide whether the client
survives, the script manager whether scripts see their packets, the packets what they see,
the interpreter whether a script does what it says.

## 3. Hooks

| Model | Code |
|---|---|
| `code[h]`: "orig", "hook" or "torn" | the first six bytes of the function, `memcpy` in `Intercept` |
| `owner[h]`, `depth[h]` | `HookMutex`, a `std::recursive_mutex` |
| `stack[t]`: frames with a kind and a point | the calls a thread is in |
| `netClient`, `vtable` | `Offset::NetClient`, `Offset::CDataStore_VTable` |
| `Initialize`, `Lock`, `InterceptFalse`, `CallOriginal`, `Return`, `InterceptTrue`, `Unlock` | the functions of these names; an interception is two steps, the beginning and the end of its `memcpy` |
| `Enter` (external) | the end of the first six bytes of the client's function: until then the thread stands "entering", among the instructions that they are |
| `Execute`, `Verdict` | `HookFunction`, up to the script manager's answer and after it |
| `Forge` | `LuaPacket::Send`, `LuaPacket::Process` |
| `ClientCall` (external) | the client calls a hooked function: from a thread of its own, or from inside a hooked function on whatever thread runs it, the console included |

A thread that executes a "torn" function sets `crashed`, and so does one that was stopped
among the first six bytes and goes on after they have changed (the jump itself is one
instruction, the client's own bytes are several). The model stops there. What
the scripts answer and what the client does are free choices. `Calls` says which function
of the client may call which: handlers of incoming packets send packets and process the
packets contained in one; sending calls neither. `Intercept` also changes the protection
of the page, which is the system's state and is left out.

`Interception` is what a reader of `README.md` expects of the hooks, with no bytes, mutexes
or frames. A packet of the client is offered to the scripts and discarded or accepted; when
its turn comes it enters the client's function, past its first bytes, and is delivered; a hook handles one packet
of one thread at a time, nested packets of the same thread aside. Packets pass by a hook
before it is guarded, or while another packet has its turn. `Promise` of `Hooks` instantiates it:
`inflight` is the stack of packets of a thread with the stage that each frame's point
stands for, `guarded` is the set of installed hooks, `halted` the crash. `KeepsPromise` says
that every step of the hooks is a step of the promise or changes nothing in it.

Runs:

- `Hooks_safety`: two client threads (symmetric) and the console thread, which may forge
  packets from `OnLoad`; stacks of two frames, which is where a nested call first meets an
  outer one. `IInv` is the inductive invariant of section 10.
  `MutexMatchesFrames`, `OriginalIsReached` and `ArmedWhenFree` are the discipline of the
  hooks. `EscapeOnlyInWindow` and `MixedOnlyUnlocked` say how far the two known weaknesses of
  this kind of hook reach: packets escape only while another call has the mutex, and a
  mixture of bytes is executed only without the mutex: while another thread writes it, or by
  a call that went past the hook and was among the bytes when they were written. A call
  that a script makes or accepts never meets one.
  `KeepsPromise` is the refinement.
- `Hooks_liveness`: one client thread and the console thread, three frames each, `FairSpec`:
  `NoWaitCycle` (two threads do not wait for each other's mutex), `EveryCallEnds` and
  `HookComesBack`. Each of the two threads holds one mutex and asks for the other: the
  client's calls nested in a packet that the console forged are calls like any other. These
  bounds are enough for a deadlock: with `OppositeCalls` of `MCHooks` TLC finds one in this
  configuration, and with two frames it does not.

`NoWaitCycle` depends on what the client's functions call. If sending could process a
packet, `Calls` would hold `<<"Send", "Process">>` (`OppositeCalls`), and with three frames two
threads would deadlock: one is inside `Process`, calls `Send`, whose scripts forge a packet through
`Process`; the forged call's unlock puts the hook back although the outer call is not over;
now another thread that is inside `Send` can enter `Process` by the hook and wait for its
mutex, and the first one goes on to wait for that of `Send`. Without the forged packet
there is no such cycle, since a thread that holds a mutex has its hook off and nobody
comes to the lock through it.

Two observations are not runs. A packet of a second thread passes while the first has the
hook off, though `README.md:43` says that `OnSend` is called before the client sends a
packet: that is what `EscapeOnlyInWindow` and `PassBy` of the promise allow. And a forged
packet carries the virtual table's offset from the base address, which `Hooks.cpp:71` stores, where
the constructor of `CDataStore` (`CDataStore.h:33`) means its address.

Fairness: the straight-line code of the framework and of the client's first bytes runs on (weak
fairness per thread). A
script's callback returns and the client's function returns, though each may make any
bounded number of calls before (strong fairness: the step is disabled during a nested
call). A thread that waits for a mutex gets it if it is free again and again (strong
fairness: Windows wakes waiters, and an owner always releases).

## 4. Script manager

| Model | Code |
|---|---|
| `scripts` | `Scripts`; `NoState` is an absent name |
| `status[s]`, `phase[s]` | a `lua_State`: open or closed; whether `OnLoad` and `OnUnload` have been called |
| `console` | the command the console thread executes and its place in `Load`, `Unload` or `UnloadAll` |
| `calls[t]` | the loops of `OnSend` and `OnProcessMessage` a thread is in, with the iterator, the packet's length, the verdict |
| `fault` | what has ended the process or left its behaviour undefined; the model stops there |

The faults are: a closed state is used (`closed`), two threads use one state (`raced`), an
iterator is used whose node is gone (`erased`), an iterator is incremented while another
thread inserts or removes nodes, so that it may skip or repeat any script (`torn`), a
`std::string` is made of the null pointer that `lua_tostring` returns for an error value that
is no string (`nullError`), and an exception that no handler in `src/` catches (`uncaught`):
any exception out of `luaL_dofile` or `lua_close`, and one that is no `ByteBufferException`
out of a callback. `uncaught` assumes that the client, through whose frames the exception
passes when it comes from a dispatch, has no handler for it either.

`HandleCommands` starts a command; `Create`, `DoFile`, `FailedClosed`, `OnLoad`, `Register`
are `Load`; `Unload`, `OnUnload`, `Close`, `Closed`, `Erase` are `Unload`; `CloseAll`,
`ClosedOne`, `Clear` are `UnloadAll`. A `lua_close` is two steps: it runs the finalizers
(`__gc`) of the script, which may forge packets, before it frees the state. `Begin`,
`Advance`, `Call`, `Finish`, `End` are a dispatch; `Finish` is everything between the
callback's return and the next iteration. `OnSend` and `OnProcessMessage` are the same code
twice and one model. A dispatch may begin inside a script's callback, body or finalizer, on
its thread, when the script forges a packet. Code of the script that `lua_getglobal` reaches
through a metatable of the globals is part of the callback it looks up. `seen` and `held` of a dispatch are ghosts.

Runs:

- `ScriptMgr_overlap`: two names, three states, one client thread, packets of two lengths;
  packets arrive at any moment of a command. `NoLeak`, `ConstructedFirst`, `InOrder`,
  `NoneMissed` and `LengthFits` hold up to the first fault. So `InOrder` and `NoneMissed` say
  what the walk over an unlocked map keeps as long as no increment meets the map in the middle
  of a change or at an erased node; one that does may break both, and the model stops there.
- `ScriptMgr_serial`: `FairSpec`, without packets during commands other than those that the
  script of the command causes (in its body, `OnLoad`, `OnUnload` and finalizers), two deep.
  `DeadUseOnlyInUnloadAll` and `AfterUnload`, which are proved as well, say what is left of
  the faults when nothing overlaps: `raced`, `erased` and `torn` come from the lack of locking
  alone, but finalizers defeat a script manager with locks too. A packet that a finalizer
  forges in `unloadall` is dispatched to the scripts closed before (`closed`); one forged in
  `unload` calls the callbacks of the script whose `OnUnload` has returned. `nullError` and
  `uncaught` need no overlap either. `CommandEnds` and `DispatchEnds` are the liveness: up to
  such an end of the process.
- `ScriptMgr_destructor` (violated, a finding): a callback after `OnUnload`, which
  `README.md:40` likens to a destructor. TLC's trace has a packet of a client thread between
  `OnUnload` and `erase`; a finalizer's packet does the same on the console thread.

`unloadall` closes scripts without `OnUnload`, which `README.md:39` says is called when the
script is unloaded; `CloseAll` shows it.

Two names distinguish "before" and "after" the iterator, and suffice for one script to be
closed while another's finalizers run; three states let one script be
reloaded while an old state is still referred to. Fairness is as in section 3: code runs,
scripts return.

## 5. Packet buffer and Packet class

`ByteBuffer` holds operators on a buffer, a record of `_storage`, `_rpos`, `_wpos`,
`_bitpos` and `_curbitval`. A number is the sequence of its bytes, so that no operation
depends on the width of TLC's integers. `SizeMax` is the largest `size_t`: `_bitpos` wraps
around it when a bit is written after the first bit of a byte has been read, and shifts
take their count modulo 32, as on x86. An operation that may throw returns a buffer, too,
since what it has changed by then stays changed. The sum of a position and a length wraps,
too (`Sum`; in the 32-bit build a script can set such a position): a read near the largest
position passes its bounds check (`ByteBuffer.h:482`) and takes bytes from outside the
buffer, for which the constant `Outside` stands, and its position comes round to the
front. An append that would end behind `MaxSize` ends the program (`Ends`): by its
assertion (`ByteBuffer.h:610`), for want of memory, or because `_wpos + cnt` wraps (614)
and it writes outside. So do the exceptions that the script manager does not catch: those of
`std::stoull` in `WriteInt128` (`LuaPacket.cpp:88`) and of an allocation. After `Ends`
nothing more happens and nothing is claimed.

`Packet` is one `LuaPacket` and any sequence of calls: `Writing` (the methods that set
`changed_`), `Reading`, positions, `SetOpcode` and `Truncate`. An exception ends the
callback, but the script manager still reads the packet and a script may have kept it, so
that calls go on after one. `origin`, `written`, `last` are ghosts; `calls` counts up to
the bound `MaxCalls`, after which the run stops.

- `Packet_calls`: every sequence of four calls, from a packet of the client and from one a
  script made. Values include an infinite float, bit strings of 0 to 9 bits, the empty
  string, words with gaps for the packed format, positions in front of, at and behind the
  end and the largest one, from where sums wrap, formats of `Dump` that end well and that fail. `ReadsBack` compares up to three
  values written in a row with what the reading methods yield. Four calls reach every pair
  of a disturbance (a partial read, an exception, a seek) and a write with a partial byte.
`ReadsBack` holds for runs of writes that begin inside the packet with no byte in progress
and none left over. This is the precondition the code needs: a `ReadBit` that throws at the
end of the packet leaves the last byte in `_curbitval`, and bits written after it are ORed
into that byte. Two pairs of methods that `README.md:61-83` lists side by side do not fit, and
`ReadsBack` claims nothing of a run that has one of them (its item is `Unmatched`): a bool is
written as four bytes (`LuaPacket.cpp:115`, promoted to `int32_t`) and read as one
(`ByteBuffer.h:333`), so that whatever follows it is read three bytes too early; and
`ReadByteSeq` decides by an uninitialised byte whether to read at all
(`LuaPacket.cpp:385`). That the
storage is never empty is part of `TypeOK`, and what `ScriptMgr` assumes of packets.

Two observations: `LuaPacket.cpp:473` "Restore rpos" is skipped by every exception and
error, so that a failed `Dump` leaves the read position moved. `ReadsInside` does not say
otherwise: of `Dump` it says no more than where the position can be, the end of the opcode
included, which lies outside a packet that was truncated to less. And
`Truncate` behind the end appends bytes, though `README.md:106` says that it deletes.

Left out: `Process` and `Send` (in `Hooks`), the getters and `Print`, the values that go to
Lua, `Move`, `PutBits` and the other members that no script reaches. What lies outside a
buffer is one byte in the run and any byte, always the same, in the proofs.

## 6. Calls, errors and coroutines of the interpreter

`LuaCall` has two records of the same calls: `ci[t]`, the `CallInfo` list of each Lua
thread, and `host`, the C stack, which holds the activations of `luaD_pcall`, `luaD_call`
and `lua_resume` with what each has saved (`nCcalls`, `nny`, `errorJmp`). `Unwind` is
`luaD_throw` up to where the script goes on, with `recover` and `unroll` for a coroutine
whose `pcall` has lost its activation to a yield. `CallFromC` and `CallMetamethod` differ in
what a yield may leave: a C function's call of Lua it may not, a metamethod or an iterator
that Lua code calls it may.

The framework calls the script (`Lookup`, `Callback`) when nothing runs, and again out of a
packet method (`MayCall`): `Process` and `Send` let the client handle the packet, whose own
calls are intercepted. Every such call is made on the main thread, whichever thread the
method was called from, and an error in it ends in its own `lua_pcall`. `Exception` is a
`ByteBufferException`: it cuts `host` down to the innermost handler of the framework and
leaves the interpreter's record as it was. Two things then happen that the interpreter
does not allow for, and `tangled` records them:

- A callback out of a coroutine. It counts from what the main thread has counted, so the
  activations of the coroutine below it are not counted in it, and the limit on C calls
  does not see them. This the run follows: of the properties only the counted part of
  `CallsCounted` is restricted to `~tangled`, and without that restriction TLC finds it violated.
- An exception that ends in a nested callback. The outer call goes on with a current
  `CallInfo` that is not its own (`process = "confused"`); what it does then, the model does
  not follow.

- `LuaCall_nested`: the main thread and one coroutine, up to five C calls and frames, two
  calls by the framework, one exception. `CallsCounted`: the count of a thread is below the
  limit and never below the activations on the C stack, and between callbacks it is what it
  was, but for the calls that an exception has cut off. `YieldableIffFree` relates `nny` to
  what is on the C stack. `ErrorEndsInPCall`: in the innermost `pcall`, on the same thread;
  without one, in the framework's innermost protected call or in the resumer (`Floor`).
- `LuaCall_refused` (violated, a finding): each exception leaves `nCcalls` raised, so that
  after enough of them `lua_pcall` refuses every callback with a C stack overflow
  (`ScriptMgr.cpp:185`), whereas `README.md:43` says that the callback is called. The limit
  of 200 calls is 3 here. A callback nested in a script's own calls may be refused, since
  those calls count; the property is about the others.

There is one coroutine, so a callback that is nested in it cannot use another one: a bound,
not a rule of the code. Left out: debug hooks that yield, message handlers, the growth of the stack (in `Pools`).

## 7. Garbage collector

`Collector` is `lgc.c` between the instructions of a script: new objects and
interned strings (`New`, `Intern`), reads and writes of tables, user values and upvalues
with their barriers, finalizers (`SetFinalizer`); and the collector's `Step` for each
`gcstate`. `m` holds the colours and the five gray lists, `list` the
three lists of objects, `sweepgc` the pointer that the sweep keeps into them and that
`luaC_checkfinalizer` moves. A table's weak mode is fixed when it is made (`New` picks it):
a metatable set in the middle of a cycle, with its barrier, is not modelled. How much a
step does is not determined (`SweepMax` bounds the
objects one step sweeps; sizes and debts are left out), and a full collection may abandon
a cycle at any point.

- `Collector_cycles`: heaps chosen for what they make the collector do (a
  chain that is rewired while it is marked, weak keys and values, ephemerons that wait for
  each other, finalizers that resurrect), two operations of the script at any moments of
  one cycle, one entry per new table. `NoDangling`, `MainInvariant` (black never points to
  white, every gray object is in one gray list, all is white between cycles), `GarbageGoes`,
  `OnlyGarbageCleared`.

Two operations are enough for a read that saves an object and a write that hides it. Open
upvalues and coroutines are not objects of the model.

One case the properties except. A finalizer that is run under the last sweep may take the
object whose `next` field is `sweepgc` out of its list (`udata2finalize`, `lgc.c:770`), which
unlike `luaC_checkfinalizer` does not move the pointer: the sweep goes on in `allgc`, and what
it had before it stays black. `MainInvariant`, `GarbageGoes` and `OnlyGarbageCleared` except
all that follows (`overtaken`). `NoDangling` goes on over the rest of that cycle, and excepts
only what follows a cycle that begins with a black object (`leftBlack`): such an object is
not visited again, and what only it leads to can be freed while it is in reach. `MCHeaps` has
the heap for it, two objects with finalizers, one of which leads to a table: with two
cycles, no operation and the condition dropped, TLC finds `NoDangling` violated.

## 8. Compiler and virtual machine

A script is a tree (`MCInterpreter` builds them). `Compiler` is the code generator
(`lcode.c`: expressions, jump lists, registers, constants), `Parser` every production
(`lparser.c`: scopes, upvalues, labels and gotos, assignments, loops), `Interpreter` runs
the result, one action per instruction or group of alike ones, on one stack with open and
closed upvalues, varargs and tail calls. `Meaning` says what the tree means, without
registers, instructions, jumps or upvalues, and is the reference.

- `Interpreter_scripts`: some 2,700 expressions of up to two operators in the four places
  where an expression can stand (a value, a condition, an argument, a target), and some 60
  scripts, each with four argument lists. `SameMeaning`: the run ends as `Meaning` says,
  with the same output. `UpvaluesAreShared`: two closures of one variable share its upvalue
  while it is open, whose slot is live. `CodeIsWellFormed`: registers below `maxstacksize`,
  jumps inside the code, in every function compiled.
- `Interpreter_label` (violated, a finding): `labelstat` enters a label's position without
  marking it as a jump target (`lparser.c:1229`), which `luaK_getlabel` would (`lcode.c:108`).
  The `LOADNIL` of a local after the label is joined to the one before it, and a `goto`
  back to the label leaves the local its old value.

`FieldsPerFlush` is 2 instead of 50, so that table constructors flush. The scripts are
expressions and statements that reach each branch of the two files: a bound on size alone
would not reach a `goto` out of nested loops with captured variables. Left out: tokens and
the precedence of operators, floats, operators that differ from addition and subtraction by
the value they compute only, metamethods, the limits on registers and constants, lines;
of loops, those whose last addition overflows or whose step is 0.

## 9. Tables, libraries and core services

`Table` is one table from its constructor on, the array and hash part of `ltable.c`.

| Model | Code |
|---|---|
| `table.array`, `table.node`, `table.lastfree`, `table.dummy` | the `Table`; `dummy` is `isdummy(t->node)` |
| a node: `key`, `dead`, `val`, `next` | a `Node`; `next` is relative, 0 at the end of a chain |
| `Put`, of `Place`, `NewKey`, `Rehash`, `Resize` | `luaH_set`, `luaH_setint`, `luaH_newkey`, `rehash`, `luaH_resize` |
| `Assign`, `TableInit`, `SetList` | an assignment, `OP_NEWTABLE`, `OP_SETLIST` |
| `Collect` | `removeentry`: the key of an empty node becomes a dead key |
| `Traverse`, `Visit` | `pairs`, `next` with the last key |

`contents` is the map the table should be, `seen` what a traversal has been given. A rehash
inserts by the function that called it. `Place` is that function without a further rehash,
and sets `stuck` where the code would rehash again: `RehashMakesRoom` says that it never
does, which is what makes the model complete. It is proved, and in the run an entry that
found no place would be lost, against `KeepsItsMap`.

`Library` has two kinds of behaviour: the history of one table, or a question. `Compute`
applies an operator of the code to arguments from `MCLibrary` or `MCCore`, and
`AnswersAreRight` compares the answer to that of a reference (`LibraryReference`,
`CoreReference`) that says the same without the algorithm, by sets, unbounded integers or
maps.

| Module | Code |
|---|---|
| `TableLibrary` | `insert`, `remove`, `move`, `concat`, `unpack`; `sort` under every comparison, an order or not |
| `Patterns` | the matcher with its captures; `find`, `match`, `gmatch`, `gsub` |
| `Packing` | `string.pack`, `packsize`, `unpack` |
| `Strings` | positions in strings, UTF-8, `rep` and its limits |
| `Numbers` | integer division, shifts, comparison, numerical loops, `bit32`, random intervals |
| `Lexer` | tokens, long strings, escapes, numerals |
| `Chunk` | `string.dump` and `load` of its result, block by block |
| `Names` | variable names in messages, line and count events |
| `Stack` | `lua_rotate`, `lua_settop`, pseudo-indices, buffers; `Luna.h` on top of it |
| `Text` | `tonumber` with a base, chunk names, the search path, reading numbers and lines |
| `Pools` | the table of strings, the arrays of the compiler, the size of the stack |

- `Library`: for the table, keys that collide (integers, a float with an integer's value, a
  float, strings of equal hash), one value, an array part of up to 8 slots, constructors
  with up to 2 items and room for 0, 1 or 3 fields. With 7 keys the hash part grows to its
  third size, and a rehash moves keys both ways. `MAX_INT` is 7, so that the search for the
  length also gives up and counts. `KeepsItsMap`, `TraversalIsComplete`, `LengthIsBorder`.
  For the algorithms, integers have 5 bits, bytes 2, an integer of `pack` 2 bytes, a
  `size_t` 8 values, and the depth of the matcher is 6, so that overflow, sign extension and
  the limits are met by exhaustive arguments. `MatchesFirstWay` compares the matcher with the
  set of all ways to match. `CHECK_DEADLOCK FALSE` is stated because a question is asked once.

What the references leave out: a `for` loop whose last addition overflows, which the code
lets wrap; a step of 0; a displacement of `bit32` that is the smallest integer; `bit32.replace`
of the full width; malformed patterns and formats; `string.format`; character classes;
floats and the mathematics of C; a writer of `string.dump` that fails; the locale. And of
`Pools` one case (`Cut`): a collection while the handler of a stack overflow runs within the
last `EXTRA_STACK` slots below `LUAI_MAXSTACK` makes `luaD_shrinkstack` (`ldo.c:225`) take
the handler's extra slots away, after which the assertion of `ldo.c:209` no longer holds.

Of the binding, `MCCore` asks for registration, look-up of methods and properties, dispatch,
checks of arguments and `==`. No class of the program has properties, so a made-up one
stands for those branches. `property_getter` leaves the metatable on the stack
(`lua_pushvalue(L, 3)` with `lua_pop(L, 2)` for a getter), and `Register` leaves its own;
the answers say so and nothing depends on it.

## 10. What is proved

`HooksProofs` proves, for every set of client threads, every relation `Calls`, every depth
of nesting and every value of the other constants allowed by the assumptions of `Hooks`:

| Theorem | Statement |
|---|---|
| `IInvHolds` | `Spec => []IInv` |
| `TypeCorrect` | `Spec => []TypeOK` |
| `MutexDiscipline` | `Spec => []MutexMatchesFrames` |
| `OriginalReached` | `Spec => []OriginalIsReached` |
| `Armed` | `Spec => []ArmedWhenFree` |
| `EscapesOnlyInWindow` | `Spec => EscapeOnlyInWindow` |
| `MixedUnlocked` | `Spec => MixedOnlyUnlocked` |
| `NoCircle` | `ASSUME SendCallsNobody PROVE Spec => []NoWaitCycle` |
| `HooksKeepPromise` | `Spec => KeepsPromise` |

None of the properties is inductive alone. That the original bytes are in place when a
frame calls the function follows from the frame having just written them under the mutex,
and from no other frame being able to undo it: another thread does not own the mutex, and
a frame of the same thread would have to be above it. So `IInv` adds that a frame below
the top waits in a callback or inside the client's function (`BelowWaits`), that a call
past the hook has nothing left to do (`DirectInside`), that the recursion count of the
mutex equals the number of frames between lock and unlock, all of the owner
(`MutexMatchesFrames`), that the jump is back before each unlock (`ArmedAtUnlock`), and
that half-written bytes belong to a copy of the owner's top frame (`TornByOwner`), and that
nobody writes the bytes that the owner of the mutex is among (`OwnerEnters`).

The proof has one lemma per action. The actions fall into few kinds (a frame is pushed,
popped or moved on, with or without the mutex), so lemmas about these (`QuietPush`,
`QuietGoTo`, `LockStep`, `UnlockStep`, `CopyStep`) carry the argument; counting the frames
of a thread uses the library's facts about cardinality. `EscapesOnlyInWindow` and
`MixedUnlocked` are step properties that follow from `IInv`.

`NoCircle` needs one more invariant: if sending calls neither function, a call inside
`Send` is the top frame of its thread (`SendOnTop`). A thread that waits is at the lock
with its top frame, so what it holds it holds below, inside `Process`; two threads that
wait for each other would both hold the one mutex of `Process`. Section 3 shows that the
proviso cannot be dropped.

`HooksKeepPromise` is the refinement, step by step: a lemma `...Means` per action says
which step of the promise it is, lemmas `PushMaps`, `PopMaps`, `GoToMaps` say how a change
of a stack changes the packets. The guards of the promise are where the invariant is
needed: `PassBy` because a hook that is off has a holder (`NoHolderNoTurn` and
`ArmedWhenFree`), `TakeTurn` because two turns would be two owners (`MutexMatchesFrames`),
`Halt` by `TornByOwner` and, for a thread that was among the bytes, `OriginalIsReached`. `RInv` adds to `IInv` what only the promise asks: a frame that
installs a hook asks no script and calls nothing (`InstallPoints`), and the jump is
in place only where a hook has been installed (`HookInstalled`).

`ScriptMgrProofs` proves, for every set of names, states, client threads and lengths, with
and without overlap and for every depth:

| Theorem | Statement |
|---|---|
| `IInvHolds` | `Spec => []IInv` |
| `TypeCorrect` | `Spec => []TypeOK` |
| `NothingLeaks` | `Spec => []NoLeak` |
| `Constructed` | `Spec => []ConstructedFirst` |
| `Ordered` | `Spec => []InOrder` |
| `NotMissed` | `Spec => []NoneMissed` |
| `Fits` | `Spec => []LengthFits` |

`NoLeak` speaks of the state a command is about to register or has just taken out, so
`CommandKnows` says at each point of a command what it knows of its script (that the name
is free, that the state is open, that it is or is not the registered one), and
`RegisteredConstructed` that what is in the map has had its `OnLoad`. `Sound(d)` of a
dispatch says that the names it has to ask (`held`) are still loaded, that those up to its
iterator are among `seen`, that `seen` is increasing and does not exceed the iterator, and
that the node it is at is of a constructed script: which of these an interleaved command
may disturb is the content of `StillSound`. A fault ends the behaviour, so the invariant
says nothing of what comes after one, as the code does not: `NoLeak` says that the state of
a load that an exception cuts off is still the command's when the process ends, and `InOrder`
and `NoneMissed` are about walks that have met the map in order so far.

Two theorems speak of a console and a client thread that take turns, the situation of the
run `ScriptMgr_serial`; with overlap they are false:

| Theorem | Statement |
|---|---|
| `OnlyFinalizersAfterUnload` | `ASSUME ~Overlap PROVE Spec => []AfterUnload` |
| `NothingDeadIsUsed` | `ASSUME ~Overlap, \A u, v \in ClientThreads : u = v PROVE Spec => []DeadUseOnlyInUnloadAll` |

Their invariant `SerialInv` adds that a thread is in a dispatch only while the console is
idle or inside a script's callback (`OneAtATime`), that the iterator of a dispatch is at a
node of the map (`AllAtNode`), which then no command can erase, and that a registered state
which has had its `OnUnload` is the one the command is about to close (`DestructedGoes`).
The second one needs a single client thread, as nothing keeps two of them from being
inside the same state at once.

`LuaCallProofs` proves, for every `MaxCCalls` and every bound on frames, exceptions and
callbacks:

| Theorem | Statement |
|---|---|
| `InductiveInvariant` | `Spec => [](~tangled => IInv)` |
| `TypeCorrect` | `Spec => [](~tangled => TypeOK)` |
| `CallsAreCounted` | `Spec => [](~tangled => CallsCounted)` |
| `YieldableExactlyWhenFree` | `Spec => [](~tangled => YieldableIffFree)` |
| `ErrorsEndInTheirPCall` | `Spec => [][~tangled => EndsWhereItShould]_vars`, and `[]~tangled => ErrorEndsInPCall` |

All of them hold as long as no callback has been called out of a coroutine and no exception
has ended inside an outer call; callbacks nested on the main thread to any depth are
included. What holds beyond that, TLC has checked (section 6).

The invariant relates the interpreter's record to the C stack. Of the C stack it says that
the main thread's activations lie below those of the coroutine and only a resume changes
the thread (`Shape`), that the saved counts rise (`Counted`), and that what each handler has
saved as `errorJmp` is the handler of its thread next below it, or one that an exception
has unwound (`Chained`). Of a thread it says that its counts are what the last activation
has made them (`Known`), and of `pcall` that a frame that is not yieldable has its
`luaD_pcall` (`PCallsKnown`). `StaysTangled` keeps the condition: calls that are tangled
stay so. `PushSound` and `PopSound` say
what a stack with one activation more or some fewer is, `LiveHandler` which handler an
error jumps to, `OnlyThrows` and `ErrorLands` that every error takes that way and in which
frame it ends.

`PacketProofs` proves, for packets, numbers, strings, numbers of bits and formats of any
size, for every `SizeMax` and `MaxSize` and every number of calls:

| Theorem | Statement |
|---|---|
| `InductiveInvariant` | `Spec => []IInv` |
| `TypeCorrect` | `Spec => []TypeOK` |
| `ChangesAreMarked` | `Spec => []ChangedIsSound` |
| `WritesStayInPlace` | `Spec => WritesInPlace` |
| `ReadsStayInside` | `Spec => ReadsInside` |
| `WrittenIsReadBack` | `Spec => []ReadsBack` |

Here the invariant is simple, and the work is in the operations. `Grown(b, x)` is what a
write may do to a buffer, `ReadFrom(b, x)` what a read may; both are transitive, so they
carry over from a byte or a bit to any number of them. `WriteBits`, `ReadBits`,
`ReadPacked`, `Mask`, `Packed` and `DumpParts` are recursive functions on `0..n`.

`WrittenIsReadBack` needs more: `RunInv`, that a run of writes is `Readable`. The bytes `S`
that a reader has are not those of the buffer at the time of the write: later writes follow,
the last byte may not be complete, and bits behind the last one are not decided yet. So
`Holds(S, b, start)` says that `S` agrees with what has been written to `b` from `start` on,
down to the bits of the byte in progress, and `Synced(r, b, S)` that the reader `r` of `S` has
read exactly that. A writer is `Ready` when the bits still to come of its byte are zero,
which is why the precondition of `ReadsBack` is needed. `Follows(b, x, item)` is the
statement for one item: bytes that hold `x` hold `b`, and a reader in step with `b` reads
the right value and is in step with `x`. It is shown for the writing methods (`NumberFollows`,
`StringFollows`, `CStringFollows`, `PackedFollows`, `BitsFollow`, `FlushFollows`) except
those of bools and byte sequences, and whatever its length a run is built from such steps
(`ExtendedReadable`). Whole bytes rest on `Appended`, what an append leaves, and on the
arithmetic of one byte: a bit is one half of a remainder (`HalvedIs`, `RemainderGrows`,
`NextBit`). For this the value of a bit is `Shifted(n)`, n doublings of 1: of `2^n` with a
variable exponent the provers know nothing. TLC cannot evaluate `Readable`, which speaks of
all bytes and all readers; what it implies, `ReadsBack`, it checks in `Packet_calls`.

`CollectorProofs` proves, for every finite set of objects, every heap the assumptions
allow, every number of operations and cycles and every length of a sweep's step:

| Theorem | Statement |
|---|---|
| `InductiveInvariant` | `Spec => []Inv` |
| `MarkingIsSound` | `Spec => []MainInvariant` |
| `NothingDangles` | `Spec => [](~overtaken => NoDangling)` |
| `GarbageIsFreed` | `Spec => []GarbageGoes` |
| `OnlyGarbageIsCleared` | `Spec => OnlyGarbageCleared` |

`Inv` is `TypeInv`, which says in particular that the lists are disjoint and without
duplicates and that `sweepgc` points into one of them, and, until a finalizer overtakes the
sweep, `Good`, which has a part for each phase:

- `SafeAt`: the objects that the sweep will not free (`Alive`) include the main thread, the registry
  and what waits for its finalizer, and everything they lead to is among them. From it
  follows `NoDangling`, and it is what the phases hand on to each other: during marking
  every object that is there is alive; when the current white changes, what has stayed white is not.
- `MarkingAt`: no black object leads to a white one, and the gray objects are those of the lists
  `gray`, `grayagain` and `allweak`, each in one. The other two lists are empty between
  steps, as only the atomic step fills them.
- `SweepAt`: what the sweep has passed has the current white, so that after the last
  step of it all is white again. This is what a finalizer that overtakes the sweep breaks.
- `GarbageAt`: what was out of reach at the beginning of the cycle is led to by nothing else,
  is white, and is dead once the white has changed. A barrier, a read and a new object keep that,
  since the script can only name what it reaches; a string that is found again is no
  longer doomed.

`CollectorLemmas` has what the operators do. `MarkIs`, `TraverseCases` and the lemmas on
`PropagateAll`, `Pass` and `ConvergeEphemerons` say that they visit only what is led to
and leave an object `Done`, that is, with nothing white left in it but what a weak table or an
ephemeron may have; `AllSettled` is the state in which convergence ends. `MarkedIs`,
`ResurrectIs` and `AtomicIs` put that together for the atomic step: after the entries of
the dead are cleared, no black object leads to a white one at all, weak tables included.
`SweepIs`, `MovedIs` and `Separated` are about the lists.

`OnlyGarbageIsCleared` is an action property and looks into the atomic step. `Stages`
describes its parts: the marks `r` when everything reachable is marked, and the snapshots `b`,
`d`, `f` and `c` after each of the parts that follow. What is not white, with the strings, is
`Lasting`. `DoneKeeps` and `StagesKeep` say that at `r` and at `d` no entry that keeps
its value alive leads out of `Lasting`, though at `d` the weak values have already been
cleared from the tables; by `ReachIs` everything reachable, and everything a resurrected
object leads to, is in it. `StagesClear` goes through the three clearings: each takes an entry
away for something outside `Lasting`, and only from a table with weak keys or weak
values as the case may be. An ephemeron that is linked with the tables weak in both ways
needs care, since the clearing of values visits it too: `Sorted` says that it has no white value left.

`PropagateAll`, `ConvergeEphemerons` and the closures are loops. Module `Recursion` proves
that a chain of n steps exists (`ChainExists`), that a loop whose rank falls is a function
(`LoopExists`), and that what one step keeps holds at the end (`ChainStays`, `LoopStays`),
from the least number at which it would fail. Induction of this kind is open to the
provers, since a set of numbers has a least one (`NatMin`, from the library's `WFMin`) without an
operator as a parameter. `LuaCallProofs` uses the same for the innermost handler and for
the maximum of a set of frames.

`TableProofs` proves, for every set of keys of any kinds and hashes, every set of values,
every `MaxABits` and `MaxInt`, constructors of every size and histories of any length:

| Theorem | Statement |
|---|---|
| `TableIsWellFormed` | `TableSpec => []TableInv` |
| `TableKeepsItsMap` | `TableSpec => []KeepsItsMap` |
| `TableMakesRoom` | `TableSpec => []RehashMakesRoom` |
| `TableLengthIsBorder` | `TableSpec => []LengthIsBorder` |
| `TableTraversalIsComplete` | `TableSpec => []TraversalIsComplete` |
| `LibraryIsTable` | `Spec => TableSpec`, where `Spec` is that of the run `Library` |

`TableInv` says that the table gives for every key what was stored last (`Gives`) and is
`WellFormed`. A chain is a function from each node to the next. It is `Acyclic`, which is
stated by a rank that falls along it, and no node has two before it (`OneBefore`). A node
without a key is in no chain (`FreeApart`), none is left from `lastfree` on (`FreeBelow`),
a key is in the chain of its main position and what is in that position belongs there
(`Homed`). The last part is Brent's variation: with it, a chain holds the keys of one main
position only, so that an insertion has just two cases. `LiveFirst` is about dead keys,
which stay in their chains: a key may be stored anew in front of its dead node, and the
search must find the live one first.

- *Chains*: the colliding node moves (`Detour`) or the new one comes second (`Second`).
  `DetourShape`, `DetourReach`, `SecondShape` and `SecondReach` say that both keep the
  chains acyclic and what each node reaches then. `AlongFinds` and `FindFinds` turn that
  into what the loops of `luaH_get` and `luaH_newkey` find; `PlaceStores` is one insertion.
- *Rehash*: that the insertions find room is a matter of counting. `RoomIsFound` says that
  while fewer keys are in nodes than there are nodes, `getfreepos` finds one, as every
  node above `lastfree` has a key. `SizesAreCounted` says that `computesizes` returns the number of keys up
  to the size it chooses, because the slices of `numusearray` are disjoint and together all
  indices (`Slices`, `CountsAdd`); so what is left fits into the nodes (`LeftOverIs`,
  `ResizeStores`, `RehashStores`).
- *Length*: `HalveFinds` is the binary search over any set with holes, `UnboundFinds` the
  doubling one in front of it and `LinearFinds` the one it resorts to, which ends since a
  table holds finitely many integers.
- *Traversal*: `TraversalInv` adds that the last key has a position, its array slot or the
  first node of that key, and that of the entries in use those before the position, and no
  others, have been visited (`Traversing`). Nothing that may happen during a traversal
  moves an entry (`Kept`): an assignment to a field that is there changes its value in
  place, and the collector leaves a dead node in its chain, where `findindex` recognises it
  (`AtIsFound`).

Two assumptions are needed, `TableConstants` (values are not nil, the key of an integer is
its number) and `ItemsFit`: a constructor asks for no more slots than the array part can
have. In C, `MAXASIZE` is above every `int`; without it `arrayindex` would refuse an index
that has a slot, and `next` would not find it.

The assumptions are those named in `Hooks`, `ScriptMgr`, `LuaCall`, `ByteBuffer`, `Packet`,
`Collector` and `Table` (the console is no client thread, the depth is a natural number, packets have a
positive length, a `size_t` has at least five bits,
an object is of one kind and in one list of the heap, and so on), which TLC evaluates in the
runs.

Only model-checked:

- liveness (`EveryCallEnds`, `HookComesBack`, `CommandEnds`, `DispatchEnds`): fairness and
  ENABLED are out of the prover's reach;
- `NoDangling` in what is left of a cycle in which a finalizer has overtaken the sweep;
- of the calls, what holds when `tangled`;
- `SameMeaning`, `UpvaluesAreShared` and `CodeIsWellFormed` of the compiler and virtual
  machine, `MatchesFirstWay` and `AnswersAreRight` of the libraries: their modules use
  RECURSIVE operators, which lose the prover its arithmetic, and what the properties say is
  about all inputs of an algorithm.

## 11. Not modelled

- The lifetime of objects across the binding: when the collector frees a packet whose
  pointer the script manager (`ScriptMgr.cpp:198`) or a closure (`Luna.h:181`) still has.
- The memory editor, whose methods are single accesses to the client's memory; the opcode
  table, which is data; the wrappers of the C library, the stand-alone `lua` and `luac`, and
  the build files.
- The client: its functions are entered, call each other as `Calls` allows, and return.
- The injection, the console window, page protection, colours and messages.
- `Offset::NetClient` after the client has connected again: the lifetime of its connection
  objects is not visible here. That a packet forged before the client's first one goes to
  the null connection is in the model, but in no run.
