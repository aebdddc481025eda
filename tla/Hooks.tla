------------------------------- MODULE Hooks -------------------------------
(***************************************************************************)
(* The two inline hooks of src/src/Hooks.cpp and the script calls that go  *)
(* through them (LuaPacket::Send, LuaPacket::Process).                     *)
(*                                                                         *)
(* The first bytes of two functions of the client, NetClient_Send2 and     *)
(* NetClient_ProcessMessage, are overwritten by a jump to HookFunction.    *)
(* To run the client's own code the framework takes the hook's recursive   *)
(* mutex, writes the original bytes back, calls the function and writes    *)
(* the jump again.  Threads of the client, and the console thread that     *)
(* runs main() and the scripts' OnLoad, execute this concurrently.         *)
(*                                                                         *)
(* A thread is a stack of call frames.  Only the top frame runs; a frame   *)
(* below it waits in a script callback or inside the client's function.    *)
(***************************************************************************)
EXTENDS Integers, Sequences, FiniteSets

CONSTANTS
  ClientThreads,  \* threads of the client that send and process packets
  Console,        \* the thread DllMain creates for main()
  NoThread,       \* owner of a free mutex
  Calls,          \* <<g, h>>: the client's code of g may call h
  ConsoleForges,  \* a script's OnLoad or OnUnload may send or process packets
  NetClient,      \* the connection object the client passes to both functions
  NoNetClient,    \* the null pointer
  Base,           \* load address of the client's executable
  ClientVTable,   \* address of the virtual table of the client's packets
  MaxDepth        \* bound: frames on the stack of a thread

Threads == ClientThreads \cup {Console}
HookNames == {"Send", "Process"}

ASSUME ThreadsAssumption ==
  /\ Console \notin ClientThreads
  /\ NoThread \notin Threads
ASSUME ClientAssumption ==
  /\ NetClient # NoNetClient
  /\ Base \in Int
  /\ ClientVTable \in Int
ASSUME CallsAssumption ==
  /\ Calls \subseteq HookNames \X HookNames
  /\ ConsoleForges \in BOOLEAN
ASSUME DepthAssumption == MaxDepth \in Nat \ {0}

VARIABLES
  code,       \* what the first bytes of each hooked function are
  installed,  \* hooks whose jump has been written once
  owner,      \* HookMutex: the thread that holds it
  depth,      \* HookMutex: how often the owner has locked it
  stack,      \* the call frames of each thread
  netClient,  \* Offset::NetClient
  vtable,     \* Offset::CDataStore_VTable
  crashed     \* the thread that executed a mixture of old and new bytes

vars == <<code, installed, owner, depth, stack, netClient, vtable, crashed>>

-----------------------------------------------------------------------------
(* Frames.                                                                 *)

\* "install"  the Initialize of a hook
\* "hooked"   HookFunction, with the packet the client passed
\* "forged"   LuaPacket::Send or Process, with a packet a script made
\* "bypass"   the client's function entered directly, the hook being off
\* "early"    the same before the hook was installed
Kinds == {"install", "hooked", "forged", "bypass", "early"}

\* Where a frame stands.  "off", "offing": Intercept(false) before and inside
\* its memcpy; "on", "oning": Intercept(true); "entering": among the instructions
\* that the first six bytes of the client's function are, "inside": past them.
Points == {"scripts", "lock", "off", "offing", "call", "entering", "inside",
           "on", "oning", "unlock"}

Frame == [hook : HookNames, kind : Kinds, pc : Points, vtable : Int]

\* The points of a frame between its Lock() and its Unlock().
HeldPoints == {"off", "offing", "call", "entering", "inside", "on", "oning", "unlock"}

\* The frame of a call that went past the hook, which holds no lock.
IsDirect(f) == f.kind \in {"bypass", "early"}

\* f holds the mutex of h.
HoldsLock(f, h) == f.hook = h /\ ~IsDirect(f) /\ f.pc \in HeldPoints

Running(t) == stack[t] # <<>>
Top(t) == stack[t][Len(stack[t])]

\* The top frame of t is of hook h and stands at p.
At(t, h, p) == Running(t) /\ Top(t).hook = h /\ Top(t).pc = p

PushFrame(t, f) == stack' = [stack EXCEPT ![t] = Append(@, f)]
PopFrame(t) == stack' = [stack EXCEPT ![t] = SubSeq(@, 1, Len(@) - 1)]
GoTo(t, p) == stack' = [stack EXCEPT ![t][Len(stack[t])].pc = p]

-----------------------------------------------------------------------------
Init ==
  /\ code = [h \in HookNames |-> "orig"]
  /\ installed = {}
  /\ owner = [h \in HookNames |-> NoThread]
  /\ depth = [h \in HookNames |-> 0]
  /\ stack = [t \in Threads |-> <<>>]
  /\ netClient = NoNetClient
  /\ vtable = 0
  /\ crashed = NoThread

\* main(): SendHook::Initialize, then ProcessMessageHook::Initialize.  Saves the
\* original bytes, computes the jump and goes on to Lock().
Initialize(h) ==
  /\ ~Running(Console)
  /\ h \notin installed
  /\ h = "Process" => "Send" \in installed
  /\ PushFrame(Console, [hook |-> h, kind |-> "install", pc |-> "lock", vtable |-> 0])
  /\ UNCHANGED <<code, installed, owner, depth, netClient, vtable, crashed>>

\* Mutant of Lock: a mutex per thread, which excludes nobody.
LockPrivate(t, h) ==
  /\ At(t, h, "lock")
  /\ owner' = [owner EXCEPT ![h] = t]
  /\ depth' = [depth EXCEPT ![h] = @ + 1]
  /\ GoTo(t, IF Top(t).kind = "install" THEN "on" ELSE "off")
  /\ UNCHANGED <<code, installed, netClient, vtable, crashed>>

\* HookMutex is recursive: free, or already held by this thread.
Lock(t, h) ==
  /\ At(t, h, "lock")
  /\ owner[h] \in {NoThread, t}
  /\ owner' = [owner EXCEPT ![h] = t]
  /\ depth' = [depth EXCEPT ![h] = @ + 1]
  /\ GoTo(t, IF Top(t).kind = "install" THEN "on" ELSE "off")
  /\ UNCHANGED <<code, installed, netClient, vtable, crashed>>

\* Intercept(apply) copies six bytes, which is not atomic: while it lasts another
\* thread may execute a mixture, unless the old and the new bytes are the same.
BeginCopy(t, h, from, bytes, to) ==
  /\ At(t, h, from)
  /\ code' = [code EXCEPT ![h] = IF @ = bytes THEN @ ELSE "torn"]
  /\ GoTo(t, to)
  /\ UNCHANGED <<installed, owner, depth, netClient, vtable, crashed>>

InterceptFalse(t, h) ==
  \/ BeginCopy(t, h, "off", "orig", "offing")
  \/ /\ At(t, h, "offing")
     /\ code' = [code EXCEPT ![h] = "orig"]
     /\ GoTo(t, "call")
     /\ UNCHANGED <<installed, owner, depth, netClient, vtable, crashed>>

InterceptTrue(t, h) ==
  \/ BeginCopy(t, h, "on", "hook", "oning")
  \/ /\ At(t, h, "oning")
     /\ code' = [code EXCEPT ![h] = "hook"]
     /\ installed' = installed \cup {h}
     /\ GoTo(t, "unlock")
     /\ UNCHANGED <<owner, depth, netClient, vtable, crashed>>

\* The function ends with Unlock().
Unlock(t, h) ==
  /\ At(t, h, "unlock")
  /\ depth' = [depth EXCEPT ![h] = @ - 1]
  /\ owner' = [owner EXCEPT ![h] = IF depth[h] = 1 THEN NoThread ELSE @]
  /\ PopFrame(t)
  /\ UNCHANGED <<code, installed, netClient, vtable, crashed>>

-----------------------------------------------------------------------------
(* Calls of the hooked functions.                                          *)

HookFrame(h) ==
  [hook |-> h, kind |-> "hooked", pc |-> "scripts", vtable |-> ClientVTable]

\* Mutant of Execute: HookFunction locks its mutex before it asks the scripts.
ExecuteLocked(t, h, caller, direct) ==
  /\ code[h] = "hook" => owner[h] \in {NoThread, t}
  /\ owner' = IF code[h] = "hook" THEN [owner EXCEPT ![h] = t] ELSE owner
  /\ depth' = IF code[h] = "hook" THEN [depth EXCEPT ![h] = @ + 1] ELSE depth
  /\ stack' = [stack EXCEPT ![t] = CASE code[h] = "orig" -> direct
                                     [] code[h] = "hook" -> Append(caller, HookFrame(h))
                                     [] code[h] = "torn" -> @]
  /\ crashed' = IF code[h] = "torn" THEN t ELSE crashed
  /\ UNCHANGED <<code, installed, netClient, vtable>>

\* Thread t arrives at the first bytes of h.  The client's own bytes are several
\* instructions: t goes on among them, with the frames direct.  The jump is one; it
\* leads to HookFunction, called from the frames caller, which locates the two
\* offsets while they are zero and calls the scripts.
Execute(t, h, caller, direct) ==
  /\ stack' = [stack EXCEPT ![t] = CASE code[h] = "orig" -> direct
                                     [] code[h] = "hook" -> Append(caller, HookFrame(h))
                                     [] code[h] = "torn" -> @]
  /\ netClient' = IF code[h] = "hook" /\ netClient = NoNetClient
                  THEN NetClient ELSE netClient
  /\ vtable' = IF code[h] = "hook" /\ vtable = 0 THEN ClientVTable - Base ELSE vtable
  /\ crashed' = IF code[h] = "torn" THEN t ELSE crashed
  /\ UNCHANGED <<code, installed, owner, depth>>

\* The client calls h: from an idle thread of its own, or from inside its own code,
\* on whatever thread that runs.
ClientCall(t, h) ==
  /\ Running(t) \/ t \in ClientThreads
  /\ Len(stack[t]) < MaxDepth
  /\ Running(t) => Top(t).pc = "inside" /\ <<Top(t).hook, h>> \in Calls
  /\ LET direct == [hook |-> h, kind |-> IF h \in installed THEN "bypass" ELSE "early",
                    pc |-> "entering", vtable |-> ClientVTable]
     IN  Execute(t, h, stack[t], Append(stack[t], direct))

\* OriginalFunction(...), called by HookFunction, Send or Process.
CallOriginal(t, h) ==
  /\ At(t, h, "call")
  /\ code[h] = "hook" => Len(stack[t]) < MaxDepth
  /\ LET at(p) == [stack[t] EXCEPT ![Len(stack[t])].pc = p]
     IN  Execute(t, h, at("inside"), at("entering"))

\* The thread comes to the end of the first six bytes, wherever it was stopped among
\* them.  If they have changed since, it has run some of the old and some of the new.
Enter(t, h) ==
  /\ At(t, h, "entering")
  /\ IF code[h] = "orig" THEN GoTo(t, "inside") /\ UNCHANGED crashed
                         ELSE crashed' = t /\ UNCHANGED stack
  /\ UNCHANGED <<code, installed, owner, depth, netClient, vtable>>

\* Mutant of Return: "return OriginalFunction(...)", leaving the hook off and locked.
ReturnAtOnce(t, h) ==
  /\ At(t, h, "inside")
  /\ PopFrame(t)
  /\ UNCHANGED <<code, installed, owner, depth, netClient, vtable, crashed>>

\* Mutant of Return: Intercept(true) is forgotten.
ReturnUnarmed(t, h) ==
  /\ At(t, h, "inside")
  /\ IF IsDirect(Top(t)) THEN PopFrame(t) ELSE GoTo(t, "unlock")
  /\ UNCHANGED <<code, installed, owner, depth, netClient, vtable, crashed>>

\* The client's function returns: to Intercept(true), or to the client.
Return(t, h) ==
  /\ At(t, h, "inside")
  /\ IF IsDirect(Top(t)) THEN PopFrame(t) ELSE GoTo(t, "on")
  /\ UNCHANGED <<code, installed, owner, depth, netClient, vtable, crashed>>

\* Mutant of Forge: Send and Process do not lock.
ForgeUnlocked(t, h) ==
  /\ Len(stack[t]) < MaxDepth
  /\ installed = HookNames
  /\ \/ Running(t) /\ Top(t).pc = "scripts"
     \/ t = Console /\ ~Running(t) /\ ConsoleForges
  /\ PushFrame(t, [hook |-> h, kind |-> "forged", pc |-> "off", vtable |-> vtable])
  /\ UNCHANGED <<code, installed, owner, depth, netClient, vtable, crashed>>

\* A script's Packet:Send() or Process(), from a callback or from the console's
\* OnLoad; scripts are loaded only after both hooks are installed.  The constructor of
\* CDataStore copies Offset::CDataStore_VTable.
Forge(t, h) ==
  /\ Len(stack[t]) < MaxDepth
  /\ installed = HookNames
  /\ \/ Running(t) /\ Top(t).pc = "scripts"
     \/ t = Console /\ ~Running(t) /\ ConsoleForges
  /\ PushFrame(t, [hook |-> h, kind |-> "forged", pc |-> "lock", vtable |-> vtable])
  /\ UNCHANGED <<code, installed, owner, depth, netClient, vtable, crashed>>

\* Mutant of Verdict: a packet that is not allowed is unlocked on its way out.
VerdictUnlocks(t, h) ==
  /\ At(t, h, "scripts")
  /\ GoTo(t, "unlock") \/ GoTo(t, "lock")
  /\ UNCHANGED <<code, installed, owner, depth, netClient, vtable, crashed>>

\* The verdict of the scripts: false returns 0 to the client, true goes on.
Verdict(t, h) ==
  /\ At(t, h, "scripts")
  /\ PopFrame(t) \/ GoTo(t, "lock")
  /\ UNCHANGED <<code, installed, owner, depth, netClient, vtable, crashed>>

-----------------------------------------------------------------------------
Step(t, h) ==
  \/ ClientCall(t, h) \/ Forge(t, h) \/ Verdict(t, h)
  \/ Lock(t, h) \/ InterceptFalse(t, h) \/ CallOriginal(t, h)
  \/ Enter(t, h) \/ Return(t, h) \/ InterceptTrue(t, h) \/ Unlock(t, h)

\* A process that executed a mixture of bytes stops: nothing is known of it.
Crashed == crashed # NoThread /\ UNCHANGED vars

Next ==
  \/ crashed = NoThread /\ \E h \in HookNames : Initialize(h)
  \/ crashed = NoThread /\ \E t \in Threads, h \in HookNames : Step(t, h)
  \/ Crashed

Spec == Init /\ [][Next]_vars

\* Straight-line code of the framework, and of the client's first bytes.
Runs(t) ==
  crashed = NoThread /\ \E h \in HookNames :
    \/ InterceptFalse(t, h) \/ CallOriginal(t, h) \/ Enter(t, h)
    \/ InterceptTrue(t, h) \/ Unlock(t, h)

\* The d-th frame of t ends its callback or its call of the client's function.
Ends(t, d) ==
  crashed = NoThread /\ Len(stack[t]) = d /\ \E h \in HookNames : Verdict(t, h) \/ Return(t, h)

\* The mutex that t waits for is granted to it.
Granted(t) == crashed = NoThread /\ \E h \in HookNames : Lock(t, h)

\* Threads run.  Callbacks and the client's functions return, whatever number of
\* calls they make before.  A mutex is granted to a thread that keeps waiting.
Fairness ==
  \A t \in Threads :
    /\ WF_vars(Runs(t))
    /\ SF_vars(Granted(t))
    /\ \A d \in 1..MaxDepth : SF_vars(Ends(t, d))

FairSpec == Spec /\ Fairness

-----------------------------------------------------------------------------
(* Properties.                                                             *)

TypeOK ==
  /\ code \in [HookNames -> {"orig", "hook", "torn"}]
  /\ installed \in SUBSET HookNames
  /\ owner \in [HookNames -> Threads \cup {NoThread}]
  /\ depth \in [HookNames -> Nat]
  /\ stack \in [Threads -> Seq(Frame)]
  /\ netClient \in {NetClient, NoNetClient}
  /\ vtable \in Int
  /\ crashed \in Threads \cup {NoThread}

\* The frames of t that have locked the mutex of h and not unlocked it.
Holding(t, h) == {i \in 1..Len(stack[t]) : HoldsLock(stack[t][i], h)}

\* Lock() and Unlock() are paired on every path: the recursion count of a hook's
\* mutex is the number of frames between them, all on the owner's stack, so that
\* no path out of HookFunction, Send or Process leaves the mutex locked.
MutexMatchesFrames ==
  \A h \in HookNames :
    /\ (owner[h] = NoThread) <=> (depth[h] = 0)
    /\ \A t \in Threads :
         IF owner[h] = t THEN depth[h] = Cardinality(Holding(t, h))
                         ELSE Holding(t, h) = {}

\* When OriginalFunction is called, and until it is past its first bytes, they are
\* the client's own, whatever nested call or other thread has patched them meanwhile:
\* the framework never calls itself and never executes a mixture.
OriginalIsReached ==
  \A t \in Threads, h \in HookNames :
    At(t, h, "call") \/ (At(t, h, "entering") /\ ~IsDirect(Top(t))) => code[h] = "orig"

\* Nobody writes the bytes that the owner of the mutex is among.
OwnerEnters ==
  \A t \in Threads, h \in HookNames :
    At(t, h, "entering") /\ owner[h] = t => code[h] = "orig"

\* Once a hook is installed, it is in place whenever nobody holds its mutex.
ArmedWhenFree ==
  \A h \in installed : owner[h] = NoThread => code[h] = "hook"

\* A frame below the top waits in a callback or inside the client's function.
BelowWaits ==
  \A t \in Threads : \A i \in 1..Len(stack[t]) - 1 : stack[t][i].pc \in {"scripts", "inside"}

\* The frame of a call that went past the hook has nothing to do but to return.
DirectInside ==
  \A t \in Threads : \A i \in 1..Len(stack[t]) :
    IsDirect(stack[t][i]) => stack[t][i].pc \in {"entering", "inside"}

\* The jump is in place again when a frame is about to unlock.
ArmedAtUnlock ==
  \A t \in Threads, h \in HookNames : At(t, h, "unlock") => code[h] = "hook" /\ h \in installed

\* Half-written bytes belong to a copy that the owner of the mutex has begun.
TornByOwner ==
  \A h \in HookNames : code[h] = "torn" =>
    owner[h] # NoThread /\ (At(owner[h], h, "offing") \/ At(owner[h], h, "oning"))

\* The inductive invariant: why each hook is taken off, entered and put back under
\* its own mutex by one frame at a time, however the calls are nested.
IInv ==
  /\ TypeOK
  /\ BelowWaits
  /\ DirectInside
  /\ MutexMatchesFrames
  /\ OriginalIsReached
  /\ OwnerEnters
  /\ ArmedAtUnlock
  /\ ArmedWhenFree
  /\ TornByOwner

\* No two threads wait for each other's mutex (an incoming packet being processed
\* sends packets; sending does not process).
Waits(t, h) == At(t, h, "lock") /\ owner[h] \notin {NoThread, t}
NoWaitCycle ==
  \A t, u \in Threads, g, h \in HookNames :
    ~(Waits(t, h) /\ owner[h] = u /\ Waits(u, g) /\ owner[g] = t)

\* A call of the client escapes the scripts only while some thread is between
\* Lock() and Unlock() of the very hook: never because a hook was left off.
Escapes(h) ==
  \E t \in Threads : /\ Len(stack'[t]) > Len(stack[t])
                     /\ stack'[t][Len(stack'[t])].kind = "bypass"
                     /\ stack'[t][Len(stack'[t])].hook = h
EscapeOnlyInWindow == [][\A h \in HookNames : Escapes(h) => owner[h] # NoThread]_vars

\* A thread executes a mixture of old and new bytes only in a function whose mutex it
\* does not hold: another thread is writing them, or it was stopped among the first
\* bytes of a call that went past the hook and another one has written them since.
\* No call that a script makes or has accepted ever does.
MixedOnlyUnlocked ==
  [][crashed' # crashed =>
       \E h \in HookNames :
         /\ code[h] # "orig" /\ owner[h] # crashed'
         /\ \/ code[h] = "torn" /\ owner[h] # NoThread
            \/ At(crashed', h, "entering") /\ IsDirect(Top(crashed'))]_vars

\* Every call ends: no thread waits forever for a mutex and none recurses forever.
EveryCallEnds ==
  \A t \in Threads : Running(t) ~> (~Running(t) \/ crashed # NoThread)

\* A hook taken off is put back.
HookComesBack ==
  \A h \in HookNames :
    (h \in installed /\ code[h] # "hook") ~> (code[h] = "hook" \/ crashed # NoThread)

\* The stage of Interception a frame is in.
StageOf(f) ==
  CASE f.kind = "install" -> "arming"
    [] f.kind # "install" /\ f.pc = "scripts" -> "offered"
    [] f.kind # "install" /\ f.pc = "lock" -> "accepted"
    [] f.kind # "install" /\ f.pc \in {"off", "offing", "call", "entering"} -> "turn"
    [] f.kind # "install" /\ f.pc = "inside" -> "inside"
    [] f.kind # "install" /\ f.pc \in {"on", "oning", "unlock"} -> "delivered"

PacketOf(f) ==
  [hook |-> f.hook, direct |-> IsDirect(f), stage |-> StageOf(f)]

Inflight == [t \in Threads |-> [i \in 1..Len(stack[t]) |-> PacketOf(stack[t][i])]]

Promise == INSTANCE Interception WITH
  Hooks <- HookNames, inflight <- Inflight, guarded <- installed,
  halted <- (crashed # NoThread)

\* The hooks keep the promise of Interception: an accepted packet is handed over
\* exactly once and offered to no script again, a discarded one never, one thread
\* at a time, and the guard is up before the turn ends.
KeepsPromise == Promise!ISpec

=============================================================================
