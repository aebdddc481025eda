------------------------------ MODULE LuaCall ------------------------------
(***************************************************************************)
(* Calls inside the interpreter of a script: protected calls, coroutines,  *)
(* errors (src/dep/lua-5.3.0: ldo.c, lstate.c, lcorolib.c, lua_pcallk) and *)
(* the ByteBufferException that a packet method throws through all of it   *)
(* into the handler of ScriptMgr.                                          *)
(*                                                                         *)
(* The interpreter keeps its own record of the calls, the CallInfo list of *)
(* every thread.  The C stack, here host, is another one: it holds the     *)
(* activations of luaD_pcall, luaD_call and lua_resume.  An error unwinds  *)
(* both with a jump to the handler that is chained in errorJmp.  A C++     *)
(* exception unwinds only the C stack: the interpreter is compiled as C.   *)
(*                                                                         *)
(* The framework calls the script through the main thread, whichever       *)
(* thread runs: Process and Send of a packet that the script has made come *)
(* back as a callback inside the call of the packet method.                *)
(***************************************************************************)
EXTENDS Integers, Sequences, FiniteSets, FiniteSetsExt

CONSTANTS
  Main,          \* the main thread of the script's state
  Co,            \* the coroutine object the script works with
  MaxCCalls,     \* LUAI_MAXCCALLS
  MaxFrames,     \* bound: calls in one thread
  MaxThrown,     \* bound: exceptions
  MaxCallbacks   \* bound: calls by the framework

ASSUME LuaCallAssumption ==
  /\ Main # Co
  /\ MaxCCalls \in Nat /\ MaxCCalls > 1 /\ MaxCCalls < 65536
  /\ MaxFrames \in Nat
  /\ MaxThrown \in Nat /\ MaxCallbacks \in Nat

VARIABLES
  ci,         \* the CallInfo list of each thread, the current call last
  nCcalls,    \* nested calls that use the C stack, as each thread counts them
  nny,        \* calls of each thread that cannot be left by a yield
  status,     \* "new" and "ok" are LUA_OK; "new": the body has not been called
  errorJmp,   \* the handler an error jumps to: <<exceptions so far, place in host>>
  host,       \* the C stack
  process,    \* "runs", "aborts", "undefined": jumped into a dead stack frame, or
              \* "confused": runs on in calls whose CallInfo is not the thread's current
  thrown,     \* exceptions that have left the interpreter
  lost,       \* calls left counted in the main thread by exceptions and lookups
  callbacks,  \* calls by the framework
  tangled,    \* the framework has called out of a coroutine, or has gone on inside an
              \* outer call after an exception
  last        \* what the last step was

vars == <<ci, nCcalls, nny, status, errorJmp, host, process, thrown, lost, callbacks, tangled, last>>
counts == <<thrown, lost, callbacks, tangled>>

LuaThreads == {Main, Co}

\* A CallInfo: a Lua function, a C function (a packet method, table.sort, ...),
\* coroutine.resume, coroutine.yield, pcall, and pcall in a coroutine (CIST_YPCALL).
CallInfos == {"lua", "c", "resume", "yield", "pcall", "ypcall"}

NoJmp == <<0, 0>>

\* An activation on the C stack of th: its CallInfo entries begin above base.
\* "pcall"   luaD_pcall, which calls luaD_call
\* "call"    luaD_call; free: a yield may leave it
\* "resume"  lua_resume
Activation == [op : {"pcall", "call", "resume"}, by : {"framework", "script"}, th : LuaThreads,
               base : Nat, free : BOOLEAN, nCcalls : Nat, nny : Nat, errorJmp : Nat \X Nat]

Idle == host = <<>> /\ process = "runs"
Innermost == host[Len(host)]
Thread == Innermost.th

Top(t) == ci[t][Len(ci[t])]
Under(s, n) == SubSeq(s, 1, n)

\* The script is at a call of the kind k and may go on there.
In(t, k) == host # <<>> /\ process = "runs" /\ Thread = t /\ ci[t] # <<>> /\ Top(t) = k

Enter(op, t, base, free) ==
  [op |-> op, by |-> "script", th |-> t, base |-> base, free |-> free,
   nCcalls |-> nCcalls[t], nny |-> nny[t], errorJmp |-> errorJmp[t]]

\* The framework's call of the main thread.
EnterMain(op) == [Enter(op, Main, Len(ci[Main]), FALSE) EXCEPT !.by = "framework"]

\* The framework's protected calls on the C stack.
Protected == {i \in 1..Len(host) : host[i].op = "pcall" /\ host[i].by = "framework"}

\* The framework calls on its own account, or out of a packet method.
MayCall == process = "runs" /\ (host # <<>> => ci[Thread] # <<>> /\ Top(Thread) = "c")

OutOfCoroutine == host # <<>> /\ Thread = Co

\* nCcalls is an unsigned short.
Short(n) == n % 65536

\* luaD_call and lua_resume raise an error instead of going on.
Overflows(t) == Short(nCcalls[t] + 1) >= MaxCCalls

-----------------------------------------------------------------------------
Init ==
  /\ ci = [t \in LuaThreads |-> <<>>]
  /\ nCcalls = [t \in LuaThreads |-> 0]
  /\ nny = [t \in LuaThreads |-> 1]
  /\ status = [t \in LuaThreads |-> IF t = Main THEN "ok" ELSE "new"]
  /\ errorJmp = [t \in LuaThreads |-> NoJmp]
  /\ host = <<>>
  /\ process = "runs"
  /\ thrown = 0 /\ lost = 0 /\ callbacks = 0
  /\ tangled = FALSE
  /\ last = "init"

\* luaD_rawrunprotected and its callers: the handler around a is chained again.
Restore(t, a) ==
  /\ errorJmp' = [errorJmp EXCEPT ![t] = a.errorJmp]
  /\ nny' = [nny EXCEPT ![t] = a.nny]

\* Mutant of FindPCall: looks from the outermost call.
FindPCallOutermost(s) == Min({i \in 1..Len(s) : s[i] = "ypcall"})

\* findpcall: the protected call of a coroutine that is to be finished.
FindPCall(s) == Max({i \in 1..Len(s) : s[i] = "ypcall"})

\* luaD_throw: the calls of t are s.  The handler is luaD_pcall, or lua_resume, which
\* looks for a pcall in the coroutine (recover) and runs on from there (unroll).
Unwind(t, s) ==
  LET n == errorJmp[t][2]
      a == host[n]
      recovers == \E i \in 1..Len(s) : s[i] = "ypcall"
  IN  \/ /\ errorJmp[t] = NoJmp  \* only the main thread is without any handler: panic
         /\ process' = "aborts"
         /\ UNCHANGED <<ci, nCcalls, nny, status, errorJmp, host>>
      \/ /\ errorJmp[t] # NoJmp /\ errorJmp[t][1] # thrown
         /\ process' = "undefined"
         /\ UNCHANGED <<ci, nCcalls, nny, status, errorJmp, host>>
      \/ /\ errorJmp[t] # NoJmp /\ errorJmp[t][1] = thrown
         /\ UNCHANGED process
         /\ \/ /\ a.op = "pcall"
               /\ ci' = [ci EXCEPT ![t] = Under(s, a.base)]
               /\ nCcalls' = [nCcalls EXCEPT ![t] = a.nCcalls]
               /\ Restore(t, a)
               /\ host' = Under(host, n - 1)
               /\ UNCHANGED status
            \/ /\ a.op = "resume" /\ recovers
               /\ ci' = [ci EXCEPT ![t] = Append(Under(s, FindPCall(s) - 1), "pcall")]
               /\ nCcalls' = [nCcalls EXCEPT ![t] = a.nCcalls]
               /\ nny' = [nny EXCEPT ![t] = 0]
               /\ host' = Under(host, n)
               /\ UNCHANGED <<status, errorJmp>>
            \/ /\ a.op = "resume" /\ ~recovers
               /\ ci' = [ci EXCEPT ![t] = s]
               /\ nCcalls' = [nCcalls EXCEPT ![t] = Short(a.nCcalls - 1)]
               /\ Restore(t, a)
               /\ host' = Under(host, n - 1)
               /\ status' = [status EXCEPT ![t] = "dead"]

Throw(t, s) == Unwind(t, s) /\ last' = "error" /\ UNCHANGED counts

-----------------------------------------------------------------------------
(* The framework.                                                          *)

\* lua_pcall of OnSend, OnProcessMessage, OnLoad or OnUnload.
Callback ==
  /\ MayCall /\ callbacks < MaxCallbacks
  /\ callbacks' = callbacks + 1
  /\ UNCHANGED <<status, process, thrown, lost>>
  /\ IF Overflows(Main)
     THEN last' = "refused" /\ UNCHANGED <<ci, nCcalls, nny, errorJmp, host, tangled>>
     ELSE /\ last' = "callback"
          /\ host' = Append(host, EnterMain("pcall"))
          /\ errorJmp' = [errorJmp EXCEPT ![Main] = <<thrown, Len(host) + 1>>]
          /\ nCcalls' = [nCcalls EXCEPT ![Main] = Short(@ + 1)]
          /\ nny' = [nny EXCEPT ![Main] = @ + 1]
          /\ ci' = [ci EXCEPT ![Main] = Append(@, "lua")]
          /\ tangled' = (tangled \/ OutOfCoroutine)

\* lua_getglobal looks the callback up, with no handler but those that are there:
\* __index of _G may be a function of the script.  A jump leaves the frames of the
\* framework, and of the coroutine that was running, behind.
Lookup ==
  /\ MayCall /\ callbacks < MaxCallbacks
  /\ callbacks' = callbacks + 1
  /\ last' = "lookup"
  /\ tangled' = (tangled \/ OutOfCoroutine)
  /\ UNCHANGED <<thrown, lost>>
  /\ IF Overflows(Main)
     THEN Unwind(Main, ci[Main])
     ELSE /\ host' = Append(host, EnterMain("call"))
          /\ nCcalls' = [nCcalls EXCEPT ![Main] = Short(@ + 1)]
          /\ nny' = [nny EXCEPT ![Main] = @ + 1]
          /\ ci' = [ci EXCEPT ![Main] = Append(@, "lua")]
          /\ UNCHANGED <<status, errorJmp, process>>

\* A packet method throws ByteBufferException: the try block of ScriptMgr is around
\* lua_pcall only, and takes none of what the interpreter knows of its calls back.  In
\* a callback inside another call that call goes on.
Exception(t) ==
  /\ In(t, "c") /\ thrown < MaxThrown
  /\ last' = "exception"
  /\ \/ /\ Protected = {}
        /\ process' = "aborts"
        /\ UNCHANGED <<host, thrown, lost, tangled>>
     \/ /\ Protected # {}
        /\ host' = Under(host, Max(Protected) - 1)
        /\ thrown' = thrown + 1
        /\ lost' = IF host' = <<>> THEN nCcalls[Main] ELSE lost
        /\ process' = IF host' = <<>> THEN "runs" ELSE "confused"
        /\ tangled' = (tangled \/ host' # <<>>)
  /\ UNCHANGED <<ci, nCcalls, nny, status, errorJmp, callbacks>>

-----------------------------------------------------------------------------
(* The script.                                                             *)

\* A call that needs no C stack: luaD_precall from luaV_execute.
Call(t) ==
  /\ In(t, "lua") /\ Len(ci[t]) < MaxFrames
  /\ \E k \in {"lua", "c"} : ci' = [ci EXCEPT ![t] = Append(@, k)]
  /\ last' = "call"
  /\ UNCHANGED <<nCcalls, nny, status, errorJmp, host, process, counts>>

\* A C function calls back into Lua: lua_call, luaT_callTM.
CallFromC(t) ==
  /\ In(t, "c") /\ Len(ci[t]) < MaxFrames
  /\ IF Overflows(t)
     THEN Throw(t, ci[t])
     ELSE /\ ci' = [ci EXCEPT ![t] = Append(@, "lua")]
          /\ host' = Append(host, Enter("call", t, Len(ci[t]), FALSE))
          /\ nCcalls' = [nCcalls EXCEPT ![t] = Short(@ + 1)]
          /\ nny' = [nny EXCEPT ![t] = @ + 1]
          /\ last' = "call"
          /\ UNCHANGED <<status, errorJmp, process, counts>>

\* A Lua function calls a metamethod, or the iterator of a for loop: luaT_callTM and
\* OP_TFORCALL, which use the C stack and may be left by a yield.
CallMetamethod(t) ==
  /\ In(t, "lua") /\ Len(ci[t]) < MaxFrames
  /\ IF Overflows(t)
     THEN Throw(t, ci[t])
     ELSE /\ ci' = [ci EXCEPT ![t] = Append(@, "lua")]
          /\ host' = Append(host, Enter("call", t, Len(ci[t]), TRUE))
          /\ nCcalls' = [nCcalls EXCEPT ![t] = Short(@ + 1)]
          /\ last' = "call"
          /\ UNCHANGED <<nny, status, errorJmp, process, counts>>

\* Mutant of PCall: the function is called as one that may yield.
PCallMayYield(t) ==
  /\ In(t, "lua") /\ Len(ci[t]) + 1 < MaxFrames
  /\ nny[t] > 0 /\ ~Overflows(t)
  /\ last' = "call"
  /\ ci' = [ci EXCEPT ![t] = @ \o <<"pcall", "lua">>]
  /\ host' = Append(host, Enter("pcall", t, Len(ci[t]) + 1, FALSE))
  /\ errorJmp' = [errorJmp EXCEPT ![t] = <<thrown, Len(host) + 1>>]
  /\ nCcalls' = [nCcalls EXCEPT ![t] = Short(@ + 1)]
  /\ nny' = [nny EXCEPT ![t] = @ - 1]
  /\ UNCHANGED <<status, process, counts>>

\* pcall, where no yield is possible: luaD_pcall.
PCall(t) ==
  /\ In(t, "lua") /\ Len(ci[t]) + 1 < MaxFrames
  /\ nny[t] > 0
  /\ last' = "call"
  /\ UNCHANGED <<status, process, counts>>
  /\ IF Overflows(t)
     THEN /\ ci' = [ci EXCEPT ![t] = Append(@, "pcall")]
          /\ UNCHANGED <<nCcalls, nny, errorJmp, host>>
     ELSE /\ ci' = [ci EXCEPT ![t] = @ \o <<"pcall", "lua">>]
          /\ host' = Append(host, Enter("pcall", t, Len(ci[t]) + 1, FALSE))
          /\ errorJmp' = [errorJmp EXCEPT ![t] = <<thrown, Len(host) + 1>>]
          /\ nCcalls' = [nCcalls EXCEPT ![t] = Short(@ + 1)]
          /\ nny' = [nny EXCEPT ![t] = @ + 1]

\* pcall in a coroutine that may yield: the handler is that of lua_resume.
YieldablePCall(t) ==
  /\ In(t, "lua") /\ Len(ci[t]) + 1 < MaxFrames
  /\ nny[t] = 0
  /\ IF Overflows(t)
     THEN Throw(t, Append(ci[t], "ypcall"))
     ELSE /\ ci' = [ci EXCEPT ![t] = @ \o <<"ypcall", "lua">>]
          /\ host' = Append(host, Enter("call", t, Len(ci[t]) + 1, TRUE))
          /\ nCcalls' = [nCcalls EXCEPT ![t] = Short(@ + 1)]
          /\ last' = "call"
          /\ UNCHANGED <<nny, status, errorJmp, process, counts>>

\* error(), an error of the interpreter, or a luaL_check function of a packet method.
Error(t) == (In(t, "lua") \/ In(t, "c")) /\ Throw(t, ci[t])

\* coroutine.create: a coroutine nobody can refer to any more is replaced.
Create(t) ==
  /\ In(t, "lua")
  /\ \A i \in 1..Len(host) : host[i].th # Co
  /\ status[Co] # "new"
  /\ ci' = [ci EXCEPT ![Co] = <<>>]
  /\ nCcalls' = [nCcalls EXCEPT ![Co] = 0]
  /\ nny' = [nny EXCEPT ![Co] = 1]
  /\ status' = [status EXCEPT ![Co] = "new"]
  /\ errorJmp' = [errorJmp EXCEPT ![Co] = NoJmp]
  /\ last' = "create"
  /\ UNCHANGED <<host, process, counts>>

Resumable(u) == status[u] \in {"new", "yield"}

\* Mutant of Resume: a coroutine counts its C calls from the beginning.
ResumeAnew(t, u) ==
  /\ In(t, "lua") /\ Len(ci[t]) < MaxFrames
  /\ Resumable(u) /\ ~Overflows(t)
  /\ ci' = [ci EXCEPT ![t] = Append(@, "resume"),
                      ![u] = IF status[u] = "new" THEN <<"lua">> ELSE Under(@, Len(@) - 1)]
  /\ host' = Append(host, [Enter("resume", u, 0, FALSE) EXCEPT !.nCcalls = 1])
  /\ errorJmp' = [errorJmp EXCEPT ![u] = <<thrown, Len(host) + 1>>]
  /\ nCcalls' = [nCcalls EXCEPT ![u] = 1]
  /\ nny' = [nny EXCEPT ![u] = 0]
  /\ status' = [status EXCEPT ![u] = "ok"]
  /\ last' = "resume"
  /\ UNCHANGED <<process, counts>>

\* coroutine.resume of u: starts it, or lets the call of coroutine.yield return.
Resume(t, u) ==
  /\ In(t, "lua") /\ Len(ci[t]) < MaxFrames
  /\ Resumable(u) /\ ~Overflows(t)
  /\ ci' = [ci EXCEPT ![t] = Append(@, "resume"),
                      ![u] = IF status[u] = "new" THEN <<"lua">> ELSE Under(@, Len(@) - 1)]
  /\ host' = Append(host, [Enter("resume", u, 0, FALSE) EXCEPT !.nCcalls = Short(nCcalls[t] + 1)])
  /\ errorJmp' = [errorJmp EXCEPT ![u] = <<thrown, Len(host) + 1>>]
  /\ nCcalls' = [nCcalls EXCEPT ![u] = Short(nCcalls[t] + 1)]
  /\ nny' = [nny EXCEPT ![u] = 0]
  /\ status' = [status EXCEPT ![u] = "ok"]
  /\ last' = "resume"
  /\ UNCHANGED <<process, counts>>

\* resume_error: u is running, or waits for a coroutine it has resumed, or is dead, or
\* the C stack is full.  lua_resume has set the count of u all the same.
ResumeError(t, u) ==
  /\ In(t, "lua") /\ Len(ci[t]) < MaxFrames
  /\ ~Resumable(u) \/ Overflows(t)
  /\ status[u] = "ok" => ci[u] # <<>>
  /\ ci' = [ci EXCEPT ![t] = Append(@, "resume")]
  /\ nCcalls' = [nCcalls EXCEPT ![u] = nCcalls[t]]
  /\ last' = "resume"
  /\ UNCHANGED <<nny, status, errorJmp, host, process, counts>>

\* coroutine.yield: an error where a C function is in between, else a jump to
\* lua_resume, which returns to the resumer.
Yield(t) ==
  LET n == errorJmp[t][2]
  IN  /\ In(t, "lua") /\ Len(ci[t]) < MaxFrames
      /\ IF nny[t] > 0
         THEN Throw(t, Append(ci[t], "yield"))
         ELSE /\ ci' = [ci EXCEPT ![t] = Append(@, "yield")]
              /\ host' = Under(host, n - 1)
              /\ nCcalls' = [nCcalls EXCEPT ![t] = Short(host[n].nCcalls - 1)]
              /\ Restore(t, host[n])
              /\ status' = [status EXCEPT ![t] = "yield"]
              /\ last' = "yield"
              /\ UNCHANGED <<process, counts>>

\* s after its last call has returned; pcall is finished, wherever it goes on: after
\* luaD_call, or in finishCcall when its C activation is gone.
Returned(s) ==
  LET r == Under(s, Len(s) - 1)
  IN  IF r # <<>> /\ r[Len(r)] = "ypcall" THEN [r EXCEPT ![Len(r)] = "pcall"] ELSE r

\* The current call returns: luaD_poscall.  If it is the call that the innermost
\* activation made, luaD_call, luaD_pcall or lua_resume returns as well.
Return(t) ==
  /\ host # <<>> /\ process = "runs" /\ Thread = t
  /\ ci' = [ci EXCEPT ![t] = Returned(@)]
  /\ last' = "return"
  /\ UNCHANGED <<status, process, thrown, callbacks, tangled>>
  /\ IF Len(ci[t]) - 1 > Innermost.base
     THEN UNCHANGED <<nCcalls, nny, errorJmp, host, lost>>
     ELSE /\ host' = Under(host, Len(host) - 1)
          /\ lost' = IF Len(host) = 1 /\ Innermost.op = "call" THEN Short(nCcalls[t] - 1) ELSE lost
          /\ IF Innermost.op = "call"
             THEN /\ nCcalls' = [nCcalls EXCEPT ![t] = Short(@ - 1)]
                  /\ nny' = [nny EXCEPT ![t] = IF Innermost.free THEN @ ELSE @ - 1]
                  /\ UNCHANGED errorJmp
             ELSE /\ nCcalls' = [nCcalls EXCEPT ![t] = IF Innermost.op = "pcall" THEN Innermost.nCcalls
                                                       ELSE Short(Innermost.nCcalls - 1)]
                  /\ Restore(t, Innermost)

Script(t) ==
  \/ Call(t) \/ CallFromC(t) \/ CallMetamethod(t) \/ PCall(t) \/ YieldablePCall(t) \/ Error(t)
  \/ Create(t) \/ Yield(t) \/ Return(t) \/ Exception(t)
  \/ \E u \in LuaThreads : Resume(t, u) \/ ResumeError(t, u)

Next == Callback \/ Lookup \/ \E t \in LuaThreads : Script(t)

Spec == Init /\ [][Next]_vars

-----------------------------------------------------------------------------
(* Properties.                                                             *)

TypeOK ==
  /\ ci \in [LuaThreads -> Seq(CallInfos)]
  /\ nCcalls \in [LuaThreads -> Nat] /\ \A t \in LuaThreads : nCcalls[t] < 65536
  /\ nny \in [LuaThreads -> Nat]
  /\ status \in [LuaThreads -> {"new", "ok", "yield", "dead"}]
  /\ errorJmp \in [LuaThreads -> Nat \X Nat]
  /\ host \in Seq(Activation)
  /\ process \in {"runs", "aborts", "undefined", "confused"}
  /\ thrown \in 0..MaxThrown /\ lost \in Nat /\ callbacks \in 0..MaxCallbacks
  /\ tangled \in BOOLEAN
  /\ last \in {"init", "refused", "callback", "lookup", "exception", "error", "call", "create", "resume",
              "yield", "return"}

\* The activations of t on the C stack.
Active(t) == {i \in 1..Len(host) : host[i].th = t}

\* Unless a callback has been called out of a coroutine, no activation on the C stack
\* goes uncounted: the limit on nested C calls protects the C stack through pcall,
\* coroutines, nested callbacks, errors and recovered errors.  (Out of a coroutine the
\* framework's call counts from what the main thread has counted, so that the
\* activations of the coroutine are not counted in it.)  And none is counted for ever:
\* between two calls by the framework the main thread is as it was before, whatever was
\* nested, but for the calls that exceptions have cut off.
CallsCounted ==
  /\ TypeOK
  /\ ~tangled => \A t \in LuaThreads : /\ nCcalls[t] < MaxCCalls
                                       /\ Active(t) # {} => nCcalls[t] >= Max(Active(t)) + lost
  /\ Idle => /\ nCcalls[Main] = lost
             /\ nny[Main] >= 1 + thrown
             /\ thrown = 0 => nny[Main] = 1 /\ ci[Main] = <<>> /\ errorJmp[Main] = NoJmp

\* A coroutine may yield exactly when no activation of it that a yield cannot leave is
\* above the one that resumed it.
YieldableIffFree ==
  \A t \in LuaThreads :
    Active(t) # {} =>
      (nny[t] = 0 <=> /\ \E i \in Active(t) : host[i].op = "resume"
                      /\ \A i \in Active(t) : host[i].op = "resume" \/ host[i].free)

\* The activation that the script's errors do not go beyond: the framework's innermost
\* protected call, or where a thread began.
Floor(t) == Max({Min(Active(t))} \cup (Active(t) \cap Protected))

\* The calls of pcall of t above it.
PCalls(t) == {i \in host[Floor(t)].base + 1 .. Len(ci[t]) : ci[t][i] \in {"pcall", "ypcall"}}

\* An error of the script inside pcall ends in that pcall and in no other, nor in the
\* resumer nor in the framework: whether luaD_pcall is on the C stack or its activation
\* was lost to a yield or to an earlier error.  (An error in the call that pcall makes
\* may end in this new pcall.)  Outside any pcall it ends in the framework's innermost
\* protected call, or in the resumer, and what is below goes on.
EndsWhereItShould ==
  (last' = "error" /\ process' = "runs" /\ host # <<>>) =>
    LET t == Thread
        n == Max(PCalls(t))
    IN  \/ ci'[t] = Append(ci[t], "pcall") /\ host' # <<>> /\ Thread' = t
        \/ /\ PCalls(t) # {}
           /\ ci'[t] = Append(Under(ci[t], n - 1), "pcall") /\ host' # <<>> /\ Thread' = t
        \/ PCalls(t) = {} /\ host' = Under(host, Floor(t) - 1)
ErrorEndsInPCall == [][EndsWhereItShould]_vars

\* README.md: OnSend is "Called BEFORE your game client sends a packet", and the other
\* callbacks likewise: a callback that is not called out of a script, whose calls would
\* count, enters the script's function.
CallbackIsEntered == last = "refused" => host # <<>>
=============================================================================
