---------------------------- MODULE Interception ----------------------------
(***************************************************************************)
(* What the hooks promise the client and the scripts, without code bytes,  *)
(* mutexes or recursion counts: the life of every packet.                  *)
(*                                                                         *)
(* A packet of the client is offered to the scripts, which discard or      *)
(* accept it.  An accepted packet waits for its turn, is handed to the     *)
(* client's function once and is then delivered.  While a packet has its   *)
(* turn the function is not guarded: other calls of it go straight in.     *)
(***************************************************************************)
EXTENDS Integers, Sequences

CONSTANTS
  Threads,  \* threads of the process
  Hooks     \* functions of the client that are guarded

VARIABLES
  inflight,  \* the packets every thread is busy with, the innermost one last
  guarded,   \* functions whose packets are offered
  halted     \* a thread has executed a mixture of old and new bytes

ivars == <<inflight, guarded, halted>>

\* "arming"    no packet: the function is being put under guard
\* "offered"   the scripts are deciding
\* "accepted"  waits until no other thread has a turn
\* "turn"      is being handed over
\* "inside"    is in the client's function
\* "delivered" the client's function has returned
Stages == {"arming", "offered", "accepted", "turn", "inside", "delivered"}

Packet == [hook : Hooks, direct : BOOLEAN, stage : Stages]

Item(h, direct, stage) == [hook |-> h, direct |-> direct, stage |-> stage]

Innermost(t) == inflight[t][Len(inflight[t])]
Is(t, h, direct, stage) == inflight[t] # <<>> /\ Innermost(t) = Item(h, direct, stage)

\* Thread t has its turn at h, or had it and has not yet ended it.
HasTurn(t, h) ==
  \E i \in 1..Len(inflight[t]) :
    /\ inflight[t][i].hook = h
    /\ ~inflight[t][i].direct
    /\ inflight[t][i].stage \in {"turn", "inside", "delivered"}

\* The jump is being written for the first time.
Arming(h) ==
  \E t \in Threads : \E i \in 1..Len(inflight[t]) : inflight[t][i] = Item(h, FALSE, "arming")

Enter(t, p) ==
  inflight' = [inflight EXCEPT ![t] = Append(@, p)] /\ UNCHANGED <<guarded, halted>>
Leave(t) ==
  inflight' = [inflight EXCEPT ![t] = SubSeq(@, 1, Len(@) - 1)] /\ UNCHANGED <<guarded, halted>>
Become(t, stage) ==
  /\ inflight' = [inflight EXCEPT ![t][Len(inflight[t])].stage = stage]
  /\ UNCHANGED <<guarded, halted>>

-----------------------------------------------------------------------------
IInit == inflight = [t \in Threads |-> <<>>] /\ guarded = {} /\ halted = FALSE

\* A function is put under guard.
Arm(t, h) == h \notin guarded /\ Enter(t, Item(h, FALSE, "arming"))

\* The client's packet is offered to the scripts: only where the function is guarded.
Offer(t, h) == h \in guarded /\ Enter(t, Item(h, FALSE, "offered"))

\* The client's packet goes straight in: before the guard, or during a turn.
PassBy(t, h) ==
  /\ h \notin guarded \/ Arming(h) \/ \E u \in Threads : HasTurn(u, h)
  /\ Enter(t, Item(h, TRUE, "turn"))

\* A script makes a packet of its own, which no script is asked about.
Submit(t, h) == guarded = Hooks /\ Enter(t, Item(h, FALSE, "accepted"))

Discard(t, h) == Is(t, h, FALSE, "offered") /\ Leave(t)
Accept(t, h) == Is(t, h, FALSE, "offered") /\ Become(t, "accepted")

\* One thread at a time hands over packets of h; it may do so from within its turn.
TakeTurn(t, h) ==
  /\ Is(t, h, FALSE, "accepted")
  /\ \A u \in Threads \ {t} : ~HasTurn(u, h)
  /\ Become(t, "turn")

Deliver(t, h) == (\E direct \in BOOLEAN : Is(t, h, direct, "turn")) /\ Become(t, "inside")
Finish(t, h) ==
  \/ Is(t, h, TRUE, "inside") /\ Leave(t)
  \/ Is(t, h, FALSE, "inside") /\ Become(t, "delivered")

\* The guard is up again before the turn ends.
Guard(t, h) ==
  /\ Is(t, h, FALSE, "arming") \/ Is(t, h, FALSE, "delivered")
  /\ guarded' = guarded \cup {h}
  /\ UNCHANGED <<inflight, halted>>
EndTurn(t, h) ==
  /\ Is(t, h, FALSE, "arming") \/ Is(t, h, FALSE, "delivered")
  /\ h \in guarded
  /\ Leave(t)

\* A mixture of bytes is met while another thread has a turn or arms, or by a packet
\* that goes straight in and is not yet inside when the guard comes up.
Halt(t, h) ==
  /\ \/ Arming(h) \/ \E u \in Threads \ {t} : HasTurn(u, h)
     \/ Is(t, h, TRUE, "turn")
  /\ halted' = TRUE
  /\ UNCHANGED <<inflight, guarded>>

Live(t, h) ==
  \/ Arm(t, h) \/ Offer(t, h) \/ PassBy(t, h) \/ Submit(t, h)
  \/ Discard(t, h) \/ Accept(t, h) \/ TakeTurn(t, h) \/ Deliver(t, h)
  \/ Finish(t, h) \/ Guard(t, h) \/ EndTurn(t, h) \/ Halt(t, h)

INext == ~halted /\ \E t \in Threads, h \in Hooks : Live(t, h)

ISpec == IInit /\ [][INext]_ivars
=============================================================================
