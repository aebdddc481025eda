------------------------------ MODULE MCHooks ------------------------------
(***************************************************************************)
(* Instances of Hooks for TLC.                                             *)
(***************************************************************************)
EXTENDS Hooks, TLC

\* The handler of an incoming packet may send packets and process the packets it
\* contains (SMSG_MULTIPLE_PACKETS); sending calls neither function.
ClientCalls == {<<"Process", "Send">>, <<"Process", "Process">>}

\* A client whose handlers never process a contained packet.
FlatCalls == {<<"Process", "Send">>}

\* A client that processes packets while it sends one: not what the client does.  With
\* these calls in place of FlatCalls, TLC finds that Hooks_liveness deadlocks.
OppositeCalls == FlatCalls \cup {<<"Send", "Process">>}

ThreadSymmetry == Permutations(ClientThreads)
=============================================================================
