---------------------------- MODULE MCScriptMgr ----------------------------
(***************************************************************************)
(* Instances of ScriptMgr for TLC.                                         *)
(***************************************************************************)
EXTENDS ScriptMgr, TLC

\* States are interchangeable, and so are the client's threads; names are ordered.
StateSymmetry == Permutations(States)
Symmetry == Permutations(States) \cup Permutations(ClientThreads)
=============================================================================
