------------------------------- MODULE Library -------------------------------
(***************************************************************************)
(* The data side of the interpreter that runs the scripts: its tables,      *)
(* which live on from step to step, and the functions of its standard       *)
(* library and of its core that compute a result from their arguments.      *)
(*                                                                         *)
(* A behaviour is either a history of one table (module Table) or one       *)
(* question, such as a pattern and a subject, and the answer that the       *)
(* translated code gives to it.                                             *)
(***************************************************************************)
EXTENDS Table

CONSTANTS
  Questions,    \* a sequence of sets of questions: records with the function in
                \* their field about
  Answer(_),    \* what the code answers, by the operators that model it
  Right(_, _)   \* whether an answer is right, by a reference that shares none of them

VARIABLES
  question,     \* the question, or NoQuestion in the history of a table
  answer        \* NoAnswer until it is given

vars == <<tableVars, question, answer>>

NoQuestion == [about |-> "table"]
NoAnswer == [given |-> FALSE]

Init ==
  /\ TableInit
  /\ \/ question = NoQuestion
     \/ table = New /\ \E i \in DOMAIN Questions : question \in Questions[i]
  /\ answer = NoAnswer

Compute ==
  /\ question.about # "table"
  /\ ~answer.given
  /\ answer' = [given |-> TRUE, value |-> Answer(question)]
  /\ UNCHANGED <<tableVars, question>>

Next ==
  \/ question.about = "table" /\ TableStep /\ UNCHANGED <<question, answer>>
  \/ Compute

Spec == Init /\ [][Next]_vars

-----------------------------------------------------------------------------
PatternFunctions == {"find", "gmatch", "gsub"}

(* The matcher, which undoes its captures by hand when it backtracks, finds *)
(* the first way of all in which the pattern matches, with the captures of  *)
(* that way, and gsub replaces just what gmatch yields (lstrlib.c).         *)
MatchesFirstWay ==
  answer.given /\ question.about \in PatternFunctions => Right(question, answer.value)

(* Every other function gives what its reference says: sort a permutation   *)
(* whatever the order function, sorted when it is an order; what is packed, *)
(* encoded, spelled or dumped comes back; integers wrap where they should.  *)
AnswersAreRight ==
  answer.given /\ question.about \notin PatternFunctions => Right(question, answer.value)
=============================================================================
