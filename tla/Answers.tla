------------------------------ MODULE Answers -------------------------------
(***************************************************************************)
(* A validator answers Ok or the class and the reason of its first failed  *)
(* check: the checks are listed in the order of the code's early returns.  *)
(***************************************************************************)
EXTENDS Naturals, Sequences, FiniteSets

Ok == <<"ok", "ok">>

FirstFailure(checks) ==
    LET failed == {i \in DOMAIN checks : checks[i][1]}
    IN  IF failed = {} THEN Ok
        ELSE LET first == CHOOSE i \in failed : \A j \in failed : i <= j
             IN  <<checks[first][2], checks[first][3]>>

\* The ? operator: what follows counts when what came before is Ok.
Then(answer, next) == IF answer = Ok THEN next ELSE answer

\* The first answer of a sequence of answers that is not Ok.
FirstError(answers) ==
    LET failed == {i \in DOMAIN answers : answers[i] # Ok}
    IN  IF failed = {} THEN Ok
        ELSE answers[CHOOSE i \in failed : \A j \in failed : i <= j]

\* An optional value is the set of its values; The names the one it has.
The(option) == CHOOSE v \in option : TRUE
=============================================================================
