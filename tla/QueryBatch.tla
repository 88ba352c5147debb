----------------------------- MODULE QueryBatch -----------------------------
(***************************************************************************)
(* What QueryMachine_t promises to Client_t (src/src/querymachine.h:133):  *)
(* requests are put in, then each is answered for itself and in any order, *)
(* and the batch ends once: with all answers, or with an exception.        *)
(***************************************************************************)
EXTENDS Integers

CONSTANTS NumQueries,   \* most requests in a batch
          Errors        \* exceptions that can end it

VARIABLES known,        \* requests put in, numbered from 0
          answered,     \* requests whose complete answer is there
          result        \* "running", "ok" or an exception

vars == <<known, answered, result>>

Init == known = 0 /\ answered = {} /\ result = "running"

Running == result = "running"

\* Requests are put in before the first answer can come.
Submit ==
    /\ Running /\ known < NumQueries /\ answered = {}
    /\ known' = known + 1
    /\ result' \in {"running"} \cup Errors
    /\ UNCHANGED answered

Answer(q) ==
    /\ Running /\ q \notin answered
    /\ answered' = answered \cup {q}
    /\ UNCHANGED <<known, result>>

Succeed ==
    /\ Running /\ known > 0 /\ answered = 0 .. known - 1
    /\ result' = "ok"
    /\ UNCHANGED <<known, answered>>

Fail ==
    /\ Running
    /\ result' \in Errors
    /\ UNCHANGED <<known, answered>>

Next == Submit \/ (\E q \in 0 .. known - 1 : Answer(q)) \/ Succeed \/ Fail

Spec == Init /\ [][Next]_vars
=============================================================================
