---- MODULE RequestService ----
(* What the command client promises to the code that gives it requests: a request is given once,
   and answered at most once, only after it was given.  An answer is the run of its handler, with
   a response or, when the connection was lost, without; the request is freed then, so a second
   answer would be a use of freed memory. *)
EXTENDS Naturals

CONSTANT Requests

VARIABLES
    issued,   \* the requests given so far
    answers   \* how often each was answered

vars == <<issued, answers>>

Init == issued = {} /\ answers = [r \in Requests |-> 0]

Issue(r) ==
    /\ r \notin issued
    /\ issued' = issued \cup {r}
    /\ UNCHANGED answers

Answer(r) ==
    /\ r \in issued
    /\ answers[r] = 0
    /\ answers' = [answers EXCEPT ![r] = 1]
    /\ UNCHANGED issued

Next == \E r \in Requests : Issue(r) \/ Answer(r)

Spec == Init /\ [][Next]_vars
====
