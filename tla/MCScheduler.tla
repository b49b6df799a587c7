---------------------------- MODULE MCScheduler ----------------------------
(***************************************************************************)
(* Scheduler for TLC: the job ids the scheduler assigns, and one request   *)
(* for each way through Execute: two that are admitted and differ, one     *)
(* for each check that rejects (no request, command digest, input root     *)
(* digest, negative timeout, timeout that does not parse).                 *)
(***************************************************************************)
EXTENDS Scheduler

MCJobIds == <<"job1", "job2">>

Valid == [action |-> CHOOSE a \in Actions : TRUE, cmdValid |-> TRUE, inputValid |-> TRUE,
          timeout |-> "zero"]

MCRequests ==
    {Nil, Valid, [Valid EXCEPT !.cmdValid = FALSE], [Valid EXCEPT !.inputValid = FALSE]}
        \cup {[Valid EXCEPT !.timeout = t] : t \in {"negative", "positive", "overflow"}}

=============================================================================
