--------------------------------- MODULE Handle ---------------------------------
(*******************************************************************************)
(* What a connection handle promises to the server that spawned it and to the  *)
(* workers it gives jobs to.  It runs until both of its goroutines have        *)
(* returned and submits no job after that; it never has more than Max jobs in  *)
(* the pool and takes every response of theirs at once, even when it has       *)
(* ended; Destroy gets it to end.  ConnHandle implements it, Server is built   *)
(* on it.                                                                      *)
(*******************************************************************************)
EXTENDS Integers

CONSTANT Max

VARIABLES handle,      \* "running" or "ended"
          submitting,  \* it is about to submit a job
          jobs,        \* its jobs in the pool
          teardown     \* Destroy is "idle", "called" or has "returned"

handleVars == <<handle, submitting, jobs, teardown>>

Init == /\ handle = "running"
        /\ submitting = FALSE
        /\ jobs = 0
        /\ teardown = "idle"

Select == /\ handle = "running" /\ ~submitting
          /\ submitting' = TRUE
          /\ UNCHANGED <<handle, jobs, teardown>>

Submit == /\ submitting
          /\ jobs < Max
          /\ jobs' = jobs + 1
          /\ submitting' = FALSE
          /\ UNCHANGED <<handle, teardown>>

Commit == /\ jobs > 0
          /\ jobs' = jobs - 1
          /\ UNCHANGED <<handle, submitting, teardown>>

End == /\ handle = "running" /\ ~submitting
       /\ handle' = "ended"
       /\ UNCHANGED <<submitting, jobs, teardown>>

Call == /\ teardown = "idle"
        /\ teardown' = "called"
        /\ UNCHANGED <<handle, submitting, jobs>>

Return == /\ teardown = "called"
          /\ handle = "ended"
          /\ teardown' = "returned"
          /\ UNCHANGED <<handle, submitting, jobs>>

Next == Select \/ Submit \/ Commit \/ End \/ Call \/ Return

Safety == Init /\ [][Next]_handleVars

(* A job that is to be submitted is, responses are taken, and once Destroy is  *)
(* called the handle ends, although it may submit more jobs before it does.  A *)
(* handle that nobody destroys need not end: a client that sends requests and  *)
(* reads no responses holds its submitter in a write without a deadline.       *)
Spec == /\ Safety
        /\ WF_handleVars(Submit) /\ WF_handleVars(Commit)
        /\ SF_handleVars(teardown = "called" /\ End)
        /\ WF_handleVars(Return)
================================================================================
