---------------------------------- MODULE Pool ----------------------------------
(*******************************************************************************)
(* What a pool of workers promises to those who submit jobs to it and to the   *)
(* one who destroys it: every job is done once, and when Destroy returns no job*)
(* is left.  WorkerPool implements it, Server is built on it.                  *)
(*******************************************************************************)
CONSTANT Job

VARIABLES pending,   \* jobs submitted and not done
          finished,  \* jobs done, their results committed
          state      \* "up", "destroying" or "down"

poolVars == <<pending, finished, state>>

Init == /\ pending = {}
        /\ finished = {}
        /\ state = "up"

Submit(j) == /\ state = "up"
             /\ j \notin pending \cup finished
             /\ pending' = pending \cup {j}
             /\ UNCHANGED <<finished, state>>

Finish(j) == /\ state # "down"
             /\ j \in pending
             /\ pending' = pending \ {j}
             /\ finished' = finished \cup {j}
             /\ UNCHANGED state

Destroy == /\ state = "up"
           /\ state' = "destroying"
           /\ UNCHANGED <<pending, finished>>

Down == /\ state = "destroying"
        /\ pending = {}
        /\ state' = "down"
        /\ UNCHANGED <<pending, finished>>

Next == (\E j \in Job : Submit(j) \/ Finish(j)) \/ Destroy \/ Down

Safety == Init /\ [][Next]_poolVars

(* Every job is done in the end, and Destroy returns.                          *)
Spec == /\ Safety
        /\ \A j \in Job : WF_poolVars(Finish(j))
        /\ WF_poolVars(Down)
================================================================================
