--------------------------------- MODULE Calls ---------------------------------
(******************************************************************************)
(* What a keyless connection promises to the goroutines that call DoOperation *)
(* on it: a call returns at most once, with the server's answer to its own    *)
(* request or with an error, and no call that begins after the connection was *)
(* closed reaches the server.                                                 *)
(******************************************************************************)
CONSTANT Op            \* the calls of DoOperation

VARIABLES call,        \* what each call is doing
          outcome,     \* what it returned
          answered,    \* the calls whose request the server has answered
          open         \* FALSE once Close has taken effect

vars == <<call, outcome, answered, open>>

Init == /\ call = [o \in Op |-> "idle"]
        /\ outcome = [o \in Op |-> "none"]
        /\ answered = {}
        /\ open = TRUE

(* A call on an open connection becomes pending.                              *)
Begin(o) == /\ open
            /\ call[o] = "idle"
            /\ call' = [call EXCEPT ![o] = "pending"]
            /\ UNCHANGED <<outcome, answered, open>>

(* A call on a closed connection fails without being sent.                    *)
Refuse(o) == /\ ~open
             /\ call[o] = "idle"
             /\ call' = [call EXCEPT ![o] = "done"]
             /\ outcome' = [outcome EXCEPT ![o] = "error"]
             /\ UNCHANGED <<answered, open>>

(* The server answers the request of a call that was begun; the call may have *)
(* returned already, because it timed out or the connection was closed.       *)
Answer(o) == /\ call[o] # "idle"
             /\ answered' = answered \cup {o}
             /\ UNCHANGED <<call, outcome, open>>

Return(o) == /\ call[o] = "pending"
             /\ call' = [call EXCEPT ![o] = "done"]
             /\ \/ /\ o \in answered
                   /\ outcome' = [outcome EXCEPT ![o] = "answer"]
                \/ outcome' = [outcome EXCEPT ![o] = "error"]
             /\ UNCHANGED <<answered, open>>

Close == /\ open
         /\ open' = FALSE
         /\ UNCHANGED <<call, outcome, answered>>

Next == \/ \E o \in Op : Begin(o) \/ Refuse(o) \/ Answer(o) \/ Return(o)
        \/ Close

Safety == Init /\ [][Next]_vars

(* A pending call returns: the fairness is about Return alone, since nobody   *)
(* has to begin a call, to close the connection or to answer.                 *)
Spec == Safety /\ \A o \in Op : WF_vars(Return(o))
================================================================================
