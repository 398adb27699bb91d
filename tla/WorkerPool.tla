------------------------------- MODULE WorkerPool -------------------------------
(*******************************************************************************)
(* server/internal/worker/worker.go: a Pool of worker goroutines that receive  *)
(* jobs from one buffered channel.  Destroy sends one sentinel for each worker *)
(* through the same channel and waits for all of them to quit.                 *)
(*                                                                             *)
(* Nobody submits a job once Destroy has been called: the code leaves that     *)
(* undefined, and module Server shows that the server never does it.           *)
(*******************************************************************************)
EXTENDS Integers, Sequences, FiniteSets

CONSTANTS Worker, Job,
          Capacity,   \* of the channel jobs, 1024*1024 in the code
          Sentinel    \* Job{}, the job field nil

ASSUME PoolAssumption == /\ IsFiniteSet(Worker) /\ Worker # {}
                         /\ Capacity \in Nat \ {0}
                         /\ Sentinel \notin Job

VARIABLES jobs,      \* the channel
          wpc,       \* where each worker is
          current,   \* the job it has received, or Sentinel
          busy,      \* Pool.busy
          committed, \* jobs whose result is committed
          dpc,       \* where the caller of Destroy is
          sent,      \* sentinels it has sent
          submitted  \* history: jobs ever submitted

vars == <<jobs, wpc, current, busy, committed, dpc, sent, submitted>>

Init == /\ jobs = <<>>
        /\ wpc = [w \in Worker |-> "receive"]
        /\ current = [w \in Worker |-> Sentinel]
        /\ busy = 0
        /\ committed = {}
        /\ dpc = "idle"
        /\ sent = 0
        /\ submitted = {}

SubmitJob(j) ==
    /\ dpc = "idle" /\ j \notin submitted
    /\ Len(jobs) < Capacity
    /\ jobs' = Append(jobs, j)
    /\ submitted' = submitted \cup {j}
    /\ UNCHANGED <<wpc, current, busy, committed, dpc, sent>>
--------------------------------------------------------------------------------
(* The loop of a worker: job := <-p.jobs, return on the sentinel, count itself *)
(* busy, do the job and commit the result, count itself idle.                  *)
Receive(w) ==
    /\ wpc[w] = "receive" /\ jobs # <<>>
    /\ jobs' = Tail(jobs)
    /\ current' = [current EXCEPT ![w] = Head(jobs)]
    /\ wpc' = [wpc EXCEPT ![w] = IF Head(jobs) = Sentinel THEN "quit" ELSE "got"]
    /\ UNCHANGED <<busy, committed, dpc, sent, submitted>>

Begin(w) ==
    /\ wpc[w] = "got"
    /\ busy' = busy + 1
    /\ wpc' = [wpc EXCEPT ![w] = "do"]
    /\ UNCHANGED <<jobs, current, committed, dpc, sent, submitted>>

DoAndCommit(w) ==
    /\ wpc[w] = "do"
    /\ committed' = committed \cup {current[w]}
    /\ wpc' = [wpc EXCEPT ![w] = "done"]
    /\ UNCHANGED <<jobs, current, busy, dpc, sent, submitted>>

End(w) ==
    /\ wpc[w] = "done"
    /\ busy' = busy - 1
    /\ wpc' = [wpc EXCEPT ![w] = "receive"]
    /\ UNCHANGED <<jobs, current, committed, dpc, sent, submitted>>
--------------------------------------------------------------------------------
(* Destroy: send the sentinels, then wg.Wait                                   *)
DestroyCall ==
    /\ dpc = "idle"
    /\ dpc' = "send"
    /\ UNCHANGED <<jobs, wpc, current, busy, committed, sent, submitted>>

(* Mutant: one sentinel too few. *)
DestroySendOneLess ==
    /\ dpc = "send" /\ sent < Cardinality(Worker) - 1
    /\ Len(jobs) < Capacity
    /\ jobs' = Append(jobs, Sentinel)
    /\ sent' = sent + 1
    /\ UNCHANGED <<wpc, current, busy, committed, dpc, submitted>>

(* Mutant: the sentinel overtakes the jobs. *)
DestroySendFirst ==
    /\ dpc = "send" /\ sent < Cardinality(Worker)
    /\ Len(jobs) < Capacity
    /\ jobs' = <<Sentinel>> \o jobs
    /\ sent' = sent + 1
    /\ UNCHANGED <<wpc, current, busy, committed, dpc, submitted>>

DestroySend ==
    /\ dpc = "send" /\ sent < Cardinality(Worker)
    /\ Len(jobs) < Capacity
    /\ jobs' = Append(jobs, Sentinel)
    /\ sent' = sent + 1
    /\ UNCHANGED <<wpc, current, busy, committed, dpc, submitted>>

DestroyReturn ==
    /\ dpc = "send" /\ sent = Cardinality(Worker)
    /\ \A w \in Worker : wpc[w] = "quit"
    /\ dpc' = "returned"
    /\ UNCHANGED <<jobs, wpc, current, busy, committed, sent, submitted>>

worker(w) == Receive(w) \/ Begin(w) \/ DoAndCommit(w) \/ End(w)

Next == \/ \E j \in Job : SubmitJob(j)
        \/ \E w \in Worker : worker(w)
        \/ DestroyCall \/ DestroySend \/ DestroyReturn

Spec == Init /\ [][Next]_vars

(* Every worker that can take a step takes one, so a job ends; so does the     *)
(* caller of Destroy.                                                          *)
Fairness == /\ \A w \in Worker : WF_vars(worker(w))
            /\ WF_vars(DestroySend) /\ WF_vars(DestroyReturn)

FairSpec == Spec /\ Fairness
--------------------------------------------------------------------------------
TypeOK ==
    /\ jobs \in Seq(Job \cup {Sentinel}) /\ Len(jobs) <= Capacity
    /\ wpc \in [Worker -> {"receive", "got", "do", "done", "quit"}]
    /\ current \in [Worker -> Job \cup {Sentinel}]
    /\ busy \in Nat
    /\ committed \subseteq Job
    /\ dpc \in {"idle", "send", "returned"}
    /\ sent \in 0 .. Cardinality(Worker)
    /\ submitted \subseteq Job

(* What Busy() reports is never more than the number of workers, never         *)
(* negative, and zero when every worker waits or has quit.                     *)
BusyCountsWorkers == busy = Cardinality({w \in Worker : wpc[w] \in {"do", "done"}})

(* A job is with one worker at most, and no worker has a job whose result is   *)
(* already committed: no job is done twice.                                    *)
Doing(w) == wpc[w] \in {"got", "do"}
NoJobTwice ==
    /\ \A v, w \in Worker : Doing(v) /\ Doing(w) /\ current[v] = current[w] => v = w
    /\ \A w \in Worker : Doing(w) => current[w] \notin committed
    /\ \A w \in Worker, i \in 1 .. Len(jobs) : Doing(w) => jobs[i] # current[w]

(* A worker quits only when no job is left in the channel: the sentinels are   *)
(* behind every job that was ever submitted.                                   *)
QuitsLast ==
    (\E w \in Worker : wpc[w] = "quit") => \A i \in 1 .. Len(jobs) : jobs[i] = Sentinel

(* Every submitted job is done before Destroy returns.                         *)
DestroyedIsDone == dpc = "returned" => committed = submitted

(* The refinement mapping to module Pool.                                      *)
Outstanding == submitted \ committed
PoolState == [idle |-> "up", send |-> "destroying", returned |-> "down"][dpc]

Promise == INSTANCE Pool WITH pending <- Outstanding, finished <- committed,
                              state <- PoolState

(* Every submitted job is done once and Destroy returns with none left (module *)
(* Pool), under any interleaving of the workers.                               *)
KeepsPromise == Promise!Spec
================================================================================
