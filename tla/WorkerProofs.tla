------------------------------ MODULE WorkerProofs ------------------------------
(*******************************************************************************)
(* Proofs about the two kinds of pools of server/internal/worker, for any      *)
(* number of goroutines and any capacity.                                      *)
(*                                                                             *)
(* WorkerPool: the channel is first in, first out, so a sentinel comes out of  *)
(* it only when every job is out, and each job is in exactly one place: the    *)
(* channel, the hands of one worker, or done.                                  *)
(*                                                                             *)
(* RandBuffer, which a BackgroundPool fills: a nonce that is generated is in   *)
(* one place: in the hand of the goroutine that generated it, at one place in  *)
(* the buffer, in the hand of the signer that took it, or used up.             *)
(*******************************************************************************)
EXTENDS WorkerPool, RandBuffer, FiniteSetTheorems, TLAPS

(* The channel holds jobs that are not done, each once, and behind the first   *)
(* sentinel only sentinels.                                                    *)
Queue ==
    /\ \A i \in 1 .. Len(jobs) : jobs[i] # Sentinel => jobs[i] \in submitted \ committed
    /\ \A i, k \in 1 .. Len(jobs) : jobs[i] # Sentinel /\ jobs[i] = jobs[k] => i = k
    /\ \A i, k \in 1 .. Len(jobs) : i < k /\ jobs[i] = Sentinel => jobs[k] = Sentinel
    /\ dpc = "idle" => \A i \in 1 .. Len(jobs) : jobs[i] # Sentinel

(* What a worker has received was submitted; nobody quits before Destroy is    *)
(* called, and everybody has when it returns.                                  *)
Workers ==
    /\ \A w \in Worker : Doing(w) => current[w] \in submitted
    /\ dpc = "idle" => \A w \in Worker : wpc[w] # "quit"
    /\ dpc = "returned" => \A w \in Worker : wpc[w] = "quit"
    /\ committed \subseteq submitted

(* No job is lost.                                                             *)
Accounted ==
    \A j \in submitted \ committed :
        \/ \E i \in 1 .. Len(jobs) : jobs[i] = j
        \/ \E w \in Worker : Doing(w) /\ current[w] = j

Inv == TypeOK /\ BusyCountsWorkers /\ Queue /\ Workers /\ NoJobTwice /\ QuitsLast /\ Accounted

(* What Receive takes from the channel and leaves in it.                       *)
LEMMA ReceiveFacts ==
    ASSUME TypeOK, jobs # <<>>
    PROVE  /\ Head(jobs) = jobs[1] /\ 1 \in 1 .. Len(jobs)
           /\ Head(jobs) \in Job \cup {Sentinel}
           /\ Tail(jobs) \in Seq(Job \cup {Sentinel})
           /\ Len(Tail(jobs)) = Len(jobs) - 1
           /\ \A i \in 1 .. Len(Tail(jobs)) :
                 /\ Tail(jobs)[i] = jobs[i + 1]
                 /\ i + 1 \in 1 .. Len(jobs) /\ i + 1 > 1
           /\ \A i \in 1 .. Len(jobs) : i # 1 =>
                 i - 1 \in 1 .. Len(Tail(jobs)) /\ Tail(jobs)[i - 1] = jobs[i]
BY DEF TypeOK

(* What a send on the channel leaves in it.                                    *)
LEMMA SendFacts ==
    ASSUME TypeOK, NEW e \in Job \cup {Sentinel}
    PROVE  LET q == Append(jobs, e) IN
           /\ q \in Seq(Job \cup {Sentinel})
           /\ Len(q) = Len(jobs) + 1 /\ Len(jobs) \in Nat
           /\ q[Len(jobs) + 1] = e
           /\ \A i \in 1 .. Len(jobs) : q[i] = jobs[i] /\ i \in 1 .. Len(q)
           /\ \A i \in 1 .. Len(q) : i \in 1 .. Len(jobs) \/ i = Len(jobs) + 1
BY DEF TypeOK

(* A worker that counts itself busy or idle changes the count by one.          *)
LEMMA BusyStep == Inv /\ [Next]_vars => BusyCountsWorkers'
<1> SUFFICES ASSUME Inv, [Next]_vars PROVE BusyCountsWorkers'
    OBVIOUS
<1> DEFINE Set == {w \in Worker : wpc[w] \in {"do", "done"}}
<1> USE PoolAssumption DEF Inv, TypeOK, BusyCountsWorkers
<1>1. IsFiniteSet(Set) /\ Cardinality(Set) \in Nat
    BY FS_Subset, FS_CardinalityType
<1>2. ASSUME NEW w \in Worker, Begin(w) PROVE BusyCountsWorkers'
  <2>1. Set' = Set \cup {w} /\ w \notin Set
    BY <1>2 DEF Begin
  <2>2. Cardinality(Set \cup {w}) = Cardinality(Set) + 1
    BY <1>1, <2>1, FS_AddElement, Zenon
  <2> QED
    BY <1>2, <2>1, <2>2, Zenon DEF Begin
<1>3. ASSUME NEW w \in Worker, End(w) PROVE BusyCountsWorkers'
  <2>1. Set' = Set \ {w} /\ w \in Set
    BY <1>3 DEF End
  <2>2. Cardinality(Set \ {w}) = Cardinality(Set) - 1
    BY <1>1, <2>1, FS_RemoveElement, Zenon
  <2> QED
    BY <1>3, <2>1, <2>2, Zenon DEF End
<1>4. ASSUME UNCHANGED busy, Set' = Set PROVE BusyCountsWorkers'
    BY <1>4, Zenon
<1>5. ASSUME NEW j \in Job, SubmitJob(j) PROVE BusyCountsWorkers'
    BY <1>4, <1>5 DEF SubmitJob
<1>6. ASSUME NEW w \in Worker, Receive(w) PROVE BusyCountsWorkers'
  <2>1. Set' = Set
    BY <1>6 DEF Receive
  <2> QED
    BY <1>4, <1>6, <2>1 DEF Receive
<1>7. ASSUME NEW w \in Worker, DoAndCommit(w) PROVE BusyCountsWorkers'
  <2>1. Set' = Set
    BY <1>7 DEF DoAndCommit
  <2> QED
    BY <1>4, <1>7, <2>1 DEF DoAndCommit
<1>8. CASE DestroyCall \/ DestroySend \/ DestroyReturn
    BY <1>4, <1>8 DEF DestroyCall, DestroySend, DestroyReturn
<1>9. CASE UNCHANGED vars
    BY <1>4, <1>9 DEF vars
<1> QED
    BY <1>2, <1>3, <1>5, <1>6, <1>7, <1>8, <1>9 DEF Next, worker

(* The count is a number.                                                      *)
LEMMA BusyPositive == Inv /\ [Next]_vars => busy' \in Nat
<1> SUFFICES ASSUME Inv, [Next]_vars PROVE busy' \in Nat
    OBVIOUS
<1> DEFINE Set == {w \in Worker : wpc'[w] \in {"do", "done"}}
<1>1. IsFiniteSet(Set)
    BY PoolAssumption, FS_Subset
<1>2. busy' = Cardinality(Set)
    BY BusyStep DEF BusyCountsWorkers
<1> QED
    BY <1>1, <1>2, FS_CardinalityType

LEMMA InitInv == Init => Inv
<1> SUFFICES ASSUME Init PROVE Inv
    OBVIOUS
<1> USE PoolAssumption DEF Init
<1>1. Cardinality(Worker) \in Nat
    BY FS_CardinalityType
<1>2. TypeOK
    BY <1>1 DEF TypeOK
<1>3. BusyCountsWorkers
  <2>1. {w \in Worker : wpc[w] \in {"do", "done"}} = {}
    OBVIOUS
  <2> QED
    BY <2>1, FS_EmptySet, Zenon DEF BusyCountsWorkers
<1> QED
    BY <1>2, <1>3 DEF Inv, Queue, Workers, NoJobTwice, Doing, QuitsLast, Accounted

(* Types are kept.                                                             *)
LEMMA TypeStep == Inv /\ [Next]_vars => TypeOK'
<1> SUFFICES ASSUME Inv, [Next]_vars PROVE TypeOK'
    OBVIOUS
<1> USE PoolAssumption DEF Inv, TypeOK, Workers
<1>1. ASSUME NEW j \in Job, SubmitJob(j) PROVE TypeOK'
    BY <1>1, SendFacts DEF SubmitJob
<1>2. ASSUME NEW w \in Worker, Receive(w) PROVE TypeOK'
    BY <1>2, ReceiveFacts DEF Receive
<1>3. ASSUME NEW w \in Worker, Begin(w) PROVE TypeOK'
    BY <1>3 DEF Begin
<1>4. ASSUME NEW w \in Worker, DoAndCommit(w) PROVE TypeOK'
    BY <1>4 DEF DoAndCommit, Doing
<1>5. ASSUME NEW w \in Worker, End(w) PROVE TypeOK'
    BY <1>5, BusyPositive DEF End
<1>6. CASE DestroyCall
    BY <1>6 DEF DestroyCall
<1>7. CASE DestroySend
    BY <1>7, SendFacts, FS_CardinalityType DEF DestroySend
<1>8. CASE DestroyReturn
    BY <1>8 DEF DestroyReturn
<1>9. CASE UNCHANGED vars
    BY <1>9 DEF vars
<1> QED
    BY <1>1, <1>2, <1>3, <1>4, <1>5, <1>6, <1>7, <1>8, <1>9
       DEF Next, worker

(* The channel stays in order.                                                 *)
LEMMA QueueStep == Inv /\ [Next]_vars => Queue'
<1> SUFFICES ASSUME Inv, [Next]_vars PROVE Queue'
    OBVIOUS
<1> USE PoolAssumption DEF Inv, TypeOK, Queue
<1>1. ASSUME NEW j \in Job, SubmitJob(j) PROVE Queue'
    BY <1>1, SendFacts DEF SubmitJob, Workers
<1>2. ASSUME NEW w \in Worker, Receive(w) PROVE Queue'
    BY <1>2, ReceiveFacts DEF Receive
<1>3. ASSUME NEW w \in Worker, Begin(w) PROVE Queue'
    BY <1>3 DEF Begin
<1>4. ASSUME NEW w \in Worker, DoAndCommit(w) PROVE Queue'
    BY <1>4 DEF DoAndCommit, NoJobTwice, Doing
<1>5. ASSUME NEW w \in Worker, End(w) PROVE Queue'
    BY <1>5 DEF End
<1>6. CASE DestroyCall
    BY <1>6 DEF DestroyCall
<1>7. CASE DestroySend
    BY <1>7, SendFacts DEF DestroySend
<1>8. CASE DestroyReturn
    BY <1>8 DEF DestroyReturn
<1>9. CASE UNCHANGED vars
    BY <1>9 DEF vars
<1> QED
    BY <1>1, <1>2, <1>3, <1>4, <1>5, <1>6, <1>7, <1>8, <1>9
       DEF Next, worker

(* The workers stay in step with the channel and with Destroy.                 *)
LEMMA WorkersStep == Inv /\ [Next]_vars => Workers'
<1> SUFFICES ASSUME Inv, [Next]_vars PROVE Workers'
    OBVIOUS
<1> USE PoolAssumption DEF Inv, TypeOK, Workers, Doing
<1>1. ASSUME NEW j \in Job, SubmitJob(j) PROVE Workers'
    BY <1>1 DEF SubmitJob
<1>2. ASSUME NEW w \in Worker, Receive(w) PROVE Workers'
    BY <1>2, ReceiveFacts DEF Receive, Queue
<1>3. ASSUME NEW w \in Worker, Begin(w) PROVE Workers'
    BY <1>3 DEF Begin
<1>4. ASSUME NEW w \in Worker, DoAndCommit(w) PROVE Workers'
    BY <1>4 DEF DoAndCommit
<1>5. ASSUME NEW w \in Worker, End(w) PROVE Workers'
    BY <1>5 DEF End
<1>6. CASE DestroyCall
    BY <1>6 DEF DestroyCall
<1>7. CASE DestroySend
    BY <1>7 DEF DestroySend
<1>8. CASE DestroyReturn
    BY <1>8 DEF DestroyReturn
<1>9. CASE UNCHANGED vars
    BY <1>9 DEF vars
<1> QED
    BY <1>1, <1>2, <1>3, <1>4, <1>5, <1>6, <1>7, <1>8, <1>9
       DEF Next, worker

(* No two workers get one job, and none gets a job that is done.               *)
LEMMA TwiceStep == Inv /\ [Next]_vars => NoJobTwice'
<1> SUFFICES ASSUME Inv, [Next]_vars PROVE NoJobTwice'
    OBVIOUS
<1> USE PoolAssumption DEF Inv, TypeOK, NoJobTwice, Doing
<1>1. ASSUME NEW j \in Job, SubmitJob(j) PROVE NoJobTwice'
    BY <1>1, SendFacts DEF SubmitJob, Workers
<1>2. ASSUME NEW w \in Worker, Receive(w) PROVE NoJobTwice'
    BY <1>2, ReceiveFacts DEF Receive, Queue
<1>3. ASSUME NEW w \in Worker, Begin(w) PROVE NoJobTwice'
    BY <1>3 DEF Begin
<1>4. ASSUME NEW w \in Worker, DoAndCommit(w) PROVE NoJobTwice'
    BY <1>4 DEF DoAndCommit
<1>5. ASSUME NEW w \in Worker, End(w) PROVE NoJobTwice'
    BY <1>5 DEF End
<1>6. CASE DestroyCall
    BY <1>6 DEF DestroyCall
<1>7. CASE DestroySend
    BY <1>7, SendFacts DEF DestroySend, Workers
<1>8. CASE DestroyReturn
    BY <1>8 DEF DestroyReturn
<1>9. CASE UNCHANGED vars
    BY <1>9 DEF vars
<1> QED
    BY <1>1, <1>2, <1>3, <1>4, <1>5, <1>6, <1>7, <1>8, <1>9
       DEF Next, worker

(* Sentinels come out last.                                                    *)
LEMMA QuitsStep == Inv /\ [Next]_vars => QuitsLast'
<1> SUFFICES ASSUME Inv, [Next]_vars PROVE QuitsLast'
    OBVIOUS
<1> USE PoolAssumption DEF Inv, TypeOK, QuitsLast
<1>1. ASSUME NEW j \in Job, SubmitJob(j) PROVE QuitsLast'
    BY <1>1, SendFacts DEF SubmitJob, Workers
<1>2. ASSUME NEW w \in Worker, Receive(w) PROVE QuitsLast'
    BY <1>2, ReceiveFacts DEF Receive, Queue
<1>3. ASSUME NEW w \in Worker, Begin(w) PROVE QuitsLast'
    BY <1>3 DEF Begin
<1>4. ASSUME NEW w \in Worker, DoAndCommit(w) PROVE QuitsLast'
    BY <1>4 DEF DoAndCommit
<1>5. ASSUME NEW w \in Worker, End(w) PROVE QuitsLast'
    BY <1>5 DEF End
<1>6. CASE DestroyCall
    BY <1>6 DEF DestroyCall
<1>7. CASE DestroySend
    BY <1>7, SendFacts DEF DestroySend
<1>8. CASE DestroyReturn
    BY <1>8 DEF DestroyReturn
<1>9. CASE UNCHANGED vars
    BY <1>9 DEF vars
<1> QED
    BY <1>1, <1>2, <1>3, <1>4, <1>5, <1>6, <1>7, <1>8, <1>9
       DEF Next, worker

(* No job is lost on the way.                                                  *)
LEMMA AccountedStep == Inv /\ [Next]_vars => Accounted'
<1> SUFFICES ASSUME Inv, [Next]_vars PROVE Accounted'
    OBVIOUS
<1> USE PoolAssumption DEF Inv, TypeOK, Accounted, Doing
<1>1. ASSUME NEW j \in Job, SubmitJob(j) PROVE Accounted'
    BY <1>1, SendFacts DEF SubmitJob
<1>2. ASSUME NEW w \in Worker, Receive(w) PROVE Accounted'
  <2> SUFFICES ASSUME NEW j \in submitted \ committed
               PROVE  \/ \E i \in 1 .. Len(jobs') : jobs'[i] = j
                      \/ \E v \in Worker : Doing(v)' /\ current'[v] = j
    BY <1>2 DEF Receive
  <2>1. CASE \E i \in 1 .. Len(jobs) : jobs[i] = j
    <3> PICK i \in 1 .. Len(jobs) : jobs[i] = j
      BY <2>1
    <3>1. CASE i = 1
      <4>1. Head(jobs) = j /\ Head(jobs) # Sentinel
        BY <1>2, <3>1, ReceiveFacts DEF Receive
      <4> QED
        BY <1>2, <4>1 DEF Receive
    <3>2. CASE i # 1
      <4>1. i - 1 \in 1 .. Len(Tail(jobs)) /\ Tail(jobs)[i - 1] = j
        BY <1>2, <3>2, ReceiveFacts DEF Receive
      <4> QED
        BY <1>2, <4>1, Zenon DEF Receive
    <3> QED
      BY <3>1, <3>2
  <2>2. CASE \E v \in Worker : Doing(v) /\ current[v] = j
    BY <1>2, <2>2 DEF Receive
  <2> QED
    BY <2>1, <2>2
<1>3. ASSUME NEW w \in Worker, Begin(w) PROVE Accounted'
    BY <1>3 DEF Begin
<1>4. ASSUME NEW w \in Worker, DoAndCommit(w) PROVE Accounted'
    BY <1>4 DEF DoAndCommit
<1>5. ASSUME NEW w \in Worker, End(w) PROVE Accounted'
    BY <1>5 DEF End
<1>6. CASE DestroyCall
    BY <1>6 DEF DestroyCall
<1>7. CASE DestroySend
    BY <1>7, SendFacts DEF DestroySend
<1>8. CASE DestroyReturn
    BY <1>8 DEF DestroyReturn
<1>9. CASE UNCHANGED vars
    BY <1>9 DEF vars
<1> QED
    BY <1>1, <1>2, <1>3, <1>4, <1>5, <1>6, <1>7, <1>8, <1>9
       DEF Next, worker

(* Destroy returns only when nothing is outstanding.                           *)
LEMMA NothingLeft ==
    ASSUME Inv, \A w \in Worker : wpc[w] = "quit"
    PROVE  Outstanding = {}
<1>1. \A i \in 1 .. Len(jobs) : jobs[i] = Sentinel
    BY PoolAssumption DEF Inv, QuitsLast
<1> QED
    BY <1>1, PoolAssumption DEF Inv, TypeOK, Accounted, Doing, Outstanding

LEMMA Invariance == Spec => []Inv
<1>1. Inv /\ [Next]_vars => Inv'
    BY TypeStep, BusyStep, QueueStep, WorkersStep, TwiceStep, QuitsStep,
       AccountedStep DEF Inv
<1> QED
    BY InitInv, <1>1, PTL DEF Spec

(* Type correctness of the pool.                                               *)
THEOREM PoolTypeCorrect == Spec => []TypeOK
BY Invariance, PTL DEF Inv

(* Busy() reports exactly the workers that are at work.                        *)
THEOREM BusyIsExact == Spec => []BusyCountsWorkers
BY Invariance, PTL DEF Inv

(* No job is done twice.                                                       *)
THEOREM JobsAreDoneOnce == Spec => []NoJobTwice
BY Invariance, PTL DEF Inv

(* A worker quits only when the channel has no job left.                       *)
THEOREM WorkersQuitLast == Spec => []QuitsLast
BY Invariance, PTL DEF Inv

(* When Destroy returns every job ever submitted is done.                      *)
THEOREM DestroyLosesNoJob == Spec => []DestroyedIsDone
<1>1. Inv => DestroyedIsDone
    BY NothingLeft DEF Inv, Workers, Outstanding, DestroyedIsDone
<1> QED
    BY Invariance, <1>1, PTL

(* Every step of the pool is a step of module Pool or changes nothing of it.   *)
LEMMA PromiseStep == Inv /\ [Next]_vars => [Promise!Next]_(Promise!poolVars)
<1> SUFFICES ASSUME Inv, [Next]_vars PROVE [Promise!Next]_(Promise!poolVars)
    OBVIOUS
<1>1. ASSUME NEW j \in Job, SubmitJob(j) PROVE Promise!Next
  <2>1. Promise!Submit(j)
    BY <1>1 DEF SubmitJob, Promise!Submit, Outstanding, PoolState, Inv, Workers
  <2> QED
    BY <2>1 DEF Promise!Next
<1>2. ASSUME NEW w \in Worker, DoAndCommit(w) PROVE Promise!Next
  <2>1. current[w] \in Outstanding /\ current[w] \in Job
    BY <1>2 DEF DoAndCommit, Inv, TypeOK, Workers, NoJobTwice, Doing, Outstanding
  <2>2. dpc \in {"idle", "send"}
    BY <1>2 DEF DoAndCommit, Inv, TypeOK, Workers
  <2>3. Promise!Finish(current[w])
    BY <1>2, <2>1, <2>2 DEF DoAndCommit, Promise!Finish, Outstanding, PoolState
  <2> QED
    BY <2>1, <2>3 DEF Promise!Next
<1>3. CASE DestroyCall
  <2>1. Promise!Destroy
    BY <1>3 DEF DestroyCall, Promise!Destroy, Outstanding, PoolState
  <2> QED
    BY <2>1 DEF Promise!Next
<1>4. CASE DestroyReturn
  <2>1. Outstanding = {}
    BY <1>4, NothingLeft DEF DestroyReturn
  <2>2. Promise!Down
    BY <1>4, <2>1 DEF DestroyReturn, Promise!Down, Outstanding, PoolState
  <2> QED
    BY <2>2 DEF Promise!Next
<1>5. ASSUME UNCHANGED <<submitted, committed, dpc>> PROVE UNCHANGED Promise!poolVars
    BY <1>5 DEF Promise!poolVars, Outstanding, PoolState
<1>6. ASSUME NEW w \in Worker, Receive(w) \/ Begin(w) \/ End(w)
      PROVE UNCHANGED Promise!poolVars
    BY <1>5, <1>6 DEF Receive, Begin, End
<1>7. CASE DestroySend
    BY <1>5, <1>7 DEF DestroySend
<1>8. CASE UNCHANGED vars
    BY <1>5, <1>8 DEF vars
<1> QED
    BY <1>1, <1>2, <1>3, <1>4, <1>6, <1>7, <1>8 DEF Next, worker

(* The pool implements the safety part of module Pool.                         *)
THEOREM PoolImplementsPromise == Spec => Promise!Safety
<1>1. Init => Promise!Init
    BY DEF Init, Promise!Init, Outstanding, PoolState
<1> QED
    BY <1>1, Invariance, PromiseStep, PTL DEF Spec, Promise!Safety
--------------------------------------------------------------------------------
(* The buffer of nonces                                                        *)

(* A goroutine between getting a nonce and passing it on.                      *)
Holding(g) == \/ g \in Filler /\ fpc[g] = "put"
              \/ g \in Signer /\ spc[g] = "compute"

(* A followed nonce is still to come, or used up: then nobody has it.          *)
Absent(n) == /\ \A i \in 1 .. Len(buf) : buf[i] # n
             /\ \A g \in Goroutine : Holding(g) => hand[g] # n

OnePlace ==
    /\ \A i, k \in 1 .. Len(buf) : buf[i] \in Nonce /\ buf[i] = buf[k] => i = k
    /\ \A g, h \in Goroutine : Holding(g) /\ Holding(h) /\ hand[g] \in Nonce
                               /\ hand[g] = hand[h] => g = h
    /\ \A g \in Goroutine, i \in 1 .. Len(buf) :
          Holding(g) /\ hand[g] \in Nonce => buf[i] # hand[g]

Spent ==
    \A n \in Nonce : /\ signed[n] \in {0, 1}
                     /\ signed[n] = 1 \/ n \notin generated => Absent(n)
                     /\ n \notin generated => signed[n] = 0

BufferInv == BufferTypeOK /\ OnePlace /\ Spent

(* What a signer takes out of the buffer.                                      *)
LEMMA TakeFacts ==
    ASSUME BufferTypeOK, buf # <<>>
    PROVE  /\ Head(buf) = buf[1] /\ 1 \in 1 .. Len(buf) /\ Head(buf) \in Value
           /\ Tail(buf) \in Seq(Value) /\ Len(Tail(buf)) = Len(buf) - 1
           /\ \A i \in 1 .. Len(Tail(buf)) :
                 /\ Tail(buf)[i] = buf[i + 1]
                 /\ i + 1 \in 1 .. Len(buf) /\ i + 1 # 1
BY DEF BufferTypeOK

(* What a filler puts into the buffer.                                         *)
LEMMA PutFacts ==
    ASSUME BufferTypeOK, NEW e \in Value
    PROVE  LET q == Append(buf, e) IN
           /\ q \in Seq(Value) /\ Len(q) = Len(buf) + 1 /\ Len(buf) \in Nat
           /\ q[Len(buf) + 1] = e
           /\ \A i \in 1 .. Len(buf) : q[i] = buf[i] /\ i \in 1 .. Len(q)
           /\ \A i \in 1 .. Len(q) : i \in 1 .. Len(buf) \/ i = Len(buf) + 1
BY DEF BufferTypeOK

LEMMA BufferInitInv == BufferInit => BufferInv
<1> SUFFICES ASSUME BufferInit PROVE BufferInv
    OBVIOUS
<1> USE BufferAssumption DEF BufferInit
<1>1. buf \in Seq(Value) /\ Len(buf) = 0 /\ Len(buf) <= RandBufferLen
    OBVIOUS
<1>2. BufferTypeOK
    BY <1>1, Zenon DEF BufferTypeOK, Value
<1> QED
    BY <1>1, <1>2 DEF BufferInv, OnePlace, Spent, Absent, Holding, Goroutine

(* Types are kept.                                                             *)
LEMMA BufferTypeStep == BufferInv /\ [BufferNext]_bufferVars => BufferTypeOK'
<1> SUFFICES ASSUME BufferInv, [BufferNext]_bufferVars PROVE BufferTypeOK'
    OBVIOUS
<1> USE BufferAssumption DEF BufferInv, BufferTypeOK, Goroutine, Value
<1>1. ASSUME NEW f \in Filler, Loop(f) PROVE BufferTypeOK'
    BY <1>1 DEF Loop
<1>2. ASSUME NEW f \in Filler, FillGenerate(f) PROVE BufferTypeOK'
    BY <1>2 DEF FillGenerate, genRandForSign
<1>3. ASSUME NEW f \in Filler, FillPanic(f) PROVE BufferTypeOK'
    BY <1>3 DEF FillPanic
<1>4. ASSUME NEW f \in Filler, FillPut(f) PROVE BufferTypeOK'
  <2> hand[f] \in Value
    BY DEF Goroutine
  <2>1. CASE Len(buf) < RandBufferLen /\ buf' = Append(buf, hand[f])
    <3> DEFINE q == Append(buf, hand[f])
    <3>1. /\ q \in Seq(Value) /\ Len(q) = Len(buf) + 1 /\ Len(buf) \in Nat
          /\ q[Len(buf) + 1] = hand[f]
          /\ \A i \in 1 .. Len(buf) : q[i] = buf[i] /\ i \in 1 .. Len(q)
          /\ \A i \in 1 .. Len(q) : i \in 1 .. Len(buf) \/ i = Len(buf) + 1
      BY PutFacts
    <3>2. buf' = q /\ Len(q) <= RandBufferLen
      BY <2>1, <3>1
    <3> HIDE DEF q
    <3> QED
      BY <1>4, <3>1, <3>2 DEF FillPut
  <2>2. CASE cancelled /\ UNCHANGED buf
    BY <1>4, <2>2 DEF FillPut
  <2> QED
    BY <1>4, <2>1, <2>2 DEF FillPut
<1>5. ASSUME NEW s \in Signer, SignCall(s) PROVE BufferTypeOK'
    BY <1>5 DEF SignCall
<1>6. ASSUME NEW s \in Signer, Gen(s) PROVE BufferTypeOK'
  <2>1. CASE buf # <<>>
    <3> DEFINE q == Tail(buf)  x == Head(buf)
    <3>1. /\ x = buf[1] /\ 1 \in 1 .. Len(buf) /\ x \in Value
          /\ q \in Seq(Value) /\ Len(q) = Len(buf) - 1
          /\ \A i \in 1 .. Len(q) : /\ q[i] = buf[i + 1]
                                    /\ i + 1 \in 1 .. Len(buf) /\ i + 1 # 1
      BY <2>1, TakeFacts
    <3>2. /\ buf' = q /\ hand' = [hand EXCEPT ![s] = x] /\ UNCHANGED generated
          /\ spc[s] = "gen" /\ spc' = [spc EXCEPT ![s] = "compute"]
          /\ UNCHANGED <<fpc, cancelled, bpc, crashed, signed>>
      BY <1>6, <2>1 DEF Gen
    <3> HIDE DEF q, x
    <3> QED
      BY <3>1, <3>2
  <2>2. CASE buf = <<>>
    BY <1>6, <2>2 DEF Gen, genRandForSign
  <2> QED
    BY <2>1, <2>2
<1>7. ASSUME NEW s \in Signer, GenError(s) PROVE BufferTypeOK'
    BY <1>7 DEF GenError
<1>8. ASSUME NEW s \in Signer, Compute(s) PROVE BufferTypeOK'
    BY <1>8 DEF Compute
<1>9. ASSUME NEW s \in Signer, ComputeZero(s) PROVE BufferTypeOK'
    BY <1>9 DEF ComputeZero
<1>10. CASE Cancel
    BY <1>10 DEF Cancel
<1>11. CASE BackgroundDestroyReturn
    BY <1>11 DEF BackgroundDestroyReturn
<1>12. CASE UNCHANGED bufferVars
    BY <1>12 DEF bufferVars
<1> QED
    BY <1>1, <1>2, <1>3, <1>4, <1>5, <1>6, <1>7, <1>8, <1>9, <1>10, <1>11,
       <1>12, Zenon
       DEF BufferNext, Step, filler, Sign

(* A nonce moves, it is never copied.                                          *)
LEMMA OnePlaceStep == BufferInv /\ [BufferNext]_bufferVars => OnePlace'
<1> SUFFICES ASSUME BufferInv, [BufferNext]_bufferVars PROVE OnePlace'
    OBVIOUS
<1> USE BufferAssumption DEF BufferInv, BufferTypeOK, Goroutine, OnePlace, Spent, Absent, Holding, Value
<1>1. ASSUME NEW f \in Filler, Loop(f) PROVE OnePlace'
    BY <1>1 DEF Loop
<1>2. ASSUME NEW f \in Filler, FillGenerate(f) PROVE OnePlace'
    BY <1>2 DEF FillGenerate, genRandForSign
<1>3. ASSUME NEW f \in Filler, FillPanic(f) PROVE OnePlace'
    BY <1>3 DEF FillPanic
<1>4. ASSUME NEW f \in Filler, FillPut(f) PROVE OnePlace'
  <2> hand[f] \in Value
    BY DEF Goroutine
  <2>1. CASE Len(buf) < RandBufferLen /\ buf' = Append(buf, hand[f])
    <3> DEFINE q == Append(buf, hand[f])
    <3>1. /\ q \in Seq(Value) /\ Len(q) = Len(buf) + 1 /\ Len(buf) \in Nat
          /\ q[Len(buf) + 1] = hand[f]
          /\ \A i \in 1 .. Len(buf) : q[i] = buf[i] /\ i \in 1 .. Len(q)
          /\ \A i \in 1 .. Len(q) : i \in 1 .. Len(buf) \/ i = Len(buf) + 1
      BY PutFacts
    <3>2. buf' = q /\ Len(q) <= RandBufferLen
      BY <2>1, <3>1
    <3> HIDE DEF q
    <3> DEFINE x == hand[f]
    <3>3. /\ \A g \in Goroutine \ {f} : (Holding(g)' <=> Holding(g)) /\ hand'[g] = hand[g]
          /\ ~Holding(f)' /\ Holding(f) /\ f \in Goroutine
      BY <1>4 DEF FillPut
    <3>4. \A i \in 1 .. Len(buf') : \/ (i \in 1 .. Len(buf) /\ buf'[i] = buf[i])
                                    \/ (i = Len(buf) + 1 /\ buf'[i] = x)
      BY <3>1, <3>2
    <3>5. \A i \in 1 .. Len(buf) : x \in Nonce => buf[i] # x
      BY <3>3
    <3>6. \A g \in Goroutine \ {f} : Holding(g) => hand[g] # x \/ x \notin Nonce
      BY <3>3
    <3> HIDE DEF Holding, Goroutine
    <3>7. \A i, k \in 1 .. Len(buf') : buf'[i] \in Nonce /\ buf'[i] = buf'[k] => i = k
      <4>1. \A i, k \in 1 .. Len(buf) : buf[i] \in Nonce /\ buf[i] = buf[k] => i = k
        OBVIOUS
      <4> HIDE DEF BufferInv, BufferTypeOK, OnePlace, Spent, Absent, Value, x
      <4> QED
        BY <4>1, <3>4, <3>5
    <3>8. \A g, h \in Goroutine : Holding(g)' /\ Holding(h)' /\ hand'[g] \in Nonce
                                  /\ hand'[g] = hand'[h] => g = h
      BY <3>3
    <3>9. \A g \in Goroutine, i \in 1 .. Len(buf') :
             Holding(g)' /\ hand'[g] \in Nonce => buf'[i] # hand'[g]
      BY <3>3, <3>4, <3>6
    <3> QED
      BY <3>7, <3>8, <3>9
  <2>2. CASE cancelled /\ UNCHANGED buf
    BY <1>4, <2>2 DEF FillPut
  <2> QED
    BY <1>4, <2>1, <2>2 DEF FillPut
<1>5. ASSUME NEW s \in Signer, SignCall(s) PROVE OnePlace'
    BY <1>5 DEF SignCall
<1>6. ASSUME NEW s \in Signer, Gen(s) PROVE OnePlace'
  <2>1. CASE buf # <<>>
    <3> DEFINE q == Tail(buf)  x == Head(buf)
    <3>1. /\ x = buf[1] /\ 1 \in 1 .. Len(buf) /\ x \in Value
          /\ q \in Seq(Value) /\ Len(q) = Len(buf) - 1
          /\ \A i \in 1 .. Len(q) : /\ q[i] = buf[i + 1]
                                    /\ i + 1 \in 1 .. Len(buf) /\ i + 1 # 1
      BY <2>1, TakeFacts
    <3>2. /\ buf' = q /\ hand' = [hand EXCEPT ![s] = x] /\ UNCHANGED generated
          /\ spc[s] = "gen" /\ spc' = [spc EXCEPT ![s] = "compute"]
          /\ UNCHANGED <<fpc, cancelled, bpc, crashed, signed>>
      BY <1>6, <2>1 DEF Gen
    <3> HIDE DEF q, x
    <3>3. /\ \A g \in Goroutine :
                 g # s => (Holding(g)' <=> Holding(g)) /\ hand'[g] = hand[g]
          /\ ~Holding(s) /\ hand'[s] = x /\ s \in Goroutine
      <4>1. s \in Goroutine /\ s \notin Filler
        OBVIOUS
      <4>2. ~Holding(s) /\ hand'[s] = x
        BY <3>2, <4>1
      <4>3. ASSUME NEW g \in Goroutine, g # s
            PROVE (Holding(g)' <=> Holding(g)) /\ hand'[g] = hand[g]
        BY <3>2, <4>3
      <4> HIDE DEF Goroutine, Holding, BufferInv
      <4> QED
        BY <4>1, <4>2, <4>3
    <3>4. \A g \in Goroutine, i \in 1 .. Len(buf') : Holding(g) /\ hand[g] \in Nonce => buf'[i] # hand[g]
      BY <3>1, <3>2
    <3>5. \A i \in 1 .. Len(buf') : x \in Nonce => buf'[i] # x
      BY <3>1, <3>2
    <3>6. \A g \in Goroutine : Holding(g) => hand[g] # x \/ x \notin Nonce
      BY <3>1
    <3> HIDE DEF Holding, Goroutine
    <3>7. \A i, k \in 1 .. Len(buf') : buf'[i] \in Nonce /\ buf'[i] = buf'[k] => i = k
      <4> SUFFICES ASSUME NEW i \in 1 .. Len(q), NEW k \in 1 .. Len(q),
                          q[i] \in Nonce, q[i] = q[k]
                   PROVE  i = k
        BY <3>2
      <4>1. i + 1 \in 1 .. Len(buf) /\ k + 1 \in 1 .. Len(buf)
            /\ buf[i + 1] = q[i] /\ buf[k + 1] = q[k]
        BY <3>1
      <4>2. i + 1 = k + 1
        BY <4>1
      <4> QED
        BY <4>2
    <3>8. \A g, h \in Goroutine : Holding(g)' /\ Holding(h)' /\ hand'[g] \in Nonce
                                  /\ hand'[g] = hand'[h] => g = h
      BY <3>3, <3>6
    <3>9. \A g \in Goroutine, i \in 1 .. Len(buf') :
             Holding(g)' /\ hand'[g] \in Nonce => buf'[i] # hand'[g]
      BY <3>3, <3>4, <3>5
    <3> QED
      BY <3>7, <3>8, <3>9
  <2>2. CASE buf = <<>>
    BY <1>6, <2>2 DEF Gen, genRandForSign
  <2> QED
    BY <2>1, <2>2
<1>7. ASSUME NEW s \in Signer, GenError(s) PROVE OnePlace'
    BY <1>7 DEF GenError
<1>8. ASSUME NEW s \in Signer, Compute(s) PROVE OnePlace'
    BY <1>8 DEF Compute
<1>9. ASSUME NEW s \in Signer, ComputeZero(s) PROVE OnePlace'
    BY <1>9 DEF ComputeZero
<1>10. CASE Cancel
    BY <1>10 DEF Cancel
<1>11. CASE BackgroundDestroyReturn
    BY <1>11 DEF BackgroundDestroyReturn
<1>12. CASE UNCHANGED bufferVars
    BY <1>12, Zenon DEF bufferVars
<1> QED
    BY <1>1, <1>2, <1>3, <1>4, <1>5, <1>6, <1>7, <1>8, <1>9, <1>10, <1>11,
       <1>12
       DEF BufferNext, Step, filler, Sign

(* A nonce that is used up, or still to come, is nowhere.                      *)
LEMMA SpentStep == BufferInv /\ [BufferNext]_bufferVars => Spent'
<1> SUFFICES ASSUME BufferInv, [BufferNext]_bufferVars PROVE Spent'
    OBVIOUS
<1> USE BufferAssumption DEF BufferInv, BufferTypeOK, Goroutine, OnePlace, Spent, Absent, Holding, Value
<1>1. ASSUME NEW f \in Filler, Loop(f) PROVE Spent'
    BY <1>1 DEF Loop
<1>2. ASSUME NEW f \in Filler, FillGenerate(f) PROVE Spent'
    BY <1>2 DEF FillGenerate, genRandForSign
<1>3. ASSUME NEW f \in Filler, FillPanic(f) PROVE Spent'
    BY <1>3 DEF FillPanic
<1>4. ASSUME NEW f \in Filler, FillPut(f) PROVE Spent'
  <2> hand[f] \in Value
    BY DEF Goroutine
  <2>1. CASE Len(buf) < RandBufferLen /\ buf' = Append(buf, hand[f])
    <3> DEFINE q == Append(buf, hand[f])
    <3>1. /\ q \in Seq(Value) /\ Len(q) = Len(buf) + 1 /\ Len(buf) \in Nat
          /\ q[Len(buf) + 1] = hand[f]
          /\ \A i \in 1 .. Len(buf) : q[i] = buf[i] /\ i \in 1 .. Len(q)
          /\ \A i \in 1 .. Len(q) : i \in 1 .. Len(buf) \/ i = Len(buf) + 1
      BY PutFacts
    <3>2. buf' = q /\ Len(q) <= RandBufferLen
      BY <2>1, <3>1
    <3> HIDE DEF q
    <3> DEFINE x == hand[f]
    <3>3. /\ \A g \in Goroutine \ {f} : (Holding(g)' <=> Holding(g)) /\ hand'[g] = hand[g]
          /\ ~Holding(f)' /\ Holding(f) /\ f \in Goroutine
      BY <1>4 DEF FillPut
    <3>4. \A i \in 1 .. Len(buf') : \/ (i \in 1 .. Len(buf) /\ buf'[i] = buf[i])
                                    \/ (i = Len(buf) + 1 /\ buf'[i] = x)
      BY <3>1, <3>2
    <3>5. \A i \in 1 .. Len(buf) : x \in Nonce => buf[i] # x
      BY <3>3
    <3>6. \A g \in Goroutine \ {f} : Holding(g) => hand[g] # x \/ x \notin Nonce
      BY <3>3
    <3>10. UNCHANGED <<generated, signed>>
      BY <1>4 DEF FillPut
    <3> HIDE DEF Holding, Goroutine
    <3>7. ASSUME NEW n \in Nonce, Absent(n) PROVE Absent(n)'
      <4>1. x # n
        BY <3>3, <3>7
      <4>2. \A i \in 1 .. Len(buf') : buf'[i] # n
        BY <3>4, <3>7, <4>1, SMTT(30)
      <4> QED
        BY <3>3, <3>7, <4>2
    <3> QED
      BY <3>10, <3>7
  <2>2. CASE cancelled /\ UNCHANGED buf
    BY <1>4, <2>2 DEF FillPut
  <2> QED
    BY <1>4, <2>1, <2>2 DEF FillPut
<1>5. ASSUME NEW s \in Signer, SignCall(s) PROVE Spent'
    BY <1>5 DEF SignCall
<1>6. ASSUME NEW s \in Signer, Gen(s) PROVE Spent'
  <2>1. CASE buf # <<>>
    <3> DEFINE q == Tail(buf)  x == Head(buf)
    <3>1. /\ x = buf[1] /\ 1 \in 1 .. Len(buf) /\ x \in Value
          /\ q \in Seq(Value) /\ Len(q) = Len(buf) - 1
          /\ \A i \in 1 .. Len(q) : /\ q[i] = buf[i + 1]
                                    /\ i + 1 \in 1 .. Len(buf) /\ i + 1 # 1
      BY <2>1, TakeFacts
    <3>2. /\ buf' = q /\ hand' = [hand EXCEPT ![s] = x] /\ UNCHANGED generated
          /\ spc[s] = "gen" /\ spc' = [spc EXCEPT ![s] = "compute"]
          /\ UNCHANGED <<fpc, cancelled, bpc, crashed, signed>>
      BY <1>6, <2>1 DEF Gen
    <3> HIDE DEF q, x
    <3>3. /\ \A g \in Goroutine :
                 g # s => (Holding(g)' <=> Holding(g)) /\ hand'[g] = hand[g]
          /\ ~Holding(s) /\ hand'[s] = x /\ s \in Goroutine
      <4>1. s \in Goroutine /\ s \notin Filler
        OBVIOUS
      <4>2. ~Holding(s) /\ hand'[s] = x
        BY <3>2, <4>1
      <4>3. ASSUME NEW g \in Goroutine, g # s
            PROVE (Holding(g)' <=> Holding(g)) /\ hand'[g] = hand[g]
        BY <3>2, <4>3
      <4> HIDE DEF Goroutine, Holding, BufferInv
      <4> QED
        BY <4>1, <4>2, <4>3
    <3>4. \A g \in Goroutine, i \in 1 .. Len(buf') : Holding(g) /\ hand[g] \in Nonce => buf'[i] # hand[g]
      BY <3>1, <3>2
    <3>5. \A i \in 1 .. Len(buf') : x \in Nonce => buf'[i] # x
      BY <3>1, <3>2
    <3>6. \A g \in Goroutine : Holding(g) => hand[g] # x \/ x \notin Nonce
      BY <3>1
    <3> HIDE DEF Holding, Goroutine
    <3>7. ASSUME NEW n \in Nonce, Absent(n) PROVE Absent(n)'
      <4>1. x # n
        BY <3>1, <3>7
      <4>2. \A i \in 1 .. Len(buf') : buf'[i] # n
        <5> SUFFICES ASSUME NEW i \in 1 .. Len(q) PROVE q[i] # n
          BY <3>2
        <5>1. i + 1 \in 1 .. Len(buf) /\ q[i] = buf[i + 1]
          BY <3>1
        <5> QED
          BY <3>7, <5>1
      <4> QED
        BY <3>3, <3>7, <4>1, <4>2
    <3> QED
      BY <3>2, <3>7
  <2>2. CASE buf = <<>>
    BY <1>6, <2>2 DEF Gen, genRandForSign
  <2> QED
    BY <2>1, <2>2
<1>7. ASSUME NEW s \in Signer, GenError(s) PROVE Spent'
    BY <1>7 DEF GenError
<1>8. ASSUME NEW s \in Signer, Compute(s) PROVE Spent'
    BY <1>8 DEF Compute
<1>9. ASSUME NEW s \in Signer, ComputeZero(s) PROVE Spent'
    BY <1>9 DEF ComputeZero
<1>10. CASE Cancel
    BY <1>10 DEF Cancel
<1>11. CASE BackgroundDestroyReturn
    BY <1>11 DEF BackgroundDestroyReturn
<1>12. CASE UNCHANGED bufferVars
    BY <1>12 DEF bufferVars
<1> QED
    BY <1>1, <1>2, <1>3, <1>4, <1>5, <1>6, <1>7, <1>8, <1>9, <1>10, <1>11,
       <1>12, Zenon
       DEF BufferNext, Step, filler, Sign

LEMMA BufferInvariance == BufferSpec => []BufferInv
<1>1. BufferInv /\ [BufferNext]_bufferVars => BufferInv'
    BY BufferTypeStep, OnePlaceStep, SpentStep DEF BufferInv
<1> QED
    BY BufferInitInv, <1>1, PTL DEF BufferSpec

(* Type correctness of the buffer, its fillers and the signers.                *)
THEOREM BufferTypeCorrect == BufferSpec => []BufferTypeOK
BY BufferInvariance, PTL DEF BufferInv

(* No nonce signs twice.                                                       *)
THEOREM NoncesAreUsedOnce == BufferSpec => []NoNonceTwice
<1>1. BufferInv => NoNonceTwice
    BY DEF BufferInv, Spent, NoNonceTwice
<1> QED
    BY BufferInvariance, <1>1, PTL
================================================================================
