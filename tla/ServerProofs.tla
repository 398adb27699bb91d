------------------------------ MODULE ServerProofs ------------------------------
(*******************************************************************************)
(* Proofs about ConnHandle, for every Max and every size of the network's      *)
(* buffers, and about Server, for any number of listeners, connections and     *)
(* calls of Close.                                                             *)
(*                                                                             *)
(* ConnHandle: everything rests on one equation, the blocker's ledger: as long *)
(* as the blocker is open, requestsLeft is Max less the requests that passed   *)
(* Do (or wait in it) and whose Done is still to come.                         *)
(*                                                                             *)
(* Server: before shutdown every served connection is in the map and its       *)
(* listener too; after it nobody but the one Close that owns mtx touches the   *)
(* map, and that Close leaves the listeners only when the map and its own list *)
(* are empty.                                                                  *)
(*******************************************************************************)
EXTENDS ConnHandle, Server, TLAPS

Ledger ==
    ~bclosed => requestsLeft = Max - inPool - responses
                               - Held(gpc \in {"wait", "recheck", "submit"})
                               - Held(subpc = "done")

(* The counter of the WaitGroup is 1 exactly while the getter waits unreleased.*)
Waiting ==
    /\ wg = 1 => gpc = "wait" /\ ~bclosed /\ requestsLeft = -1
    /\ ~bclosed /\ requestsLeft = -1 => wg = 1

(* What is left of the ledger once the blocker is closed.                      *)
Room == inPool + responses + Held(gpc = "submit") <= Max

InBody(d) == dpc[d] \in {"conn", "net", "blocker", "close"}

Body ==
    /\ \A d, e \in Destroyer : InBody(d) /\ InBody(e) => d = e
    /\ ~destroyed => ~done /\ \A d \in Destroyer : ~InBody(d)
    /\ done => \A d \in Destroyer : ~InBody(d)

BlockerInv == ConnTypeOK /\ Ledger /\ Waiting /\ Room

(* ConnInit establishes the invariants.                                            *)
LEMMA ConnInitInv == ConnInit => BlockerInv /\ Body
<1> SUFFICES ASSUME ConnInit PROVE BlockerInv /\ Body
    OBVIOUS
<1> USE HandleAssumption DEF ConnInit, Held, Destroyer
<1>1. ConnTypeOK
  <2>1. requestsLeft \in -1 .. Max /\ unread \in 0 .. RecvBuffer /\ unacked \in 0 .. SendBuffer
    OBVIOUS
  <2>2. inPool \in Nat /\ responses \in Nat
    OBVIOUS
  <2>3. dpc \in [Destroyer -> {"idle", "swap", "conn", "net", "blocker", "close",
                               "wait", "return"}]
    OBVIOUS
  <2> QED
    BY <2>1, <2>2, <2>3, Zenon DEF ConnTypeOK
<1>2. Ledger /\ Waiting /\ Room
    BY DEF Ledger, Waiting, Room
<1>3. Body
    BY DEF Body, InBody
<1> QED
    BY <1>1, <1>2, <1>3 DEF BlockerInv

(* The ledger, the state of the WaitGroup and the room in the channel survive  *)
(* every step.                                                                 *)
LEMMA BlockerStep == BlockerInv /\ [ConnNext]_handlerVars => BlockerInv'
<1> SUFFICES ASSUME BlockerInv, [ConnNext]_handlerVars PROVE BlockerInv'
    OBVIOUS
<1> USE HandleAssumption
    DEF BlockerInv, ConnTypeOK, Ledger, Waiting, Room, Held, blockerVars, destroyVars,
        connVars, clientVars, CloseNet
<1>1. CASE GetJobRequest
    BY <1>1 DEF GetJobRequest
<1>2. CASE GetJobError
    BY <1>2, Zenon DEF GetJobError
<1>3. CASE GetJobTimeout
    BY <1>3 DEF GetJobTimeout
<1>4. CASE IdleClose
    BY <1>4, Zenon DEF IdleClose
<1>5. CASE Do
    BY <1>5 DEF Do
<1>6. CASE DoWake
    BY <1>6 DEF DoWake
<1>7. CASE DoRecheck
    BY <1>7 DEF DoRecheck
<1>8. CASE GetterSubmit
    BY <1>8 DEF GetterSubmit
<1>9. CASE SelectDone
    BY <1>9 DEF SelectDone
<1>10. CASE SelectResponse
    BY <1>10 DEF SelectResponse
<1>11. CASE BlockerDone
    BY <1>11 DEF BlockerDone
<1>12. CASE SubmitResult
    BY <1>12 DEF SubmitResult
<1>13. CASE SubmitResultError
  <2>1. /\ subpc = "write" /\ subpc' = "return"
        /\ UNCHANGED <<gpc, inPool, responses, requestsLeft, wg, bclosed>>
    BY <1>13 DEF SubmitResultError
  <2>2. ConnTypeOK'
    BY <1>13, ZenonT(30) DEF SubmitResultError
  <2> QED
    BY <2>1, <2>2, Zenon
<1>14. CASE Commit
    BY <1>14 DEF Commit
<1>15. CASE Check
    BY <1>15 DEF Check, Destroyer
<1>16. CASE CallDestroy
    BY <1>16 DEF CallDestroy, Destroyer
<1>17. CASE ClientSend
    BY <1>17 DEF ClientSend
<1>18. CASE ClientRead
    BY <1>18 DEF ClientRead
<1>19. CASE ClientLeave
    BY <1>19 DEF ClientLeave
<1>20. ASSUME NEW d \in Destroyer, DestroySwap(d) PROVE BlockerInv'
    BY <1>20 DEF DestroySwap, Destroyer
<1>21. ASSUME NEW d \in Destroyer, DestroyConn(d) PROVE BlockerInv'
    BY <1>21 DEF DestroyConn, Destroyer
<1>22. ASSUME NEW d \in Destroyer, DestroyNet(d) PROVE BlockerInv'
  <2>1. /\ dpc' = [dpc EXCEPT ![d] = "blocker"]
        /\ UNCHANGED <<gpc, subpc, inPool, responses, requestsLeft, wg, bclosed>>
    BY <1>22 DEF DestroyNet
  <2>2. ConnTypeOK'
    BY <1>22, ZenonT(30) DEF DestroyNet
  <2> QED
    BY <2>1, <2>2, Zenon
<1>23. ASSUME NEW d \in Destroyer, DestroyBlocker(d) PROVE BlockerInv'
    BY <1>23 DEF DestroyBlocker, Destroyer
<1>24. ASSUME NEW d \in Destroyer, DestroyDone(d) PROVE BlockerInv'
    BY <1>24 DEF DestroyDone, Destroyer
<1>25. ASSUME NEW d \in Destroyer, DestroyAwait(d) PROVE BlockerInv'
    BY <1>25 DEF DestroyAwait, Destroyer
<1>26. CASE UNCHANGED handlerVars
    BY <1>26 DEF handlerVars
<1> QED
    BY <1>1, <1>2, <1>3, <1>4, <1>5, <1>6, <1>7, <1>8, <1>9, <1>10, <1>11,
       <1>12, <1>13, <1>14, <1>15, <1>16, <1>17, <1>18, <1>19, <1>20, <1>21,
       <1>22, <1>23, <1>24, <1>25, <1>26, Zenon
       DEF ConnNext, getter, submitter, destroy

(* At most one destroyer runs the body of destroy, and none after close(done). *)
LEMMA BodyStep == ConnTypeOK /\ Body /\ [ConnNext]_handlerVars => Body'
<1> SUFFICES ASSUME ConnTypeOK, Body, [ConnNext]_handlerVars PROVE Body'
    OBVIOUS
<1> USE DEF ConnTypeOK, Body, InBody, Destroyer, destroyVars
<1>1. CASE GetJobRequest
    BY <1>1 DEF GetJobRequest
<1>2. CASE GetJobError
    BY <1>2 DEF GetJobError
<1>3. CASE GetJobTimeout
    BY <1>3 DEF GetJobTimeout
<1>4. CASE IdleClose
    BY <1>4 DEF IdleClose
<1>5. CASE Do
    BY <1>5 DEF Do
<1>6. CASE DoWake
    BY <1>6 DEF DoWake
<1>7. CASE DoRecheck
    BY <1>7 DEF DoRecheck
<1>8. CASE GetterSubmit
    BY <1>8 DEF GetterSubmit
<1>9. CASE SelectDone
    BY <1>9 DEF SelectDone
<1>10. CASE SelectResponse
    BY <1>10 DEF SelectResponse
<1>11. CASE BlockerDone
    BY <1>11 DEF BlockerDone
<1>12. CASE SubmitResult
    BY <1>12 DEF SubmitResult
<1>13. CASE SubmitResultError
    BY <1>13 DEF SubmitResultError
<1>14. CASE Commit
    BY <1>14 DEF Commit
<1>15. CASE Check
    BY <1>15 DEF Check
<1>16. CASE CallDestroy
    BY <1>16 DEF CallDestroy
<1>17. CASE ClientSend
    BY <1>17 DEF ClientSend
<1>18. CASE ClientRead
    BY <1>18 DEF ClientRead
<1>19. CASE ClientLeave
    BY <1>19 DEF ClientLeave
<1>20. ASSUME NEW d \in Destroyer, DestroySwap(d) PROVE Body'
    BY <1>20 DEF DestroySwap
<1>21. ASSUME NEW d \in Destroyer, DestroyConn(d) PROVE Body'
    BY <1>21 DEF DestroyConn, Destroyer
<1>22. ASSUME NEW d \in Destroyer, DestroyNet(d) PROVE Body'
    BY <1>22 DEF DestroyNet, Destroyer
<1>23. ASSUME NEW d \in Destroyer, DestroyBlocker(d) PROVE Body'
    BY <1>23 DEF DestroyBlocker, Destroyer
<1>24. ASSUME NEW d \in Destroyer, DestroyDone(d) PROVE Body'
    BY <1>24 DEF DestroyDone, Destroyer
<1>25. ASSUME NEW d \in Destroyer, DestroyAwait(d) PROVE Body'
    BY <1>25 DEF DestroyAwait, Destroyer
<1>26. CASE UNCHANGED handlerVars
    BY <1>26 DEF handlerVars
<1> QED
    BY <1>1, <1>2, <1>3, <1>4, <1>5, <1>6, <1>7, <1>8, <1>9, <1>10, <1>11,
       <1>12, <1>13, <1>14, <1>15, <1>16, <1>17, <1>18, <1>19, <1>20, <1>21,
       <1>22, <1>23, <1>24, <1>25, <1>26, Zenon
       DEF ConnNext, getter, submitter, destroy

(* ConnSpec keeps both invariants.                                                 *)
LEMMA ConnInvariance == ConnSpec => [](BlockerInv /\ Body)
<1>1. BlockerInv /\ Body /\ [ConnNext]_handlerVars => (BlockerInv /\ Body)'
    BY BlockerStep, BodyStep DEF BlockerInv
<1> QED
    BY ConnInitInv, <1>1, PTL DEF ConnSpec

(* Type correctness of the getter, the submitter, the blocker and destroy; the *)
(* counter of the blocker's WaitGroup never leaves 0 .. 1 (it would panic below *)
(* 0) and requestsLeft never passes -1.                                        *)
THEOREM HandleTypeCorrect == ConnSpec => []ConnTypeOK
BY ConnInvariance, PTL DEF BlockerInv

(* No worker of the pool ever blocks on the responses channel of a connection. *)
THEOREM WorkersAreFree == ConnSpec => []WorkersNeverBlock
<1>1. BlockerInv => WorkersNeverBlock
    BY HandleAssumption DEF BlockerInv, ConnTypeOK, Room, Held, WorkersNeverBlock
<1> QED
    BY ConnInvariance, <1>1, PTL

(* The getter is at most Max + 2 requests ahead of the written responses.      *)
THEOREM ReadAheadIsBounded == ConnSpec => []ReadAheadBound
<1>1. BlockerInv => ReadAheadBound
    BY HandleAssumption DEF BlockerInv, ConnTypeOK, Room, Held, ReadAheadBound
<1> QED
    BY ConnInvariance, <1>1, PTL

(* A getter that waits in Do waits for exactly Max outstanding requests, and    *)
(* the blocker that would release it is open.                                  *)
THEOREM WaiterIsNotLost == ConnSpec => []WaiterIsReleasable
<1>1. BlockerInv => WaiterIsReleasable
    BY HandleAssumption
       DEF BlockerInv, ConnTypeOK, Ledger, Waiting, Held, WaiterIsReleasable
<1> QED
    BY ConnInvariance, <1>1, PTL

(* destroy runs once, so close(done) does not panic.                           *)
THEOREM DestroyRunsOnce == ConnSpec => []DestroyOnce
<1>1. Body => DestroyOnce
    BY DEF Body, InBody, DestroyOnce
<1> QED
    BY ConnInvariance, <1>1, PTL

(* A step that moves neither goroutine to its return, nor a job, nor the       *)
(* caller of Destroy, is a stuttering step of Handle.                          *)
LEMMA PromiseStutter ==
    ASSUME UNCHANGED <<inPool, Running, DestroyState>>,
           (gpc = "submit")' <=> (gpc = "submit")
    PROVE  UNCHANGED Promise!handleVars
BY DEF Promise!handleVars

(* A step that makes one of the goroutines return is the end of the handle if  *)
(* the other one has returned, and a stuttering step if it has not.            *)
LEMMA PromiseEnd ==
    ASSUME UNCHANGED <<inPool, dpc>>,
           gpc # "submit", gpc' # "submit",
           Running = "running"
    PROVE  [Promise!Next]_(Promise!handleVars)
<1>1. UNCHANGED DestroyState /\ ((gpc = "submit")' <=> (gpc = "submit"))
    BY DEF DestroyState
<1>2. CASE Running' = "running"
    BY <1>1, <1>2, PromiseStutter
<1>3. CASE Running' = "ended"
  <2>1. Promise!End
    BY <1>1, <1>3 DEF Promise!End
  <2> QED
    BY <2>1 DEF Promise!Next
<1> QED
    BY <1>2, <1>3 DEF Running

(* Every step of the goroutines of a connection is one of Handle.              *)
LEMMA PromiseStep == BlockerInv /\ [ConnNext]_handlerVars => [Promise!Next]_(Promise!handleVars)
<1> SUFFICES ASSUME BlockerInv, [ConnNext]_handlerVars PROVE [Promise!Next]_(Promise!handleVars)
    OBVIOUS
<1> USE DEF blockerVars, destroyVars, connVars, clientVars
<1>1. ASSUME UNCHANGED <<gpc, subpc, dpc, inPool>> PROVE UNCHANGED Promise!handleVars
  <2>1. UNCHANGED <<Running, DestroyState>> /\ ((gpc = "submit")' <=> (gpc = "submit"))
    BY <1>1 DEF Running, DestroyState
  <2> QED
    BY <1>1, <2>1, PromiseStutter
<1>2. CASE GetJobRequest \/ GetJobError \/ GetJobTimeout \/ IdleClose \/ DoWake
  <2>1. /\ UNCHANGED <<inPool, dpc>>
        /\ gpc \in {"getJob", "idleClose", "wait"} /\ gpc' # "submit"
    BY <1>2 DEF GetJobRequest, GetJobError, GetJobTimeout, IdleClose, DoWake
  <2> QED
    BY <2>1, PromiseEnd DEF Running
<1>3. CASE Do \/ DoRecheck
  <2>1. /\ UNCHANGED <<inPool, dpc, subpc>>
        /\ gpc \in {"do", "recheck"}
    BY <1>3 DEF Do, DoRecheck
  <2>2. CASE gpc' # "submit"
    BY <2>1, <2>2, PromiseEnd DEF Running
  <2>3. CASE gpc' = "submit"
    <3>1. UNCHANGED <<Running, DestroyState>> /\ Running = "running"
      BY <2>1, <2>3 DEF Running, DestroyState
    <3>2. Promise!Select
      BY <2>1, <2>3, <3>1 DEF Promise!Select
    <3> QED
      BY <3>2 DEF Promise!Next
  <2> QED
    BY <2>2, <2>3
<1>4. CASE GetterSubmit
  <2>1. /\ gpc = "submit" /\ gpc' = "getJob" /\ inPool' = inPool + 1
        /\ UNCHANGED <<subpc, dpc>>
    BY <1>4 DEF GetterSubmit
  <2>2. inPool < Max
    BY <2>1, HandleAssumption DEF BlockerInv, ConnTypeOK, Room, Held
  <2>3. UNCHANGED <<Running, DestroyState>>
    BY <2>1 DEF Running, DestroyState
  <2>4. Promise!Submit
    BY <2>1, <2>2, <2>3 DEF Promise!Submit
  <2> QED
    BY <2>4 DEF Promise!Next
<1>5. CASE Commit
  <2>1. /\ inPool > 0 /\ inPool' = inPool - 1
        /\ UNCHANGED <<gpc, subpc, dpc>>
    BY <1>5 DEF Commit
  <2>2. UNCHANGED <<Running, DestroyState>> /\ ((gpc = "submit")' <=> (gpc = "submit"))
    BY <2>1 DEF Running, DestroyState
  <2>3. Promise!Commit
    BY <2>1, <2>2 DEF Promise!Commit
  <2> QED
    BY <2>3 DEF Promise!Next
<1>6. CASE submitter
  <2>1. /\ UNCHANGED <<inPool, dpc, gpc>>
        /\ subpc # "return"
    BY <1>6 DEF submitter, SelectDone, SelectResponse, BlockerDone, SubmitResult,
               SubmitResultError
  <2>2. CASE gpc = "submit"
    <3>1. UNCHANGED <<Running, DestroyState>>
      BY <2>1, <2>2 DEF Running, DestroyState
    <3> QED
      BY <2>1, <3>1, PromiseStutter
  <2>3. CASE gpc # "submit"
    BY <2>1, <2>3, PromiseEnd DEF Running
  <2> QED
    BY <2>2, <2>3
<1>7. CASE CallDestroy
  <2>1. /\ dpc["caller"] = "idle" /\ dpc'["caller"] = "swap"
        /\ UNCHANGED <<gpc, subpc, inPool>>
    BY <1>7 DEF CallDestroy, BlockerInv, ConnTypeOK, Destroyer
  <2>2. UNCHANGED Running /\ ((gpc = "submit")' <=> (gpc = "submit"))
    BY <2>1 DEF Running
  <2>3. Promise!Call
    BY <2>1, <2>2 DEF Promise!Call, DestroyState
  <2> QED
    BY <2>3 DEF Promise!Next
<1>8. CASE Check
  <2>1. UNCHANGED <<gpc, subpc, inPool>> /\ dpc'["caller"] = dpc["caller"]
    BY <1>8 DEF Check, BlockerInv, ConnTypeOK, Destroyer
  <2>2. UNCHANGED <<Running, DestroyState>> /\ ((gpc = "submit")' <=> (gpc = "submit"))
    BY <2>1 DEF Running, DestroyState
  <2> QED
    BY <2>1, <2>2, PromiseStutter
<1>9. ASSUME NEW d \in Destroyer, destroy(d) PROVE [Promise!Next]_(Promise!handleVars)
  <2>1. UNCHANGED <<gpc, subpc, inPool>>
    BY <1>9 DEF destroy, DestroySwap, DestroyConn, DestroyNet, DestroyBlocker,
               DestroyDone, DestroyAwait
  <2>2. UNCHANGED Running /\ ((gpc = "submit")' <=> (gpc = "submit"))
    BY <2>1 DEF Running
  <2>3. CASE d = "caller" /\ DestroyAwait(d)
    <3>1. dpc["caller"] = "wait" /\ dpc'["caller"] = "return" /\ Running = "ended"
      BY <2>3 DEF DestroyAwait, Running, BlockerInv, ConnTypeOK, Destroyer
    <3>2. Promise!Return
      BY <2>1, <2>2, <3>1 DEF Promise!Return, DestroyState
    <3> QED
      BY <3>2 DEF Promise!Next
  <2>4. CASE ~(d = "caller" /\ DestroyAwait(d))
    <3>1. \/ dpc'["caller"] = dpc["caller"]
          \/ dpc["caller"] \notin {"idle", "return"} /\ dpc'["caller"] \notin {"idle", "return"}
      BY <1>9, <2>4 DEF destroy, DestroySwap, DestroyConn, DestroyNet, DestroyBlocker,
                       DestroyDone, DestroyAwait, BlockerInv, ConnTypeOK, Destroyer
    <3>2. UNCHANGED DestroyState
      BY <3>1 DEF DestroyState
    <3> QED
      BY <2>1, <2>2, <3>2, PromiseStutter
  <2> QED
    BY <2>3, <2>4
<1>10. CASE ClientSend \/ ClientRead \/ ClientLeave
    BY <1>1, <1>10 DEF ClientSend, ClientRead, ClientLeave
<1>11. CASE UNCHANGED handlerVars
    BY <1>1, <1>11 DEF handlerVars
<1> QED
    BY <1>2, <1>3, <1>4, <1>5, <1>6, <1>7, <1>8, <1>9, <1>10, <1>11, Zenon
       DEF ConnNext, getter

(* The goroutines that serve a connection implement what Server relies on, for *)
(* every bound on the outstanding requests: in particular Destroy returns only *)
(* when neither goroutine can submit a job or write a response any more.       *)
THEOREM HandleImplementsPromise == ConnSpec => Promise!Safety
<1>1. ConnInit => Promise!Init
    BY DEF ConnInit, Promise!Init, Running, DestroyState, Destroyer
<1>2. BlockerInv /\ [ConnNext]_handlerVars => [Promise!Next]_(Promise!handleVars)
    BY PromiseStep
<1> QED
    BY <1>1, <1>2, ConnInvariance, PTL DEF ConnSpec, Promise!Safety
--------------------------------------------------------------------------------
(* The server                                                                  *)

Stopping == {"bg", "Other", "ECDSA", "util", "unlock"}

(* The Close that is under way is the owner of mtx, and there is only one.     *)
Owner == /\ \A k \in Closer : kpc[k] \in {"listeners"} \cup Stopping <=> mtx = k
         /\ \A k \in Closer : kpc[k] = "closed" => mtx = None
         /\ \A k \in Closer : kpc[k] # "idle" => shutdown

(* Before shutdown Close has touched nothing.                                  *)
Untouched ==
    ~shutdown => /\ mtx = None /\ todo = {} /\ victim = None
                 /\ \A x \in Service : pstate[x] = "up"
                 /\ \A l \in Listener : lpc[l] = "accept" => l \in listeners
                 /\ \A c \in Conn : via[c] # None => via[c] \in listeners

(* What the map, the spawn goroutines and the handles know of each other.      *)
Books ==
    /\ \A l \in Listener : l \notin listeners => conns[l] = {}
    /\ \A l \in Listener : lpc[l] = "accept" /\ l \notin listeners => l \notin lopen
    /\ \A l \in Listener, c \in Conn : c \in conns[l] => via[c] = l
    /\ \A l \in listeners : lpc[l] # "new"
    /\ \A c \in Conn : spc[c] = "new" <=> via[c] = None
    /\ \A c \in Conn : handle[c] # "none" => spc[c] \in {"wait", "removed"}
    /\ \A c \in Conn : spc[c] = "removed" => handle[c] = "ended"
    /\ \A c \in Conn : submitting[c] # None => handle[c] = "running"

(* Past the listeners there is nothing left to destroy.                        *)
Emptied ==
    /\ \A k \in Closer : kpc[k] \in Stopping \cup {"closed"} =>
          listeners = {} /\ todo = {} /\ victim = None
    /\ (\E x \in Service : pstate[x] # "up") =>
          \E k \in Closer : kpc[k] \in Stopping \cup {"closed"}

(* A pool that is down is empty, and Close gets as far as it has stopped them. *)
Drained ==
    /\ \A p \in Pool : pstate[p] = "down" => pending[p] = 0
    /\ \A k \in Closer : kpc[k] \in {"ECDSA", "util", "unlock", "closed"} =>
          pstate["Other"] = "down"
    /\ \A k \in Closer : kpc[k] \in {"util", "unlock", "closed"} => pstate["ECDSA"] = "down"

Inv == TypeOK /\ Owner /\ Untouched /\ Books /\ NoConnEscapes /\ Emptied /\ Drained

(* workerPool.Destroy stops the background pool, Other, ECDSA and the          *)
(* utilization goroutine in this order.                                        *)
LEMMA StopsFacts ==
    /\ DOMAIN Stops = {"bg", "Other", "ECDSA", "util"}
    /\ Stops["bg"] = "Other" /\ Stops["Other"] = "ECDSA"
    /\ Stops["ECDSA"] = "util" /\ Stops["util"] = "unlock"
BY DEF Stops

LEMMA InitInv == Init => Inv
<1> SUFFICES ASSUME Init PROVE Inv
    OBVIOUS
<1> USE ServerAssumption DEF Init
<1>1. TypeOK
  <2>1. pending \in [Pool -> 0 .. Capacity]
    OBVIOUS
  <2> QED
    BY <2>1, Zenon DEF TypeOK
<1>2. Owner /\ Untouched
    BY DEF Owner, Untouched, Stopping
<1>3. Books /\ NoConnEscapes
    BY DEF Books, NoConnEscapes
<1>4. Emptied /\ Drained
    BY DEF Emptied, Drained, Stopping, Pool, Service
<1> QED
    BY <1>1, <1>2, <1>3, <1>4 DEF Inv

(* Each part of the invariant looks at some of the variables only.             *)
LEMMA Frames ==
    /\ Owner /\ UNCHANGED <<kpc, mtx, shutdown>> => Owner'
    /\ Untouched /\ UNCHANGED <<shutdown, mtx, todo, victim, pstate, lpc, listeners, via>>
          => Untouched'
    /\ Books /\ UNCHANGED <<listeners, conns, lpc, lopen, via, spc, handle, submitting>>
          => Books'
    /\ NoConnEscapes /\ UNCHANGED <<handle, via, listeners, conns, shutdown, todo, victim>>
          => NoConnEscapes'
    /\ Emptied /\ UNCHANGED <<kpc, listeners, todo, victim, pstate>> => Emptied'
    /\ Drained /\ UNCHANGED <<pstate, pending, kpc>> => Drained'
<1>1. Owner /\ UNCHANGED <<kpc, mtx, shutdown>> => Owner'
  BY DEF Owner
<1>2. Untouched /\ UNCHANGED <<shutdown, mtx, todo, victim, pstate, lpc, listeners, via>>
        => Untouched'
  BY DEF Untouched
<1>3. Books /\ UNCHANGED <<listeners, conns, lpc, lopen, via, spc, handle, submitting>>
        => Books'
  BY DEF Books
<1>4. NoConnEscapes /\ UNCHANGED <<handle, via, listeners, conns, shutdown, todo, victim>>
        => NoConnEscapes'
  BY DEF NoConnEscapes
<1>5. Emptied /\ UNCHANGED <<kpc, listeners, todo, victim, pstate>> => Emptied'
  BY DEF Emptied
<1>6. Drained /\ UNCHANGED <<pstate, pending, kpc>> => Drained'
  BY Zenon DEF Drained
<1> QED BY <1>1, <1>2, <1>3, <1>4, <1>5, <1>6, Zenon

(* Types are kept.                                                             *)
LEMMA TypeStep == Inv /\ [Next]_vars => TypeOK'
<1> SUFFICES ASSUME Inv, [Next]_vars PROVE TypeOK'
    OBVIOUS
<1> USE ServerAssumption, StopsFacts DEF Inv, TypeOK, serveVars, mapVars, spawnVars, closeVars,
        poolVars, Service, Pool
<1>1. ASSUME NEW l \in Listener, addListener(l) PROVE TypeOK'
    BY <1>1 DEF addListener
<1>2. ASSUME NEW l \in Listener, acceptError(l) PROVE TypeOK'
    BY <1>2 DEF acceptError
<1>3. ASSUME NEW l \in Listener, NEW c \in Conn, accept(l, c) PROVE TypeOK'
    BY <1>3 DEF accept
<1>4. ASSUME NEW c \in Conn, Handshake(c) PROVE TypeOK'
    BY <1>4 DEF Handshake
<1>5. ASSUME NEW c \in Conn, HandshakeError(c) PROVE TypeOK'
    BY <1>5 DEF HandshakeError
<1>6. ASSUME NEW c \in Conn, Register(c) PROVE TypeOK'
    BY <1>6 DEF Register
<1>7. ASSUME NEW c \in Conn, Remove(c) PROVE TypeOK'
    BY <1>7, Zenon DEF Remove
<1>8. ASSUME NEW c \in Conn, SelectPool(c) PROVE TypeOK'
    BY <1>8 DEF SelectPool
<1>9. ASSUME NEW c \in Conn, SubmitJob(c) PROVE TypeOK'
    BY <1>9 DEF SubmitJob
<1>10. ASSUME NEW c \in Conn, HandleEnds(c) PROVE TypeOK'
    BY <1>10 DEF HandleEnds
<1>11. ASSUME NEW p \in Pool, Work(p) PROVE TypeOK'
    BY <1>11 DEF Work
<1>12. ASSUME NEW k \in Closer, CloseCall(k) PROVE TypeOK'
  <2>1. CASE shutdown
    BY <1>12, <2>1 DEF CloseCall
  <2>2. CASE ~shutdown
    <3>1. /\ shutdown' = TRUE /\ mtx' = k /\ kpc' = [kpc EXCEPT ![k] = "listeners"]
          /\ UNCHANGED <<todo, victim, handle, submitting, serveVars, mapVars, spawnVars,
                         poolVars>>
      BY <1>12, <2>2 DEF CloseCall
    <3>2. kpc' \in [Closer -> {"idle", "listeners", "bg", "Other", "ECDSA", "util",
                               "unlock", "closed", "error"}]
      BY <3>1
    <3> QED
      BY <3>1, <3>2
  <2> QED
    BY <2>1, <2>2
<1>13. ASSUME NEW k \in Closer, CloseListener(k) PROVE TypeOK'
    BY <1>13 DEF CloseListener
<1>14. ASSUME NEW k \in Closer, DestroyCall(k) PROVE TypeOK'
    BY <1>14 DEF DestroyCall
<1>15. ASSUME NEW k \in Closer, DestroyReturn(k) PROVE TypeOK'
    BY <1>15 DEF DestroyReturn
<1>16. ASSUME NEW k \in Closer, CloseListenersDone(k) PROVE TypeOK'
    BY <1>16 DEF CloseListenersDone
<1>17. ASSUME NEW k \in Closer, NEW x \in DOMAIN Stops, StopCall(k, x) PROVE TypeOK'
    BY <1>17 DEF StopCall
<1>18. ASSUME NEW k \in Closer, NEW x \in DOMAIN Stops, StopReturn(k, x) PROVE TypeOK'
    BY <1>18 DEF StopReturn
<1>19. ASSUME NEW k \in Closer, CloseReturn(k) PROVE TypeOK'
    BY <1>19 DEF CloseReturn
<1>20. CASE UNCHANGED vars
    BY <1>20 DEF vars
<1> HIDE ServerAssumption, StopsFacts DEF Inv, TypeOK, Service, Pool
<1> QED
    BY <1>1, <1>2, <1>3, <1>4, <1>5, <1>6, <1>7, <1>8, <1>9, <1>10, <1>11,
       <1>12, <1>13, <1>14, <1>15, <1>16, <1>17, <1>18, <1>19, <1>20, Zenon
       DEF Next, spawn, Close

(* One Close at a time is under way, and it owns mtx.                           *)
LEMMA OwnerStep == Inv /\ [Next]_vars => Owner'
<1> SUFFICES ASSUME Inv, [Next]_vars PROVE Owner'
    OBVIOUS
<1> USE DEF Inv, serveVars, mapVars, spawnVars, closeVars, poolVars
<1>1. ASSUME NEW l \in Listener, addListener(l) PROVE Owner'
    BY <1>1, Frames DEF addListener
<1>2. ASSUME NEW l \in Listener, acceptError(l) PROVE Owner'
    BY <1>2, Frames DEF acceptError
<1>3. ASSUME NEW l \in Listener, NEW c \in Conn, accept(l, c) PROVE Owner'
    BY <1>3, Frames DEF accept
<1>4. ASSUME NEW c \in Conn, Handshake(c) PROVE Owner'
    BY <1>4, Frames DEF Handshake
<1>5. ASSUME NEW c \in Conn, HandshakeError(c) PROVE Owner'
    BY <1>5, Frames DEF HandshakeError
<1>6. ASSUME NEW c \in Conn, Register(c) PROVE Owner'
    BY <1>6, Frames DEF Register
<1>7. ASSUME NEW c \in Conn, Remove(c) PROVE Owner'
    BY <1>7, Frames DEF Remove
<1>8. ASSUME NEW c \in Conn, SelectPool(c) PROVE Owner'
    BY <1>8, Frames DEF SelectPool
<1>9. ASSUME NEW c \in Conn, SubmitJob(c) PROVE Owner'
    BY <1>9, Frames DEF SubmitJob
<1>10. ASSUME NEW c \in Conn, HandleEnds(c) PROVE Owner'
    BY <1>10, Frames DEF HandleEnds
<1>11. ASSUME NEW p \in Pool, Work(p) PROVE Owner'
    BY <1>11, Frames DEF Work
<1>12. ASSUME NEW k \in Closer, CloseCall(k) PROVE Owner'
    BY <1>12, ServerAssumption DEF CloseCall, TypeOK, Owner, Untouched, Stopping
<1>13. ASSUME NEW k \in Closer, CloseListener(k) PROVE Owner'
    BY <1>13, Frames DEF CloseListener
<1>14. ASSUME NEW k \in Closer, DestroyCall(k) PROVE Owner'
    BY <1>14, Frames DEF DestroyCall
<1>15. ASSUME NEW k \in Closer, DestroyReturn(k) PROVE Owner'
    BY <1>15, Frames DEF DestroyReturn
<1>16. ASSUME NEW k \in Closer, CloseListenersDone(k) PROVE Owner'
    BY <1>16, ServerAssumption DEF CloseListenersDone, TypeOK, Owner, Untouched, Stopping
<1>17. ASSUME NEW k \in Closer, NEW x \in DOMAIN Stops, StopCall(k, x) PROVE Owner'
    BY <1>17, Frames DEF StopCall
<1>18. ASSUME NEW k \in Closer, NEW x \in DOMAIN Stops, StopReturn(k, x) PROVE Owner'
    BY <1>18, ServerAssumption, StopsFacts DEF StopReturn, TypeOK, Owner, Untouched, Stopping
<1>19. ASSUME NEW k \in Closer, CloseReturn(k) PROVE Owner'
    BY <1>19, ServerAssumption DEF CloseReturn, TypeOK, Owner, Untouched, Stopping
<1>20. CASE UNCHANGED vars
    BY <1>20, Frames DEF vars
<1> QED
    BY <1>1, <1>2, <1>3, <1>4, <1>5, <1>6, <1>7, <1>8, <1>9, <1>10, <1>11,
       <1>12, <1>13, <1>14, <1>15, <1>16, <1>17, <1>18, <1>19, <1>20, Zenon
       DEF Next, spawn, Close

(* Only Close touches what Close will need.                                    *)
LEMMA UntouchedStep == Inv /\ [Next]_vars => Untouched'
<1> SUFFICES ASSUME Inv, [Next]_vars PROVE Untouched'
    OBVIOUS
<1> USE DEF Inv, serveVars, mapVars, spawnVars, closeVars, poolVars
<1>1. ASSUME NEW l \in Listener, addListener(l) PROVE Untouched'
    BY <1>1, ServerAssumption DEF addListener, TypeOK, Owner, Untouched, Stopping
<1>2. ASSUME NEW l \in Listener, acceptError(l) PROVE Untouched'
    BY <1>2, ServerAssumption DEF acceptError, TypeOK, Owner, Untouched, Stopping
<1>3. ASSUME NEW l \in Listener, NEW c \in Conn, accept(l, c) PROVE Untouched'
    BY <1>3, ServerAssumption DEF accept, TypeOK, Owner, Untouched, Stopping
<1>4. ASSUME NEW c \in Conn, Handshake(c) PROVE Untouched'
    BY <1>4, Frames DEF Handshake
<1>5. ASSUME NEW c \in Conn, HandshakeError(c) PROVE Untouched'
    BY <1>5, Frames DEF HandshakeError
<1>6. ASSUME NEW c \in Conn, Register(c) PROVE Untouched'
    BY <1>6, Frames DEF Register
<1>7. ASSUME NEW c \in Conn, Remove(c) PROVE Untouched'
    BY <1>7, Frames DEF Remove
<1>8. ASSUME NEW c \in Conn, SelectPool(c) PROVE Untouched'
    BY <1>8, Frames DEF SelectPool
<1>9. ASSUME NEW c \in Conn, SubmitJob(c) PROVE Untouched'
    BY <1>9, Frames DEF SubmitJob
<1>10. ASSUME NEW c \in Conn, HandleEnds(c) PROVE Untouched'
    BY <1>10, Frames DEF HandleEnds
<1>11. ASSUME NEW p \in Pool, Work(p) PROVE Untouched'
    BY <1>11, Frames DEF Work
<1>12. ASSUME NEW k \in Closer, CloseCall(k) PROVE Untouched'
    BY <1>12, ServerAssumption DEF CloseCall, TypeOK, Owner, Untouched, Stopping
<1>13. ASSUME NEW k \in Closer, CloseListener(k) PROVE Untouched'
    BY <1>13, ServerAssumption DEF CloseListener, TypeOK, Owner, Untouched, Stopping
<1>14. ASSUME NEW k \in Closer, DestroyCall(k) PROVE Untouched'
    BY <1>14, ServerAssumption DEF DestroyCall, TypeOK, Owner, Untouched, Stopping
<1>15. ASSUME NEW k \in Closer, DestroyReturn(k) PROVE Untouched'
    BY <1>15, ServerAssumption DEF DestroyReturn, TypeOK, Owner, Untouched, Stopping
<1>16. ASSUME NEW k \in Closer, CloseListenersDone(k) PROVE Untouched'
    BY <1>16, Frames DEF CloseListenersDone
<1>17. ASSUME NEW k \in Closer, NEW x \in DOMAIN Stops, StopCall(k, x) PROVE Untouched'
    BY <1>17, ServerAssumption, StopsFacts DEF StopCall, TypeOK, Owner, Untouched, Stopping
<1>18. ASSUME NEW k \in Closer, NEW x \in DOMAIN Stops, StopReturn(k, x) PROVE Untouched'
    BY <1>18, ServerAssumption, StopsFacts DEF StopReturn, TypeOK, Owner, Untouched, Stopping
<1>19. ASSUME NEW k \in Closer, CloseReturn(k) PROVE Untouched'
    BY <1>19, ServerAssumption DEF CloseReturn, TypeOK, Owner, Untouched, Stopping
<1>20. CASE UNCHANGED vars
    BY <1>20, Frames DEF vars
<1> QED
    BY <1>1, <1>2, <1>3, <1>4, <1>5, <1>6, <1>7, <1>8, <1>9, <1>10, <1>11,
       <1>12, <1>13, <1>14, <1>15, <1>16, <1>17, <1>18, <1>19, <1>20, Zenon
       DEF Next, spawn, Close

(* The map, spawn and the handles agree.                                       *)
LEMMA BooksStep == Inv /\ [Next]_vars => Books'
<1> SUFFICES ASSUME Inv, [Next]_vars PROVE Books'
    OBVIOUS
<1> USE DEF Inv, serveVars, mapVars, spawnVars, closeVars, poolVars
<1>1. ASSUME NEW l \in Listener, addListener(l) PROVE Books'
    BY <1>1, ServerAssumption DEF addListener, TypeOK, Owner, Untouched, Books
<1>2. ASSUME NEW l \in Listener, acceptError(l) PROVE Books'
    BY <1>2, ServerAssumption DEF acceptError, TypeOK, Owner, Untouched, Books
<1>3. ASSUME NEW l \in Listener, NEW c \in Conn, accept(l, c) PROVE Books'
    BY <1>3, ServerAssumption DEF accept, TypeOK, Owner, Untouched, Books
<1>4. ASSUME NEW c \in Conn, Handshake(c) PROVE Books'
    BY <1>4, ServerAssumption DEF Handshake, TypeOK, Owner, Untouched, Books
<1>5. ASSUME NEW c \in Conn, HandshakeError(c) PROVE Books'
    BY <1>5, ServerAssumption DEF HandshakeError, TypeOK, Owner, Untouched, Books
<1>6. ASSUME NEW c \in Conn, Register(c) PROVE Books'
    BY <1>6, ServerAssumption DEF Register, TypeOK, Owner, Untouched, Books
<1>7. ASSUME NEW c \in Conn, Remove(c) PROVE Books'
    BY <1>7, ServerAssumption DEF Remove, TypeOK, Owner, Untouched, Books
<1>8. ASSUME NEW c \in Conn, SelectPool(c) PROVE Books'
    BY <1>8, ServerAssumption DEF SelectPool, TypeOK, Owner, Untouched, Books
<1>9. ASSUME NEW c \in Conn, SubmitJob(c) PROVE Books'
    BY <1>9, ServerAssumption DEF SubmitJob, TypeOK, Owner, Untouched, Books
<1>10. ASSUME NEW c \in Conn, HandleEnds(c) PROVE Books'
    BY <1>10, ServerAssumption DEF HandleEnds, TypeOK, Owner, Untouched, Books
<1>11. ASSUME NEW p \in Pool, Work(p) PROVE Books'
    BY <1>11, Frames DEF Work
<1>12. ASSUME NEW k \in Closer, CloseCall(k) PROVE Books'
    BY <1>12, Frames DEF CloseCall
<1>13. ASSUME NEW k \in Closer, CloseListener(k) PROVE Books'
    BY <1>13, ServerAssumption DEF CloseListener, TypeOK, Owner, Untouched, Books
<1>14. ASSUME NEW k \in Closer, DestroyCall(k) PROVE Books'
    BY <1>14, Frames DEF DestroyCall
<1>15. ASSUME NEW k \in Closer, DestroyReturn(k) PROVE Books'
    BY <1>15, Frames DEF DestroyReturn
<1>16. ASSUME NEW k \in Closer, CloseListenersDone(k) PROVE Books'
    BY <1>16, Frames DEF CloseListenersDone
<1>17. ASSUME NEW k \in Closer, NEW x \in DOMAIN Stops, StopCall(k, x) PROVE Books'
    BY <1>17, Frames DEF StopCall
<1>18. ASSUME NEW k \in Closer, NEW x \in DOMAIN Stops, StopReturn(k, x) PROVE Books'
    BY <1>18, Frames DEF StopReturn
<1>19. ASSUME NEW k \in Closer, CloseReturn(k) PROVE Books'
    BY <1>19, Frames DEF CloseReturn
<1>20. CASE UNCHANGED vars
    BY <1>20, Frames DEF vars
<1> QED
    BY <1>1, <1>2, <1>3, <1>4, <1>5, <1>6, <1>7, <1>8, <1>9, <1>10, <1>11,
       <1>12, <1>13, <1>14, <1>15, <1>16, <1>17, <1>18, <1>19, <1>20, Zenon
       DEF Next, spawn, Close

(* No connection escapes Close.                                                *)
LEMMA EscapeStep == Inv /\ [Next]_vars => NoConnEscapes'
<1> SUFFICES ASSUME Inv, [Next]_vars PROVE NoConnEscapes'
    OBVIOUS
<1> USE DEF Inv, serveVars, mapVars, spawnVars, closeVars, poolVars
<1>1. ASSUME NEW l \in Listener, addListener(l) PROVE NoConnEscapes'
    BY <1>1, ServerAssumption DEF addListener, TypeOK, Owner, Untouched, Books, NoConnEscapes
<1>2. ASSUME NEW l \in Listener, acceptError(l) PROVE NoConnEscapes'
    BY <1>2, Frames DEF acceptError
<1>3. ASSUME NEW l \in Listener, NEW c \in Conn, accept(l, c) PROVE NoConnEscapes'
    BY <1>3, ServerAssumption DEF accept, TypeOK, Owner, Untouched, Books, NoConnEscapes
<1>4. ASSUME NEW c \in Conn, Handshake(c) PROVE NoConnEscapes'
    BY <1>4, Frames DEF Handshake
<1>5. ASSUME NEW c \in Conn, HandshakeError(c) PROVE NoConnEscapes'
    BY <1>5, Frames DEF HandshakeError
<1>6. ASSUME NEW c \in Conn, Register(c) PROVE NoConnEscapes'
    BY <1>6, ServerAssumption DEF Register, TypeOK, Owner, Untouched, Books, NoConnEscapes
<1>7. ASSUME NEW c \in Conn, Remove(c) PROVE NoConnEscapes'
    BY <1>7 DEF Remove, TypeOK, NoConnEscapes
<1>8. ASSUME NEW c \in Conn, SelectPool(c) PROVE NoConnEscapes'
    BY <1>8, Frames DEF SelectPool
<1>9. ASSUME NEW c \in Conn, SubmitJob(c) PROVE NoConnEscapes'
    BY <1>9, Frames DEF SubmitJob
<1>10. ASSUME NEW c \in Conn, HandleEnds(c) PROVE NoConnEscapes'
    BY <1>10, ServerAssumption DEF HandleEnds, TypeOK, Owner, Untouched, Books, NoConnEscapes
<1>11. ASSUME NEW p \in Pool, Work(p) PROVE NoConnEscapes'
    BY <1>11, Frames DEF Work
<1>12. ASSUME NEW k \in Closer, CloseCall(k) PROVE NoConnEscapes'
    BY <1>12, ServerAssumption DEF CloseCall, TypeOK, Owner, Untouched, Books, NoConnEscapes
<1>13. ASSUME NEW k \in Closer, CloseListener(k) PROVE NoConnEscapes'
    BY <1>13, ServerAssumption DEF CloseListener, TypeOK, Owner, Untouched, Books, NoConnEscapes
<1>14. ASSUME NEW k \in Closer, DestroyCall(k) PROVE NoConnEscapes'
    BY <1>14, ServerAssumption DEF DestroyCall, TypeOK, Owner, Untouched, Books, NoConnEscapes
<1>15. ASSUME NEW k \in Closer, DestroyReturn(k) PROVE NoConnEscapes'
    BY <1>15, ServerAssumption DEF DestroyReturn, TypeOK, Owner, Untouched, Books, NoConnEscapes
<1>16. ASSUME NEW k \in Closer, CloseListenersDone(k) PROVE NoConnEscapes'
    BY <1>16, Frames DEF CloseListenersDone
<1>17. ASSUME NEW k \in Closer, NEW x \in DOMAIN Stops, StopCall(k, x) PROVE NoConnEscapes'
    BY <1>17, Frames DEF StopCall
<1>18. ASSUME NEW k \in Closer, NEW x \in DOMAIN Stops, StopReturn(k, x) PROVE NoConnEscapes'
    BY <1>18, Frames DEF StopReturn
<1>19. ASSUME NEW k \in Closer, CloseReturn(k) PROVE NoConnEscapes'
    BY <1>19, Frames DEF CloseReturn
<1>20. CASE UNCHANGED vars
    BY <1>20, Frames DEF vars
<1> QED
    BY <1>1, <1>2, <1>3, <1>4, <1>5, <1>6, <1>7, <1>8, <1>9, <1>10, <1>11,
       <1>12, <1>13, <1>14, <1>15, <1>16, <1>17, <1>18, <1>19, <1>20, Zenon
       DEF Next, spawn, Close

(* The map stays empty once Close is past the listeners.                       *)
LEMMA EmptiedStep == Inv /\ [Next]_vars => Emptied'
<1> SUFFICES ASSUME Inv, [Next]_vars PROVE Emptied'
    OBVIOUS
<1> USE DEF Inv, serveVars, mapVars, spawnVars, closeVars, poolVars
<1>1. ASSUME NEW l \in Listener, addListener(l) PROVE Emptied'
    BY <1>1, ServerAssumption DEF addListener, TypeOK, Owner, Untouched, Emptied, Stopping
<1>2. ASSUME NEW l \in Listener, acceptError(l) PROVE Emptied'
    BY <1>2, Frames DEF acceptError
<1>3. ASSUME NEW l \in Listener, NEW c \in Conn, accept(l, c) PROVE Emptied'
    BY <1>3, Frames DEF accept
<1>4. ASSUME NEW c \in Conn, Handshake(c) PROVE Emptied'
    BY <1>4, Frames DEF Handshake
<1>5. ASSUME NEW c \in Conn, HandshakeError(c) PROVE Emptied'
    BY <1>5, Frames DEF HandshakeError
<1>6. ASSUME NEW c \in Conn, Register(c) PROVE Emptied'
    BY <1>6, Frames DEF Register
<1>7. ASSUME NEW c \in Conn, Remove(c) PROVE Emptied'
    BY <1>7, Frames DEF Remove
<1>8. ASSUME NEW c \in Conn, SelectPool(c) PROVE Emptied'
    BY <1>8, Frames DEF SelectPool
<1>9. ASSUME NEW c \in Conn, SubmitJob(c) PROVE Emptied'
    BY <1>9, Frames DEF SubmitJob
<1>10. ASSUME NEW c \in Conn, HandleEnds(c) PROVE Emptied'
    BY <1>10, Frames DEF HandleEnds
<1>11. ASSUME NEW p \in Pool, Work(p) PROVE Emptied'
    BY <1>11, Frames DEF Work
<1>12. ASSUME NEW k \in Closer, CloseCall(k) PROVE Emptied'
    BY <1>12 DEF CloseCall, TypeOK, Emptied, Stopping
<1>13. ASSUME NEW k \in Closer, CloseListener(k) PROVE Emptied'
    BY <1>13, ServerAssumption DEF CloseListener, TypeOK, Owner, Untouched, Emptied, Stopping
<1>14. ASSUME NEW k \in Closer, DestroyCall(k) PROVE Emptied'
    BY <1>14, ServerAssumption DEF DestroyCall, TypeOK, Owner, Untouched, Emptied, Stopping
<1>15. ASSUME NEW k \in Closer, DestroyReturn(k) PROVE Emptied'
    BY <1>15, ServerAssumption DEF DestroyReturn, TypeOK, Owner, Untouched, Emptied, Stopping
<1>16. ASSUME NEW k \in Closer, CloseListenersDone(k) PROVE Emptied'
    BY <1>16, ServerAssumption DEF CloseListenersDone, TypeOK, Owner, Untouched, Emptied, Stopping
<1>17. ASSUME NEW k \in Closer, NEW x \in DOMAIN Stops, StopCall(k, x) PROVE Emptied'
    BY <1>17, ServerAssumption, StopsFacts DEF StopCall, TypeOK, Owner, Untouched, Emptied, Stopping
<1>18. ASSUME NEW k \in Closer, NEW x \in DOMAIN Stops, StopReturn(k, x) PROVE Emptied'
  <2>1. /\ kpc[k] \in Stopping
        /\ kpc' = [kpc EXCEPT ![k] = Stops[x]]
        /\ UNCHANGED <<listeners, todo, victim>>
    BY <1>18, StopsFacts DEF StopReturn, Stopping
  <2>2. kpc'[k] \in Stopping /\ \A j \in Closer : j # k => kpc'[j] = kpc[j]
    BY <2>1, StopsFacts DEF TypeOK, Stopping
  <2> QED
    BY <2>1, <2>2 DEF Emptied
<1>19. ASSUME NEW k \in Closer, CloseReturn(k) PROVE Emptied'
    BY <1>19, ServerAssumption DEF CloseReturn, TypeOK, Owner, Untouched, Emptied, Stopping
<1>20. CASE UNCHANGED vars
    BY <1>20, Frames DEF vars
<1> QED
    BY <1>1, <1>2, <1>3, <1>4, <1>5, <1>6, <1>7, <1>8, <1>9, <1>10, <1>11,
       <1>12, <1>13, <1>14, <1>15, <1>16, <1>17, <1>18, <1>19, <1>20, Zenon
       DEF Next, spawn, Close

(* A pool that is down stays empty: nobody is left to submit.                  *)
LEMMA DrainedStep == Inv /\ [Next]_vars => Drained'
<1> SUFFICES ASSUME Inv, [Next]_vars PROVE Drained'
    OBVIOUS
<1> USE DEF Inv, serveVars, mapVars, spawnVars, closeVars, poolVars
<1>1. ASSUME NEW l \in Listener, addListener(l) PROVE Drained'
    BY <1>1, Frames DEF addListener
<1>2. ASSUME NEW l \in Listener, acceptError(l) PROVE Drained'
    BY <1>2, Frames DEF acceptError
<1>3. ASSUME NEW l \in Listener, NEW c \in Conn, accept(l, c) PROVE Drained'
    BY <1>3, Frames DEF accept
<1>4. ASSUME NEW c \in Conn, Handshake(c) PROVE Drained'
    BY <1>4, Frames DEF Handshake
<1>5. ASSUME NEW c \in Conn, HandshakeError(c) PROVE Drained'
    BY <1>5, Frames DEF HandshakeError
<1>6. ASSUME NEW c \in Conn, Register(c) PROVE Drained'
    BY <1>6, Frames DEF Register
<1>7. ASSUME NEW c \in Conn, Remove(c) PROVE Drained'
    BY <1>7, Frames DEF Remove
<1>8. ASSUME NEW c \in Conn, SelectPool(c) PROVE Drained'
    BY <1>8, Frames DEF SelectPool
<1>9. ASSUME NEW c \in Conn, SubmitJob(c) PROVE Drained'
    BY <1>9, ServerAssumption DEF SubmitJob, TypeOK, Books, NoConnEscapes, Emptied,
       Drained, Stopping, Service, Pool
<1>10. ASSUME NEW c \in Conn, HandleEnds(c) PROVE Drained'
    BY <1>10, Frames DEF HandleEnds
<1>11. ASSUME NEW p \in Pool, Work(p) PROVE Drained'
    BY <1>11, ServerAssumption DEF Work, TypeOK, Drained
<1>12. ASSUME NEW k \in Closer, CloseCall(k) PROVE Drained'
    BY <1>12, ServerAssumption DEF CloseCall, TypeOK, Drained
<1>13. ASSUME NEW k \in Closer, CloseListener(k) PROVE Drained'
    BY <1>13, Frames DEF CloseListener
<1>14. ASSUME NEW k \in Closer, DestroyCall(k) PROVE Drained'
    BY <1>14, Frames DEF DestroyCall
<1>15. ASSUME NEW k \in Closer, DestroyReturn(k) PROVE Drained'
    BY <1>15, Frames DEF DestroyReturn
<1>16. ASSUME NEW k \in Closer, CloseListenersDone(k) PROVE Drained'
    BY <1>16, ServerAssumption DEF CloseListenersDone, TypeOK, Drained
<1>17. ASSUME NEW k \in Closer, NEW x \in DOMAIN Stops, StopCall(k, x) PROVE Drained'
  <2>1. /\ kpc[k] = x /\ pstate[x] = "up" /\ x \in Service
        /\ pstate' = [pstate EXCEPT ![x] = "destroying"]
        /\ UNCHANGED <<pending, kpc>>
    BY <1>17, StopsFacts DEF StopCall, Service, Pool
  <2>2. \A p \in Service : pstate[p] = "down" <=> pstate'[p] = "down"
    BY <2>1 DEF TypeOK
  <2> QED
    BY <2>1, <2>2 DEF Drained, Service, Pool
<1>18. ASSUME NEW k \in Closer, NEW x \in DOMAIN Stops, StopReturn(k, x) PROVE Drained'
  <2>1. /\ kpc[k] = x /\ x \in Service
        /\ x \in Pool => pending[x] = 0
        /\ pstate' = [pstate EXCEPT ![x] = "down"]
        /\ kpc' = [kpc EXCEPT ![k] = Stops[x]]
        /\ UNCHANGED pending
    BY <1>18, StopsFacts DEF StopReturn, Service, Pool
  <2>2. /\ pstate'[x] = "down" /\ kpc'[k] = Stops[x]
        /\ \A p \in Service : p # x => pstate'[p] = pstate[p]
        /\ \A j \in Closer : j # k => kpc'[j] = kpc[j]
    BY <2>1 DEF TypeOK
  <2>3. \A p \in Pool : pstate'[p] = "down" => pending'[p] = 0
    BY <2>1, <2>2 DEF Drained, Service
  <2>4. "Other" \in Service /\ "ECDSA" \in Service
    BY DEF Service, Pool
  <2>5. \A j \in Closer : kpc'[j] \in {"ECDSA", "util", "unlock", "closed"} =>
          pstate'["Other"] = "down"
    BY <2>1, <2>2, <2>4, StopsFacts DEF Drained
  <2>6. \A j \in Closer : kpc'[j] \in {"util", "unlock", "closed"} =>
          pstate'["ECDSA"] = "down"
    BY <2>1, <2>2, <2>4, StopsFacts DEF Drained
  <2> QED
    BY <2>3, <2>5, <2>6 DEF Drained
<1>19. ASSUME NEW k \in Closer, CloseReturn(k) PROVE Drained'
    BY <1>19, ServerAssumption DEF CloseReturn, TypeOK, Drained
<1>20. CASE UNCHANGED vars
    BY <1>20, Frames DEF vars
<1> QED
    BY <1>1, <1>2, <1>3, <1>4, <1>5, <1>6, <1>7, <1>8, <1>9, <1>10, <1>11,
       <1>12, <1>13, <1>14, <1>15, <1>16, <1>17, <1>18, <1>19, <1>20, Zenon
       DEF Next, spawn, Close

LEMMA Invariance == Spec => []Inv
<1>1. Inv /\ [Next]_vars => Inv'
    BY TypeStep, OwnerStep, UntouchedStep, BooksStep, EscapeStep, EmptiedStep,
       DrainedStep DEF Inv
<1> QED
    BY InitInv, <1>1, PTL DEF Spec

(* Type correctness of Serve, spawn and Close.                                 *)
THEOREM ServerTypeCorrect == Spec => []TypeOK
BY Invariance, PTL DEF Inv

(* Close misses no connection that is being served.                            *)
THEOREM CloseFindsAll == Spec => []NoConnEscapes
BY Invariance, PTL DEF Inv

(* No job is submitted to a pool that is being destroyed, or later.            *)
THEOREM PoolsAreUsedRight == Spec => []NoSubmitAfterDestroy
<1>1. Inv => NoSubmitAfterDestroy
    BY ServerAssumption
       DEF Inv, TypeOK, Books, NoConnEscapes, Emptied, NoSubmitAfterDestroy
<1> QED
    BY Invariance, <1>1, PTL

(* When Close has returned nothing is served any more, and nothing will be.    *)
THEOREM CloseIsFinal == Spec => []ClosedIsQuiet
<1>1. Inv => ClosedIsQuiet
    BY ServerAssumption
       DEF Inv, TypeOK, Books, NoConnEscapes, Emptied, Drained, Pool, ClosedIsQuiet
<1> QED
    BY Invariance, <1>1, PTL
================================================================================
