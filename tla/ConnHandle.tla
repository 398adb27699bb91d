------------------------------- MODULE ConnHandle -------------------------------
(*******************************************************************************)
(* server/internal/client/client.go over server/conn.go: the goroutines that   *)
(* serve one client connection.  The getter reads requests and submits them to *)
(* a worker pool, workers commit responses to the responses channel, the       *)
(* submitter writes them, and a blocker between submitter and getter bounds how*)
(* many requests are outstanding.  A liveness checker and Destroy tear the     *)
(* connection down.                                                            *)
(*                                                                             *)
(* Requests are counted, not named: nothing here looks into them.  The socket  *)
(* takes SendBuffer responses that the client has not read; a write blocks     *)
(* while it is full.                                                           *)
(*******************************************************************************)
EXTENDS Integers

CONSTANTS Max,         \* maxOutstandingRequests, the capacity of responses
          SendBuffer,  \* responses the network takes before a write blocks
          RecvBuffer   \* requests on the network that are not read yet

ASSUME HandleAssumption == /\ Max \in Nat \ {0}
                           /\ SendBuffer \in Nat \ {0}
                           /\ RecvBuffer \in Nat \ {0}

(* Who runs destroy: the liveness checker and the caller of Destroy.           *)
Destroyer == {"checker", "caller"}

VARIABLES
    gpc,            \* where the getter is
    subpc,          \* where the submitter is
    dpc,            \* where each destroyer is
    requestsLeft,   \* blocker.requestsLeft
    wg,             \* blocker.wg, the counter of the WaitGroup
    bclosed,        \* blocker.closed
    destroyed,      \* ConnHandle.destroyed
    done,           \* the channel done is closed
    inPool,         \* jobs submitted whose response is not committed
    responses,      \* responses in the channel
    netOpen,        \* the network connection is open on this side
    closed,         \* conn.closed, which IsAlive reads
    serverClosing,  \* conn.serverClosing
    peer,           \* the client: "open", "halfClosed" (sends no more), "gone"
    unread,         \* requests that can be read
    unacked         \* responses written that the client has not read

handlerVars ==
    <<gpc, subpc, dpc, requestsLeft, wg, bclosed, destroyed, done, inPool,
      responses, netOpen, closed, serverClosing, peer, unread, unacked>>

blockerVars == <<requestsLeft, wg, bclosed>>
destroyVars == <<dpc, destroyed, done>>
connVars    == <<netOpen, closed, serverClosing>>
clientVars  == <<peer, unread, unacked>>

ConnInit ==
    /\ gpc = "getJob"
    /\ subpc = "select"
    /\ dpc = [d \in Destroyer |-> "idle"]
    /\ requestsLeft = Max
    /\ wg = 0
    /\ bclosed = FALSE
    /\ destroyed = FALSE
    /\ done = FALSE
    /\ inPool = 0
    /\ responses = 0
    /\ netOpen = TRUE
    /\ closed = FALSE
    /\ serverClosing = FALSE
    /\ peer = "open"
    /\ unread = 0
    /\ unacked = 0
--------------------------------------------------------------------------------
(* Mutant: the store to closed is missing. *)
CloseNetUnflagged == netOpen' = FALSE /\ UNCHANGED closed

(* c.conn.Close() and the store to closed that follows it everywhere.          *)
CloseNet == netOpen' = FALSE /\ closed' = TRUE

(* conn.GetJob, called by the getter                                           *)
GetJobRequest ==
    /\ gpc = "getJob" /\ netOpen
    /\ unread > 0
    /\ unread' = unread - 1
    /\ gpc' = "do"
    /\ UNCHANGED <<subpc, inPool, responses, peer, unacked, blockerVars,
                   destroyVars, connVars>>

(* The read fails: the connection is closed on this side, the client has sent  *)
(* its last request, the client is gone or what it has sent is malformed.      *)
GetJobError ==
    /\ gpc = "getJob"
    /\ ~netOpen \/ peer # "open" \/ unread > 0
    /\ CloseNet
    /\ gpc' = "return"
    /\ UNCHANGED <<subpc, inPool, responses, serverClosing, blockerVars,
                   destroyVars, clientVars>>

(* The read deadline passes: conn.Destroy, which is two steps because a second *)
(* caller of it returns without waiting for the first one to close.            *)
GetJobTimeout ==
    /\ gpc = "getJob" /\ netOpen /\ unread = 0
    /\ gpc' = IF serverClosing THEN "return" ELSE "idleClose"
    /\ serverClosing' = TRUE
    /\ UNCHANGED <<subpc, inPool, responses, netOpen, closed, blockerVars,
                   destroyVars, clientVars>>

IdleClose ==
    /\ gpc = "idleClose"
    /\ CloseNet
    /\ gpc' = "return"
    /\ UNCHANGED <<subpc, inPool, responses, serverClosing, blockerVars,
                   destroyVars, clientVars>>

(* Mutant: one request too many passes. *)
DoOneMore ==
    /\ gpc = "do"
    /\ \/ /\ bclosed
          /\ gpc' = "return"
          /\ UNCHANGED <<requestsLeft, wg>>
       \/ /\ ~bclosed
          /\ requestsLeft' = requestsLeft - 1
          /\ \/ /\ requestsLeft' >= -1
                /\ gpc' = "submit"
                /\ UNCHANGED wg
             \/ /\ requestsLeft' < -1
                /\ gpc' = "wait"
                /\ wg' = wg + 1
    /\ UNCHANGED <<subpc, bclosed, inPool, responses, destroyVars, connVars, clientVars>>

(* blocker.Do: up to wg.Wait in one section of the mutex, then the wait, then  *)
(* the second look at closed.                                                  *)
Do ==
    /\ gpc = "do"
    /\ \/ /\ bclosed
          /\ gpc' = "return"
          /\ UNCHANGED <<requestsLeft, wg>>
       \/ /\ ~bclosed
          /\ requestsLeft' = requestsLeft - 1
          /\ \/ /\ requestsLeft' >= 0
                /\ gpc' = "submit"
                /\ UNCHANGED wg
             \/ /\ requestsLeft' < 0
                /\ gpc' = "wait"
                /\ wg' = wg + 1
    /\ UNCHANGED <<subpc, bclosed, inPool, responses, destroyVars, connVars, clientVars>>

DoWake ==
    /\ gpc = "wait" /\ wg = 0
    /\ gpc' = "recheck"
    /\ UNCHANGED <<subpc, inPool, responses, blockerVars, destroyVars, connVars,
                   clientVars>>

DoRecheck ==
    /\ gpc = "recheck"
    /\ gpc' = IF bclosed THEN "return" ELSE "submit"
    /\ UNCHANGED <<subpc, inPool, responses, blockerVars, destroyVars, connVars,
                   clientVars>>

(* pool.SubmitJob                                                              *)
GetterSubmit ==
    /\ gpc = "submit"
    /\ inPool' = inPool + 1
    /\ gpc' = "getJob"
    /\ UNCHANGED <<subpc, responses, blockerVars, destroyVars, connVars, clientVars>>

(* A worker has done a job and commits the response.                           *)
Commit ==
    /\ inPool > 0
    /\ responses < Max
    /\ inPool' = inPool - 1
    /\ responses' = responses + 1
    /\ UNCHANGED <<gpc, subpc, blockerVars, destroyVars, connVars, clientVars>>
--------------------------------------------------------------------------------
(* The submitter: select on done and responses, blocker.Done, SubmitResult     *)
SelectDone ==
    /\ subpc = "select" /\ done
    /\ subpc' = "return"
    /\ UNCHANGED <<gpc, inPool, responses, blockerVars, destroyVars, connVars,
                   clientVars>>

SelectResponse ==
    /\ subpc = "select" /\ responses > 0
    /\ responses' = responses - 1
    /\ subpc' = "done"
    /\ UNCHANGED <<gpc, inPool, blockerVars, destroyVars, connVars, clientVars>>

(* Mutant: Done does not release the waiter. *)
BlockerDoneSilent ==
    /\ subpc = "done"
    /\ \/ bclosed /\ UNCHANGED <<requestsLeft, wg>>
       \/ /\ ~bclosed
          /\ requestsLeft' = requestsLeft + 1
          /\ wg' = wg
    /\ subpc' = "write"
    /\ UNCHANGED <<gpc, bclosed, inPool, responses, destroyVars, connVars, clientVars>>

BlockerDone ==
    /\ subpc = "done"
    /\ \/ bclosed /\ UNCHANGED <<requestsLeft, wg>>
       \/ /\ ~bclosed
          /\ requestsLeft' = requestsLeft + 1
          /\ wg' = IF requestsLeft' = 0 THEN wg - 1 ELSE wg
    /\ subpc' = "write"
    /\ UNCHANGED <<gpc, bclosed, inPool, responses, destroyVars, connVars, clientVars>>

SubmitResult ==
    /\ subpc = "write"
    /\ netOpen /\ peer # "gone"
    /\ unacked < SendBuffer
    /\ unacked' = unacked + 1
    /\ subpc' = "select"
    /\ UNCHANGED <<gpc, inPool, responses, peer, unread, blockerVars, destroyVars,
                   connVars>>

SubmitResultError ==
    /\ subpc = "write"
    /\ ~netOpen \/ peer = "gone"
    /\ CloseNet
    /\ subpc' = "return"
    /\ UNCHANGED <<gpc, inPool, responses, serverClosing, blockerVars, destroyVars,
                   clientVars>>
--------------------------------------------------------------------------------
(* destroy, step by step                                                       *)

(* The liveness checker wakes up.                                              *)
Check ==
    /\ dpc["checker"] = "idle"
    /\ \/ /\ destroyed
          /\ dpc' = [dpc EXCEPT !["checker"] = "return"]
       \/ /\ ~destroyed /\ closed
          /\ dpc' = [dpc EXCEPT !["checker"] = "swap"]
    /\ UNCHANGED <<gpc, subpc, inPool, responses, destroyed, done, blockerVars,
                   connVars, clientVars>>

CallDestroy ==
    /\ dpc["caller"] = "idle"
    /\ dpc' = [dpc EXCEPT !["caller"] = "swap"]
    /\ UNCHANGED <<gpc, subpc, inPool, responses, destroyed, done, blockerVars,
                   connVars, clientVars>>

(* Mutant: destroy runs again although it has run. *)
DestroySwapAlways(d) ==
    /\ dpc[d] = "swap"
    /\ destroyed' = TRUE
    /\ dpc' = [dpc EXCEPT ![d] = "conn"]
    /\ UNCHANGED <<gpc, subpc, done, inPool, responses, blockerVars, connVars, clientVars>>

DestroySwap(d) ==
    /\ dpc[d] = "swap"
    /\ destroyed' = TRUE
    /\ dpc' = [dpc EXCEPT ![d] = IF destroyed THEN "wait" ELSE "conn"]
    /\ UNCHANGED <<gpc, subpc, done, inPool, responses, blockerVars, connVars, clientVars>>

(* conn.Destroy: as in GetJobTimeout, a no-op if serverClosing is already set. *)
DestroyConn(d) ==
    /\ dpc[d] = "conn"
    /\ dpc' = [dpc EXCEPT ![d] = IF serverClosing THEN "blocker" ELSE "net"]
    /\ serverClosing' = TRUE
    /\ UNCHANGED <<gpc, subpc, destroyed, done, inPool, responses, netOpen, closed,
                   blockerVars, clientVars>>

DestroyNet(d) ==
    /\ dpc[d] = "net"
    /\ CloseNet
    /\ dpc' = [dpc EXCEPT ![d] = "blocker"]
    /\ UNCHANGED <<gpc, subpc, destroyed, done, inPool, responses, serverClosing,
                   blockerVars, clientVars>>

(* Mutant: blocker.Close does not release the waiter. *)
DestroyBlockerSilent(d) ==
    /\ dpc[d] = "blocker"
    /\ bclosed' = TRUE
    /\ wg' = wg
    /\ dpc' = [dpc EXCEPT ![d] = "close"]
    /\ UNCHANGED <<gpc, subpc, destroyed, done, inPool, responses, requestsLeft,
                   connVars, clientVars>>

(* blocker.Close                                                               *)
DestroyBlocker(d) ==
    /\ dpc[d] = "blocker"
    /\ bclosed' = TRUE
    /\ wg' = IF ~bclosed /\ requestsLeft < 0 THEN wg - 1 ELSE wg
    /\ dpc' = [dpc EXCEPT ![d] = "close"]
    /\ UNCHANGED <<gpc, subpc, destroyed, done, inPool, responses, requestsLeft,
                   connVars, clientVars>>

(* close(c.done)                                                               *)
DestroyDone(d) ==
    /\ dpc[d] = "close"
    /\ done' = TRUE
    /\ dpc' = [dpc EXCEPT ![d] = "wait"]
    /\ UNCHANGED <<gpc, subpc, destroyed, inPool, responses, blockerVars, connVars,
                   clientVars>>

(* The checker returns from destroy; Destroy waits for both goroutines.        *)
DestroyAwait(d) ==
    /\ dpc[d] = "wait"
    /\ d = "caller" => gpc = "return" /\ subpc = "return"
    /\ dpc' = [dpc EXCEPT ![d] = "return"]
    /\ UNCHANGED <<gpc, subpc, destroyed, done, inPool, responses, blockerVars,
                   connVars, clientVars>>
--------------------------------------------------------------------------------
(* The client                                                                  *)
ClientSend ==
    /\ peer = "open" /\ unread < RecvBuffer
    /\ unread' = unread + 1
    /\ UNCHANGED <<gpc, subpc, inPool, responses, peer, unacked, blockerVars,
                   destroyVars, connVars>>

ClientRead ==
    /\ peer # "gone" /\ unacked > 0
    /\ unacked' = unacked - 1
    /\ UNCHANGED <<gpc, subpc, inPool, responses, peer, unread, blockerVars,
                   destroyVars, connVars>>

ClientLeave ==
    /\ \/ peer = "open" /\ peer' = "halfClosed"
       \/ peer # "gone" /\ peer' = "gone"
    /\ UNCHANGED <<gpc, subpc, inPool, responses, unread, unacked, blockerVars,
                   destroyVars, connVars>>

getter == \/ GetJobRequest \/ GetJobError \/ GetJobTimeout \/ IdleClose
          \/ Do \/ DoWake \/ DoRecheck \/ GetterSubmit
submitter == \/ SelectDone \/ SelectResponse \/ BlockerDone
             \/ SubmitResult \/ SubmitResultError
destroy(d) == \/ DestroySwap(d) \/ DestroyConn(d) \/ DestroyNet(d)
              \/ DestroyBlocker(d) \/ DestroyDone(d) \/ DestroyAwait(d)

ConnNext ==
    \/ getter \/ submitter \/ Commit \/ Check \/ CallDestroy
    \/ \E d \in Destroyer : destroy(d)
    \/ ClientSend \/ ClientRead \/ ClientLeave

ConnSpec == ConnInit /\ [][ConnNext]_handlerVars

(* Every goroutine that can take a step takes one, the workers included; the   *)
(* read deadline passes if nothing is read.  Nothing makes the client send,    *)
(* read or leave, and nobody has to call Destroy.                              *)
ConnFairness ==
    /\ WF_handlerVars(getter) /\ WF_handlerVars(submitter) /\ WF_handlerVars(Commit)
    /\ WF_handlerVars(Check)
    /\ \A d \in Destroyer : WF_handlerVars(destroy(d))

ConnFairSpec == ConnSpec /\ ConnFairness
--------------------------------------------------------------------------------
ConnTypeOK ==
    /\ gpc \in {"getJob", "idleClose", "do", "wait", "recheck", "submit", "return"}
    /\ subpc \in {"select", "done", "write", "return"}
    /\ dpc \in [Destroyer -> {"idle", "swap", "conn", "net", "blocker", "close",
                              "wait", "return"}]
    /\ requestsLeft \in -1 .. Max
    /\ wg \in {0, 1}
    /\ bclosed \in BOOLEAN
    /\ destroyed \in BOOLEAN
    /\ done \in BOOLEAN
    /\ inPool \in Nat
    /\ responses \in Nat
    /\ netOpen \in BOOLEAN
    /\ closed \in BOOLEAN
    /\ serverClosing \in BOOLEAN
    /\ peer \in {"open", "halfClosed", "gone"}
    /\ unread \in 0 .. RecvBuffer
    /\ unacked \in 0 .. SendBuffer

(* A worker never blocks on the responses channel: there is room in it for the *)
(* response of every job this connection has in the pool, also after the       *)
(* submitter has gone and nobody empties the channel.                          *)
WorkersNeverBlock == inPool + responses <= Max

(* The getter reads at most Max + 2 requests ahead of the responses that are   *)
(* written: one it holds itself, one the submitter holds (TestClientBlocks).   *)
Held(p) == IF p THEN 1 ELSE 0
ReadAheadBound ==
    Held(gpc \in {"do", "wait", "recheck", "submit"}) + inPool + responses
      + Held(subpc \in {"done", "write"}) <= Max + 2

(* The getter is held back only while Max requests really are outstanding, and *)
(* somebody is left to let it go: as long as it waits on the WaitGroup either  *)
(* the blocker is open with no request left, so that the next Done releases it,*)
(* or the WaitGroup is already free.                                           *)
WaiterIsReleasable ==
    /\ wg = 1 => gpc = "wait" /\ ~bclosed /\ requestsLeft = -1
    /\ gpc = "wait" /\ wg = 1 =>
          inPool + responses + Held(subpc = "done") = Max

(* The body of destroy runs once: the done channel is not closed twice, which  *)
(* would panic, however Destroy and the liveness checker interleave.           *)
DestroyOnce ==
    /\ \A d, e \in Destroyer :
          dpc[d] \in {"conn", "net", "blocker", "close"}
            /\ dpc[e] \in {"conn", "net", "blocker", "close"} => d = e
    /\ done => \A d \in Destroyer : dpc[d] \notin {"conn", "net", "blocker", "close"}

(* The refinement mapping to module Handle: the handle runs until the getter   *)
(* and the submitter have returned.                                            *)
Running == IF gpc = "return" /\ subpc = "return" THEN "ended" ELSE "running"
DestroyState ==
    CASE dpc["caller"] = "idle" -> "idle"
      [] dpc["caller"] = "return" -> "returned"
      [] OTHER -> "called"

Promise == INSTANCE Handle WITH handle <- Running, submitting <- (gpc = "submit"),
                                jobs <- inPool, teardown <- DestroyState

(* The goroutines of a connection keep the promise that Server relies on       *)
(* (module Handle): no job is submitted once Destroy has returned, no response *)
(* blocks a worker, and Destroy returns from whatever state the getter, the    *)
(* submitter, the liveness checker and the client are in when it is called.    *)
KeepsPromise == Promise!Spec

(* When the client is gone, both goroutines return without a call of Destroy.  *)
(* They leave together: if the getter returns, because of the read timeout or  *)
(* because of what the client has sent, or the submitter, because of a failed  *)
(* write, so does the other, though only the liveness checker tells it.        *)
(* Nothing is said of a client that has only closed its sending side, which    *)
(* the comments on Conn and on liveness checking call alive.                   *)
DeadClientIsReaped ==
    peer = "gone" \/ subpc = "return" \/ (gpc = "return" /\ peer = "open")
        ~> gpc = "return" /\ subpc = "return"

(* Backpressure is let go again: if the client keeps reading its responses, a  *)
(* getter that waits in blocker.Do gets on.                                    *)
BackpressureEnds == WF_handlerVars(ClientRead) => (gpc = "wait" ~> gpc # "wait")
================================================================================
