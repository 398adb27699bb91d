------------------------------- MODULE ClientConn -------------------------------
(*******************************************************************************)
(* conn/conn.go: one network connection to a keyless server, shared by many    *)
(* goroutines.  DoOperation registers a channel under a fresh packet ID, writes*)
(* the request and waits; a goroutine that loops on DoRead dispatches responses*)
(* by ID; timeoutRequest fails a request whose response is late; Close fails   *)
(* every request that is registered.                                           *)
(*                                                                             *)
(* A response channel is buffered with room for one result, so it is a result  *)
(* or None, and a send is enabled only when it is empty.  A critical section of*)
(* mapMtx that cannot block is one step; Close, which sends on channels with   *)
(* both mutexes held, takes one step per send.  Packets and results carry the  *)
(* call they belong to ("of"): the code cannot see it, the properties can.     *)
(*******************************************************************************)
EXTENDS Integers, Sequences

CONSTANTS Op,       \* calls of DoOperation, each by its own goroutine
          Reader,   \* goroutines that loop on DoRead (client/remote.go, Dial)
          Closer,   \* other goroutines that call Close
          IDSpace,  \* the number of packet IDs, 2^32 in the code
          None      \* no value: nil, an empty channel, a free mutex

ASSUME ConnAssumption ==
    /\ IDSpace \in Nat \ {0}
    /\ Op \cap Reader = {}
    /\ Op \cap Closer = {}
    /\ Reader \cap Closer = {}
    /\ None \notin Op \cup Reader \cup Closer \cup Nat

ID == 0 .. IDSpace - 1
Process == Op \cup Reader \cup Closer

(* The agents that take a channel out of the map to send on it: a reader, and  *)
(* the timeoutRequest goroutine of a call, which goes by the call's name.      *)
Agent == Op \cup Reader

VARIABLES
    listeners,  \* Conn.listeners: for each ID the call whose channel is there
    nextID,     \* Conn.nextID
    closed,     \* Conn.closed; the network connection is closed with it
    writeMtx,   \* the process that holds the mutex, or None
    mapMtx,
    chan,       \* the response channel of each call
    pc,         \* where each DoOperation is
    id,         \* the ID it was given
    ret,        \* what it returned
    timer,      \* where the timeoutRequest goroutine of each call is
    rpc,        \* where each DoRead loop is
    pkt,        \* the packet it has read
    held,       \* the channel an agent has extracted and not yet sent on
    cpc,        \* where each process is in Close
    todo,       \* the channels Close has still to signal
    received,   \* requests the server has read
    answered,   \* requests the server has answered
    inbound,    \* responses on their way, in the order they will be read
    issued      \* history: how many IDs have been allocated

vars == <<listeners, nextID, closed, writeMtx, mapMtx, chan, pc, id, ret, timer,
          rpc, pkt, held, cpc, todo, received, answered, inbound, issued>>

opVars     == <<pc, id, ret>>
readerVars == <<rpc, pkt>>
closeVars  == <<closed, cpc, todo>>
idVars     == <<nextID, issued>>
serverVars == <<received, answered>>

Packet == [id : ID, of : Op]
Signal == <<"nil", None>>
TimedOut == <<"timeout", None>>
Response(o) == <<"response", o>>
Result == {Signal, TimedOut} \cup {Response(o) : o \in Op}
Error(e) == <<e, None>>
Errors == {Error(e) : e \in {"closed", "collision", "write", "timeout"}}
Returned == {Response(o) : o \in Op} \cup Errors

ASSUME NoneAssumption == None \notin Result \cup Returned

Init ==
    /\ listeners = [i \in ID |-> None]
    /\ nextID = 0
    /\ closed = FALSE
    /\ writeMtx = None
    /\ mapMtx = None
    /\ chan = [o \in Op |-> None]
    /\ pc = [o \in Op |-> "idle"]
    /\ id = [o \in Op |-> None]
    /\ ret = [o \in Op |-> None]
    /\ timer = [o \in Op |-> "off"]
    /\ rpc = [r \in Reader |-> "read"]
    /\ pkt = [r \in Reader |-> None]
    /\ held = [a \in Agent |-> None]
    /\ cpc = [p \in Process |-> "idle"]
    /\ todo = {}
    /\ received = {}
    /\ answered = {}
    /\ inbound = <<>>
    /\ issued = 0
--------------------------------------------------------------------------------
(* DoOperation *)

Return(o, r) == /\ pc' = [pc EXCEPT ![o] = "done"]
                /\ ret' = [ret EXCEPT ![o] = r]

(* id := c.nextID; c.nextID++ on a uint32.                                     *)
AllocateID == /\ nextID' = (nextID + 1) % IDSpace
              /\ issued' = issued + 1

(* The section under mapMtx: refuse on a closed connection, allocate an ID,    *)
(* give up and close the connection if it is taken, register the channel.      *)
RegisterClosed(o) ==
    /\ pc[o] = "idle" /\ mapMtx = None
    /\ closed
    /\ Return(o, Error("closed"))
    /\ UNCHANGED <<listeners, writeMtx, mapMtx, chan, id, timer, held, inbound,
                   closeVars, idVars, readerVars, serverVars>>

RegisterCollision(o) ==
    /\ pc[o] = "idle" /\ mapMtx = None
    /\ ~closed
    /\ listeners[nextID] # None
    /\ AllocateID
    /\ pc' = [pc EXCEPT ![o] = "collided"]
    /\ cpc' = [cpc EXCEPT ![o] = "lockWrite"]
    /\ UNCHANGED <<listeners, closed, writeMtx, mapMtx, chan, id, ret, timer, held,
                   todo, inbound, readerVars, serverVars>>

Register(o) ==
    /\ pc[o] = "idle" /\ mapMtx = None
    /\ ~closed
    /\ listeners[nextID] = None
    /\ AllocateID
    /\ listeners' = [listeners EXCEPT ![nextID] = o]
    /\ id' = [id EXCEPT ![o] = nextID]
    /\ pc' = [pc EXCEPT ![o] = "lockWrite"]
    /\ UNCHANGED <<writeMtx, mapMtx, chan, ret, timer, held, inbound,
                   closeVars, readerVars, serverVars>>

(* The error return once the Close that the collision caused has returned.     *)
CollisionReturn(o) ==
    /\ pc[o] = "collided" /\ cpc[o] = "done"
    /\ Return(o, Error("collision"))
    /\ UNCHANGED <<listeners, writeMtx, mapMtx, chan, id, timer, held, inbound,
                   closeVars, idVars, readerVars, serverVars>>

(* writeMtx.Lock, and the second look at closed.                               *)
LockWrite(o) ==
    /\ pc[o] = "lockWrite" /\ writeMtx = None
    /\ \/ /\ closed
          /\ Return(o, Error("closed"))
          /\ UNCHANGED writeMtx
       \/ /\ ~closed
          /\ writeMtx' = o
          /\ pc' = [pc EXCEPT ![o] = "write"]
          /\ UNCHANGED ret
    /\ UNCHANGED <<listeners, mapMtx, chan, id, timer, held, inbound,
                   closeVars, idVars, readerVars, serverVars>>

(* Mutant: the packet carries nextID, read again outside mapMtx. *)
WriteLatestID(o) ==
    /\ pc[o] = "write"
    /\ received' = received \cup {[id |-> nextID, of |-> o]}
    /\ writeMtx' = None
    /\ timer' = [timer EXCEPT ![o] = "armed"]
    /\ pc' = [pc EXCEPT ![o] = "wait"]
    /\ UNCHANGED <<listeners, mapMtx, chan, id, ret, held, answered, inbound,
                   closeVars, idVars, readerVars>>

(* WriteTo succeeds: unlock, start timeoutRequest, wait.                       *)
Write(o) ==
    /\ pc[o] = "write"
    /\ received' = received \cup {[id |-> id[o], of |-> o]}
    /\ writeMtx' = None
    /\ timer' = [timer EXCEPT ![o] = "armed"]
    /\ pc' = [pc EXCEPT ![o] = "wait"]
    /\ UNCHANGED <<listeners, mapMtx, chan, id, ret, held, answered, inbound,
                   closeVars, idVars, readerVars>>

(* SetWriteDeadline or WriteTo fails: the request does not reach the server,   *)
(* no timeoutRequest is started, the channel stays in the map.                 *)
WriteError(o) ==
    /\ pc[o] = "write"
    /\ writeMtx' = None
    /\ Return(o, Error("write"))
    /\ UNCHANGED <<listeners, mapMtx, chan, id, timer, held, inbound,
                   closeVars, idVars, readerVars, serverVars>>

(* Mutant: the nil that Close sends is taken for a result. *)
OutcomeUnchecked(res) == IF res = TimedOut THEN Error("timeout")
                ELSE res

(* res := <-response                                                           *)
Outcome(res) == IF res = Signal THEN Error("closed")
                ELSE IF res = TimedOut THEN Error("timeout")
                ELSE res

Receive(o) ==
    /\ pc[o] = "wait" /\ chan[o] # None
    /\ chan' = [chan EXCEPT ![o] = None]
    /\ Return(o, Outcome(chan[o]))
    /\ UNCHANGED <<listeners, writeMtx, mapMtx, id, timer, held, inbound,
                   closeVars, idVars, readerVars, serverVars>>
--------------------------------------------------------------------------------
(* Mutant: the channel is looked up but not deleted. *)
ExtractKeeps(a, i) == /\ held' = [held EXCEPT ![a] = listeners[i]]
                 /\ UNCHANGED listeners

(* extractChannel by agent a: look up and delete in one section of mapMtx.     *)
Extract(a, i) == /\ held' = [held EXCEPT ![a] = listeners[i]]
                 /\ listeners' = [listeners EXCEPT ![i] = None]

(* l <- result: take the channel the agent holds and put the result in it.     *)
Send(a, result) == /\ chan[held[a]] = None
                   /\ chan' = [chan EXCEPT ![held[a]] = result]
                   /\ held' = [held EXCEPT ![a] = None]

(* timeoutRequest: the sleep ends.  It looks the request up by its ID.         *)
TimeoutExtract(o) ==
    /\ timer[o] = "armed" /\ mapMtx = None
    /\ \/ /\ closed \/ listeners[id[o]] = None
          /\ timer' = [timer EXCEPT ![o] = "done"]
          /\ UNCHANGED <<held, listeners>>
       \/ /\ ~closed /\ listeners[id[o]] # None
          /\ Extract(o, id[o])
          /\ timer' = [timer EXCEPT ![o] = "send"]
    /\ UNCHANGED <<writeMtx, mapMtx, chan, inbound, opVars,
                   closeVars, idVars, readerVars, serverVars>>

TimeoutSend(o) ==
    /\ timer[o] = "send"
    /\ Send(o, TimedOut)
    /\ timer' = [timer EXCEPT ![o] = "done"]
    /\ UNCHANGED <<listeners, writeMtx, mapMtx, inbound, opVars,
                   closeVars, idVars, readerVars, serverVars>>
--------------------------------------------------------------------------------
(* DoRead, in the loop that singleRemote.Dial starts                           *)

(* ReadFrom returns a packet.                                                  *)
Read(r) ==
    /\ rpc[r] = "read" /\ ~closed
    /\ inbound # <<>>
    /\ pkt' = [pkt EXCEPT ![r] = Head(inbound)]
    /\ inbound' = Tail(inbound)
    /\ rpc' = [rpc EXCEPT ![r] = "extract"]
    /\ UNCHANGED <<listeners, writeMtx, mapMtx, chan, timer, held, opVars,
                   closeVars, idVars, serverVars>>

(* DoRead returns nil and is called again.                                     *)
NextRead(r) == /\ rpc' = [rpc EXCEPT ![r] = "read"]
               /\ pkt' = [pkt EXCEPT ![r] = None]

(* The loop breaks on an error and closes the connection.                      *)
BreakLoop(r) == /\ rpc' = [rpc EXCEPT ![r] = "done"]
                /\ pkt' = [pkt EXCEPT ![r] = None]
                /\ cpc' = [cpc EXCEPT ![r] = "lockWrite"]

(* ReadFrom fails: the server hung up, the stream is malformed, or the         *)
(* connection was closed on this side.                                         *)
ReadError(r) ==
    /\ rpc[r] = "read"
    /\ BreakLoop(r)
    /\ UNCHANGED <<listeners, closed, writeMtx, mapMtx, chan, timer, held,
                   todo, inbound, opVars, idVars, serverVars>>

ReadExtract(r) ==
    /\ rpc[r] = "extract" /\ mapMtx = None
    /\ \/ /\ closed
          /\ BreakLoop(r)
          /\ UNCHANGED <<held, listeners>>
       \/ /\ ~closed /\ listeners[pkt[r].id] = None
          /\ NextRead(r)
          /\ UNCHANGED <<held, listeners, cpc>>
       \/ /\ ~closed /\ listeners[pkt[r].id] # None
          /\ Extract(r, pkt[r].id)
          /\ rpc' = [rpc EXCEPT ![r] = "send"]
          /\ UNCHANGED <<cpc, pkt>>
    /\ UNCHANGED <<closed, writeMtx, mapMtx, chan, timer, todo, inbound,
                   opVars, idVars, serverVars>>

ReadSend(r) ==
    /\ rpc[r] = "send"
    /\ Send(r, Response(pkt[r].of))
    /\ NextRead(r)
    /\ UNCHANGED <<listeners, writeMtx, mapMtx, timer, inbound, opVars,
                   closeVars, idVars, serverVars>>
--------------------------------------------------------------------------------
(* Close: writeMtx, then mapMtx                                                *)

CloseCall(c) ==
    /\ cpc[c] = "idle"
    /\ cpc' = [cpc EXCEPT ![c] = "lockWrite"]
    /\ UNCHANGED <<listeners, closed, writeMtx, mapMtx, chan, timer, held, todo,
                   inbound, opVars, idVars, readerVars, serverVars>>

CloseLockWrite(p) ==
    /\ cpc[p] = "lockWrite" /\ writeMtx = None
    /\ writeMtx' = p
    /\ cpc' = [cpc EXCEPT ![p] = "lockMap"]
    /\ UNCHANGED <<listeners, closed, mapMtx, chan, timer, held, todo,
                   inbound, opVars, idVars, readerVars, serverVars>>

CloseLockMap(p) ==
    /\ cpc[p] = "lockMap" /\ mapMtx = None
    /\ \/ /\ closed
          /\ writeMtx' = None
          /\ cpc' = [cpc EXCEPT ![p] = "done"]
          /\ UNCHANGED <<closed, mapMtx, todo>>
       \/ /\ ~closed
          /\ closed' = TRUE
          /\ mapMtx' = p
          /\ todo' = {o \in Op : \E i \in ID : listeners[i] = o}
          /\ cpc' = [cpc EXCEPT ![p] = "signal"]
          /\ UNCHANGED writeMtx
    /\ UNCHANGED <<listeners, chan, timer, held, inbound, opVars, idVars,
                   readerVars, serverVars>>

(* l <- nil for one more channel of the map, in any order.                     *)
CloseSignal(p) ==
    /\ cpc[p] = "signal"
    /\ \E o \in todo : /\ chan[o] = None
                       /\ chan' = [chan EXCEPT ![o] = Signal]
                       /\ todo' = todo \ {o}
    /\ UNCHANGED <<listeners, closed, writeMtx, mapMtx, timer, held, cpc, inbound,
                   opVars, idVars, readerVars, serverVars>>

(* Mutant: Close leaves writeMtx locked. *)
CloseUnlockMap(p) ==
    /\ cpc[p] = "signal" /\ todo = {}
    /\ mapMtx' = None
    /\ cpc' = [cpc EXCEPT ![p] = "done"]
    /\ UNCHANGED <<listeners, closed, writeMtx, chan, timer, held, todo, inbound,
                   opVars, idVars, readerVars, serverVars>>

CloseUnlock(p) ==
    /\ cpc[p] = "signal" /\ todo = {}
    /\ mapMtx' = None
    /\ writeMtx' = None
    /\ cpc' = [cpc EXCEPT ![p] = "done"]
    /\ UNCHANGED <<listeners, closed, chan, timer, held, todo, inbound, opVars,
                   idVars, readerVars, serverVars>>
--------------------------------------------------------------------------------
(* The server answers requests in any order, or never.                         *)
Answer(q) ==
    /\ q \in received \ answered
    /\ answered' = answered \cup {q}
    /\ inbound' = Append(inbound, q)
    /\ UNCHANGED <<listeners, writeMtx, mapMtx, chan, timer, held, received,
                   opVars, closeVars, idVars, readerVars>>

DoOperation(o) == \/ RegisterClosed(o) \/ RegisterCollision(o) \/ Register(o)
                  \/ CollisionReturn(o) \/ LockWrite(o)
                  \/ Write(o) \/ WriteError(o) \/ Receive(o)
timeoutRequest(o) == TimeoutExtract(o) \/ TimeoutSend(o)
DoRead(r) == Read(r) \/ ReadError(r) \/ ReadExtract(r) \/ ReadSend(r)
Close(p) == \/ CloseLockWrite(p) \/ CloseLockMap(p)
            \/ CloseSignal(p) \/ CloseUnlock(p)

Next == \/ \E o \in Op : DoOperation(o) \/ timeoutRequest(o)
        \/ \E r \in Reader : DoRead(r)
        \/ \E c \in Closer : CloseCall(c)
        \/ \E p \in Process : Close(p)
        \/ \E q \in Packet : Answer(q)

Spec == Init /\ [][Next]_vars

(* Goroutines are scheduled and a mutex that is released is handed on; a write *)
(* ends, by its deadline at the latest; the sleep of timeoutRequest ends; a    *)
(* read fails once the connection is closed.  Nobody has to call DoOperation or*)
(* Close, and the server owes no answer.                                       *)
Step(o) == \/ CollisionReturn(o) \/ LockWrite(o) \/ Write(o) \/ WriteError(o)
           \/ Receive(o)

Fairness ==
    /\ \A o \in Op : WF_vars(Step(o)) /\ WF_vars(timeoutRequest(o))
    /\ \A r \in Reader : /\ WF_vars(Read(r) \/ ReadExtract(r) \/ ReadSend(r))
                         /\ WF_vars(closed /\ ReadError(r))
    /\ \A p \in Process : WF_vars(Close(p))

FairSpec == Spec /\ Fairness
--------------------------------------------------------------------------------
TypeOK ==
    /\ listeners \in [ID -> Op \cup {None}]
    /\ nextID \in ID
    /\ closed \in BOOLEAN
    /\ writeMtx \in Process \cup {None}
    /\ mapMtx \in Process \cup {None}
    /\ chan \in [Op -> Result \cup {None}]
    /\ pc \in [Op -> {"idle", "collided", "lockWrite", "write", "wait", "done"}]
    /\ id \in [Op -> ID \cup {None}]
    /\ ret \in [Op -> Returned \cup {None}]
    /\ timer \in [Op -> {"off", "armed", "send", "done"}]
    /\ rpc \in [Reader -> {"read", "extract", "send", "done"}]
    /\ pkt \in [Reader -> Packet \cup {None}]
    /\ held \in [Agent -> Op \cup {None}]
    /\ cpc \in [Process -> {"idle", "lockWrite", "lockMap", "signal", "done"}]
    /\ todo \subseteq Op
    /\ received \subseteq Packet
    /\ answered \subseteq received
    /\ inbound \in Seq(Packet)
    /\ issued \in Nat

(* No send on a response channel ever blocks: whoever is about to send on one, *)
(* DoRead, timeoutRequest or Close, finds it empty (the NOTE in DoOperation    *)
(* relies on it).  Otherwise the reader would stop reading for everybody, or   *)
(* Close would keep both mutexes forever.                                      *)
SendsNeverBlock ==
    /\ \A a \in Agent : held[a] # None => chan[held[a]] = None
    /\ \A o \in todo : chan[o] = None

(* As long as no packet ID has been given out twice, a call that returns a     *)
(* response returns the response to its own request, whatever the order of the *)
(* responses and however late they are (DoRead's dispatch by ID).              *)
Matched == \A o, x \in Op : ret[o] = Response(x) => x = o
MatchedUntilWrap == issued <= IDSpace => Matched

(* Every call of Close returns: it is never stuck behind a writer, a full      *)
(* channel or a second Close.                                                  *)
CloseReturns == \A p \in Process : cpc[p] # "idle" ~> cpc[p] = "done"

(* The refinement mapping to module Calls.  A response to another call's       *)
(* request would be an outcome that Calls does not allow.                      *)
CallOf == [o \in Op |-> IF pc[o] \in {"idle", "done"} THEN pc[o] ELSE "pending"]
OutcomeOf == [o \in Op |-> IF ret[o] = None THEN "none"
                           ELSE IF ret[o] = Response(o) THEN "answer"
                           ELSE IF ret[o] \in Errors THEN "error"
                           ELSE "foreign"]
AnsweredCalls == {o \in Op : \E q \in answered : q.of = o}

Promise == INSTANCE Calls WITH call <- CallOf, outcome <- OutcomeOf,
                               answered <- AnsweredCalls, open <- ~closed

(* The connection implements module Calls, as long as no packet ID is given out*)
(* twice: a call returns once, with the answer to its own request or an error, *)
(* and is refused after Close; every call that has begun returns.              *)
KeepsPromise == Promise!Spec
================================================================================
