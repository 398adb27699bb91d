---------------------------------- MODULE Rpc ----------------------------------
(*******************************************************************************)
(* Conn.RPC (conn/conn.go): an rpc.Client of package net/rpc over a keyless    *)
(* connection that other goroutines use as well.  clientCodec turns one request*)
(* into one DoOperation with OpRPC and pushes the payload of the answer through*)
(* an io.Pipe to the goroutine that decodes responses; serverCodec             *)
(* (server/server.go) is the other end.                                        *)
(*                                                                             *)
(* rpc.Client and io.Pipe are outside the repository and modelled as the code  *)
(* uses them: send holds reqMutex while the codec writes a request, and a write*)
(* to the pipe returns when all of it has been read.  So a call does not get   *)
(* through WriteRequest until somebody reads its response.                     *)
(*******************************************************************************)
EXTENDS ClientConn

CONSTANT Uses       \* which operations may be the calls of an RPC client

ASSUME UsesAssumption == Uses \subseteq SUBSET Op

VARIABLES
    viaRPC,     \* the operations that are calls of the RPC client
    spc,        \* where each call is in send
    payload,    \* what the server has put into the response to each call
    finished,   \* the calls that are completed (call.done)
    reqMutex,   \* the call that holds Client.reqMutex, or None
    pending,    \* Client.pending, which maps sequence numbers to calls
    client,     \* open, closing (Client.closing) or closed (the pipe, too)
    shutdown,   \* Client.shutdown
    ipc,        \* where the goroutine input is
    reading,    \* the call whose response it is decoding
    whole       \* it has all of that response in its buffer

rpcVars == <<viaRPC, spc, payload, finished, reqMutex, pending, client, shutdown,
             ipc, reading, whole>>
allVars == <<vars, rpcVars>>

(* What can become of a request on the server: a reply, one of a type that the *)
(* caller did not expect, the error of the method, a reply that cannot be      *)
(* encoded (net/rpc drops the error of WriteResponse and the payload stays     *)
(* empty), or an error packet because there is no such method.                 *)
ServeRequest == {"reply", "misfit", "error", "empty", "OpError"}

RpcInit ==
    /\ Init
    /\ viaRPC \in Uses
    /\ spc = [o \in Op |-> "idle"]
    /\ payload = [o \in Op |-> "none"]
    /\ finished = {}
    /\ reqMutex = None /\ pending = {}
    /\ client = "open" /\ shutdown = FALSE
    /\ ipc = "header" /\ reading = None /\ whole = FALSE
--------------------------------------------------------------------------------
(* rpc.Client.send                                                             *)
Call(o) ==
    /\ o \in viaRPC /\ spc[o] = "idle"
    /\ spc' = [spc EXCEPT ![o] = "lock"]
    /\ UNCHANGED <<vars, viaRPC, payload, finished, reqMutex, pending, client,
                   shutdown, ipc, reading, whole>>

SendRefused(o) ==
    /\ spc[o] = "lock" /\ reqMutex = None
    /\ shutdown \/ client # "open"
    /\ spc' = [spc EXCEPT ![o] = "out"]
    /\ finished' = finished \cup {o}
    /\ UNCHANGED <<vars, viaRPC, payload, reqMutex, pending, client, shutdown,
                   ipc, reading, whole>>

SendRegister(o) ==
    /\ spc[o] = "lock" /\ reqMutex = None
    /\ ~shutdown /\ client = "open"
    /\ spc' = [spc EXCEPT ![o] = "do"]
    /\ reqMutex' = o
    /\ pending' = pending \cup {o}
    /\ UNCHANGED <<vars, viaRPC, payload, finished, client, shutdown, ipc, reading,
                   whole>>

(* Mutant of SendFailed: the call is completed without a look at pending.      *)
SendFailedBlindly(o) ==
    /\ spc' = [spc EXCEPT ![o] = "out"]
    /\ reqMutex' = None
    /\ pending' = pending \ {o}
    /\ finished' = finished \cup {o}

(* WriteRequest has returned an error: the call fails unless input has taken   *)
(* it out of pending, and reqMutex is unlocked.                                *)
SendFailed(o) ==
    /\ spc' = [spc EXCEPT ![o] = "out"]
    /\ reqMutex' = None
    /\ pending' = pending \ {o}
    /\ finished' = finished \cup ({o} \cap pending)

(* WriteRequest has returned nil.                                              *)
SendReturns(o) ==
    /\ spc' = [spc EXCEPT ![o] = "out"]
    /\ reqMutex' = None
--------------------------------------------------------------------------------
(* clientCodec.WriteRequest                                                    *)

(* The arguments cannot be encoded.                                            *)
EncodeError(o) ==
    /\ spc[o] = "do" /\ pc[o] = "idle"
    /\ SendFailed(o)
    /\ UNCHANGED <<vars, viaRPC, payload, client, shutdown, ipc, reading, whole>>

(* A bound: where there is an RPC client, only the reader closes the           *)
(* connection (two that close it are explored without one).                    *)
OneCloser == viaRPC = {} \/ \A c \in Closer : cpc'[c] = "idle"

(* DoOperation: a step of the connection; a call of the RPC client enters it   *)
(* from WriteRequest, other goroutines do when they like.                      *)
Connection ==
    /\ Next
    /\ \A o \in viaRPC : pc[o] = "idle" /\ pc'[o] # "idle" => spc[o] = "do"
    /\ OneCloser
    /\ UNCHANGED rpcVars

(* DoOperation has returned an error, or an OpError.                           *)
OperationError(o) ==
    /\ spc[o] = "do" /\ pc[o] = "done"
    /\ SendFailed(o)
    /\ UNCHANGED <<vars, viaRPC, payload, client, shutdown, ipc, reading, whole>>

(* It has returned a response, which goes into the pipe.                       *)
WriteRequest(o) ==
    /\ spc[o] = "do" /\ pc[o] = "done" /\ ret[o] \notin Errors
    /\ \E p \in ServeRequest \ {"OpError"} : payload' = [payload EXCEPT ![o] = p]
    /\ spc' = [spc EXCEPT ![o] = "write"]
    /\ UNCHANGED <<vars, viaRPC, finished, reqMutex, pending, client, shutdown, ipc,
                   reading, whole>>

(* The pipe is closed while the call waits for a reader.                       *)
WriteClosed(o) ==
    /\ spc[o] = "write" /\ client = "closed"
    /\ SendFailed(o)
    /\ UNCHANGED <<vars, viaRPC, payload, client, shutdown, ipc, reading, whole>>
--------------------------------------------------------------------------------
(* rpc.Client.input, with the codec's ReadResponseHeader and ReadResponseBody  *)

(* An empty payload: the write returns, and the decoder goes on waiting.       *)
ReadNothing(o) ==
    /\ ipc = "header" /\ client # "closed"
    /\ spc[o] = "write" /\ payload[o] = "empty"
    /\ SendReturns(o)
    /\ UNCHANGED <<vars, viaRPC, payload, finished, pending, client, shutdown, ipc,
                   reading, whole>>

(* A new decoder reads the header, and with it the rest of the response or not.*)
(* The call is looked up by its sequence number.                               *)
ReadResponseHeader(o) ==
    /\ ipc = "header" /\ client # "closed"
    /\ spc[o] = "write" /\ payload[o] # "empty"
    /\ ipc' = "body" /\ reading' = o
    /\ pending' = pending \ {o}
    /\ \/ whole' = TRUE /\ SendReturns(o)
       \/ whole' = FALSE /\ UNCHANGED <<spc, reqMutex>>
    /\ UNCHANGED <<vars, viaRPC, payload, finished, client, shutdown>>

ReadHeaderClosed ==
    /\ ipc = "header" /\ client = "closed"
    /\ ipc' = "lock"
    /\ UNCHANGED <<vars, viaRPC, spc, payload, finished, reqMutex, pending, client,
                   shutdown, reading, whole>>

(* The body is decoded and the call is completed; that of an error is thrown   *)
(* away.  A reply that does not fit ends the loop.                             *)
Complete(goesOn) ==
    /\ finished' = finished \cup {reading}
    /\ payload' = [payload EXCEPT ![reading] = IF @ = "misfit" THEN @ ELSE "none"]
    /\ ipc' = IF goesOn THEN "header" ELSE "lock"
    /\ reading' = None /\ whole' = FALSE

(* Mutant of ReadResponseBody: there must be something to decode into.         *)
ReadResponseBodyNotNil ==
    /\ ipc = "body"
    /\ whole \/ client # "closed"
    /\ Complete(payload[reading] = "reply")
    /\ IF whole THEN UNCHANGED <<spc, reqMutex>> ELSE SendReturns(reading)
    /\ UNCHANGED <<vars, viaRPC, pending, client, shutdown>>

ReadResponseBody ==
    /\ ipc = "body"
    /\ whole \/ client # "closed"
    /\ Complete(payload[reading] # "misfit")
    /\ IF whole THEN UNCHANGED <<spc, reqMutex>> ELSE SendReturns(reading)
    /\ UNCHANGED <<vars, viaRPC, pending, client, shutdown>>

ReadBodyClosed ==
    /\ ipc = "body" /\ ~whole /\ client = "closed"
    /\ Complete(FALSE)
    /\ UNCHANGED <<vars, viaRPC, spc, reqMutex, pending, client, shutdown>>

(* Mutant of Terminate: the calls that are left are not completed.             *)
TerminateSilently ==
    /\ ipc = "lock" /\ reqMutex = None
    /\ shutdown' = TRUE
    /\ ipc' = "end"
    /\ UNCHANGED <<vars, viaRPC, spc, payload, finished, reqMutex, pending, client,
                   reading, whole>>

(* The loop is over: under reqMutex, fail what is left.                        *)
Terminate ==
    /\ ipc = "lock" /\ reqMutex = None
    /\ shutdown' = TRUE
    /\ finished' = finished \cup pending
    /\ pending' = {}
    /\ ipc' = "end"
    /\ UNCHANGED <<vars, viaRPC, spc, payload, reqMutex, client, reading, whole>>
--------------------------------------------------------------------------------
(* rpc.Client.Close and clientCodec.Close                                      *)
ClientClose ==
    /\ viaRPC # {} /\ client = "open"
    /\ client' = "closing"
    /\ UNCHANGED <<vars, viaRPC, spc, payload, finished, reqMutex, pending, shutdown,
                   ipc, reading, whole>>

(* Mutant of CodecClose: the pipe is left open.                                *)
CodecCloseNothing ==
    /\ client = "closing"
    /\ UNCHANGED allVars

CodecClose ==
    /\ client = "closing"
    /\ client' = "closed"
    /\ UNCHANGED <<vars, viaRPC, spc, payload, finished, reqMutex, pending, shutdown,
                   ipc, reading, whole>>

send(o) ==
    \/ SendRefused(o) \/ SendRegister(o)
    \/ OperationError(o) \/ WriteRequest(o) \/ WriteClosed(o)

input ==
    \/ \E o \in Op : ReadNothing(o) \/ ReadResponseHeader(o)
    \/ ReadHeaderClosed \/ ReadResponseBody \/ ReadBodyClosed \/ Terminate

RpcNext ==
    \/ Connection
    \/ \E o \in Op : Call(o) \/ send(o) \/ EncodeError(o)
    \/ input
    \/ ClientClose \/ CodecClose

RpcSpec == RpcInit /\ [][RpcNext]_allVars

(* The goroutines of the connection and of the RPC client are scheduled; a     *)
(* caller that is in WriteRequest goes on to DoOperation.  Nobody has to close *)
(* the client.                                                                 *)
RpcFairness ==
    /\ Fairness
    /\ \A o \in Op : /\ WF_allVars(send(o))
                     /\ WF_allVars(o \in viaRPC /\ pc[o] = "idle" /\ DoOperation(o) /\ Connection)
    /\ WF_allVars(input) /\ WF_allVars(CodecClose)

RpcFairSpec == RpcSpec /\ RpcFairness
--------------------------------------------------------------------------------
(* A call of the RPC client that has been registered is in one place: pending, *)
(* in the hands of input, or completed.  So none is completed twice, by send   *)
(* and by input, and none is forgotten when one of them fails.                 *)
OneOwner ==
    \A o \in Op :
        LET places == {p \in {"pending", "reading", "finished"} :
                          CASE p = "pending" -> o \in pending
                            [] p = "reading" -> reading = o
                            [] OTHER -> o \in finished}
        IN  \E p \in {"pending", "reading", "finished"} :
               places = IF spc[o] \in {"idle", "lock"} THEN {} ELSE {p}

(* An error of one call, of the connection or of the server is the error of    *)
(* that call alone: the goroutine that reads responses ends only when the      *)
(* client is closed or a reply is not of the type that its caller expects.     *)
ErrorsStayLocal ==
    ipc \in {"lock", "end"} =>
        client = "closed" \/ \E o \in Op : payload[o] = "misfit"

(* Every call returns, unless the client stays open after a reply that cannot  *)
(* be encoded on the server, or decoded here (then send may hold reqMutex and  *)
(* wait for a reader that waits for reqMutex).  Once the client is closed      *)
(* every call returns.                                                         *)
RpcReturns ==
    \A o \in Op :
        /\ spc[o] # "idle" ~> \/ o \in finished
                              \/ \E x \in Op : payload[x] \in {"empty", "misfit"}
        /\ spc[o] # "idle" /\ client = "closed" ~> o \in finished

(* "Closing the returned *rpc.Client will cleanup any spawned goroutines".     *)
CloseCleansUp == client = "closing" ~> ipc = "end"
================================================================================
