---------------------------- MODULE ClientConnProofs ----------------------------
(*******************************************************************************)
(* Theorems about ClientConn, for any sets of calls, readers and closers and   *)
(* any number of packet IDs.                                                   *)
(*                                                                             *)
(* SendsNeverBlock is not inductive.  What makes it true is that the right to  *)
(* send on a call's channel is in one place at a time: with the map (until     *)
(* Close lists the channel in todo), with the agent that extracted the channel,*)
(* or spent.  SendRights says so; Mechanics holds what the types need.         *)
(*******************************************************************************)
EXTENDS ClientConn, TLAPS

(* Local facts: a call that has an ID has left "idle", an agent that is about  *)
(* to extract or send knows what.                                              *)
Mechanics ==
    /\ \A o \in Op : /\ pc[o] \in {"lockWrite", "write", "wait"} => id[o] \in ID
                     /\ timer[o] # "off" => id[o] \in ID
                     /\ timer[o] = "send" => held[o] \in Op
                     /\ pc[o] \in {"idle", "collided"} => id[o] = None
                     /\ pc[o] # "done" => ret[o] = None
    /\ \A r \in Reader : /\ rpc[r] \in {"extract", "send"} => pkt[r] \in Packet
                         /\ rpc[r] = "send" => held[r] \in Op

(* A listed channel is the one of the call that got the ID, and empty while    *)
(* the connection is open; an extracted one is unlisted, unsignalled, empty,   *)
(* and extracted by one agent; Close lists channels to signal only once it has *)
(* closed the connection.                                                      *)
Listed == \A i \in ID : listeners[i] # None =>
             /\ id[listeners[i]] = i
             /\ ~closed => chan[listeners[i]] = None
Extracted == \A a \in Agent : held[a] # None =>
                /\ \A i \in ID : listeners[i] # held[a]
                /\ held[a] \notin todo
                /\ chan[held[a]] = None
                /\ id[held[a]] \in ID
ExtractedOnce == \A a, b \in Agent : held[a] # None /\ held[a] = held[b] => a = b
Signalled == /\ ~closed => todo = {}
             /\ \A o \in todo : chan[o] = None /\ id[o] \in ID
Unused == \A o \in Op : id[o] = None => chan[o] = None

SendRights == Listed /\ Extracted /\ ExtractedOnce /\ Signalled /\ Unused

SafetyInv == TypeOK /\ Mechanics /\ SendRights
--------------------------------------------------------------------------------
(* Facts about the values: the results, the packets, the next ID.              *)

LEMMA ResultFacts ==
    /\ Signal \in Result /\ TimedOut \in Result
    /\ \A o \in Op : Response(o) \in Result /\ Response(o) \in Returned
    /\ \A e \in {"closed", "collision", "write", "timeout"} :
          Error(e) \in Errors /\ Error(e) \in Returned
    /\ \A res \in Result : Outcome(res) \in Returned
BY DEF Result, Signal, TimedOut, Response, Error, Errors, Returned, Outcome

LEMMA ResponseFacts ==
    /\ \A o, x \in Op : Response(o) = Response(x) => o = x
    /\ \A o \in Op : /\ Response(o) # None
                     /\ Response(o) # Signal /\ Response(o) # TimedOut
                     /\ Response(o) \notin Errors
    /\ \A res \in Result, o \in Op : Outcome(res) = Response(o) => res = Response(o)
BY NoneAssumption, ResultFacts
   DEF Result, Signal, TimedOut, Response, Error, Errors, Outcome

LEMMA PacketFacts ==
    /\ \A i \in ID, o \in Op : [id |-> i, of |-> o] \in Packet
    /\ \A q \in Packet : q.id \in ID /\ q.of \in Op
BY DEF Packet

LEMMA NextIDFacts ==
    ASSUME AllocateID, nextID \in ID, issued \in Nat
    PROVE  /\ nextID' \in ID
           /\ issued' = issued + 1
           /\ nextID + 1 < IDSpace => nextID' = nextID + 1
<1> USE ConnAssumption DEF AllocateID, ID
<1>1. nextID + 1 \in Nat /\ nextID + 1 <= IDSpace
  OBVIOUS
<1>2. CASE nextID + 1 = IDSpace
  <2>1. (nextID + 1) % IDSpace = 0
    BY <1>2
  <2> QED BY <2>1, <1>2
<1>3. CASE nextID + 1 < IDSpace
  <2>1. (nextID + 1) % IDSpace = nextID + 1
    BY <1>3
  <2> QED BY <2>1, <1>3
<1> QED BY <1>1, <1>2, <1>3

(* Every step keeps the types and the local facts.                             *)
LEMMA TypeStep == TypeOK /\ Mechanics /\ [Next]_vars => (TypeOK /\ Mechanics)'
<1> SUFFICES ASSUME TypeOK, Mechanics, [Next]_vars PROVE (TypeOK /\ Mechanics)'
  OBVIOUS
<1> USE ConnAssumption, ResultFacts, PacketFacts
    DEF TypeOK, Mechanics, vars, opVars, readerVars, closeVars, idVars, serverVars,
        Process, Agent
<1>1. ASSUME NEW o \in Op, RegisterClosed(o) PROVE (TypeOK /\ Mechanics)'
  BY <1>1 DEF RegisterClosed, Return
<1>2. ASSUME NEW o \in Op, RegisterCollision(o) PROVE (TypeOK /\ Mechanics)'
  BY <1>2, NextIDFacts DEF RegisterCollision
<1>3. ASSUME NEW o \in Op, Register(o) PROVE (TypeOK /\ Mechanics)'
  BY <1>3, NextIDFacts DEF Register
<1>4. ASSUME NEW o \in Op, CollisionReturn(o) PROVE (TypeOK /\ Mechanics)'
  BY <1>4 DEF CollisionReturn, Return
<1>5. ASSUME NEW o \in Op, LockWrite(o) PROVE (TypeOK /\ Mechanics)'
  BY <1>5, SMTT(30) DEF LockWrite, Return
<1>6. ASSUME NEW o \in Op, Write(o) PROVE (TypeOK /\ Mechanics)'
  BY <1>6 DEF Write
<1>7. ASSUME NEW o \in Op, WriteError(o) PROVE (TypeOK /\ Mechanics)'
  BY <1>7 DEF WriteError, Return
<1>8. ASSUME NEW o \in Op, Receive(o) PROVE (TypeOK /\ Mechanics)'
  BY <1>8 DEF Receive, Return
<1>9. ASSUME NEW o \in Op, TimeoutExtract(o) PROVE (TypeOK /\ Mechanics)'
  <2>1. id[o] \in ID /\ listeners[id[o]] \in Op \cup {None}
    BY <1>9 DEF TimeoutExtract
  <2>2. CASE timer' = [timer EXCEPT ![o] = "done"] /\ UNCHANGED <<held, listeners>>
    BY <1>9, <2>2 DEF TimeoutExtract
  <2>3. CASE ~closed /\ listeners[id[o]] # None /\ Extract(o, id[o])
             /\ timer' = [timer EXCEPT ![o] = "send"]
    BY <1>9, <2>1, <2>3 DEF TimeoutExtract, Extract
  <2> QED BY <1>9, <2>2, <2>3 DEF TimeoutExtract
<1>10. ASSUME NEW o \in Op, TimeoutSend(o) PROVE (TypeOK /\ Mechanics)'
  BY <1>10 DEF TimeoutSend, Send
<1>11. ASSUME NEW r \in Reader, Read(r) PROVE (TypeOK /\ Mechanics)'
  BY <1>11 DEF Read
<1>12. ASSUME NEW r \in Reader, ReadError(r) PROVE (TypeOK /\ Mechanics)'
  BY <1>12 DEF ReadError, BreakLoop
<1>13. ASSUME NEW r \in Reader, ReadExtract(r) PROVE (TypeOK /\ Mechanics)'
  <2>1. pkt[r] \in Packet /\ listeners[pkt[r].id] \in Op \cup {None}
    BY <1>13 DEF ReadExtract
  <2>2. CASE BreakLoop(r) /\ UNCHANGED <<held, listeners>>
    BY <1>13, <2>2 DEF ReadExtract, BreakLoop
  <2>3. CASE NextRead(r) /\ UNCHANGED <<held, listeners, cpc>>
    BY <1>13, <2>3 DEF ReadExtract, NextRead
  <2>4. CASE /\ ~closed /\ listeners[pkt[r].id] # None
             /\ Extract(r, pkt[r].id)
             /\ rpc' = [rpc EXCEPT ![r] = "send"]
             /\ UNCHANGED <<cpc, pkt>>
    BY <1>13, <2>1, <2>4 DEF ReadExtract, Extract
  <2> QED BY <1>13, <2>2, <2>3, <2>4 DEF ReadExtract
<1>14. ASSUME NEW r \in Reader, ReadSend(r) PROVE (TypeOK /\ Mechanics)'
  BY <1>14 DEF ReadSend, NextRead, Send
<1>15. ASSUME NEW c \in Closer, CloseCall(c) PROVE (TypeOK /\ Mechanics)'
  BY <1>15 DEF CloseCall
<1>16. ASSUME NEW p \in Process, CloseLockWrite(p) PROVE (TypeOK /\ Mechanics)'
  BY <1>16 DEF CloseLockWrite
<1>17. ASSUME NEW p \in Process, CloseLockMap(p) PROVE (TypeOK /\ Mechanics)'
  <2>1. closed' \in BOOLEAN /\ todo' \subseteq Op
    BY <1>17, Zenon DEF CloseLockMap
  <2>2. /\ writeMtx' \in {writeMtx, None} /\ mapMtx' \in {mapMtx, p}
        /\ cpc' \in {[cpc EXCEPT ![p] = "done"], [cpc EXCEPT ![p] = "signal"]}
        /\ UNCHANGED <<listeners, chan, timer, held, inbound, opVars, idVars,
                       readerVars, serverVars>>
    BY <1>17 DEF CloseLockMap
  <2> QED BY <2>1, <2>2, SMTT(30)
<1>18. ASSUME NEW p \in Process, CloseSignal(p) PROVE (TypeOK /\ Mechanics)'
  BY <1>18 DEF CloseSignal
<1>19. ASSUME NEW p \in Process, CloseUnlock(p) PROVE (TypeOK /\ Mechanics)'
  BY <1>19 DEF CloseUnlock
<1>20. ASSUME NEW q \in Packet, Answer(q) PROVE (TypeOK /\ Mechanics)'
  BY <1>20 DEF Answer
<1>21. ASSUME UNCHANGED vars PROVE (TypeOK /\ Mechanics)'
  BY <1>21
<1> QED
  BY <1>1, <1>2, <1>3, <1>4, <1>5, <1>6, <1>7, <1>8, <1>9, <1>10, <1>11,
     <1>12, <1>13, <1>14, <1>15, <1>16, <1>17, <1>18, <1>19, <1>20, <1>21, Zenon
  DEF Next, DoOperation, timeoutRequest,
      DoRead, Close

(* extractChannel moves a send right from the map to the agent.                *)
LEMMA ExtractRights ==
    ASSUME TypeOK, SendRights, NEW a \in Agent, NEW i \in ID,
           ~closed, listeners[i] # None, Extract(a, i),
           UNCHANGED <<chan, id, todo, closed>>
    PROVE  SendRights'
<1> DEFINE o == listeners[i]
<1> USE ConnAssumption DEF TypeOK, SendRights, Agent
<1>1. o \in Op /\ o # None /\ id[o] = i /\ chan[o] = None /\ todo = {}
  BY DEF Listed, Signalled
<1>2. /\ held' = [held EXCEPT ![a] = o]
      /\ listeners' = [listeners EXCEPT ![i] = None]
  BY DEF Extract
<1> HIDE DEF o
<1>3. Listed'
  BY <1>2 DEF Listed
<1>4. \A j \in ID : listeners'[j] # o
  BY <1>1, <1>2 DEF Listed, o
<1>5. Extracted'
  BY <1>1, <1>2, <1>4 DEF Extracted
<1>6. \A b \in Agent : held[b] # o
  BY <1>1 DEF Extracted, o
<1>7. ExtractedOnce'
  BY <1>1, <1>2, <1>6 DEF ExtractedOnce
<1>8. Signalled' /\ Unused'
  BY DEF Signalled, Unused
<1> QED BY <1>3, <1>5, <1>7, <1>8

(* A send by the agent that extracted the channel spends the right.            *)
LEMMA SendRightSpent ==
    ASSUME TypeOK, SendRights, NEW a \in Agent, NEW res, held[a] \in Op,
           Send(a, res), UNCHANGED <<listeners, id, todo, closed>>
    PROVE  SendRights'
<1> DEFINE o == held[a]
<1> USE ConnAssumption DEF TypeOK, SendRights, Agent
<1>1. /\ o \in Op /\ o # None /\ id[o] \in ID /\ o \notin todo
      /\ \A i \in ID : listeners[i] # o
  BY DEF Extracted
<1>2. /\ chan' = [chan EXCEPT ![o] = res]
      /\ held' = [held EXCEPT ![a] = None]
  BY DEF Send
<1>3. \A b \in Agent : b # a => held[b] # o
  BY <1>1 DEF ExtractedOnce, o
<1> HIDE DEF o
<1>4. Listed'
  BY <1>1, <1>2 DEF Listed
<1>5. Extracted'
  BY <1>1, <1>2, <1>3 DEF Extracted
<1>6. ExtractedOnce'
  BY <1>2 DEF ExtractedOnce
<1>7. Signalled' /\ Unused'
  BY <1>1, <1>2 DEF Signalled, Unused, ID
<1> QED BY <1>4, <1>5, <1>6, <1>7

(* A step that touches neither the map nor a channel keeps the send rights.    *)
LEMMA SameRights ==
    ASSUME SendRights, UNCHANGED <<listeners, chan, id, held, todo, closed>>
    PROVE  SendRights'
<1>1. Listed' /\ Extracted'
  BY Zenon DEF SendRights, Listed, Extracted
<1>2. ExtractedOnce' /\ Signalled' /\ Unused'
  BY Zenon DEF SendRights, ExtractedOnce, Signalled, Unused
<1> QED BY <1>1, <1>2 DEF SendRights

(* Every step keeps the send rights apart.                                     *)
LEMMA SendRightsStep ==
    TypeOK /\ Mechanics /\ SendRights /\ [Next]_vars => SendRights'
<1> SUFFICES ASSUME TypeOK, Mechanics, SendRights, [Next]_vars PROVE SendRights'
  OBVIOUS
<1> USE ConnAssumption
    DEF TypeOK, Mechanics, vars, opVars, readerVars, closeVars, idVars,
        serverVars, Process, Agent
<1> USE DEF SendRights
<1>1. ASSUME NEW o \in Op, RegisterClosed(o) PROVE SendRights'
  BY <1>1, SameRights DEF RegisterClosed
<1>2. ASSUME NEW o \in Op, RegisterCollision(o) PROVE SendRights'
  BY <1>2, SameRights DEF RegisterCollision
<1>3. ASSUME NEW o \in Op, Register(o) PROVE SendRights'
  <2>1. id[o] = None /\ o # None /\ nextID \in ID
    BY <1>3 DEF Register
  <2>2. \A i \in ID : listeners[i] # o
    BY <2>1 DEF Listed, ID
  <2>3. \A a \in Agent : held[a] # o
    BY <2>1 DEF Extracted, ID
  <2>4. o \notin todo /\ chan[o] = None
    BY <2>1, <1>3 DEF Signalled, Unused, Register
  <2>5. /\ listeners' = [listeners EXCEPT ![nextID] = o]
        /\ id' = [id EXCEPT ![o] = nextID]
        /\ ~closed /\ listeners[nextID] = None
        /\ UNCHANGED <<chan, held, todo, closed>>
    BY <1>3 DEF Register
  <2>6. Listed'
    BY <2>1, <2>2, <2>4, <2>5 DEF Listed
  <2>7. Extracted'
    BY <2>1, <2>3, <2>5 DEF Extracted
  <2>8. ExtractedOnce' /\ Signalled' /\ Unused'
    BY <2>1, <2>4, <2>5 DEF ExtractedOnce, Signalled, Unused
  <2> QED BY <2>6, <2>7, <2>8 DEF SendRights
<1>4. ASSUME NEW o \in Op, CollisionReturn(o) PROVE SendRights'
  BY <1>4, SameRights DEF CollisionReturn
<1>5. ASSUME NEW o \in Op, LockWrite(o) PROVE SendRights'
  BY <1>5, SameRights DEF LockWrite
<1>6. ASSUME NEW o \in Op, Write(o) PROVE SendRights'
  BY <1>6, SameRights DEF Write
<1>7. ASSUME NEW o \in Op, WriteError(o) PROVE SendRights'
  BY <1>7, SameRights DEF WriteError
<1>8. ASSUME NEW o \in Op, Receive(o) PROVE SendRights'
  <2>1. /\ chan' = [chan EXCEPT ![o] = None]
        /\ UNCHANGED <<listeners, id, held, todo, closed>>
    BY <1>8 DEF Receive, Return
  <2>2. \A x \in Op : chan[x] = None => chan'[x] = None
    BY <2>1
  <2>3. Listed'
    BY <2>1, <2>2 DEF Listed
  <2>4. Extracted'
    BY <2>1, <2>2 DEF Extracted
  <2>5. ExtractedOnce' /\ Signalled' /\ Unused'
    BY <2>1, <2>2 DEF ExtractedOnce, Signalled, Unused
  <2> QED BY <2>3, <2>4, <2>5
<1>9. ASSUME NEW o \in Op, TimeoutExtract(o) PROVE SendRights'
  <2>1. CASE timer' = [timer EXCEPT ![o] = "done"] /\ UNCHANGED <<held, listeners>>
    BY <1>9, <2>1, SameRights DEF TimeoutExtract
  <2>2. CASE ~closed /\ listeners[id[o]] # None /\ Extract(o, id[o])
    BY <1>9, <2>2, ExtractRights DEF TimeoutExtract
  <2> QED BY <1>9, <2>1, <2>2 DEF TimeoutExtract
<1>10. ASSUME NEW o \in Op, TimeoutSend(o) PROVE SendRights'
  BY <1>10, SendRightSpent DEF TimeoutSend
<1>11. ASSUME NEW r \in Reader, Read(r) PROVE SendRights'
  BY <1>11, SameRights DEF Read
<1>12. ASSUME NEW r \in Reader, ReadError(r) PROVE SendRights'
  BY <1>12, SameRights DEF ReadError
<1>13. ASSUME NEW r \in Reader, ReadExtract(r) PROVE SendRights'
  <2>1. CASE UNCHANGED <<held, listeners>> /\ (BreakLoop(r) \/ NextRead(r))
    BY <1>13, <2>1, SameRights DEF ReadExtract
  <2>2. CASE ~closed /\ listeners[pkt[r].id] # None /\ Extract(r, pkt[r].id)
    <3>1. pkt[r].id \in ID /\ r \in Agent
      BY <1>13, PacketFacts DEF ReadExtract
    <3>2. UNCHANGED <<chan, id, todo, closed>>
      BY <1>13 DEF ReadExtract
    <3> QED BY <2>2, <3>1, <3>2, ExtractRights
  <2> QED BY <1>13, <2>1, <2>2 DEF ReadExtract
<1>14. ASSUME NEW r \in Reader, ReadSend(r) PROVE SendRights'
  BY <1>14, SendRightSpent DEF ReadSend
<1>15. ASSUME NEW c \in Closer, CloseCall(c) PROVE SendRights'
  BY <1>15, SameRights DEF CloseCall
<1>16. ASSUME NEW p \in Process, CloseLockWrite(p) PROVE SendRights'
  BY <1>16, SameRights DEF CloseLockWrite
<1>17. ASSUME NEW p \in Process, CloseLockMap(p) PROVE SendRights'
  <2>1. CASE closed
    BY <1>17, <2>1, SameRights DEF CloseLockMap
  <2>2. CASE ~closed
    <3>1. /\ closed' = TRUE
          /\ todo' = {o \in Op : \E i \in ID : listeners[i] = o}
          /\ UNCHANGED <<listeners, chan, id, held>>
      BY <1>17, <2>2 DEF CloseLockMap
    <3>2. \A o \in todo' : o # None /\ chan[o] = None /\ id[o] \in ID
      BY <2>2, <3>1 DEF Listed
    <3>3. Listed'
      BY <3>1 DEF Listed
    <3>4. Extracted'
      BY <3>1 DEF Extracted
    <3>5. ExtractedOnce' /\ Signalled' /\ Unused'
      BY <3>1, <3>2 DEF ExtractedOnce, Signalled, Unused
    <3> QED BY <3>3, <3>4, <3>5
  <2> QED BY <2>1, <2>2
<1>18. ASSUME NEW p \in Process, CloseSignal(p) PROVE SendRights'
  <2>1. PICK o \in todo : /\ chan' = [chan EXCEPT ![o] = Signal]
                          /\ todo' = todo \ {o}
    BY <1>18, Zenon DEF CloseSignal
  <2>2. closed /\ id[o] \in ID /\ o \in Op /\ id[o] # None
    BY <2>1 DEF Signalled, ID
  <2>3. \A a \in Agent : held[a] # o
    BY <2>1, <2>2 DEF Extracted
  <2>4. UNCHANGED <<listeners, held, closed, id>>
    BY <1>18 DEF CloseSignal
  <2>5. Listed'
    BY <2>1, <2>2, <2>4 DEF Listed
  <2>6. Extracted'
    BY <2>1, <2>2, <2>3, <2>4 DEF Extracted
  <2>7. ExtractedOnce' /\ Signalled' /\ Unused'
    BY <2>1, <2>2, <2>4 DEF ExtractedOnce, Signalled, Unused
  <2> QED BY <2>5, <2>6, <2>7 DEF SendRights
<1>19. ASSUME NEW p \in Process, CloseUnlock(p) PROVE SendRights'
  BY <1>19, SameRights DEF CloseUnlock
<1>20. ASSUME NEW q \in Packet, Answer(q) PROVE SendRights'
  BY <1>20, SameRights DEF Answer
<1>21. ASSUME UNCHANGED vars PROVE SendRights'
  BY <1>21, SameRights
<1> QED
  BY <1>1, <1>2, <1>3, <1>4, <1>5, <1>6, <1>7, <1>8, <1>9, <1>10, <1>11,
     <1>12, <1>13, <1>14, <1>15, <1>16, <1>17, <1>18, <1>19, <1>20, <1>21, Zenon
  DEF Next, DoOperation, timeoutRequest,
      DoRead, Close

(* The initial states.                                                         *)
LEMMA InitSafety == Init => SafetyInv
<1> SUFFICES ASSUME Init PROVE SafetyInv
  OBVIOUS
<1> USE ConnAssumption DEF Init
<1>1. TypeOK
  <2>1. nextID \in ID /\ issued \in Nat /\ inbound \in Seq(Packet)
    BY DEF ID
  <2> QED BY <2>1, Zenon DEF TypeOK, Process, Agent
<1>2. Mechanics
  BY DEF Mechanics, ID
<1>3. SendRights
  BY DEF SendRights, Listed, Extracted, ExtractedOnce, Signalled, Unused, Agent
<1> QED BY <1>1, <1>2, <1>3 DEF SafetyInv

LEMMA SafetyInvariance == Spec => []SafetyInv
<1>1. SafetyInv /\ [Next]_vars => SafetyInv'
  BY TypeStep, SendRightsStep DEF SafetyInv
<1> QED BY <1>1, InitSafety, PTL DEF Spec
--------------------------------------------------------------------------------
(* The state of a connection keeps its types.                                  *)
THEOREM TypeCorrect == Spec => []TypeOK
<1>1. SafetyInv => TypeOK
  BY DEF SafetyInv
<1> QED BY <1>1, SafetyInvariance, PTL

(* DoRead, timeoutRequest and Close never block on a response channel, with    *)
(* any number of calls, readers and closers, even after packet IDs have wrapped*)
(* around.                                                                     *)
THEOREM SendsAreSafe == Spec => []SendsNeverBlock
<1>1. SafetyInv => SendsNeverBlock
  BY Zenon DEF SafetyInv, SendRights, Extracted, Signalled, SendsNeverBlock
<1> QED BY <1>1, SafetyInvariance, PTL
--------------------------------------------------------------------------------
(* What is known of packet IDs and of packets on their way, which module       *)
(* ClientConnCalls builds on.                                                  *)

(* What the IDs say as long as none has been given out twice.                  *)
FreshIDs ==
    /\ issued < IDSpace => nextID = issued
    /\ issued <= IDSpace =>
          /\ \A o \in Op : id[o] # None => id[o] < issued
          /\ \A o, x \in Op : id[o] # None /\ id[o] = id[x] => o = x

(* A packet carries the ID of the call it belongs to, and a response in the    *)
(* client is the server's answer to some request.                              *)
Genuine(q) == /\ id[q.of] = q.id
              /\ q \in answered

Packets ==
    /\ \A q \in received : id[q.of] = q.id
    /\ \A n \in 1 .. Len(inbound) : Genuine(inbound[n])
    /\ \A r \in Reader : rpc[r] \in {"extract", "send"} => Genuine(pkt[r])

(* Only a registration, a write, a reader and the server touch what the IDs    *)
(* and the packets depend on.                                                  *)
LEMMA PacketActions ==
    ASSUME [Next]_vars
    PROVE  \/ UNCHANGED <<id, nextID, issued, rpc, pkt, received, answered, inbound>>
           \/ \E o \in Op : RegisterCollision(o) \/ Register(o) \/ Write(o)
           \/ \E r \in Reader : DoRead(r)
           \/ \E q \in Packet : Answer(q)
<1> DEFINE Same == UNCHANGED <<id, nextID, issued, rpc, pkt, received, answered, inbound>>
<1> USE DEF opVars, idVars, readerVars, serverVars
<1>1. ASSUME NEW o \in Op,
             RegisterClosed(o) \/ CollisionReturn(o) \/ LockWrite(o) \/ WriteError(o)
               \/ Receive(o)
      PROVE  Same
  BY <1>1, Zenon DEF RegisterClosed, CollisionReturn, LockWrite, WriteError, Receive
<1>2. ASSUME NEW o \in Op, timeoutRequest(o) PROVE Same
  BY <1>2, Zenon DEF timeoutRequest, TimeoutExtract, TimeoutSend
<1>3. ASSUME NEW c \in Closer, CloseCall(c) PROVE Same
  BY <1>3, Zenon DEF CloseCall
<1>4. ASSUME NEW p \in Process, Close(p) PROVE Same
  BY <1>4, Zenon DEF Close, CloseLockWrite, CloseLockMap, CloseSignal, CloseUnlock
<1>5. ASSUME UNCHANGED vars PROVE Same
  BY <1>5, Zenon DEF vars
<1> QED
  <2> HIDE DEF Same
  <2>1. Same => UNCHANGED <<id, nextID, issued, rpc, pkt, received, answered, inbound>>
    BY DEF Same
  <2> QED BY <1>1, <1>2, <1>3, <1>4, <1>5, <2>1, Zenon DEF Next, DoOperation

(* Every step keeps the IDs apart until the counter has wrapped.               *)
LEMMA FreshIDsStep == SafetyInv /\ FreshIDs /\ [Next]_vars => FreshIDs'
<1> SUFFICES ASSUME SafetyInv, FreshIDs, [Next]_vars PROVE FreshIDs'
  OBVIOUS
<1>1. ASSUME UNCHANGED <<id, nextID, issued>> PROVE FreshIDs'
  BY <1>1 DEF FreshIDs
<1>2. /\ nextID \in ID /\ issued \in Nat /\ IDSpace \in Nat \ {0}
      /\ id \in [Op -> ID \cup {None}]
      /\ None \notin ID
  BY ConnAssumption DEF SafetyInv, TypeOK, ID
<1>3. ASSUME NEW o \in Op, RegisterCollision(o) PROVE FreshIDs'
  <2>1. /\ nextID' \in ID /\ issued' = issued + 1 /\ id' = id
        /\ (nextID + 1 < IDSpace => nextID' = nextID + 1)
    BY <1>2, <1>3, NextIDFacts DEF RegisterCollision
  <2>2. issued' < IDSpace => nextID' = issued'
    BY <1>2, <2>1 DEF FreshIDs
  <2>3. \A x \in Op : id[x] # None => id[x] \in Nat
    BY <1>2 DEF ID
  <2> QED BY <1>2, <2>1, <2>2, <2>3 DEF FreshIDs
<1>4. ASSUME NEW o \in Op, Register(o) PROVE FreshIDs'
  <2>1. /\ nextID' \in ID /\ issued' = issued + 1
        /\ (nextID + 1 < IDSpace => nextID' = nextID + 1)
    BY <1>2, <1>4, NextIDFacts DEF Register
  <2>2. id' = [id EXCEPT ![o] = nextID]
    BY <1>4 DEF Register
  <2>3. issued' < IDSpace => nextID' = issued'
    BY <1>2, <2>1 DEF FreshIDs
  <2>4. ASSUME issued' <= IDSpace
        PROVE  nextID = issued /\ \A z \in Op : id[z] # None => id[z] < nextID
    BY <1>2, <2>1, <2>4 DEF FreshIDs
  <2>5. ASSUME issued' <= IDSpace, NEW x \in Op, id'[x] # None
        PROVE  id'[x] < issued'
    <3>1. nextID = issued /\ (id[x] # None => id[x] < nextID)
      BY <2>4, <2>5
    <3>2. id'[x] = IF x = o THEN nextID ELSE id[x]
      BY <1>2, <2>2
    <3>3. id[x] # None => id[x] \in Nat
      BY <1>2 DEF ID
    <3> QED BY <1>2, <2>1, <2>5, <3>1, <3>2, <3>3 DEF ID
  <2>6. ASSUME issued' <= IDSpace, NEW x \in Op, NEW y \in Op,
               id'[x] # None, id'[x] = id'[y]
        PROVE  x = y
    <3>1. /\ id[x] # None => id[x] < nextID
          /\ id[y] # None => id[y] < nextID
      BY <2>4, <2>6
    <3>2. /\ id'[x] = IF x = o THEN nextID ELSE id[x]
          /\ id'[y] = IF y = o THEN nextID ELSE id[y]
      BY <1>2, <2>2
    <3>3. issued <= IDSpace
      BY <1>2, <2>1, <2>6
    <3>4. id[x] # None /\ id[x] = id[y] => x = y
      BY <3>3 DEF FreshIDs
    <3>5. id[x] # None => id[x] # nextID
      BY <1>2, <3>1 DEF ID
    <3>6. id[y] # None => id[y] # nextID
      BY <1>2, <3>1 DEF ID
    <3> QED BY <2>6, <3>2, <3>4, <3>5, <3>6, Zenon
  <2> QED BY <2>3, <2>5, <2>6 DEF FreshIDs
<1>5. ASSUME NEW o \in Op, Write(o) PROVE FreshIDs'
  BY <1>1, <1>5 DEF Write, idVars
<1>6. ASSUME NEW r \in Reader, DoRead(r) PROVE FreshIDs'
  BY <1>1, <1>6, Zenon DEF DoRead, Read, ReadError, ReadExtract, ReadSend, opVars, idVars
<1>7. ASSUME NEW q \in Packet, Answer(q) PROVE FreshIDs'
  BY <1>1, <1>7 DEF Answer, opVars, idVars
<1> QED
  BY <1>1, <1>3, <1>4, <1>5, <1>6, <1>7, PacketActions, Zenon

(* Every step keeps packets tied to the calls they belong to.                  *)
LEMMA PacketsStep == SafetyInv /\ Packets /\ [Next]_vars => Packets'
<1> SUFFICES ASSUME SafetyInv, Packets, [Next]_vars PROVE Packets'
  OBVIOUS
<1>1. ASSUME UNCHANGED <<id, rpc, pkt, received, answered, inbound>> PROVE Packets'
  BY <1>1 DEF Packets, Genuine
<1>2. /\ rpc \in [Reader -> {"read", "extract", "send", "done"}]
      /\ pkt \in [Reader -> Packet \cup {None}]
      /\ received \subseteq Packet /\ inbound \in Seq(Packet)
      /\ id \in [Op -> ID \cup {None}]
  BY DEF SafetyInv, TypeOK
<1>3. ASSUME NEW o \in Op, RegisterCollision(o) PROVE Packets'
  BY <1>1, <1>3 DEF RegisterCollision, readerVars, serverVars
<1>4. ASSUME NEW o \in Op, Register(o) PROVE Packets'
  <2>1. id' = [id EXCEPT ![o] = nextID] /\ id[o] = None /\ None \notin ID
    BY <1>4, ConnAssumption DEF Register, SafetyInv, Mechanics, ID
  <2>2. UNCHANGED <<received, answered, inbound, pkt, rpc>>
    BY <1>4 DEF Register, readerVars, serverVars
  <2>3. \A q \in Packet : id[q.of] = q.id => id'[q.of] = q.id
    BY <1>2, <2>1, PacketFacts
  <2>4. \A n \in 1 .. Len(inbound) : inbound[n] \in Packet
    BY <1>2
  <2>5. \A r \in Reader : rpc[r] \in {"extract", "send"} => pkt[r] \in Packet
    BY DEF SafetyInv, Mechanics
  <2> QED BY <1>2, <2>2, <2>3, <2>4, <2>5 DEF Packets, Genuine
<1>5. ASSUME NEW o \in Op, Write(o) PROVE Packets'
  <2>1. /\ received' = received \cup {[id |-> id[o], of |-> o]}
        /\ UNCHANGED <<id, answered, inbound, pkt, rpc>>
    BY <1>5 DEF Write, readerVars
  <2> QED BY <2>1 DEF Packets, Genuine
<1>6. ASSUME NEW r \in Reader, Read(r) PROVE Packets'
  <2>1. /\ inbound # <<>> /\ inbound' = Tail(inbound)
        /\ pkt' = [pkt EXCEPT ![r] = Head(inbound)]
        /\ rpc' = [rpc EXCEPT ![r] = "extract"]
        /\ UNCHANGED <<id, received, answered>>
    BY <1>6 DEF Read, opVars, serverVars
  <2>2. /\ Len(inbound) \in Nat /\ Len(inbound) >= 1
        /\ Head(inbound) = inbound[1] /\ Len(inbound') = Len(inbound) - 1
        /\ \A n \in 1 .. Len(inbound) - 1 : inbound'[n] = inbound[n + 1]
    BY <1>2, <2>1
  <2>3. ASSUME NEW n \in 1 .. Len(inbound') PROVE Genuine(inbound'[n])
    <3>1. n \in 1 .. Len(inbound) - 1 /\ n + 1 \in 1 .. Len(inbound)
      BY <2>2
    <3>2. inbound'[n] = inbound[n + 1]
      BY <2>2, <3>1
    <3> QED BY <3>1, <3>2 DEF Packets
  <2>4. Genuine(inbound[1])
    BY <2>2 DEF Packets
  <2>5. ASSUME NEW x \in Reader, rpc'[x] \in {"extract", "send"} PROVE Genuine(pkt'[x])
    BY <1>2, <2>1, <2>2, <2>4, <2>5 DEF Packets
  <2> QED BY <2>1, <2>3, <2>5 DEF Packets, Genuine
<1>7. ASSUME NEW r \in Reader, ReadError(r) \/ ReadExtract(r) \/ ReadSend(r) PROVE Packets'
  <2>1. UNCHANGED <<id, received, answered, inbound>>
    BY <1>7 DEF ReadError, ReadExtract, ReadSend, opVars, serverVars
  <2>2. \/ \E s \in {"read", "done"} : rpc' = [rpc EXCEPT ![r] = s]
           /\ pkt' = [pkt EXCEPT ![r] = None]
        \/ rpc[r] = "extract" /\ rpc' = [rpc EXCEPT ![r] = "send"] /\ pkt' = pkt
    BY <1>7 DEF ReadError, ReadExtract, ReadSend, BreakLoop, NextRead
  <2>3. ASSUME NEW x \in Reader, rpc'[x] \in {"extract", "send"} PROVE Genuine(pkt'[x])
    BY <1>2, <2>2, <2>3 DEF Packets
  <2> QED BY <2>1, <2>3 DEF Packets, Genuine
<1>8. ASSUME NEW q \in Packet, Answer(q) PROVE Packets'
  <2>1. /\ q \in received /\ answered' = answered \cup {q}
        /\ inbound' = Append(inbound, q)
        /\ UNCHANGED <<id, received, rpc, pkt>>
    BY <1>8 DEF Answer, opVars, readerVars
  <2>2. /\ Len(inbound) \in Nat /\ Len(inbound') = Len(inbound) + 1
        /\ \A n \in 1 .. Len(inbound) : inbound'[n] = inbound[n]
        /\ inbound'[Len(inbound) + 1] = q
    BY <1>2, <2>1
  <2>3. ASSUME NEW n \in 1 .. Len(inbound') PROVE Genuine(inbound[n])'
    <3>1. CASE n = Len(inbound) + 1
      BY <2>1, <2>2, <3>1 DEF Packets, Genuine
    <3>2. CASE n # Len(inbound) + 1
      <4>1. n \in 1 .. Len(inbound)
        BY <2>2, <3>2
      <4>2. inbound'[n] = inbound[n] /\ Genuine(inbound[n])
        BY <2>2, <4>1 DEF Packets
      <4> QED BY <2>1, <4>2 DEF Genuine
    <3> QED BY <3>1, <3>2
  <2> QED BY <2>1, <2>3 DEF Packets, Genuine
<1> QED
  BY <1>1, <1>3, <1>4, <1>5, <1>6, <1>7, <1>8, PacketActions, Zenon DEF DoRead
================================================================================
