---------------------------- MODULE ClientConnCalls -----------------------------
(*******************************************************************************)
(* What those who call a connection get: responses reach the calls they belong *)
(* to, and a connection implements module Calls, as long as no packet ID has   *)
(* been allocated twice; and an RPC client on a connection completes each of   *)
(* its calls once (module Rpc).                                                *)
(*                                                                             *)
(* Dispatch is what MatchedUntilWrap needs to be inductive together with       *)
(* FreshIDs (IDs are pairwise different until the counter wraps) and Packets   *)
(* (the ID of a packet on its way is the ID of the call it was sent for).      *)
(*                                                                             *)
(* OneOwner is not inductive either: input may take a call whose response it   *)
(* reads only because send still has it in pending.  Writing says where a call *)
(* is while send holds reqMutex for it.                                        *)
(*******************************************************************************)
EXTENDS Rpc, ClientConnProofs

(* Responses in the client are for the calls that they are held for.           *)
Dispatch ==
    issued <= IDSpace =>
        /\ \A r \in Reader : rpc[r] = "send" => held[r] = pkt[r].of
        /\ \A o, x \in Op : chan[o] = Response(x) \/ ret[o] = Response(x) =>
              /\ x = o
              /\ \E q \in answered : q.of = o

MatchInv == SafetyInv /\ FreshIDs /\ Packets /\ Dispatch
--------------------------------------------------------------------------------
(* The initial states.                                                         *)
LEMMA InitMatch == Init => MatchInv
<1> SUFFICES ASSUME Init PROVE MatchInv
  OBVIOUS
<1> USE ConnAssumption DEF Init
<1>1. FreshIDs /\ Packets
  BY DEF FreshIDs, Packets, ID
<1>2. Dispatch
  BY ResponseFacts DEF Dispatch
<1> QED BY <1>1, <1>2, InitSafety DEF MatchInv

(* A step that hands out no response keeps Dispatch.                            *)
LEMMA KeepsDispatch ==
    ASSUME Dispatch, issued \in Nat,
           \A y, x \in Op : chan'[y] = Response(x) \/ ret'[y] = Response(x) =>
              chan[y] = Response(x) \/ ret[y] = Response(x),
           \A r \in Reader : rpc'[r] = "send" =>
              rpc[r] = "send" /\ held'[r] = held[r] /\ pkt'[r] = pkt[r],
           answered \subseteq answered',
           issued' \in {issued, issued + 1}
    PROVE  Dispatch'
<1>1. CASE issued' <= IDSpace
  <2>1. issued <= IDSpace
    BY <1>1, ConnAssumption
  <2> QED BY <2>1 DEF Dispatch
<1>2. CASE ~(issued' <= IDSpace)
  BY <1>2 DEF Dispatch
<1> QED BY <1>1, <1>2

(* In particular one that only allocates an ID,                                 *)
LEMMA SameResponses ==
    ASSUME Dispatch, issued \in Nat, issued' \in {issued, issued + 1},
           UNCHANGED <<chan, ret, held, rpc, pkt, answered>>
    PROVE  Dispatch'
BY KeepsDispatch

(* and one in which a call returns an error.                                    *)
LEMMA ErrorsKeepDispatch ==
    ASSUME Dispatch, issued \in Nat,
           \A y \in Op : ret'[y] = ret[y] \/ ret'[y] \in Errors,
           UNCHANGED <<chan, held, rpc, pkt, answered, issued>>
    PROVE  Dispatch'
<1>1. \A y, x \in Op : ret'[y] = Response(x) => ret[y] = Response(x)
  BY ResponseFacts
<1> QED BY <1>1, KeepsDispatch

(* Every step delivers responses to the calls they belong to, until the ID     *)
(* counter has wrapped.                                                        *)
LEMMA DispatchStep == MatchInv /\ [Next]_vars => Dispatch'
<1> SUFFICES ASSUME MatchInv, [Next]_vars PROVE Dispatch'
  OBVIOUS
<1>0. Dispatch /\ issued \in Nat /\ SafetyInv /\ Packets /\ FreshIDs /\ TypeOK /\ Mechanics
  BY DEF MatchInv, SafetyInv, TypeOK
<1> USE <1>0, ConnAssumption DEF opVars, readerVars, closeVars, idVars, serverVars, Agent
<1>1. ASSUME NEW o \in Op, RegisterClosed(o) PROVE Dispatch'
  <2>1. /\ \A y \in Op : ret'[y] = ret[y] \/ ret'[y] \in Errors
        /\ UNCHANGED <<chan, held, rpc, pkt, answered, issued>>
    BY <1>1, ResultFacts DEF RegisterClosed, Return, TypeOK
  <2> QED BY <2>1, ErrorsKeepDispatch
<1>2. ASSUME NEW o \in Op, RegisterCollision(o) PROVE Dispatch'
  <2>1. UNCHANGED <<chan, ret, held, rpc, pkt, answered>> /\ issued' \in {issued, issued + 1}
    BY <1>2 DEF RegisterCollision, AllocateID
  <2> QED BY <2>1, SameResponses
<1>3. ASSUME NEW o \in Op, Register(o) PROVE Dispatch'
  <2>1. UNCHANGED <<chan, ret, held, rpc, pkt, answered>> /\ issued' \in {issued, issued + 1}
    BY <1>3 DEF Register, AllocateID
  <2> QED BY <2>1, SameResponses
<1>4. ASSUME NEW o \in Op, CollisionReturn(o) PROVE Dispatch'
  <2>1. /\ \A y \in Op : ret'[y] = ret[y] \/ ret'[y] \in Errors
        /\ UNCHANGED <<chan, held, rpc, pkt, answered, issued>>
    BY <1>4, ResultFacts DEF CollisionReturn, Return, TypeOK
  <2> QED BY <2>1, ErrorsKeepDispatch
<1>5. ASSUME NEW o \in Op, LockWrite(o) PROVE Dispatch'
  <2>1. ret' = ret \/ ret' = [ret EXCEPT ![o] = Error("closed")]
    BY <1>5 DEF LockWrite, Return
  <2>2. UNCHANGED <<chan, held, rpc, pkt, answered, issued>>
    BY <1>5 DEF LockWrite
  <2>3. \A y \in Op : ret'[y] = ret[y] \/ ret'[y] \in Errors
    BY <2>1, ResultFacts DEF TypeOK
  <2> QED BY <2>2, <2>3, ErrorsKeepDispatch
<1>6. ASSUME NEW o \in Op, Write(o) PROVE Dispatch'
  <2>1. UNCHANGED <<chan, ret, held, rpc, pkt, answered>> /\ issued' \in {issued, issued + 1}
    BY <1>6 DEF Write
  <2> QED BY <2>1, SameResponses
<1>7. ASSUME NEW o \in Op, WriteError(o) PROVE Dispatch'
  <2>1. /\ \A y \in Op : ret'[y] = ret[y] \/ ret'[y] \in Errors
        /\ UNCHANGED <<chan, held, rpc, pkt, answered, issued>>
    BY <1>7, ResultFacts DEF WriteError, Return, TypeOK
  <2> QED BY <2>1, ErrorsKeepDispatch
<1>8. ASSUME NEW o \in Op, Receive(o) PROVE Dispatch'
  <2>1. /\ chan' = [chan EXCEPT ![o] = None]
        /\ ret' = [ret EXCEPT ![o] = Outcome(chan[o])]
        /\ chan[o] # None
        /\ UNCHANGED <<held, rpc, pkt, answered, issued>>
    BY <1>8 DEF Receive, Return
  <2>2. \A x \in Op : Outcome(chan[o]) = Response(x) => chan[o] = Response(x)
    BY <2>1, ResponseFacts DEF TypeOK
  <2>3. \A y, x \in Op : chan'[y] = Response(x) \/ ret'[y] = Response(x) =>
           chan[y] = Response(x) \/ ret[y] = Response(x)
    BY <2>1, <2>2, ResponseFacts DEF TypeOK
  <2> QED BY <2>1, <2>3, KeepsDispatch
<1>9. ASSUME NEW o \in Op, TimeoutExtract(o) PROVE Dispatch'
  <2>1. \A r \in Reader : held'[r] = held[r]
    BY <1>9 DEF TimeoutExtract, Extract, TypeOK
  <2>2. UNCHANGED <<chan, ret, rpc, pkt, answered, issued>>
    BY <1>9 DEF TimeoutExtract
  <2> QED BY <2>1, <2>2, KeepsDispatch
<1>10. ASSUME NEW o \in Op, TimeoutSend(o) PROVE Dispatch'
  <2>1. \A r \in Reader : held'[r] = held[r]
    BY <1>10 DEF TimeoutSend, Send, TypeOK
  <2>2. UNCHANGED <<ret, rpc, pkt, answered, issued>>
    BY <1>10 DEF TimeoutSend
  <2>3. \A y, x \in Op : chan'[y] = Response(x) => chan[y] = Response(x)
    BY <1>10, ResponseFacts DEF TimeoutSend, Send, TypeOK
  <2> QED BY <2>1, <2>2, <2>3, KeepsDispatch
<1>11. ASSUME NEW r \in Reader, Read(r) PROVE Dispatch'
  <2>1. /\ rpc' = [rpc EXCEPT ![r] = "extract"]
        /\ pkt' = [pkt EXCEPT ![r] = Head(inbound)]
        /\ UNCHANGED <<chan, ret, held, answered, issued>>
    BY <1>11 DEF Read
  <2>2. \A s \in Reader : rpc'[s] = "send" => rpc[s] = "send" /\ pkt'[s] = pkt[s]
    BY <2>1 DEF TypeOK
  <2> QED BY <2>1, <2>2, KeepsDispatch
<1>12. ASSUME NEW r \in Reader, ReadError(r) PROVE Dispatch'
  <2>1. /\ rpc' = [rpc EXCEPT ![r] = "done"] /\ pkt' = [pkt EXCEPT ![r] = None]
        /\ UNCHANGED <<chan, ret, held, answered, issued>>
    BY <1>12 DEF ReadError, BreakLoop
  <2>2. \A s \in Reader : rpc'[s] = "send" => rpc[s] = "send" /\ pkt'[s] = pkt[s]
    BY <2>1 DEF TypeOK
  <2> QED BY <2>1, <2>2, KeepsDispatch
<1>13. ASSUME NEW r \in Reader, ReadExtract(r) PROVE Dispatch'
  <2>0. UNCHANGED <<chan, ret, answered, issued>>
    BY <1>13 DEF ReadExtract
  <2>1. CASE UNCHANGED <<held, listeners>> /\ (BreakLoop(r) \/ NextRead(r))
    <3>1. \A s \in Reader : rpc'[s] = "send" => rpc[s] = "send" /\ pkt'[s] = pkt[s]
      BY <2>1 DEF BreakLoop, NextRead, TypeOK
    <3> QED BY <2>0, <2>1, <3>1, KeepsDispatch
  <2>2. CASE /\ listeners[pkt[r].id] # None
             /\ Extract(r, pkt[r].id)
             /\ rpc' = [rpc EXCEPT ![r] = "send"]
             /\ UNCHANGED <<cpc, pkt>>
    <3>1. pkt[r] \in Packet /\ id[pkt[r].of] = pkt[r].id
      <4>1. rpc[r] = "extract"
        BY <1>13 DEF ReadExtract
      <4>2. Genuine(pkt[r])
        BY <4>1 DEF Packets
      <4>3. pkt[r] \in Packet
        <5>1. answered \subseteq Packet
          BY DEF TypeOK
        <5> QED BY <4>2, <5>1 DEF Genuine
      <4> QED BY <4>2, <4>3 DEF Genuine
    <3>2. /\ pkt[r].of \in Op /\ pkt[r].id \in ID
          /\ listeners[pkt[r].id] \in Op
          /\ id[listeners[pkt[r].id]] = pkt[r].id
      <4>1. pkt[r].of \in Op /\ pkt[r].id \in ID
        BY <3>1, PacketFacts
      <4>2. listeners[pkt[r].id] \in Op
        BY <2>2, <4>1 DEF TypeOK
      <4>3. Listed
        BY DEF SafetyInv, SendRights
      <4> QED BY <2>2, <4>1, <4>2, <4>3 DEF Listed
    <3>3. issued <= IDSpace => listeners[pkt[r].id] = pkt[r].of
      BY <3>1, <3>2 DEF FreshIDs, ID, TypeOK
    <3>4. \A s \in Reader : rpc'[s] = "send" /\ s # r => rpc[s] = "send" /\ held'[s] = held[s]
      BY <2>2 DEF Extract, TypeOK
    <3>5. held'[r] = listeners[pkt[r].id]
      BY <2>2 DEF Extract, TypeOK
    <3> QED BY <2>0, <2>2, <3>3, <3>4, <3>5 DEF Dispatch
  <2> QED BY <1>13, <2>1, <2>2, Zenon DEF ReadExtract
<1>14. ASSUME NEW r \in Reader, ReadSend(r) PROVE Dispatch'
  <2> DEFINE x == pkt[r].of
  <2>1. /\ chan' = [chan EXCEPT ![held[r]] = Response(x)]
        /\ held' = [held EXCEPT ![r] = None]
        /\ rpc' = [rpc EXCEPT ![r] = "read"] /\ pkt' = [pkt EXCEPT ![r] = None]
        /\ UNCHANGED <<ret, answered, issued>>
    BY <1>14 DEF ReadSend, Send, NextRead
  <2>2. x \in Op /\ \E q \in answered : q.of = x
    BY <1>14, PacketFacts DEF ReadSend, Packets, Genuine, TypeOK
  <2>3. issued <= IDSpace => held[r] = x
    BY <1>14 DEF ReadSend, Dispatch
  <2> HIDE DEF x
  <2>4. \A y \in Op : chan'[y] = chan[y] \/ (y = held[r] /\ chan'[y] = Response(x))
    BY <2>1 DEF TypeOK
  <2>5. \A s \in Reader : rpc'[s] = "send" =>
          rpc[s] = "send" /\ held'[s] = held[s] /\ pkt'[s] = pkt[s]
    BY <2>1 DEF TypeOK
  <2>6. UNCHANGED <<ret, answered, issued>>
    BY <2>1
  <2>7. ASSUME issued <= IDSpace
        PROVE  \A y, z \in Op : chan'[y] = Response(z) \/ ret[y] = Response(z) =>
                  z = y /\ \E q \in answered : q.of = y
    <3> SUFFICES ASSUME NEW y \in Op, NEW z \in Op, chan'[y] = Response(z)
                 PROVE  z = y /\ \E q \in answered : q.of = y
      BY <2>7 DEF Dispatch
    <3>1. CASE chan'[y] = chan[y]
      BY <2>7, <3>1 DEF Dispatch
    <3>2. CASE y = held[r] /\ chan'[y] = Response(x)
      BY <2>2, <2>3, <2>7, <3>2, ResponseFacts
    <3> QED BY <2>4, <3>1, <3>2
  <2>8. ASSUME issued <= IDSpace
        PROVE  \A s \in Reader : rpc'[s] = "send" => held'[s] = pkt'[s].of
    BY <2>5, <2>8 DEF Dispatch
  <2> QED BY <2>6, <2>7, <2>8 DEF Dispatch
<1>15. ASSUME NEW c \in Closer, CloseCall(c) PROVE Dispatch'
  <2>1. UNCHANGED <<chan, ret, held, rpc, pkt, answered>> /\ issued' \in {issued, issued + 1}
    BY <1>15 DEF CloseCall
  <2> QED BY <2>1, SameResponses
<1>16. ASSUME NEW p \in Process, CloseLockWrite(p) PROVE Dispatch'
  <2>1. UNCHANGED <<chan, ret, held, rpc, pkt, answered>> /\ issued' \in {issued, issued + 1}
    BY <1>16 DEF CloseLockWrite
  <2> QED BY <2>1, SameResponses
<1>17. ASSUME NEW p \in Process, CloseLockMap(p) PROVE Dispatch'
  <2>1. UNCHANGED <<chan, ret, held, rpc, pkt, answered>> /\ issued' \in {issued, issued + 1}
    BY <1>17 DEF CloseLockMap
  <2> QED BY <2>1, SameResponses
<1>18. ASSUME NEW p \in Process, CloseSignal(p) PROVE Dispatch'
  <2>1. \A y, x \in Op : chan'[y] = Response(x) => chan[y] = Response(x)
    BY <1>18, ResponseFacts DEF CloseSignal, TypeOK
  <2>2. UNCHANGED <<ret, held, rpc, pkt, answered, issued>>
    BY <1>18 DEF CloseSignal
  <2> QED BY <2>1, <2>2, KeepsDispatch
<1>19. ASSUME NEW p \in Process, CloseUnlock(p) PROVE Dispatch'
  <2>1. UNCHANGED <<chan, ret, held, rpc, pkt, answered>> /\ issued' \in {issued, issued + 1}
    BY <1>19 DEF CloseUnlock
  <2> QED BY <2>1, SameResponses
<1>20. ASSUME NEW q \in Packet, Answer(q) PROVE Dispatch'
  <2>1. UNCHANGED <<chan, ret, held, rpc, pkt, issued>> /\ answered \subseteq answered'
    BY <1>20 DEF Answer
  <2> QED BY <2>1, KeepsDispatch
<1>21. ASSUME UNCHANGED vars PROVE Dispatch'
  BY <1>21, SameResponses DEF vars
<1> QED
  BY <1>1, <1>2, <1>3, <1>4, <1>5, <1>6, <1>7, <1>8, <1>9, <1>10, <1>11,
     <1>12, <1>13, <1>14, <1>15, <1>16, <1>17, <1>18, <1>19, <1>20, <1>21, Zenon
  DEF Next, DoOperation, timeoutRequest,
      DoRead, Close

LEMMA InvStep == MatchInv /\ [Next]_vars => MatchInv'
BY TypeStep, SendRightsStep, FreshIDsStep, PacketsStep, DispatchStep
   DEF MatchInv, SafetyInv

LEMMA Invariance == Spec => []MatchInv
BY InitMatch, InvStep, PTL DEF Spec
--------------------------------------------------------------------------------
(* A response that DoOperation returns is the response to its own request, for *)
(* as long as no packet ID has been allocated twice.                           *)
THEOREM ResponsesMatch == Spec => []MatchedUntilWrap
<1>1. MatchInv => MatchedUntilWrap
  BY DEF MatchInv, Dispatch, MatchedUntilWrap, Matched
<1> QED BY <1>1, Invariance, PTL
--------------------------------------------------------------------------------
(* The connection implements module Calls                                      *)

(* A step that returns an error from a call is a Return or a Refuse of Calls.  *)
LEMMA ReturnsError ==
    ASSUME MatchInv, NEW o \in Op, NEW e \in Errors, Return(o, e),
           UNCHANGED <<closed, answered>>,
           \/ pc[o] \in {"collided", "lockWrite", "write", "wait"}
           \/ pc[o] = "idle" /\ closed
    PROVE  Promise!Return(o) \/ Promise!Refuse(o)
<1> USE ConnAssumption DEF MatchInv, SafetyInv, TypeOK
<1>1. e # None /\ e # Response(o)
  BY ResponseFacts, NoneAssumption DEF Returned
<1>2. CallOf' = [CallOf EXCEPT ![o] = "done"]
  BY Zenon DEF Return, CallOf
<1>3. OutcomeOf' = [OutcomeOf EXCEPT ![o] = "error"]
  BY <1>1, Zenon DEF Return, OutcomeOf
<1>4. UNCHANGED AnsweredCalls
  BY DEF AnsweredCalls
<1>5. CASE pc[o] = "idle"
  BY <1>2, <1>3, <1>4, <1>5, Zenon DEF Promise!Refuse, CallOf
<1>6. CASE pc[o] # "idle"
  BY <1>2, <1>3, <1>4, <1>6 DEF Promise!Return, CallOf
<1> QED BY <1>5, <1>6, Zenon

(* A step that changes neither the state of a call nor closed is a stutter.    *)
LEMMA Stutters ==
    ASSUME UNCHANGED <<opVars, closed, answered>>
    PROVE  UNCHANGED Promise!vars
BY DEF opVars, Promise!vars, CallOf, OutcomeOf, AnsweredCalls

(* Every step is a step of Calls or a stutter.                                 *)
LEMMA PromiseStep ==
    MatchInv /\ issued <= IDSpace /\ [Next]_vars => [Promise!Next]_(Promise!vars)
<1> SUFFICES ASSUME MatchInv, issued <= IDSpace, [Next]_vars
             PROVE  Promise!Next \/ UNCHANGED Promise!vars
  BY DEF Promise!vars
<1> USE ConnAssumption DEF opVars, readerVars, closeVars, idVars, serverVars
<1>1. ASSUME NEW o \in Op, RegisterClosed(o) PROVE Promise!Next \/ UNCHANGED Promise!vars
  BY <1>1, ReturnsError, ResultFacts, Zenon DEF RegisterClosed, Promise!Next
<1>2. ASSUME NEW o \in Op, RegisterCollision(o) PROVE Promise!Next \/ UNCHANGED Promise!vars
  <2>1. /\ ~closed /\ pc[o] = "idle" /\ pc' = [pc EXCEPT ![o] = "collided"]
        /\ UNCHANGED <<ret, answered, closed>>
    BY <1>2, Zenon DEF RegisterCollision
  <2>2. CallOf[o] = "idle" /\ CallOf' = [CallOf EXCEPT ![o] = "pending"]
    BY <2>1, Zenon DEF CallOf, MatchInv, SafetyInv, TypeOK
  <2>3. UNCHANGED <<OutcomeOf, AnsweredCalls>>
    BY <2>1 DEF OutcomeOf, AnsweredCalls
  <2> QED BY <2>1, <2>2, <2>3, Zenon DEF Promise!Next, Promise!Begin
<1>3. ASSUME NEW o \in Op, Register(o) PROVE Promise!Next \/ UNCHANGED Promise!vars
  <2>1. /\ ~closed /\ pc[o] = "idle" /\ pc' = [pc EXCEPT ![o] = "lockWrite"]
        /\ UNCHANGED <<ret, answered, closed>>
    BY <1>3, Zenon DEF Register
  <2>2. CallOf[o] = "idle" /\ CallOf' = [CallOf EXCEPT ![o] = "pending"]
    BY <2>1, Zenon DEF CallOf, MatchInv, SafetyInv, TypeOK
  <2>3. UNCHANGED <<OutcomeOf, AnsweredCalls>>
    BY <2>1 DEF OutcomeOf, AnsweredCalls
  <2> QED BY <2>1, <2>2, <2>3, Zenon DEF Promise!Next, Promise!Begin
<1>4. ASSUME NEW o \in Op, CollisionReturn(o) PROVE Promise!Next \/ UNCHANGED Promise!vars
  BY <1>4, ReturnsError, ResultFacts, Zenon DEF CollisionReturn, Promise!Next
<1>5. ASSUME NEW o \in Op, LockWrite(o) PROVE Promise!Next \/ UNCHANGED Promise!vars
  <2>1. CASE closed
    BY <1>5, <2>1, ReturnsError, ResultFacts DEF LockWrite, Promise!Next
  <2>2. CASE ~closed
    <3>1. /\ pc[o] = "lockWrite" /\ pc' = [pc EXCEPT ![o] = "write"]
          /\ UNCHANGED <<ret, answered, closed>>
      BY <1>5, <2>2 DEF LockWrite
    <3>2. UNCHANGED CallOf
      BY <3>1 DEF CallOf, MatchInv, SafetyInv, TypeOK
    <3>3. UNCHANGED <<OutcomeOf, AnsweredCalls>>
      BY <3>1 DEF OutcomeOf, AnsweredCalls
    <3> QED BY <3>1, <3>2, <3>3 DEF Promise!vars
  <2> QED BY <2>1, <2>2
<1>6. ASSUME NEW o \in Op, Write(o) PROVE Promise!Next \/ UNCHANGED Promise!vars
  BY <1>6 DEF Write, Promise!vars, CallOf, OutcomeOf, AnsweredCalls, MatchInv,
     SafetyInv, TypeOK
<1>7. ASSUME NEW o \in Op, WriteError(o) PROVE Promise!Next \/ UNCHANGED Promise!vars
  BY <1>7, ReturnsError, ResultFacts DEF WriteError, Promise!Next
<1>8. ASSUME NEW o \in Op, Receive(o) PROVE Promise!Next \/ UNCHANGED Promise!vars
  <2> USE DEF MatchInv, SafetyInv, TypeOK
  <2>1. /\ pc[o] = "wait" /\ chan[o] \in Result
        /\ Return(o, Outcome(chan[o])) /\ UNCHANGED <<closed, answered>>
    BY <1>8 DEF Receive
  <2>2. Outcome(chan[o]) \in Returned
    BY <2>1, ResultFacts
  <2>3. CASE Outcome(chan[o]) \in Errors
    BY <2>1, <2>3, ReturnsError, Zenon DEF Promise!Next
  <2>4. CASE Outcome(chan[o]) \notin Errors
    <3>1. PICK x \in Op : Outcome(chan[o]) = Response(x)
      BY <2>2, <2>4 DEF Returned
    <3>2. x = o /\ o \in AnsweredCalls
      BY <2>1, <3>1, ResponseFacts DEF Dispatch, AnsweredCalls
    <3>3. CallOf' = [CallOf EXCEPT ![o] = "done"] /\ UNCHANGED AnsweredCalls
      BY <2>1, Zenon DEF Return, CallOf, AnsweredCalls
    <3>4. ret' = [ret EXCEPT ![o] = Response(o)] /\ Response(o) # None
      BY <2>1, <3>1, <3>2, ResponseFacts DEF Return
    <3>5. OutcomeOf' = [OutcomeOf EXCEPT ![o] = "answer"]
      BY <3>4, Zenon DEF OutcomeOf
    <3> QED BY <2>1, <3>2, <3>3, <3>5, Zenon DEF Promise!Next, Promise!Return, CallOf
  <2> QED BY <2>3, <2>4
<1>9. ASSUME NEW o \in Op, TimeoutExtract(o) PROVE Promise!Next \/ UNCHANGED Promise!vars
  BY <1>9, Stutters, Zenon DEF TimeoutExtract, Extract
<1>10. ASSUME NEW o \in Op, TimeoutSend(o) PROVE Promise!Next \/ UNCHANGED Promise!vars
  BY <1>10, Stutters DEF TimeoutSend, Send
<1>11. ASSUME NEW r \in Reader, Read(r) PROVE Promise!Next \/ UNCHANGED Promise!vars
  BY <1>11, Stutters DEF Read
<1>12. ASSUME NEW r \in Reader, ReadError(r) PROVE Promise!Next \/ UNCHANGED Promise!vars
  BY <1>12, Stutters DEF ReadError, BreakLoop
<1>13. ASSUME NEW r \in Reader, ReadExtract(r) PROVE Promise!Next \/ UNCHANGED Promise!vars
  BY <1>13, Stutters DEF ReadExtract, BreakLoop, NextRead, Extract
<1>14. ASSUME NEW r \in Reader, ReadSend(r) PROVE Promise!Next \/ UNCHANGED Promise!vars
  BY <1>14, Stutters DEF ReadSend, NextRead, Send
<1>15. ASSUME NEW c \in Closer, CloseCall(c) PROVE Promise!Next \/ UNCHANGED Promise!vars
  BY <1>15, Stutters DEF CloseCall
<1>16. ASSUME NEW p \in Process, CloseLockWrite(p) PROVE Promise!Next \/ UNCHANGED Promise!vars
  BY <1>16, Stutters DEF CloseLockWrite
<1>17. ASSUME NEW p \in Process, CloseLockMap(p) PROVE Promise!Next \/ UNCHANGED Promise!vars
  <2>1. CASE closed
    BY <1>17, <2>1, Stutters DEF CloseLockMap
  <2>2. CASE ~closed
    BY <1>17, <2>2 DEF CloseLockMap, Promise!Next, Promise!Close, CallOf, OutcomeOf,
       AnsweredCalls
  <2> QED BY <2>1, <2>2
<1>18. ASSUME NEW p \in Process, CloseSignal(p) PROVE Promise!Next \/ UNCHANGED Promise!vars
  BY <1>18, Stutters DEF CloseSignal
<1>19. ASSUME NEW p \in Process, CloseUnlock(p) PROVE Promise!Next \/ UNCHANGED Promise!vars
  BY <1>19, Stutters DEF CloseUnlock
<1>20. ASSUME NEW q \in Packet, Answer(q) PROVE Promise!Next \/ UNCHANGED Promise!vars
  <2> DEFINE o == q.of
  <2>1. /\ q \in received /\ answered' = answered \cup {q}
        /\ UNCHANGED <<pc, ret, closed>>
    BY <1>20 DEF Answer
  <2>2. o \in Op /\ id[o] \in ID
    BY <2>1, PacketFacts DEF MatchInv, Packets
  <2>3. CallOf[o] # "idle"
    <3>1. id[o] # None
      BY <2>2 DEF ID
    <3>2. pc[o] # "idle"
      BY <2>2, <3>1 DEF MatchInv, SafetyInv, Mechanics
    <3> QED BY <2>2, <3>2 DEF CallOf
  <2>4. AnsweredCalls' = AnsweredCalls \cup {o}
    BY <2>1, <2>2 DEF AnsweredCalls
  <2>5. UNCHANGED <<CallOf, OutcomeOf, closed>>
    BY <2>1 DEF CallOf, OutcomeOf
  <2> QED BY <2>2, <2>3, <2>4, <2>5 DEF Promise!Next, Promise!Answer
<1>21. ASSUME UNCHANGED vars PROVE Promise!Next \/ UNCHANGED Promise!vars
  BY <1>21, Stutters DEF vars
<1> QED
  BY <1>1, <1>2, <1>3, <1>4, <1>5, <1>6, <1>7, <1>8, <1>9, <1>10, <1>11,
     <1>12, <1>13, <1>14, <1>15, <1>16, <1>17, <1>18, <1>19, <1>20, <1>21
  DEF Next, DoOperation, timeoutRequest,
      DoRead, Close

(* A connection on which no packet ID has been allocated twice keeps the       *)
(* promise of module Calls: every call returns at most once, with the server's *)
(* answer to its own request or an error, and none that begins after Close is  *)
(* sent.                                                                       *)
THEOREM ConnImplementsCalls ==
    Spec /\ [](issued <= IDSpace) => Promise!Safety
<1>1. Init => Promise!Init
  BY DEF Init, Promise!Init, CallOf, OutcomeOf, AnsweredCalls
<1> QED BY <1>1, PromiseStep, Invariance, PTL DEF Spec, Promise!Safety
--------------------------------------------------------------------------------
(* The RPC client.                                                             *)

(* What OneOwner says of one call, one place at a time.                        *)
Owned(o) ==
    /\ spc[o] \in {"idle", "lock"} =>
          o \notin pending /\ reading # o /\ o \notin finished
    /\ spc[o] \notin {"idle", "lock"} =>
          \/ o \in pending /\ reading # o /\ o \notin finished
          \/ o \notin pending /\ reading = o /\ o \notin finished
          \/ o \notin pending /\ reading # o /\ o \in finished

RpcTypes ==
    /\ spc \in [Op -> {"idle", "lock", "do", "write", "out"}]
    /\ payload \in [Op -> {"none", "reply", "misfit", "error", "empty"}]
    /\ pending \subseteq Op /\ finished \subseteq Op
    /\ ipc \in {"header", "body", "lock", "end"}
    /\ ipc = "body" => reading \in Op
    /\ ipc # "body" => reading = None

(* The call that send is in WriteRequest for holds reqMutex.  It is pending    *)
(* unless input has begun to read its response, or has been cut off in it; and *)
(* input waits for the rest of a response only from a call that is writing it. *)
Writing(o) ==
    /\ spc[o] \in {"do", "write"} => reqMutex = o
    /\ spc[o] = "do" => o \in pending
    /\ spc[o] = "write" => o \in pending \/ (reading = o /\ ~whole) \/ ipc = "lock"
    /\ reading = o /\ ~whole /\ client # "closed" => spc[o] = "write"
    /\ payload[o] # "none" => spc[o] \in {"write", "out"}

RpcInv == RpcTypes /\ \A o \in Op : Owned(o) /\ Writing(o)

(* The RPC client only adds to what the users of a connection do: every step   *)
(* is one of the connection or leaves it alone.                                *)
LEMMA RpcKeepsConn == [RpcNext]_allVars => [Next]_vars
BY Zenon DEF RpcNext, allVars, Connection, Call, send, SendRefused, SendRegister, OperationError,
       WriteRequest, WriteClosed, EncodeError, input, ReadNothing, ReadResponseHeader,
       ReadHeaderClosed, ReadResponseBody, ReadBodyClosed, Terminate, ClientClose,
       CodecClose

(* Whatever is proved of a connection holds of one that an RPC client uses.    *)
LEMMA RpcImplementsConn == RpcSpec => Spec
<1>1. RpcInit => Init
    BY DEF RpcInit
<1> QED
    BY <1>1, RpcKeepsConn, PTL DEF RpcSpec, Spec

(* Responses go to the calls that wait for them, and nobody blocks on a        *)
(* response channel, with an RPC client on the connection.                     *)
THEOREM RpcSendsAreSafe == RpcSpec => [](SendsNeverBlock /\ MatchedUntilWrap)
BY RpcImplementsConn, SendsAreSafe, ResponsesMatch, PTL

(* The invariant holds at first.                                               *)
LEMMA RpcInitInv == RpcInit => RpcInv
BY ConnAssumption DEF RpcInit, RpcInv, RpcTypes, Owned, Writing

(* send has returned an error for a call.                                      *)
LEMMA SendFailedStep ==
    ASSUME RpcInv, NEW o \in Op, SendFailed(o),
           spc[o] = "do" \/ (spc[o] = "write" /\ client = "closed"),
           UNCHANGED <<payload, client, ipc, reading, whole>>
    PROVE  RpcInv'
<1> USE DEF RpcInv, SendFailed
<1>1. spc' = [spc EXCEPT ![o] = "out"] /\ pending' = pending \ {o}
      /\ finished' = finished \cup ({o} \cap pending)
    OBVIOUS
<1>2. RpcTypes'
    BY <1>1 DEF RpcTypes
<1>3. ASSUME NEW x \in Op PROVE Owned(x)'
    BY <1>1, <1>3 DEF Owned, RpcTypes
<1>4. ASSUME NEW x \in Op PROVE Writing(x)'
    BY <1>1, <1>4 DEF Writing, Owned, RpcTypes
<1> QED
    BY <1>2, <1>3, <1>4

(* Every step keeps it.                                                        *)
LEMMA RpcStep == RpcInv /\ [RpcNext]_allVars => RpcInv'
<1> SUFFICES ASSUME RpcInv, [RpcNext]_allVars PROVE RpcInv'
    OBVIOUS
<1> USE ConnAssumption DEF RpcInv
<1>1. CASE UNCHANGED rpcVars
    BY <1>1 DEF rpcVars, RpcTypes, Owned, Writing
<1>2. ASSUME NEW o \in Op, Call(o) PROVE RpcInv'
  <2>1. RpcTypes'
    BY <1>2 DEF Call, RpcTypes
  <2>2. ASSUME NEW x \in Op PROVE Owned(x)' /\ Writing(x)'
    BY <1>2, <2>2 DEF Call, RpcTypes, Owned, Writing
  <2> QED
    BY <2>1, <2>2
<1>3. ASSUME NEW o \in Op, SendRefused(o) PROVE RpcInv'
  <2>1. RpcTypes'
    BY <1>3 DEF SendRefused, RpcTypes
  <2>2. ASSUME NEW x \in Op PROVE Owned(x)'
    BY <1>3, <2>2 DEF SendRefused, RpcTypes, Owned
  <2>3. ASSUME NEW x \in Op PROVE Writing(x)'
    BY <1>3, <2>3 DEF SendRefused, RpcTypes, Writing
  <2> QED
    BY <2>1, <2>2, <2>3
<1>4. ASSUME NEW o \in Op, SendRegister(o) PROVE RpcInv'
  <2>1. RpcTypes'
    BY <1>4 DEF SendRegister, RpcTypes
  <2>2. ASSUME NEW x \in Op PROVE Owned(x)'
    BY <1>4, <2>2 DEF SendRegister, RpcTypes, Owned
  <2>3. ASSUME NEW x \in Op PROVE Writing(x)'
    BY <1>4, <2>3 DEF SendRegister, RpcTypes, Writing
  <2> QED
    BY <2>1, <2>2, <2>3
<1>5. ASSUME NEW o \in Op, EncodeError(o) \/ OperationError(o) \/ WriteClosed(o)
      PROVE  RpcInv'
    BY <1>5, SendFailedStep DEF EncodeError, OperationError, WriteClosed
<1>6. ASSUME NEW o \in Op, WriteRequest(o) PROVE RpcInv'
  <2>1. RpcTypes'
    BY <1>6 DEF WriteRequest, ServeRequest, RpcTypes
  <2>2. ASSUME NEW x \in Op PROVE Owned(x)'
    BY <1>6, <2>2 DEF WriteRequest, RpcTypes, Owned
  <2>3. ASSUME NEW x \in Op PROVE Writing(x)'
    BY <1>6, <2>3 DEF WriteRequest, RpcTypes, Writing
  <2> QED
    BY <2>1, <2>2, <2>3
<1>7. ASSUME NEW o \in Op, ReadNothing(o) PROVE RpcInv'
  <2>1. RpcTypes'
    BY <1>7 DEF ReadNothing, SendReturns, RpcTypes
  <2>2. ASSUME NEW x \in Op PROVE Owned(x)'
    BY <1>7, <2>2 DEF ReadNothing, SendReturns, RpcTypes, Owned
  <2>3. ASSUME NEW x \in Op PROVE Writing(x)'
    BY <1>7, <2>3 DEF ReadNothing, SendReturns, RpcTypes, Writing
  <2> QED
    BY <2>1, <2>2, <2>3
<1>8. ASSUME NEW o \in Op, ReadResponseHeader(o) PROVE RpcInv'
  <2>1. o \in pending /\ o \notin finished
    BY <1>8 DEF ReadResponseHeader, RpcTypes, Owned, Writing
  <2>2. /\ ipc' = "body" /\ reading' = o /\ pending' = pending \ {o}
        /\ UNCHANGED <<payload, finished>> /\ reading = None
    BY <1>8 DEF ReadResponseHeader, RpcTypes
  <2>3. \/ whole' = FALSE /\ spc' = spc /\ reqMutex' = reqMutex
        \/ whole' = TRUE /\ spc' = [spc EXCEPT ![o] = "out"] /\ reqMutex' = None
    BY <1>8 DEF ReadResponseHeader, SendReturns
  <2>4. spc[o] = "write"
    BY <1>8 DEF ReadResponseHeader
  <2>5. RpcTypes'
    BY <2>2, <2>3 DEF RpcTypes
  <2>6. ASSUME NEW x \in Op PROVE Owned(x)'
    BY <2>1, <2>2, <2>3, <2>4, <2>6 DEF RpcTypes, Owned
  <2>7. ASSUME NEW x \in Op PROVE Writing(x)'
    BY <2>1, <2>2, <2>3, <2>4, <2>7 DEF RpcTypes, Writing
  <2> QED
    BY <2>5, <2>6, <2>7
<1>9. CASE ReadHeaderClosed
  <2>1. RpcTypes'
    BY <1>9 DEF ReadHeaderClosed, RpcTypes
  <2>2. ASSUME NEW x \in Op PROVE Owned(x)' /\ Writing(x)'
    BY <1>9, <2>2 DEF ReadHeaderClosed, RpcTypes, Owned, Writing
  <2> QED
    BY <2>1, <2>2
<1>10. CASE ReadResponseBody \/ ReadBodyClosed
  <2> DEFINE o == reading
  <2>1. o \in Op /\ o \notin pending /\ o \notin finished /\ spc[o] \notin {"idle", "lock"}
    BY <1>10 DEF ReadResponseBody, ReadBodyClosed, RpcTypes, Owned
  <2>2. /\ finished' = finished \cup {o} /\ reading' = None /\ ipc' \in {"header", "lock"}
        /\ pending' = pending
        /\ payload' = [payload EXCEPT ![o] = IF @ = "misfit" THEN @ ELSE "none"]
    BY <1>10 DEF ReadResponseBody, ReadBodyClosed, Complete
  <2>3. \/ ipc' = "lock" /\ spc' = spc /\ reqMutex' = reqMutex
        \/ /\ spc' = [spc EXCEPT ![o] = "out"] /\ reqMutex' = None
           /\ ~whole /\ client # "closed"
        \/ spc' = spc /\ reqMutex' = reqMutex /\ whole
    BY <1>10, <2>2 DEF ReadResponseBody, ReadBodyClosed, Complete, SendReturns
  <2>4. RpcTypes'
    BY <2>1, <2>2, <2>3 DEF RpcTypes
  <2>5. ASSUME NEW x \in Op PROVE Owned(x)'
    BY <2>1, <2>2, <2>3, <2>5 DEF RpcTypes, Owned
  <2>6. ASSUME NEW x \in Op PROVE Writing(x)'
    BY <2>1, <2>2, <2>3, <2>6 DEF RpcTypes, Writing
  <2> QED
    BY <2>4, <2>5, <2>6
<1>11. CASE Terminate
  <2>1. \A x \in Op : spc[x] \notin {"do", "write"}
    BY <1>11 DEF Terminate, Writing
  <2>2. RpcTypes'
    BY <1>11 DEF Terminate, RpcTypes
  <2>3. ASSUME NEW x \in Op PROVE Owned(x)'
    BY <1>11, <2>3 DEF Terminate, RpcTypes, Owned
  <2>4. ASSUME NEW x \in Op PROVE Writing(x)'
    BY <1>11, <2>1, <2>4 DEF Terminate, RpcTypes, Writing
  <2> QED
    BY <2>2, <2>3, <2>4
<1>12. CASE ClientClose \/ CodecClose
  <2>1. RpcTypes'
    BY <1>12 DEF ClientClose, CodecClose, RpcTypes
  <2>2. ASSUME NEW x \in Op PROVE Owned(x)'
    BY <1>12, <2>2 DEF ClientClose, CodecClose, RpcTypes, Owned
  <2>3. ASSUME NEW x \in Op PROVE Writing(x)'
    BY <1>12, <2>3 DEF ClientClose, CodecClose, RpcTypes, Writing
  <2> QED
    BY <2>1, <2>2, <2>3
<1> QED
    BY <1>1, <1>2, <1>3, <1>4, <1>5, <1>6, <1>7, <1>8, <1>9, <1>10, <1>11, <1>12, Zenon
       DEF RpcNext, Connection, send, input, allVars

(* So it always holds.                                                         *)
LEMMA RpcInvariance == RpcSpec => []RpcInv
BY RpcInitInv, RpcStep, PTL DEF RpcSpec

(* A call of the RPC client that has been registered is in exactly one place:  *)
(* send and input never both complete it, and neither loses it, whichever of   *)
(* DoOperation, the codec and the pipe fails under it.                         *)
THEOREM CallsHaveOneOwner == RpcSpec => []OneOwner
<1>1. RpcInv => OneOwner
  <2> SUFFICES ASSUME RpcInv, NEW o \in Op
               PROVE  \E p \in {"pending", "reading", "finished"} :
                         {q \in {"pending", "reading", "finished"} :
                             CASE q = "pending" -> o \in pending
                               [] q = "reading" -> reading = o
                               [] OTHER -> o \in finished}
                           = IF spc[o] \in {"idle", "lock"} THEN {} ELSE {p}
    BY DEF OneOwner
  <2>1. Owned(o)
    BY DEF RpcInv
  <2> QED
    BY <2>1 DEF Owned
<1> QED
    BY <1>1, RpcInvariance, PTL

(* An error of one call does not end the goroutine that reads the responses of *)
(* the others: only Close does, and a reply that does not fit its caller.      *)
THEOREM ErrorsAreLocal == RpcSpec => []ErrorsStayLocal
<1>1. RpcInit => ErrorsStayLocal
    BY DEF RpcInit, ErrorsStayLocal
<1>2. RpcInv /\ ErrorsStayLocal /\ [RpcNext]_allVars => ErrorsStayLocal'
  <2> SUFFICES ASSUME RpcInv, ErrorsStayLocal, [RpcNext]_allVars PROVE ErrorsStayLocal'
    OBVIOUS
  <2>1. client = "closed" => client' = "closed"
    BY DEF RpcNext, allVars, rpcVars, Connection, Call, send, SendRefused, SendRegister,
           OperationError, WriteRequest, WriteClosed, EncodeError, input, ReadNothing,
           ReadResponseHeader, ReadHeaderClosed, ReadResponseBody, ReadBodyClosed,
           Terminate, ClientClose, CodecClose
  <2>2. ASSUME NEW o \in Op, payload[o] = "misfit" PROVE payload'[o] = "misfit"
    BY <2>2 DEF RpcNext, allVars, rpcVars, Connection, Call, send, SendRefused, SendRegister,
           OperationError, WriteRequest, WriteClosed, EncodeError, input, ReadNothing,
           ReadResponseHeader, ReadHeaderClosed, ReadResponseBody, ReadBodyClosed,
           Terminate, ClientClose, CodecClose, Complete, RpcInv, RpcTypes, Writing
  <2>3. ipc' \in {"lock", "end"} /\ ipc \notin {"lock", "end"} =>
            client' = "closed" \/ \E o \in Op : payload'[o] = "misfit"
    BY DEF RpcNext, allVars, rpcVars, Connection, Call, send, SendRefused, SendRegister,
           OperationError, WriteRequest, WriteClosed, EncodeError, input, ReadNothing,
           ReadResponseHeader, ReadHeaderClosed, ReadResponseBody, ReadBodyClosed,
           Terminate, ClientClose, CodecClose, Complete, RpcInv, RpcTypes
  <2> QED
    BY <2>1, <2>2, <2>3 DEF ErrorsStayLocal
<1> QED
    BY <1>1, <1>2, RpcInvariance, PTL DEF RpcSpec
================================================================================
