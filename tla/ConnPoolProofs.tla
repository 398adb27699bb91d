----------------------------- MODULE ConnPoolProofs -----------------------------
(*******************************************************************************)
(* Proofs about ConnPool: connections are pooled and used under their own      *)
(* address, the pool keeps to its size, and no connection goes unwatched.      *)
(*******************************************************************************)
EXTENDS ConnPool, FiniteSetTheorems, TLAPS

(* A user that has a connection.                                               *)
Has(u) == upc[u] \in {"add", "op", "keepAlive", "close"}

(* What users, pool and goroutines refer to is a connection with an address,   *)
(* and that address is the one it is pooled or was dialled under.              *)
Books ==
    /\ \A u \in User : upc[u] = "handshake" => at[u] \in Addr
    /\ \A u \in User : Has(u) => /\ using[u] \in Conn /\ at[u] \in Addr
                                 /\ addr[using[u]] = at[u]
    /\ \A a \in Addr : pool[a] # None => addr[pool[a]] = a
    /\ \A c \in Conn : hpc[c] \in {"sleep", "close"} \/ rpc[c] \in {"read", "close"}
                          => addr[c] \in Addr

(* An attempt is left as long as the call goes on.                             *)
AttemptLeft == \A u \in User : upc[u] # "error" => attempts[u] >= 1

(* Between NewConn and Add the connection is known to its maker only, and its  *)
(* reader has not been started.                                                *)
Private ==
    \A u \in User : upc[u] = "add" =>
        /\ rpc[using[u]] = "off"
        /\ \A a \in Addr : pool[a] # using[u]
        /\ \A v \in User : v # u => using[v] # using[u]

(* Somebody will close the connection.                                         *)
Closing(c) ==
    \/ hpc[c] = "close" \/ rpc[c] = "close"
    \/ \E u \in User : upc[u] = "close" /\ using[u] = c

(* The token is there only if somebody will close the connection, or has; a    *)
(* health checker that has returned has taken it or found the connection       *)
(* closed.                                                                     *)
Watch ==
    \A c \in Conn : link[c] \in {"open", "broken"} =>
        /\ done[c] => Closing(c)
        /\ hpc[c] \in {"off", "return"} => Closing(c)

IInv == TypeOK /\ Books /\ AttemptLeft /\ Private /\ Watch
--------------------------------------------------------------------------------
(* What Add leaves in the pool: what was there, or nothing, or the new         *)
(* connection under the address given.                                         *)
LEMMA AddFrame ==
    ASSUME TypeOK, NEW a \in Addr, NEW c \in Conn, Add(a, c)
    PROVE  /\ pool' \in [Addr -> Conn \cup {None}]
           /\ \A b \in Addr : pool'[b] \in {pool[b], None} \/ (b = a /\ pool'[b] = c)
  BY DEF TypeOK, Add

LEMMA InitIInv == Init => IInv
  BY PoolAssumption DEF Init, IInv, TypeOK, Books, AttemptLeft, Private, Watch, Has, Closing, User

(* Every variable keeps its type.                                              *)
LEMMA TypeStep ==
    ASSUME TypeOK, Books, AttemptLeft, [Next]_vars
    PROVE  TypeOK'
<1> USE PoolAssumption
<1>1. ASSUME NEW u \in User, Execute(u) PROVE TypeOK'
  BY <1>1 DEF TypeOK, Execute, GetRemote, Moves, poolVars
<1>2. ASSUME NEW u \in User, PingAll(u) PROVE TypeOK'
  BY <1>2 DEF TypeOK, PingAll, Moves, poolVars
<1>3. ASSUME NEW u \in User, GetRemote(u, "retry") PROVE TypeOK'
  BY <1>3 DEF TypeOK, GetRemote, Moves, poolVars
<1>4. ASSUME NEW u \in User, Get(u) PROVE TypeOK'
  BY <1>4 DEF TypeOK, Get, Moves, poolVars
<1>5. ASSUME NEW u \in User, DialError(u) PROVE TypeOK'
  BY <1>5 DEF TypeOK, DialError, Moves, Forget, poolVars
<1>6. ASSUME NEW u \in User, NewConn(u) PROVE TypeOK'
  BY <1>6 DEF TypeOK, NewConn, Moves
<1>7. ASSUME NEW u \in User, DialAdd(u) PROVE TypeOK'
  <2>1. using[u] \in Conn /\ at[u] \in Addr
    BY <1>7 DEF DialAdd, Moves, Books, Has
  <2>2. pool' \in [Addr -> Conn \cup {None}]
    BY <1>7, <2>1, AddFrame DEF DialAdd
  <2> QED BY <1>7, <2>1, <2>2 DEF TypeOK, DialAdd, Moves
<1>8. ASSUME NEW u \in User, OpAnswer(u) PROVE TypeOK'
  BY <1>8 DEF TypeOK, OpAnswer, Moves, Forget, poolVars
<1>9. ASSUME NEW u \in User, OpError(u) PROVE TypeOK'
  BY <1>9 DEF TypeOK, OpError, Moves, Remove
<1>10. ASSUME NEW u \in User, KeepAlive(u) PROVE TypeOK'
  <2>1. using[u] \in Conn /\ addr[using[u]] \in Addr
    BY <1>10 DEF KeepAlive, Moves, Books, Has
  <2>2. pool' \in [Addr -> Conn \cup {None}]
    BY <1>10, <2>1, AddFrame DEF KeepAlive
  <2> QED BY <1>10, <2>1, <2>2 DEF TypeOK, KeepAlive, Moves, Forget
<1>11. ASSUME NEW u \in User, UserClose(u) PROVE TypeOK'
  <2>1. attempts[u] - 1 \in 0 .. 2
    BY <1>11 DEF TypeOK, AttemptLeft, UserClose, Moves
  <2> QED BY <1>11, <2>1 DEF TypeOK, UserClose, Moves, Forget, CloseLink
<1>12. ASSUME NEW c \in Conn, healthchecker(c) PROVE TypeOK'
  <2>1. CASE HealthDone(c)
    BY <2>1 DEF TypeOK, HealthDone, Health, userVars
  <2>2. CASE HealthErrClosed(c)
    BY <2>2 DEF TypeOK, HealthErrClosed, Health, userVars, poolVars
  <2>3. CASE HealthPingError(c)
    BY <2>3 DEF TypeOK, HealthPingError, Health, Remove, userVars
  <2>4. CASE HealthClose(c)
    BY <2>4 DEF TypeOK, HealthClose, Health, CloseLink, userVars
  <2> QED BY <1>12, <2>1, <2>2, <2>3, <2>4 DEF healthchecker
<1>13. ASSUME NEW c \in Conn, reader(c) PROVE TypeOK'
  <2>1. CASE ReadError(c)
    BY <2>1 DEF TypeOK, ReadError, Reads, Remove, userVars
  <2>2. CASE ReaderClose(c)
    BY <2>2 DEF TypeOK, ReaderClose, Reads, CloseLink, userVars
  <2> QED BY <1>13, <2>1, <2>2 DEF reader
<1>14. ASSUME NEW c \in Conn, Break(c) PROVE TypeOK'
  BY <1>14 DEF TypeOK, Break, userVars
<1>15. CASE UNCHANGED vars
  BY <1>15 DEF TypeOK, vars, poolVars
<1> QED
  BY <1>1, <1>2, <1>3, <1>4, <1>5, <1>6, <1>7, <1>8, <1>9, <1>10, <1>11, <1>12, <1>13,
     <1>14, <1>15 DEF Next, Attempt

(* Connections stay under their own address.                                   *)
LEMMA BooksStep ==
    ASSUME TypeOK, Books, [Next]_vars
    PROVE  Books'
<1> USE PoolAssumption
<1>1. ASSUME NEW u \in User, Execute(u) PROVE Books'
  BY <1>1 DEF TypeOK, Books, Has, Execute, GetRemote, Moves, poolVars
<1>2. ASSUME NEW u \in User, PingAll(u) PROVE Books'
  BY <1>2 DEF TypeOK, Books, Has, PingAll, Moves, poolVars
<1>3. ASSUME NEW u \in User, GetRemote(u, "retry") PROVE Books'
  BY <1>3 DEF TypeOK, Books, Has, GetRemote, Moves, poolVars
<1>4. ASSUME NEW u \in User, Get(u) PROVE Books'
  BY <1>4 DEF TypeOK, Books, Has, Get, Moves, poolVars
<1>5. ASSUME NEW u \in User, DialError(u) PROVE Books'
  BY <1>5 DEF TypeOK, Books, Has, DialError, Moves, Forget, poolVars
<1>6. ASSUME NEW u \in User, NewConn(u) PROVE Books'
  BY <1>6 DEF TypeOK, Books, Has, NewConn, Unused, Moves
<1>7. ASSUME NEW u \in User, DialAdd(u) PROVE Books'
  <2>1. using[u] \in Conn /\ at[u] \in Addr /\ addr[using[u]] = at[u]
    BY <1>7 DEF DialAdd, Moves, Books, Has
  <2>2. \A b \in Addr : pool'[b] \in {pool[b], None} \/ (b = at[u] /\ pool'[b] = using[u])
    BY <1>7, <2>1, AddFrame DEF DialAdd
  <2> QED BY <1>7, <2>1, <2>2 DEF TypeOK, Books, Has, DialAdd, Moves
<1>8. ASSUME NEW u \in User, OpAnswer(u) PROVE Books'
  BY <1>8 DEF TypeOK, Books, Has, OpAnswer, Moves, Forget, poolVars
<1>9. ASSUME NEW u \in User, OpError(u) PROVE Books'
  BY <1>9 DEF TypeOK, Books, Has, OpError, Moves, Remove
<1>10. ASSUME NEW u \in User, KeepAlive(u) PROVE Books'
  <2>1. using[u] \in Conn /\ addr[using[u]] \in Addr
    BY <1>10 DEF KeepAlive, Moves, Books, Has
  <2>2. \A b \in Addr : pool'[b] \in {pool[b], None}
                            \/ (b = addr[using[u]] /\ pool'[b] = using[u])
    BY <1>10, <2>1, AddFrame DEF KeepAlive
  <2> QED BY <1>10, <2>1, <2>2 DEF TypeOK, Books, Has, KeepAlive, Moves, Forget
<1>11. ASSUME NEW u \in User, UserClose(u) PROVE Books'
  BY <1>11 DEF TypeOK, Books, Has, UserClose, Moves, Forget, CloseLink
<1>12. ASSUME NEW c \in Conn, healthchecker(c) PROVE Books'
  BY <1>12 DEF TypeOK, Books, Has, healthchecker, HealthDone, HealthErrClosed,
               HealthPingError, HealthClose, Health, Remove, CloseLink, userVars, poolVars
<1>13. ASSUME NEW c \in Conn, reader(c) PROVE Books'
  BY <1>13 DEF TypeOK, Books, Has, reader, ReadError, ReaderClose, Reads, Remove, CloseLink, userVars
<1>14. ASSUME NEW c \in Conn, Break(c) PROVE Books'
  BY <1>14 DEF TypeOK, Books, Has, Break, userVars
<1>15. CASE UNCHANGED vars
  BY <1>15 DEF TypeOK, Books, Has, vars, poolVars
<1> QED
  BY <1>1, <1>2, <1>3, <1>4, <1>5, <1>6, <1>7,
     <1>8, <1>9, <1>10, <1>11, <1>12, <1>13, <1>14, <1>15 DEF Next, Attempt

(* A retry is made only with an attempt left.                                  *)
LEMMA AttemptStep ==
    ASSUME TypeOK, AttemptLeft, [Next]_vars
    PROVE  AttemptLeft'
<1> USE PoolAssumption
<1>1. ASSUME NEW u \in User, Execute(u) PROVE AttemptLeft'
  BY <1>1 DEF TypeOK, AttemptLeft, Execute, GetRemote, Moves, poolVars
<1>2. ASSUME NEW u \in User, PingAll(u) PROVE AttemptLeft'
  BY <1>2 DEF TypeOK, AttemptLeft, PingAll, Moves, poolVars
<1>3. ASSUME NEW u \in User, GetRemote(u, "retry") PROVE AttemptLeft'
  BY <1>3 DEF TypeOK, AttemptLeft, GetRemote, Moves, poolVars
<1>4. ASSUME NEW u \in User, Get(u) PROVE AttemptLeft'
  BY <1>4 DEF TypeOK, AttemptLeft, Get, Moves, poolVars
<1>5. ASSUME NEW u \in User, DialError(u) PROVE AttemptLeft'
  BY <1>5 DEF TypeOK, AttemptLeft, DialError, Moves, Forget, poolVars
<1>6. ASSUME NEW u \in User, NewConn(u) PROVE AttemptLeft'
  BY <1>6 DEF TypeOK, AttemptLeft, NewConn, Unused, Moves
<1>7. ASSUME NEW u \in User, DialAdd(u) PROVE AttemptLeft'
  BY <1>7 DEF TypeOK, AttemptLeft, DialAdd, Moves
<1>8. ASSUME NEW u \in User, OpAnswer(u) PROVE AttemptLeft'
  BY <1>8 DEF TypeOK, AttemptLeft, OpAnswer, Moves, Forget, poolVars
<1>9. ASSUME NEW u \in User, OpError(u) PROVE AttemptLeft'
  BY <1>9 DEF TypeOK, AttemptLeft, OpError, Moves, Remove
<1>10. ASSUME NEW u \in User, KeepAlive(u) PROVE AttemptLeft'
  BY <1>10 DEF TypeOK, AttemptLeft, KeepAlive, Moves, Forget
<1>11. ASSUME NEW u \in User, UserClose(u) PROVE AttemptLeft'
  BY <1>11 DEF TypeOK, AttemptLeft, UserClose, Moves, Forget, CloseLink
<1>12. ASSUME NEW c \in Conn, healthchecker(c) PROVE AttemptLeft'
  BY <1>12 DEF TypeOK, AttemptLeft, healthchecker, HealthDone, HealthErrClosed,
               HealthPingError, HealthClose, Health, Remove, CloseLink, userVars, poolVars
<1>13. ASSUME NEW c \in Conn, reader(c) PROVE AttemptLeft'
  BY <1>13 DEF TypeOK, AttemptLeft, reader, ReadError, ReaderClose, Reads, Remove, CloseLink, userVars
<1>14. ASSUME NEW c \in Conn, Break(c) PROVE AttemptLeft'
  BY <1>14 DEF TypeOK, AttemptLeft, Break, userVars
<1>15. CASE UNCHANGED vars
  BY <1>15 DEF TypeOK, AttemptLeft, vars, poolVars
<1> QED
  BY <1>1, <1>2, <1>3, <1>4, <1>5, <1>6, <1>7,
     <1>8, <1>9, <1>10, <1>11, <1>12, <1>13, <1>14, <1>15 DEF Next, Attempt

(* A new connection stays private until it is added.                           *)
LEMMA PrivateStep ==
    ASSUME TypeOK, Books, Private, [Next]_vars
    PROVE  Private'
<1> USE PoolAssumption
<1>1. ASSUME NEW u \in User, Execute(u) PROVE Private'
  BY <1>1 DEF TypeOK, Books, Private, Has, Execute, GetRemote, Moves, poolVars
<1>2. ASSUME NEW u \in User, PingAll(u) PROVE Private'
  BY <1>2 DEF TypeOK, Books, Private, Has, PingAll, Moves, poolVars
<1>3. ASSUME NEW u \in User, GetRemote(u, "retry") PROVE Private'
  BY <1>3 DEF TypeOK, Books, Private, Has, GetRemote, Moves, poolVars
<1>4. ASSUME NEW u \in User, Get(u) PROVE Private'
  BY <1>4 DEF TypeOK, Books, Private, Has, Get, Moves, poolVars
<1>5. ASSUME NEW u \in User, DialError(u) PROVE Private'
  BY <1>5 DEF TypeOK, Books, Private, Has, DialError, Moves, Forget, poolVars
<1>6. ASSUME NEW u \in User, NewConn(u) PROVE Private'
  BY <1>6 DEF TypeOK, Books, Private, Has, NewConn, Unused, Moves
<1>7. ASSUME NEW u \in User, DialAdd(u) PROVE Private'
  <2>1. using[u] \in Conn /\ at[u] \in Addr /\ addr[using[u]] = at[u]
    BY <1>7 DEF DialAdd, Moves, Books, Has
  <2>2. \A b \in Addr : pool'[b] \in {pool[b], None} \/ (b = at[u] /\ pool'[b] = using[u])
    BY <1>7, <2>1, AddFrame DEF DialAdd
  <2> QED BY <1>7, <2>1, <2>2 DEF TypeOK, Books, Private, Has, DialAdd, Moves
<1>8. ASSUME NEW u \in User, OpAnswer(u) PROVE Private'
  BY <1>8 DEF TypeOK, Books, Private, Has, OpAnswer, Moves, Forget, poolVars
<1>9. ASSUME NEW u \in User, OpError(u) PROVE Private'
  BY <1>9 DEF TypeOK, Books, Private, Has, OpError, Moves, Remove
<1>10. ASSUME NEW u \in User, KeepAlive(u) PROVE Private'
  <2>1. using[u] \in Conn /\ addr[using[u]] \in Addr
    BY <1>10 DEF KeepAlive, Moves, Books, Has
  <2>2. \A b \in Addr : pool'[b] \in {pool[b], None}
                            \/ (b = addr[using[u]] /\ pool'[b] = using[u])
    BY <1>10, <2>1, AddFrame DEF KeepAlive
  <2> QED BY <1>10, <2>1, <2>2 DEF TypeOK, Books, Private, Has, KeepAlive, Moves, Forget
<1>11. ASSUME NEW u \in User, UserClose(u) PROVE Private'
  BY <1>11 DEF TypeOK, Books, Private, Has, UserClose, Moves, Forget, CloseLink
<1>12. ASSUME NEW c \in Conn, healthchecker(c) PROVE Private'
  BY <1>12 DEF TypeOK, Books, Private, Has, healthchecker, HealthDone, HealthErrClosed,
               HealthPingError, HealthClose, Health, Remove, CloseLink, userVars, poolVars
<1>13. ASSUME NEW c \in Conn, reader(c) PROVE Private'
  BY <1>13 DEF TypeOK, Books, Private, Has, reader, ReadError, ReaderClose, Reads, Remove, CloseLink, userVars
<1>14. ASSUME NEW c \in Conn, Break(c) PROVE Private'
  BY <1>14 DEF TypeOK, Books, Private, Has, Break, userVars
<1>15. CASE UNCHANGED vars
  BY <1>15 DEF TypeOK, Books, Private, Has, vars, poolVars
<1> QED
  BY <1>1, <1>2, <1>3, <1>4, <1>5, <1>6, <1>7,
     <1>8, <1>9, <1>10, <1>11, <1>12, <1>13, <1>14, <1>15 DEF Next, Attempt

(* Whoever takes the health checker away will close the connection.            *)
LEMMA WatchStep ==
    ASSUME TypeOK, Books, Private, Watch, [Next]_vars
    PROVE  Watch'
<1> USE PoolAssumption
<1>1. ASSUME NEW u \in User, Execute(u) PROVE Watch'
  BY <1>1 DEF TypeOK, Books, Private, Watch, Closing, Has, Execute, GetRemote, Moves, poolVars
<1>2. ASSUME NEW u \in User, PingAll(u) PROVE Watch'
  BY <1>2 DEF TypeOK, Books, Private, Watch, Closing, Has, PingAll, Moves, poolVars
<1>3. ASSUME NEW u \in User, GetRemote(u, "retry") PROVE Watch'
  BY <1>3 DEF TypeOK, Books, Private, Watch, Closing, Has, GetRemote, Moves, poolVars
<1>4. ASSUME NEW u \in User, Get(u) PROVE Watch'
  BY <1>4 DEF TypeOK, Books, Private, Watch, Closing, Has, Get, Moves, poolVars
<1>5. ASSUME NEW u \in User, DialError(u) PROVE Watch'
  BY <1>5 DEF TypeOK, Books, Private, Watch, Closing, Has, DialError, Moves, Forget, poolVars
<1>6. ASSUME NEW u \in User, NewConn(u) PROVE Watch'
  <2>1. PICK c \in Conn : /\ Unused(c)
                          /\ link' = [link EXCEPT ![c] = "open"]
                          /\ done' = [done EXCEPT ![c] = FALSE]
                          /\ hpc' = [hpc EXCEPT ![c] = "sleep"]
                          /\ rpc' = [rpc EXCEPT ![c] = "off"]
                          /\ using' = [using EXCEPT ![u] = c]
    BY <1>6 DEF NewConn
  <2>2. upc[u] = "handshake" /\ upc' = [upc EXCEPT ![u] = "add"]
    BY <1>6 DEF NewConn, Moves
  <2>3. \A x \in Conn : x # c =>
          /\ link'[x] = link[x] /\ done'[x] = done[x]
          /\ hpc'[x] = hpc[x] /\ rpc'[x] = rpc[x]
    BY <2>1 DEF TypeOK
  <2>4. ~done'[c] /\ hpc'[c] = "sleep"
    BY <2>1 DEF TypeOK
  <2>5. \A v \in User : upc[v] = "close" => upc'[v] = "close" /\ using'[v] = using[v]
    BY <2>1, <2>2 DEF TypeOK
  <2>6. \A x \in Conn : x # c /\ Closing(x) => Closing(x)'
    BY <2>2, <2>3, <2>5 DEF Closing
  <2> QED
    BY <2>3, <2>4, <2>6 DEF Watch
<1>7. ASSUME NEW u \in User, DialAdd(u) PROVE Watch'
  BY <1>7 DEF TypeOK, Books, Private, Watch, Closing, Has, DialAdd, Moves
<1>8. ASSUME NEW u \in User, OpAnswer(u) PROVE Watch'
  BY <1>8 DEF TypeOK, Books, Private, Watch, Closing, Has, OpAnswer, Moves, Forget, poolVars
<1>9. ASSUME NEW u \in User, OpError(u) PROVE Watch'
  <2>1. /\ upc[u] = "op" /\ upc' = [upc EXCEPT ![u] = "close"]
        /\ UNCHANGED <<link, hpc, rpc, using>>
    BY <1>9 DEF OpError, Moves
  <2>2. \A c \in Conn : c # using[u] => done'[c] = done[c]
    BY <1>9 DEF OpError, Remove, TypeOK
  <2>3. \A c \in Conn : Closing(c) => Closing(c)'
    BY <2>1 DEF Closing, TypeOK
  <2>4. Closing(using[u])'
    BY <2>1 DEF Closing, TypeOK
  <2> QED
    BY <2>1, <2>2, <2>3, <2>4 DEF Watch
<1>10. ASSUME NEW u \in User, KeepAlive(u) PROVE Watch'
  BY <1>10 DEF TypeOK, Books, Private, Watch, Closing, Has, KeepAlive, Moves, Forget
<1>11. ASSUME NEW u \in User, UserClose(u) PROVE Watch'
  BY <1>11 DEF TypeOK, Books, Private, Watch, Closing, Has, UserClose, Moves, Forget, CloseLink
<1>12. ASSUME NEW c \in Conn, healthchecker(c) PROVE Watch'
  BY <1>12 DEF TypeOK, Books, Private, Watch, Closing, Has, healthchecker, HealthDone, HealthErrClosed,
               HealthPingError, HealthClose, Health, Remove, CloseLink, userVars, poolVars
<1>13. ASSUME NEW c \in Conn, reader(c) PROVE Watch'
  <2>1. CASE ReadError(c)
    BY <2>1 DEF TypeOK, Watch, Closing, ReadError, Reads, Remove, userVars
  <2>2. CASE ReaderClose(c)
    BY <2>2 DEF TypeOK, Watch, Closing, ReaderClose, Reads, CloseLink, userVars
  <2> QED
    BY <1>13, <2>1, <2>2 DEF reader
<1>14. ASSUME NEW c \in Conn, Break(c) PROVE Watch'
  BY <1>14 DEF TypeOK, Books, Private, Watch, Closing, Has, Break, userVars
<1>15. CASE UNCHANGED vars
  BY <1>15 DEF TypeOK, Books, Private, Watch, Closing, Has, vars, poolVars
<1> QED
  BY <1>1, <1>2, <1>3, <1>4, <1>5, <1>6, <1>7,
     <1>8, <1>9, <1>10, <1>11, <1>12, <1>13, <1>14, <1>15 DEF Next, Attempt
--------------------------------------------------------------------------------
LEMMA IInvStep == IInv /\ [Next]_vars => IInv'
  BY TypeStep, BooksStep, AttemptStep, PrivateStep, WatchStep DEF IInv

LEMMA SpecIInv == Spec => []IInv
<1>1. Init => IInv
  BY InitIInv
<1>2. IInv /\ [Next]_vars => IInv'
  BY IInvStep
<1> QED BY <1>1, <1>2, PTL DEF Spec

(* Type correctness of the model of client/remote.go.                          *)
THEOREM ConnPoolTypeCorrect == Spec => []TypeOK
  BY SpecIInv, PTL DEF IInv

(* For any number of servers, connections and callers, operations are sent to  *)
(* the server they were dialled for.                                           *)
THEOREM ServersAreRight == Spec => []RightServer
<1>1. IInv => RightServer
  BY DEF IInv, Books, Has, RightServer
<1> QED BY <1>1, SpecIInv, PTL

(* For any number of servers, connections and callers, a connection that is    *)
(* not closed is watched: Close hands its token to the health checker before   *)
(* it closes, and nothing can come in between that loses the connection.       *)
THEOREM ConnsAreMonitored == Spec => []Monitored
<1>1. IInv => Monitored
  BY DEF IInv, TypeOK, Watch, Closing, Monitored
<1> QED BY <1>1, SpecIInv, PTL
--------------------------------------------------------------------------------
Cached(p) == {a \in Addr : p[a] # None}

(* Add makes room before it makes an entry.                                    *)
LEMMA AddWithinCapacity ==
    ASSUME TypeOK, WithinCapacity, NEW a \in Addr, NEW c \in Conn, Add(a, c)
    PROVE  WithinCapacity'
<1> USE PoolAssumption
<1> DEFINE S == Cached(pool)
<1>1. IsFiniteSet(S) /\ Cardinality(S) \in Nat /\ Cardinality(S) <= PoolSize
  <2>1. IsFiniteSet(S)
    BY FS_Subset DEF Cached
  <2> QED BY <2>1, FS_CardinalityType DEF Cached, WithinCapacity
<1>2. CASE pool[a] # None
  <2>1. Cached(pool') = S
    BY <1>2 DEF Add, Cached, TypeOK
  <2> QED BY <2>1, <1>1 DEF WithinCapacity, Cached
<1>3. CASE pool[a] = None
  <2> DEFINE others == {b \in Addr \ {a} : pool[b] # None}
  <2>1. others = S /\ a \notin S
    BY <1>3 DEF Cached
  <2>2. CASE Cardinality(others) >= PoolSize
    <3>1. PICK b \in S : pool' = [pool EXCEPT ![a] = c, ![b] = None]
      BY <1>3, <2>1, <2>2 DEF Add
    <3>2. Cached(pool') = (S \ {b}) \cup {a}
      BY <3>1, <2>1, <1>3 DEF Cached, TypeOK
    <3>3. IsFiniteSet(S \ {b}) /\ Cardinality(S \ {b}) = Cardinality(S) - 1
      BY <1>1, <3>1, FS_RemoveElement
    <3>4. Cardinality((S \ {b}) \cup {a}) = Cardinality(S)
      <4>1. Cardinality((S \ {b}) \cup {a}) = Cardinality(S \ {b}) + 1
        BY <3>3, <2>1, FS_AddElement
      <4> QED BY <4>1, <3>3, <1>1
    <3> QED BY <3>2, <3>4, <1>1 DEF WithinCapacity, Cached
  <2>3. CASE ~(Cardinality(others) >= PoolSize)
    <3>1. pool' = [pool EXCEPT ![a] = c]
      BY <1>3, <2>3 DEF Add
    <3>2. Cached(pool') = S \cup {a}
      BY <3>1, <2>1, <1>3 DEF Cached, TypeOK
    <3>3. Cardinality(S \cup {a}) = Cardinality(S) + 1
      BY <1>1, <2>1, FS_AddElement
    <3>4. Cardinality(S) < PoolSize
      BY <2>1, <2>3, <1>1
    <3>5. Cardinality(S) + 1 <= PoolSize
      BY <3>4, <1>1
    <3>6. Cardinality(Cached(pool')) <= PoolSize
      BY <3>2, <3>3, <3>5
    <3> QED BY <3>6 DEF WithinCapacity, Cached
  <2> QED BY <2>2, <2>3
<1> QED BY <1>2, <1>3

(* Taking an entry out leaves fewer.                                           *)
LEMMA RemoveWithinCapacity ==
    ASSUME TypeOK, WithinCapacity, NEW a, pool' = [pool EXCEPT ![a] = None]
    PROVE  WithinCapacity'
<1> USE PoolAssumption
<1>1. Cached(pool') \subseteq Cached(pool) /\ IsFiniteSet(Cached(pool))
  <2>1. IsFiniteSet(Cached(pool))
    BY FS_Subset DEF Cached
  <2> QED BY <2>1 DEF Cached, TypeOK
<1>2. Cardinality(Cached(pool')) <= Cardinality(Cached(pool))
  BY <1>1, FS_Subset
<1>3. Cardinality(Cached(pool')) \in Nat /\ Cardinality(Cached(pool)) \in Nat
  BY <1>1, FS_Subset, FS_CardinalityType
<1> QED BY <1>2, <1>3 DEF WithinCapacity, Cached

LEMMA CapacityStep ==
    ASSUME TypeOK, Books, WithinCapacity, [Next]_vars
    PROVE  WithinCapacity'
<1>1. CASE UNCHANGED pool
  BY <1>1 DEF WithinCapacity
<1>2. ASSUME NEW u \in User, DialAdd(u) PROVE WithinCapacity'
  BY <1>2, AddWithinCapacity DEF DialAdd, Moves, Books, Has
<1>3. ASSUME NEW u \in User, KeepAlive(u) PROVE WithinCapacity'
  BY <1>3, AddWithinCapacity DEF KeepAlive, Moves, Books, Has
<1>4. ASSUME NEW c \in Conn, Remove(c) PROVE WithinCapacity'
  BY <1>4, RemoveWithinCapacity DEF Remove
<1>5. ASSUME NEW u \in User, OpError(u) PROVE WithinCapacity'
  BY <1>5, RemoveWithinCapacity DEF OpError, Remove
<1>6. ASSUME NEW u \in User, Execute(u) \/ PingAll(u) \/ Attempt(u)
      PROVE  UNCHANGED pool \/ DialAdd(u) \/ KeepAlive(u) \/ OpError(u)
  BY <1>6 DEF Execute, PingAll, Attempt, GetRemote, Get, DialError, NewConn, OpAnswer,
              UserClose, poolVars
<1>7. ASSUME NEW c \in Conn, healthchecker(c) \/ reader(c) \/ Break(c)
      PROVE  UNCHANGED pool \/ Remove(c)
  BY <1>7 DEF healthchecker, HealthDone, HealthErrClosed, HealthPingError, HealthClose,
              reader, ReadError, ReaderClose, Break, poolVars
<1> QED
  BY <1>1, <1>2, <1>3, <1>4, <1>5, <1>6, <1>7 DEF Next, vars, poolVars

(* The pool keeps to connPoolSize, whatever is added and put back.             *)
THEOREM PoolIsBounded == Spec => []WithinCapacity
<1>1. Init => WithinCapacity
  <2>1. ASSUME Init PROVE {a \in Addr : pool[a] # None} = {}
    BY <2>1 DEF Init
  <2> QED BY <2>1, FS_EmptySet, PoolAssumption DEF WithinCapacity
<1>2. IInv /\ WithinCapacity /\ [Next]_vars => WithinCapacity'
  BY CapacityStep DEF IInv
<1> QED BY <1>1, <1>2, SpecIInv, PTL DEF Spec
================================================================================
