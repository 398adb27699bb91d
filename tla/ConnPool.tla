-------------------------------- MODULE ConnPool --------------------------------
(*******************************************************************************)
(* The client's pool of connections (client/remote.go) and the operations that *)
(* go through it (PrivateKey.execute in client/keys.go, PingAll).              *)
(*                                                                             *)
(* A connection is used by many goroutines at a time and closed by whichever   *)
(* of them meets an error first: users of the connection, its reader and its   *)
(* health checker.  Close takes the entry of the connection's address out of   *)
(* the pool, whatever connection that entry holds; KeepAlive puts the          *)
(* connection back, whatever has happened to it.  The calls of the pool are    *)
(* atomic (ttlcache.LRU locks itself); everything between them interleaves.    *)
(*                                                                             *)
(* The error that makes somebody call Close changes nothing by itself, so it is *)
(* one step with the call of Remove that follows it.                           *)
(*                                                                             *)
(* The connection itself is the one ClientConn models, abstracted to whether   *)
(* its peer is there and whether it is closed.                                 *)
(*******************************************************************************)
EXTENDS Naturals, FiniteSets

CONSTANTS
    Addr,       \* the addresses of the servers of a remote, without those on
                \* the client's blacklist, which Dial refuses
    Conn,       \* the connections that can exist at a time (a bound)
    Caller,     \* calls of execute
    Pinger,     \* calls of singleRemote.PingAll
    Pinged,     \* the addresses of the remotes that they are made on
    PoolSize,   \* connPoolSize
    Silent,     \* the addresses of servers that may accept a connection and
                \* then never say a word in the TLS handshake
    None

(* Group.Dial tries at most three remotes.                                     *)
MaxDials == 3

User == Caller \cup Pinger

ASSUME PoolAssumption ==
    /\ PoolSize \in Nat \ {0} /\ IsFiniteSet(Addr)
    /\ Caller \cap Pinger = {} /\ Pinged \subseteq Addr /\ Silent \subseteq Addr
    /\ None \notin Conn /\ None \notin Addr

VARIABLES
    pool,       \* connPool.pool: the connection cached for an address
    link,       \* the network connection: unmade, open, broken (the peer has
                \* gone) or closed (conn.Conn.Close)
    addr,       \* Conn.addr
    done,       \* Conn.done holds a token
    hpc,        \* healthchecker(c)
    rpc,        \* the reader goroutine of c
    upc,        \* a user: execute or PingAll
    attempts,   \* attempts left in execute
    untried,    \* addresses that Group.Dial has not tried yet
    at,         \* the address being dialled
    using       \* the connection a user has

poolVars == <<pool, link, addr, done>>
vars == <<poolVars, hpc, rpc, upc, attempts, untried, at, using>>

Init ==
    /\ pool = [a \in Addr |-> None]
    /\ link = [c \in Conn |-> "unmade"]
    /\ addr = [c \in Conn |-> None]
    /\ done = [c \in Conn |-> FALSE]
    /\ hpc = [c \in Conn |-> "off"]
    /\ rpc = [c \in Conn |-> "off"]
    /\ upc = [u \in User |-> "idle"]
    /\ attempts = [u \in User |-> IF u \in Caller THEN 2 ELSE 1]
    /\ untried = [u \in User |-> {}]
    /\ at = [u \in User |-> None]
    /\ using = [u \in User |-> None]
--------------------------------------------------------------------------------
(* The pool                                                                    *)

(* connPool.Add: a full cache drops some other entry.  Which one depends on    *)
(* use and age; the connection it held is not closed.                          *)
Add(a, c) ==
    LET others == {b \in Addr \ {a} : pool[b] # None} IN
    IF pool[a] = None /\ Cardinality(others) >= PoolSize
    THEN \E b \in others : pool' = [pool EXCEPT ![a] = c, ![b] = None]
    ELSE pool' = [pool EXCEPT ![a] = c]

(* Conn.Close: whatever connection the pool has for the address is taken out,  *)
(* and the health checker gets a token if there is room for one (the two are   *)
(* one step because only the health checker could tell them apart); then the   *)
(* connection is closed.                                                       *)
Remove(c) ==
    /\ pool' = [pool EXCEPT ![addr[c]] = None]
    /\ done' = [done EXCEPT ![c] = TRUE]
CloseLink(c) == link' = [link EXCEPT ![c] = "closed"]
--------------------------------------------------------------------------------
(* healthchecker(c)                                                            *)
Health(c, from, to) == hpc[c] = from /\ hpc' = [hpc EXCEPT ![c] = to]
userVars == <<upc, attempts, untried, at, using>>

(* The token of Close.                                                         *)
HealthDone(c) ==
    /\ Health(c, "sleep", "return") /\ done[c]
    /\ done' = [done EXCEPT ![c] = FALSE]
    /\ UNCHANGED <<pool, link, addr, rpc, userVars>>

(* The timer fires and Ping returns ErrClosed: somebody else has closed the    *)
(* connection.  A pong leaves everything as it is.                             *)
HealthErrClosed(c) ==
    /\ Health(c, "sleep", "return") /\ link[c] = "closed"
    /\ UNCHANGED <<poolVars, rpc, userVars>>

(* Mutant of HealthPingError: it gives up without closing the connection.      *)
HealthPingErrorIgnored(c) ==
    /\ Health(c, "sleep", "return")
    /\ UNCHANGED <<poolVars, rpc, userVars>>

(* Ping returns another error, and the connection is closed.                   *)
HealthPingError(c) ==
    /\ Health(c, "sleep", "close") /\ Remove(c)
    /\ UNCHANGED <<link, addr, rpc, userVars>>

HealthClose(c) ==
    /\ Health(c, "close", "return") /\ CloseLink(c)
    /\ UNCHANGED <<pool, addr, done, rpc, userVars>>

healthchecker(c) ==
    \/ HealthDone(c) \/ HealthErrClosed(c) \/ HealthPingError(c)
    \/ HealthClose(c)
--------------------------------------------------------------------------------
(* The reader: DoRead until it fails, then Close                               *)
Reads(c, from, to) == rpc[c] = from /\ rpc' = [rpc EXCEPT ![c] = to]

ReadError(c) ==
    /\ Reads(c, "read", "close") /\ link[c] \in {"broken", "closed"}
    /\ Remove(c)
    /\ UNCHANGED <<link, addr, hpc, userVars>>

(* Mutant of ReaderClose: the network connection is left to others.            *)
ReaderCloseForgets(c) ==
    /\ Reads(c, "close", "return")
    /\ UNCHANGED <<poolVars, hpc, userVars>>

ReaderClose(c) ==
    /\ Reads(c, "close", "return") /\ CloseLink(c)
    /\ UNCHANGED <<pool, addr, done, hpc, userVars>>

reader(c) == ReadError(c) \/ ReaderClose(c)
--------------------------------------------------------------------------------
(* execute and PingAll                                                         *)
Moves(u, from, to) == upc[u] = from /\ upc' = [upc EXCEPT ![u] = to]

(* The call is over: its local variables are gone.                              *)
Forget(u) ==
    /\ untried' = [untried EXCEPT ![u] = {}]
    /\ at' = [at EXCEPT ![u] = None]
    /\ using' = [using EXCEPT ![u] = None]

(* getRemote: no remote, or a group of which Group.Dial tries some members.    *)
GetRemote(u, from) ==
    /\ \/ /\ Moves(u, from, "error")
          /\ UNCHANGED untried
       \/ /\ Moves(u, from, "dial")
          /\ \E S \in SUBSET Addr \ {{}} :
                /\ Cardinality(S) <= MaxDials
                /\ untried' = [untried EXCEPT ![u] = S]
    /\ UNCHANGED <<poolVars, hpc, rpc, attempts, at, using>>

(* execute begins by asking for a remote, PingAll dials its own address.       *)
Execute(u) == u \in Caller /\ GetRemote(u, "idle")

PingAll(u) ==
    /\ u \in Pinger
    /\ Moves(u, "idle", "dial")
    /\ \E a \in Pinged : untried' = [untried EXCEPT ![u] = {a}]
    /\ UNCHANGED <<poolVars, hpc, rpc, attempts, at, using>>

(* Mutant of Get: the address of the first remote is used for the others too.  *)
GetKeepsFirst(u) ==
    /\ \E a \in untried[u] :
          /\ at' = [at EXCEPT ![u] = IF @ = None THEN a ELSE @]
          /\ \/ /\ pool[a] # None
                /\ Moves(u, "dial", "op")
                /\ using' = [using EXCEPT ![u] = pool[a]]
                /\ untried' = [untried EXCEPT ![u] = {}]
             \/ /\ pool[a] = None
                /\ Moves(u, "dial", "handshake")
                /\ untried' = [untried EXCEPT ![u] = @ \ {a}]
                /\ UNCHANGED using
    /\ UNCHANGED <<poolVars, hpc, rpc, attempts>>

(* singleRemote.Dial: the pooled connection is returned as it is.              *)
Get(u) ==
    /\ \E a \in untried[u] :
          /\ at' = [at EXCEPT ![u] = a]
          /\ \/ /\ pool[a] # None
                /\ Moves(u, "dial", "op")
                /\ using' = [using EXCEPT ![u] = pool[a]]
                /\ untried' = [untried EXCEPT ![u] = {}]
             \/ /\ pool[a] = None
                /\ Moves(u, "dial", "handshake")
                /\ untried' = [untried EXCEPT ![u] = @ \ {a}]
                /\ UNCHANGED using
    /\ UNCHANGED <<poolVars, hpc, rpc, attempts>>

(* tls.DialWithDialer fails.  Group.Dial tries the next remote, or returns the *)
(* last error.                                                                 *)
DialError(u) ==
    /\ \/ /\ untried[u] # {}
          /\ Moves(u, "handshake", "dial")
          /\ UNCHANGED <<untried, at, using>>
       \/ /\ untried[u] = {}
          /\ Moves(u, "handshake", "error")
          /\ Forget(u)
    /\ UNCHANGED <<poolVars, hpc, rpc, attempts>>

(* A name for a new connection: one that nothing refers to any more.           *)
Unused(c) ==
    /\ link[c] \in {"unmade", "closed"}
    /\ hpc[c] \in {"off", "return"} /\ rpc[c] \in {"off", "return"}
    /\ \A a \in Addr : pool[a] # c
    /\ \A u \in User : using[u] # c

(* tls.DialWithDialer succeeds; NewConn starts the health checker.             *)
NewConn(u) ==
    /\ Moves(u, "handshake", "add")
    /\ \E c \in Conn :
          /\ Unused(c)
          /\ link' = [link EXCEPT ![c] = "open"]
          /\ addr' = [addr EXCEPT ![c] = at[u]]
          /\ done' = [done EXCEPT ![c] = FALSE]
          /\ hpc' = [hpc EXCEPT ![c] = "sleep"]
          /\ rpc' = [rpc EXCEPT ![c] = "off"]
          /\ using' = [using EXCEPT ![u] = c]
    /\ untried' = [untried EXCEPT ![u] = {}]
    /\ UNCHANGED <<pool, attempts, at>>

(* The new connection goes into the pool, over another that has been put there *)
(* in the meantime, and its reader is started.                                 *)
DialAdd(u) ==
    /\ Moves(u, "add", "op")
    /\ Add(at[u], using[u])
    /\ rpc' = [rpc EXCEPT ![using[u]] = "read"]
    /\ UNCHANGED <<link, addr, done, hpc, attempts, untried, at, using>>

(* DoOperation or Ping is answered.  execute keeps the connection alive.       *)
OpAnswer(u) ==
    /\ \/ /\ u \in Caller
          /\ Moves(u, "op", "keepAlive")
          /\ UNCHANGED <<untried, at, using>>
       \/ /\ u \in Pinger
          /\ Moves(u, "op", "answer")
          /\ Forget(u)
    /\ link[using[u]] = "open"
    /\ UNCHANGED <<poolVars, hpc, rpc, attempts>>

(* It fails (the connection is broken or closed, or the answer is late) and    *)
(* the connection is closed.                                                   *)
OpError(u) ==
    /\ Moves(u, "op", "close") /\ Remove(using[u])
    /\ UNCHANGED <<link, addr, hpc, rpc, attempts, untried, at, using>>

(* KeepAlive.                                                                  *)
KeepAlive(u) ==
    /\ Moves(u, "keepAlive", "answer")
    /\ Add(addr[using[u]], using[u])
    /\ Forget(u)
    /\ UNCHANGED <<link, addr, done, hpc, rpc, attempts>>

(* Mutant of UserClose: attempts are not counted.                              *)
UserCloseRetries(u) ==
    /\ Moves(u, "close", IF u \in Caller THEN "retry" ELSE "error")
    /\ CloseLink(using[u])
    /\ Forget(u)
    /\ UNCHANGED <<pool, addr, done, hpc, rpc, attempts>>

(* Conn.Close, and on to the second attempt or back to the caller.             *)
UserClose(u) ==
    /\ Moves(u, "close", IF attempts[u] > 1 THEN "retry" ELSE "error")
    /\ CloseLink(using[u])
    /\ attempts' = [attempts EXCEPT ![u] = @ - 1]
    /\ Forget(u)
    /\ UNCHANGED <<pool, addr, done, hpc, rpc>>

(* The peer goes away.                                                         *)
Break(c) ==
    /\ link[c] = "open"
    /\ link' = [link EXCEPT ![c] = "broken"]
    /\ UNCHANGED <<pool, addr, done, hpc, rpc, userVars>>

Attempt(u) ==
    \/ GetRemote(u, "retry") \/ Get(u) \/ DialError(u) \/ NewConn(u)
    \/ DialAdd(u) \/ OpAnswer(u) \/ OpError(u) \/ KeepAlive(u) \/ UserClose(u)

Next ==
    \/ \E u \in User : Execute(u) \/ PingAll(u) \/ Attempt(u)
    \/ \E c \in Conn : healthchecker(c) \/ reader(c) \/ Break(c)

Spec == Init /\ [][Next]_vars

(* The dialer of the client has no timeout, and no deadline is set for the     *)
(* handshake: tls.DialWithDialer need not return for a server that is silent.  *)
Hangs(u) == upc[u] = "handshake" /\ at[u] \in Silent

(* Goroutines are scheduled; the timeout of DoOperation and the timer of the   *)
(* health checker fire, and a ping on a connection that is not open fails.     *)
(* Of the peers only this is assumed: with a server that is not Silent, a dial *)
(* ends one way or the other.  None has to answer an operation or to go away.  *)
Fairness ==
    /\ \A u \in User : WF_vars(~Hangs(u) /\ Attempt(u))
    /\ \A c \in Conn :
          /\ WF_vars(reader(c))
          /\ WF_vars((hpc[c] = "sleep" => link[c] # "open") /\ healthchecker(c))

FairSpec == Spec /\ Fairness
--------------------------------------------------------------------------------
TypeOK ==
    /\ pool \in [Addr -> Conn \cup {None}]
    /\ link \in [Conn -> {"unmade", "open", "broken", "closed"}]
    /\ addr \in [Conn -> Addr \cup {None}]
    /\ done \in [Conn -> BOOLEAN]
    /\ hpc \in [Conn -> {"off", "sleep", "close", "return"}]
    /\ rpc \in [Conn -> {"off", "read", "close", "return"}]
    /\ upc \in [User -> {"idle", "retry", "dial", "handshake", "add", "op",
                         "keepAlive", "close", "answer", "error"}]
    /\ attempts \in [User -> 0 .. 2]
    /\ untried \in [User -> SUBSET Addr]
    /\ at \in [User -> Addr \cup {None}]
    /\ using \in [User -> Conn \cup {None}]

(* connPool never holds more than connPoolSize connections.                    *)
WithinCapacity == Cardinality({a \in Addr : pool[a] # None}) <= PoolSize

(* An operation goes to the server it was dialled for: a connection is pooled  *)
(* and handed out under its own address only, however Add, Remove and KeepAlive*)
(* of different connections interleave.                                        *)
RightServer ==
    /\ \A a \in Addr : pool[a] # None => addr[pool[a]] = a
    /\ \A u \in User : upc[u] \in {"add", "op", "keepAlive"} => addr[using[u]] = at[u]

(* A connection that is not closed has somebody who will notice when it dies:  *)
(* its health checker is running, or has been told to quit by somebody who is  *)
(* about to close the connection.                                              *)
Monitored ==
    \A c \in Conn : link[c] \in {"open", "broken"} =>
        \/ hpc[c] \notin {"off", "return"}
        \/ rpc[c] = "close"
        \/ \E u \in User : upc[u] = "close" /\ using[u] = c

(* A connection whose peer has gone, or that somebody has closed, is cleaned   *)
(* up, although nobody uses it and whether or not it is in the pool: it is     *)
(* closed, and its reader and its health checker quit.                         *)
DeadConnIsClosed ==
    \A c \in Conn : link[c] \in {"broken", "closed"} ~>
        link[c] = "closed" /\ hpc[c] = "return" /\ rpc[c] = "return"

(* execute and PingAll return, after two attempts at most, whatever happens to *)
(* the connections they are given; all that can keep one of them forever is    *)
(* the handshake, which has no timeout, with a server that is silent.  Dials   *)
(* of other goroutines that hang do not matter.                                *)
OperationsReturn ==
    \A u \in User :
        upc[u] # "idle" ~> (upc[u] \in {"answer", "error"} \/ []Hangs(u))
================================================================================
