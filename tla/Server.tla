--------------------------------- MODULE Server ---------------------------------
(*******************************************************************************)
(* server/server.go: Serve accepts connections, spawn serves one, Close shuts  *)
(* everything down.  The parts are taken for what they promise: a connection   *)
(* handle runs until the client leaves or Destroy gets it out (Handle), a      *)
(* pool does its jobs and its Destroy returns when none is left (Pool), the    *)
(* background pool quits when it is cancelled (RandBuffer).                    *)
(*                                                                             *)
(* A section of Server.mtx that does not wait is one step.  Close waits inside *)
(* its section, so it holds mtx over several.                                  *)
(*******************************************************************************)
EXTENDS Integers, FiniteSets

CONSTANTS Listener, Conn,
          Closer,     \* goroutines that call Close
          Capacity,   \* of the job channel of a pool, 1024*1024 in the code
          Staffed,    \* the pools with at least one worker
          None

Pool == {"RSA", "ECDSA", "Other", "Limited"}

(* newWorkerPool refuses to build the first three without workers.             *)
ASSUME ServerAssumption ==
    /\ {"RSA", "ECDSA", "Other"} \subseteq Staffed /\ Staffed \subseteq Pool
    /\ Capacity \in Nat \ {0}
    /\ None \notin Listener \cup Conn \cup Closer \cup Pool

VARIABLES
    lpc,        \* where Serve is, for each listener
    lopen,      \* the listeners that are open
    listeners,  \* Server.listeners: the listeners in the map
    conns,      \* and the handles under each of them
    shutdown,   \* Server.shutdown
    mtx,        \* the Close that holds Server.mtx, or None
    spc,        \* where spawn is, for each accepted connection
    via,        \* the listener it came from
    limited,    \* the connections that may only use the Limited pool
    handle,     \* the goroutines of a connection: "none", "running", "ended"
    submitting, \* the pool a running getter is submitting a job to
    kpc,        \* where each Close is
    todo,       \* the connections of a listener that Close has yet to destroy
    victim,     \* the connection it is destroying
    pending,    \* jobs in each pool
    pstate      \* each pool and the two other things workerPool.Destroy stops

vars == <<lpc, lopen, listeners, conns, shutdown, mtx, spc, via, limited, handle,
          submitting, kpc, todo, victim, pending, pstate>>

serveVars == <<lpc, lopen>>
mapVars   == <<listeners, conns>>
spawnVars == <<spc, via, limited>>
closeVars == <<shutdown, mtx, kpc, todo, victim>>
poolVars  == <<pending, pstate>>

Service == Pool \cup {"bg", "util"}

Init ==
    /\ lpc = [l \in Listener |-> "new"]
    /\ lopen = Listener
    /\ listeners = {}
    /\ conns = [l \in Listener |-> {}]
    /\ shutdown = FALSE
    /\ mtx = None
    /\ spc = [c \in Conn |-> "new"]
    /\ via = [c \in Conn |-> None]
    /\ limited = {}
    /\ handle = [c \in Conn |-> "none"]
    /\ submitting = [c \in Conn |-> None]
    /\ kpc = [k \in Closer |-> "idle"]
    /\ todo = {}
    /\ victim = None
    /\ pending = [p \in Pool |-> 0]
    /\ pstate = [x \in Service |-> "up"]
--------------------------------------------------------------------------------
(* Mutant: a listener is added after shutdown. *)
addListenerLate(l) ==
    /\ lpc[l] # "accept" /\ mtx = None
    /\ l \notin listeners
    /\ listeners' = listeners \cup {l}
    /\ conns' = [conns EXCEPT ![l] = {}]
    /\ lpc' = [lpc EXCEPT ![l] = "accept"]
    /\ UNCHANGED <<lopen, handle, submitting, spawnVars, closeVars, poolVars>>

(* Serve: addListener, then accept until it fails.  It may be called again for *)
(* a listener it has returned for, and refuses one that is in the map (if it   *)
(* is called while it still accepts on that one, nothing changes).             *)
addListener(l) ==
    /\ lpc[l] # "accept" /\ mtx = None
    /\ \/ /\ shutdown \/ l \in listeners
          /\ lpc' = [lpc EXCEPT ![l] = "returned"]
          /\ UNCHANGED mapVars
       \/ /\ ~shutdown /\ l \notin listeners
          /\ listeners' = listeners \cup {l}
          /\ conns' = [conns EXCEPT ![l] = {}]
          /\ lpc' = [lpc EXCEPT ![l] = "accept"]
    /\ UNCHANGED <<lopen, handle, submitting, spawnVars, closeVars, poolVars>>

accept(l, c) ==
    /\ lpc[l] = "accept" /\ l \in lopen
    /\ spc[c] = "new"
    /\ spc' = [spc EXCEPT ![c] = "handshake"]
    /\ via' = [via EXCEPT ![c] = l]
    /\ UNCHANGED <<limited, handle, submitting, serveVars, mapVars, closeVars, poolVars>>

(* A temporary error is retried inside accept; any other one ends Serve.       *)
acceptError(l) ==
    /\ lpc[l] = "accept"
    /\ lpc' = [lpc EXCEPT ![l] = "returned"]
    /\ UNCHANGED <<lopen, handle, submitting, mapVars, spawnVars, closeVars, poolVars>>
--------------------------------------------------------------------------------
(* spawn                                                                       *)

(* The handshake succeeds and isLimited has decided.                           *)
Handshake(c) ==
    /\ spc[c] = "handshake"
    /\ spc' = [spc EXCEPT ![c] = "register"]
    /\ \E isLimited \in BOOLEAN :
          limited' = IF isLimited THEN limited \cup {c} ELSE limited
    /\ UNCHANGED <<via, handle, submitting, serveVars, mapVars, closeVars, poolVars>>

(* The handshake or isLimited fails.                                           *)
HandshakeError(c) ==
    /\ spc[c] = "handshake"
    /\ spc' = [spc EXCEPT ![c] = "closed"]
    /\ UNCHANGED <<via, limited, handle, submitting, serveVars, mapVars, closeVars,
                   poolVars>>

(* Mutant: a connection is served after shutdown. *)
RegisterLate(c) ==
    /\ spc[c] = "register" /\ mtx = None
    /\ handle' = [handle EXCEPT ![c] = "running"]
    /\ conns' = [conns EXCEPT ![via[c]] = @ \cup {c}]
    /\ spc' = [spc EXCEPT ![c] = "wait"]
    /\ UNCHANGED <<listeners, via, limited, submitting, serveVars, closeVars, poolVars>>

(* Under mtx: reject if the server is shutting down, else SpawnConn and enter  *)
(* the handle into the map.                                                    *)
Register(c) ==
    /\ spc[c] = "register" /\ mtx = None
    /\ \/ /\ shutdown
          /\ spc' = [spc EXCEPT ![c] = "closed"]
          /\ UNCHANGED <<handle, conns>>
       \/ /\ ~shutdown
          /\ handle' = [handle EXCEPT ![c] = "running"]
          /\ conns' = [conns EXCEPT ![via[c]] = @ \cup {c}]
          /\ spc' = [spc EXCEPT ![c] = "wait"]
    /\ UNCHANGED <<listeners, via, limited, submitting, serveVars, closeVars, poolVars>>

(* Mutant: the handle stays in the map. *)
RemoveNothing(c) ==
    /\ spc[c] = "wait" /\ handle[c] = "ended"
    /\ mtx = None
    /\ UNCHANGED conns
    /\ spc' = [spc EXCEPT ![c] = "removed"]
    /\ UNCHANGED <<listeners, via, limited, handle, submitting, serveVars, closeVars,
                   poolVars>>

(* handle.Wait has returned: under mtx, remove the handle.                     *)
Remove(c) ==
    /\ spc[c] = "wait" /\ handle[c] = "ended"
    /\ mtx = None
    /\ conns' = [conns EXCEPT ![via[c]] = @ \ {c}]
    /\ spc' = [spc EXCEPT ![c] = "removed"]
    /\ UNCHANGED <<listeners, via, limited, handle, submitting, serveVars, closeVars,
                   poolVars>>
--------------------------------------------------------------------------------
(* The getter of a running handle reads a request; SelectPool chooses a pool.  *)
SelectPool(c) ==
    /\ handle[c] = "running" /\ submitting[c] = None
    /\ \E p \in IF c \in limited THEN {"Limited"} ELSE Pool \ {"Limited"} :
          submitting' = [submitting EXCEPT ![c] = p]
    /\ UNCHANGED <<handle, serveVars, mapVars, spawnVars, closeVars, poolVars>>

SubmitJob(c) ==
    /\ submitting[c] # None
    /\ pending[submitting[c]] < Capacity
    /\ pending' = [pending EXCEPT ![submitting[c]] = @ + 1]
    /\ submitting' = [submitting EXCEPT ![c] = None]
    /\ UNCHANGED <<handle, pstate, serveVars, mapVars, spawnVars, closeVars>>

(* Both goroutines of the handle return: the client left, the connection timed *)
(* out, or it is being destroyed.                                              *)
HandleEnds(c) ==
    /\ handle[c] = "running" /\ submitting[c] = None
    /\ handle' = [handle EXCEPT ![c] = "ended"]
    /\ UNCHANGED <<submitting, serveVars, mapVars, spawnVars, closeVars, poolVars>>

(* A worker does a job.                                                        *)
Work(p) ==
    /\ p \in Staffed /\ pstate[p] # "down"
    /\ pending[p] > 0
    /\ pending' = [pending EXCEPT ![p] = @ - 1]
    /\ UNCHANGED <<handle, submitting, pstate, serveVars, mapVars, spawnVars, closeVars>>
--------------------------------------------------------------------------------
(* Close                                                                       *)
CloseCall(k) ==
    /\ kpc[k] = "idle" /\ mtx = None
    /\ \/ /\ shutdown
          /\ kpc' = [kpc EXCEPT ![k] = "error"]
          /\ UNCHANGED <<shutdown, mtx>>
       \/ /\ ~shutdown
          /\ shutdown' = TRUE
          /\ mtx' = k
          /\ kpc' = [kpc EXCEPT ![k] = "listeners"]
    /\ UNCHANGED <<todo, victim, handle, submitting, serveVars, mapVars, spawnVars,
                   poolVars>>

(* The next listener of the map: delete it, close it, take its connections.    *)
CloseListener(k) ==
    /\ kpc[k] = "listeners" /\ todo = {} /\ victim = None
    /\ \E l \in listeners :
          /\ listeners' = listeners \ {l}
          /\ lopen' = lopen \ {l}
          /\ todo' = conns[l]
          /\ conns' = [conns EXCEPT ![l] = {}]
    /\ UNCHANGED <<lpc, shutdown, mtx, kpc, victim, handle, submitting, spawnVars,
                   poolVars>>

(* conn.Destroy of the next one, which returns when its goroutines have.       *)
DestroyCall(k) ==
    /\ kpc[k] = "listeners" /\ victim = None
    /\ \E c \in todo : victim' = c /\ todo' = todo \ {c}
    /\ UNCHANGED <<shutdown, mtx, kpc, handle, submitting, serveVars, mapVars,
                   spawnVars, poolVars>>

(* Mutant: Destroy does not wait for the goroutines. *)
DestroyReturnEarly(k) ==
    /\ kpc[k] = "listeners" /\ victim # None
    /\ victim' = None
    /\ UNCHANGED <<shutdown, mtx, kpc, todo, handle, submitting, serveVars, mapVars,
                   spawnVars, poolVars>>

(* Mutant: Destroy also waits for spawn, which waits for mtx. *)
DestroyReturnRemoved(k) ==
    /\ kpc[k] = "listeners" /\ victim # None
    /\ spc[victim] = "removed"
    /\ victim' = None
    /\ UNCHANGED <<shutdown, mtx, kpc, todo, handle, submitting, serveVars, mapVars,
                   spawnVars, poolVars>>

DestroyReturn(k) ==
    /\ kpc[k] = "listeners" /\ victim # None
    /\ handle[victim] = "ended"
    /\ victim' = None
    /\ UNCHANGED <<shutdown, mtx, kpc, todo, handle, submitting, serveVars, mapVars,
                   spawnVars, poolVars>>

CloseListenersDone(k) ==
    /\ kpc[k] = "listeners" /\ listeners = {} /\ todo = {} /\ victim = None
    /\ kpc' = [kpc EXCEPT ![k] = "bg"]
    /\ UNCHANGED <<shutdown, mtx, todo, victim, handle, submitting, serveVars, mapVars,
                   spawnVars, poolVars>>

(* workerPool.Destroy stops these, one after the other.                        *)
Stops == [bg |-> "Other", Other |-> "ECDSA", ECDSA |-> "util", util |-> "unlock"]

StopCall(k, x) ==
    /\ kpc[k] = x /\ pstate[x] = "up"
    /\ pstate' = [pstate EXCEPT ![x] = "destroying"]
    /\ UNCHANGED <<pending, handle, submitting, serveVars, mapVars, spawnVars, closeVars>>

StopReturn(k, x) ==
    /\ kpc[k] = x /\ pstate[x] = "destroying"
    /\ x \in Pool => pending[x] = 0
    /\ pstate' = [pstate EXCEPT ![x] = "down"]
    /\ kpc' = [kpc EXCEPT ![k] = Stops[x]]
    /\ UNCHANGED <<shutdown, mtx, todo, victim, pending, handle, submitting, serveVars,
                   mapVars, spawnVars>>

CloseReturn(k) ==
    /\ kpc[k] = "unlock"
    /\ mtx' = None
    /\ kpc' = [kpc EXCEPT ![k] = "closed"]
    /\ UNCHANGED <<shutdown, todo, victim, handle, submitting, serveVars, mapVars,
                   spawnVars, poolVars>>

Close(k) == \/ CloseListener(k) \/ DestroyCall(k) \/ DestroyReturn(k)
            \/ CloseListenersDone(k) \/ CloseReturn(k)
            \/ \E x \in DOMAIN Stops : StopCall(k, x) \/ StopReturn(k, x)

spawn(c) == Handshake(c) \/ HandshakeError(c) \/ Register(c) \/ Remove(c)

Next == \/ \E l \in Listener : \/ addListener(l) \/ acceptError(l)
                               \/ \E c \in Conn : accept(l, c)
        \/ \E c \in Conn : spawn(c) \/ SelectPool(c) \/ SubmitJob(c) \/ HandleEnds(c)
        \/ \E p \in Pool : Work(p)
        \/ \E k \in Closer : CloseCall(k) \/ Close(k)

Spec == Init /\ [][Next]_vars

(* Goroutines get on, workers do their jobs, Accept fails on a closed listener.*)
(* A channel serves the senders that wait for room in turn, hence the strong   *)
(* fairness of SubmitJob.  A handle that is destroyed ends, though its getter  *)
(* may submit more jobs first (module Handle); no other handle has to.         *)
(* Nothing makes a handshake end: it has no deadline.                          *)
Fairness ==
    /\ \A l \in Listener : WF_vars(l \notin lopen /\ acceptError(l))
    /\ \A c \in Conn : /\ WF_vars(Register(c)) /\ WF_vars(Remove(c))
                       /\ SF_vars(SubmitJob(c))
                       /\ SF_vars(victim = c /\ HandleEnds(c))
    /\ \A p \in Pool : WF_vars(Work(p))
    /\ \A k \in Closer : WF_vars(Close(k))

FairSpec == Spec /\ Fairness
--------------------------------------------------------------------------------
TypeOK ==
    /\ lpc \in [Listener -> {"new", "accept", "returned"}]
    /\ lopen \subseteq Listener
    /\ listeners \subseteq Listener
    /\ conns \in [Listener -> SUBSET Conn]
    /\ shutdown \in BOOLEAN
    /\ mtx \in Closer \cup {None}
    /\ spc \in [Conn -> {"new", "handshake", "register", "wait", "removed", "closed"}]
    /\ via \in [Conn -> Listener \cup {None}]
    /\ limited \subseteq Conn
    /\ handle \in [Conn -> {"none", "running", "ended"}]
    /\ submitting \in [Conn -> Pool \cup {None}]
    /\ kpc \in [Closer -> {"idle", "listeners", "bg", "Other", "ECDSA", "util",
                           "unlock", "closed", "error"}]
    /\ todo \subseteq Conn
    /\ victim \in Conn \cup {None}
    /\ pending \in [Pool -> 0 .. Capacity]
    /\ pstate \in [Service -> {"up", "destroying", "down"}]

(* Close misses no connection: one whose goroutines run is in the map, where   *)
(* Close will find it, or Close has it on its list.                            *)
NoConnEscapes ==
    \A c \in Conn : handle[c] = "running" =>
        \/ via[c] \in listeners /\ c \in conns[via[c]]
        \/ shutdown /\ (c \in todo \/ c = victim)

(* Nobody submits a job to a pool, or still waits to, once a pool is being     *)
(* destroyed: SubmitJob leaves that undefined.                                 *)
NoSubmitAfterDestroy ==
    (\E x \in Service : pstate[x] # "up") => \A c \in Conn : submitting[c] = None

(* When Close has returned, no connection is served, every listener that was   *)
(* ever served is closed, the pools that are destroyed have no job left, and   *)
(* none of this is undone later by a late handshake or a late Serve.           *)
ClosedIsQuiet ==
    (\E k \in Closer : kpc[k] = "closed") =>
        /\ \A c \in Conn : handle[c] # "running" /\ submitting[c] = None
        /\ \A l \in Listener : lpc[l] = "accept" => l \notin lopen
        /\ pending["Other"] = 0 /\ pending["ECDSA"] = 0

(* Close returns, whatever the clients, the handshakes and the other Close do, *)
(* although it holds mtx while it waits for connections that need workers.     *)
CloseReturns ==
    \A k \in Closer : kpc[k] = "listeners" ~> kpc[k] = "closed"

(* The handle of a connection that has ended does not stay in the map.         *)
EndedIsRemoved ==
    \A c \in Conn : handle[c] = "ended" ~>
        spc[c] = "removed" /\ \A l \in Listener : c \notin conns[l]

(* When Close has returned, every pool of workers is destroyed.                *)
PoolsAreDestroyed ==
    (\E k \in Closer : kpc[k] = "closed") => \A p \in Pool : pstate[p] = "down"
================================================================================
