--------------------------------- MODULE Group ---------------------------------
(*******************************************************************************)
(* A group of remotes (client/remote.go), looked up by name: Dial tries the    *)
(* first few of them in random order and now and then starts a PingAll, which  *)
(* pings all of them from goroutines, sorts them and puts the new list in      *)
(* place of the old one.  Several Dials and PingAlls run at a time.  The       *)
(* sections under the group's RWMutex are short and block on nothing, so each  *)
(* is one step.  The client's blacklist is not synchronized: its owner changes *)
(* it while nobody dials.                                                      *)
(*******************************************************************************)
EXTENDS Lookup, FiniteSets

CONSTANTS
    IP, Port,       \* the addresses of servers, and the port of these
    DNS,            \* what a lookup may meet with: the answers of the resolvers,
                    \* and that of the system
    Certs, Nets,    \* certificates and subnets that are put on the blacklist
    MaxBlacklist,   \* the size from which on it does not grow (a bound)
    Dialer,         \* goroutines that call Dial
    Round,          \* the calls of PingAll that can be under way at a time
    Asked,          \* the concurrency that callers of PingAll ask for
    Duration,       \* how long a ping may take
    MaxTries,       \* n in Dial, 3 in the code
    Failed,         \* a ping that was not answered
    Up, Down,       \* the servers that may answer a ping, and that may fail to
    Silent,         \* the servers that may accept a connection and then never
                    \* say a word in the TLS handshake
    None

ASSUME GroupAssumption ==
    /\ \A a \in DNS : a.answers \in Seq(Seq(IP)) /\ a.system \in Seq(IP)
    /\ Asked \subseteq Int /\ Duration \subseteq Nat
    /\ MaxTries \in Nat \ {0}
    /\ Failed \notin Duration
    /\ Up \cup Down = IP /\ Silent \subseteq IP

VARIABLES
    blacklist,  \* Client.Blacklist
    found,      \* the servers that the lookup gave to NewGroup (history)
    remotes,    \* Group.remotes
    stale,      \* lastPingAll is more than 30 minutes ago
    dpc,        \* a call of Dial
    cand,       \* the remotes it has still to try, then the one it is connected
                \* with
    ppc,        \* a call of PingAll
    list,       \* its copy of remotes
    slots,      \* the tokens in jobQueue
    cap,        \* cap(jobQueue)
    gpc,        \* the goroutine for each element of the copy
    ch          \* the results in the channel, by the goroutine that sent them
                \* (sorting forgets the order in which they came)

roundVars == <<ppc, list, slots, cap, gpc, ch>>
lookupVars == <<blacklist, found>>
vars == <<lookupVars, remotes, stale, dpc, cand, roundVars>>

N == Len(remotes)

Unmeasured == [val |-> 0, measured |-> FALSE]

Init ==
    /\ blacklist = {}
    /\ found = <<>> /\ remotes = <<>>
    /\ stale = TRUE
    /\ dpc = [d \in Dialer |-> "idle"]
    /\ cand = [d \in Dialer |-> <<>>]
    /\ ppc = [p \in Round |-> "off"]
    /\ list = [p \in Round |-> <<>>]
    /\ slots = [p \in Round |-> 0]
    /\ cap = [p \in Round |-> 0]
    /\ gpc = [p \in Round |-> <<>>]
    /\ ch = [p \in Round |-> <<>>]
--------------------------------------------------------------------------------
(* The lookup and the blacklist                                                *)
Quiet == (\A d \in Dialer : dpc[d] = "idle") /\ (\A p \in Round : ppc[p] = "off")

(* LookupServer, when there is no group for the name in the cache or that one  *)
(* is too old; NewGroup refuses an empty one.                                  *)
LookupServer ==
    /\ Quiet
    /\ \E a \in DNS :
          found' = LookupServerWithName(blacklist, LookupIPs(a.answers, a.system), Port)
    /\ found' # <<>>
    /\ remotes' = [i \in 1 .. Len(found') |-> [remote |-> found'[i], latency |-> Unmeasured]]
    /\ stale' = TRUE
    /\ UNCHANGED <<blacklist, dpc, cand, roundVars>>

(* AddrSet.Add with a subnet, or the Populate functions.                       *)
Populate ==
    /\ Quiet /\ Cardinality(blacklist) < MaxBlacklist
    /\ \/ \E c \in Certs : blacklist' =
             PopulateBlacklistFromCert(blacklist, c.addresses, c.lookups, c.port)
       \/ \E e \in Nets : blacklist' = blacklist \cup {e}
    /\ UNCHANGED <<found, remotes, stale, dpc, cand, roundVars>>

ClearBlacklist ==
    /\ Quiet
    /\ blacklist' = {}
    /\ UNCHANGED <<found, remotes, stale, dpc, cand, roundVars>>
--------------------------------------------------------------------------------
(* ewmaLatency                                                                 *)

(* Update and Reset have value receivers: what they compute is thrown away.    *)
Update(l, val) == l
Reset(l) == l

(* Better: a measured latency is better than none.                             *)
Better(l, r) == l.measured /\ (~r.measured \/ l.val < r.val)

(* sort.Sort: some permutation in which no element is better than one before   *)
(* it (the sort is not stable).                                                *)
Sorted(s) ==
    {t \in {[i \in DOMAIN s |-> s[p[i]]] : p \in Bijection(DOMAIN s, DOMAIN s)} :
        \A i, j \in DOMAIN s : i < j => ~Better(t[j].latency, t[i].latency)}
--------------------------------------------------------------------------------
(* Dial                                                                        *)
Tries == IF N < MaxTries THEN N ELSE MaxTries

(* The numbers the random source may give: rand.Intn(i + 1), counted from one. *)
Picks(n) == {js \in [1 .. n -> 1 .. n] : \A i \in 1 .. n : js[i] <= i}

(* Copy and shuffle the first remotes: the i-th goes to place j, and what was  *)
(* there goes to place i.  What the copy holds at first is overwritten.        *)
Shuffled(s, js) ==
    LET sh[i \in 0 .. Len(js)] ==
          IF i = 0 THEN js
          ELSE [sh[i - 1] EXCEPT
                  ![i] = IF js[i] # i THEN sh[i - 1][js[i]] ELSE @,
                  ![js[i]] = s[i]]
    IN  sh

Shuffle(s, js) == Shuffled(s, js)[Len(js)]

Dial(d) ==
    /\ dpc[d] = "idle" /\ N > 0
    /\ dpc' = [dpc EXCEPT ![d] = "try"]
    /\ \E js \in Picks(Tries) :
          cand' = [cand EXCEPT ![d] = Shuffle([i \in 1 .. N |-> remotes[i].remote], js)]
    /\ UNCHANGED <<lookupVars, remotes, stale, roundVars>>

(* Mutant of Try: that the lookup left out what was on the blacklist will do.  *)
TryAll(d) ==
    /\ dpc[d] = "try"
    /\ \/ /\ dpc' = [dpc EXCEPT ![d] = "defer"]
          /\ cand' = [cand EXCEPT ![d] = <<Head(@)>>]
       \/ /\ dpc' = [dpc EXCEPT ![d] = IF Len(cand[d]) = 1 THEN "defer" ELSE "try"]
          /\ cand' = [cand EXCEPT ![d] = Tail(@)]
    /\ UNCHANGED <<lookupVars, remotes, stale, roundVars>>

(* The next candidate is dialled, and others are tried only if that fails.     *)
(* singleRemote.Dial looks at the blacklist again.                             *)
Try(d) ==
    /\ dpc[d] = "try"
    /\ \/ /\ ~Contains(blacklist, Head(cand[d]), Port)
          /\ dpc' = [dpc EXCEPT ![d] = "defer"]
          /\ cand' = [cand EXCEPT ![d] = <<Head(@)>>]
       \/ /\ dpc' = [dpc EXCEPT ![d] = IF Len(cand[d]) = 1 THEN "defer" ELSE "try"]
          /\ cand' = [cand EXCEPT ![d] = Tail(@)]
    /\ UNCHANGED <<lookupVars, remotes, stale, roundVars>>

Begin(p, concurrency) ==
    /\ ppc[p] = "off"
    /\ ppc' = [ppc EXCEPT ![p] = "copy"]
    /\ cap' = [cap EXCEPT ![p] = IF concurrency <= 0 THEN 1 ELSE concurrency]
    /\ UNCHANGED <<list, slots, gpc, ch>>

(* The deferred function starts a PingAll if the last one is long ago.         *)
DialReturn(d) ==
    /\ dpc[d] = "defer"
    /\ dpc' = [dpc EXCEPT ![d] = "idle"]
    /\ \/ stale /\ stale' = FALSE /\ \E p \in Round : Begin(p, 1)
       \/ ~stale /\ UNCHANGED <<stale, roundVars>>
    /\ cand' = [cand EXCEPT ![d] = <<>>]
    /\ UNCHANGED <<lookupVars, remotes>>
--------------------------------------------------------------------------------
(* PingAll                                                                     *)
Call(p) ==
    /\ N > 0 /\ \E k \in Asked : Begin(p, k)
    /\ UNCHANGED <<lookupVars, remotes, stale, dpc, cand>>

(* The list is copied and jobQueue is filled.                                  *)
Copy(p) ==
    /\ ppc[p] = "copy"
    /\ ppc' = [ppc EXCEPT ![p] = "launch"]
    /\ list' = [list EXCEPT ![p] = remotes]
    /\ slots' = [slots EXCEPT ![p] = cap[p]]
    /\ gpc' = [gpc EXCEPT ![p] = [i \in 1 .. N |-> "off"]]
    /\ ch' = [ch EXCEPT ![p] = [i \in 1 .. N |-> None]]
    /\ UNCHANGED <<lookupVars, remotes, stale, dpc, cand, cap>>

(* Take a slot and start the next goroutine.                                   *)
Launch(p) ==
    /\ ppc[p] = "launch"
    /\ slots[p] > 0
    /\ \E i \in 1 .. N :
          /\ \A j \in 1 .. N : (gpc[p][j] = "off") = (j >= i)
          /\ gpc' = [gpc EXCEPT ![p][i] = "run"]
          /\ ppc' = [ppc EXCEPT ![p] = IF i = N THEN "collect" ELSE "launch"]
    /\ slots' = [slots EXCEPT ![p] = @ - 1]
    /\ UNCHANGED <<lookupVars, remotes, stale, dpc, cand, list, cap, ch>>

(* How the ping of a remote may end; it is not even dialled if it is on the    *)
(* blacklist.                                                                  *)
Measured(r) ==
    IF Contains(blacklist, r, Port) THEN {Failed}
    ELSE (IF r \in Up THEN Duration ELSE {}) \cup (IF r \in Down THEN {Failed} ELSE {})

(* What goroutine i makes of a measurement, a duration or a failure; took is   *)
(* history.                                                                    *)
Result(p, i, d) ==
    LET l == list[p][i].latency IN
    [remote |-> list[p][i].remote,
     latency |-> IF d = Failed THEN Reset(l) ELSE Update(l, d),
     took |-> d]

(* Mutant of Report: the goroutine works on the variable of the loop.          *)
ReportLoopVariable(p, i) ==
    /\ gpc[p][i] = "run"
    /\ \E k \in 1 .. N : \E d \in Measured(list[p][k].remote) :
          /\ gpc[p][k] # "off"
          /\ k < N => gpc[p][k + 1] = "off"
          /\ ch' = [ch EXCEPT ![p][i] = Result(p, k, d)]
    /\ gpc' = [gpc EXCEPT ![p][i] = "sent"]
    /\ UNCHANGED <<lookupVars, remotes, stale, dpc, cand, ppc, list, slots, cap>>

(* Dial and Ping, and the result is sent: ch has room for all.                 *)
Report(p, i) ==
    /\ gpc[p][i] = "run"
    /\ \E d \in Measured(list[p][i].remote) : ch' = [ch EXCEPT ![p][i] = Result(p, i, d)]
    /\ gpc' = [gpc EXCEPT ![p][i] = "sent"]
    /\ UNCHANGED <<lookupVars, remotes, stale, dpc, cand, ppc, list, slots, cap>>

(* Mutant of ReturnSlot: only an answered ping gives its slot back.            *)
ReturnSlotIfAnswered(p, i) ==
    /\ gpc[p][i] = "sent"
    /\ slots[p] < cap[p]
    /\ gpc' = [gpc EXCEPT ![p][i] = "done"]
    /\ slots' = [slots EXCEPT ![p] =
                    IF ch[p] # <<>> /\ ch[p][i].took = Failed THEN @ ELSE @ + 1]
    /\ UNCHANGED <<lookupVars, remotes, stale, dpc, cand, ppc, list, cap, ch>>

(* The deferred send gives the slot back, if jobQueue has room.                *)
ReturnSlot(p, i) ==
    /\ gpc[p][i] = "sent"
    /\ slots[p] < cap[p]
    /\ gpc' = [gpc EXCEPT ![p][i] = "done"]
    /\ slots' = [slots EXCEPT ![p] = @ + 1]
    /\ UNCHANGED <<lookupVars, remotes, stale, dpc, cand, ppc, list, cap, ch>>

(* As many results as there are remotes are received and sorted, and the new   *)
(* list is put in place.                                                       *)
Collect(p) ==
    /\ ppc[p] = "collect"
    /\ \A i \in 1 .. N : ch[p][i] # None
    /\ remotes' \in Sorted([i \in 1 .. N |->
                               [remote |-> ch[p][i].remote, latency |-> ch[p][i].latency]])
    /\ stale' = FALSE
    /\ ppc' = [ppc EXCEPT ![p] = "return"]
    /\ list' = [list EXCEPT ![p] = <<>>]
    /\ ch' = [ch EXCEPT ![p] = <<>>]
    /\ UNCHANGED <<lookupVars, dpc, cand, slots, cap, gpc>>

(* The call has returned; its goroutines may still be giving slots back.        *)
Forget(p) ==
    /\ ppc[p] = "return"
    /\ \A i \in 1 .. N : gpc[p][i] = "done"
    /\ ppc' = [ppc EXCEPT ![p] = "off"]
    /\ slots' = [slots EXCEPT ![p] = 0]
    /\ cap' = [cap EXCEPT ![p] = 0]
    /\ gpc' = [gpc EXCEPT ![p] = <<>>]
    /\ UNCHANGED <<lookupVars, remotes, stale, dpc, cand, list, ch>>

(* Half an hour passes.                                                        *)
Tick ==
    /\ ~stale /\ stale' = TRUE
    /\ UNCHANGED <<lookupVars, remotes, dpc, cand, roundVars>>

PingAll(p) ==
    \/ Copy(p) \/ Launch(p) \/ Collect(p) \/ Forget(p)
    \/ \E i \in DOMAIN gpc[p] : Report(p, i) \/ ReturnSlot(p, i)

Next ==
    \/ LookupServer \/ Populate \/ ClearBlacklist
    \/ \E d \in Dialer : Dial(d) \/ Try(d) \/ DialReturn(d)
    \/ \E p \in Round : Call(p) \/ PingAll(p)
    \/ Tick

Spec == Init /\ [][Next]_vars

(* Goroutine i is in a Dial that need not return: tls.DialWithDialer has no    *)
(* timeout.  A remote on the blacklist is not dialled.                         *)
Hangs(p, i) ==
    /\ gpc[p][i] = "run"
    /\ list[p][i].remote \in Silent
    /\ ~Contains(blacklist, list[p][i].remote, Port)

(* The goroutines of PingAll are scheduled.  With a server that is not Silent  *)
(* a dial ends one way or the other, and a ping ends: DoOperation has a        *)
(* timeout.                                                                    *)
Fairness ==
    \A p \in Round : WF_vars(
        \/ Copy(p) \/ Launch(p) \/ Collect(p) \/ Forget(p)
        \/ \E i \in DOMAIN gpc[p] : (~Hangs(p, i) /\ Report(p, i)) \/ ReturnSlot(p, i))

FairSpec == Spec /\ Fairness
--------------------------------------------------------------------------------
(* Every server that the lookup found stays in the group, as often as it was   *)
(* found, although overlapping PingAlls replace the list by copies they took   *)
(* before the other changed it.                                                *)
Times(s, ip) == Cardinality({i \in DOMAIN s : s[i] = ip})

NoRemoteLost ==
    \A ip \in IP : Times([i \in 1 .. N |-> remotes[i].remote], ip) = Times(found, ip)

(* A Dial tries different members of the group, and it never returns a         *)
(* connection to an address on the blacklist ("addresses that this client      *)
(* won't dial"), whether that was put there before the lookup or after it.     *)
DialTriesRight ==
    \A d \in Dialer :
        /\ dpc[d] = "try" =>
              /\ cand[d] # <<>>
              /\ \A ip \in IP : Times(cand[d], ip) <= Times(found, ip)
        /\ dpc[d] = "defer" =>
              \A i \in DOMAIN cand[d] : ~Contains(blacklist, cand[d][i], Port)

(* PingAll returns and its goroutines end and give their job slots back, also  *)
(* when pings fail, PingAlls overlap or slots are fewer than remotes;          *)
(* all that can keep it forever is the Dial, which has no timeout, of a remote *)
(* that is silent and not on the blacklist.                                    *)
PingAllEnds ==
    \A p \in Round :
        ppc[p] = "copy" ~> \/ ppc[p] = "off"
                           \/ [](\E i \in DOMAIN gpc[p] : Hangs(p, i))

(* "After ping checks, 1st remote must be the normal server": in the list that *)
(* a PingAll puts in place no remote precedes one that answered its ping       *)
(* faster, or that answered when it did not.                                   *)
FastestFirst ==
    [][\A p \in Round : ppc[p] = "collect" /\ ppc'[p] = "return" =>
          \A i, j, k, l \in 1 .. N :
             /\ i < j
             /\ remotes'[i].remote = ch[p][k].remote
             /\ remotes'[j].remote = ch[p][l].remote
             /\ ch[p][l].took \in Duration
             => ch[p][k].took \in Duration /\ ch[p][k].took <= ch[p][l].took]_vars
================================================================================
