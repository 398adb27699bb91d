# A verification of gokeyless

gokeyless is a key server: clients that terminate TLS without holding private
keys send it signing and decryption requests over long-lived, mutually
authenticated TLS connections. This directory holds TLA+ models of its
concurrent parts, the TLC configurations that check them, and TLAPS proofs.

## The system and its parts

| Part | Source | State | Operations | What is hard about it |
|---|---|---|---|---|
| client connection | `conn/conn.go`, reader loop of `client/remote.go` | `nextID`, `listeners`, `closed`, `mapMtx`, `writeMtx`, one channel per call | `DoOperation`, `DoRead`, `timeoutRequest`, `Close` | calls, readers, timeouts and closers race for the one slot of each channel; late and missing answers; a failed write; IDs that wrap |
| connection handle | `server/internal/client/client.go`, `server/conn.go` | `blocker` (`requestsLeft`, `closed`, `wg`), `responses`, `done`, `destroyed`, `serverClosing` | `getter`, `submitter`, liveness checker, `Destroy`, `GetJob`, `SubmitResult` | backpressure must neither lose a wake-up nor let a worker block; two goroutines must take each other down |
| worker pool | `server/internal/worker/worker.go` | `jobs`, `busy`, `wg` | `SubmitJob`, `worker`, `Destroy` | sentinels share a bounded channel with the jobs |
| nonce buffer | `server/internal/ecdsa/ecdsa.go`, `BackgroundPool` | buffer channel, context, `wg` | `Fill`, `gen`, `Sign`, `Destroy` | a nonce used twice; fillers blocked on a full buffer at shutdown |
| server lifecycle | `server/server.go`, `server/worker_pool.go` | `listeners` with their connections, `shutdown`, `mtx`, the pools | `Serve`, `spawn`, `SelectPool`, `Close`, `workerPool.Destroy` | `Close` runs while handshakes, removals and submissions go on, and waits with the mutex held |
| RPC client | `Conn.RPC` and `clientCodec` in `conn/conn.go`, `serverCodec` in `server/server.go` | the pipe; `reqMutex`, `pending` of `net/rpc` | `WriteRequest`, `ReadResponseHeader`, `ReadResponseBody`, `Close` | the caller that writes a request also delivers its response, and holds a mutex meanwhile |
| request dispatch | `server/server.go` | `DefaultKeystore.skis` | `keylessWorker.Do`, `limitedWorker.Do`, `Add`, `Get` | which response each request gets |
| keys | `server/server.go`, `internal/azure`, `internal/google` | none | `AddFromFile`, `AddFromURI`, `Sign` of the signers | services that support other algorithms, and return other encodings, than TLS wants |
| wire format | `protocol/protocol.go` | none | `MarshalBinary`, `UnmarshalBinary`, `Bytes` | 16-bit lengths, padding |
| client connection pool | `client/remote.go`, `client/keys.go` | `connPool`, health checkers | `Dial`, `Close`, `execute` | stale pooled connections, eviction by address, one retry |
| remote groups | `client/remote.go` | list of remotes with latencies | `Dial`, `PingAll` | reordering while others dial |
| lookup and blacklist | `client/remote.go`, `client/client.go` | `Blacklist` | `LookupIPs`, `LookupServer`, `Populate...`, `ClearBlacklist` | an address that is put on the list after the lookup |
| certificate initialization | `cmd/gokeyless` | files on disk | `needNewCertAndKey`, `initializeServerCertAndKey` | a crash between two writes |

The parts interact like this. A client call goes through `DoOperation` onto the
wire; at the server the getter of the connection's handle reads it, `SelectPool`
chooses a worker pool and `SubmitJob` queues it; a worker does it (taking a
nonce from the buffer for ECDSA) and commits the result to the handle's
responses channel; the submitter writes it back; the client's reader hands it to
the call. `Server.Close` stops all of this from the outside in.

## Modules

| Module | Models | Promise it implements |
|---|---|---|
| `ClientConn` | the client connection | `Calls`: a call returns the answer to its own request or an error, and it returns |
| `Rpc` | the RPC client, on `ClientConn` | `ClientConn` itself, with the RPC client hidden |
| `ConnHandle` | the connection handle with the server's connection and its client | `Handle`: it ends, and takes every response of its jobs at once |
| `WorkerPool` | the worker pool | `Pool`: every job is done once, all before Destroy returns |
| `RandBuffer` | the nonce buffer, its fillers and signers | |
| `Server` | Serve, spawn and Close, over what `Handle` and `Pool` promise | |
| `ConnPool` | the client's pool of connections, their reader and health checker, `execute` and its retry | |
| `Lookup` | the resolvers and the blacklist, as operators | |
| `Group` | a group of remotes, over `Lookup`: `LookupServer`, `Dial` over a shuffled copy, rounds of `PingAll` | |
| `Wire` | the wire format, as operators | |
| `Keys` | the kinds of keys and what signs with them, as operators | |
| `Request` | one request from `Sign`, `Decrypt`, `Ping` or `DoOperation` to its result, over `Wire` and `Keys` | |
| `CertInit` | the files of the server's own certificate, across crashes and overlapping runs | |

`MCClientConn` adds the symmetry sets for TLC, `MCRequest` the operations, options and
paddings that are tried, `MCGroup` the answers of resolvers and the entries of the blacklist.
`<Module>Proofs` holds the theorems of `<Module>`, with those of `ConnHandle` in `ServerProofs`
and those of `WorkerPool` and `RandBuffer` in `WorkerProofs`; for these the definitions of
`ConnHandle` and `RandBuffer` have names that do not clash with the others' (`ConnSpec`,
`BufferSpec`). `ClientConnCalls` has the theorems that relate `Rpc`, `ClientConn` and `Calls`. Definitions whose comment begins with "Mutant" are plausible bugs,
used only to see that a property can fail; no action refers to them.

### ClientConn

`pc` is the place of each call in `DoOperation`; `listeners` maps an ID to the
call whose channel is registered, `chan` is the content of the channel (one slot,
as `make(chan *result, 1)`), `mapLock` and `writeLock` are the mutexes. The
sections of code under a mutex are one action each when nothing in them can
block; `Close` is split at every lock and at every send on a channel because
these are what it could block on. Every reader is a goroutine of
`singleRemote.Dial`: it reads, takes the channel out of the map and sends,
and on an error closes the connection. The server answers outstanding
requests in any order, at any time or never. `IDSpace` stands for 2^32.

### Rpc

`viaRPC` are the operations that are calls of an RPC client; the others are made by other
goroutines on the same connection. `spc` is the place of a call in `send` of `rpc.Client` and,
below it, in `clientCodec.WriteRequest`; `ipc` is the goroutine `input`, with the codec's two read
functions. `net/rpc` and `io.Pipe` are external and modelled as the code uses them:
`send` holds `reqMutex` while the codec writes, and a write to the pipe returns when
all of it has been read. One `DoOperation` is inside one `WriteRequest`, which is why `Connection`
lets a call of the RPC client enter it only there. `whole` says whether the decoder has
taken the body along with the header. `serverCodec` is what it can make of a request
(`ServeRequest`).

### ConnHandle

Requests and responses are counted and not told apart: nothing in the handle
looks at them. `requestsLeft`, `wg` and `bclosed` are the blocker's; `inPool` is
the jobs with the workers, `responses` the channel. `gpc`, `subpc` and `dpc` are
the getter, the submitter and the two callers of `destroy` (a caller of
`Destroy` and the liveness checker). `peer`, `unread` and `unacked` are the client
and the two directions of the network, with buffers of `RecvBuffer` and
`SendBuffer`: a `Write` blocks when the client does not read. The refinement mapping to `Handle`
takes a handle to be running until both goroutines have returned.

### WorkerPool

`jobs` is the channel with jobs and sentinels, of size `Capacity` (1024*1024 in the
code). `DoAndCommit` is `Do` together with the commit, which `ConnHandle`
shows never to block.

### RandBuffer

The buffer is a channel of `RandBufferLen` nonces; `bpc` is the caller of Destroy; `gen` takes one or, when the channel is empty,
makes one on the spot. Fresh nonces are drawn from `Nonce` without repetition
and, when those run out, are `Untracked` and not followed further: generation
is assumed not to repeat itself. `ComputeZero` is the retry of `sign` when r or s
comes out zero.

### Server

`lpc`, `spc` and `kpc` are the goroutines of Serve, of spawn and of the callers of
Close. `mtx` is `Server.mtx`. A connection handle is abstracted to running,
destroying or ended, with a getter that may be inside SubmitJob; pools are queues
of a bounded length with a state up, stopping or down. What is assumed of a handle is what
`Handle` promises: it ends once `Destroy` is called, and need not end otherwise. `Staffed` is the set of
pools with at least one worker: newWorkerPool insists on all but Limited.

### ConnPool

`pool` is the LRU cache by address, `link` the network connection, `rpc` and `hpc` its reader
and its health checker, `upc` the callers of `execute` and of `PingAll`. A `Dial` is
split where it lets go of the pool: looking in the cache, dialing, adding.
`Close` of a pooled connection removes the entry of its *address* and leaves the done
token in one step. Names of connections that nothing refers to any more are used
again, so behaviours are not cut off.

### Group

`remotes` is the list with its recorded latencies, `cand` what a `Dial` has still to try,
`list` the copy a round of `PingAll` works on, `slots` the tokens of its job queue and `ch` the
results by goroutine. `Update` and `Reset` are the identity, because in the code they
have value receivers. `Silent` are the servers that may accept a connection and then never finish
the handshake (also in `ConnPool`). `Asked` are the concurrencies that are asked for, `MaxTries` how many
remotes one `Dial` tries. `found` keeps, for the properties, what the lookup gave to `NewGroup`.
`AddrSet` is three slices without a lock, so the model lets its owner change it only while nobody
dials; between two Dials it changes freely, in particular after the lookup.

### Wire and Request

Lengths are the real ones, values are abstract: an item is a tag, a length and a
value, and an operation is a record of fields. `Bytes` and `Marshal` compute the same
length separately, as in the code, with `uint16` sums that wrap. Loops of the code are recursive
functions on the number of rounds done (`Sizes`, `Written`, `Scan`; `Gather`, `Shuffled` in `Lookup`
and `Group`), which is the form that the proofs by induction need. `Request`
follows one request: the client's choice of opcode, `NewPacket`, `GetJob`,
`SelectPool`, `Do`, `SubmitResult`, `DoRead` and what the call makes of the response. Keys are
added to the key store at any time. `Configs` are the sealers, custom operations and RPC dispatchers
that a server may have been given. A key is in a file, behind PKCS #11, in an Azure vault or in Google
KMS, with the types these have; the vault signs with the algorithm it is told, KMS with the
one of the key. An SKI stands for its key; a signature is the key, the
hash, whether PSS was used, and its form (`convert1363ToAsn1` changes it); a decrypted block is a sequence of bytes, because
`parsePKCS1v15` looks at each. A key from a file gives the block with its padding; for a PKCS #11 key the server
passes no options and `crypto11` has the token take the padding off (`Decrypted`). Addresses are nil, IPv4 (in 4 or 16 bytes) or IPv6: for a
`net.IP` of any other length `Bytes` and `MarshalBinary` do not agree.

### CertInit

`disk` maps each of the three files to the pair it belongs to, or to missing or torn.
`ioutil.WriteFile` is two steps, because it empties the file first. `pc` is the place of the
daemon and of a run of the command line in `main`. `Fail` is a crash or `log.Fatal` at
any place. The operator (`Submit`, `Install`), the API and the clock are external. `alone` and
`disturbed` record, for the properties, whether another run was writing at the
same time.

## Runs

| Run | What its properties say |
|---|---|
| `clientconn_safety` | no send on a response channel blocks; no call gets another's response before IDs wrap |
| `clientconn_promise` | `KeepsPromise`: the connection implements `Calls`, liveness included; `Close` returns; every RPC is completed once (`OneOwner`), with its own error only (`ErrorsStayLocal`), and returns; closing the RPC client ends its goroutine |
| `connhandle` | workers never block; the waiting getter is let go; destroy runs once; a client that is gone takes both goroutines with it, and one goroutine the other unless the client has only half-closed (`DeadClientIsReaped`); `KeepsPromise`: the handle implements `Handle`, liveness included |
| `workerpool` | no worker quits before the last job; `KeepsPromise`: the pool implements `Pool`, liveness included |
| `randbuffer` | no nonce is used twice; `Destroy` and `Sign` return |
| `server` | `Close` misses no connection, destroys no pool in use, is final, and returns; what has ended is removed |
| `connpool` | nobody talks to the wrong server; no open connection is unwatched; a dead one is closed and its reader and checker end (`DeadConnIsClosed`); operations return unless a silent server keeps their dial |
| `group` | no remote is lost or doubled; a Dial tries different members and connects with nobody on the blacklist (`DialTriesRight`); `PingAll` ends unless a silent server keeps one of its dials |
| `request` | the header announces what follows, and what does not fit is refused (`HeaderAgrees`); the server reads what was written; a signature is the one that was asked for, with two cases left out; a limited connection uses no key; with keys from files exactly a right padding is stripped |
| `certinit` | a pair under manual activation fits; initialization gives a usable pair and keeps a good one; one start is enough if the API answers |
| `server_pools`, `group_latency` | the two disagreements below |

| Run | Expectation | Bounds | States |
|---|---|---|---|
| `clientconn_safety` | pass | 3 calls, 1 reader, 2 closers, 2 IDs | 544 thousand |
| `clientconn_promise` | pass | 2 calls, both or none of an RPC client, 1 reader, 1 closer, 2 IDs | 63 thousand |
| `connhandle` | pass | 3 outstanding, buffers of 1 | 61 thousand |
| `workerpool` | pass | 3 workers, 3 jobs, channel of 2 | 9 thousand |
| `randbuffer` | pass | 2 fillers, 2 signers, buffer of 1, 2 nonces | 118 thousand |
| `server` | pass | 1 listener, 2 connections, 2 closers, queues of 1 | 41 thousand |
| `server_pools` | violation | 1 connection, 1 closer | |
| `connpool` | pass | 2 addresses, 2 connections, 1 caller, 1 pinger of one of them, a pool of 1, 1 silent server | 146 thousand |
| `group` | pass | 2 resolvers, groups of 1 or 2 remotes (one of them twice), 1 dialer, 2 rounds of `PingAll`, 1 silent server | 210 thousand |
| `group_latency` | violation | 2 remotes, 1 round, 2 durations | |
| `request` | pass | every opcode, keys of all four stores, one of them added, lengths around 1024 and 65536 | 159 thousand |
| `certinit` | pass | the daemon, 2 runs of the command line, 2 failures | 1.7 million |

Why the bounds are enough. ClientConn: two calls with distinct IDs and a third
that meets a wrapped counter are all the ways an ID can be shared; two closers
and the reader's own Close are all the ways a channel can be signalled twice.
`clientconn_promise` allocates no more IDs than there are, because a response to
an earlier holder of an ID is exactly what the promise cannot exclude after a
wrap. With an RPC client, only the reader closes the connection (`OneCloser`): that a
`Close` overlaps another is explored without one, and to the codec they are the same error. Two calls
are enough for one to wait for `reqMutex` while the other waits for the pipe. ConnHandle: with three slots the getter, the submitter and a worker can each
hold a request while one more is waiting. WorkerPool: more jobs and sentinels than
slots, so both senders meet a full channel. RandBuffer: more fillers than slots,
so fillers block; more signers than slots, so some generate. Server: two
connections in every pair of stages when Close begins, two overlapping calls of
Close; queues of one make SubmitJob block. ConnPool: a pool smaller than the number of
addresses evicts; two connections let a second Dial replace the first while its
reader and checker are still there. Group: two rounds overlap each other and a
Dial; the blacklist is put together from a certificate or a subnet and stops growing at
`MaxBlacklist`, and both cover a server of the group and one outside it. Groups this small are never cut off at `MaxTries`;
that case is left to the proofs (`DialAlwaysTriesRight`, `ShuffleArranges`). Request: lengths are taken from both sides of every comparison in `Bytes` and
`MarshalBinary`, paddings have up to two zeros at every place; no request looks at more than one key. CertInit: two failures and two runs of the command
line leave every combination of old, new, torn and missing files. Deadlock checking is off everywhere
because all of these systems may stop: calls return, pools are destroyed.

### Fairness

A goroutine that can go on does (weak fairness per goroutine); the timers of
`timeoutRequest` and of the liveness checker fire. Strong fairness is assumed for
acquiring a mutex (Go's mutexes hand over to a starving waiter) and for sending on a
full channel (senders queue in order), and nowhere else. Clients and servers at the
other end of a wire, callers of `Close` and `Destroy` are never assumed to do anything;
`BackpressureEnds` names a client that reads as its premise. The client's dialer has no timeout
(`client/client.go:61`) and `tls.DialWithDialer` (`remote.go:285`) sets no other deadline, so a dial is assumed to end, one way or the
other, only with a server that is not in `Silent`; `OperationsReturn` and `PingAllEnds` say that a dial of a silent server
is the one thing that can keep an operation or a `PingAll`. What follows the dial has the timeout and the write deadline of
`DoOperation`. In `Rpc`, nobody is assumed to
close the client. In `Server`, no connection is assumed to end by itself: a client that sends
requests and does not read holds its handle for as long as it likes, as the refinement of
`Handle` by `ConnHandle` shows, so only a destroyed handle ends. The idle
read deadline ends a handle on which nothing is read. `CloseReturns` of
Server is checked with workers in every pool. In CertInit a run that was started goes on, except while it
waits for the API (`initialize.go:62` has no timeout); that the API answers is a premise of `OneStartIsEnough`;
nobody is assumed to start the daemon again, so `OneStartIsEnough` speaks of a start
that is happening.

### What the violations show

* `server_pools`: `workerPool.Destroy` leaves the RSA and Limited pools running.
* `group_latency`: a test says that after ping checks the first remote must be the
  faster one (`remote_test.go:226`). `ewmaLatency.Update` and `Reset` have value receivers
  (`remote.go:330`), so what is measured is thrown away and the sort has nothing to go by.

### Observations

Seen while modelling, not made into runs:

* `conn.go:63-65` makes the calling goroutine responsible for removing its channel from the
  map. When the write fails (`conn.go:273`) it returns without doing so, and the timeout
  that would clean up was not started yet. The entry stays until the connection is closed.
* `server.go:945-947` says the TCP timeout applies to reading and writing. `SubmitResult`
  sets no write deadline (`server/conn.go:144`); a client that does not read holds the
  submitter forever, and through the blocker the getter.
* `KeepAlive` may put back a connection that was closed meanwhile; the "retry new connection" of
  `execute` (`keys.go:141`) can then be given the same closed connection.
* A server that accepts a connection and stays silent keeps a `Dial` forever (`client/client.go:61` gives the
  dialer no timeout): the operation does not return, `Group.Dial` does not get to the next remote, and in a `PingAll` the
  job slot is not given back and the list is not replaced.
* Two Dials at once, or a Close that removes by address, leave open connections that the pool
  does not know ("connPool keeps all active Conn", `remote.go:39`); their health checkers end them
  when they break. Eviction does not close.
* `--manual-activation` looks at CSR and key only: without the CSR file it replaces the key of a
  certificate that is in use (`gokeyless.go:224`).
* `Group.Dial` on an empty group would return with the read lock held; `NewGroup` makes none.
* After a failed write, a call that meets the orphaned ID reports a collision although no
  request with this ID is outstanding (`conn.go:49-52`).
* `server/internal/client/client.go:94-97` says a client may half-close and still expect
  responses, and lines 140-144 and 156-158 that it is then alive; `GetJob` closes the whole connection on end of file
  (`server/conn.go:103`). `DeadClientIsReaped` says nothing of such a client.
* `server.go:621-623` says everything is torn down when Accept fails; Serve
  returns, its connections go on and the listener stays in the map until Close.
* A server without limited workers (`SelectPool` at `server.go:650` gives out the Limited pool anyway)
  whose Limited channel is full blocks the getter in SubmitJob, and with it Close.
* `LookupIPs` asks the resolvers "sequentially unitl one resolver can answer" (`remote.go:190`). It asks
  all of them and strings the answers together, so a server that two of them know is in
  the group twice; Dial may then spend two of its tries on it.
* `google.New` accepts keys of KMS whose algorithm is RSASSA-PSS. `Sign` refuses the options of PSS
  (they are no `crypto.Hash`), and a request for PKCS #1 v1.5 is answered with a signature of PSS.
  `SignedAsAsked` leaves these keys out.
* `signOpFromSignerOpts` gives `OpEd25519Sign` for every key of Ed25519, whatever hash the options name
  (`keys.go:77-78`). Asked for a hash, the client sends the digest, and the server signs it as the message. `SignedAsAsked`
  leaves this out, too.
* "Decrypt without removing padding; that's the client's responsibility" (`server.go:469`) is true of keys from
  files. For a key of a PKCS #11 module the server passes no options (`server.go:484`), and `crypto11` takes that for PKCS #1
  v1.5 and removes the padding. A client that asks for the padding to be taken off looks for it again: it gets an error,
  or a random session key, for a good ciphertext, and `parsePKCS1v15` panics on a message of one byte (`client/keys.go:245`).
  `StripsPadding` is about keys from files.
* A reply that the server cannot encode leaves its RPC without a response (`net/rpc` drops the error
  of `WriteResponse`): the call waits until the client is closed. After a reply that does not fit the type the
  caller passed, `input` stops reading and wants `reqMutex`, which the next call may hold while
  it waits for a reader; again closing the client helps. `RpcReturns` names both.

## Proofs

All theorems hold for every value of the constants that satisfies the named
assumptions of the modules (any sets of processes, any IDSpace, Max
or Capacity). Each theorem about a specification rests on an inductive
invariant, which TLC checked before it was proved; those about operators rest on induction.

* `ClientConnProofs`. The invariant says who owns the slot of a channel: a registered
  call has an empty channel and no sender holding it; a sender that has extracted a
  channel is alone with it; once sent to, a call is unlisted. `SendsAreSafe` follows: a
  sender always finds the slot empty. A second part (`FreshIDs`, `Packets`) ties each
  packet on its way to the call that allocated its ID while `issued <= IDSpace`; the lemma `PacketActions`
  says which few actions touch the packets, and the rest of the steps rest on it.
* `ClientConnCalls`. `ResponsesMatch` is read off that invariant, and `ConnImplementsCalls` maps every
  step to a step of `Calls` or a stutter. With an RPC client the connection is still a `ClientConn`
  by construction (lemma `RpcImplementsConn`), so that `RpcSendsAreSafe` carries over. `CallsHaveOneOwner` needs the invariant that the holder of `reqMutex` is the one
  call between registering and returning, and that the call whose response is being read, if
  its body is not complete, is that one; `ErrorsAreLocal` that a reader ends its loop only for the two reasons
  it names.
* `ServerProofs`, the handle. `Ledger` states that requestsLeft accounts exactly for jobs in the pool,
  responses and the request the getter is about to submit; `Waiting` that the WaitGroup is
  raised only for the getter in Do with the blocker open; `Body` that one process at
  most is in the body of destroy. `Room` gives WorkersNeverBlock. `HandleImplementsPromise` maps every
  step to one of `Handle` (its safety part) or a stutter; that no more than Max jobs are in the pool comes from
  `Ledger`.
* `ServerProofs`, the server. `Owner` (mutex), `Books` (a served connection is in the map of its listener, or
  Close is at work on it), `Emptied` and `Drained` (what Close has been through
  stays empty) together give the three properties.
* `WorkerProofs`, the pool. Every job is in exactly one place (unsubmitted, channel, worker, done);
  no sentinel is ahead of a job; sentinels and quit workers together are as many as
  Destroy has sent.
* `WorkerProofs`, the nonce buffer. A nonce is in at most one of: a filler's hands, the buffer, a
  signer's hands, used; and the buffer holds no nonce twice.
* `ConnPoolProofs`. `Books` keeps pooled and used connections under their own address, which is
  `RightServer`; `Private` says that a connection between NewConn and Add is known to its dialer
  only. For `Monitored`, `Watch` says that, while a connection is not closed, its token is there, or
  its health checker has returned, only if somebody is about to close it. `WithinCapacity` needs
  finitely many addresses and a pool of at least one.
* `CertInitProofs`. For a run that nobody interferes with, `Written` says which files already hold
  its pair, and `Progress` that no usable pair is on disk while it writes; the latter needs that
  a generated pair is a new one. `Quiet` says that nobody writes while the operator has a CSR
  that fits. The assumption is that there are at least seven pairs, more than can be in use when
  one is generated.
* `RequestProofs`. The wire format comes first, for fields of any length. `BytesAgree`: the sum that
  `Bytes` makes with wrapping `uint16`s and the length of what `MarshalBinary` writes, found by
  separate loops, are the same, and `Bytes` panics if and only if it does not fit. `RoundTrip`:
  `UnmarshalBinary` accepts what `MarshalBinary` writes and gives back the same operation.
  `ParseFindsPadding`: the loop of `parsePKCS1v15`, which never branches on a byte, finds the first zero.
  The invariant of the exchange (`RequestInvariant`) then says that the packet under way is
  `NewPacket` of what was asked or answered, that the server has read what was asked, and that the
  answer is one the chosen worker may give. It is needed because the properties speak of the end of
  the exchange, and the result depends on what was asked through all the steps between.
  `HeaderAlwaysAgrees`, `RequestAlwaysArrives`, `LimitedNeverUsesKey`, `AlwaysSignedAsAsked` and
  `AlwaysStripsPadding` follow. The assumptions (`WireAssumption`, `RequestAssumption`): operations have
  fields of the types of the code, sizes are natural numbers, a decrypted block is a sequence of at
  least two bytes (`rsa.Decrypt` of the server gives one as long as the modulus, and refuses a modulus of less than
  eleven), and the values that stand for nil and for a panic are no others.
* `GroupProofs`. `NoRemoteLost` counts, and a count is not preserved by itself: a `PingAll` replaces the
  group's list by a copy that it took before, put together from results of separate goroutines.
  The invariant (`GroupInvariant`) says of the list and of every copy that a bijection takes it to
  the list of the lookup, of each result that it is of the remote at its place, and of the
  candidates of a `Dial` that they come from different places. `ShuffleArranges` says that the
  shuffle of `Dial` is an arrangement whatever random numbers it draws;
  `LookupLeavesOutBlacklist` that a lookup leaves out the addresses on the blacklist and no other.
  `GroupAssumption`: resolvers answer with lists of addresses, a `Dial` tries at least one remote,
  and a server is reachable or not. (`Silent` is for liveness and of no concern to the proofs.)

Where a proof needs induction over data (the fields of an operation, the bytes of a block, the
rounds of a loop), the library's theorems with an operator parameter cannot be used. `SetInduction`
derives induction for a *set* of natural numbers from the existence of a minimum, and `Recursion`
from it that a function given step by step exists, so that a recursive definition may be
unfolded. `IntervalInduction` and `EveryValue` are the forms that the proofs cite.

The type invariants of these modules, `ReadAheadBound`, `BusyCountsWorkers`, `NoJobTwice`,
`DestroyedIsDone` and `WithinCapacity` are proved and not repeated in a run.

Every invariant and every action property that a passing run checks is proved. Model-checked only: everything about
liveness (the provers do not handle fairness, so of `Calls`, `Pool` and `Handle` the safety part is
proved; `PingAllEnds`, `CloseReturns` and the like stay with TLC), and the two findings, which
are counterexamples.

## Not modelled

* RSA and ECDSA arithmetic (of RSA decryption only what it returns, in `Request`): pure computation on big numbers, copied from the standard library and
  out of TLC's reach. Of the two nonce buffers of the code, the type `RandBuffer`, which is not for concurrent use
  and which the server does not use (module `RandBuffer` is about `SyncRandBuffer`).
* The services behind Azure Key Vault, Google KMS and PKCS #11: external; `Keys` has what the signers
  make of them. Key URIs (RFC 7512 and the forms of the two services) are taken apart by string handling without
  state.
* Reading and parsing of key, certificate and CSR files and the walk over a directory: a sequence of
  `Add`s. Setters of the configuration store a value; their values are inputs.
* The lifetime of entries in the client's caches (`Get` of the pool does not look at it), and an
  `AddrSet` that is changed while somebody dials: its slices are not synchronized, so no outcome is defined.
* Several connections on one worker pool as one composed state space: `ConnHandle` and `WorkerPool`
  are checked against `Handle` and `Pool`, and `Server` is built on these.
* Metrics, tracing and logging (no effect on the behaviour), benchmark and test tools, flags and
  prompts of the command line.
