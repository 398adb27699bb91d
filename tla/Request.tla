--------------------------------- MODULE Request ---------------------------------
(*******************************************************************************)
(* One request from the client's call to its result: Sign, Decrypt and execute *)
(* (client/keys.go), Ping and DoOperation (conn/conn.go), the packet in both   *)
(* directions (module Wire), the choice of a worker, keylessWorker.Do and      *)
(* limitedWorker.Do (server/server.go), while keys are added to the key store. *)
(* Who waits for whom, and lost or late packets, are the subject of other      *)
(* modules; here every packet arrives.                                         *)
(*******************************************************************************)
EXTENDS Wire, Keys, FiniteSets

CONSTANTS
    Configs,        \* what a server may have been set up with
    Operations,     \* operations a client passes to DoOperation
    Opts,           \* signer options
    MsgSizes,       \* sizes of messages to sign and to ping with
    HandlerSizes,   \* sizes of results of sealer, RPC and custom operation
    MaxKeys,        \* the number of keys that are added (a bound)
    EMs             \* the blocks that RSA decryption may yield, with their
                    \* padding, as long as the modulus

(* The hashes that options may name; the last one stands for those that have   *)
(* no opcode.                                                                  *)
AnyHash == Hash \cup {"SHA512_256"}

ASSUME RequestAssumption ==
    /\ \A s \in Configs : s.sealer \in BOOLEAN /\ s.customOp \in BOOLEAN
    /\ \A o \in Operations : IsOperation(o)
    /\ \A opts \in Opts : opts.pss \in BOOLEAN /\ opts.hash \in AnyHash \cup {"none"}
    /\ MsgSizes \subseteq Nat /\ HandlerSizes \subseteq Nat
    /\ \A em \in EMs : em \in Seq(0 .. 255) /\ Len(em) >= 2

VARIABLES
    pc,         \* where the request is
    limited,    \* the connection is a limited one
    server,     \* its sealer and custom operation, if any, and the methods of
                \* its dispatcher and limitedDispatcher
    keys,       \* DefaultKeystore.skis
    asked,      \* the call: the function, its operation, key and options
    wire,       \* the packet under way
    req,        \* the operation the server has read
    resp,       \* the operation of the response
    result      \* what the call returns

vars == <<pc, limited, server, keys, asked, wire, req, resp, result>>
config == <<limited, server>>

HashSize ==
    [h \in AnyHash |->
        CASE h = "MD5SHA1" -> 36 [] h = "SHA1" -> 20 [] h = "SHA224" -> 28
          [] h \in {"SHA256", "SHA512_256"} -> 32 [] h = "SHA384" -> 48 [] h = "SHA512" -> 64]

(* Opcodes are pairs: what to do, and with which hash.                         *)
Opcode(name) == <<name, "none">>
OpError == Opcode("Error")

Operation(opcode, payload) ==
    [Zero EXCEPT !["Opcode"] = Blob(1, opcode), !["Payload"] = payload]

Init ==
    /\ pc = "idle"
    /\ limited \in BOOLEAN /\ server \in Configs
    /\ keys = {}
    /\ asked = Nil /\ wire = Nil /\ req = Nil /\ resp = Nil /\ result = Nil
--------------------------------------------------------------------------------
(* The key store                                                               *)

(* AddFromFile and AddFromURI, with Add; a key that does not load changes      *)
(* nothing.                                                                    *)
Add(k) ==
    /\ pc \in {"idle", "request", "do"}
    /\ Loads(k)
    /\ k \notin keys /\ Cardinality(keys) < MaxKeys
    /\ keys' = keys \cup {k}
    /\ UNCHANGED <<pc, config, asked, wire, req, resp, result>>

(* DefaultKeystore.Get: an error for an SKI of zeros, nil for an unknown one.  *)
Get(o) ==
    CASE o["SKI"].val = Nil -> "error"
      [] o["SKI"].val \in keys -> "found"
      [] OTHER -> "nil"
--------------------------------------------------------------------------------
(* The client's call                                                           *)
Send(call, o) ==
    /\ asked' = call
    /\ IF Bytes(o) = Panic
       THEN pc' = "panic" /\ wire' = Nil
       ELSE pc' = "request" /\ wire' = NewPacket(o)
    /\ UNCHANGED <<config, keys, req, resp, result>>

Refuse(call) ==
    /\ asked' = call
    /\ pc' = "done" /\ result' = <<"error", "refused">>
    /\ UNCHANGED <<config, keys, wire, req, resp>>

DoOperation ==
    /\ pc = "idle"
    /\ \E o \in Operations : Send([fn |-> "DoOperation", op |-> o], o)

Ping ==
    /\ pc = "idle"
    /\ \E n \in MsgSizes :
          LET o == Operation(Opcode("Ping"), IF n = 0 THEN Empty ELSE Blob(n, <<"msg">>))
          IN  Send([fn |-> "Ping", op |-> o], o)

(* Mutant of signOpFromSignerOpts: options of PSS are taken for plain ones.    *)
signOpIgnoresPSS(k, opts) ==
    CASE Public(k) = "rsa" /\ opts.hash \in Hash -> <<"RSASign", opts.hash>>
      [] Public(k) = "ecdsa" /\ opts.hash \in Hash -> <<"ECDSASign", opts.hash>>
      [] Public(k) = "ed25519" -> Opcode("Ed25519Sign")
      [] OTHER -> OpError

signOpFromSignerOpts(k, opts) ==
    CASE opts.pss ->
            IF /\ Public(k) = "rsa"
               /\ opts.salt \in {"equalsHash", "size"}
               /\ opts.hash \in {"SHA256", "SHA384", "SHA512"}
            THEN <<"RSAPSSSign", opts.hash>>
            ELSE OpError
      [] ~opts.pss /\ Public(k) = "rsa" /\ opts.hash \in Hash -> <<"RSASign", opts.hash>>
      [] ~opts.pss /\ Public(k) = "ecdsa" /\ opts.hash \in Hash -> <<"ECDSASign", opts.hash>>
      [] ~opts.pss /\ Public(k) = "ed25519" -> Opcode("Ed25519Sign")
      [] OTHER -> OpError

(* The operation that execute sends.                                           *)
execute(k, opcode, n) ==
    [Operation(opcode, IF n = 0 THEN Empty ELSE Blob(n, <<"msg">>)) EXCEPT
        !["SKI"] = Blob(20, k), !["ClientIP"] = Blob(16, "IPv4"), !["SNI"] = Blob(11, "sni")]

(* NewRemoteSigner: only for a key of RSA there is a Decrypt.                  *)
NewRemoteSigner(k) == IF Public(k) = "rsa" THEN "Decrypter" ELSE "PrivateKey"

Sign ==
    /\ pc = "idle"
    /\ \E k \in Key, opts \in Opts, n \in MsgSizes :
          LET op == signOpFromSignerOpts(k, opts)
              o == execute(k, op, n)
              call == [fn |-> "Sign", op |-> o, key |-> k, opts |-> opts, len |-> n]
          IN  IF (opts.hash # "none" /\ n # HashSize[opts.hash]) \/ op = OpError
              THEN Refuse(call)
              ELSE Send(call, o)

(* strip: no options, those of PKCS #1 v1.5 without and with the length of a   *)
(* session key, or options of another type.                                    *)
Decrypt ==
    /\ pc = "idle"
    /\ \E k \in {x \in Key : NewRemoteSigner(x) = "Decrypter"},
          strip \in {"no", "yes", "session", "invalid"} :
          LET o == execute(k, Opcode("RSADecrypt"), 256)
              call == [fn |-> "Decrypt", op |-> o, key |-> k, strip |-> strip]
          IN  IF strip = "invalid" THEN Refuse(call) ELSE Send(call, o)
--------------------------------------------------------------------------------
(* The server                                                                  *)

(* conn.GetJob: a packet that cannot be read ends the connection.              *)
GetJob ==
    /\ pc = "request"
    /\ IF ReadError(wire)
       THEN pc' = "done" /\ result' = <<"error", "closed">> /\ UNCHANGED req
       ELSE pc' = "do" /\ req' = ReadFrom(wire) /\ UNCHANGED result
    /\ wire' = Nil
    /\ UNCHANGED <<config, keys, asked, resp>>

Pong(payload) == Operation(Opcode("Pong"), payload)
Respond(payload) == Operation(Opcode("Response"), payload)
Error(code) == Operation(OpError, Blob(1, <<"code", code>>))

(* What a handler returns: any result, an error of the protocol or another.    *)
Handled ==
    {Respond(IF n = 0 THEN Empty ELSE Blob(n, <<"handled">>)) : n \in HandlerSizes}
        \cup {Error("ErrInternal"), Error("ErrExpired")}

(* key.Sign: it may always fail.                                               *)
SignWith(k, hash, pss) ==
    {Error("ErrCrypto")} \cup {Respond(Blob(64, sig)) : sig \in KeySign(k, hash, pss)}

(* A padding that ends at i: 0, 2, at least eight bytes that are not zero, 0.  *)
Padded(em, i) ==
    /\ em[1] = 0 /\ em[2] = 2 /\ em[i] = 0 /\ i > 10
    /\ \A j \in 3 .. i - 1 : em[j] # 0

(* Decrypt of crypto11, which gets no options: the token takes a padding of    *)
(* PKCS #1 v1.5 off, and a block that has none is an error.                    *)
Unpadded(em) ==
    {SubSeq(em, i + 1, Len(em)) : i \in {j \in 3 .. Len(em) : Padded(em, j)}}

(* What a Decrypter makes of a ciphertext, if it does not fail: the package    *)
(* rsa of the server leaves the padding on, a PKCS #11 module does not.        *)
Decrypted(k) ==
    IF Store(k) = "file" THEN EMs ELSE UNION {Unpadded(em) : em \in EMs}

(* A key that is no Decrypter cannot decrypt, whatever its type.               *)
RSADecrypt(k) ==
    {Error("ErrCrypto")} \cup
        {Respond(IF Len(m) = 0 THEN Empty ELSE Blob(Len(m), <<"plain", m>>)) :
            m \in IF IsDecrypter(k) THEN Decrypted(k) ELSE {}}

(* A private key in memory signs without an error.                             *)
Ed25519Sign(k) ==
    IF Kind[k] = <<"file", "ed25519">>
    THEN {Respond(Blob(64, sig)) : sig \in KeySign(k, "none", FALSE)}
    ELSE SignWith(k, "none", FALSE)

(* The other signatures: the opcode stands for signer options.                 *)
HashSign(op, k) == SignWith(k, op[2], op[1] = "RSAPSSSign")

(* The operations that look up a key.                                          *)
WithKey(o) ==
    LET op == o["Opcode"].val
        k == o["SKI"].val
    IN  CASE Get(o) = "error" -> {Error("ErrInternal")}
          [] Get(o) = "nil" -> {Error("ErrKeyNotFound")}
          [] OTHER -> CASE op[1] = "Ed25519Sign" -> Ed25519Sign(k)
                        [] op[1] = "RSADecrypt" -> RSADecrypt(k)
                        [] OTHER -> HashSign(op, k)

(* ServeRequest of a dispatcher: the payload names a method, or is no request. *)
ServeRequest(o, methods) ==
    LET call == o["Payload"].val
    IN  IF call \in {<<"call", m>> : m \in methods}
        THEN {Respond(IF n = 0 THEN Empty ELSE Blob(n, <<"returned", call[2]>>)) :
                n \in HandlerSizes}
        ELSE {Error("ErrInternal")}

(* keylessWorker.Do.                                                           *)
keylessDo(o) ==
    LET op == o["Opcode"].val IN
    CASE op[1] = "Ping" -> {Pong(o["Payload"])}
      [] op[1] \in {"Seal", "Unseal"} ->
            IF server.sealer THEN Handled ELSE {Error("ErrInternal")}
      [] op[1] = "RPC" -> ServeRequest(o, server.dispatcher)
      [] op[1] = "Custom" ->
            IF server.customOp THEN Handled ELSE {Error("ErrBadOpcode")}
      [] op[1] \in {"Ed25519Sign", "RSADecrypt", "RSASign", "RSAPSSSign", "ECDSASign"} ->
            WithKey(o)
      [] op[1] \in {"Pong", "Response", "Error"} -> {Error("ErrUnexpectedOpcode")}
      [] OTHER -> {Error("ErrBadOpcode")}

(* limitedWorker.Do.                                                           *)
limitedDo(o) ==
    LET op == o["Opcode"].val IN
    CASE op[1] = "Ping" -> {Pong(o["Payload"])}
      [] op[1] = "RPC" -> ServeRequest(o, server.limitedDispatcher)
      [] OTHER -> {Error("ErrBadOpcode")}

defaultPoolSelector(o) ==
    CASE o["Opcode"].val[1] \in {"RSADecrypt", "RSASign", "RSAPSSSign"} -> "RSA"
      [] o["Opcode"].val[1] = "ECDSASign" -> "ECDSA"
      [] OTHER -> "Other"

(* Mutant of SelectPool: the opcode is looked at first.                        *)
SelectPoolByOpcode(o) ==
    LET pool == defaultPoolSelector(o)
    IN  IF limited /\ pool = "Other" THEN "Limited" ELSE pool

(* poolSelector.SelectPool.                                                    *)
SelectPool(o) == IF limited THEN "Limited" ELSE defaultPoolSelector(o)

Do ==
    /\ pc = "do"
    /\ resp' \in IF SelectPool(req) = "Limited" THEN limitedDo(req) ELSE keylessDo(req)
    /\ pc' = "respond"
    /\ UNCHANGED <<config, keys, asked, wire, req, result>>

(* conn.SubmitResult.                                                          *)
SubmitResult ==
    /\ pc = "respond"
    /\ IF Bytes(resp) = Panic
       THEN pc' = "serverPanic" /\ UNCHANGED wire
       ELSE pc' = "response" /\ wire' = NewPacket(resp)
    /\ UNCHANGED <<config, keys, asked, req, resp, result>>
--------------------------------------------------------------------------------
(* The client's result                                                         *)

(* The loop of parsePKCS1v15, in constant time: the whole of em is gone        *)
(* through.  Turn n looks at the byte with index n + 1, counted from zero.     *)
Scan(em) ==
    LET s[n \in 0 .. Len(em) - 2] ==
            IF n = 0 THEN [lookingForIndex |-> 1, index |-> 0]
            ELSE [lookingForIndex |-> IF em[n + 2] = 0 THEN 0 ELSE s[n - 1].lookingForIndex,
                  index |-> IF s[n - 1].lookingForIndex = 1 /\ em[n + 2] = 0 THEN n + 1
                            ELSE s[n - 1].index]
    IN  s

(* Mutant of parsePKCS1v15: one byte of padding less will do.                  *)
parseShortPadding(em) ==
    LET s == Scan(em)[Len(em) - 2]
        valid == em[1] = 0 /\ em[2] = 2 /\ s.lookingForIndex = 0 /\ 2 + 7 <= s.index
    IN  [valid |-> valid, index |-> IF valid THEN s.index + 1 ELSE 0]

parsePKCS1v15(em) ==
    LET s == Scan(em)[Len(em) - 2]
        valid == em[1] = 0 /\ em[2] = 2 /\ s.lookingForIndex = 0 /\ 2 + 8 <= s.index
    IN  [valid |-> valid, index |-> IF valid THEN s.index + 1 ELSE 0]

SessionKeyLen == 1

(* Decrypter.Decrypt, after execute: ErrDecryption, the message, or a session  *)
(* key, which stays random when the padding is wrong; the random bytes are     *)
(* drawn first and may fail.  parsePKCS1v15 indexes the second byte: a message *)
(* of one byte makes it panic, unless the length has been checked before.      *)
Strip(em, strip) ==
    LET p == parsePKCS1v15(em)
        tooShort == Len(em) - (SessionKeyLen + 3 + 8) < 0
        isKey == p.valid /\ Len(em) - p.index = SessionKeyLen
    IN
    CASE strip = "no" -> {<<"plain", em>>}
      [] strip = "yes" ->
            CASE Len(em) < 2 -> {<<"panic">>}
              [] Len(em) >= 2 /\ p.valid -> {<<"plain", SubSeq(em, p.index + 1, Len(em))>>}
              [] OTHER -> {<<"error", "ErrDecryption">>}
      [] OTHER -> {<<"error", "rand">>} \cup
            {CASE tooShort -> <<"error", "ErrDecryption">>
               [] ~tooShort /\ isKey ->
                    <<"plain", SubSeq(em, Len(em) - SessionKeyLen + 1, Len(em))>>
               [] OTHER -> <<"random">>}

GetError(o) ==
    IF o["Payload"].len = 1 THEN <<"error", o["Payload"].val[2]>>
    ELSE <<"error", "no error">>

(* execute, after DoOperation.                                                 *)
Executed(o) ==
    CASE o["Opcode"].val = OpError -> GetError(o)
      [] o["Opcode"].val \notin {OpError, Opcode("Response")} -> <<"error", "opcode">>
      [] OTHER -> IF o["Payload"].len = 0 THEN <<"error", "empty">> ELSE o["Payload"].val

(* Conn.Ping, after DoOperation.                                               *)
Ponged(o) ==
    CASE o["Opcode"].val = Opcode("Pong") ->
            IF o["Payload"] = asked.op["Payload"] THEN <<"ok">> ELSE <<"error", "mismatch">>
      [] o["Opcode"].val = OpError -> GetError(o)
      [] OTHER -> <<"error", "opcode">>

(* What the call makes of the response.                                        *)
Results(o) ==
    CASE asked.fn = "DoOperation" -> {<<"op", o>>}
      [] asked.fn = "Ping" -> {Ponged(o)}
      [] asked.fn = "Sign" -> {Executed(o)}
      [] OTHER -> LET r == Executed(o)
                  IN  IF r[1] = "error" THEN {r} ELSE Strip(r[2], asked.strip)

(* Conn.DoRead, and the rest of the call that it wakes up.                     *)
Receive ==
    /\ pc = "response"
    /\ result' \in IF ReadError(wire) THEN {<<"error", "closed">>}
                   ELSE Results(ReadFrom(wire))
    /\ pc' = "done" /\ wire' = Nil
    /\ UNCHANGED <<config, keys, asked, req, resp>>

Next ==
    \/ \E k \in Key : Add(k)
    \/ DoOperation \/ Ping \/ Sign \/ Decrypt
    \/ GetJob \/ Do \/ SubmitResult \/ Receive

Spec == Init /\ [][Next]_vars
--------------------------------------------------------------------------------
(* The header announces exactly the bytes that follow: Bytes and MarshalBinary *)
(* compute the same length in two different ways, near the padding and near    *)
(* 2^16 included.  NewPacket panics for exactly the operations that do not fit *)
(* in a packet: no length is cut off and none is refused for nothing.          *)
HeaderAgrees ==
    /\ wire # Nil => wire.Length = Size(wire.items)
    /\ asked # Nil =>
          /\ pc = "panic" => Size(Marshal(asked.op)) > MaxUint16
          /\ pc = "request" => Size(Marshal(asked.op)) <= MaxUint16

(* The server reads the operation that the client wrote.                       *)
RequestArrives == pc = "do" => SameOperation(req, asked.op)

(* Sign returns an error, or a signature by the key, with the hash and the     *)
(* padding that were asked for, in the form that TLS wants: the tables of      *)
(* client, server and key services agree.  Two cases are left out, in which    *)
(* they do not: keys of KMS whose algorithm is RSASSA-PSS, which sign with it  *)
(* what was to be signed with PKCS #1 v1.5; and keys of Ed25519 that are asked *)
(* to sign a hash: the opcode has no place for it, and the digest is signed as *)
(* if it were the message.                                                     *)
SignedAsAsked ==
    pc = "done" /\ asked.fn = "Sign" =>
        LET k == asked.key
            leftOut == \/ Store(k) = "google" /\ Type(k)[1] = "PSS"
                       \/ Public(k) = "ed25519" /\ asked.opts.hash # "none"
        IN  \/ result[1] = "error"
            \/ leftOut
            \/ result = Signature(k, asked.opts.hash, asked.opts.pss, Form(k))

(* A limited connection "will only serve OpPing and OpRPC requests, and only   *)
(* RPCs registered with RegisterLimitedRPC": no key, sealer, custom operation  *)
(* or other method answers it.                                                 *)
LimitedUsesNoKey ==
    pc \in {"respond", "response", "done"} /\ limited /\ resp # Nil =>
        \/ resp["Opcode"].val = OpError
        \/ req["Opcode"].val[1] = "Ping"
        \/ /\ req["Opcode"].val[1] = "RPC"
           /\ req["Payload"].val \in {<<"call", m>> : m \in server.limitedDispatcher}

(* With a key that the server has in a file, Decrypt takes off exactly a       *)
(* padding of PKCS #1 v1.5; everything else is an error or a random session    *)
(* key.  (A session key also fails when no random bytes can be drawn.)  Keys   *)
(* of PKCS #11 modules are left out: their padding is off before the client    *)
(* looks for it.                                                               *)
StripsPadding ==
    pc = "done" /\ asked.fn = "Decrypt" /\ asked.strip # "no" /\ Store(asked.key) = "file"
            /\ resp # Nil /\ resp["Opcode"].val = Opcode("Response") =>
        LET em == resp["Payload"].val[2]
        IN  IF result[1] = "plain"
            THEN \E i \in 3 .. Len(em) :
                    Padded(em, i) /\ result[2] = SubSeq(em, i + 1, Len(em))
            ELSE \/ asked.strip = "session" /\ result = <<"error", "rand">>
                 \/ \A i \in 3 .. Len(em) : Padded(em, i) =>
                       asked.strip = "session" /\ Len(em) - i # SessionKeyLen
================================================================================
