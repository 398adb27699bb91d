-------------------------------- MODULE MCRequest --------------------------------
(* Values for the constants of Request: every opcode, every kind of key, and   *)
(* lengths around those where the padding ends and where a packet is full.     *)
EXTENDS Request, TLC

CONSTANTS kr, ks, kp, ke, kd, ar, ae, ao, gr, gs, ge, gd, m1, m2

(* Keys of every store; those of KMS with each padding, and one that does not  *)
(* sign; an HSM key and one of an unknown type in the vault.                   *)
MCKind ==
    kr :> <<"file", "rsa">> @@ ks :> <<"pkcs11", "rsa">> @@ kp :> <<"file", "p256">>
        @@ ke :> <<"file", "ecdsa">> @@ kd :> <<"file", "ed25519">>
        @@ ar :> <<"azure", "RSA-HSM">> @@ ae :> <<"azure", "EC">> @@ ao :> <<"azure", "oct-HSM">>
        @@ gr :> <<"google", <<"PKCS1", "SHA256">>>> @@ gs :> <<"google", <<"PSS", "SHA512">>>>
        @@ ge :> <<"google", <<"EC", "SHA384">>>> @@ gd :> <<"google", <<"decrypt", "SHA256">>>>

(* Each dispatcher has a method that the other one does not have.              *)
MCConfigs ==
    [sealer : {FALSE}, customOp : {TRUE}, dispatcher : {{}}, limitedDispatcher : {{}}]
        \cup [sealer : {TRUE}, customOp : {FALSE}, dispatcher : {{m1}}, limitedDispatcher : {{m2}}]

MCOpts ==
    [pss : {FALSE}, hash : Hash \cup {"none", "SHA512_256"}, salt : {"auto"}]
        \cup [pss : {TRUE}, hash : {"SHA1", "SHA256", "SHA384", "SHA512"},
              salt : {"auto", "equalsHash", "size", "other"}]

MCOpcodes ==
    ({"RSASign", "ECDSASign"} \X Hash) \cup ({"RSAPSSSign"} \X {"SHA256", "SHA384", "SHA512"})
        \cup {Opcode(n) : n \in {"Ping", "Pong", "Response", "Error", "RSADecrypt",
                "Ed25519Sign", "Seal", "Unseal", "RPC", "Custom", "unknown"}}

(* Each opcode, with an SKI and without.                                       *)
ByOpcode ==
    {[Operation(op, Blob(32, <<"msg">>)) EXCEPT !["SKI"] = ski] :
        op \in MCOpcodes, ski \in {Zero["SKI"], Blob(20, kr), Blob(20, kd)}}

(* Each way a length can come out.                                             *)
ByLength ==
    {[Operation(Opcode("Ping"), IF n = 0 THEN Empty ELSE Blob(n, <<"msg">>)) EXCEPT
        !["Extra"] = IF x = 0 THEN Empty ELSE Blob(x, "extra"),
        !["ClientIP"] = ip, !["JaegerSpan"] = span] :
        n \in {0} \cup 1003 .. 1010 \cup 65525 .. 65529 \cup 65532 .. 65533,
        x \in {0, 65526},
        ip \in {Nil, Blob(4, "IPv4"), Blob(16, "IPv4"), Blob(16, "IPv6")},
        span \in {Nil, Empty}}

(* A call of each method, and one of none.                                     *)
ByMethod ==
    {Operation(Opcode("RPC"), Blob(32, call)) :
        call \in {<<"call", m1>>, <<"call", m2>>, <<"call", "none">>}}

MCOperations == ByOpcode \cup ByLength \cup ByMethod

(* Paddings with up to two zeros in them, right and wrong at the beginning.    *)
MCEMs ==
    {[i \in 1 .. n |-> CASE i = 1 -> a [] i = 2 -> b
                         [] OTHER -> IF i \in {z1, z2} THEN 0 ELSE 7] :
        n \in 11 .. 13, a \in {0, 1}, b \in {1, 2}, z1, z2 \in {0} \cup 3 .. 13}
================================================================================
