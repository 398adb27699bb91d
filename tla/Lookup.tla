--------------------------------- MODULE Lookup ---------------------------------
(*******************************************************************************)
(* How a client finds the servers behind a name (client/remote.go) and which   *)
(* of them it leaves out (AddrSet, client/client.go).  The answers of the      *)
(* resolvers are inputs.                                                       *)
(*******************************************************************************)
EXTENDS Integers, Sequences, Functions

(* The answers of the resolvers, after a number of them, strung together; a    *)
(* resolver that cannot answer adds nothing.                                   *)
Gather(answers) ==
    LET ips[n \in 0 .. Len(answers)] == IF n = 0 THEN <<>> ELSE ips[n - 1] \o answers[n]
    IN  ips

(* LookupIPs: every resolver is asked.  The system's resolver is the last      *)
(* resort, and what it says may be nothing or an error.                        *)
LookupIPs(answers, system) ==
    LET ips == Gather(answers)[Len(answers)]
    IN  IF ips # <<>> THEN ips ELSE system

(* AddrSet: an address or a subnet, with a port.  An address is a subnet of    *)
(* one.                                                                        *)
Entry(ips, port) == [ips |-> ips, port |-> port]

Contains(as, ip, port) == \E e \in as : e.port = port /\ ip \in e.ips

(* PopulateBlacklistFromHostname, with what LookupIPs returns for the name.    *)
PopulateBlacklistFromHostname(as, ips, port) ==
    as \cup {Entry({ip}, port) : ip \in Range(ips)}

(* PopulateBlacklistFromCert: the addresses in it and those of its names.      *)
PopulateBlacklistFromCert(as, addresses, lookups, port) ==
    PopulateBlacklistFromHostname(
        as \cup {Entry({ip}, port) : ip \in addresses}, Gather(lookups)[Len(lookups)], port)

(* The servers that the loop of LookupServerWithName has collected after a     *)
(* number of addresses: those on the blacklist are left out.                   *)
Usable(as, ips, port) ==
    LET servers[n \in 0 .. Len(ips)] ==
            IF n = 0 THEN <<>>
            ELSE IF Contains(as, ips[n], port) THEN servers[n - 1]
            ELSE Append(servers[n - 1], ips[n])
    IN  servers

(* LookupServerWithName: the servers for NewGroup.                             *)
LookupServerWithName(as, ips, port) == Usable(as, ips, port)[Len(ips)]
================================================================================
