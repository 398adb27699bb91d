-------------------------------- MODULE MCGroup --------------------------------
(*******************************************************************************)
(* Small instances of Group for TLC.                                           *)
(*******************************************************************************)
EXTENDS Group

CONSTANTS ip1, ip2, ip3

(* Two resolvers that know the same server, so that it is in the group twice;  *)
(* none that answers, so that the system is asked.                             *)
MCDNS ==
    {[answers |-> <<<<ip1>>, <<ip1>>>>, system |-> <<>>],
     [answers |-> <<<<>>, <<>>>>, system |-> <<ip2, ip1>>]}

(* A certificate with an address and a name, and a subnet.                     *)
MCCerts == {[addresses |-> {ip3}, lookups |-> <<<<ip2>>>>, port |-> Port]}
MCNets == {Entry({ip1, ip3}, Port)}

(* For the question of the order, two servers and no blacklist.                *)
OneAnswer == {[answers |-> <<<<ip1, ip2>>>>, system |-> <<>>]}
================================================================================
