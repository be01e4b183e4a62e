---------------------------- MODULE MCSocksChain ----------------------------
(* Instances of SocksChain for TLC.                                        *)
EXTENDS SocksChain

(* A name, an IPv4 and an IPv6 address; 7 and 8 stand for letters. *)
MCAsks ==
  {[atyp |-> 3, host |-> <<7, 8>>, port |-> 443],
   [atyp |-> 1, host |-> <<10, 0, 3, 1>>, port |-> 80],
   [atyp |-> 4, host |-> [i \in 1 .. 16 |-> i], port |-> 65535]}

MCRawSays == <<5, 201>>
MCTargetSays == <<5, 0>>

=============================================================================
