----------------------------- MODULE MCAnyClient ----------------------------
(* An instance of AnyClient for TLC.                                       *)
EXTENDS AnyClient

(* One and three methods offered; SOCKS4. *)
MCGreetings == {<<5, 1, 0>>, <<5, 3, 0, 1, 2>>, <<4, 1, 0, 80>>}

(* CONNECT to an IPv4 address, to a name and to a type that does not       *)
(* exist, and BIND.  IPv6, whose 22 bytes can be cut up in too many ways,  *)
(* is checked in MCSocksChain.                                             *)
MCRequests ==
  LET ask(c, t, h) == [cmd |-> c, atyp |-> t, host |-> h, port |-> 443]
  IN  {ask(1, 1, <<10, 0, 0, 1>>), ask(1, 3, <<7>>),
       ask(1, 9, <<7>>), ask(2, 1, <<10, 0, 0, 1>>)}

(* A URL with a port, one without, an IPv6 address without, one that does  *)
(* not parse; and 0, where there is none.                                  *)
MCUrl ==
  LET url(host, p, colons, parses) ==
        [host |-> host, port |-> p, colons |-> colons, parses |-> parses]
  IN  [u \in 0 .. 4 |->
         CASE u = 0 -> url("", NoPort, FALSE, TRUE)
           [] u = 1 -> url("h", 8080, FALSE, TRUE)
           [] u = 2 -> url("h", NoPort, FALSE, TRUE)
           [] u = 3 -> url("v6", NoPort, TRUE, TRUE)
           [] OTHER -> url("", NoPort, FALSE, FALSE)]

(* CONNECT and GET of each URL with one more line, an empty first line, a  *)
(* head longer than the array and a first line longer than it.             *)
MCHeads ==
  {<<m, u, 10, 13>> : m \in {67, 71}, u \in 1 .. 4}
    \cup {<<67, 0, 10>>, <<10, 13>>, <<67, 1, 10, 13, 14, 15>>, <<71, 1, 13, 14, 15, 10>>}

MCTargetSays == <<5, 201>>
MCSays == <<101, 102, 103>>

=============================================================================
