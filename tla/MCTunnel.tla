------------------------------ MODULE MCTunnel ------------------------------
(* Instances of Tunnel for TLC: client c, server s, positions as bytes. *)
EXTENDS Tunnel

CONSTANTS UpLen, DownLen  \* how many bytes each peer has to send

MCStream == [e \in Ends |-> [i \in 1 .. (IF e = P1 THEN UpLen ELSE DownLen) |-> i]]

=============================================================================
