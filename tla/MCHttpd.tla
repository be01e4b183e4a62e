------------------------------ MODULE MCHttpd -------------------------------
(* A short save and a long one of the same page. *)
EXTENDS Httpd

CONSTANTS short, long, page, a1, b1, b2

Bodies == [p \in {short, long} |-> IF p = short THEN <<a1>> ELSE <<b1, b2>>]
OldPage == <<page, page>>

=============================================================================
