------------------------------ MODULE BytePipe ------------------------------
(***************************************************************************)
(* What a relay promises for one direction of traffic, said without        *)
(* sockets, goroutines or buffers: a writer appends bytes, and what the    *)
(* reader has received is at all times a prefix of what was written.  The  *)
(* pipe may stop at any byte (a tunnel can be torn down with data still in *)
(* it) but it never reorders, repeats, drops from the middle or invents.   *)
(***************************************************************************)
EXTENDS Integers, Sequences

VARIABLES
  sent,  \* everything the writer has put in
  got    \* everything the reader has taken out

pipe == <<sent, got>>

Init ==
  /\ sent = <<>>
  /\ got = <<>>

(* The writer puts in one more byte. *)
Put ==
  /\ \E b \in 0 .. 255 : sent' = Append(sent, b)
  /\ UNCHANGED got

(* The reader takes one or more of the bytes it has not had yet. *)
Take ==
  /\ \E k \in Len(got) + 1 .. Len(sent) : got' = SubSeq(sent, 1, k)
  /\ UNCHANGED sent

Next == Put \/ Take

Spec == Init /\ [][Next]_pipe

=============================================================================
