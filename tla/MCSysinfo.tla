----------------------------- MODULE MCSysinfo ------------------------------
(***************************************************************************)
(* Sysinfo for TLC: the line of all CPUs and one CPU, one device, counters *)
(* of two bits that a round moves by one at most, so that a counter that   *)
(* falls wraps; the rounds asked for are 0 (no limit) to 3.                *)
(***************************************************************************)
EXTENDS Sysinfo

MCCpus == {-1, 0}

=============================================================================
