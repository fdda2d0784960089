------------------------------- MODULE MCDhcp -------------------------------
(* Dhcp for TLC.  Two transactions: two hosts that negotiate at the same   *)
(* time, or one that comes back after an abort.                            *)
EXTENDS Dhcp
=============================================================================
