----------------------------- MODULE FrameSlots -----------------------------
(***************************************************************************)
(* The slots in which ARP and neighbour discovery keep the frames that     *)
(* wait for a hardware address: frames_queued (modules/pico_arp.c) and     *)
(* frames_queued_v6 (modules/pico_ipv6_nd.c).                              *)
(***************************************************************************)
EXTENDS Integers, Sequences

(* The loop of both triggers over the n slots, of which the empty ones     *)
(* hold none: pico_datalink_send puts each frame at the end of the out     *)
(* queue.  Requeue(out, slots, n, none)[i] is that queue after i slots.    *)
Requeue(out, slots, n, none) ==
    LET queue[i \in 0..n] ==
            IF i = 0 THEN out
            ELSE IF slots[i] = none THEN queue[i - 1]
            ELSE Append(queue[i - 1], slots[i])
    IN  queue
=============================================================================
