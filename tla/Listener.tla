------------------------------ MODULE Listener ------------------------------
(***************************************************************************)
(* The life of TCP sockets around a listening socket: stack/pico_socket.c  *)
(* (pico_socket_add, pico_socket_accept, pico_socket_del and the garbage   *)
(* collection), the listener's part of modules/pico_tcp.c (tcp_syn,        *)
(* tcp_first_ack, tcp_closeconn) and modules/pico_socket_tcp.c.            *)
(*                                                                         *)
(* A socket is deleted in two steps.  pico_socket_del takes it out of the  *)
(* tree of its port and starts a timer of 10 ms; the timer's callback      *)
(* cancels the socket's own timers and frees it.  In between its linger    *)
(* timer may still expire, and deletes it a second time.  The tree is      *)
(* searched by endpoint: that second deletion takes a newer socket of the  *)
(* same peer out of the tree, which nobody then finds (LOST).  What        *)
(* happens once a socket deleted twice has been freed is undefined.        *)
(***************************************************************************)
EXTENDS Integers, FiniteSets

CONSTANTS
    Socks,      \* the memory objects that sockets can be
    Clients,    \* the remote endpoints (address and port)
    Backlog,    \* max_backlog
    Width,      \* 2^16: number_of_pending_conn is a uint16_t
    MaxLate     \* bound: sockets deleted twice

ASSUME ListenerAssumption ==
    /\ IsFiniteSet(Socks)
    /\ Backlog \in Nat \ {0}
    /\ Width \in Nat /\ Backlog < Width
    /\ MaxLate \in Nat

VARIABLES
    listener,   \* "LISTEN", "deleted" or "free"
    pending,    \* its number_of_pending_conn
    state,      \* state[i]: TCP state of socket i while it is in the tree; "LOST" or
                \* "unlisted" (not in the tree, but in use), "deleted" or "free"
    remote,     \* remote[i]: the endpoint it is connected to
    parent,     \* parent[i]: does its parent pointer lead to the listener
    finTmr,     \* finTmr[i]: is its linger timer armed
    gc,         \* gc[i]: garbage collections of it that are due
    late        \* late[i]: "once" (at most deleted so); "twice"; "freed" since (history)

vars == <<listener, pending, state, remote, parent, finTmr, gc, late>>

Connected == {"SYN_RECV", "ESTABLISHED", "CLOSE_WAIT", "FIN_SENT"}
InTree(i) == state[i] \in Connected
SockPort == listener = "LISTEN" \/ \E i \in Socks : InTree(i)

InUse(i) == state[i] \in Connected \union {"LOST", "unlisted"}

(* The children no accept has returned yet, and those of them it can find. *)
Counted == {i \in Socks : InUse(i) /\ parent[i]}
Waiting == {i \in Socks : InTree(i) /\ parent[i]}

Twice == {i \in Socks : late[i] # "once"}
Defined == \A i \in Socks : late[i] # "freed"

Init ==
    /\ listener = "LISTEN"
    /\ pending = 0
    /\ state = [i \in Socks |-> "free"]
    /\ remote \in [Socks -> Clients]
    /\ parent = [i \in Socks |-> FALSE]
    /\ finTmr = [i \in Socks |-> FALSE]
    /\ gc = [i \in Socks |-> 0]
    /\ late = [i \in Socks |-> "once"]

-----------------------------------------------------------------------------
(* Deletion                                                                *)

(* pico_socket_del on socket i: nothing if the port has no socket left,    *)
(* else the tree loses the socket of that endpoint, be it i or another.    *)
pico_socket_del(i) ==
    IF SockPort
    THEN /\ state' = [j \in Socks |-> IF j = i THEN "deleted"
                                      ELSE IF InTree(j) /\ remote[j] = remote[i] THEN "LOST"
                                      ELSE state[j]]
         /\ pending' = IF parent[i] THEN (pending - 1) % Width ELSE pending
         /\ gc' = [gc EXCEPT ![i] = @ + 1]
    ELSE UNCHANGED <<state, pending, gc>>

(* Mutant of Reset: tcp_retrans_timeout does not look at the state either. *)
ResetAgain(i) ==
    /\ InTree(i) \/ state[i] \in {"LOST", "deleted"}
    /\ pico_socket_del(i)
    /\ UNCHANGED <<listener, remote, parent, finTmr, late>>

(* The last acknowledgment, a reset, or half a minute in SYN_RECV, if the  *)
(* socket can be found; the retransmission timeout in any case.            *)
Reset(i) ==
    /\ InTree(i) \/ state[i] = "LOST"
    /\ pico_socket_del(i)
    /\ UNCHANGED <<listener, remote, parent, finTmr, late>>

(* tcp_deltcb does not look at the socket's state.                         *)
LingerExpires(i) ==
    /\ finTmr[i] /\ (InTree(i) \/ state[i] = "LOST")
    /\ finTmr' = [finTmr EXCEPT ![i] = FALSE]
    /\ pico_socket_del(i)
    /\ UNCHANGED <<listener, remote, parent, late>>

(* The same within the 10 ms before the collection.                        *)
LingerExpiresLate(i) ==
    /\ finTmr[i] /\ state[i] = "deleted"
    /\ Cardinality(Twice) < MaxLate
    /\ finTmr' = [finTmr EXCEPT ![i] = FALSE]
    /\ pico_socket_del(i)
    /\ late' = IF SockPort /\ late[i] = "once" THEN [late EXCEPT ![i] = "twice"] ELSE late
    /\ UNCHANGED <<listener, remote, parent>>

(* Mutant of socket_garbage_collect: the socket's timers are left armed.   *)
TimersLeftArmed(i) ==
    /\ gc[i] > 0
    /\ gc' = [gc EXCEPT ![i] = @ - 1]
    /\ state' = [state EXCEPT ![i] = "free"]
    /\ UNCHANGED <<listener, pending, remote, parent, finTmr, late>>

(* The callback of the 10 ms timer: cancels the socket's timers, frees it. *)
socket_garbage_collect(i) ==
    /\ gc[i] > 0
    /\ gc' = [gc EXCEPT ![i] = @ - 1]
    /\ state' = [state EXCEPT ![i] = "free"]
    /\ finTmr' = [finTmr EXCEPT ![i] = FALSE]
    /\ late' = IF late[i] = "twice" THEN [late EXCEPT ![i] = "freed"] ELSE late
    /\ UNCHANGED <<listener, pending, remote, parent>>

-----------------------------------------------------------------------------
(* Connections                                                             *)

(* What tcp_syn and its mutant do with the SYN.  pico_socket_add fails if  *)
(* the tree has no memory for a node; nobody looks at the result, and the  *)
(* child is counted all the same.                                          *)
NewChild(i, c) ==
    /\ state[i] = "free"
    /\ \E st \in {"SYN_RECV", "unlisted"} : state' = [state EXCEPT ![i] = st]
    /\ remote' = [remote EXCEPT ![i] = c]
    /\ parent' = [parent EXCEPT ![i] = TRUE]
    /\ finTmr' = [finTmr EXCEPT ![i] = FALSE]
    /\ pending' = pending + 1
    /\ UNCHANGED <<listener, gc, late>>

(* Mutant of tcp_syn: one too many.                                        *)
BacklogOffByOne(i, c) ==
    /\ listener = "LISTEN"
    /\ ~ \E j \in Socks : InTree(j) /\ remote[j] = c
    /\ pending <= Backlog
    /\ NewChild(i, c)

(* tcp_syn: no connected socket has the endpoint, so the listener gets the *)
(* SYN; a full backlog ignores it.                                         *)
tcp_syn(i, c) ==
    /\ listener = "LISTEN"
    /\ ~ \E j \in Socks : InTree(j) /\ remote[j] = c
    /\ pending < Backlog
    /\ NewChild(i, c)

tcp_first_ack(i) ==
    /\ state[i] = "SYN_RECV"
    /\ state' = [state EXCEPT ![i] = "ESTABLISHED"]
    /\ UNCHANGED <<listener, pending, remote, parent, finTmr, gc, late>>

(* tcp_closeconn: a FIN in SYN_RECV is answered with a FIN at once.        *)
tcp_closeconn(i) ==
    /\ state[i] = "SYN_RECV"
    /\ state' = [state EXCEPT ![i] = "FIN_SENT"]
    /\ finTmr' = [finTmr EXCEPT ![i] = TRUE]
    /\ UNCHANGED <<listener, pending, remote, parent, gc, late>>

tcp_closewait(i) ==
    /\ state[i] = "ESTABLISHED"
    /\ state' = [state EXCEPT ![i] = "CLOSE_WAIT"]
    /\ UNCHANGED <<listener, pending, remote, parent, finTmr, gc, late>>

(* Mutant of pico_socket_accept: the parent is kept, so that the deletion  *)
(* of the socket counts down again.                                        *)
AcceptKeepsParent(i) ==
    /\ listener = "LISTEN"
    /\ parent[i] /\ state[i] = "ESTABLISHED"
    /\ pending' = (pending - 1) % Width
    /\ UNCHANGED <<listener, state, remote, parent, finTmr, gc, late>>

(* pico_socket_accept returns a socket of its own that is ESTABLISHED: one *)
(* the peer has closed meanwhile is never returned.                        *)
pico_socket_accept(i) ==
    /\ listener = "LISTEN"
    /\ parent[i] /\ state[i] = "ESTABLISHED"
    /\ parent' = [parent EXCEPT ![i] = FALSE]
    /\ pending' = (pending - 1) % Width
    /\ UNCHANGED <<listener, state, remote, finTmr, gc, late>>

(* The application closes a socket that accept gave it, in the tree or     *)
(* not.                                                                    *)
pico_socket_close(i) ==
    /\ ~parent[i] /\ state[i] \in {"ESTABLISHED", "CLOSE_WAIT", "LOST"}
    /\ state' = [state EXCEPT ![i] = IF @ = "LOST" THEN @ ELSE "FIN_SENT"]
    /\ finTmr' = [finTmr EXCEPT ![i] = TRUE]
    /\ UNCHANGED <<listener, pending, remote, parent, gc, late>>

(* pico_tcp_check_listen_close deletes the listener; nobody tells its      *)
(* children.                                                               *)
CloseListener ==
    /\ listener = "LISTEN"
    /\ listener' = "deleted"
    /\ UNCHANGED <<pending, state, remote, parent, finTmr, gc, late>>

FreeListener ==
    /\ listener = "deleted"
    /\ listener' = "free"
    /\ UNCHANGED <<pending, state, remote, parent, finTmr, gc, late>>

Next ==
    \/ \E i \in Socks :
          \/ Reset(i) \/ LingerExpires(i) \/ LingerExpiresLate(i) \/ socket_garbage_collect(i)
          \/ \E c \in Clients : tcp_syn(i, c)
          \/ tcp_first_ack(i) \/ tcp_closeconn(i) \/ tcp_closewait(i)
          \/ pico_socket_accept(i) \/ pico_socket_close(i)
    \/ CloseListener
    \/ FreeListener

Spec == Init /\ [][Next]_vars

-----------------------------------------------------------------------------
TypeOK ==
    /\ listener \in {"LISTEN", "deleted", "free"}
    /\ pending \in 0..(Width - 1)
    /\ state \in [Socks -> Connected \union {"LOST", "unlisted", "deleted", "free"}]
    /\ remote \in [Socks -> Clients]
    /\ parent \in [Socks -> BOOLEAN]
    /\ finTmr \in [Socks -> BOOLEAN]
    /\ gc \in [Socks -> Nat]
    /\ late \in [Socks -> {"once", "twice", "freed"}]

(* number_of_pending_conn counts the children that no accept has returned, *)
(* however the others ended, less one for each child that its linger timer *)
(* has deleted a second time: with no other child waiting the uint16_t     *)
(* wraps around, and tcp_syn ignores every SYN from then on.               *)
PendingCounted ==
    listener = "LISTEN" /\ Defined =>
        pending = (Cardinality(Counted) - Cardinality({i \in Twice : parent[i]})) % Width

(* "backlog: maximum connection requests": no more children than that wait *)
(* for an accept.                                                          *)
BacklogKept == listener = "LISTEN" /\ Twice = {} => Cardinality(Waiting) <= Backlog

(* A deletion takes the deleted socket out of the tree and no other one,   *)
(* although the tree is searched by endpoint and an endpoint may be back   *)
(* before its old socket is collected: only a second deletion does.        *)
OnlyItself == Twice = {} => \A i \in Socks : state[i] # "LOST"

(* No timer outlives the memory it points to.                              *)
NoTimerAfterFree == \A i \in Socks : finTmr[i] => state[i] # "free"
=============================================================================
