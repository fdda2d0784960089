# TLA+ models of picoTCP

picoTCP is a TCP/IP stack for embedded systems, written in C. It runs in one
thread: the application calls `pico_stack_tick()` again and again, and the stack
calls the application back. Nothing is preempted, but much is interleaved:
frames arrive in any order, timers fire between any two of them, and callbacks
call back into the stack in the middle of a handler. The models in this
directory follow that control flow; the data (addresses, payloads, options) is
abstracted to what the properties tell apart.

`PROJECT.json` holds the components, the runs, the map from definitions to
source lines, the mutants, the findings, the hazards and the theorems.

## Inventory

| Component | State | Operations | What makes it correct |
|---|---|---|---|
| Timer service (`stack/pico_stack.c`, `include/heap.h`) | heap of references, block sizes, `tmr_id`, `pico_tick` | add, add hashed, cancel, cancel hashed, `pico_check_timers` | timers fire once, in order, none is overdue, none leaks, the block is never overrun |
| TCP connection (`modules/pico_tcp.c`) | control block, input, hold and output queue, congestion window, retransmission and linger timer | input handlers per state, output, retransmission, open, write, read, shutdown | the stream arrives unchanged; acknowledged means received; every attempt to open, send or close ends |
| Sockets (`stack/pico_socket.c`, `modules/pico_socket_tcp.c`) | tree of ports and sockets, parent pointers, backlog counter, deletions that are due | listen, accept, close, delete, collect | the counter is exact, a deletion takes no other socket out of the tree, no timer points at a freed socket |
| DHCP client and server (`modules/pico_dhcp_*.c`) | cookie with state, retry count, socket, seven kinds of timer; negotiations, pool, ARP entries | one handler per event and state; request and reply | addresses are not shared, the device follows the lease, negotiations and renewals end |
| ARP (`modules/pico_arp.c`, `modules/pico_ethernet.c`) | cache, one expiry timer per entry, slots of postponed frames, budget of answers | received packet, lookup, send, expire, trigger | entries, timers and waiting frames agree; no wakeup is lost |
| IPv4 link-local addresses, hotplug (`pico_slaacv4.c`, `pico_hotplug_detection.c`) | cookie with state and counters, a timer | claim, conflict, carrier up and down, unregister | a claim ends, with an address or without |
| IPv6 neighbour discovery (`pico_ipv6_nd.c`) | neighbour cache, queue of frames, default router | advertisement, solicitation, timer callback, postpone, trigger | a waiting frame waits for something; resolution ends |
| Links and routes (`pico_ipv4.c`, `pico_ipv6.c`) | links, routes, broadcast and multicast defaults, DAD timers, lifetimes | add, delete, router advertisement, DAD | no pointer to a deleted link; DAD ends |
| Multicast (`pico_igmp.c`, `pico_mcast.c`, `pico_socket_multicast.c`, `pico_mld.c`) | filters per socket and link, host automaton, report timers | join, leave, block, unblock, close, query, report, timeout | the link's membership and filter follow the sockets'; who owes a report has a timer |
| Reassembly (`pico_fragments.c`) | one tree of fragments per IP version, an identifier, a timer | fragment in, timeout | a datagram is built from the fragments of one datagram; an incomplete one is dropped |
| NAT (`pico_nat.c`), ports (`pico_socket.c`) | two trees over the same tuples, flags and age, cleanup timer; ports of sockets | translate in and out, forward, clean up, bind, connect | replies find their host, ports are not shared, tuples end |
| PPP (`pico_dev_ppp.c`) | modem, LCP, authentication and IPCP automata, restart timer and counters | events of four tables, tick, connect, disconnect | the link opens after an acknowledgment in each direction; the restart timer runs in the states that need it; disconnecting ends |
| TFTP, DNS, SNTP, mDNS (`pico_tftp.c`, `pico_dns_client.c`, `pico_sntp_client.c`, `pico_mdns.c`) | sessions, queries, cookies, caches, timers | requests, answers, conflicts, retries, timeouts | each request is answered once and ends, no timer points at what was freed |
| Trees (`stack/pico_tree.c`) | nodes with parent, children and colour, one shared `LEAF` | insert, delete, find, loops | a search tree of what was inserted, loops see every element |
| Packet filter, UDP, ICMPv4, DNS-SD, Ethernet, frames, queues, devices, 6LoWPAN, AODV, OLSR, memory manager, POSIX glue | buffers, lists, tables | enqueue, dequeue, encode, decode | data structure invariants |

How they interact. All time comes from the timer service: every component above
registers callbacks with an argument that points at its own state, so a timer
that outlives its owner is a use after free. Frames travel through one queue per
protocol (`pico_protocol.c`), so a segment that a handler sends leaves after
the handler has returned. The sockets layer finds the TCP socket for a segment
and deletes sockets in two steps, because a handler may delete the socket that
is being processed. The DHCP server keeps no table of leases; it recognises
hosts in the ARP table. SLAAC is called by ARP when a conflict is seen, and by
hotplug detection when the carrier changes. SNTP hands its cookie to the DNS
client. NAT and local sockets draw ports from the same space. All tables are
`pico_tree`s, and their loops delete while they run.

What is hard: callbacks that arm and cancel timers during a pass; lost,
duplicated and reordered segments against bounded queues and sequence numbers
that wrap; timers that race with late answers; the interval between deleting
and freeing a socket; negotiations in which both sides have forgotten different
things; timers found by an identifier that is used again; pointers to links,
cookies and sessions that somebody else deletes. The list `hazards` in
`PROJECT.json` has each of these at its line.

## Modules

### Timers

`TimerBase` has the constants and types, `Timers` the abstract service: a set of
armed timers and a pass that fires every timer that is due, earliest first.
`TimersHeap` is the implementation: the heap as a sequence (`heap_insert` and
`heap_peek`, their loops as the recursive functions `Climb` and `Sink`), the blocks it is stored
in (`size`, `top`), tombstones left by `pico_timer_cancel`, the allocated
`struct pico_timer`s (`alloc`), and `pico_check_timers` in small steps
(`CheckBegin`, `Fire`, `CallbackReturn`, `DropTombstone`, `CheckEnd`) between
which a callback may add and cancel. Allocation may fail (`CreateFails`,
`InsertFails`). `Implements` states that the heap implements the service under
the mapping "a live element that is not being fired is an armed timer".

A callback does not cancel its own timer in the model (the code would free the
struct twice; no component does it except hotplug detection's deregistration).

### TCP

`TcpEndpoint` has the control block as a record and each handler of
`pico_tcp.c` as an operator from block and segment to block, with the source's
names; what a handler sends is collected in `tx`. `TcpPair` composes two
endpoints, a listener and a network. The actions are the entry points: the application's
calls, a delivered segment, `pico_tcp_output` from the sockets' loop, the three
timers, the sanity check of half-open sockets and the collection. A fault is a lost,
duplicated or overtaken segment, or a timer that expires while segments are on their
way.

Abstractions: data is counted in units of one segment (so `tcp_split_segment`,
Nagle and partial acknowledgments of a segment do not occur); options other than SACK,
window scaling, checksums and keepalive are left out; time is abstracted to "armed", so
round-trip estimation is left out. The application accepts in the callback that
announces the connection. A SYN that meets a child which is deleted and not yet
collected waits in the network for the collection.

Failing allocations. In a step the stack may find no memory for a frame or for a
timer (`Scarce`, `lack`). Three functions do not handle that, and `missed`
records which of them a socket has met:

- `pico_tcp_initconn` (1219-1220, 1248-1252), called again by `initconn_retry`,
  which ignores its result (1205): the socket stays in SYN_SENT without a
  timer and the application hears nothing (`"syn"`). The first call, from
  `pico_socket_connect`, reports the failure to the application and is not modelled;
- `tcp_send_fin` (1565-1567): no FIN and no linger timer, but `checkLocalClosing` and
  `checkRemoteClosing` (3199-3202, 3214-3217) enter FIN_WAIT1 or LAST_ACK,
  where nothing of the socket's own will delete it (`"fin"`);
- `add_retransmission_timer` (1985-1987, "TODO do something about this?"): data is in flight without a
  timer until something asks for one again (`"rto"`).

`ConnectEnds`, `ClosingEnds` and `Delivered` hold but for these, and say so. A
linger timer that cannot be started makes the code delete the socket at once,
which in the model is the timer expiring in the next step. The frame of any other segment
(acknowledgment, reset, SYNACK, data) is always found in the model: its absence resembles a segment
lost, which the network does, but for the bookkeeping that the code then skips
(`rcv_ackd`, the pending SACK blocks, `in_flight`, and `snd_nxt` for a SYNACK).
The safety runs and the five theorems about streams take memory for granted (`Scarce` is empty);
`ClosingIsTimed` and `ConnectIsTimed` do not.

### Sockets around a listener

`Listener` follows several sockets of one port through `tcp_syn`,
`tcp_first_ack`, accept, reset, close and the two-step deletion
(`pico_socket_del`, then `socket_garbage_collect` 10 ms later). Its TCP
states are those the socket layer tells apart. The linger timer may expire
between the two steps (`LingerExpiresLate`): `tcp_deltcb` then deletes the
socket a second time. The second deletion lowers the listener's counter again, and,
since `pico_tree_delete` compares endpoints (`pico_socket.c:512`), takes a socket out of the tree
that the same peer has opened meanwhile (`LOST`: in use, with its timers, but no
segment finds it). `late` is the history of second deletions. `PendingCounted` says
what the counter is worth with them: one too few for each, and if no other child waits the `uint16_t` wraps
and no SYN is accepted again. `OnlyItself` says that only a second deletion takes
another socket out, and `BacklogKept` holds until there is one. Once a
socket deleted twice has been freed the behaviour is undefined (`Defined`). A child for which the tree
has no memory (`pico_socket_add`, whose result `tcp_syn` ignores) is counted and
never found again (`unlisted`).

### DHCP

`Dhcp` has the client of several hosts and one server. The cookie is a
record, every handler an operator, and `pico_dhcp_state_machine` the dispatch
by state and event. The timers are the set of types that are started: a
stopped `struct dhcp_client_timer` only frees itself. Faults are lost and duplicated
messages, sockets that cannot be opened, refusals by another server, and the
server leaving the network. `over` is history: the lease has run out since the last ACK.

Abstractions: options are reduced to the address and the presence of a server
identifier; memory for timers is always found; hosts draw different transaction identifiers; no
other host has an address of the pool; there is one picoTCP server. Messages are a set, so they may
be reordered freely. Also left out: the
server finds a host in the ARP cache it shares with the rest of the stack
(`pico_arp.c:145-155`), where here only the server writes; a timer that has fired leaves a pointer to its freed
struct in `dhcpc->timer[type]` (`pico_dhcp_client.c:280`), through which
`pico_dhcp_client_stop_timers` writes (314); an abort by the application's callback for
SUCCESS, before BOUND is set (663-665); and the returns on malformed options (581, 629).

### Below the transport

Each of these modules prefixes its names and has its own specification; a
component's C state is one record (or a few variables), a handler is an operator
from record to record where handlers call each other, and an action where they
do not. What a peer sends is not part of the state: any packet the code tells
apart may arrive at any time, which covers loss, duplication, delay and
reordering at once. Allocations and `pico_timer_add` may fail wherever the code
looks at the result.

`Arp`: `arp_tree`, the pending `arp_expire` timers with the time that remains,
`frames_queued`, the queue into the device, `max_arp_reqs`. `pico_arp_receive`,
`pico_arp_get`, `pico_arp_postpone`, `pico_arp_queued_trigger` and
`pico_ethernet_send` call each other as in the code. `FrameSlots` is the loop over
the slots that the triggers of `Arp` and `Nd` share.

`Slaac4`: the cookie, the timer it can cancel and the ones whose identifier was
overwritten, conflicts reported by ARP, and the carrier.

`Nd`: the neighbour cache with its five states, advertisements and
solicitations with their flags, `pico_ipv6_nd_timer_elapsed`, the frames that
wait, and the default router. One firing of the callback finds every neighbour expired, where the code looks at
each one's expiry (`pico_ipv6_nd.c:1433`): time is abstracted so that entries expire together. `IpLinks`: links, routes, broadcast and multicast
defaults of one device, for IPv4 or IPv6; DAD, router advertisements, lifetimes.

`Multicast`: from the socket option through the merge of the sockets' filters
(`pico_mcast_filter_*`) and the record sent to the IGMP automaton, with
`IGMPTimers` as objects in a tree that pending timers point at, the querier's
version and the fall back to IGMPv2.

`Fragments`: the tree, `cur_frag_id`, the timer and the timers of earlier
reassemblies; the copy of a frame, its place in the tree and the timer may each find no memory.

`Nat`: both trees, the attributes of a tuple, the cleanup, port forwards, and the
ports of sockets that bind (checked) or connect (not checked: see below).

### Services

`Ppp`: the four tables of (state, event) entries with the handlers they call,
the tick and its four timers, `pico_ppp_connect` and `pico_ppp_disconnect`.
`ack_rcvd` and `ack_sent` are history: whether an acknowledgment has come since our
last Configure-Request, and whether the peer's last one was acknowledged. `lcp_process_in`
(1036-1039) does not compare the identifier, so the first may be the
acknowledgment of an older request; `PppAgreed` does not exclude that, and the code does not either. A
Configure-Request that finds no memory (796-798) starts no restart timer (`lack`, `missed`): the exception
in `PppInStep`. That property is about the machines staying in step and not about their going
on: after ERROR the modem is in INITIAL with LCP STARTING, where the tick does not reconnect
(it looks for an LCP in INITIAL, 2167) until the application disconnects, and CHAP waits in STARTING for a challenge without a timer. Frames of PAP, CHAP and IPCP that
find no memory are as good as lost. The tick is taken to start itself again: after a failing
`pico_timer_add` (2171-2174) PPP stands still, which is left out. An unknown authentication protocol
(1455-1457) is covered by the proofs and not by the run.

`Tftp`: one session with both roles, both directions and both modes. `Dns`: name
servers, queries and timers that know only an identifier. `Sntp` EXTENDS `Dns`:
a step of DNS that closes a cookie's request is also `dnsCallback`. `Mdns`:
records with their flags, cookies, send timers, the cache, conflicts and
tiebreaks. The order of the tree of cookies depends on questions that
`pico_mdns_cookie_del_questions` changes in place; `broken` marks the states in
which the tree is no longer in order, and the model stops there, after the step. That step includes what
`pico_tree_delete` finds in place of the cookie that lost its last question (1143-1146): the
cookie, none, or another one without questions, which is then freed with its timer pending (`Mistaken`).
The calls of `pico_mdns_getrecord` that are refused, for a duplicate query or for want of memory or of a
timer (2999-3017), leave the modelled state as it was and are not actions; and
`pico_mdns_init` succeeds (its error exits, 3634-3681, are left out).

### Trees

`Tree`: `pico_tree.c` pointer by pointer. A node is named by its key; `LEAF` is
a node like the others and may be painted by this tree or, `OtherTree`, by another
one. The mirrored halves of the fixes are one definition with a side.
`pico_tree_foreach_safe` reads the next node before its body runs, and the body
may delete the element it is at.

### Composition for TLC

`MCLink`, `MCServices` and `MCTables` put modules that share no state into one
run: `part` names the module that moves and the others stay in one initial
state, so the states add up and do not multiply. `LinkTimersEnd` and
`ServicesEnd` are the conjunctions of the parts' liveness properties.

## Runs

| Run | Shows |
|---|---|
| `timers` | The heap implements the service, stays inside its blocks, frees what it should, and every timer ends, with callbacks that arm and cancel during a pass and identifiers that wrap. |
| `timers_guard` (violation) | `pico_timer_cancel_hashed` clears the identifier of another timer of the block. |
| `tcp_transfer` | Four units written over a network with two faults, with sequence numbers that wrap, an input queue smaller than the data and a SYN that may open a second child: the stream is unchanged, acknowledged data is received, SACK blocks are true, both sides agree on the connection. |
| `tcp_lifecycle` | Connect, write, shut down, close on both sides with one fault, and steps without memory for a frame or a timer: attempts to connect end, closing sockets are deleted, what is written is read unless a socket is deleted, all but after the three failures named above. |
| `tcp_early_write` (violation) | Data written in SYN_SENT is lost after a repeated SYN. |
| `tcp_abandoned_close` (violation) | A socket in CLOSE_WAIT whose retransmissions run out stays for ever. |
| `tables` | Listener: three clients, three sockets, a backlog of two, a second deletion: counter, backlog, no socket taken out of the tree for another, no timer on freed memory. Multicast: the group count and the link's filter follow two sockets, and a group that owes a report has exactly one timer for it. Tree: five keys in every order of insertions and deletions, with loops that delete: order, parent pointers and the loops hold, whatever colour `LEAF` has. |
| `dhcp` | Two hosts, two transactions, two faults: addresses, links and the application's view agree; no client is left without a timer; negotiations and renewals end. |
| `dhcp_lease` (violation) | When the server is gone, the client renews for ever and keeps the address after the lease. |
| `link` | ARP: cache, timers and frames agree. Neighbour discovery: no frame is stranded. Links: nothing dangles. Reassembly: datagrams are intact. NAT: replies find their host. And claims, resolutions, DAD, reassemblies and translations end. |
| `services` | PPP opens only after an acknowledgment in each direction, its four machines stay in step and a negotiation has its restart timer unless memory was short; DNS answers once; a cookie of SNTP has one owner; no mDNS timer outlives its session, but for a cookie freed in the place of another; disconnecting, transfers, queries, synchronisations and sessions end. |
| `mdns_rename` (violation) | A record renamed after a conflict outside a session is taken as verified without being probed. |

Bounds. Timers: four timers cross a block boundary (blocks of three elements; element zero of the
array is not used) and wrap the identifiers (five), two delays give equal and
different expiries; time stops at `MaxTime`, so `EveryTimerEnds` speaks
of timers that expire before it. TCP: 16 sequence numbers with an initial number
of 13 wrap during the transfer, and half of the space exceeds all that can be in
flight, as in the code; an input queue of three and an output queue of four units
make windows close and holes appear; two retransmissions stand for ten, since
only "some" and "none left" differ. Two faults are enough for a loss whose
repair is lost or overtaken. The liveness run writes one unit into a queue of two, so the window
does not close there: zero windows are in the safety run only. Listener: three sockets are one more than the backlog, so that it is hit
while another socket awaits its collection; clients and sockets are symmetric.
DHCP: one retry per request, two transactions let two hosts compete or one come
back, two faults lose an ACK and the answer to its repetition.

ARP: two hosts and two frames with one slot, so that a frame finds it taken; two
failures give a frame up. SLAAC: two probes, one announcement, conflicts up to
and over both limits, and a counter that wraps. ND: a neighbour that is also the gateway,
a host behind it, two frames and one slot. Links: two addresses in one network
for each of IPv4 and IPv6 link-local, and one from a prefix: of two links in a
network only the first has the route, which is where deletion is hard; DAD repeats its solicitation once,
as in the code. Multicast:
two sockets, a source and two packets of another version (the first makes the
link fall back, the second renews the timer). Fragments: two senders with the
same identifier and a datagram with identifier zero, the value of an unused
`cur_frag_id`; three fragments have a middle. NAT: two hosts and two ports, one
of which local sockets may ask for, so that ports run out; a day is two cleanups.
Tree: five keys reach every branch of both fixes.
PPP: two configure requests, one refusal; TFTP: three retries,
a block counter that wraps at three; DNS: two identifiers, so that they are used
again while timers are pending; mDNS: two cookies, a unique and a shared record,
two suffixes, one lost tiebreak. Constants marked "bound" in the modules cap what
the code does not: pending timers above which no new one is made, or packets of
a kind; the code has no such limit, and every property is about what happens
within it.

Deadlock is not checked where the system may stop (all closed, nothing to send,
no timer pending); the timer run checks it.

Fairness. `pico_stack_tick` is called for ever: the timer run assumes weak
fairness of time, of starting a pass and of the pass; the TCP run of what the
stacks do by themselves (deliveries, output, timers, the readers) as one action, whose `ENABLED` is
spelled out as `Busy` (the same predicate says in `NeverAbandoned` that something is still to happen); the DHCP runs of each host's deliveries and timers together. No
fairness is assumed of the application's calls other than reading, and faults are bounded, so a
message that is repeated often enough arrives.
In `link` and `services` each module with liveness has a clock, a bit that only
its timer (or tick) action flips, and weak fairness is on that bit: a timer that
is pending fires, since ticks go on, and nothing is assumed of packets or of the
application, which may come between any two ticks for ever. Liveness is stated
with the exceptions the code has: a timer that could not be added again, a
FIN or a SYN without memory, a carrier that is gone.

## Mutants

`PROJECT.json` lists one mutant per property of a passing run. A conjunction such
as `LinkTimersEnd` has more, one per part, defined beside their targets and not
listed: `NeverGivesUp` (SLAAC), `NeverUnreachable` (ND), `NeverVerified` (DAD),
`OnlyClosed` (NAT), `LeavesOpen` (PPP), `SparesActive` (mDNS); and
`ExpireTwice` (ARP), `KeepsTimeout` (mDNS), `LeavesOutbound` (NAT) break the
invariants a second way.

## Proofs

TLAPS checks eight modules. Each proof has the same shape: an inductive
invariant (checked by TLC on the run's instance before it was proved), a lemma for each
handler or action that keeps it, and theorems `Spec => []P` that follow. What is
proved holds for every value of the constants that the named assumption of the
module allows (finite sets, positive bounds), including the constants marked
"bound".

| Module | Theorems (property of a run) | Inductive invariant |
|---|---|---|
| `TimersProofs` | `TimersSafe`, `NothingLeftOverdue`, `PassInOrder` | `TimerInv` |
| `TimersHeapProofs` | `EveryTimerFreedOnce` (`NoTimerLeak`), `ElementsInsideBlocks` (`InsideBlocks`), `HeapImplementsService` (`Implements`) | `HeapInv` |
| `ListenerProofs` | `CounterExact` (`PendingCounted`), `BacklogNeverExceeded` (`BacklogKept`), `DeletesOnlyItself` (`OnlyItself`), `NoDanglingLinger` (`NoTimerAfterFree`), `ReportsNeverLost` (`McReportsAhead`), `MembershipFollowsSockets` (`McMembership`) | `Inv`, `PeersInv`, `McInv`, `MemberInv` |
| `TcpProofs` | `ClosingIsTimed`, `ConnectIsTimed`; for one connection: `ReadsArePrefixes` (`StreamPrefix`), `SacksAreTrue` (`SackIsTrue`), `PairTypes` (`TypeOK`), `NothingIsLost` (`AckedIsReceived`), `EndsAgree` (`Synchronised`) | `BothArmed`, `PairInv` |
| `DhcpProofs` | `OneAddressPerHost` (`AddressPerHost`), `LinkFollowsLease` (`LinkIsLease`), `AlwaysATimer` (`NeverStranded`), `DhcpTypesHold` (`TypeOK`) | `DhcpInv` |
| `NeighbourProofs` | `ArpAgrees` (`ArpConsistent`), `ArpTypes`, `NdKeepsFrames` (`NdNoFrameStranded`) | `ArpInv`, `NdInv` |
| `IpProofs` | `LinksNeverDangle` (`IpNoDangling`), `IpTypes`, `OnlyWholeDatagrams` (`FragIntact`), `FragTypes`, `RepliesFindTheirHost` (`NatReplies`), `NatTypes` | `IpInv`, `FragInv`, `NatInv` |
| `ServicesProofs` | `DnsAnswersOnce` (`DnsOnce`), `DnsTypes`, `CookieHasOneOwner` (`SntpOneOwner`), `SntpAnsweredOnce` (`DnsOnce`), `PppOpenIsAgreed` (`PppAgreed`), `PppMachinesInStep` (`PppInStep`), `PppTypes`, `NoTimerOutlivesItsSession` (`MdnsNoStaleTimer`) | `DnsInv`, `SntpInv`, `PppOK`, `SessionsOK` |

Why the invariants are stronger than the properties:

*Timer service.* `passed`, the expiry of the last timer fired, never exceeds the
tick of the pass and bounds the expiry of all armed timers from below: a callback
arms relative to a tick that is not earlier, so it cannot undercut it.

*Heap.* `CallbackReturn` frees the timer whose callback ran and pops whatever
element is first. That they are the same needs the heap order (an element with an
expiry that is not earlier does not climb past the first) and that a `struct
pico_timer` has one reference; `BlocksOK` says which elements below `size` are
allocated. What `Climb` and `Sink` compute is shown without induction, by the
smallest or largest place at which the claim would fail (`Least`, from
`WellFoundedInduction`). The refinement goes action by action under `ArmedTimers`;
a tombstone that is dropped is a stutter. It is proved under `MaxAdds < IdSpace`:
`pico_timer_cancel` takes the first reference with an identifier, so when the
counter has come round and two timers share one, which of them the heap cancels is not
determined by the service. The code's counter has 32 bits. `IdsFresh` says that
until then no identifier is given twice, although zero is skipped and failures consume some.
The theorem covers safety and not fairness: `Timers` has none, and `EveryTimerEnds` stays with TLC.

*Listener.* A socket leaves the count once by accept or deletion and, if its linger timer
is late, a second time, and it is in the set of second deletions from then on; and the
increment does not wrap because the backlog bounds the counter. `OneLeaves` and
`OneJoins` say how the cardinality of the counted sockets changes. `PeersInv` is separate, since it
needs nothing of the counter: that a deletion finds no other socket rests on there being one
socket per endpoint in the tree, which `tcp_syn` looks for and a deletion keeps.

*Multicast.* `Steady` says of a group that it has at most one timer, that of the object in
the tree, and that a DELAYING_MEMBER has it running and a report to send. It is shown of every
entry of the IGMP host automaton (`TableIs`). `McInv` asks for it as long as only IGMPv3 was heard
(`mixed` is 0): after a fall back timers do leave the tree while they are pending.
`MemberInv` adds what the link knows of the sockets. `Agreed` says that the link's reference count is the
number of sockets that ask for the group and its filter is the aggregate of theirs; it holds on every path.
`Told` says that IGMP's own record follows the link, again as long as `mixed` is 0. What the merge of the
filters returns (`MergedOK`) is a recursion over the sockets: it is shown by the least socket at which
the claim would fail. A call that fails must leave all three as they were (`Kept`).

*TCP, timers.* `ClosingIsTimed` and `ConnectIsTimed` are the safety halves of `ClosingEnds` and `ConnectEnds`: in a
state that only a timer is sure to end, that timer is pending, or `missed` says which allocation failed. Each handler is classified by what it may
do to the state and the timers: nothing (`Same`), or send and perhaps close, with the
linger timeout started (`Sends`); what the queues hold does not matter, so no type of a
field is needed. Output is why the retry timer of a SYN survives: data written early
makes `pico_tcp_output` ask for a retransmission timer, and the one there is stays.

*TCP, streams.* The other five theorems are about what the queues and the segments contain. Each
socket has a view (`View`): the stream its application has written, the peer's, and which
units of each have arrived at the other end. `Held` says that a control block fits its view: a segment in
`tcpq_out` or `tcpq_in` has the number its place in the stream gives it, `rcv_nxt` follows units that have all
arrived (`Ready`), and a segment marked by SACK has arrived at the peer. `MailIn` says the same of a segment on its way: its data, its
acknowledgment and its SACK blocks were true when it was sent. They stay true, because what has arrived
at a socket only grows (`Widens`): this is why loss, duplication and reordering do not matter, and
why one invariant covers them. `Coherent` holds both views, the two channels and what the applications
have read together; `PairInv` adds the fault counter. Each handler of `TcpEndpoint` has a lemma that it keeps `Held`
and sends only what the view allows; a step of one socket then becomes a step of the pair by `StepCoherent`.

Even the types need the views: `snd_nxt` may be set to the first number of a queue, and a queue has a first one
only while its numbers lie within half of the sequence space (`SeqCompare`), that is, while they are
those of one stream. And `StreamPrefix` needs the acknowledgments. In SYN_RECV `tcp_first_ack` sets `rcv_processed` only if the segment acknowledges the SYN,
while `tcp_data_in` takes its data in any case; that the first segment the child accepts
does acknowledge its SYN is part of `MailIn` (`told`).

The five theorems assume `OneConnection`, which the constants of the transfer run satisfy with `OneChild` for `TwoChildren`:

- The listener opens one child. After a reset it would open another for the same client, while segments
  of the first are on their way; the code tells them apart by their numbers alone.
- No application writes before its connection is established. Finding 2 shows what happens otherwise.
- Each stream has fewer units than half of the sequence numbers. Segments of the model have no
  lifetime, so one from an earlier turn of the numbers could come back.

`NothingIsLost` and `EndsAgree` assume that nobody closes (`Closers = {}`), as their run does: a FIN takes a number
that is no unit of the stream, and `Acks` has no place for it. Reads, SACK and types are proved with closes.
`TcpAssumption` asks for `MaxCwnd` of at least 2, where `cwnd` starts (`PICO_TCP_IW`).

*DHCP.* An address is not unique because clients check it; it is unique because
everything repeats the server's ARP table, which gives a host one address and
never changes it. `DhcpInv` says so of negotiations, replies under way and
clients, and `Fits` says for each state of a client which links and timers it
has (RENEWING without a socket is the exception that keeps T2 and LEASE).

*ARP and neighbour discovery.* That a frame is counted once in the slots and once in
the queue is stated with quantifiers (`ArpPlaced`, `NdPlaced`) and turned into
cardinalities at the end (`CountIn`). What the trigger's loop leaves in the queue
(`RequeueGathers`) is shown by the smallest slot at which the claim would fail. ARP
also needs that a frame that can still be postponed has failures left, and that the timer of an
entry is due no later than the entry. In neighbour discovery a frame waits for the neighbour
that was its next hop, and `pico_ipv6_nd_unreachable` discards by the next hop of now:
`Resolving` says that these are the same, which is why a change of routes takes the
frames it concerns out of the claim. `Loose` is the state in which a frame was taken from the queue and is not
yet sent or postponed.

*Links.* Deleting a link must find every pointer to it. Besides that all pointers lead to
links and only a tentative link has a DAD timer, `IpOK` says that a configured link
has an address of the device's IP version (`Mine`).

*Reassembly.* `OneDatagram` says that the fragments in the tree are of one datagram
that was sent, and that a complete tree is there only after an allocation has failed; timers left over by
earlier reassemblies can only empty it.

*NAT.* Both trees hold the same tuples, the attributes are theirs, and neither a source nor a port is in two of them.

*DNS and SNTP.* A query belongs to an open request and a request has at most one
query (the CNAME fallback replaces it, and inside that step there are two: hence `DnsShape`); a cookie of SNTP is in exactly one
place, a DNS request, the socket with its timer, or free.

*PPP.* `Shape` lists the kinds of entries the LCP table has (next state, handlers, and for
which states and events), `LcpEntry` shows row by row that the table has no others, and
`LcpApplyIs` what each kind preserves. The strengthening is that ACK_RCVD means an
acknowledgment was received, ACK_SENT that one was sent (`Acked`), and that STOPPING has a timer
too (`Timed`); REQ_SENT and ACK_SENT have one or have `missed` theirs, and ACK_RCVD always has, since
the acknowledgment that leads to it starts one. The modem and LCP call each other in the middle of an event, when they do not agree on the
line being up: hence `Core`, which holds then too, and `Line`, which holds again at the end.

*mDNS.* A timer of a session fires before the session's own timeout has freed it, because the intervals that
are still to come add up to less than what the session has left. They double, so the sum is that of a
geometric series: `Outlives` states it for the power of two the session has reached, and one second of
`pico_mdns_tick` takes as much from both sides.

Left to TLC:

- All liveness (`EveryTimerEnds`, `Binds`, `Renews`, `LinkTimersEnd`,
  `ServicesEnd`, `ConnectEnds`, `ClosingEnds`, `Delivered`): the prover has
  neither `ENABLED` nor fairness.
- `TreeSound`: the tree's operators are `RECURSIVE`, which the prover does not accept.
- TCP with a second child of the listener: there the five properties of the transfer run are checked
  and proved only for the first connection.
- `LinkTypeOK` and `ServicesTypeOK`, conjunctions over modules of which some are proved
  (`ArpTypes`, `IpTypes`, `FragTypes`, `NatTypes`, `DnsTypes`, `PppTypes`).

## Findings

1. `pico_timer_cancel_hashed` indexes `tref` a second time and clears the
   identifier of another timer (`stack/pico_stack.c:648`).
2. A repeated SYN resets `snd_last`, and data accepted in SYN_SENT shares its
   sequence numbers with what is written next (`modules/pico_tcp.c:1227`).
3. `tcp_retrans_timeout` gives up only in ESTABLISHED; in CLOSE_WAIT the
   socket stays (`modules/pico_tcp.c:1940`).
4. The renewal timer of the DHCP client stops T2 and the lease timer: no
   rebinding, no expiry (`modules/pico_dhcp_client.c:349`).
5. A conflict for a record without a session renames it with its flags, and the
   new name is not probed (`modules/pico_mdns.c:822`).

Observed while modelling, without a run of their own. The models contain this
behaviour, and the properties are stated around it.

- Trees: `fix_delete_collisions` stops at `LEAF`, so the removal of a black node
  without children is never repaired. `ConstantBlackPath` in `Tree` states what
  the comment above it says; it fails after four operations, six keys can end
  up in a list, and `LEAF`, "By default the null leafs are black", may be left red
  for all trees. Order and loops do not depend on it.
- NAT: without a free port or memory the NULL tuple is used
  (`pico_ipv4_nat_outbound`); the flags of an ended connection are not cleared when its
  endpoint connects again; disabling leaves the cleanup timer and enabling adds
  another one; `pico_socket_high_port` asks for a port of no protocol, so the port of an unbound
  socket is never checked; a port forward does not look at local sockets.
- ARP: a frame for which there is no slot is leaked when it was to be sent again.
- Links: `mcast_default_link_ipv6` is not reset when its link goes.
- Multicast: with an IGMPv2 querier timers leave the tree while they are pending,
  and a freed one may fire; a source that one socket includes and another does not exclude may
  be filtered out (`pico_mcast_filter_incl_excl`).
- PPP: one `timer_val` serves four machines; a re-authentication that times out leaves IPCP up.
- TFTP: `tftp_finish` cancels one timer by an identifier that may be stale; another one may fire on
  the freed session.
- DNS: a loop of CNAMEs keeps a request open; a query whose repetition cannot be
  sent stays in the table.
- SNTP: `rec` is set before the buffer is allocated; when that fails the timeout leaves the cookie.
- mDNS: questions of a cookie change while it is in the tree that is ordered by them. Under the comment
  "Check if there are no questions left, cancel events if so and delete" (`pico_mdns.c:1142`) the
  cookie that is then deleted is the one that compares equal. With a claim of shared
  records only, whose probe cookie has no questions (3365-3398), a conflict that takes the last question from
  another cookie may free that one, with its send timer pending.
- PPP: an acknowledgment of an older Configure-Request opens the link; a Configure-Request without memory
  is not repeated, and only the peer can move that negotiation on.
- TCP: the three failing allocations above leave a socket in SYN_SENT, in a closing state or without retransmission.
- Listener: see `LingerExpiresLate` and `unlisted` above. Closing it leaves its children's parent pointers.

## Plan

Done: timers, TCP connection, listener, DHCP, and since then ARP, IPv4 link-local
addresses, neighbour discovery, links and routes, multicast, reassembly, NAT,
PPP, TFTP, DNS, SNTP, mDNS and trees.

Proved: the table above. What remains: of TCP a second connection with the same client, and
`AckedIsReceived` and `Synchronised` with closes (a view that counts the FIN).
Modules with theorems must not reach `Tree`, which is recursive, so the proofs
extend the component modules and not `MCTables`.

Worth modelling next: MLD over the same merge as IGMP, 6LoWPAN's
fragmentation, AODV's route requests; in TCP segments of different sizes
(`tcp_split_segment`, Nagle) and keepalive; two DHCP servers.

## Not modelled

Header parsing, checksums, name encoding, 6LoWPAN compression, the memory
manager, the POSIX glue and device drivers: sequential code over bytes, where
tests and fuzzing reach further than a state machine. DNS-SD builds records for
mDNS and has no state of its own. MLD repeats IGMP's automaton over ICMPv6. The
packet filter is a list of rules. AODV and OLSR are optional daemons outside
the default build. Within modelled components: keepalive, Nagle,
`tcp_split_segment` and round-trip estimation in TCP, `pico_dhcp_server_destroy`
(what follows it is undefined), ICMP through NAT (not translated by the code
either). `components` in `PROJECT.json` gives the reason for each part.
