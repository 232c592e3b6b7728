---------------------------- MODULE TcpSockets ----------------------------
(***************************************************************************)
(* TCP sockets (lib/sock/tcp.c) for one application thread: the socket     *)
(* table, the receive ring, the accept queue, and the callbacks lwIP runs  *)
(* between any two steps of the thread.  lwIP is external: a pcb is        *)
(* represented by the state that decides which callbacks it may run, the   *)
(* argument they get, and which of them are set.                           *)
(*                                                                         *)
(* Bytes of a connection are numbered from 1, so that a byte that is lost, *)
(* repeated or out of place is seen.  An assertion of tcp.c that fails     *)
(* ends the program.                                                       *)
(***************************************************************************)
EXTENDS Integers, Sequences, FiniteSets

CONSTANTS
    MaxSockets, \* MAX_SOCKETS
    Backlog,    \* MAX_LISTEN_BACKLOG
    BufSize,    \* SOCKET_BUF_SIZE
    Pcbs,       \* connections lwIP has room for
    NoPcb,
    MaxBytes    \* bytes a peer sends on one connection

ASSUME TcpSocketsAssumption ==
    /\ MaxSockets \in Nat \ {0} /\ BufSize \in Nat \ {0} /\ MaxBytes \in Nat
    /\ Backlog \in Nat \ {0, 1}
    /\ NoPcb \notin Pcbs

Sockets == 0 .. MaxSockets - 1
NoSocket == -1

VARIABLES
    state,           \* socket_t.state
    sock_tpcb,       \* socket_t.sock_tpcb
    socket_refcount,
    rx,              \* rx_buf, rx_head, rx_len; got: bytes the application has;
                     \* lost: bytes dropped before the socket had the connection
    accept_queue,    \* pending_pcbs between tail and head
    caller,          \* the call the thread is blocked in, and if it was woken
    conn             \* lwIP's pcbs; next: the byte that comes next; lost: dropped bytes

tcpVars == <<state, sock_tpcb, socket_refcount, rx, accept_queue, caller, conn>>

Idle == [op |-> "idle", s |-> NoSocket, woken |-> FALSE]
\* A failed assertion has stopped the program.
Aborted == [Idle EXCEPT !.op = "aborted"]

EmptyRing == [head |-> 0, len |-> 0, buf |-> [i \in 0 .. BufSize - 1 |-> 0], got |-> 0, lost |-> 0]
FreePcb == [st |-> "free", arg |-> NoSocket, cbs |-> "none", next |-> 1, lost |-> 0, unacked |-> FALSE]

TcpInit ==
    /\ state = [s \in Sockets |-> "unallocated"]
    /\ sock_tpcb = [s \in Sockets |-> NoPcb]
    /\ socket_refcount = [s \in Sockets |-> 0]
    /\ rx = [s \in Sockets |-> EmptyRing]
    /\ accept_queue = [s \in Sockets |-> <<>>]
    /\ caller = Idle
    /\ conn = [p \in Pcbs |-> FreePcb]

SmallerOf(a, b) == IF a < b THEN a ELSE b
LargerOf(a, b) == IF a > b THEN a ELSE b

-----------------------------------------------------------------------------
(* The receive ring.  A cell without an unread byte is 0.                  *)

TailCell(r) == (r.head + r.len) % BufSize

RoomInOneRun(r, n) ==
    SmallerOf(n, BufSize - LargerOf(r.len, TailCell(r)))

\* One turn of the loop of socket_recv_callback: copy up to n bytes from byte b.
Store(r, b, n) ==
    LET tail == TailCell(r)
        k    == RoomInOneRun(r, n)
    IN  [r EXCEPT !.len = @ + k,
                  !.buf = [i \in DOMAIN @ |-> IF i \in tail .. tail + k - 1
                                              THEN b + i - tail ELSE @[i]]]

\* Seeded fault: the second run starts again at the first byte.
StoreAllFromStart(r, b, n) ==
    LET first == Store(r, b, n) IN Store(first, b, n - (first.len - r.len))

\* The whole loop: the free part of a ring is at most two runs.
StoreAll(r, b, n) ==
    LET first == Store(r, b, n)
        k     == first.len - r.len
    IN  Store(first, b + k, n - k)

\* One turn of the loop of tcp_socket_recv.
Fetch(r, n) ==
    LET k == SmallerOf(n, SmallerOf(r.len, BufSize - r.head))
    IN  [r EXCEPT !.head = (@ + k) % BufSize, !.len = @ - k, !.got = @ + k,
                  !.buf = [i \in DOMAIN @ |-> IF i \in r.head .. r.head + k - 1 THEN 0 ELSE @[i]]]

FetchAll(r, n) ==
    LET first == Fetch(r, n) IN Fetch(first, n - (r.len - first.len))

-----------------------------------------------------------------------------
(* Waking the thread.  A semaphore is signalled only when it has a waiter. *)

Waits(op, s) == caller.op = op /\ caller.s = s /\ ~caller.woken
Wake(op, s) == caller' = IF Waits(op, s) THEN [caller EXCEPT !.woken = TRUE] ELSE caller
Block(op, s) == caller' = [op |-> op, s |-> s, woken |-> FALSE]
Again == caller' = [caller EXCEPT !.woken = FALSE]

-----------------------------------------------------------------------------
(* Callbacks.                                                              *)

\* socket_connected.
Connected(p) ==
    LET s == conn[p].arg IN
    /\ conn[p].st = "synsent"
    /\ conn' = [conn EXCEPT ![p].st = "open", ![p].cbs = "all"]
    /\ state' = [state EXCEPT ![s] = "connected"]
    /\ Wake("connect", s)
    /\ UNCHANGED <<sock_tpcb, socket_refcount, rx, accept_queue>>

\* Seeded fault: a failed connection wakes nobody.
FailedUnwoken(p) ==
    LET s == conn[p].arg IN
    /\ conn[p].st \in {"synsent", "open", "finwait", "lastack"}
    /\ conn[p].cbs # "none"
    /\ conn' = [conn EXCEPT ![p] = FreePcb]
    /\ state' = IF s = NoSocket THEN state ELSE [state EXCEPT ![s] = "error"]
    /\ UNCHANGED <<caller, sock_tpcb, socket_refcount, rx, accept_queue>>

\* socket_err_func, after a reset, a timeout or a refusal: lwIP has freed the
\* pcb.  Only a blocked connect is woken.
Failed(p) ==
    LET s == conn[p].arg IN
    /\ conn[p].st \in {"synsent", "open", "finwait", "lastack"}
    /\ conn[p].cbs # "none"
    /\ conn' = [conn EXCEPT ![p] = FreePcb]
    /\ IF s = NoSocket
       THEN UNCHANGED <<state, caller>>
       ELSE /\ state' = [state EXCEPT ![s] = "error"]
            /\ IF state[s] = "connecting" THEN Wake("connect", s) ELSE UNCHANGED caller
    /\ UNCHANGED <<sock_tpcb, socket_refcount, rx, accept_queue>>

\* socket_recv_callback with data.  What does not fit is refused and lwIP offers
\* it again; on a socket that is closing, lwIP itself drops the data.
Received(p, n) ==
    LET s == conn[p].arg IN
    /\ conn[p].st = "open" /\ conn[p].cbs = "all"
    /\ conn[p].next + n - 1 <= MaxBytes
    /\ state[s] = "connected"
    /\ n <= BufSize - rx[s].len
    /\ rx' = [rx EXCEPT ![s] = StoreAll(@, conn[p].next, n)]
    /\ conn' = [conn EXCEPT ![p].next = @ + n]
    /\ Wake("recv", s)
    /\ UNCHANGED <<state, sock_tpcb, socket_refcount, accept_queue>>

\* tcp_close of an established connection: lwIP resets it at once if the
\* application has not taken all data, and else waits for the peer.
Shut(c, unread, st) == IF unread THEN FreePcb ELSE [c EXCEPT !.st = st]

\* Seeded fault: the pcb keeps its argument.
PeerClosedArgKept(p) ==
    LET s == conn[p].arg IN
    /\ conn[p].st = "open" /\ conn[p].cbs = "all"
    /\ state[s] = "connected"
    /\ state' = [state EXCEPT ![s] = "closed_by_peer"]
    /\ conn' = [conn EXCEPT ![p] = Shut(@, rx[s].len > 0, "lastack")]
    /\ Wake("recv", s)
    /\ UNCHANGED <<sock_tpcb, socket_refcount, rx, accept_queue>>

\* socket_recv_callback without data: the peer has closed.
PeerClosed(p) ==
    LET s == conn[p].arg IN
    /\ conn[p].st = "open" /\ conn[p].cbs = "all"
    /\ state[s] = "connected"
    /\ state' = [state EXCEPT ![s] = "closed_by_peer"]
    /\ conn' = [conn EXCEPT ![p] = Shut([@ EXCEPT !.arg = NoSocket], rx[s].len > 0, "lastack")]
    /\ Wake("recv", s)
    /\ UNCHANGED <<sock_tpcb, socket_refcount, rx, accept_queue>>

\* The same on a socket the application has closed: its slot is free again.
PeerClosedToo(p) ==
    LET s == conn[p].arg IN
    /\ conn[p].st = "finwait" /\ conn[p].cbs = "all"
    /\ state[s] = "closing"
    /\ state' = [state EXCEPT ![s] = "unallocated"]
    /\ sock_tpcb' = [sock_tpcb EXCEPT ![s] = NoPcb]
    /\ rx' = [rx EXCEPT ![s] = EmptyRing]
    /\ conn' = [conn EXCEPT ![p].arg = NoSocket, ![p].st = "lastack"]
    /\ UNCHANGED <<socket_refcount, accept_queue, caller>>

\* socket_sent_callback.  It asserts that its argument is a socket, but the peer's
\* close has set the argument to NULL and left the callback on the pcb: what the
\* peer acknowledges after that stops the program.
Sent(p) ==
    LET s == conn[p].arg IN
    /\ conn[p].st \in {"open", "finwait", "lastack"} /\ conn[p].cbs = "all"
    /\ conn[p].unacked
    /\ IF s = NoSocket THEN caller' = Aborted /\ UNCHANGED conn
       ELSE conn' = [conn EXCEPT ![p].unacked = FALSE] /\ Wake("send", s)
    /\ UNCHANGED <<state, sock_tpcb, socket_refcount, rx, accept_queue>>

\* lwIP is done with a connection both sides have closed.
Finished(p) ==
    /\ conn[p].st = "lastack"
    /\ conn' = [conn EXCEPT ![p] = FreePcb]
    /\ UNCHANGED <<state, sock_tpcb, socket_refcount, rx, accept_queue, caller>>

\* A pcb nothing refers to.  A pcb that lwIP has freed while the program still
\* refers to it is not used again here.
Queued(s) == {accept_queue[s][i] : i \in DOMAIN accept_queue[s]}
Unused(p) ==
    conn[p].st = "free" /\ \A s \in Sockets : sock_tpcb[s] # p /\ p \notin Queued(s)

QueueFull(s) == Len(accept_queue[s]) = Backlog - 1

\* tcp_socket_accept_cb for a new connection q of the listening pcb p.
Incoming(p, q) ==
    LET s == conn[p].arg IN
    /\ conn[p].st = "listen" /\ Unused(q)
    /\ IF QueueFull(s)
       THEN UNCHANGED <<accept_queue, conn>>
       ELSE /\ accept_queue' = [accept_queue EXCEPT ![s] = Append(@, q)]
            /\ conn' = [conn EXCEPT ![q] = [FreePcb EXCEPT !.st = "open", !.arg = s]]
    /\ Wake("accept", s)
    /\ UNCHANGED <<state, sock_tpcb, socket_refcount, rx>>

\* lwIP gives up a connection nobody has accepted: no callback is set yet.
PendingLost(p) ==
    /\ conn[p].st = "open" /\ conn[p].cbs = "none"
    /\ conn' = [conn EXCEPT ![p] = FreePcb]
    /\ UNCHANGED <<state, sock_tpcb, socket_refcount, rx, accept_queue, caller>>

\* Data on a connection nobody has accepted: lwIP's own receive callback takes it
\* and drops it.
DroppedUnaccepted(p) ==
    /\ conn[p].st = "open" /\ conn[p].cbs = "none" /\ conn[p].next <= MaxBytes
    /\ conn' = [conn EXCEPT ![p].next = @ + 1, ![p].lost = @ + 1]
    /\ UNCHANGED <<state, sock_tpcb, socket_refcount, rx, accept_queue, caller>>

Lwip ==
    caller.op # "aborted" /\ \E p \in Pcbs :
        \/ Connected(p) \/ Failed(p) \/ PeerClosed(p) \/ PeerClosedToo(p)
        \/ Sent(p) \/ Finished(p) \/ PendingLost(p) \/ DroppedUnaccepted(p)
        \/ \E n \in 1 .. BufSize : Received(p, n)
        \/ \E q \in Pcbs : Incoming(p, q)

-----------------------------------------------------------------------------
(* Calls of the thread.                                                    *)

FreeSlots == {s \in Sockets : state[s] = "unallocated"}
FirstFree == CHOOSE s \in FreeSlots : \A t \in FreeSlots : s <= t

\* socket_allocate and tcp_socket_init.
Create(p) ==
    LET s == FirstFree IN
    /\ FreeSlots # {} /\ Unused(p)
    /\ state' = [state EXCEPT ![s] = "allocated"]
    /\ sock_tpcb' = [sock_tpcb EXCEPT ![s] = p]
    /\ accept_queue' = [accept_queue EXCEPT ![s] = <<>>]
    /\ conn' = [conn EXCEPT ![p] = [FreePcb EXCEPT !.st = "closed", !.arg = s, !.cbs = "err"]]
    /\ socket_refcount' = [socket_refcount EXCEPT ![s] = @ + 1]
    /\ UNCHANGED <<rx, caller>>

\* tcp_new_ip_type finds no room, and sys_socket closes a socket that has not
\* been counted: the slot stays allocated.
CreateFail ==
    LET s == FirstFree IN
    /\ FreeSlots # {} /\ \A p \in Pcbs : ~Unused(p)
    /\ state' = [state EXCEPT ![s] = "allocated"]
    /\ socket_refcount' = [socket_refcount EXCEPT ![s] = @ - 1]
    /\ UNCHANGED <<sock_tpcb, rx, accept_queue, caller, conn>>

\* tcp_socket_bind, when the address and port are free.
Bind(s) ==
    /\ state[s] = "allocated"
    /\ state' = [state EXCEPT ![s] = "bound"]
    /\ UNCHANGED <<sock_tpcb, socket_refcount, rx, accept_queue, caller, conn>>

\* tcp_socket_listen.  lwIP replaces the pcb by one that listens.
Listen(s) ==
    /\ state' = [state EXCEPT ![s] = "listening"]
    /\ conn' = [conn EXCEPT ![sock_tpcb[s]].st = "listen", ![sock_tpcb[s]].cbs = "none"]
    /\ UNCHANGED <<sock_tpcb, socket_refcount, rx, accept_queue, caller>>

\* tcp_socket_connect.  If lwIP refuses, the socket stays connecting.
Connect(s, refused, nonblock) ==
    /\ state[s] \in {"bound", "allocated"}
    /\ state' = [state EXCEPT ![s] = "connecting"]
    /\ conn' = IF refused THEN conn ELSE [conn EXCEPT ![sock_tpcb[s]].st = "synsent"]
    /\ IF refused \/ nonblock THEN UNCHANGED caller ELSE Block("connect", s)
    /\ UNCHANGED <<sock_tpcb, socket_refcount, rx, accept_queue>>

ConnectResume ==
    /\ caller.op = "connect" /\ caller.woken
    /\ IF state[caller.s] = "connecting" THEN Again ELSE caller' = Idle
    /\ UNCHANGED <<state, sock_tpcb, socket_refcount, rx, accept_queue, conn>>

\* tcp_socket_write once there is room in the send buffer.
Transmit(s) ==
    conn' = [p \in Pcbs |-> IF p = sock_tpcb[s] /\ conn[p].st = "open"
                            THEN [conn[p] EXCEPT !.unacked = TRUE] ELSE conn[p]]

\* tcp_socket_write.  The buffer is full only while something is unacknowledged.
Write(s, full, nonblock) ==
    /\ state[s] = "connected"
    /\ full => conn[sock_tpcb[s]].unacked
    /\ IF ~full THEN Transmit(s) /\ UNCHANGED caller
       ELSE UNCHANGED conn /\ ~nonblock /\ Block("send", s)
    /\ UNCHANGED <<state, sock_tpcb, socket_refcount, rx, accept_queue>>

\* The loop ends when there is room or the connection is gone.  In the second
\* case tcp_write fails, or uses a pcb that is gone.
WriteResume(full) ==
    LET s == caller.s IN
    /\ caller.op = "send" /\ caller.woken
    /\ full => conn[sock_tpcb[s]].unacked
    /\ IF state[s] # "connected" THEN caller' = Idle /\ UNCHANGED conn
       ELSE IF full THEN Again /\ UNCHANGED conn
       ELSE caller' = Idle /\ Transmit(s)
    /\ UNCHANGED <<state, sock_tpcb, socket_refcount, rx, accept_queue>>

\* tcp_socket_recv for n bytes.
Recv(s, n, nonblock) ==
    /\ state[s] = "connected"
    /\ IF rx[s].len = 0 THEN UNCHANGED rx /\ ~nonblock /\ Block("recv", s)
       ELSE rx' = [rx EXCEPT ![s] = FetchAll(@, n)] /\ UNCHANGED caller
    /\ UNCHANGED <<state, sock_tpcb, socket_refcount, accept_queue, conn>>

RecvResume(n) ==
    LET s == caller.s IN
    /\ caller.op = "recv" /\ caller.woken
    /\ IF rx[s].len = 0 /\ state[s] = "connected" THEN Again /\ UNCHANGED rx
       ELSE caller' = Idle /\ rx' = [rx EXCEPT ![s] = FetchAll(@, n)]
    /\ UNCHANGED <<state, sock_tpcb, socket_refcount, accept_queue, conn>>

\* tcp_socket_accept takes the oldest connection, if there is a slot for it and,
\* in sys_accept, a descriptor; else the connection is closed.
Take(ls, hasFd) ==
    LET q    == Head(accept_queue[ls])
        s    == FirstFree
        live == conn[q].st = "open"
    IN  /\ accept_queue' = [accept_queue EXCEPT ![ls] = Tail(@)]
        /\ IF FreeSlots = {}
           THEN /\ conn' = [conn EXCEPT ![q] = FreePcb]
                /\ UNCHANGED <<state, sock_tpcb, socket_refcount, rx>>
           ELSE /\ state' = [state EXCEPT ![s] = IF hasFd THEN "connected" ELSE "closing"]
                /\ sock_tpcb' = [sock_tpcb EXCEPT ![s] = q]
                /\ socket_refcount' = [socket_refcount EXCEPT ![s] = IF hasFd THEN @ + 1 ELSE @]
                /\ conn' = [conn EXCEPT ![q] = IF ~live THEN @
                        ELSE [@ EXCEPT !.arg = s, !.cbs = "all",
                                       !.st = IF hasFd THEN "open" ELSE "finwait"]]
                /\ rx' = [rx EXCEPT ![s].lost = conn[q].lost]

Accept(ls, hasFd, nonblock) ==
    /\ state[ls] = "listening"
    /\ IF accept_queue[ls] # <<>> THEN Take(ls, hasFd) /\ UNCHANGED caller
       ELSE /\ ~nonblock /\ Block("accept", ls)
            /\ UNCHANGED <<state, sock_tpcb, socket_refcount, rx, accept_queue, conn>>

\* A waiter that finds the queue empty returns ENOMEM.
AcceptResume(hasFd) ==
    /\ caller.op = "accept" /\ caller.woken
    /\ caller' = Idle
    /\ IF accept_queue[caller.s] # <<>> THEN Take(caller.s, hasFd)
       ELSE UNCHANGED <<state, sock_tpcb, socket_refcount, rx, accept_queue, conn>>

FreeSlot(s) ==
    /\ state' = [state EXCEPT ![s] = "unallocated"]
    /\ sock_tpcb' = [sock_tpcb EXCEPT ![s] = NoPcb]
    /\ rx' = [rx EXCEPT ![s] = EmptyRing]

\* tcp_socket_close_int.
CloseInt(s) ==
    LET p == sock_tpcb[s] IN
    \/ /\ state[s] \in {"listening", "connected"}
       /\ state' = [state EXCEPT ![s] = "closing"]
       /\ conn' = IF conn[p].st = "open" THEN [conn EXCEPT ![p] = Shut(@, rx[s].len > 0, "finwait")]
                  ELSE [conn EXCEPT ![p] = FreePcb]
       /\ UNCHANGED <<sock_tpcb, rx>>
    \/ /\ state[s] = "connecting"
       /\ conn' = [conn EXCEPT ![p] = FreePcb]
       /\ FreeSlot(s)
    \/ /\ state[s] \in {"allocated", "bound", "error", "closed_by_peer"}
       /\ FreeSlot(s)
       /\ UNCHANGED conn

\* tcp_socket_close: the last descriptor closes the socket.
Close(s) ==
    /\ socket_refcount' = [socket_refcount EXCEPT ![s] = @ - 1]
    /\ IF socket_refcount[s] = 1 THEN CloseInt(s)
       ELSE UNCHANGED <<state, sock_tpcb, rx, conn>>
    /\ UNCHANGED <<accept_queue, caller>>

-----------------------------------------------------------------------------
(* What poll tells of a socket.                                            *)

\* tcp_socket_readable.
Readable(s) == IF state[s] = "listening" THEN accept_queue[s] # <<>> ELSE rx[s].len > 0
=============================================================================
