----------------------------- MODULE SocketFds -----------------------------
(***************************************************************************)
(* The socket system calls (lib/libc/posix/sock.c) and the part of the     *)
(* descriptor table they use (fd.c, close and dup3 of io.c), over the      *)
(* sockets of TcpSockets.  The thread makes one call at a time; lwIP's     *)
(* callbacks come between any two steps.                                   *)
(***************************************************************************)
EXTENDS TcpSockets

CONSTANT Fds        \* descriptors that are not the console's

ASSUME SocketFdsAssumption == Fds \subseteq Nat /\ IsFiniteSet(Fds)

VARIABLE fd_socket  \* the socket of each descriptor; NoSocket: the descriptor is free

vars == <<fd_socket, tcpVars>>

Init == TcpInit /\ fd_socket = [f \in Fds |-> NoSocket]

FreeFds == {f \in Fds : fd_socket[f] = NoSocket}
\* posix_fd_allocate.
FirstFreeFd == CHOOSE f \in FreeFds : \A g \in FreeFds : f <= g

\* Seeded fault: sys_dup3 forgets to count the new descriptor.
Dup3Uncounted(old, new) ==
    LET t == fd_socket[new] IN
    /\ socket_refcount' = [u \in Sockets |-> socket_refcount[u] - (IF u = t THEN 1 ELSE 0)]
    /\ fd_socket' = [fd_socket EXCEPT ![new] = fd_socket[old]]
    /\ IF t # NoSocket /\ socket_refcount[t] = 1 THEN CloseInt(t)
       ELSE UNCHANGED <<state, sock_tpcb, rx, conn>>
    /\ UNCHANGED <<accept_queue, caller>>

\* sys_dup3: what the new descriptor named is closed first.
Dup3(old, new) ==
    LET t == fd_socket[new] IN
    /\ socket_refcount' = [u \in Sockets |-> socket_refcount[u]
                               + (IF u = fd_socket[old] THEN 1 ELSE 0) - (IF u = t THEN 1 ELSE 0)]
    /\ fd_socket' = [fd_socket EXCEPT ![new] = fd_socket[old]]
    /\ IF t # NoSocket /\ socket_refcount[t] = 1 THEN CloseInt(t)
       ELSE UNCHANGED <<state, sock_tpcb, rx, conn>>
    /\ UNCHANGED <<accept_queue, caller>>

\* sys_socket.
SysSocket ==
    /\ FreeFds # {}
    /\ \/ \E p \in Pcbs : Create(p) /\ fd_socket' = [fd_socket EXCEPT ![FirstFreeFd] = FirstFree]
       \/ CreateFail /\ UNCHANGED fd_socket

\* sys_close and sock_close.
SysClose(f) == Close(fd_socket[f]) /\ fd_socket' = [fd_socket EXCEPT ![f] = NoSocket]

\* The descriptor of an accepted socket.
AcceptedFd(ls) ==
    fd_socket' = IF accept_queue[ls] # <<>> /\ FreeSlots # {} /\ FreeFds # {}
                 THEN [fd_socket EXCEPT ![FirstFreeFd] = FirstFree] ELSE fd_socket

\* Calls that leave the descriptors alone.  An application listens on a socket it
\* has just bound or created: tcp_socket_listen itself looks at nothing.
SysOther(f) ==
    LET s == fd_socket[f] IN
    /\ UNCHANGED fd_socket
    /\ \/ Bind(s)
       \/ state[s] \in {"allocated", "bound"} /\ Listen(s)
       \/ \E b, c \in BOOLEAN : Connect(s, b, c) \/ Write(s, b, c)
       \/ \E n \in 1 .. BufSize, b \in BOOLEAN : Recv(s, n, b)

Syscall ==
    /\ caller.op = "idle"
    /\ \/ SysSocket
       \/ \E f \in Fds \ FreeFds :
            \/ SysClose(f)
            \/ SysOther(f)
            \/ \E new \in Fds \ {f} : Dup3(f, new)
            \/ \E b \in BOOLEAN : Accept(fd_socket[f], FreeFds # {}, b) /\ AcceptedFd(fd_socket[f])

Resume ==
    \/ AcceptResume(FreeFds # {}) /\ AcceptedFd(caller.s)
    \/ /\ UNCHANGED fd_socket
       /\ \/ ConnectResume
          \/ \E b \in BOOLEAN : WriteResume(b)
          \/ \E n \in 1 .. BufSize : RecvResume(n)

Next == Syscall \/ Resume \/ (Lwip /\ UNCHANGED fd_socket)

Spec == Init /\ [][Next]_vars

-----------------------------------------------------------------------------
(* Properties.                                                             *)

\* Each descriptor counts once for its socket and for nothing else, across dup3
\* onto a descriptor in use, accept without a free descriptor, and close.  Only a
\* socket whose creation failed is counted below zero.  A descriptor never names
\* a slot that is free or being closed.
FdsOwnSockets ==
    \A s \in Sockets :
        LET n == Cardinality({f \in Fds : fd_socket[f] = s}) IN
        /\ socket_refcount[s] = n \/ (socket_refcount[s] = -1 /\ n = 0 /\ state[s] = "allocated")
        /\ n > 0 => state[s] \notin {"unallocated", "closing"}

\* socket_allocate asserts of a free slot that it has no pcb and an empty ring
\* that starts at the beginning, whichever way its last connection ended.
UnallocatedClean ==
    \A s \in Sockets : state[s] = "unallocated" =>
        sock_tpcb[s] = NoPcb /\ rx[s].head = 0 /\ rx[s].len = 0

\* The states of a pcb in which lwIP may still run callbacks of the program.
MayCallBack(p) == conn[p].st \in {"synsent", "open", "finwait", "lastack"} /\ conn[p].cbs # "none"

\* A callback that lwIP may still run, from the connection's start to the peer's
\* close, reaches the socket that has this pcb, in a state that its switch and its
\* assertions accept, and never a slot that has been freed and taken again.  After
\* the peer's close it reaches no socket.  socket_err_func checks for that and
\* socket_sent_callback asserts the contrary: the only assertion that fails is
\* that one, and only for data the peer acknowledges after it has closed.
CallbacksReachTheirSocket ==
    /\ \A p \in Pcbs : MayCallBack(p) =>
         LET s == conn[p].arg IN
         IF conn[p].st = "lastack" THEN s = NoSocket
         ELSE /\ s \in Sockets /\ sock_tpcb[s] = p
              /\ state[s] = CASE conn[p].st = "synsent" -> "connecting"
                              [] conn[p].st = "open"    -> "connected"
                              [] OTHER                  -> "closing"
    /\ caller.op = "aborted" => \E p \in Pcbs : conn[p].st = "lastack" /\ conn[p].unacked

\* What the ring holds is the bytes of the stream behind those that were lost and
\* those that were read, in order and without a gap, for every position of its
\* head and every size of what came and was read.
StreamInOrder ==
    \A s \in Sockets : \A i \in 0 .. BufSize - 1 :
        rx[s].buf[(rx[s].head + i) % BufSize] =
            IF i < rx[s].len THEN rx[s].lost + rx[s].got + 1 + i ELSE 0

\* Of what came, the application has read or will read all but the bytes that came
\* before accept: tcp_socket_accept_cb sets no receive callback, so lwIP drops
\* those.  Once the socket has the connection nothing is skipped.
NothingSkipped ==
    \A s \in Sockets : (state[s] = "connected" /\ conn[sock_tpcb[s]].st = "open") =>
        /\ rx[s].lost = conn[sock_tpcb[s]].lost
        /\ rx[s].lost + rx[s].got + rx[s].len = conn[sock_tpcb[s]].next - 1

\* A thread that waits in connect or accept and has not been woken has still
\* nothing to wake up for: no callback changes its condition in silence.
ConnectAndAcceptWake ==
    ~caller.woken =>
        /\ caller.op = "connect" => state[caller.s] = "connecting"
        /\ caller.op = "accept" => accept_queue[caller.s] = <<>>

=============================================================================
