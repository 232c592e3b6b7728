---------------------------- MODULE PacketQueue ----------------------------
(***************************************************************************)
(* The packet waiting queue of one interface                               *)
(* (examples/firewall/routing/packet_queue.c), used as the router uses it. *)
(* One pool of nodes holds three kinds of lists over the same links: the   *)
(* free list (next), the roots, one for each next hop (next and prev), and *)
(* the children of each root (child).  A link that a list does not         *)
(* maintain keeps what another list left there; the other fields are kept  *)
(* only while the node is in use, or is a root, so that a walk that strays *)
(* reads nothing.                                                          *)
(***************************************************************************)
EXTENDS Integers, Sequences, SequencesExt, FiniteSets

CONSTANTS Hops, Packets, Capacity

PacketQueueAssumption == Capacity \in Nat \ {0}

Index == 0 .. Capacity - 1

VARIABLES
    next, prev, \* links of each node
    child,
    packet,     \* buffer of each node in use
    root,       \* ip, num_children and tail of each root node
    size,       \* nodes in use
    head, tail, \* of the roots
    free,       \* head of the free nodes
    sent        \* packets sent in this step, in order

links == <<next, prev, child>>
vars == <<links, packet, root, size, head, tail, free, sent>>

Init ==
    /\ next = [i \in Index |-> i + 1]
    /\ prev = [i \in Index |-> 0]
    /\ child = [i \in Index |-> 0]
    /\ packet = <<>> /\ root = <<>>
    /\ size = 0
    /\ head = 0 /\ tail = 0 /\ free = 0
    /\ sent = <<>>

-----------------------------------------------------------------------------
(* Walks along the links.                                                  *)

length == Cardinality(DOMAIN root)

\* The n nodes from start on along a link.
Walk(n, start, link) ==
    LET at[i \in 1 .. n] == IF i = 1 THEN start ELSE link[at[i - 1]] IN at

Roots == Walk(length, head, next)
FreeNodes == Walk(Capacity - size, free, next)

\* A root and its children, as process_arp_waiting visits them.
Chain(r) == Walk(root[r].kids + 1, r, child)

\* pkt_waiting_find_node.
HasRoot(h) == \E i \in DOMAIN Roots : root[Roots[i]].hop = h
FindNode(h) == Roots[Min({i \in DOMAIN Roots : root[Roots[i]].hop = h})]

PacketsFor(h) ==
    IF HasRoot(h) THEN [i \in DOMAIN Chain(FindNode(h)) |-> packet[Chain(FindNode(h))[i]]]
    ELSE <<>>

-----------------------------------------------------------------------------
(* The operations, with the router's tests before them.                    *)

\* A free node takes the packet; the router holds the buffer of each once.
TakeNode(p) ==
    /\ size < Capacity
    /\ p \notin Range(packet)
    /\ packet' = [i \in DOMAIN packet \cup {free} |-> IF i = free THEN p ELSE packet[i]]
    /\ free' = next[free]
    /\ sent' = <<>>

ChildOf(r, p, last) ==
    /\ TakeNode(p)
    /\ size' = size + 1
    /\ child' = [child EXCEPT ![root[r].tail] = free]
    /\ root' = [root EXCEPT ![r].tail = last, ![r].kids = @ + 1]
    /\ UNCHANGED <<next, prev, head, tail>>

\* Seeded fault: the root's tail stays.
PushChildTailKept(h, p) == HasRoot(h) /\ ChildOf(FindNode(h), p, root[FindNode(h)].tail)

\* pkt_waiting_push_child: a packet for a next hop that others wait for.
PushChild(h, p) == HasRoot(h) /\ ChildOf(FindNode(h), p, free)

\* pkt_waiting_push: the first packet for a next hop.
Push(h, p) ==
    /\ ~HasRoot(h)
    /\ TakeNode(p)
    /\ size' = size + 1
    /\ root' = [r \in DOMAIN root \cup {free} |->
                    IF r = free THEN [hop |-> h, kids |-> 0, tail |-> free] ELSE root[r]]
    /\ IF length > 0
       THEN /\ next' = [next EXCEPT ![free] = head]
            /\ prev' = [prev EXCEPT ![head] = free]
            /\ UNCHANGED tail
       ELSE /\ tail' = free
            /\ UNCHANGED <<next, prev>>
    /\ head' = free
    /\ UNCHANGED child

\* pkts_waiting_free_parent: the children go to the free list one by one, then
\* the root leaves the list of roots and follows them.
FreeParent(r, kids) ==
    /\ next' = [i \in Index |->
            IF i = r THEN (IF kids = <<>> THEN free ELSE Last(kids))
            ELSE IF i \in Range(kids)
                 THEN LET k == CHOOSE k \in DOMAIN kids : kids[k] = i
                      IN  IF k = 1 THEN free ELSE kids[k - 1]
            ELSE IF r # head /\ i = prev[r] THEN next[r]
            ELSE next[i]]
    /\ head' = IF r = head THEN next[r] ELSE head
    /\ IF r = tail THEN tail' = prev[r] /\ UNCHANGED prev
                   ELSE prev' = [prev EXCEPT ![next[r]] = prev[r]] /\ UNCHANGED tail
    /\ free' = r
    /\ root' = Restrict(root, DOMAIN root \ {r})
    /\ packet' = Restrict(packet, DOMAIN packet \ ({r} \cup Range(kids)))
    /\ size' = size - 1 - Len(kids)
    /\ UNCHANGED child

\* A response arrived for h: every packet that waits for it is sent, or dropped
\* if h is unreachable, and the nodes are freed.
Release(h) ==
    /\ HasRoot(h)
    /\ sent' = PacketsFor(h)
    /\ FreeParent(FindNode(h), Tail(Chain(FindNode(h))))

Next ==
    \E h \in Hops :
        \/ Release(h)
        \/ \E p \in Packets : Push(h, p) \/ PushChild(h, p)

Spec == Init /\ [][Next]_vars

-----------------------------------------------------------------------------

\* Links stay inside the pool (the end of a list may hold Capacity), the fields
\* of a node have their kind and the counters are within the capacity.
TypeOK ==
    /\ next \in [Index -> 0 .. Capacity]
    /\ prev \in [Index -> Index] /\ child \in [Index -> Index]
    /\ DOMAIN root \subseteq DOMAIN packet /\ DOMAIN packet \subseteq Index
    /\ Range(packet) \subseteq Packets
    /\ Range(root) \subseteq [hop : Hops, kids : 0 .. Capacity - 1, tail : Index]
    /\ size \in 0 .. Capacity
    /\ head \in 0 .. Capacity /\ tail \in Index /\ free \in 0 .. Capacity
    /\ sent \in Seq(Packets)

\* Every node of the pool is on the free list, is a root or is the child of one
\* root, and of nothing else: no node is lost and none is handed out twice,
\* although the three lists share the links of a node.
PoolPartitioned ==
    /\ IsInjective(Roots) /\ Range(Roots) = DOMAIN root
    /\ \A r \in DOMAIN root : IsInjective(Chain(r))
    /\ \A r, s \in DOMAIN root : r # s => Range(Chain(r)) \cap Range(Chain(s)) = {}
    /\ UNION {Range(Chain(r)) : r \in DOMAIN root} = DOMAIN packet
    /\ IsInjective(FreeNodes) /\ Range(FreeNodes) = Index \ DOMAIN packet
    /\ size = Cardinality(DOMAIN packet)
=============================================================================
