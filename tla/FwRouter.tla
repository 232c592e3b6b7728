------------------------------ MODULE FwRouter ------------------------------
(***************************************************************************)
(* The router for one outgoing interface (examples/firewall/routing/       *)
(* routing.c) with the ARP requester of that interface.  A packet whose    *)
(* next hop has no address yet waits in the packet waiting queue until the *)
(* requester responds.  The requester preempts the router and writes the   *)
(* cache the router reads, so each access of the router to it is a step of *)
(* its own; filters and webserver have lower priorities and run while the  *)
(* router is idle.                                                         *)
(*                                                                         *)
(* A packet is its buffer; its next hop is found by the routing table.     *)
(* Packets dropped, answered or given to the webserver before the look-up  *)
(* of the address touch nothing modelled here.                             *)
(***************************************************************************)
EXTENDS ArpRequester

CONSTANTS
    Packets,        \* receive buffers
    Capacity,       \* nodes of the packet waiting queue
    None            \* no packet, no hop

ASSUME FwRouterAssumption == Capacity \in Nat \ {0} /\ None \notin Packets \cup Hops

VARIABLES
    filtered,       \* packets in the queues of the filters
    waiting,        \* pkt_waiting_queue: packets in order for each next hop
    released,       \* packets taken out of it in the last step that used it
    rpc,            \* where the router is in notified()
    packet, hop,    \* the packet route() is at and its next hop
    arp,            \* slot of the cache entry it found, 0 if none
    notifyArp       \* notify_arp

routerVars == <<filtered, waiting, released, rpc, packet, hop, arp, notifyArp>>
vars == <<requesterVars, routerVars>>

Queue == INSTANCE WaitingPackets
QueueUnused == UNCHANGED waiting /\ released' = <<>>

Init ==
    /\ RequesterInit
    /\ Queue!Init
    /\ filtered = {}
    /\ rpc = "idle"
    /\ packet = None /\ hop = None /\ arp = 0
    /\ notifyArp = FALSE

-----------------------------------------------------------------------------
(* notified().                                                             *)

\* While the router was idle, the filters passed on some buffers that it does
\* not hold.
Filtered == filtered' \in SUBSET {p \in Packets : ~Queue!IsWaiting(p)}

\* A filter's notification: only route() is called.
NotifiedByFilter ==
    /\ rpc = "idle"
    /\ Filtered /\ filtered' # {}
    /\ rpc' = "route"
    /\ QueueUnused
    /\ UNCHANGED <<requesterVars, packet, hop, arp, notifyArp>>

NotifiedByArp ==
    /\ rpc = "idle" /\ told
    /\ told' = FALSE
    /\ Filtered
    /\ rpc' = "arp"
    /\ QueueUnused
    /\ UNCHANGED <<requests, responses, table, serving, notify, asked, ticks, wire, extra, discarded,
                   packet, hop, arp, notifyArp>>

\* process_arp_waiting: whatever the response says, the packets that wait for
\* it are sent or dropped.
ProcessResponse ==
    /\ rpc = "arp" /\ responses # <<>>
    /\ responses' = Tail(responses)
    /\ LET h == Head(responses).hop IN
       IF waiting[h] # <<>> THEN Queue!Release(h) ELSE QueueUnused
    /\ discarded' = discarded \ {Head(responses).hop}
    /\ UNCHANGED <<requests, table, serving, notify, asked, told, ticks, wire, extra,
                   filtered, rpc, packet, hop, arp, notifyArp>>

LeaveResponses ==
    /\ rpc = "arp"
    /\ rpc' = "route"
    /\ QueueUnused
    /\ UNCHANGED <<requesterVars, filtered, packet, hop, arp, notifyArp>>

\* Seeded fault: the loop ends before the queue is empty.
ResponsesDoneEarly == LeaveResponses /\ Len(responses) <= 1

ResponsesDone == LeaveResponses /\ responses = <<>>

\* The next packet of route() and the look-up of its next hop.
Route(p, h) ==
    /\ rpc = "route" /\ p \in filtered
    /\ filtered' = filtered \ {p}
    /\ packet' = p /\ hop' = h
    /\ arp' = FindEntry(h)
    /\ rpc' = "test"
    /\ QueueUnused
    /\ UNCHANGED <<requesterVars, notifyArp>>

State == IF arp = 0 THEN "none" ELSE table[arp].state
Unresolved == State \in {"none", "pending"}

\* Seeded fault: the pool of waiting packets is not looked at.
MustDropUnlessFull ==
    \/ State = "unreachable"
    \/ State = "none" /\ Len(requests[Router]) = QueueCapacity

\* Unreachable, or no space to store the packet or the request.
MustDrop ==
    \/ State = "unreachable"
    \/ Queue!NumWaiting = Capacity /\ Unresolved
    \/ State = "none" /\ Len(requests[Router]) = QueueCapacity

NextPacket ==
    /\ rpc' = "route"
    /\ packet' = None /\ hop' = None /\ arp' = 0

Drop ==
    /\ rpc = "test" /\ MustDrop
    /\ NextPacket
    /\ QueueUnused
    /\ UNCHANGED <<requesterVars, filtered, notifyArp>>

Keep ==
    /\ rpc = "test" /\ ~MustDrop
    /\ rpc' = "choose"
    /\ QueueUnused
    /\ UNCHANGED <<requesterVars, filtered, packet, hop, arp, notifyArp>>

\* Others already wait for the same hop.
Join ==
    /\ rpc = "choose" /\ Unresolved
    /\ waiting[hop] # <<>>
    /\ Queue!Wait(hop, packet)
    /\ NextPacket
    /\ UNCHANGED <<requesterVars, filtered, notifyArp>>

\* It is the first: request the address as well.
Request ==
    /\ rpc = "choose" /\ Unresolved
    /\ waiting[hop] = <<>>
    /\ requests' = [requests EXCEPT ![Router] = Append(@, hop)]
    /\ Queue!Wait(hop, packet)
    /\ notifyArp' = TRUE
    /\ NextPacket
    /\ discarded' = discarded \ {hop}
    /\ UNCHANGED <<responses, table, serving, notify, asked, told, ticks, wire, extra, filtered>>

\* Transmit to the address in the entry.
Transmit ==
    /\ rpc = "choose" /\ ~Unresolved
    /\ NextPacket
    /\ QueueUnused
    /\ UNCHANGED <<requesterVars, filtered, notifyArp>>

\* The queues of the filters are empty: send the notifications.
RouteEnds ==
    /\ rpc = "route" /\ filtered = {}
    /\ asked' = IF notifyArp THEN asked \cup {Router} ELSE asked
    /\ notifyArp' = FALSE
    /\ rpc' = "idle"
    /\ QueueUnused
    /\ UNCHANGED <<requests, responses, table, serving, notify, told, ticks, wire, extra, discarded,
                   filtered, packet, hop, arp>>

-----------------------------------------------------------------------------

Running ==
    \/ ProcessResponse \/ ResponsesDone
    \/ \E p \in Packets, h \in Hops : Route(p, h)
    \/ Drop \/ Keep \/ Join \/ Request \/ Transmit
    \/ RouteEnds

RouterStep == Blocked /\ (NotifiedByFilter \/ NotifiedByArp \/ Running)

WebserverStep == rpc = "idle" /\ ~told /\ \E h \in Hops : WebserverAsks(h)

Next ==
    \/ (RequesterStep \/ WebserverStep) /\ UNCHANGED routerVars
    \/ RouterStep

Spec == Init /\ [][Next]_vars

-----------------------------------------------------------------------------

\* Variables keep their kind; the cache never holds two entries for one address
\* (the comment at include/lions/firewall/arp.h:199) and no queue exceeds its
\* capacity.
TypeOK ==
    /\ \A c \in Clients : requests[c] \in Seq(Hops) /\ Len(requests[c]) <= QueueCapacity
    /\ \A i \in DOMAIN responses : responses[i].hop \in Hops /\ responses[i].state \in {"reachable", "unreachable"}
    /\ Len(responses) <= QueueCapacity
    /\ \A h \in Hops : Cardinality(EntriesOf(h)) <= 1
    /\ waiting \in [Hops -> Seq(Packets)]
    /\ rpc \in {"idle", "arp", "route", "test", "choose"}

\* Packets that wait for a next hop have a request for it under way
\* (examples/firewall/routing/routing.c:310, "ARP request already enqueued, add
\* node as child"): in the queue to the requester, in a pending entry that notes
\* the router as its client, or answered and not yet processed.  Otherwise
\* nothing need ever release them, since a waiting packet stops later ones from
\* requesting the address again.  The exception is a response for the hop that
\* the requester discarded while they waited because the router's queue was full
\* (examples/firewall/arp/arp_requester.c:97, :161 and :222).
WaitingHasRequest ==
    \A h \in Hops : waiting[h] # <<>> =>
        \/ h \in Range(requests[Router])
        \/ \E i \in EntriesOf(h) : table[i].state = "pending" /\ Router \in table[i].clients
        \/ \E i \in DOMAIN responses : responses[i].hop = h
        \/ h \in discarded

\* The asserts after pkt_waiting_push and pkt_waiting_push_child in route() hold
\* although the requester may change the entry between the test and the choice.
NodeForPacket == rpc = "choose" /\ Unresolved => Queue!NumWaiting < Capacity

\* The tables keep their form, and route() never finds the pool of nodes empty
\* when it has decided to keep a packet (examples/firewall/routing/routing.c:312).
RouterConsistent == TypeOK /\ NodeForPacket

\* What is in a queue has been announced to its reader, or its writer still has
\* the notification to send: nothing is left behind by a wake-up that is lost.
NoLostWakeup ==
    /\ responses # <<>> => told \/ notify \/ rpc = "arp"
    /\ requests[Router] # <<>> => notifyArp \/ Router \in asked \/ serving # 0
=============================================================================
