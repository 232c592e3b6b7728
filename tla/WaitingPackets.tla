--------------------------- MODULE WaitingPackets ---------------------------
(***************************************************************************)
(* What the router needs of its packet waiting queue                       *)
(* (include/lions/firewall/routing.h): packets that wait for the same next *)
(* hop are kept in the order they came, at most Capacity in all, and leave *)
(* together.  PacketQueue implements it with linked nodes.                 *)
(***************************************************************************)
EXTENDS Integers, Sequences, FiniteSets, Functions

CONSTANTS Hops, Packets, Capacity

VARIABLES
    waiting,    \* the packets that wait for each next hop
    released    \* those that left in the last step, in the order they left

IsWaiting(p) == \E h \in Hops : p \in Range(waiting[h])
\* A node holds one packet, and no packet waits twice.
NumWaiting == Cardinality({p \in Packets : IsWaiting(p)})

Init ==
    /\ waiting = [h \in Hops |-> <<>>]
    /\ released = <<>>

\* A packet that does not wait yet joins those with the same next hop.
Wait(h, p) ==
    /\ NumWaiting < Capacity
    /\ ~IsWaiting(p)
    /\ waiting' = [waiting EXCEPT ![h] = Append(@, p)]
    /\ released' = <<>>

\* The packets of one next hop are sent, or dropped, in order.
Release(h) ==
    /\ waiting[h] # <<>>
    /\ released' = waiting[h]
    /\ waiting' = [waiting EXCEPT ![h] = <<>>]

Next == \E h \in Hops : Release(h) \/ \E p \in Packets : Wait(h, p)

Spec == Init /\ [][Next]_<<waiting, released>>
=============================================================================
