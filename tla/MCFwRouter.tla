----------------------------- MODULE MCFwRouter -----------------------------
(* The router with its requester, the pool of nodes behind its waiting packets   *)
(* and the routing table, on small instances: a behaviour picks one part and     *)
(* only it moves.                                                                *)
EXTENDS FwRouter, TLC

CONSTANTS
  Other,                        \* a third next hop for the pool
  PoolCapacity,                 \* its nodes
  Width, OwnIp, NextHops, RoutesCapacity, MaxRecursion          \* FwRoutes

VARIABLES
  part,                                                         \* the part that moves
  next, prev, child, node, root, size, head, tail, free, sent,  \* PacketQueue
  routes                                                        \* FwRoutes

queueVars == <<next, prev, child, node, root, size, head, tail, free, sent>>

PoolHops == Hops \cup {Other}

Pool == INSTANCE PacketQueue WITH Hops <- PoolHops, Capacity <- PoolCapacity, packet <- node

Routes == INSTANCE FwRoutes

\* Two interfaces whose addresses are two of four.
OwnIps == <<1, 2>>

ASSUME PoolAssumption == Pool!PacketQueueAssumption
ASSUME RoutesAssumption == Routes!FwRoutesAssumption

InitAll ==
  /\ part \in {"router", "pool", "routes"}
  /\ Init /\ Pool!Init /\ Routes!Init

NextAll ==
  /\ UNCHANGED part
  /\ \/ part = "router" /\ Next /\ UNCHANGED <<queueVars, routes>>
     \/ part = "pool" /\ Pool!Next /\ UNCHANGED <<vars, routes>>
     \/ part = "routes" /\ Routes!Next /\ UNCHANGED <<vars, queueVars>>

SpecAll == InitAll /\ [][NextAll]_<<part, vars, queueVars, routes>>

Waiting == INSTANCE WaitingPackets WITH
  Hops <- PoolHops, Capacity <- PoolCapacity, released <- sent,
  waiting <- [h \in PoolHops |-> Pool!PacketsFor(h)]

\* The pool of nodes implements the waiting packets of WaitingPackets: packets
\* leave in the order they came, and none is lost, duplicated or sent elsewhere,
\* although three kinds of lists share the links of a node.  Every step of the
\* pool is a step of the queues, and every node is in one list.
PoolImplementsQueue ==
  /\ Waiting!Init /\ [][part # "pool" \/ Waiting!Next]_queueVars
  /\ [](part = "pool" => Pool!TypeOK /\ Pool!PoolPartitioned)

\* Longest matches alone decide where a packet goes, whatever the order of the
\* table (include/lions/firewall/routing.h:187).
RouteExact == part = "routes" => Routes!RouteExact

\* A protected call changes one route and disturbs no traffic of another
\* (examples/firewall/routing/routing_table.c:104).
OtherRoutesStay == [][part = "routes" => Routes!OnlyItsTraffic]_<<part, routes>>

Symmetry == Permutations(Hops) \cup Permutations(Packets)
=============================================================================
