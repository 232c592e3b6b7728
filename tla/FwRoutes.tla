------------------------------ MODULE FwRoutes ------------------------------
(***************************************************************************)
(* The routing table of the router (examples/firewall/routing/             *)
(* routing_table.c), the protected calls by which the webserver changes it *)
(* and what route() makes of a packet's destination.  The router serves a  *)
(* protected call between two packets, so a change and a look-up are one   *)
(* step each.  A route is named by its place in the table.  A user may ask *)
(* to delete any place, since the list he has seen may be old.             *)
(***************************************************************************)
EXTENDS Integers, Sequences, SequencesExt, FiniteSets

CONSTANTS
    Width,          \* bits of an address
    OwnIp,          \* the firewall's address on each interface
    NextHops,       \* next hops a route may name, NoHop for none
    RoutesCapacity,
    MaxRecursion    \* FW_ROUTING_MAX_RECURSION

NoHop == 0          \* FW_ROUTING_NONEXTHOP
Power[n \in 0 .. Width] == IF n = 0 THEN 1 ELSE 2 * Power[n - 1]
Addresses == 0 .. Power[Width] - 1
Destinations == Addresses \ {NoHop}
Interfaces == DOMAIN OwnIp

FwRoutesAssumption ==
    /\ Width \in Nat \ {0} /\ RoutesCapacity \in Nat /\ MaxRecursion \in Nat \ {0}
    /\ OwnIp \in [Interfaces -> Destinations]
    /\ NextHops \subseteq Addresses

VARIABLE routes     \* routing_table: routes in use, in order

Init == routes = <<>>

-----------------------------------------------------------------------------
(* Finding a route.                                                        *)

\* subnet_mask(len) & ip
Mask(len, ip) == ip - (ip % Power[Width - len])
InSubnet(ip, r) == Mask(r.len, ip) = r.ip
Broadcast(ip, len) == Mask(len, ip) + (Power[Width - len] - 1)

NoMatch == [len |-> -1]
NoRoute == [hop |-> NoHop]

\* One look-up: of the routes that match the longest, of equals the last.
Stronger(r, m, ip) == IF InSubnet(ip, r) /\ m.len <= r.len THEN r ELSE m
Match(table, ip) ==
    LET match[n \in 0 .. Len(table)] ==
            IF n = 0 THEN NoMatch ELSE Stronger(table[n], match[n - 1], ip)
    IN  match[Len(table)]

\* The address a look-up leads to: the next hop of a route by way of one, else
\* the address itself.
Step(table, ip) ==
    LET m == Match(table, ip) IN IF m = NoMatch \/ m.hop = NoHop THEN ip ELSE m.hop

\* fw_routing_find_route: the next hop and the direct route to it.  A route by
\* way of a next hop is followed, and the last of MaxRecursion look-ups is to
\* find a direct route.
FindRoute(table, dst) ==
    LET ip[n \in 0 .. MaxRecursion - 1] == IF n = 0 THEN dst ELSE Step(table, ip[n - 1])
        hop == ip[MaxRecursion - 1]
        m == Match(table, hop)
    IN  IF m = NoMatch \/ m.hop # NoHop THEN NoRoute ELSE [hop |-> hop, route |-> m]

\* What route() does with a packet for dst that is not for the interface it came
\* by.  In a subnet of one host every destination is the broadcast address.
Forward(table, dst) ==
    LET found == FindRoute(table, dst) IN
    IF found = NoRoute \/ found.hop = OwnIp[found.route.interface] THEN "unreachable"
    ELSE IF Broadcast(found.hop, found.route.len) = dst THEN "broadcast"
    ELSE found

-----------------------------------------------------------------------------
(* Changing the table: protected().                                        *)

\* Seeded fault: the new address is compared as it was given.
ClashUnmasked(ip, len, r) == len = r.len /\ ip = r.ip

Clash(ip, len, r) == len = r.len /\ Mask(len, ip) = r.ip

Refuse(ip, len, interface, hop) ==
    LET clashes == {i \in DOMAIN routes : Clash(ip, len, routes[i])}
        first == routes[Min(clashes)]
    IN  IF len = 0 /\ hop = NoHop THEN "invalid"
        ELSE IF Len(routes) >= RoutesCapacity THEN "full"
        ELSE IF clashes = {} THEN "okay"
        ELSE IF first.interface = interface /\ first.hop = hop THEN "duplicate"
        ELSE "clash"

\* ROUTER_ADD_ROUTE; a call that is refused changes nothing.
AddRoute(ip, len, interface, hop) ==
    /\ Refuse(ip, len, interface, hop) = "okay"
    /\ routes' = Append(routes, [ip |-> Mask(len, ip), len |-> len,
                                 interface |-> interface, hop |-> hop])

\* Seeded fault: the last route in use is not moved up.
ShiftedShort(table, place) ==
    [i \in 1 .. Len(table) - 1 |->
        IF i < place \/ i = Len(table) - 1 THEN table[i] ELSE table[i + 1]]

\* generic_array_shift.
Shifted(table, place) ==
    [i \in 1 .. Len(table) - 1 |-> IF i < place THEN table[i] ELSE table[i + 1]]

\* ROUTER_DEL_ROUTE, which counts places from zero.
DeleteRoute(place) ==
    /\ place \in DOMAIN routes
    /\ routes' = Shifted(routes, place)

Next ==
    \/ \E ip \in Addresses, len \in 0 .. Width, i \in Interfaces, h \in NextHops :
            AddRoute(ip, len, i, h)
    \/ \E place \in 1 .. RoutesCapacity : DeleteRoute(place)

Spec == Init /\ [][Next]_routes

-----------------------------------------------------------------------------

\* The longest routes that contain an address.
Best(ip) ==
    {r \in Range(routes) : InSubnet(ip, r)
        /\ \A s \in Range(routes) : InSubnet(ip, s) => s.len <= r.len}

\* Ways from a destination over next hops, each given by the longest match of
\* the address before it; a way is whole if a direct route holds its end.
Ways(dst) ==
    {way \in {<<dst>> \o hops : hops \in BoundedSeq(Destinations, MaxRecursion - 1)} :
        \A i \in 2 .. Len(way) : \E r \in Best(way[i - 1]) : r.hop = way[i]}
WholeWays(dst) == {way \in Ways(dst) : \E r \in Best(Last(way)) : r.hop = NoHop}

\* A packet is sent to the end of the one way that longest matches give it, by
\* the interface of the direct route there, and dropped if there is none
\* (include/lions/firewall/routing.h:187): no two routes tie, so the order in
\* which routes were added and shifted by deletions does not matter.  Next hops
\* that lead to each other end the look-up, the firewall's own address is never
\* a next hop, and of a subnet only the last address is refused: the broadcast
\* address or, in a subnet of one host, the host itself.
RouteExact ==
    \A dst \in Destinations :
        /\ \A r, s \in Best(dst) : r = s
        /\ IF WholeWays(dst) = {} THEN Forward(routes, dst) = "unreachable"
           ELSE LET way == CHOOSE w \in WholeWays(dst) : TRUE
                    hop == Last(way)
                    direct == CHOOSE r \in Best(hop) : TRUE
                IN  Forward(routes, dst) =
                    IF hop = OwnIp[direct.interface] THEN "unreachable"
                    ELSE IF /\ InSubnet(dst, direct)
                            /\ \A ip \in Addresses : InSubnet(ip, direct) => ip <= dst
                         THEN "broadcast"
                    ELSE [hop |-> hop, route |-> direct]

\* A call changes at most one route, and only destinations whose way leads
\* through its subnet are forwarded differently: a deletion that shifts the
\* table disturbs no other traffic.
OnlyItsTraffic ==
    /\ \/ routes' = routes
       \/ \E r \in Range(routes) : Range(routes') = Range(routes) \ {r}
       \/ \E r \in Range(routes') : Range(routes) = Range(routes') \ {r}
    /\ \A dst \in Destinations :
        (\A r \in SymDiff(Range(routes), Range(routes')), way \in Ways(dst) : ~InSubnet(Last(way), r))
        => Forward(routes', dst) = Forward(routes, dst)
=============================================================================
