------------------------------ MODULE FwFilter ------------------------------
(***************************************************************************)
(* The packet filters of one protocol, one per interface                   *)
(* (examples/firewall/filters) over include/lions/firewall/filter.h.  Each *)
(* filter owns a rule table, a bitmap of rule ids and a table of the       *)
(* connections its connect rules let through; it reads the connections of  *)
(* the other filters to let their return traffic pass.  The webserver      *)
(* changes rules by protected calls, which a filter serves between two     *)
(* packets.  Filters of equal priority preempt each other, so one filter   *)
(* looks up a packet while another changes the table it reads.             *)
(*                                                                         *)
(* The user interface gives port 0 with "any port", so a port of a rule is *)
(* a port number or AnyPort.  The rules a filter starts with are added by   *)
(* the same fw_filter_add_rule.  Printing is left out, and where the        *)
(* packet's buffer goes.                                                   *)
(***************************************************************************)
EXTENDS Integers, Sequences, SequencesExt, FiniteSets

CONSTANTS
    Filters,            \* the filters of this protocol
    Managed,            \* those whose rules the webserver changes
    Width,              \* bits of an address
    Ports, AnyPort,
    Shapes,             \* rules the webserver may add, without id and action
    Actions,            \* actions the filters support
    Packets,            \* packets that arrive
    RulesCapacity,
    InstancesCapacity

\* 2 ^ n.
Power[n \in 0 .. Width] == IF n = 0 THEN 1 ELSE 2 * Power[n - 1]

Addresses == 0 .. Power[Width] - 1
Endpoints == [ip : Addresses, port : Ports]
Nets == [ip : Addresses, len : 0 .. Width]
ShapeSet == [src : Nets, dst : Nets, sport : Ports \cup {AnyPort}, dport : Ports \cup {AnyPort}]

ASSUME FwFilterAssumption ==
    /\ IsFiniteSet(Filters) /\ Managed \subseteq Filters
    /\ Width \in Nat /\ AnyPort \notin Ports
    /\ Shapes \subseteq ShapeSet
    /\ Packets \subseteq [src : Endpoints, dst : Endpoints]
    /\ Actions \subseteq {"allow", "drop", "reject", "connect"}
    /\ RulesCapacity \in Nat \ {0} /\ InstancesCapacity \in Nat

DefaultId == 0          \* DEFAULT_ACTION_RULE_ID
RuleIds == 0 .. RulesCapacity - 1
Default(action) ==
    [id |-> DefaultId, action |-> action, src |-> [ip |-> 0, len |-> 0],
     dst |-> [ip |-> 0, len |-> 0], sport |-> AnyPort, dport |-> AnyPort]

VARIABLES
    rules,      \* rule_table of each filter; entry 1 is the default rule
    ids,        \* rule ids whose bit is set in rule_id_bitmap
    lastId,     \* last_allocated_rule_id
    instances,  \* internal_instances_table, read by the other filters
    pc,         \* what each filter is at
    pkt,        \* the packet it looks up
    unread,     \* neighbours whose table it has still to read, in order
    pos,        \* index in the table it reads, or removes from
    goneId,     \* rule_id of fw_filter_remove_instances
    verdict,    \* what it decided for its last packet
    seen,       \* history: a neighbour had the packet's connection, at some
    steady,     \*   time or at all times since the packet came
    raced       \* history: a neighbour removed instances in that time

tableVars == <<rules, ids, lastId>>
scanVars == <<pkt, unread, pos, verdict>>
watchVars == <<seen, steady, raced>>
vars == <<tableVars, instances, pc, scanVars, goneId, watchVars>>

NoPacket == [src |-> [ip |-> 0, port |-> AnyPort], dst |-> [ip |-> 0, port |-> AnyPort]]

Init ==
    /\ \E a \in Actions \ {"reject"} : rules = [f \in Filters |-> <<Default(a)>>]
    /\ ids = [f \in Filters |-> {DefaultId}]
    /\ lastId = [f \in Filters |-> DefaultId]
    /\ instances = [f \in Filters |-> <<>>]
    /\ pc = [f \in Filters |-> "idle"]
    /\ pkt = [f \in Filters |-> NoPacket]
    /\ unread = [f \in Filters |-> <<>>]
    /\ pos = [f \in Filters |-> 1]
    /\ goneId = [f \in Filters |-> DefaultId]
    /\ verdict = [f \in Filters |-> "none"]
    /\ seen = [f \in Filters |-> FALSE]
    /\ steady = [f \in Filters |-> FALSE]
    /\ raced = [f \in Filters |-> FALSE]

-----------------------------------------------------------------------------
(* Matching: fw_filter_find_action and the clash test.                     *)

\* subnet_mask(len) & ip
Mask(len, ip) == ip - (ip % Power[Width - len])
InNet(ip, net) == Mask(net.len, ip) = Mask(net.len, net.ip)

Matches(r, p) ==
    /\ r.sport \in {AnyPort, p.src.port} /\ r.dport \in {AnyPort, p.dst.port}
    /\ InNet(p.src.ip, r.src) /\ InNet(p.dst.ip, r.dst)

\* The loop of fw_filter_find_action prefers r to the match m it has so far:
\* first the longer source net, then destination net, then a source port.
MoreSpecific(r, m) ==
    \/ r.src.len > m.src.len
    \/ r.src.len = m.src.len /\ r.dst.len > m.dst.len
    \/ /\ r.src.len = m.src.len /\ r.dst.len = m.dst.len
       /\ \/ r.sport # AnyPort /\ m.sport = AnyPort
          \/ /\ r.sport = AnyPort <=> m.sport = AnyPort
             /\ r.dport # AnyPort /\ m.dport = AnyPort

FindRule(table, p) ==
    LET Better(r, m) == IF Matches(r, p) /\ MoreSpecific(r, m) THEN r ELSE m
        best[i \in DOMAIN table] == IF i = 1 THEN table[1] ELSE Better(table[i], best[i - 1])
    IN  best[Len(table)]

\* Seeded fault: rules of different actions are no clash.
ClashSameAction(s, action, r) ==
    /\ s.sport = r.sport /\ s.dport = r.dport /\ action = r.action
    /\ s.src.len = r.src.len /\ s.dst.len = r.dst.len
    /\ InNet(s.src.ip, r.src) /\ InNet(s.dst.ip, r.dst)

\* A new rule s clashes with r: same ports, same nets, whatever the actions.
Clash(s, action, r) ==
    /\ s.sport = r.sport /\ s.dport = r.dport
    /\ s.src.len = r.src.len /\ s.dst.len = r.dst.len
    /\ InNet(s.src.ip, r.src) /\ InNet(s.dst.ip, r.dst)

\* An instance of a neighbour names p as its return traffic.
Returns(inst, p) ==
    /\ inst.sport = p.dst.port /\ inst.dport = p.src.port
    /\ inst.sip = p.dst.ip /\ inst.dip = p.src.ip

-----------------------------------------------------------------------------
(* Histories: what the tables held while a filter read them.               *)

Removing == {f \in Filters : pc[f] \in {"remove", "moving"}}
Connected(f, p, tables) ==
    \E g \in Filters \ {f} : \E i \in DOMAIN tables[g] : Returns(tables[g][i], p)

\* racing are the filters that remove instances around this step.
Watch(racing) ==
    LET Keeps(f) == pc'[f] \in {"scan", "decide"}
        Looks(f) == pc'[f] = "scan"
    IN  /\ seen' = [f \in Filters |->
                Keeps(f) /\ (seen[f] \/ (Looks(f) /\ Connected(f, pkt[f], instances')))]
        /\ steady' = [f \in Filters |->
                Keeps(f) /\ steady[f] /\ (Looks(f) => Connected(f, pkt[f], instances'))]
        /\ raced' = [f \in Filters |->
                Keeps(f) /\ (raced[f] \/ (Looks(f) /\ racing \ {f} # {}))]

-----------------------------------------------------------------------------
(* filter(): one packet.                                                   *)

Receive(f, p) ==
    /\ pc[f] = "idle"
    /\ pc' = [pc EXCEPT ![f] = "scan"]
    /\ pkt' = [pkt EXCEPT ![f] = p]
    /\ unread' = [unread EXCEPT ![f] = SetToSeq(Filters \ {f})]
    /\ seen' = [seen EXCEPT ![f] = Connected(f, p, instances)]
    /\ steady' = [steady EXCEPT ![f] = Connected(f, p, instances)]
    /\ raced' = [raced EXCEPT ![f] = Removing # {}]
    /\ UNCHANGED <<tableVars, instances, pos, goneId, verdict>>

\* The loops of fw_filter_find_action over the neighbours' instances read one
\* entry after the other, each time against the size of that moment.
ScanEntry(f, i) ==
    /\ pc[f] = "scan" /\ unread[f] # <<>>
    /\ LET table == instances[Head(unread[f])] IN
       IF i > Len(table)
       THEN /\ unread' = [unread EXCEPT ![f] = Tail(@)]
            /\ pos' = [pos EXCEPT ![f] = 1]
            /\ UNCHANGED <<pc, verdict>>
       ELSE IF Returns(table[i], pkt[f])
       THEN /\ verdict' = [verdict EXCEPT ![f] = "established"]
            /\ pc' = [pc EXCEPT ![f] = "decide"]
            /\ unread' = [unread EXCEPT ![f] = <<>>]
            /\ pos' = [pos EXCEPT ![f] = 1]
       ELSE /\ pos' = [pos EXCEPT ![f] = @ + 1]
            /\ UNCHANGED <<pc, unread, verdict>>
    /\ UNCHANGED <<tableVars, instances, pkt, goneId, watchVars>>

\* Seeded fault: the first entry of a table is taken for a default.
ScanSkipsFirst(f) == ScanEntry(f, pos[f] + 1)

Scan(f) == ScanEntry(f, pos[f])

\* No neighbour knows the packet: the filter's own rules decide.
ScanEnds(f) ==
    /\ pc[f] = "scan" /\ unread[f] = <<>>
    /\ verdict' = [verdict EXCEPT ![f] = FindRule(rules[f], pkt[f]).action]
    /\ pc' = [pc EXCEPT ![f] = "decide"]
    /\ UNCHANGED <<tableVars, instances, pkt, unread, pos, goneId, watchVars>>

HasRoom(f) == Len(instances[f]) < InstancesCapacity

NewInstance(r, p) ==
    [rule |-> r.id, sip |-> p.src.ip, sport |-> p.src.port, dip |-> p.dst.ip, dport |-> p.dst.port]

\* The switch: a connect rule first adds its instance, unless the table is full
\* or has it.  The packet is then forwarded or dropped.
Decide(f) ==
    /\ pc[f] = "decide"
    /\ LET new == NewInstance(FindRule(rules[f], pkt[f]), pkt[f]) IN
       instances' = IF /\ verdict[f] = "connect"
                       /\ HasRoom(f)
                       /\ new \notin Range(instances[f])
                    THEN [instances EXCEPT ![f] = Append(@, new)]
                    ELSE instances
    /\ pc' = [pc EXCEPT ![f] = "idle"]
    /\ verdict' = [verdict EXCEPT ![f] = "none"]
    /\ pkt' = [pkt EXCEPT ![f] = NoPacket]
    /\ UNCHANGED <<tableVars, unread, pos, goneId>>
    /\ Watch(Removing)

-----------------------------------------------------------------------------
(* protected(): the calls of the webserver.                                *)

\* Seeded fault: the next id is taken without a look at the bitmap.
NextIdUnchecked(f) == 1 + (lastId[f] % (RulesCapacity - 1))

\* rules_reserve_id searches circularly from the last id it gave; its assert is
\* that it finds one.
NextId(f) ==
    LET At(i) == (lastId[f] + 1 + i) % RulesCapacity
        free == {i \in RuleIds : At(i) \notin ids[f]}
    IN  At(CHOOSE i \in free : \A j \in free : i <= j)

AddRule(f, shape, action) ==
    /\ pc[f] = "idle"
    /\ Len(rules[f]) < RulesCapacity
    /\ ~ \E i \in DOMAIN rules[f] : Clash(shape, action, rules[f][i])
    /\ LET new == [id |-> NextId(f), action |-> action, sport |-> shape.sport, dport |-> shape.dport,
                   src |-> [shape.src EXCEPT !.ip = Mask(shape.src.len, @)],
                   dst |-> [shape.dst EXCEPT !.ip = Mask(shape.dst.len, @)]]
       IN  rules' = [rules EXCEPT ![f] = Append(@, new)]
    /\ ids' = [ids EXCEPT ![f] = @ \cup {NextId(f)}]
    /\ lastId' = [lastId EXCEPT ![f] = NextId(f)]
    /\ UNCHANGED <<instances, pc, scanVars, goneId, watchVars>>

RuleOf(f, id) == CHOOSE i \in 2 .. Len(rules[f]) : rules[f][i].id = id

RemoveFrom(f, id, connects) ==
    /\ pc[f] = "idle"
    /\ id # DefaultId /\ id \in ids[f]
    /\ ids' = [ids EXCEPT ![f] = @ \ {id}]
    /\ IF connects
       THEN /\ pc' = [pc EXCEPT ![f] = "remove"]
            /\ goneId' = [goneId EXCEPT ![f] = id]
            /\ UNCHANGED rules
       ELSE /\ rules' = [rules EXCEPT ![f] = RemoveAt(@, RuleOf(f, id))]
            /\ UNCHANGED <<pc, goneId>>
    /\ UNCHANGED <<lastId, instances, scanVars>>
    /\ Watch(Removing)

\* Seeded fault: a removed connect rule leaves its instances.
RemoveRuleOnly(f, id) == RemoveFrom(f, id, FALSE)

\* fw_filter_remove_rule gives the id back and looks the rule up; a connect
\* rule's instances go before the rule itself.
RemoveRule(f, id) == RemoveFrom(f, id, rules[f][RuleOf(f, id)].action = "connect")

\* fw_filter_update_default_action.
SetDefault(f, action) ==
    /\ pc[f] = "idle"
    /\ action # rules[f][1].action
    /\ IF rules[f][1].action = "connect"
       THEN /\ pc' = [pc EXCEPT ![f] = "remove"]
            /\ goneId' = [goneId EXCEPT ![f] = DefaultId]
            /\ UNCHANGED rules
       ELSE /\ rules' = [rules EXCEPT ![f][1].action = action]
            /\ UNCHANGED <<pc, goneId>>
    /\ UNCHANGED <<ids, lastId, instances, scanVars>>
    /\ Watch(Removing)

-----------------------------------------------------------------------------
(* fw_filter_remove_instances, which the other filters may read under way. *)

RemoveSkip(f) ==
    /\ pc[f] = "remove"
    /\ pos[f] <= Len(instances[f]) /\ instances[f][pos[f]].rule # goneId[f]
    /\ pos' = [pos EXCEPT ![f] = @ + 1]
    /\ UNCHANGED <<tableVars, instances, pc, pkt, unread, verdict, goneId, watchVars>>

\* The last instance is copied over the one that goes, field by field: until
\* the copy is complete a reader sees any mixture of the two.
RemoveCopy(f) ==
    /\ pc[f] = "remove"
    /\ pos[f] <= Len(instances[f]) /\ instances[f][pos[f]].rule = goneId[f]
    /\ LET old == instances[f][pos[f]]
           new == Last(instances[f])
           mixtures == [rule : {old.rule, new.rule}, sip : {old.sip, new.sip},
                        sport : {old.sport, new.sport}, dip : {old.dip, new.dip},
                        dport : {old.dport, new.dport}]
       IN  \E torn \in mixtures : instances' = [instances EXCEPT ![f][pos[f]] = torn]
    /\ pc' = [pc EXCEPT ![f] = "moving"]
    /\ UNCHANGED <<tableVars, scanVars, goneId>>
    /\ Watch(Removing)

ShrinkTo(f, table) ==
    /\ pc[f] = "moving"
    /\ instances' = [instances EXCEPT ![f] = Front(table)]
    /\ pc' = [pc EXCEPT ![f] = "remove"]
    /\ UNCHANGED <<tableVars, scanVars, goneId>>
    /\ Watch(Removing)

\* Seeded fault: the last instance is cut off without having been copied.
ShrinkOnly(f) == ShrinkTo(f, instances[f])

\* The copy is complete and size-- takes the last entry away; the same index is
\* looked at again.
Shrink(f) == ShrinkTo(f, [instances[f] EXCEPT ![pos[f]] = Last(instances[f])])

\* The rest of fw_filter_remove_rule: shift the table; or of
\* fw_filter_update_default_action: set the new action, an argument that
\* nothing reads before and that is chosen here.
RemoveEnds(f) ==
    /\ pc[f] = "remove" /\ pos[f] > Len(instances[f])
    /\ IF goneId[f] # DefaultId
       THEN rules' = [rules EXCEPT ![f] = RemoveAt(@, RuleOf(f, goneId[f]))]
       ELSE \E a \in Actions \ {"connect"} : rules' = [rules EXCEPT ![f][1].action = a]
    /\ pc' = [pc EXCEPT ![f] = "idle"]
    /\ pos' = [pos EXCEPT ![f] = 1]
    /\ goneId' = [goneId EXCEPT ![f] = DefaultId]
    /\ UNCHANGED <<ids, lastId, instances, pkt, unread, verdict>>
    /\ Watch(Removing)

-----------------------------------------------------------------------------

Lookup(f) == (\E p \in Packets : Receive(f, p)) \/ Scan(f) \/ ScanEnds(f) \/ Decide(f)
Update(f) ==
    \/ \E s \in Shapes, a \in Actions : AddRule(f, s, a)
    \/ \E id \in RuleIds : RemoveRule(f, id)
    \/ \E a \in Actions : SetDefault(f, a)
Removal(f) == RemoveSkip(f) \/ RemoveCopy(f) \/ Shrink(f) \/ RemoveEnds(f)

Next ==
    \/ \E f \in Filters : Lookup(f)
    \/ \E f \in Managed : Update(f) \/ Removal(f)

Spec == Init /\ [][Next]_vars

-----------------------------------------------------------------------------
(* Properties.                                                             *)

\* The id being given back is still in the table while its instances go.
Leaving(f) == IF pc[f] \in {"remove", "moving"} THEN {goneId[f]} \ {DefaultId} ELSE {}

\* The bitmap is the set of ids in the table and no id is there twice: the
\* asserts of fw_filter_add_rule (an id is free when the table has room) and of
\* fw_filter_remove_rule (an allocated id has a rule) hold.  No table outgrows its
\* capacity.
RuleIdsExact ==
    \A f \in Filters :
        /\ {rules[f][i].id : i \in DOMAIN rules[f]} = ids[f] \cup Leaving(f)
        /\ \A i, j \in DOMAIN rules[f] : rules[f][i].id = rules[f][j].id => i = j
        /\ rules[f][1].id = DefaultId
        /\ Len(rules[f]) <= RulesCapacity /\ Len(instances[f]) <= InstancesCapacity

\* Of the rules that match a packet, the one fw_filter_find_action applies is
\* more specific than every other: two rules never tie, so the action does not
\* depend on the order in which rules were added and removed.
MostSpecificRuleApplies ==
    \A f \in Filters, p \in Packets :
        LET best == FindRule(rules[f], p) IN
        \A i \in DOMAIN rules[f] :
            Matches(rules[f][i], p) /\ rules[f][i] # best => MoreSpecific(best, rules[f][i])

\* An instance belongs to a connect rule of its filter, so a rule that gets a
\* freed id inherits no connections, nor does a new default action.
InstancesOwned ==
    \A f \in Filters : pc[f] # "moving" =>
        \A i \in DOMAIN instances[f] : \E j \in DOMAIN rules[f] :
            rules[f][j].id = instances[f][i].rule /\ rules[f][j].action = "connect"

\* Removing the connections of one rule costs no other rule a connection.
OtherConnectionsSurvive ==
    [][\A f \in Filters :
        \A inst \in Range(instances[f]) \ Range(instances'[f]) :
            \/ pc[f] = "remove" /\ inst.rule = goneId[f]
            \/ pc[f] = "moving" /\ inst = instances[f][pos[f]]]_vars

\* A lookup that no removal overlaps is as good as atomic: it calls a packet
\* return traffic only if a neighbour had its connection, and never misses one
\* that was there all the time.
LookupExact ==
    \A f \in Filters : pc[f] = "decide" /\ ~raced[f] =>
        /\ verdict[f] = "established" => seen[f]
        /\ verdict[f] # "established" => ~steady[f]
=============================================================================
