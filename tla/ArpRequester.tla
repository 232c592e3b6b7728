---------------------------- MODULE ArpRequester ----------------------------
(***************************************************************************)
(* The ARP requester of one interface (examples/firewall/arp/              *)
(* arp_requester.c over include/lions/firewall/arp.h): it answers the      *)
(* router and the webserver from a cache of addresses, asks the network,   *)
(* retries on a timer and flushes the cache.  The network answers a        *)
(* request at most once, late or never, and MaxExtra times without being   *)
(* asked or once more.  A response for which the router's queue has no     *)
(* room is discarded: nobody looks at what fw_enqueue returns.             *)
(*                                                                         *)
(* An address is found in a reply and carried along unchanged, so only the *)
(* state of an entry is kept.  A transmit buffer is always free: there are *)
(* as many as cache entries, and virtualiser and driver have the higher    *)
(* priority.  The webserver's responses are not followed.                  *)
(*                                                                         *)
(* The requester has a higher priority than its clients on the one core of *)
(* the system, so they run only while it is Blocked; it runs between any   *)
(* two of their steps when the timer or the network calls it.              *)
(***************************************************************************)
EXTENDS Integers, Sequences, FiniteSets, Functions

CONSTANTS
    Hops,           \* IP addresses asked for
    CacheCapacity,
    QueueCapacity,  \* of the queues to and from a client (arp_clients[client].capacity)
    MaxRetries,     \* ARP_MAX_RETRIES
    FlushTicks,     \* ARP_TICKS_PER_FLUSH
    MaxExtra        \* replies nobody waits for (model bound)

ASSUME ArpRequesterAssumption ==
    /\ CacheCapacity \in Nat \ {0} /\ QueueCapacity \in Nat \ {0}
    /\ MaxRetries \in Nat /\ FlushTicks \in Nat \ {0}
    /\ MaxExtra \in Nat

Router == 1
Webserver == 2
Clients == {Router, Webserver}

VARIABLES
    requests,   \* arp_req_queue of each client
    responses,  \* arp_resp_queue of the router
    table,      \* arp_table, which the router reads
    serving,    \* client whose requests process_requests is at, 0 if idle
    notify,     \* notify_client of the router
    asked,      \* clients whose notification is pending at the requester
    told,       \* its notification is pending at the router
    ticks,      \* ticks_to_flush
    wire,       \* addresses asked for on the network and not answered so far
    extra,      \* replies without a question so far
    discarded   \* hops whose response was discarded, until asked for again

requesterVars ==
    <<requests, responses, table, serving, notify, asked, told, ticks, wire, extra, discarded>>

Slots == 1 .. CacheCapacity
Invalid == [state |-> "invalid"]    \* its other fields are not kept

RequesterInit ==
    /\ requests = [c \in Clients |-> <<>>]
    /\ responses = <<>>
    /\ table = [i \in Slots |-> Invalid]
    /\ serving = 0
    /\ notify = FALSE
    /\ asked = {} /\ told = FALSE
    /\ ticks = FlushTicks
    /\ wire = {} /\ extra = 0 /\ discarded = {}

-----------------------------------------------------------------------------
(* The cache.                                                              *)

EntriesOf(h) == {i \in Slots : table[i].state # "invalid" /\ table[i].hop = h}

\* The first of some slots, 0 for NULL.
FirstOf(slots) == IF slots = {} THEN 0 ELSE CHOOSE i \in slots : \A j \in slots : i <= j

\* fw_arp_table_find_entry.
FindEntry(h) == FirstOf(EntriesOf(h))

FreeSlots == {i \in Slots : table[i].state = "invalid"}

\* fw_arp_table_add_entry for an address that has none; a full cache forgets it.
AddEntry(h, state, client) ==
    LET entry == [state |-> state, hop |-> h, clients |-> {client}, retries |-> 0]
    IN  IF FreeSlots = {} THEN table
        ELSE [table EXCEPT ![CHOOSE i \in FreeSlots : \A j \in FreeSlots : i <= j] = entry]

\* What the router is told of an entry.
Response(entry) == [hop |-> entry.hop, state |-> entry.state]

\* Responses for the entries of table t at slots, in order, to the router if
\* it is a client of theirs: as many as fit, and it is told of all.
Respond(t, slots) ==
    LET news == {i \in slots : Router \in t[i].clients}
        room == QueueCapacity - Len(responses)
        fit == IF Cardinality(news) <= room THEN Cardinality(news) ELSE room
    IN  /\ \E order \in [1 .. Cardinality(news) -> news] :
            /\ \A i, j \in DOMAIN order : i < j => order[i] < order[j]
            /\ responses' = responses \o [i \in 1 .. fit |-> Response(t[order[i]])]
            /\ discarded' = discarded \cup {t[order[i]].hop : i \in DOMAIN order \ 1 .. fit}
        /\ told' = (told \/ news # {})

-----------------------------------------------------------------------------
(* Its clients.                                                            *)

Blocked == serving = 0 /\ asked = {}

\* mpfirewall_handle_arp: the webserver asks, unless the queue is full.
WebserverAsks(h) ==
    /\ Blocked
    /\ Len(requests[Webserver]) < QueueCapacity
    /\ requests' = [requests EXCEPT ![Webserver] = Append(@, h)]
    /\ asked' = asked \cup {Webserver}
    /\ UNCHANGED <<responses, table, serving, notify, told, ticks, wire, extra, discarded>>

-----------------------------------------------------------------------------
(* notified().                                                             *)

NotifiedByClient(c) ==
    /\ serving = 0 /\ c \in asked
    /\ asked' = asked \ {c}
    /\ serving' = Router
    /\ UNCHANGED <<requests, responses, table, notify, told, ticks, wire, extra, discarded>>

RequestOf(c) ==
    /\ serving = c /\ requests[c] # <<>>
    /\ requests' = [requests EXCEPT ![c] = Tail(@)]

\* One round of process_requests: an entry that is settled answers at once,
\* where a full queue discards the response, a pending one notes the client, and
\* otherwise the network is asked.
AnswerRequest(c) ==
    /\ RequestOf(c)
    /\ LET e == FindEntry(Head(requests[c])) IN
        /\ e # 0 /\ table[e].state # "pending"
        /\ IF c = Router
           THEN /\ \/ /\ Len(responses) < QueueCapacity
                      /\ responses' = Append(responses, Response(table[e]))
                      /\ UNCHANGED discarded
                   \/ /\ Len(responses) = QueueCapacity
                      /\ discarded' = discarded \cup {table[e].hop}
                      /\ UNCHANGED responses
                /\ notify' = TRUE
           ELSE UNCHANGED <<responses, notify, discarded>>
    /\ UNCHANGED <<table, serving, asked, told, ticks, wire, extra>>

NoteClient(c, clients) ==
    /\ RequestOf(c)
    /\ LET e == FindEntry(Head(requests[c])) IN
        /\ e # 0 /\ table[e].state = "pending"
        /\ table' = [table EXCEPT ![e].clients = @ \cup clients]
    /\ UNCHANGED <<responses, serving, notify, asked, told, ticks, wire, extra, discarded>>

\* Seeded fault: a client that asks for a pending address is not noted.
ForgetRequest(c) == NoteClient(c, {})
JoinRequest(c) == NoteClient(c, {c})

AskNetwork(c) ==
    /\ RequestOf(c)
    /\ LET h == Head(requests[c]) IN
        /\ FindEntry(h) = 0
        /\ wire' = wire \cup {h}
        /\ table' = AddEntry(h, "pending", c)
    /\ UNCHANGED <<responses, serving, notify, asked, told, ticks, extra, discarded>>

\* The queue of a client is empty: the next client, or the notifications at the
\* end of notified().
NextClient ==
    /\ serving # 0 /\ requests[serving] = <<>>
    /\ IF serving = Router
       THEN serving' = Webserver /\ UNCHANGED <<notify, told>>
       ELSE serving' = 0 /\ told' = (told \/ notify) /\ notify' = FALSE
    /\ UNCHANGED <<requests, responses, table, asked, ticks, wire, extra, discarded>>

\* process_responses: an ARP reply from h, to a question or not.
Reply(h) ==
    /\ serving = 0
    /\ IF h \in wire THEN wire' = wire \ {h} /\ UNCHANGED extra
                     ELSE extra < MaxExtra /\ extra' = extra + 1 /\ UNCHANGED wire
    /\ LET e == FindEntry(h) IN
       IF e # 0
       THEN /\ table' = [table EXCEPT ![e].state = "reachable"]
            /\ Respond(table', {e})
       ELSE /\ table' = AddEntry(h, "reachable", Router)
            /\ UNCHANGED <<responses, told, discarded>>
    /\ UNCHANGED <<requests, serving, notify, asked, ticks>>

\* A timer tick that flushes nothing: process_retries gives up or asks again.
Retry ==
    /\ serving = 0 /\ ticks > 1
    /\ LET pending == {i \in Slots : table[i].state = "pending"}
           given == {i \in pending : table[i].retries >= MaxRetries}
       IN  /\ table' = [i \in Slots |->
                IF i \in given THEN [table[i] EXCEPT !.state = "unreachable"]
                ELSE IF i \in pending THEN [table[i] EXCEPT !.retries = @ + 1]
                ELSE table[i]]
           /\ Respond(table', given)
           /\ wire' = wire \cup {table[i].hop : i \in pending \ given}
    /\ ticks' = ticks - 1
    /\ UNCHANGED <<requests, serving, notify, asked, extra>>

\* arp_table_flush: every FlushTicks ticks all settled entries are forgotten.
Flush ==
    /\ serving = 0 /\ ticks = 1
    /\ table' = [i \in Slots |-> IF table[i].state = "pending" THEN table[i] ELSE Invalid]
    /\ ticks' = FlushTicks
    /\ UNCHANGED <<requests, responses, serving, notify, asked, told, wire, extra, discarded>>

Serve ==
    \/ \E c \in Clients : NotifiedByClient(c) \/ AnswerRequest(c) \/ JoinRequest(c) \/ AskNetwork(c)
    \/ NextClient
Tick == Retry \/ Flush

RequesterStep ==
    \/ \E h \in Hops : Reply(h)
    \/ Serve \/ Tick
=============================================================================
