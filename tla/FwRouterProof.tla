--------------------------- MODULE FwRouterProof ---------------------------
(***************************************************************************)
(* What holds of the router and its ARP requester for any numbers of next  *)
(* hops, packets, nodes, cache entries and retries; of the routing table   *)
(* for any interfaces, next hops, width of an address and number of        *)
(* look-ups; and of the pool of nodes behind the waiting packets, for any  *)
(* number of nodes.                                                        *)
(***************************************************************************)
EXTENDS MCFwRouter, FiniteSetTheorems, SequenceTheorems, WellFoundedInduction, TLAPS

\* The queue of requests has room for one request for each next hop: with the 512
\* places of the firewall, for the 254 of a network of 8 bits.
Dimensions ==
  /\ IsFiniteSet(Hops) /\ IsFiniteSet(Packets)
  /\ Cardinality(Hops) <= QueueCapacity

\* Every next hop finds a cache entry.
CacheSuffices == Cardinality(Hops) <= CacheCapacity

Entries == [state : {"pending", "reachable", "unreachable"}, hop : Hops,
            clients : SUBSET Clients, retries : Nat]
Answers == [hop : Hops, state : {"reachable", "unreachable"}]

\* Next hops with packets that wait.
Waited == {h \in Hops : waiting[h] # <<>>}

RequesterTypes ==
  /\ requests \in [Clients -> Seq(Hops)]
  /\ responses \in Seq(Answers)
  /\ table \in [Slots -> Entries \cup {Invalid}]
  /\ serving \in {0} \cup Clients
  /\ asked \subseteq Clients
  /\ notify \in BOOLEAN /\ told \in BOOLEAN

RouterTypes ==
  /\ waiting \in [Hops -> Seq(Packets)]
  /\ filtered \subseteq Packets
  /\ notifyArp \in BOOLEAN
  /\ rpc \in {"idle", "arp", "route", "test", "choose"}
  /\ rpc \in {"test", "choose"} => packet \in Packets /\ hop \in Hops /\ arp \in Slots \cup {0}

\* Two entries are for two addresses.
OneEntry ==
  \A i, j \in Slots :
    table[i].state # "invalid" /\ table[j].state # "invalid" /\ table[i].hop = table[j].hop => i = j

\* The router asks once for each next hop it has packets for, and no queue holds
\* more than its capacity.
AskedOnce ==
  /\ IsInjective(requests[Router])
  /\ Range(requests[Router]) \subseteq Waited
  /\ Len(responses) <= QueueCapacity /\ Len(requests[Webserver]) <= QueueCapacity

\* Who may run: the requester has nothing to do while the router works, and the
\* router's requests are read before the webserver's.
Turns ==
  /\ rpc # "idle" => Blocked
  /\ serving = Webserver => requests[Router] = <<>>
  /\ notifyArp => rpc \in {"route", "test", "choose"}
  /\ requests[Router] # <<>> => notifyArp \/ Router \in asked \/ serving = Router
  /\ responses # <<>> => told \/ notify \/ rpc = "arp"

\* Packets are with the filters, with route() or in the pool of nodes.
Apart ==
  /\ \A p \in filtered : ~Queue!IsWaiting(p)
  /\ rpc \in {"test", "choose"} => ~Queue!IsWaiting(packet) /\ packet \notin filtered

NodesSuffice == Queue!NumWaiting <= Capacity /\ NodeForPacket

IInv ==
  /\ RequesterTypes /\ RouterTypes
  /\ OneEntry /\ AskedOnce /\ Turns /\ Apart /\ NodesSuffice

-----------------------------------------------------------------------------
(* Sets and sequences.                                                     *)

\* A set of natural numbers has a least element.
LEMMA Least == ASSUME NEW S, S \subseteq Nat, S # {} PROVE \E i \in S : \A j \in S : i <= j
<1> DEFINE R == {ss \in Nat \X Nat : ss[1] < ss[2]}
<1>1. IsWellFoundedOn(R, Nat)
  BY NatLessThanWellFounded DEF OpToRel
<1>2. PICK x \in S : \A y \in S : <<y, x>> \notin R
  <2> HIDE DEF R
  <2> QED
    BY <1>1, WFMin
<1>3. \A y \in S : x <= y
  <2> SUFFICES ASSUME NEW y \in S, ~(x <= y) PROVE FALSE
    OBVIOUS
  <2>1. y < x /\ x \in Nat /\ y \in Nat
    OBVIOUS
  <2>2. <<y, x>> \in R
    BY <2>1
  <2> QED
    BY <2>2, <1>2
<1> QED
  BY <1>3

\* Two elements make a set larger than one.
LEMMA AtMostOne ==
  ASSUME NEW S, \A x, y \in S : x = y
  PROVE  Cardinality(S) <= 1
<1>1. CASE S = {}
  BY <1>1, FS_EmptySet
<1>2. CASE S # {}
  <2>1. PICK x : S = {x}
    BY <1>2
  <2>2. Cardinality({x}) = 1
    BY FS_Singleton
  <2> QED
    BY <2>1, <2>2
<1> QED
  BY <1>1, <1>2

\* A sequence without repetition is no longer than the set it draws from.
LEMMA DistinctLength ==
  ASSUME NEW S, IsFiniteSet(S), NEW T, NEW s \in Seq(T), IsInjective(s), Range(s) \subseteq S
  PROVE  Len(s) <= Cardinality(S)
<1>1. Len(s) \in Nat /\ DOMAIN s = 1 .. Len(s) /\ s \in [1 .. Len(s) -> T]
  BY LenProperties
<1>2. s \in [1 .. Len(s) -> S]
  BY <1>1 DEF Range
<1>3. s \in Injection(1 .. Len(s), S)
  BY <1>2 DEF Injection
<1>4. Cardinality(1 .. Len(s)) = Len(s)
  BY <1>1, FS_Interval
<1> QED
  BY <1>3, <1>4, FS_Injection

\* The set that an increasing numbering of a finite set of numbers reaches is all
\* of it.
LEMMA InOrder ==
  ASSUME NEW S, IsFiniteSet(S), S \subseteq Nat,
         NEW order \in [1 .. Cardinality(S) -> S],
         \A i, j \in 1 .. Cardinality(S) : i < j => order[i] < order[j]
  PROVE  \A x \in S : \E i \in 1 .. Cardinality(S) : order[i] = x
<1>1. Cardinality(S) \in Nat
  BY FS_CardinalityType
<1>2. \A i, j \in 1 .. Cardinality(S) : order[i] = order[j] => i = j
  <2>1. \A i, j \in 1 .. Cardinality(S) : i # j => i < j \/ j < i
    BY <1>1
  <2>2. \A i \in 1 .. Cardinality(S) : order[i] \in Nat
    OBVIOUS
  <2> QED
    BY <2>1, <2>2
<1>3. order \in Injection(1 .. Cardinality(S), S)
  BY <1>2 DEF Injection, IsInjective
<1>4. Cardinality(1 .. Cardinality(S)) = Cardinality(S)
  BY <1>1, FS_Interval
<1>5. order \in Surjection(1 .. Cardinality(S), S)
  BY <1>3, <1>4, FS_Injection
<1> QED
  BY <1>5 DEF Surjection

-----------------------------------------------------------------------------
(* The cache and the answers.                                              *)

LEMMA SlotsFacts == Slots \subseteq Nat /\ 0 \notin Slots /\ IsFiniteSet(Slots)
                    /\ Cardinality(Slots) = CacheCapacity
<1>1. CacheCapacity \in Nat /\ CacheCapacity > 0
  BY ArpRequesterAssumption
<1> QED
  BY <1>1, FS_Interval DEF Slots

\* fw_arp_table_find_entry finds an entry if there is one.
LEMMA Found ==
  ASSUME NEW h
  PROVE  /\ EntriesOf(h) = {} => FindEntry(h) = 0
         /\ EntriesOf(h) # {} => FindEntry(h) \in EntriesOf(h)
         /\ FindEntry(h) # 0 => FindEntry(h) \in EntriesOf(h)
<1>1. CASE EntriesOf(h) # {}
  <2>1. EntriesOf(h) \subseteq Nat
    BY SlotsFacts DEF EntriesOf
  <2>2. \E i \in EntriesOf(h) : \A j \in EntriesOf(h) : i <= j
    BY <1>1, <2>1, Least
  <2> QED
    BY <1>1, <2>2 DEF FindEntry, FirstOf
<1> QED
  BY <1>1 DEF FindEntry, FirstOf

\* fw_arp_table_add_entry writes one free slot, or nothing when there is none.
LEMMA Added ==
  ASSUME NEW h, NEW state, NEW client
  PROVE  \/ FreeSlots = {} /\ AddEntry(h, state, client) = table
         \/ \E i \in FreeSlots :
              AddEntry(h, state, client) =
                [table EXCEPT ![i] = [state |-> state, hop |-> h, clients |-> {client}, retries |-> 0]]
<1>1. CASE FreeSlots # {}
  <2>1. FreeSlots \subseteq Nat
    BY SlotsFacts DEF FreeSlots
  <2>2. PICK i \in FreeSlots : \A j \in FreeSlots : i <= j
    BY <1>1, <2>1, Least
  <2>3. (CHOOSE k \in FreeSlots : \A j \in FreeSlots : k <= j) \in FreeSlots
    BY <2>2
  <2> QED
    BY <1>1, <2>3 DEF AddEntry
<1> QED
  BY <1>1 DEF AddEntry

\* The requester has answered for h: the router has not read it, or it was discarded.
Answered(h) == (\E i \in DOMAIN responses : responses[i].hop = h) \/ h \in discarded

\* Answers behind the queue: the earlier ones stay.
LEMMA AnswersAppended ==
  ASSUME responses \in Seq(Answers), NEW s \in Seq(Answers), responses' = responses \o s,
         discarded \subseteq discarded'
  PROVE  /\ responses' \in Seq(Answers) /\ Len(responses') = Len(responses) + Len(s)
         /\ \A h : Answered(h) => Answered(h)'
         /\ \A i \in 1 .. Len(s) : Answered(s[i].hop)'
<1>1. /\ responses' \in Seq(Answers) /\ Len(responses') = Len(responses) + Len(s)
      /\ \A i \in 1 .. Len(responses) + Len(s) :
           responses'[i] = IF i <= Len(responses) THEN responses[i] ELSE s[i - Len(responses)]
  BY ConcatProperties
<1>2. /\ Len(responses) \in Nat /\ Len(s) \in Nat
      /\ DOMAIN responses = 1 .. Len(responses)
      /\ DOMAIN responses' = 1 .. Len(responses) + Len(s)
  BY <1>1, LenProperties
<1>3. ASSUME NEW h, Answered(h), h \notin discarded PROVE Answered(h)'
  <2>1. PICK i \in DOMAIN responses : responses[i].hop = h
    BY <1>3 DEF Answered
  <2>2. i \in DOMAIN responses' /\ i \in 1 .. Len(responses) + Len(s) /\ i <= Len(responses)
    BY <1>2
  <2>3. responses'[i] = responses[i]
    BY <1>1, <2>2
  <2> QED
    BY <2>1, <2>2, <2>3 DEF Answered
<1>4. ASSUME NEW i \in 1 .. Len(s) PROVE Answered(s[i].hop)'
  <2>1. /\ Len(responses) + i \in 1 .. Len(responses) + Len(s)
        /\ ~ (Len(responses) + i <= Len(responses)) /\ Len(responses) + i - Len(responses) = i
    BY <1>2
  <2>2. responses'[Len(responses) + i] = s[i]
    BY <1>1, <2>1
  <2> QED
    BY <1>2, <2>1, <2>2 DEF Answered
<1>5. ASSUME NEW h, h \in discarded PROVE Answered(h)'
  BY <1>5 DEF Answered
<1> QED
  BY <1>1, <1>3, <1>4, <1>5

\* Respond answers the router for each entry that names it, as far as the queue has
\* room, and tells it.
LEMMA Responds ==
  ASSUME responses \in Seq(Answers), told \in BOOLEAN,
         NEW t \in [Slots -> Entries \cup {Invalid}], NEW slots \in SUBSET Slots,
         \A i \in slots : t[i].state \in {"reachable", "unreachable"},
         Len(responses) <= QueueCapacity, Respond(t, slots)
  PROVE  /\ responses' \in Seq(Answers) /\ Len(responses') <= QueueCapacity
         /\ told' \in BOOLEAN /\ (told => told') /\ (responses' # <<>> => responses # <<>> \/ told')
         /\ \A h : Answered(h) => Answered(h)'
         /\ \A i \in slots : Router \in t[i].clients => Answered(t[i].hop)'
<1> DEFINE news == {i \in slots : Router \in t[i].clients}
<1>1. news \subseteq Nat /\ IsFiniteSet(news)
  BY SlotsFacts, FS_Subset
<1>2. PICK k : k = Cardinality(news)
  OBVIOUS
<1>3. k \in Nat
  BY <1>1, <1>2, FS_CardinalityType
<1> DEFINE room == QueueCapacity - Len(responses)
<1>15. PICK f : f = (IF k <= room THEN k ELSE room)
  OBVIOUS
<1>16. /\ f \in Nat /\ f <= k /\ Len(responses) \in Nat /\ Len(responses) + f <= QueueCapacity
       /\ room \in Nat
  <2>1. Len(responses) \in Nat /\ QueueCapacity \in Nat
    BY LenProperties, ArpRequesterAssumption
  <2> QED
    BY <1>3, <1>15, <2>1
<1>4. PICK order \in [1 .. k -> news] :
        /\ \A i, j \in 1 .. k : i < j => order[i] < order[j]
        /\ responses' = responses \o [i \in 1 .. f |-> Response(t[order[i]])]
        /\ discarded' = discarded \cup {t[order[i]].hop : i \in 1 .. k \ 1 .. f}
  BY <1>2, <1>15 DEF Respond
<1>5. told' = (told \/ news # {})
  BY DEF Respond
<1> HIDE DEF room
<1> DEFINE s == [i \in 1 .. f |-> Response(t[order[i]])]
<1>6. \A i \in slots : t[i] \in Entries
  BY DEF Invalid, Entries
<1>7. \A i \in 1 .. f : Response(t[order[i]]) \in Answers
  <2>1. \A i \in 1 .. f : order[i] \in news
    BY <1>3, <1>16
  <2> QED
    BY <1>6, <2>1 DEF Response, Answers, Entries
<1>8. s \in Seq(Answers) /\ Len(s) = f
  <2>1. s \in [1 .. f -> Answers]
    BY <1>7
  <2> QED
    BY <1>16, <2>1
<1>9. \A i \in 1 .. f : s[i].hop = t[order[i]].hop
  BY DEF Response
<1> HIDE DEF s
<1>10. /\ responses' \in Seq(Answers) /\ Len(responses') = Len(responses) + f
       /\ \A h : Answered(h) => Answered(h)'
       /\ \A i \in 1 .. f : Answered(s[i].hop)'
  BY <1>4, <1>8, AnswersAppended DEF s
<1>11. \A i \in news : Answered(t[i].hop)'
  <2>1. \A i \in news : \E j \in 1 .. k : order[j] = i
    <3>1. order \in [1 .. k -> news] /\ \A i, j \in 1 .. k : i < j => order[i] < order[j]
      BY <1>4
    <3> HIDE DEF news
    <3> QED
      BY <1>1, <1>2, <3>1, InOrder
  <2>2. \A j \in 1 .. k : Answered(t[order[j]].hop)'
    <3> SUFFICES ASSUME NEW j \in 1 .. k PROVE Answered(t[order[j]].hop)'
      OBVIOUS
    <3>1. CASE j \in 1 .. f
      BY <1>9, <1>10, <3>1
    <3>2. CASE j \notin 1 .. f
      BY <1>4, <3>2 DEF Answered
    <3> QED
      BY <3>1, <3>2
  <2> QED
    BY <2>1, <2>2
<1>12. responses' # <<>> => responses # <<>> \/ news # {}
  <2> SUFFICES ASSUME responses = <<>>, news = {} PROVE responses' = <<>>
    OBVIOUS
  <2>1. k = 0
    BY <1>2, FS_EmptySet
  <2>2. f = 0
    BY <2>1, <1>16
  <2> QED
    BY <2>2, <1>10, EmptySeq
<1>13. Len(responses') <= QueueCapacity
  BY <1>10, <1>16
<1> QED
  BY <1>5, <1>10, <1>11, <1>12, <1>13

-----------------------------------------------------------------------------
(* The requester's steps.                                                  *)

\* What is left of a queue when its first entry is taken.
LEMMA TailFacts ==
  ASSUME NEW S, NEW s \in Seq(S), s # <<>>
  PROVE  /\ Head(s) \in S /\ Tail(s) \in Seq(S) /\ Len(Tail(s)) = Len(s) - 1
         /\ Head(s) \in Range(s) /\ Range(Tail(s)) \subseteq Range(s)
         /\ \A x \in Range(s) : x = Head(s) \/ x \in Range(Tail(s))
         /\ IsInjective(s) => IsInjective(Tail(s))
<1>1. /\ Head(s) \in S /\ Tail(s) \in Seq(S) /\ Len(Tail(s)) = Len(s) - 1
      /\ \A i \in 1 .. Len(Tail(s)) : Tail(s)[i] = s[i+1]
  BY HeadTailProperties
<1>2. Len(s) \in Nat \ {0} /\ DOMAIN s = 1 .. Len(s) /\ DOMAIN Tail(s) = 1 .. Len(s) - 1
  BY <1>1, LenProperties, EmptySeq
<1>3. Head(s) = s[1]
  OBVIOUS
<1>4. \A i \in DOMAIN Tail(s) : i + 1 \in DOMAIN s /\ Tail(s)[i] = s[i + 1]
  BY <1>1, <1>2
<1>5. 1 \in DOMAIN s
  BY <1>2
<1>6. \A i \in DOMAIN s : i = 1 \/ (i - 1 \in DOMAIN Tail(s) /\ Tail(s)[i - 1] = s[i])
  <2> SUFFICES ASSUME NEW i \in DOMAIN s, i # 1
               PROVE  i - 1 \in DOMAIN Tail(s) /\ Tail(s)[i - 1] = s[i]
    OBVIOUS
  <2>1. i - 1 \in DOMAIN Tail(s) /\ (i - 1) + 1 = i
    BY <1>2
  <2> QED
    BY <1>4, <2>1
<1>7. IsInjective(s) => IsInjective(Tail(s))
  <2> SUFFICES ASSUME IsInjective(s), NEW i \in DOMAIN Tail(s), NEW j \in DOMAIN Tail(s),
                      Tail(s)[i] = Tail(s)[j]
               PROVE  i = j
    BY DEF IsInjective
  <2>1. i + 1 = j + 1
    BY <1>4 DEF IsInjective
  <2> QED
    BY <1>2, <2>1
<1>8. Head(s) \in Range(s)
  BY <1>3, <1>5 DEF Range
<1>9. Range(Tail(s)) \subseteq Range(s)
  BY <1>4 DEF Range
<1>10. \A x \in Range(s) : x = Head(s) \/ x \in Range(Tail(s))
  <2> SUFFICES ASSUME NEW i \in DOMAIN s PROVE s[i] = Head(s) \/ s[i] \in Range(Tail(s))
    BY DEF Range
  <2> QED
    BY <1>3, <1>6 DEF Range
<1> QED
  BY <1>1, <1>7, <1>8, <1>9, <1>10

\* A queue with one more entry behind it.
LEMMA AppendedFacts ==
  ASSUME NEW S, NEW s \in Seq(S), NEW x \in S
  PROVE  /\ Append(s, x) \in Seq(S) /\ Append(s, x) # <<>> /\ Len(Append(s, x)) = Len(s) + 1
         /\ Range(Append(s, x)) = Range(s) \cup {x}
         /\ IsInjective(s) /\ x \notin Range(s) => IsInjective(Append(s, x))
<1>1. PICK t : t = Append(s, x)
  OBVIOUS
<1>2. /\ t \in Seq(S) /\ Len(t) = Len(s) + 1
      /\ \A i \in 1 .. Len(s) : t[i] = s[i]
      /\ t[Len(s) + 1] = x
  BY <1>1, AppendProperties
<1>3. Len(s) \in Nat /\ DOMAIN s = 1 .. Len(s) /\ DOMAIN t = 1 .. Len(s) + 1
  BY <1>2, LenProperties
<1>4. DOMAIN t = DOMAIN s \cup {Len(s) + 1} /\ Len(s) + 1 \notin DOMAIN s
  BY <1>3
<1>5. \A i \in DOMAIN s : t[i] = s[i]
  BY <1>2, <1>3
<1>6. Range(t) = Range(s) \cup {x}
  BY <1>2, <1>4, <1>5 DEF Range
<1>7. IsInjective(s) /\ x \notin Range(s) => IsInjective(t)
  BY <1>2, <1>4, <1>5 DEF IsInjective, Range
<1>8. t # <<>>
  BY <1>3, <1>2, EmptySeq
<1> QED
  BY <1>1, <1>2, <1>6, <1>7, <1>8

LEMMA ClientsAre == Clients = {1, 2} /\ Router = 1 /\ Webserver = 2
BY DEF Clients, Router, Webserver

\* A request taken from the queue of a client.
LEMMA RequestTaken ==
  ASSUME IInv, NEW c \in Clients, RequestOf(c)
  PROVE  /\ rpc = "idle" /\ serving = c /\ Head(requests[c]) \in Hops
         /\ requests' \in [Clients -> Seq(Hops)]
         /\ IsInjective(requests'[Router])
         /\ Range(requests'[Router]) \subseteq Range(requests[Router])
         /\ Len(requests'[Router]) = Len(requests[Router]) - (IF c = Router THEN 1 ELSE 0)
         /\ Len(requests'[Webserver]) <= QueueCapacity
         /\ requests'[Router] # <<>> => requests[Router] # <<>>
         /\ c = Webserver => requests'[Router] = requests[Router]
         /\ c = Router => \A h \in Range(requests[Router]) :
                            h = Head(requests[c]) \/ h \in Range(requests'[Router])
<1>1. serving = c /\ requests[c] # <<>> /\ requests' = [requests EXCEPT ![c] = Tail(@)]
  BY DEF RequestOf
<1>2. rpc = "idle"
  BY <1>1, ClientsAre DEF IInv, Turns, Blocked
<1>3. requests \in [Clients -> Seq(Hops)] /\ requests[c] \in Seq(Hops)
  BY DEF IInv, RequesterTypes
<1> DEFINE q == requests[c]
<1> HIDE DEF q
<1>4. /\ Head(q) \in Hops /\ Tail(q) \in Seq(Hops) /\ Len(Tail(q)) = Len(q) - 1
      /\ Range(Tail(q)) \subseteq Range(q)
      /\ \A x \in Range(q) : x = Head(q) \/ x \in Range(Tail(q))
      /\ IsInjective(q) => IsInjective(Tail(q))
  BY <1>1, <1>3, TailFacts DEF q
<1>5. Len(requests[1]) \in Nat /\ Len(requests[2]) \in Nat /\ QueueCapacity \in Nat
  BY <1>3, ClientsAre, LenProperties, ArpRequesterAssumption
<1>6. requests' = [requests EXCEPT ![c] = Tail(q)]
  BY <1>1 DEF q
<1>7. IsInjective(requests[Router]) /\ Len(requests[Webserver]) <= QueueCapacity
  BY DEF IInv, AskedOnce
<1>8. requests' \in [Clients -> Seq(Hops)]
  BY <1>3, <1>4, <1>6
<1>9. CASE c = Router
  <2>1. requests'[Router] = Tail(q) /\ requests'[Webserver] = requests[Webserver] /\ q = requests[Router]
    BY <1>3, <1>6, <1>9, ClientsAre DEF q
  <2>2. q # <<>>
    BY <1>1 DEF q
  <2> QED
    BY <1>1, <1>2, <1>4, <1>5, <1>7, <1>8, <1>9, <2>1, <2>2, ClientsAre
<1>10. CASE c = Webserver
  <2>1. requests'[Webserver] = Tail(q) /\ requests'[Router] = requests[Router] /\ q = requests[Webserver]
    BY <1>3, <1>6, <1>10, ClientsAre DEF q
  <2> QED
    BY <1>1, <1>2, <1>4, <1>5, <1>7, <1>8, <1>10, <2>1, ClientsAre
<1> QED
  BY <1>9, <1>10 DEF Clients

\* A step of the requester leaves what the router holds alone, and makes no entry
\* pending while the router works.
LEMMA RouterKept ==
  ASSUME IInv, UNCHANGED routerVars, RequesterTypes',
         rpc = "idle" \/ \A i \in Slots : table'[i].state = "pending" => table[i].state = "pending"
  PROVE  RouterTypes' /\ Apart' /\ NodesSuffice' /\ Waited' = Waited
<1>1. /\ waiting' = waiting /\ filtered' = filtered /\ rpc' = rpc /\ packet' = packet
      /\ hop' = hop /\ arp' = arp /\ notifyArp' = notifyArp
  BY DEF routerVars
<1>2. RouterTypes' /\ Waited' = Waited
  BY <1>1 DEF IInv, RouterTypes, Waited
<1>3. \A p : Queue!IsWaiting(p)' = Queue!IsWaiting(p)
  BY <1>1 DEF Queue!IsWaiting
<1>4. Apart'
  BY <1>1, <1>3 DEF IInv, Apart
<1>5. Queue!NumWaiting' = Queue!NumWaiting
  BY <1>3 DEF Queue!NumWaiting
<1>6. NodeForPacket'
  <2>1. rpc = "choose" /\ Unresolved' => Unresolved
    <3> SUFFICES ASSUME rpc = "choose", Unresolved' PROVE Unresolved
      OBVIOUS
    <3>1. CASE arp = 0
      BY <3>1 DEF Unresolved, State
    <3>2. CASE arp # 0
      <4>1. arp \in Slots
        BY <3>2 DEF IInv, RouterTypes
      <4>2. table'[arp].state \in {"none", "pending"}
        BY <1>1, <3>2 DEF Unresolved, State
      <4>3. table'[arp].state # "none"
        BY <4>1 DEF RequesterTypes, Entries, Invalid
      <4> QED
        BY <3>2, <4>1, <4>2, <4>3 DEF Unresolved, State
    <3> QED
      BY <3>1, <3>2
  <2> QED
    BY <1>1, <1>5, <2>1 DEF IInv, NodesSuffice, NodeForPacket
<1> QED
  BY <1>2, <1>4, <1>5, <1>6 DEF IInv, NodesSuffice

LEMMA ByClientIInv ==
  ASSUME IInv, NEW c \in Clients, NotifiedByClient(c), UNCHANGED routerVars
  PROVE  IInv'
<1>1. /\ serving = 0 /\ c \in asked /\ asked' = asked \ {c} /\ serving' = Router
      /\ requests' = requests /\ responses' = responses /\ table' = table
      /\ notify' = notify /\ told' = told /\ rpc' = rpc /\ notifyArp' = notifyArp
  BY DEF NotifiedByClient, routerVars
<1>2. RequesterTypes'
  BY <1>1 DEF IInv, RequesterTypes, Clients
<1>3. RouterTypes' /\ Apart' /\ NodesSuffice' /\ Waited' = Waited
  BY <1>1, <1>2, RouterKept
<1>4. OneEntry' /\ AskedOnce'
  BY <1>1, <1>3 DEF IInv, OneEntry, AskedOnce
<1>5. Turns'
  BY <1>1, ClientsAre DEF IInv, Turns, Blocked
<1> QED
  BY <1>2, <1>3, <1>4, <1>5 DEF IInv

LEMMA NextClientIInv == ASSUME IInv, NextClient, UNCHANGED routerVars PROVE IInv'
<1>1. /\ serving # 0 /\ requests[serving] = <<>> /\ asked' = asked
      /\ requests' = requests /\ responses' = responses /\ table' = table
      /\ rpc' = rpc /\ notifyArp' = notifyArp
      /\ IF serving = Router THEN serving' = Webserver /\ notify' = notify /\ told' = told
         ELSE serving' = 0 /\ told' = (told \/ notify) /\ notify' = FALSE
  BY DEF NextClient, routerVars
<1>2. RequesterTypes'
  BY <1>1, ClientsAre DEF IInv, RequesterTypes
<1>3. RouterTypes' /\ Apart' /\ NodesSuffice' /\ Waited' = Waited
  BY <1>1, <1>2, RouterKept
<1>4. OneEntry' /\ AskedOnce'
  BY <1>1, <1>3 DEF IInv, OneEntry, AskedOnce
<1>5. rpc = "idle"
  BY <1>1 DEF IInv, Turns, Blocked
<1>6. serving \in {1, 2}
  BY <1>1, ClientsAre DEF IInv, RequesterTypes
<1>7. Turns'
  BY <1>1, <1>5, <1>6, ClientsAre DEF IInv, Turns, Blocked
<1> QED
  BY <1>2, <1>3, <1>4, <1>7 DEF IInv

\* The requests one shorter, and room for the answers.
LEMMA AccountKept ==
  ASSUME IInv, NEW c \in Clients, RequestOf(c), Waited' = Waited,
         responses' = responses \/ Len(responses') <= QueueCapacity
  PROVE  AskedOnce'
<1>1. /\ IsInjective(requests'[Router])
      /\ Range(requests'[Router]) \subseteq Range(requests[Router])
      /\ Len(requests'[Webserver]) <= QueueCapacity
  BY RequestTaken
<1> QED
  BY <1>1 DEF IInv, AskedOnce

LEMMA AnswerIInv ==
  ASSUME Dimensions, IInv, NEW c \in Clients, AnswerRequest(c), UNCHANGED routerVars
  PROVE  /\ IInv' /\ (\A h : Answered(h) => Answered(h)')
         /\ \A h : c = Router /\ h = Head(requests[c]) => Answered(h)'
<1>1. /\ RequestOf(c) /\ table' = table /\ serving' = serving /\ asked' = asked /\ told' = told
      /\ rpc' = rpc /\ notifyArp' = notifyArp
  BY DEF AnswerRequest, routerVars
<1>0. PICK h : h = Head(requests[c])
  OBVIOUS
<1> DEFINE e == FindEntry(h)
<1>2. /\ e # 0 /\ table[e].state # "pending"
      /\ IF c = Router
         THEN /\ notify' = TRUE
              /\ \/ /\ responses' = Append(responses, Response(table[e])) /\ discarded' = discarded
                    /\ Len(responses) < QueueCapacity
                 \/ responses' = responses /\ discarded' = discarded \cup {table[e].hop}
         ELSE responses' = responses /\ notify' = notify /\ discarded' = discarded
  BY <1>0 DEF AnswerRequest
<1>3. e \in Slots /\ table[e].state # "invalid" /\ table[e].hop = h
  BY <1>2, Found DEF EntriesOf
<1>4. Response(table[e]) \in Answers /\ Response(table[e]).hop = h
  BY <1>2, <1>3 DEF IInv, RequesterTypes, Entries, Invalid, Response, Answers
<1> HIDE DEF e
<1>5. /\ rpc = "idle" /\ serving = c /\ requests' \in [Clients -> Seq(Hops)]
      /\ (requests'[Router] # <<>> => requests[Router] # <<>>)
      /\ (c = Webserver => requests'[Router] = requests[Router])
  BY <1>1, RequestTaken
<1>6. /\ responses' \in Seq(Answers)
      /\ responses' = responses \/ Len(responses') <= QueueCapacity
      /\ \A g : Answered(g) => Answered(g)'
      /\ c = Router => Answered(h)'
  <2>1. CASE c = Router /\ responses' # responses
    <3>0. PICK answer : answer = Response(table[e])
      OBVIOUS
    <3> DEFINE s == <<answer>>
    <3>1. s \in Seq(Answers) /\ Len(s) = 1 /\ s[1] = answer
      BY <1>4, <3>0
    <3> HIDE DEF s
    <3>2. responses \in Seq(Answers)
      BY DEF IInv, RequesterTypes
    <3>3. /\ responses' = responses \o s /\ discarded \subseteq discarded'
          /\ Len(responses) < QueueCapacity
      BY <1>2, <1>4, <2>1, <3>0, <3>2 DEF s
    <3>4. /\ responses' \in Seq(Answers) /\ Len(responses') = Len(responses) + Len(s)
          /\ \A g : Answered(g) => Answered(g)'
          /\ \A i \in 1 .. Len(s) : Answered(s[i].hop)'
      BY <3>1, <3>2, <3>3, AnswersAppended
    <3>5. Len(responses') <= QueueCapacity
      <4>1. Len(responses) \in Nat /\ QueueCapacity \in Nat
        BY <3>2, LenProperties, ArpRequesterAssumption
      <4> QED
        BY <3>1, <3>3, <3>4, <4>1
    <3> QED
      BY <1>4, <2>1, <3>0, <3>1, <3>4, <3>5
  <2>2. CASE c # Router
    BY <1>2, <2>2 DEF Answered, IInv, RequesterTypes
  <2>3. CASE c = Router /\ responses' = responses
    <3>1. responses # Append(responses, Response(table[e]))
      <4>1. responses \in Seq(Answers)
        BY DEF IInv, RequesterTypes
      <4>2. Len(Append(responses, Response(table[e]))) = Len(responses) + 1 /\ Len(responses) \in Nat
        BY <1>4, <4>1, AppendProperties, LenProperties
      <4> QED
        BY <4>2
    <3>2. discarded' = discarded \cup {h}
      BY <1>2, <1>3, <2>3, <3>1
    <3> QED
      BY <2>3, <3>2 DEF Answered, IInv, RequesterTypes
  <2> QED
    BY <2>1, <2>2, <2>3
<1>7. RequesterTypes'
  BY <1>1, <1>2, <1>5, <1>6 DEF IInv, RequesterTypes
<1>8. RouterTypes' /\ Apart' /\ NodesSuffice' /\ Waited' = Waited
  BY <1>1, <1>7, RouterKept
<1>9. AskedOnce'
  BY <1>1, <1>6, <1>8, AccountKept
<1>10. OneEntry'
  BY <1>1 DEF IInv, OneEntry
<1>11. Turns'
  BY <1>1, <1>2, <1>5, ClientsAre DEF IInv, Turns, Blocked
<1> QED
  BY <1>0, <1>6, <1>7, <1>8, <1>9, <1>10, <1>11 DEF IInv

\* The requester will tell the router of h when the network answers or is given up.
Pending(h) == \E i \in EntriesOf(h) : table[i].state = "pending" /\ Router \in table[i].clients

\* An entry for an address that has none disturbs no other.
LEMMA EntryWritten ==
  ASSUME IInv, NEW h \in Hops, NEW state \in {"pending", "reachable"}, NEW c \in Clients,
         EntriesOf(h) = {}, table' = AddEntry(h, state, c)
  PROVE  /\ table' \in [Slots -> Entries \cup {Invalid}] /\ OneEntry'
         /\ \A g : Pending(g) => Pending(g)'
         /\ state = "pending" /\ c = Router /\ FreeSlots # {} => Pending(h)'
         /\ state = "reachable" => \A i \in Slots : table'[i].state = "pending" => table[i].state = "pending"
<1>1. table \in [Slots -> Entries \cup {Invalid}]
  BY DEF IInv, RequesterTypes
<1>2. CASE FreeSlots = {} /\ table' = table
  BY <1>1, <1>2 DEF IInv, OneEntry, Pending, EntriesOf
<1> DEFINE entry == [state |-> state, hop |-> h, clients |-> {c}, retries |-> 0]
<1>3. ASSUME NEW i \in FreeSlots, table' = [table EXCEPT ![i] = entry]
      PROVE  /\ table' \in [Slots -> Entries \cup {Invalid}] /\ OneEntry'
             /\ \A g : Pending(g) => Pending(g)'
             /\ state = "pending" /\ c = Router => Pending(h)'
             /\ state = "reachable" => \A j \in Slots : table'[j].state = "pending" => table[j].state = "pending"
  <2>1. i \in Slots /\ table[i].state = "invalid"
    BY DEF FreeSlots
  <2>2. entry \in Entries /\ entry.state = state /\ entry.hop = h /\ entry.clients = {c}
    BY DEF Entries
  <2> HIDE DEF entry
  <2>3. /\ table' \in [Slots -> Entries \cup {Invalid}] /\ table'[i] = entry
        /\ \A j \in Slots : j # i => table'[j] = table[j]
    BY <1>1, <1>3, <2>1, <2>2
  <2>4. \A j \in Slots : table[j].state # "invalid" => table[j].hop # h /\ j # i
    BY <2>1 DEF EntriesOf
  <2>5. OneEntry'
    <3> SUFFICES ASSUME NEW j \in Slots, NEW k \in Slots, table'[j].state # "invalid",
                        table'[k].state # "invalid", table'[j].hop = table'[k].hop
                 PROVE  j = k
      BY DEF OneEntry
    <3>1. CASE j # i /\ k # i
      BY <2>3, <3>1 DEF IInv, OneEntry
    <3>2. CASE j = i \/ k = i
      BY <2>2, <2>3, <2>4, <3>2
    <3> QED
      BY <3>1, <3>2
  <2>6. ASSUME NEW g, Pending(g) PROVE Pending(g)'
    <3>1. PICK j \in Slots : /\ table[j].state = "pending" /\ table[j].hop = g
                             /\ Router \in table[j].clients
      BY <2>6 DEF Pending, EntriesOf
    <3>2. table'[j] = table[j]
      BY <2>1, <2>3, <3>1
    <3> QED
      BY <3>1, <3>2 DEF Pending, EntriesOf
  <2>7. state = "pending" /\ c = Router => Pending(h)'
    BY <2>1, <2>2, <2>3 DEF Pending, EntriesOf
  <2> QED
    BY <2>1, <2>2, <2>3, <2>5, <2>6, <2>7
<1> QED
  <2>1. \/ FreeSlots = {} /\ table' = table
        \/ \E i \in FreeSlots : table' = [table EXCEPT ![i] = entry]
    BY Added
  <2> QED
    BY <1>2, <1>3, <2>1

LEMMA JoinIInv ==
  ASSUME Dimensions, IInv, NEW c \in Clients, JoinRequest(c), UNCHANGED routerVars
  PROVE  /\ IInv' /\ \A h : Pending(h) => Pending(h)'
         /\ \A h : c = Router /\ h = Head(requests[c]) => Pending(h)'
<1>1. /\ RequestOf(c) /\ responses' = responses /\ serving' = serving /\ asked' = asked
      /\ told' = told /\ notify' = notify /\ rpc' = rpc /\ notifyArp' = notifyArp
  BY DEF JoinRequest, NoteClient, routerVars
<1>2. PICK h : h = Head(requests[c])
  OBVIOUS
<1>3. PICK e : e = FindEntry(h)
  OBVIOUS
<1>4. e # 0 /\ table[e].state = "pending" /\ table' = [table EXCEPT ![e].clients = @ \cup {c}]
  BY <1>2, <1>3 DEF JoinRequest, NoteClient
<1>5. e \in Slots /\ table[e].hop = h
  BY <1>3, <1>4, Found DEF EntriesOf
<1>6. table \in [Slots -> Entries \cup {Invalid}] /\ table[e] \in Entries
  BY <1>4, <1>5 DEF IInv, RequesterTypes, Invalid
<1>7. /\ rpc = "idle" /\ serving = c /\ requests' \in [Clients -> Seq(Hops)]
      /\ (requests'[Router] # <<>> => requests[Router] # <<>>)
      /\ (c = Webserver => requests'[Router] = requests[Router])
  BY <1>1, RequestTaken
<1>8. /\ \A i \in Slots : i # e => table'[i] = table[i]
      /\ table'[e] \in Entries /\ table'[e].state = "pending" /\ table'[e].hop = h
      /\ table'[e].clients = table[e].clients \cup {c}
  BY <1>4, <1>5, <1>6 DEF Entries
<1>9. table' \in [Slots -> Entries \cup {Invalid}]
  BY <1>4, <1>6, <1>8
<1>10. RequesterTypes'
  BY <1>1, <1>7, <1>9 DEF IInv, RequesterTypes
<1>11. RouterTypes' /\ Apart' /\ NodesSuffice' /\ Waited' = Waited
  BY <1>7, <1>10, RouterKept
<1>12. AskedOnce'
  BY <1>1, <1>10, <1>11, AccountKept DEF RequesterTypes
<1>13. \A i \in Slots : table'[i].state = table[i].state
                        /\ (table[i].state # "invalid" => table'[i].hop = table[i].hop)
  BY <1>4, <1>5, <1>8
<1>14. OneEntry'
  BY <1>13 DEF IInv, OneEntry
<1>15. Turns'
  BY <1>1, <1>7, ClientsAre DEF IInv, Turns, Blocked
<1>16. \A g : Pending(g) => Pending(g)'
  <2> SUFFICES ASSUME NEW g, Pending(g) PROVE Pending(g)'
    OBVIOUS
  <2>1. PICK j \in Slots : /\ table[j].state = "pending" /\ table[j].hop = g
                           /\ Router \in table[j].clients
    BY DEF Pending, EntriesOf
  <2>2. table'[j].state = "pending" /\ table'[j].hop = g /\ Router \in table'[j].clients
    BY <1>4, <1>5, <1>8, <2>1
  <2> QED
    BY <2>1, <2>2 DEF Pending, EntriesOf
<1>17. c = Router => Pending(h)'
  BY <1>5, <1>8 DEF Pending, EntriesOf
<1> QED
  BY <1>2, <1>10, <1>11, <1>12, <1>14, <1>15, <1>16, <1>17 DEF IInv

LEMMA AskIInv ==
  ASSUME Dimensions, IInv, NEW c \in Clients, AskNetwork(c), UNCHANGED routerVars
  PROVE  /\ IInv' /\ \A h : Pending(h) => Pending(h)'
         /\ \A h : /\ c = Router /\ h = Head(requests[c]) => h \in Hops /\ EntriesOf(h) = {}
                   /\ c = Router /\ h = Head(requests[c]) /\ FreeSlots # {} => Pending(h)'
<1>1. /\ RequestOf(c) /\ responses' = responses /\ serving' = serving /\ asked' = asked
      /\ told' = told /\ notify' = notify /\ rpc' = rpc /\ notifyArp' = notifyArp
  BY DEF AskNetwork, routerVars
<1>2. PICK h : h = Head(requests[c])
  OBVIOUS
<1>3. FindEntry(h) = 0 /\ table' = AddEntry(h, "pending", c)
  BY <1>2 DEF AskNetwork
<1>4. /\ rpc = "idle" /\ serving = c /\ requests' \in [Clients -> Seq(Hops)] /\ h \in Hops
      /\ (requests'[Router] # <<>> => requests[Router] # <<>>)
      /\ (c = Webserver => requests'[Router] = requests[Router])
  BY <1>1, <1>2, RequestTaken
<1>5. EntriesOf(h) = {}
  BY <1>3, Found, SlotsFacts DEF EntriesOf
<1>6. /\ table' \in [Slots -> Entries \cup {Invalid}] /\ OneEntry'
      /\ \A g : Pending(g) => Pending(g)'
      /\ c = Router /\ FreeSlots # {} => Pending(h)'
  BY <1>3, <1>4, <1>5, EntryWritten
<1>7. RequesterTypes'
  BY <1>1, <1>4, <1>6 DEF IInv, RequesterTypes
<1>8. RouterTypes' /\ Apart' /\ NodesSuffice' /\ Waited' = Waited
  BY <1>4, <1>7, RouterKept
<1>9. AskedOnce'
  BY <1>1, <1>7, <1>8, AccountKept DEF RequesterTypes
<1>10. Turns'
  BY <1>1, <1>4, ClientsAre DEF IInv, Turns, Blocked
<1> QED
  BY <1>2, <1>4, <1>5, <1>6, <1>7, <1>8, <1>9, <1>10 DEF IInv

\* A reply or a retry changes no request, and its answers find room.
LEMMA AccountAnswered ==
  ASSUME IInv, requests' = requests, Waited' = Waited,
         responses' = responses \/ Len(responses') <= QueueCapacity
  PROVE  AskedOnce'
BY DEF IInv, AskedOnce

LEMMA ReplyIInv ==
  ASSUME Dimensions, IInv, NEW h \in Hops, Reply(h), UNCHANGED routerVars
  PROVE  /\ IInv' /\ \A g : Answered(g) => Answered(g)'
         /\ \A g : Pending(g) => Pending(g)' \/ Answered(g)'
<1>1. /\ serving = 0 /\ requests' = requests /\ serving' = serving /\ asked' = asked
      /\ notify' = notify /\ rpc' = rpc /\ notifyArp' = notifyArp
  BY DEF Reply, routerVars
<1>2. PICK e : e = FindEntry(h)
  OBVIOUS
<1>3. PICK t : t = table'
  OBVIOUS
<1>4. responses \in Seq(Answers) /\ told \in BOOLEAN /\ table \in [Slots -> Entries \cup {Invalid}]
  BY DEF IInv, RequesterTypes
<1>5. CASE e # 0
  <2>1. table' = [table EXCEPT ![e].state = "reachable"] /\ Respond(t, {e})
    BY <1>2, <1>3, <1>5 DEF Reply
  <2>2. e \in Slots /\ table[e].state # "invalid" /\ table[e].hop = h
    BY <1>2, <1>5, Found DEF EntriesOf
  <2>3. table[e] \in Entries
    BY <1>4, <2>2 DEF Invalid
  <2>4. /\ \A i \in Slots : i # e => t[i] = table[i]
        /\ t[e] \in Entries /\ t[e].state = "reachable" /\ t[e].hop = h
        /\ t[e].clients = table[e].clients
    BY <1>3, <1>4, <2>1, <2>2, <2>3 DEF Entries
  <2>5. t \in [Slots -> Entries \cup {Invalid}]
    BY <1>3, <1>4, <2>1, <2>4
  <2>6. /\ responses' \in Seq(Answers) /\ Len(responses') <= QueueCapacity
        /\ told' \in BOOLEAN /\ (told => told') /\ (responses' # <<>> => responses # <<>> \/ told')
        /\ \A g : Answered(g) => Answered(g)'
        /\ \A i \in {e} : Router \in t[i].clients => Answered(t[i].hop)'
    BY <1>4, <2>1, <2>2, <2>4, <2>5, Responds DEF IInv, AskedOnce
  <2>7. RequesterTypes'
    BY <1>1, <1>3, <2>5, <2>6 DEF IInv, RequesterTypes
  <2>8. \A i \in Slots : table'[i].state = "pending" => table[i].state = "pending"
    BY <1>3, <2>4
  <2>9. RouterTypes' /\ Apart' /\ NodesSuffice' /\ Waited' = Waited
    BY <2>7, <2>8, RouterKept
  <2>10. AskedOnce'
    BY <1>1, <2>6, <2>9, AccountAnswered
  <2>11. OneEntry'
    BY <1>3, <2>2, <2>4 DEF IInv, OneEntry
  <2>12. Turns'
    BY <1>1, <2>6 DEF IInv, Turns, Blocked
  <2>13. ASSUME NEW g, Pending(g) PROVE Pending(g)' \/ Answered(g)'
    <3>1. PICK j \in Slots : /\ table[j].state = "pending" /\ table[j].hop = g
                             /\ Router \in table[j].clients
      BY <2>13 DEF Pending, EntriesOf
    <3>2. CASE j # e
      BY <1>3, <2>4, <3>1, <3>2 DEF Pending, EntriesOf
    <3>3. CASE j = e
      BY <2>2, <2>4, <2>6, <3>1, <3>3
    <3> QED
      BY <3>2, <3>3
  <2> QED
    BY <2>6, <2>7, <2>9, <2>10, <2>11, <2>12, <2>13 DEF IInv
<1>6. CASE e = 0
  <2>1. /\ table' = AddEntry(h, "reachable", Router) /\ responses' = responses /\ told' = told
        /\ discarded' = discarded
    BY <1>2, <1>6 DEF Reply
  <2>2. EntriesOf(h) = {}
    BY <1>2, <1>6, Found, SlotsFacts DEF EntriesOf
  <2>3. /\ table' \in [Slots -> Entries \cup {Invalid}] /\ OneEntry'
        /\ \A g : Pending(g) => Pending(g)'
        /\ \A i \in Slots : table'[i].state = "pending" => table[i].state = "pending"
    BY <2>1, <2>2, EntryWritten DEF Clients
  <2>4. RequesterTypes'
    BY <1>1, <2>1, <2>3 DEF IInv, RequesterTypes
  <2>5. RouterTypes' /\ Apart' /\ NodesSuffice' /\ Waited' = Waited
    BY <2>3, <2>4, RouterKept
  <2>6. AskedOnce'
    BY <1>1, <1>4, <2>1, <2>5, AccountAnswered
  <2>7. Turns'
    BY <1>1, <2>1 DEF IInv, Turns, Blocked
  <2>8. \A g : Answered(g) => Answered(g)'
    BY <2>1 DEF Answered
  <2> QED
    BY <2>3, <2>4, <2>5, <2>6, <2>7, <2>8 DEF IInv
<1> QED
  BY <1>5, <1>6

LEMMA RetryIInv ==
  ASSUME Dimensions, IInv, Retry, UNCHANGED routerVars
  PROVE  /\ IInv' /\ \A g : Answered(g) => Answered(g)'
         /\ \A g : Pending(g) => Pending(g)' \/ Answered(g)'
<1>1. /\ serving = 0 /\ requests' = requests /\ serving' = serving /\ asked' = asked
      /\ notify' = notify /\ rpc' = rpc /\ notifyArp' = notifyArp
  BY DEF Retry, routerVars
<1>2. PICK given : given = {i \in {j \in Slots : table[j].state = "pending"} : table[i].retries >= MaxRetries}
  OBVIOUS
<1>3. PICK t : t = table'
  OBVIOUS
<1>4. /\ Respond(t, given)
      /\ table' = [i \in Slots |->
            IF i \in given THEN [table[i] EXCEPT !.state = "unreachable"]
            ELSE IF table[i].state = "pending" THEN [table[i] EXCEPT !.retries = @ + 1]
            ELSE table[i]]
  BY <1>2, <1>3 DEF Retry
<1>5. responses \in Seq(Answers) /\ told \in BOOLEAN /\ table \in [Slots -> Entries \cup {Invalid}]
  BY DEF IInv, RequesterTypes
<1>6. \A i \in Slots : table[i].state = "pending" => table[i] \in Entries
  BY <1>5 DEF Invalid
<1>7. \A i \in given : /\ i \in Slots /\ t[i] = [table[i] EXCEPT !.state = "unreachable"]
                       /\ table[i].state = "pending"
  BY <1>2, <1>3, <1>4
<1>8. ASSUME NEW i \in given
      PROVE  /\ t[i] \in Entries /\ t[i].state = "unreachable"
             /\ t[i].hop = table[i].hop /\ t[i].clients = table[i].clients
  <2>1. t[i] = [table[i] EXCEPT !.state = "unreachable"] /\ table[i] \in Entries
    BY <1>6, <1>7
  <2> QED
    BY <2>1 DEF Entries
<1>9. ASSUME NEW i \in Slots, i \notin given, table[i].state = "pending"
      PROVE  /\ t[i] \in Entries /\ t[i].state = "pending"
             /\ t[i].hop = table[i].hop /\ t[i].clients = table[i].clients
  <2>1. t[i] = [table[i] EXCEPT !.retries = @ + 1]
    BY <1>3, <1>4, <1>9
  <2>2. table[i] \in Entries
    BY <1>6, <1>9
  <2> QED
    BY <1>9, <2>1, <2>2 DEF Entries
<1>10. \A i \in Slots : i \notin given /\ table[i].state # "pending" => t[i] = table[i]
  BY <1>3, <1>4
<1>11. t \in [Slots -> Entries \cup {Invalid}]
  <2>1. \A i \in Slots : t[i] \in Entries \cup {Invalid}
    BY <1>5, <1>8, <1>9, <1>10
  <2>2. t = [i \in Slots |-> t[i]]
    BY <1>3, <1>4
  <2> QED
    BY <2>1, <2>2
<1>12. /\ responses' \in Seq(Answers) /\ Len(responses') <= QueueCapacity
       /\ told' \in BOOLEAN /\ (told => told') /\ (responses' # <<>> => responses # <<>> \/ told')
       /\ \A g : Answered(g) => Answered(g)'
       /\ \A i \in given : Router \in t[i].clients => Answered(t[i].hop)'
  BY <1>4, <1>5, <1>7, <1>8, <1>11, Responds DEF IInv, AskedOnce
<1>13. RequesterTypes'
  BY <1>1, <1>3, <1>11, <1>12 DEF IInv, RequesterTypes
<1>14. \A i \in Slots : table'[i].state = "pending" => table[i].state = "pending"
  BY <1>3, <1>7, <1>10
<1>15. RouterTypes' /\ Apart' /\ NodesSuffice' /\ Waited' = Waited
  BY <1>13, <1>14, RouterKept
<1>16. AskedOnce'
  BY <1>1, <1>12, <1>15, AccountAnswered
<1>17. OneEntry'
  <2>1. \A i \in Slots : table'[i].state # "invalid" =>
          table[i].state # "invalid" /\ table'[i].hop = table[i].hop
    BY <1>3, <1>7, <1>8, <1>9, <1>10
  <2> QED
    BY <2>1 DEF IInv, OneEntry
<1>18. Turns'
  BY <1>1, <1>12 DEF IInv, Turns, Blocked
<1>19. ASSUME NEW g, Pending(g) PROVE Pending(g)' \/ Answered(g)'
  <2>1. PICK j \in Slots : /\ table[j].state = "pending" /\ table[j].hop = g
                           /\ Router \in table[j].clients
    BY <1>19 DEF Pending, EntriesOf
  <2>2. CASE j \notin given
    BY <1>3, <1>9, <2>1, <2>2 DEF Pending, EntriesOf
  <2>3. CASE j \in given
    BY <1>8, <1>12, <2>1, <2>3
  <2> QED
    BY <2>2, <2>3
<1> QED
  BY <1>12, <1>13, <1>15, <1>16, <1>17, <1>18, <1>19 DEF IInv

LEMMA FlushIInv ==
  ASSUME Dimensions, IInv, Flush, UNCHANGED routerVars
  PROVE  IInv' /\ \A g : Pending(g) => Pending(g)'
<1>1. /\ serving = 0 /\ requests' = requests /\ serving' = serving /\ asked' = asked
      /\ responses' = responses /\ told' = told
      /\ notify' = notify /\ rpc' = rpc /\ notifyArp' = notifyArp
      /\ table' = [i \in Slots |-> IF table[i].state = "pending" THEN table[i] ELSE Invalid]
  BY DEF Flush, routerVars
<1>2. RequesterTypes'
  BY <1>1 DEF IInv, RequesterTypes
<1>3. /\ \A i \in Slots : table[i].state = "pending" => table'[i] = table[i]
      /\ \A i \in Slots : table'[i].state # "invalid" => table[i].state = "pending" /\ table'[i] = table[i]
  BY <1>1 DEF Invalid
<1>4. RouterTypes' /\ Apart' /\ NodesSuffice' /\ Waited' = Waited
  <2>1. \A i \in Slots : table'[i].state = "pending" => table[i].state = "pending"
    BY <1>3
  <2> QED
    BY <1>2, <2>1, RouterKept
<1>5. AskedOnce' /\ Turns'
  BY <1>1, <1>4 DEF IInv, AskedOnce, Turns, Blocked
<1>6. OneEntry'
  BY <1>3 DEF IInv, OneEntry
<1>7. \A g : Pending(g) => Pending(g)'
  BY <1>3 DEF Pending, EntriesOf
<1> QED
  BY <1>2, <1>4, <1>5, <1>6, <1>7 DEF IInv

LEMMA WebserverIInv ==
  ASSUME Dimensions, IInv, WebserverStep, UNCHANGED routerVars
  PROVE  IInv' /\ requests'[Router] = requests[Router]
<1>1. PICK h \in Hops : WebserverAsks(h)
  BY DEF WebserverStep
<1>2. /\ serving = 0 /\ asked = {} /\ Len(requests[Webserver]) < QueueCapacity
      /\ requests' = [requests EXCEPT ![Webserver] = Append(@, h)]
      /\ asked' = asked \cup {Webserver} /\ serving' = serving
      /\ responses' = responses /\ table' = table /\ told' = told
      /\ notify' = notify /\ rpc' = rpc /\ notifyArp' = notifyArp /\ rpc = "idle"
  BY <1>1 DEF WebserverAsks, WebserverStep, Blocked, routerVars
<1>3. PICK q : q = requests[Webserver]
  OBVIOUS
<1>4. requests \in [Clients -> Seq(Hops)] /\ q \in Seq(Hops)
  BY <1>3, ClientsAre DEF IInv, RequesterTypes
<1>5. Append(q, h) \in Seq(Hops) /\ Len(Append(q, h)) = Len(q) + 1
  BY <1>4, AppendProperties
<1>6. /\ requests' \in [Clients -> Seq(Hops)]
      /\ requests'[Router] = requests[Router] /\ requests'[Webserver] = Append(q, h)
  BY <1>2, <1>3, <1>4, <1>5, ClientsAre
<1>7. RequesterTypes'
  BY <1>2, <1>6, ClientsAre DEF IInv, RequesterTypes
<1>8. RouterTypes' /\ Apart' /\ NodesSuffice' /\ Waited' = Waited
  BY <1>2, <1>7, RouterKept
<1>9. AskedOnce'
  <2>1. Len(q) \in Nat /\ QueueCapacity \in Nat
    BY <1>4, LenProperties, ArpRequesterAssumption
  <2>2. Len(requests'[Webserver]) <= QueueCapacity
    BY <1>2, <1>3, <1>5, <1>6, <2>1
  <2> QED
    BY <1>2, <1>6, <1>8, <2>2 DEF IInv, AskedOnce
<1>10. OneEntry'
  BY <1>2 DEF IInv, OneEntry
<1>11. Turns'
  BY <1>2, <1>6, ClientsAre DEF IInv, Turns, Blocked
<1> QED
  BY <1>6, <1>7, <1>8, <1>9, <1>10, <1>11 DEF IInv

-----------------------------------------------------------------------------
(* The packets that wait.                                                  *)

\* The instance of the queue has names of its own for the operators of the library.
LEMMA QueueRange == ASSUME NEW f PROVE Queue!Range(f) = Range(f)
BY DEF Range, Queue!Range

LEMMA QueueCardinality == ASSUME NEW S PROVE Queue!Cardinality(S) = Cardinality(S)
BY DEF Cardinality, Queue!Cardinality

-----------------------------------------------------------------------------
(* The router's steps.                                                     *)

\* What a step of the router that leaves the requester and the queue of packets
\* alone must see to.
LEMMA RequesterKept ==
  ASSUME IInv, waiting' = waiting, requests' = requests, responses' = responses, table' = table,
         serving' = serving, notify' = notify
  PROVE  /\ Waited' = Waited /\ OneEntry' /\ AskedOnce'
         /\ Queue!NumWaiting' = Queue!NumWaiting
         /\ \A p : Queue!IsWaiting(p)' = Queue!IsWaiting(p)
<1>1. \A p : Queue!IsWaiting(p)' = Queue!IsWaiting(p)
  BY DEF Queue!IsWaiting
<1>2. Waited' = Waited
  BY DEF Waited
<1> QED
  BY <1>1, <1>2 DEF IInv, OneEntry, AskedOnce, Queue!NumWaiting

LEMMA ByFilterIInv == ASSUME IInv, NotifiedByFilter, Blocked PROVE IInv'
<1>1. /\ rpc = "idle" /\ rpc' = "route" /\ waiting' = waiting
      /\ filtered' \in SUBSET {p \in Packets : ~Queue!IsWaiting(p)}
      /\ requests' = requests /\ responses' = responses /\ table' = table /\ serving' = serving
      /\ notify' = notify /\ asked' = asked /\ told' = told /\ notifyArp' = notifyArp
  BY DEF NotifiedByFilter, Filtered, QueueUnused, requesterVars
<1>2. RequesterTypes' /\ RouterTypes'
  BY <1>1 DEF IInv, RequesterTypes, RouterTypes
<1>3. /\ OneEntry' /\ AskedOnce' /\ Queue!NumWaiting' = Queue!NumWaiting
      /\ \A p : Queue!IsWaiting(p)' = Queue!IsWaiting(p)
  BY <1>1, RequesterKept
<1>4. Turns' /\ Apart' /\ NodesSuffice'
  BY <1>1, <1>3 DEF IInv, Turns, Blocked, Apart, NodesSuffice, NodeForPacket
<1> QED
  BY <1>2, <1>3, <1>4 DEF IInv

LEMMA ByArpIInv == ASSUME IInv, NotifiedByArp, Blocked PROVE IInv'
<1>1. /\ rpc = "idle" /\ rpc' = "arp" /\ waiting' = waiting
      /\ filtered' \in SUBSET {p \in Packets : ~Queue!IsWaiting(p)}
      /\ requests' = requests /\ responses' = responses /\ table' = table /\ serving' = serving
      /\ notify' = notify /\ asked' = asked /\ told' = FALSE /\ notifyArp' = notifyArp
  BY DEF NotifiedByArp, Filtered, QueueUnused
<1>2. RequesterTypes' /\ RouterTypes'
  BY <1>1 DEF IInv, RequesterTypes, RouterTypes
<1>3. /\ OneEntry' /\ AskedOnce' /\ Queue!NumWaiting' = Queue!NumWaiting
      /\ \A p : Queue!IsWaiting(p)' = Queue!IsWaiting(p)
  BY <1>1, RequesterKept
<1>4. Turns' /\ Apart' /\ NodesSuffice'
  BY <1>1, <1>3 DEF IInv, Turns, Blocked, Apart, NodesSuffice, NodeForPacket
<1> QED
  BY <1>2, <1>3, <1>4 DEF IInv

LEMMA ResponsesDoneIInv == ASSUME IInv, ResponsesDone PROVE IInv'
<1>1. /\ rpc = "arp" /\ rpc' = "route" /\ waiting' = waiting /\ filtered' = filtered
      /\ responses = <<>>
      /\ requests' = requests /\ responses' = responses /\ table' = table /\ serving' = serving
      /\ notify' = notify /\ asked' = asked /\ told' = told /\ notifyArp' = notifyArp
  BY DEF ResponsesDone, LeaveResponses, QueueUnused, requesterVars
<1>2. RequesterTypes' /\ RouterTypes'
  BY <1>1 DEF IInv, RequesterTypes, RouterTypes
<1>3. /\ OneEntry' /\ AskedOnce' /\ Queue!NumWaiting' = Queue!NumWaiting
      /\ \A p : Queue!IsWaiting(p)' = Queue!IsWaiting(p)
  BY <1>1, RequesterKept
<1>4. Turns' /\ Apart' /\ NodesSuffice'
  BY <1>1, <1>3 DEF IInv, Turns, Blocked, Apart, NodesSuffice, NodeForPacket
<1> QED
  BY <1>2, <1>3, <1>4 DEF IInv

LEMMA RouteEndsIInv == ASSUME IInv, RouteEnds PROVE IInv'
<1>1. /\ rpc = "route" /\ rpc' = "idle" /\ waiting' = waiting /\ filtered' = filtered
      /\ requests' = requests /\ responses' = responses /\ table' = table /\ serving' = serving
      /\ notify' = notify /\ told' = told /\ notifyArp' = FALSE
      /\ asked' = IF notifyArp THEN asked \cup {Router} ELSE asked
  BY DEF RouteEnds, QueueUnused
<1>2. RequesterTypes' /\ RouterTypes'
  BY <1>1 DEF IInv, RequesterTypes, RouterTypes, Clients
<1>3. /\ OneEntry' /\ AskedOnce' /\ Queue!NumWaiting' = Queue!NumWaiting
      /\ \A p : Queue!IsWaiting(p)' = Queue!IsWaiting(p)
  BY <1>1, RequesterKept
<1>4. Turns' /\ Apart' /\ NodesSuffice'
  BY <1>1, <1>3 DEF IInv, Turns, Blocked, Apart, NodesSuffice, NodeForPacket
<1> QED
  BY <1>2, <1>3, <1>4 DEF IInv

LEMMA RouteIInv == ASSUME IInv, NEW p \in Packets, NEW h \in Hops, Route(p, h) PROVE IInv'
<1>1. /\ rpc = "route" /\ rpc' = "test" /\ waiting' = waiting /\ p \in filtered
      /\ filtered' = filtered \ {p} /\ packet' = p /\ hop' = h /\ arp' = FindEntry(h)
      /\ requests' = requests /\ responses' = responses /\ table' = table /\ serving' = serving
      /\ notify' = notify /\ asked' = asked /\ told' = told /\ notifyArp' = notifyArp
  BY DEF Route, QueueUnused, requesterVars
<1>2. arp' \in Slots \cup {0}
  BY <1>1, Found DEF EntriesOf
<1>3. RequesterTypes' /\ RouterTypes'
  BY <1>1, <1>2 DEF IInv, RequesterTypes, RouterTypes
<1>4. /\ OneEntry' /\ AskedOnce' /\ Queue!NumWaiting' = Queue!NumWaiting
      /\ \A q : Queue!IsWaiting(q)' = Queue!IsWaiting(q)
  BY <1>1, RequesterKept
<1>5. Turns' /\ NodesSuffice'
  BY <1>1, <1>4 DEF IInv, Turns, Blocked, NodesSuffice, NodeForPacket
<1>6. Apart'
  BY <1>1, <1>4 DEF IInv, Apart
<1> QED
  BY <1>3, <1>4, <1>5, <1>6 DEF IInv

\* Drop and Transmit.
LEMMA NextPacketIInv ==
  ASSUME IInv, rpc \in {"test", "choose"}, NextPacket, QueueUnused,
         UNCHANGED <<requesterVars, filtered, notifyArp>>
  PROVE  IInv'
<1>1. /\ rpc' = "route" /\ waiting' = waiting /\ filtered' = filtered
      /\ requests' = requests /\ responses' = responses /\ table' = table /\ serving' = serving
      /\ notify' = notify /\ asked' = asked /\ told' = told /\ notifyArp' = notifyArp
  BY DEF NextPacket, QueueUnused, requesterVars
<1>2. RequesterTypes' /\ RouterTypes'
  BY <1>1 DEF IInv, RequesterTypes, RouterTypes
<1>3. /\ OneEntry' /\ AskedOnce' /\ Queue!NumWaiting' = Queue!NumWaiting
      /\ \A p : Queue!IsWaiting(p)' = Queue!IsWaiting(p)
  BY <1>1, RequesterKept
<1>4. Turns' /\ Apart' /\ NodesSuffice'
  BY <1>1, <1>3 DEF IInv, Turns, Blocked, Apart, NodesSuffice, NodeForPacket
<1> QED
  BY <1>2, <1>3, <1>4 DEF IInv

LEMMA NumWaitingNat ==
  ASSUME Dimensions
  PROVE  IsFiniteSet({p \in Packets : Queue!IsWaiting(p)}) /\ Queue!NumWaiting \in Nat
<1>1. IsFiniteSet({p \in Packets : Queue!IsWaiting(p)})
  BY FS_Subset DEF Dimensions
<1>2. Cardinality({p \in Packets : Queue!IsWaiting(p)}) \in Nat
  BY <1>1, FS_CardinalityType
<1> QED
  BY <1>1, <1>2, QueueCardinality DEF Queue!NumWaiting

\* A packet is kept only while the pool has a node for it.
LEMMA KeepIInv == ASSUME Dimensions, IInv, Keep PROVE IInv'
<1>1. /\ rpc = "test" /\ rpc' = "choose" /\ waiting' = waiting /\ filtered' = filtered
      /\ packet' = packet /\ hop' = hop /\ arp' = arp
      /\ requests' = requests /\ responses' = responses /\ table' = table /\ serving' = serving
      /\ notify' = notify /\ asked' = asked /\ told' = told /\ notifyArp' = notifyArp
  BY DEF Keep, QueueUnused, requesterVars
<1>2. RequesterTypes' /\ RouterTypes'
  BY <1>1 DEF IInv, RequesterTypes, RouterTypes
<1>3. /\ OneEntry' /\ AskedOnce' /\ Queue!NumWaiting' = Queue!NumWaiting
      /\ \A p : Queue!IsWaiting(p)' = Queue!IsWaiting(p)
  BY <1>1, RequesterKept
<1>4. Turns' /\ Apart'
  BY <1>1, <1>3 DEF IInv, Turns, Blocked, Apart
<1>5. Unresolved' = Unresolved
  BY <1>1 DEF Unresolved, State
<1>6. Unresolved => Queue!NumWaiting # Capacity
  BY DEF Keep, MustDrop
<1>7. Queue!NumWaiting \in Nat /\ Capacity \in Nat /\ Queue!NumWaiting <= Capacity
  BY NumWaitingNat, FwRouterAssumption DEF IInv, NodesSuffice
<1>8. NodesSuffice'
  <2>1. Unresolved => Queue!NumWaiting < Capacity
    BY <1>6, <1>7
  <2> QED
    BY <1>3, <1>5, <1>7, <2>1 DEF NodesSuffice, NodeForPacket
<1> QED
  BY <1>2, <1>3, <1>4, <1>8 DEF IInv

\* A packet joins those that wait for its next hop.
LEMMA WaitFacts ==
  ASSUME Dimensions, IInv, NEW h \in Hops, NEW p \in Packets, Queue!Wait(h, p)
  PROVE  /\ waiting' \in [Hops -> Seq(Packets)]
         /\ Waited' = Waited \cup {h}
         /\ \A q : Queue!IsWaiting(q)' <=> Queue!IsWaiting(q) \/ q = p
         /\ Queue!NumWaiting' <= Capacity
<1>1. /\ Queue!NumWaiting < Capacity /\ ~ Queue!IsWaiting(p)
      /\ waiting' = [waiting EXCEPT ![h] = Append(@, p)]
  BY DEF Queue!Wait
<1>2. PICK s : s = waiting[h]
  OBVIOUS
<1>3. waiting \in [Hops -> Seq(Packets)] /\ s \in Seq(Packets)
  BY <1>2 DEF IInv, RouterTypes
<1>4. /\ Append(s, p) \in Seq(Packets) /\ Append(s, p) # <<>>
      /\ Range(Append(s, p)) = Range(s) \cup {p}
  BY <1>3, AppendedFacts
<1>5. /\ waiting' \in [Hops -> Seq(Packets)] /\ waiting'[h] = Append(s, p)
      /\ \A g \in Hops : g # h => waiting'[g] = waiting[g]
  <2>1. waiting' = [waiting EXCEPT ![h] = Append(s, p)]
    BY <1>1, <1>2
  <2> QED
    BY <1>3, <1>4, <2>1
<1>6. Waited' = Waited \cup {h}
  BY <1>4, <1>5 DEF Waited
<1>7. ASSUME NEW q PROVE Queue!IsWaiting(q)' <=> Queue!IsWaiting(q) \/ q = p
  BY <1>2, <1>4, <1>5, QueueRange DEF Queue!IsWaiting
<1>8. {q \in Packets : Queue!IsWaiting(q)}' = {q \in Packets : Queue!IsWaiting(q)} \cup {p}
  BY <1>7
<1>9. Queue!NumWaiting' = Queue!NumWaiting + 1
  <2> DEFINE W == {q \in Packets : Queue!IsWaiting(q)}
  <2>1. IsFiniteSet(W) /\ p \notin W
    BY <1>1, NumWaitingNat
  <2>2. Cardinality(W \cup {p}) = Cardinality(W) + 1
    <3> HIDE DEF W
    <3> QED
      BY <2>1, FS_AddElement
  <2> QED
    BY <1>8, <2>2, QueueCardinality DEF Queue!NumWaiting
<1>10. Queue!NumWaiting' <= Capacity
  BY <1>1, <1>9, NumWaitingNat, FwRouterAssumption
<1> QED
  BY <1>5, <1>6, <1>7, <1>10

\* The packets of one next hop leave together.
LEMMA ReleaseFacts ==
  ASSUME Dimensions, IInv, NEW h \in Hops, Queue!Release(h)
  PROVE  /\ waiting' \in [Hops -> Seq(Packets)]
         /\ h \in Waited /\ Waited' = Waited \ {h}
         /\ \A q : Queue!IsWaiting(q)' => Queue!IsWaiting(q)
         /\ Queue!NumWaiting' <= Capacity
<1>1. waiting[h] # <<>> /\ waiting' = [waiting EXCEPT ![h] = <<>>]
  BY DEF Queue!Release
<1>2. waiting \in [Hops -> Seq(Packets)] /\ <<>> \in Seq(Packets)
  BY DEF IInv, RouterTypes
<1>3. /\ waiting' \in [Hops -> Seq(Packets)] /\ waiting'[h] = <<>>
      /\ \A g \in Hops : g # h => waiting'[g] = waiting[g]
  BY <1>1, <1>2
<1>4. h \in Waited /\ Waited' = Waited \ {h}
  BY <1>1, <1>3 DEF Waited
<1>5. ASSUME NEW q, Queue!IsWaiting(q)' PROVE Queue!IsWaiting(q)
  <2>1. PICK g \in Hops : q \in Range(waiting'[g])
    BY <1>5, QueueRange DEF Queue!IsWaiting
  <2>2. Range(<<>>) = {}
    BY DEF Range
  <2>3. g # h
    BY <1>3, <2>1, <2>2
  <2> QED
    BY <1>3, <2>1, <2>3, QueueRange DEF Queue!IsWaiting
<1>6. Queue!NumWaiting' <= Queue!NumWaiting /\ Queue!NumWaiting' \in Nat
  <2> DEFINE W == {q \in Packets : Queue!IsWaiting(q)}
  <2>1. IsFiniteSet(W) /\ W' \subseteq W
    BY <1>5, NumWaitingNat
  <2>2. Cardinality(W') <= Cardinality(W) /\ IsFiniteSet(W')
    <3> HIDE DEF W
    <3> QED
      BY <2>1, FS_Subset
  <2>3. Cardinality(W') \in Nat
    <3> HIDE DEF W
    <3> QED
      BY <2>2, FS_CardinalityType
  <2> QED
    BY <2>2, <2>3, QueueCardinality DEF Queue!NumWaiting
<1>7. Queue!NumWaiting' <= Capacity
  BY <1>6, NumWaitingNat, FwRouterAssumption DEF IInv, NodesSuffice
<1> QED
  BY <1>3, <1>4, <1>5, <1>7

\* The packets that waited for the answer leave the pool, and the router reads
\* answers only when it has no request of its own in the queue.
LEMMA ProcessResponseIInv ==
  ASSUME Dimensions, IInv, ProcessResponse
  PROVE  /\ IInv' /\ requests' = requests /\ table' = table /\ requests[Router] = <<>>
         /\ \A h : h \in Waited' => h \in Waited /\ (Answered(h) => Answered(h)')
<1>1. /\ rpc = "arp" /\ responses # <<>> /\ responses' = Tail(responses)
      /\ requests' = requests /\ table' = table /\ serving' = serving /\ notify' = notify
      /\ asked' = asked /\ told' = told /\ filtered' = filtered /\ rpc' = rpc /\ packet' = packet
      /\ hop' = hop /\ arp' = arp /\ notifyArp' = notifyArp
  BY DEF ProcessResponse
<1>2. PICK g : g = Head(responses).hop
  OBVIOUS
<1>3. responses \in Seq(Answers)
  BY DEF IInv, RequesterTypes
<1>4. g \in Hops
  <2>1. Head(responses) \in Answers
    BY <1>1, <1>3, TailFacts
  <2> QED
    BY <1>2, <2>1 DEF Answers
<1>5. /\ responses' \in Seq(Answers) /\ Len(responses') = Len(responses) - 1
      /\ \A h : h # g /\ Answered(h) => Answered(h)'
  <2>1. /\ Tail(responses) \in Seq(Answers) /\ Len(Tail(responses)) = Len(responses) - 1
        /\ \A x \in Range(responses) : x = Head(responses) \/ x \in Range(Tail(responses))
    BY <1>1, <1>3, TailFacts
  <2>3. discarded' = discarded \ {g}
    BY <1>2 DEF ProcessResponse
  <2>4. ASSUME NEW h, h # g, h \in discarded PROVE Answered(h)'
    BY <2>3, <2>4 DEF Answered
  <2>2. ASSUME NEW h, h # g, Answered(h), h \notin discarded PROVE Answered(h)'
    <3>1. PICK i \in DOMAIN responses : responses[i].hop = h
      BY <2>2 DEF Answered
    <3>2. responses[i] \in Range(responses)
      BY <3>1 DEF Range
    <3>3. responses[i] \in Range(responses')
      BY <1>1, <1>2, <2>1, <2>2, <3>1, <3>2
    <3>4. PICK j \in DOMAIN responses' : responses'[j] = responses[i]
      BY <3>3 DEF Range
    <3> QED
      BY <3>1, <3>4 DEF Answered
  <2> QED
    BY <1>1, <2>1, <2>2, <2>4
<1>6. requests[Router] = <<>>
  BY <1>1, ClientsAre DEF IInv, Turns, Blocked
<1>7. /\ waiting' \in [Hops -> Seq(Packets)] /\ g \notin Waited'
      /\ (Waited' = Waited \/ (Waited' = Waited \ {g} /\ g \in Waited))
      /\ \A q : Queue!IsWaiting(q)' => Queue!IsWaiting(q)
      /\ Queue!NumWaiting' <= Capacity
  <2>1. CASE waiting[g] # <<>>
    <3>1. Queue!Release(g)
      BY <1>2, <2>1 DEF ProcessResponse
    <3> QED
      BY <1>4, <3>1, ReleaseFacts
  <2>2. CASE waiting[g] = <<>>
    <3>1. waiting' = waiting
      BY <1>2, <2>2 DEF ProcessResponse, QueueUnused
    <3>2. Waited' = Waited /\ g \notin Waited' /\ waiting' \in [Hops -> Seq(Packets)]
      BY <2>2, <3>1 DEF Waited, IInv, RouterTypes
    <3>3. /\ Queue!NumWaiting' = Queue!NumWaiting
          /\ \A q : Queue!IsWaiting(q)' => Queue!IsWaiting(q)
      BY <3>1 DEF Queue!NumWaiting, Queue!IsWaiting
    <3>4. Queue!NumWaiting' <= Capacity
      BY <3>3 DEF IInv, NodesSuffice
    <3> QED
      BY <3>2, <3>3, <3>4
  <2> QED
    BY <2>1, <2>2
<1>8. RequesterTypes' /\ RouterTypes'
  BY <1>1, <1>5, <1>7 DEF IInv, RequesterTypes, RouterTypes
<1>9. AskedOnce'
  <2>1. Len(responses) \in Nat /\ QueueCapacity \in Nat
    BY <1>3, LenProperties, ArpRequesterAssumption
  <2>2. Len(responses') <= QueueCapacity
    BY <1>5, <2>1 DEF IInv, AskedOnce
  <2>3. Range(requests[Router]) = {}
    BY <1>6 DEF Range
  <2> QED
    BY <1>1, <2>2, <2>3 DEF IInv, AskedOnce
<1>10. OneEntry'
  BY <1>1 DEF IInv, OneEntry
<1>11. Turns'
  BY <1>1 DEF IInv, Turns, Blocked
<1>12. Apart' /\ NodesSuffice'
  BY <1>1, <1>7 DEF IInv, Apart, NodesSuffice, NodeForPacket
<1> QED
  BY <1>1, <1>5, <1>6, <1>7, <1>8, <1>9, <1>10, <1>11, <1>12 DEF IInv

\* The pool has a node for the packet, as its first or as one more for its hop.
LEMMA JoinQueueIInv ==
  ASSUME Dimensions, IInv, Join
  PROVE  IInv' /\ requests' = requests /\ responses' = responses /\ table' = table /\ Waited' = Waited
<1>1. /\ rpc = "choose" /\ rpc' = "route" /\ waiting[hop] # <<>> /\ Queue!Wait(hop, packet)
      /\ requests' = requests /\ responses' = responses /\ table' = table /\ serving' = serving
      /\ notify' = notify /\ asked' = asked /\ told' = told /\ notifyArp' = notifyArp
      /\ filtered' = filtered
  BY DEF Join, NextPacket, requesterVars
<1>2. PICK h, p : h = hop /\ p = packet
  OBVIOUS
<1>3. h \in Hops /\ p \in Packets /\ p \notin filtered
  BY <1>1, <1>2 DEF IInv, RouterTypes, Apart
<1>4. /\ waiting' \in [Hops -> Seq(Packets)] /\ Waited' = Waited \cup {h}
      /\ \A q : Queue!IsWaiting(q)' <=> Queue!IsWaiting(q) \/ q = p
      /\ Queue!NumWaiting' <= Capacity
  BY <1>1, <1>2, <1>3, WaitFacts
<1>5. Waited' = Waited
  BY <1>1, <1>2, <1>3, <1>4 DEF Waited
<1>6. RequesterTypes' /\ RouterTypes'
  BY <1>1, <1>4 DEF IInv, RequesterTypes, RouterTypes
<1>7. OneEntry' /\ AskedOnce' /\ Turns'
  BY <1>1, <1>5 DEF IInv, OneEntry, AskedOnce, Turns, Blocked
<1>8. Apart' /\ NodesSuffice'
  BY <1>1, <1>3, <1>4 DEF IInv, Apart, NodesSuffice, NodeForPacket
<1> QED
  BY <1>1, <1>5, <1>6, <1>7, <1>8 DEF IInv

\* The first packet for a next hop brings the one request for it.
LEMMA RequestIInv ==
  ASSUME Dimensions, IInv, Request
  PROVE  /\ IInv' /\ responses' = responses /\ table' = table
         /\ \A h : h \in Waited' => h \in Waited \/ h \in Range(requests'[Router])
         /\ Range(requests[Router]) \subseteq Range(requests'[Router]) /\ hop \in Range(requests'[Router])
<1>1. /\ rpc = "choose" /\ rpc' = "route" /\ waiting[hop] = <<>> /\ Queue!Wait(hop, packet)
      /\ requests' = [requests EXCEPT ![Router] = Append(@, hop)]
      /\ responses' = responses /\ table' = table /\ serving' = serving
      /\ notify' = notify /\ asked' = asked /\ told' = told /\ notifyArp' = TRUE
      /\ filtered' = filtered
  BY DEF Request, NextPacket
<1>2. PICK h, p, s : h = hop /\ p = packet /\ s = requests[Router]
  OBVIOUS
<1>3. h \in Hops /\ p \in Packets /\ p \notin filtered
  BY <1>1, <1>2 DEF IInv, RouterTypes, Apart
<1>4. /\ waiting' \in [Hops -> Seq(Packets)] /\ Waited' = Waited \cup {h}
      /\ \A q : Queue!IsWaiting(q)' <=> Queue!IsWaiting(q) \/ q = p
      /\ Queue!NumWaiting' <= Capacity
  BY <1>1, <1>2, <1>3, WaitFacts
<1>5. h \notin Waited /\ h \notin Range(s)
  BY <1>1, <1>2 DEF Waited, IInv, AskedOnce
<1>6. requests \in [Clients -> Seq(Hops)] /\ s \in Seq(Hops) /\ IsInjective(s) /\ Range(s) \subseteq Waited
  BY <1>2, ClientsAre DEF IInv, RequesterTypes, AskedOnce
<1>7. /\ Append(s, h) \in Seq(Hops) /\ Len(Append(s, h)) = Len(s) + 1
      /\ Range(Append(s, h)) = Range(s) \cup {h} /\ IsInjective(Append(s, h))
  BY <1>3, <1>5, <1>6, AppendedFacts
<1>8. /\ requests' \in [Clients -> Seq(Hops)] /\ requests'[Router] = Append(s, h)
      /\ requests'[Webserver] = requests[Webserver]
  <2>1. requests' = [requests EXCEPT ![Router] = Append(s, h)]
    BY <1>1, <1>2
  <2> QED
    BY <1>6, <1>7, <2>1, ClientsAre
<1>9. RequesterTypes' /\ RouterTypes'
  BY <1>1, <1>4, <1>8 DEF IInv, RequesterTypes, RouterTypes
<1>10. AskedOnce'
  BY <1>1, <1>4, <1>6, <1>7, <1>8 DEF IInv, AskedOnce
<1>11. OneEntry'
  BY <1>1 DEF IInv, OneEntry
<1>12. Turns'
  BY <1>1, ClientsAre DEF IInv, Turns, Blocked
<1>13. Apart' /\ NodesSuffice'
  BY <1>1, <1>3, <1>4 DEF IInv, Apart, NodesSuffice, NodeForPacket
<1> QED
  BY <1>1, <1>2, <1>4, <1>7, <1>8, <1>9, <1>10, <1>11, <1>12, <1>13 DEF IInv

-----------------------------------------------------------------------------
(* The invariant.                                                          *)

LEMMA InitIInv == ASSUME Dimensions, Init PROVE IInv
<1>1. /\ requests = [c \in Clients |-> <<>>] /\ responses = <<>>
      /\ table = [i \in Slots |-> Invalid] /\ serving = 0 /\ notify = FALSE /\ asked = {} /\ told = FALSE
      /\ waiting = [h \in Hops |-> <<>>] /\ filtered = {} /\ rpc = "idle" /\ notifyArp = FALSE
  BY DEF Init, RequesterInit, Queue!Init
<1>2. RequesterTypes /\ RouterTypes
  <2>1. <<>> \in Seq(Hops) /\ <<>> \in Seq(Answers) /\ <<>> \in Seq(Packets)
    OBVIOUS
  <2>2. requests \in [Clients -> Seq(Hops)] /\ table \in [Slots -> Entries \cup {Invalid}]
    BY <1>1, <2>1
  <2>3. RequesterTypes
    BY <1>1, <2>1, <2>2 DEF RequesterTypes
  <2> QED
    BY <1>1, <2>1, <2>3 DEF RouterTypes
<1>3. OneEntry
  BY <1>1 DEF OneEntry, Invalid
<1>4. Range(<<>>) = {} /\ IsInjective(<<>>) /\ Len(<<>>) = 0
  BY DEF Range, IsInjective
<1>5. requests[Router] = <<>> /\ requests[Webserver] = <<>>
  BY <1>1, ClientsAre
<1>6. AskedOnce
  BY <1>1, <1>4, <1>5, ArpRequesterAssumption DEF AskedOnce
<1>7. Turns
  BY <1>1, <1>5 DEF Turns, Blocked
<1>8. \A p : ~ Queue!IsWaiting(p)
  BY <1>1, <1>4, QueueRange DEF Queue!IsWaiting
<1>9. Apart
  BY <1>1, <1>8 DEF Apart
<1>10. Queue!NumWaiting = 0
  <2>1. {p \in Packets : Queue!IsWaiting(p)} = {}
    BY <1>8
  <2> QED
    BY <2>1, QueueCardinality, FS_EmptySet DEF Queue!NumWaiting
<1>11. NodesSuffice
  BY <1>1, <1>10, FwRouterAssumption DEF NodesSuffice, NodeForPacket
<1> QED
  BY <1>2, <1>3, <1>6, <1>7, <1>9, <1>11 DEF IInv

LEMMA NextIInv == ASSUME Dimensions, IInv, [Next]_vars PROVE IInv'
<1>1. CASE UNCHANGED vars
  <2>1. /\ requests' = requests /\ responses' = responses /\ table' = table /\ serving' = serving
        /\ notify' = notify /\ asked' = asked /\ told' = told /\ waiting' = waiting
        /\ filtered' = filtered /\ rpc' = rpc /\ packet' = packet /\ hop' = hop /\ arp' = arp
        /\ notifyArp' = notifyArp
    BY <1>1 DEF vars, requesterVars, routerVars
  <2>2. RequesterTypes' /\ RouterTypes'
    BY <2>1 DEF IInv, RequesterTypes, RouterTypes
  <2>3. OneEntry' /\ AskedOnce'
    BY <2>1, RequesterKept
  <2>4. Turns' /\ Apart' /\ NodesSuffice'
    <3>1. /\ Queue!NumWaiting' = Queue!NumWaiting
          /\ \A p : Queue!IsWaiting(p)' = Queue!IsWaiting(p)
      BY <2>1, RequesterKept
    <3>2. Unresolved' = Unresolved
      BY <2>1 DEF Unresolved, State
    <3> QED
      BY <2>1, <3>1, <3>2 DEF IInv, Turns, Blocked, Apart, NodesSuffice, NodeForPacket
  <2> QED
    BY <2>2, <2>3, <2>4 DEF IInv
<1>2. CASE RequesterStep /\ UNCHANGED routerVars
  <2>1. ASSUME NEW h \in Hops, Reply(h) PROVE IInv'
    BY <1>2, <2>1, ReplyIInv
  <2>2. ASSUME NEW c \in Clients, NotifiedByClient(c) PROVE IInv'
    BY <1>2, <2>2, ByClientIInv
  <2>3. ASSUME NEW c \in Clients, AnswerRequest(c) PROVE IInv'
    BY <1>2, <2>3, AnswerIInv
  <2>4. ASSUME NEW c \in Clients, JoinRequest(c) PROVE IInv'
    BY <1>2, <2>4, JoinIInv
  <2>5. ASSUME NEW c \in Clients, AskNetwork(c) PROVE IInv'
    BY <1>2, <2>5, AskIInv
  <2>6. CASE NextClient
    BY <1>2, <2>6, NextClientIInv
  <2>7. CASE Retry
    BY <1>2, <2>7, RetryIInv
  <2>8. CASE Flush
    BY <1>2, <2>8, FlushIInv
  <2> QED
    BY <1>2, <2>1, <2>2, <2>3, <2>4, <2>5, <2>6, <2>7, <2>8 DEF RequesterStep, Serve, Tick
<1>3. CASE WebserverStep /\ UNCHANGED routerVars
  BY <1>3, WebserverIInv
<1>4. CASE RouterStep
  <2>1. CASE NotifiedByFilter
    BY <1>4, <2>1, ByFilterIInv DEF RouterStep
  <2>2. CASE NotifiedByArp
    BY <1>4, <2>2, ByArpIInv DEF RouterStep
  <2>3. CASE ProcessResponse
    BY <2>3, ProcessResponseIInv
  <2>4. CASE ResponsesDone
    BY <2>4, ResponsesDoneIInv
  <2>5. ASSUME NEW p \in Packets, NEW h \in Hops, Route(p, h) PROVE IInv'
    BY <2>5, RouteIInv
  <2>6. CASE Drop \/ Transmit
    BY <2>6, NextPacketIInv DEF Drop, Transmit
  <2>7. CASE Keep
    BY <2>7, KeepIInv
  <2>8. CASE Join
    BY <2>8, JoinQueueIInv
  <2>9. CASE Request
    BY <2>9, RequestIInv
  <2>10. CASE RouteEnds
    BY <2>10, RouteEndsIInv
  <2> QED
    BY <1>4, <2>1, <2>2, <2>3, <2>4, <2>5, <2>6, <2>7, <2>8, <2>9, <2>10 DEF RouterStep, Running
<1> QED
  BY <1>1, <1>2, <1>3, <1>4 DEF Next

\* The tables of requester and router keep their form, every request is accounted
\* for, and requester and router take turns (arp_requester.c, routing.c, notified()).
THEOREM RouterInvariance == ASSUME Dimensions PROVE Spec => []IInv
<1>1. Init => IInv
  BY InitIInv
<1>2. IInv /\ [Next]_vars => IInv'
  BY NextIInv
<1> QED
  BY <1>1, <1>2, PTL DEF Spec

\* The cache never holds two entries for one address (include/lions/firewall/arp.h:199),
\* no queue exceeds its capacity, and route() has a node for the packet it keeps.
THEOREM RouterCorrect == ASSUME Dimensions PROVE Spec => []RouterConsistent
<1>1. ASSUME IInv PROVE RouterConsistent
  <2>1. ASSUME NEW c \in Clients PROVE requests[c] \in Seq(Hops) /\ Len(requests[c]) <= QueueCapacity
    <3>1. requests[c] \in Seq(Hops)
      BY <1>1 DEF IInv, RequesterTypes
    <3>2. CASE c = Router
      <4>1. Range(requests[c]) \subseteq Hops
        BY <1>1, <3>2 DEF IInv, AskedOnce, Waited
      <4>2. Len(requests[c]) <= Cardinality(Hops)
        BY <1>1, <3>1, <3>2, <4>1, DistinctLength DEF Dimensions, IInv, AskedOnce
      <4>3. /\ Len(requests[c]) \in Nat /\ Cardinality(Hops) \in Nat
            /\ QueueCapacity \in Nat
        BY <3>1, LenProperties, FS_CardinalityType, ArpRequesterAssumption DEF Dimensions
      <4> QED
        BY <3>1, <4>2, <4>3 DEF Dimensions
    <3>3. CASE c = Webserver
      BY <1>1, <3>1, <3>3 DEF IInv, AskedOnce
    <3> QED
      BY <3>2, <3>3 DEF Clients
  <2>2. responses \in Seq(Answers)
    BY <1>1 DEF IInv, RequesterTypes
  <2>3. ASSUME NEW i \in DOMAIN responses
        PROVE  responses[i].hop \in Hops /\ responses[i].state \in {"reachable", "unreachable"}
    <3>1. responses[i] \in Answers
      BY <2>2, LenProperties
    <3> QED
      BY <3>1 DEF Answers
  <2>4. Len(responses) <= QueueCapacity
    BY <1>1 DEF IInv, AskedOnce
  <2>5. ASSUME NEW h \in Hops PROVE Cardinality(EntriesOf(h)) <= 1
    <3>1. \A i, j \in EntriesOf(h) : i = j
      BY <1>1 DEF IInv, OneEntry, EntriesOf
    <3> QED
      BY <3>1, AtMostOne
  <2>6. waiting \in [Hops -> Seq(Packets)] /\ rpc \in {"idle", "arp", "route", "test", "choose"}
    BY <1>1 DEF IInv, RouterTypes
  <2>7. NodeForPacket
    BY <1>1 DEF IInv, NodesSuffice
  <2> QED
    BY <2>1, <2>3, <2>4, <2>5, <2>6, <2>7 DEF RouterConsistent, TypeOK
<1> QED
  BY <1>1, RouterInvariance, PTL

\* A request or an answer in a queue has been announced to its reader, or its writer
\* has yet to send the notification (notify_arp, notify_client).
THEOREM NoWakeupLost == ASSUME Dimensions PROVE Spec => []NoLostWakeup
<1>1. ASSUME IInv PROVE NoLostWakeup
  BY <1>1, ClientsAre DEF IInv, Turns, NoLostWakeup
<1> QED
  BY <1>1, RouterInvariance, PTL

-----------------------------------------------------------------------------
(* The request under way.                                                  *)

\* A cache with an entry for every next hop is not full for one that has none.
LEMMA EntryFree ==
  ASSUME Dimensions, CacheSuffices, IInv, NEW h \in Hops, EntriesOf(h) = {}
  PROVE  FreeSlots # {}
<1> SUFFICES ASSUME FreeSlots = {} PROVE FALSE
  OBVIOUS
<1>1. \A i \in Slots : table[i] \in Entries /\ table[i].hop # h
  BY DEF FreeSlots, EntriesOf, IInv, RequesterTypes, Invalid
<1>2. \A i, j \in Slots : table[i].hop = table[j].hop => i = j
  BY DEF FreeSlots, IInv, OneEntry
<1> DEFINE f == [i \in Slots |-> table[i].hop]
<1>3. f \in Injection(Slots, Hops \ {h})
  <2>1. f \in [Slots -> Hops \ {h}]
    BY <1>1 DEF Entries
  <2> QED
    BY <1>2, <2>1 DEF Injection, IsInjective
<1> HIDE DEF f
<1>4. /\ IsFiniteSet(Hops \ {h}) /\ Cardinality(Hops \ {h}) = Cardinality(Hops) - 1
      /\ Cardinality(Hops) \in Nat
  BY FS_RemoveElement, FS_CardinalityType DEF Dimensions
<1>5. Cardinality(Slots) <= Cardinality(Hops \ {h})
  BY <1>3, <1>4, FS_Injection
<1>6. CacheCapacity \in Nat
  BY ArpRequesterAssumption
<1> QED
  BY <1>4, <1>5, <1>6, SlotsFacts DEF CacheSuffices

UnderWay(h) == h \in Range(requests[Router]) \/ Pending(h) \/ Answered(h)

LEMMA WaitingIs == WaitingHasRequest <=> \A h \in Waited : UnderWay(h)
BY DEF WaitingHasRequest, Waited, UnderWay, Pending, Answered

\* The requester keeps every request of the router under way.
LEMMA RequesterUnderWay ==
  ASSUME Dimensions, CacheSuffices, IInv, RequesterStep, UNCHANGED routerVars, NEW h, UnderWay(h)
  PROVE  UnderWay(h)'
<1>1. ASSUME NEW g \in Hops, Reply(g) PROVE UnderWay(h)'
  <2>1. requests' = requests
    BY <1>1 DEF Reply
  <2>2. (Answered(h) => Answered(h)') /\ (Pending(h) => Pending(h)' \/ Answered(h)')
    BY <1>1, ReplyIInv
  <2> QED
    BY <2>1, <2>2 DEF UnderWay
<1>2. ASSUME NEW c \in Clients, NotifiedByClient(c) PROVE UnderWay(h)'
  BY <1>2 DEF NotifiedByClient, UnderWay, Pending, Answered, EntriesOf
<1>3. CASE NextClient
  BY <1>3 DEF NextClient, UnderWay, Pending, Answered, EntriesOf
<1>4. CASE Retry
  <2>1. requests' = requests
    BY <1>4 DEF Retry
  <2>2. (Answered(h) => Answered(h)') /\ (Pending(h) => Pending(h)' \/ Answered(h)')
    BY <1>4, RetryIInv
  <2> QED
    BY <2>1, <2>2 DEF UnderWay
<1>5. CASE Flush
  <2>1. requests' = requests /\ responses' = responses /\ discarded' = discarded
    BY <1>5 DEF Flush
  <2>2. Pending(h) => Pending(h)'
    BY <1>5, FlushIInv
  <2> QED
    BY <2>1, <2>2 DEF UnderWay, Answered
<1>6. ASSUME NEW c \in Clients, RequestOf(c),
             c = Router /\ h = Head(requests[c]) => UnderWay(h)',
             (Answered(h) => Answered(h)') /\ (Pending(h) => Pending(h)')
      PROVE  UnderWay(h)'
  <2>1. /\ c = Webserver => requests'[Router] = requests[Router]
        /\ c = Router => \A g \in Range(requests[Router]) :
                            g = Head(requests[c]) \/ g \in Range(requests'[Router])
    BY <1>6, RequestTaken
  <2>2. h \in Range(requests[Router]) => h \in Range(requests'[Router]) \/ UnderWay(h)'
    BY <1>6, <2>1 DEF Clients
  <2> QED
    BY <1>6, <2>2 DEF UnderWay
<1>7. ASSUME NEW c \in Clients, AnswerRequest(c) PROVE UnderWay(h)'
  <2>1. /\ Answered(h) => Answered(h)'
        /\ c = Router /\ h = Head(requests[c]) => Answered(h)'
    BY <1>7, AnswerIInv
  <2>2. RequestOf(c) /\ table' = table
    BY <1>7 DEF AnswerRequest
  <2>3. Pending(h) => Pending(h)'
    BY <2>2 DEF Pending, EntriesOf
  <2> QED
    BY <1>6, <2>1, <2>2, <2>3 DEF UnderWay
<1>8. ASSUME NEW c \in Clients, JoinRequest(c) PROVE UnderWay(h)'
  <2>1. /\ Pending(h) => Pending(h)'
        /\ c = Router /\ h = Head(requests[c]) => Pending(h)'
    BY <1>8, JoinIInv
  <2>2. RequestOf(c) /\ responses' = responses /\ discarded' = discarded
    BY <1>8 DEF JoinRequest, NoteClient
  <2> QED
    BY <1>6, <2>1, <2>2 DEF UnderWay, Answered
<1>9. ASSUME NEW c \in Clients, AskNetwork(c) PROVE UnderWay(h)'
  <2>1. /\ Pending(h) => Pending(h)'
        /\ c = Router /\ h = Head(requests[c]) => h \in Hops /\ EntriesOf(h) = {}
        /\ c = Router /\ h = Head(requests[c]) /\ FreeSlots # {} => Pending(h)'
    BY <1>9, AskIInv
  <2>2. c = Router /\ h = Head(requests[c]) => Pending(h)'
    BY <2>1, EntryFree
  <2>3. RequestOf(c) /\ responses' = responses /\ discarded' = discarded
    BY <1>9 DEF AskNetwork
  <2> QED
    BY <1>6, <2>1, <2>2, <2>3 DEF UnderWay, Answered
<1> QED
  BY <1>1, <1>2, <1>3, <1>4, <1>5, <1>7, <1>8, <1>9 DEF RequesterStep, Serve, Tick

LEMMA NextUnderWay ==
  ASSUME Dimensions, CacheSuffices, IInv, WaitingHasRequest, [Next]_vars
  PROVE  WaitingHasRequest'
<1>1. \A h \in Waited : UnderWay(h)
  BY WaitingIs
<1>2. SUFFICES \A h \in Waited' : UnderWay(h)'
  BY DEF WaitingHasRequest, Waited, UnderWay, Pending, Answered
<1>3. ASSUME waiting' = waiting, requests'[Router] = requests[Router], responses' = responses, table' = table,
             discarded' = discarded
      PROVE  \A h \in Waited' : UnderWay(h)'
  <2>1. Waited' = Waited /\ \A h : UnderWay(h) => UnderWay(h)'
    BY <1>3 DEF Waited, UnderWay, Pending, Answered, EntriesOf
  <2> QED
    BY <1>1, <2>1
<1>4. CASE UNCHANGED vars
  BY <1>3, <1>4 DEF vars, requesterVars, routerVars
<1>5. CASE RequesterStep /\ UNCHANGED routerVars
  <2>1. Waited' = Waited
    BY <1>5 DEF routerVars, Waited
  <2> QED
    BY <1>1, <1>5, <2>1, RequesterUnderWay
<1>6. CASE WebserverStep /\ UNCHANGED routerVars
  <2>1. requests'[Router] = requests[Router]
    BY <1>6, WebserverIInv
  <2>2. responses' = responses /\ table' = table /\ waiting' = waiting /\ discarded' = discarded
    BY <1>6 DEF WebserverStep, WebserverAsks, routerVars
  <2> QED
    BY <1>3, <2>1, <2>2
<1>7. CASE NotifiedByFilter \/ NotifiedByArp \/ ResponsesDone \/ Drop \/ Keep \/ Transmit \/ RouteEnds
           \/ \E p \in Packets, h \in Hops : Route(p, h)
  BY <1>3, <1>7 DEF NotifiedByFilter, NotifiedByArp, ResponsesDone, LeaveResponses, Drop, Keep, Transmit,
                    RouteEnds, Route, QueueUnused, requesterVars
<1>8. CASE ProcessResponse
  <2>1. /\ requests' = requests /\ table' = table /\ requests[Router] = <<>>
        /\ \A h : h \in Waited' => h \in Waited /\ (Answered(h) => Answered(h)')
    BY <1>8, ProcessResponseIInv
  <2>2. \A h : Pending(h) => Pending(h)'
    BY <2>1 DEF Pending, EntriesOf
  <2> QED
    BY <1>1, <2>1, <2>2 DEF UnderWay
<1>9. CASE Join
  <2>1. /\ requests' = requests /\ responses' = responses /\ table' = table /\ Waited' = Waited
        /\ discarded' = discarded
    BY <1>9, JoinQueueIInv DEF Join, requesterVars
  <2>2. \A h : UnderWay(h) => UnderWay(h)'
    BY <2>1 DEF UnderWay, Pending, Answered, EntriesOf
  <2> QED
    BY <1>1, <2>1, <2>2
<1>10. CASE Request
  <2>1. /\ responses' = responses /\ table' = table
        /\ \A h : h \in Waited' => h \in Waited \/ h \in Range(requests'[Router])
        /\ Range(requests[Router]) \subseteq Range(requests'[Router]) /\ hop \in Range(requests'[Router])
        /\ discarded' = discarded \ {hop}
    BY <1>10, RequestIInv DEF Request
  <2>2. \A h : (Pending(h) => Pending(h)') /\ (Answered(h) => Answered(h)' \/ h = hop)
    BY <2>1 DEF Pending, Answered, EntriesOf
  <2> QED
    BY <1>1, <2>1, <2>2 DEF UnderWay
<1> QED
  BY <1>4, <1>5, <1>6, <1>7, <1>8, <1>9, <1>10 DEF Next, RouterStep, Running

\* Packets that wait for a next hop have a request for it under way
\* (examples/firewall/routing/routing.c:310), provided the cache has an entry for
\* every next hop: fw_arp_table_add_entry forgets a request that finds it full.
THEOREM RequestUnderWay == ASSUME Dimensions, CacheSuffices PROVE Spec => []WaitingHasRequest
<1>1. Init => WaitingHasRequest
  BY DEF Init, Queue!Init, WaitingHasRequest
<1>2. IInv /\ WaitingHasRequest /\ [Next]_vars => WaitingHasRequest'
  BY NextUnderWay
<1> QED
  BY <1>1, <1>2, RouterInvariance, PTL DEF Spec

\* A behaviour of the router with its pool and routing table (MCFwRouter) is one
\* of the router.
THEOREM RouterPart == SpecAll => Spec
<1>1. InitAll => Init
  BY DEF InitAll
<1>2. [NextAll]_<<part, vars, queueVars, routes>> => [Next]_vars
  BY DEF NextAll
<1> QED
  BY <1>1, <1>2, PTL DEF SpecAll, Spec

-----------------------------------------------------------------------------
(* The routing table: the inductive invariant.                             *)

RouteSet == [ip : Routes!Addresses, len : 0 .. Width, interface : Routes!Interfaces, hop : NextHops]

\* Routes are of the subnets they name, and no two are of one subnet.
Table(t) ==
  /\ t \in Seq(RouteSet)
  /\ \A i, j \in DOMAIN t : t[i].len = t[j].len /\ t[i].ip = t[j].ip => i = j

RoutesIInv == Table(routes)

-----------------------------------------------------------------------------
(* Loops.                                                                  *)

\* The rounds of a loop: g[i] is what it has after round i, F[i] what round i
\* makes of what it had.
Rounds(g, n, a, F) == g = [i \in 0 .. n |-> IF i = 0 THEN a ELSE F[i][g[i - 1]]]

RoundsTo(g, m, V, a, F) ==
  /\ g \in [0 .. m -> V] /\ g[0] = a
  /\ \A i \in 1 .. m : g[i] = F[i][g[i - 1]]

LEMMA RoundsExist ==
  ASSUME NEW n \in Nat, NEW V, NEW a \in V, NEW F \in [1 .. n -> [V -> V]]
  PROVE  \E g \in [0 .. n -> V] : Rounds(g, n, a, F)
<1> DEFINE Without == {m \in 0 .. n : ~ \E g : RoundsTo(g, m, V, a, F)}
<1>1. Without = {}
  <2> SUFFICES ASSUME Without # {} PROVE FALSE
    OBVIOUS
  <2>1. PICK m \in Without : \A j \in Without : m <= j
    <3> Without \subseteq Nat
      OBVIOUS
    <3> HIDE DEF Without
    <3> QED
      BY Least
  <2>2. CASE m = 0
    <3>1. [i \in 0 .. 0 |-> a] \in [0 .. 0 -> V] /\ [i \in 0 .. 0 |-> a][0] = a
      OBVIOUS
    <3>2. RoundsTo([i \in 0 .. 0 |-> a], 0, V, a, F)
      BY <3>1 DEF RoundsTo
    <3> QED
      BY <3>2, <2>2
  <2>3. CASE m # 0
    <3>1. m \in 1 .. n /\ m - 1 \in 0 .. n /\ m - 1 \notin Without
      BY <2>1, <2>3
    <3>2. PICK g : RoundsTo(g, m - 1, V, a, F)
      BY <3>1
    <3>3. /\ g \in [0 .. m - 1 -> V] /\ g[0] = a
          /\ \A i \in 1 .. m - 1 : g[i] = F[i][g[i - 1]]
      BY <3>2 DEF RoundsTo
    <3> DEFINE h == [i \in 0 .. m |-> IF i = m THEN F[m][g[m - 1]] ELSE g[i]]
    <3>4. F[m][g[m - 1]] \in V
      <4>1. m - 1 \in 0 .. m - 1
        BY <3>1
      <4> QED
        BY <4>1, <3>1, <3>3
    <3>5. h \in [0 .. m -> V] /\ h[0] = a
      <4>1. \A i \in 0 .. m : i # m => i \in 0 .. m - 1
        BY <3>1
      <4> QED
        BY <4>1, <3>1, <3>3, <3>4
    <3>6. \A i \in 1 .. m : h[i] = F[i][h[i - 1]]
      <4> SUFFICES ASSUME NEW i \in 1 .. m PROVE h[i] = F[i][h[i - 1]]
        OBVIOUS
      <4>1. i \in 0 .. m /\ i - 1 \in 0 .. m /\ i - 1 # m
        BY <3>1
      <4>2. i # m => i \in 1 .. m - 1
        BY <3>1
      <4> QED
        BY <4>1, <4>2, <3>3
    <3> HIDE DEF h
    <3>7. RoundsTo(h, m, V, a, F)
      BY <3>5, <3>6 DEF RoundsTo
    <3> QED
      BY <3>7, <2>1
  <2> QED
    BY <2>2, <2>3
<1>2. PICK g : RoundsTo(g, n, V, a, F)
  BY <1>1
<1>3. g \in [0 .. n -> V] /\ \A i \in 0 .. n : g[i] = IF i = 0 THEN a ELSE F[i][g[i - 1]]
  <2>1. \A i \in 0 .. n : i # 0 => i \in 1 .. n
    OBVIOUS
  <2> QED
    BY <1>2, <2>1 DEF RoundsTo
<1> QED
  BY <1>3 DEF Rounds

-----------------------------------------------------------------------------
(* Subnets.                                                                *)

\* Power is the sequence of the powers of two.
LEMMA PowerDoubles ==
  ASSUME Width \in Nat
  PROVE  /\ Routes!Power \in [0 .. Width -> Nat \ {0}] /\ Routes!Power[0] = 1
         /\ \A i \in 1 .. Width : Routes!Power[i] = 2 * Routes!Power[i - 1]
<1> DEFINE V == Nat \ {0}
           F == [i \in 1 .. Width |-> [v \in V |-> 2 * v]]
           IsPower(p) == p = [n \in 0 .. Width |-> IF n = 0 THEN 1 ELSE 2 * p[n - 1]]
<1>1. PICK g \in [0 .. Width -> V] : Rounds(g, Width, 1, F)
  <2>1. F \in [1 .. Width -> [V -> V]] /\ 1 \in V
    OBVIOUS
  <2> HIDE DEF F, V
  <2> QED
    BY <2>1, RoundsExist
<1>2. \A i \in 1 .. Width : g[i - 1] \in V /\ F[i][g[i - 1]] = 2 * g[i - 1]
  <2> SUFFICES ASSUME NEW i \in 1 .. Width PROVE g[i - 1] \in V /\ F[i][g[i - 1]] = 2 * g[i - 1]
    OBVIOUS
  <2>1. i - 1 \in 0 .. Width
    OBVIOUS
  <2> QED
    BY <2>1
<1> HIDE DEF F
<1>3. \A i \in 0 .. Width : g[i] = IF i = 0 THEN 1 ELSE 2 * g[i - 1]
  <2>1. \A i \in 0 .. Width : g[i] = IF i = 0 THEN 1 ELSE F[i][g[i - 1]]
    BY <1>1 DEF Rounds
  <2>2. \A i \in 0 .. Width : i # 0 => i \in 1 .. Width
    OBVIOUS
  <2> QED
    BY <2>1, <2>2, <1>2
<1>4. IsPower(g)
  BY <1>3
<1>5. IsPower(Routes!Power)
  BY <1>4 DEF Routes!Power
<1>6. \A n \in 0 .. Width : Routes!Power[n] = IF n = 0 THEN 1 ELSE 2 * Routes!Power[n - 1]
  <2> HIDE DEF Routes!Power
  <2> QED
    BY <1>5
<1> HIDE DEF Routes!Power
<1>7. \A n \in 0 .. Width : Routes!Power[n] = g[n]
  <2> DEFINE Off == {n \in 0 .. Width : Routes!Power[n] # g[n]}
  <2> SUFFICES ASSUME Off # {} PROVE FALSE
    OBVIOUS
  <2>1. PICK n \in Off : \A j \in Off : n <= j
    <3> Off \subseteq Nat
      OBVIOUS
    <3> HIDE DEF Off
    <3> QED
      BY Least
  <2>2. n \in 0 .. Width /\ (n # 0 => n - 1 \in 0 .. Width /\ n - 1 \notin Off)
    BY <2>1
  <2> QED
    BY <2>1, <2>2, <1>3, <1>6
<1>8. Routes!Power = g
  <2>1. Routes!Power = [n \in 0 .. Width |-> Routes!Power[n]]
    BY <1>5
  <2> QED
    BY <2>1, <1>7
<1> QED
  BY <1>8, <1>3

LEMMA ModBound == ASSUME NEW x \in Int, NEW p \in Nat \ {0}
                  PROVE  x % p \in 0 .. p - 1
  BY Z3

LEMMA DivMod == ASSUME NEW x \in Int, NEW p \in Nat \ {0}
                PROVE  x \div p \in Int /\ x = (p * (x \div p)) + (x % p)
  BY Z3

LEMMA ModOfSum == ASSUME NEW p \in Nat \ {0}, NEW k \in Int, NEW x \in 0 .. p - 1
                  PROVE  (p * k + x) % p = x
  BY Z3

\* A larger power of two is a multiple of a smaller one.
LEMMA PowerDivides ==
  ASSUME Width \in Nat, NEW n \in 0 .. Width
  PROVE  \E q \in Nat \ {0} : Routes!Power[Width] = Routes!Power[n] * q
<1> DEFINE Off == {m \in Nat : m <= Width - n /\ ~ \E q \in Nat \ {0} : Routes!Power[n + m] = Routes!Power[n] * q}
<1>1. Routes!Power[n] \in Nat \ {0}
  BY PowerDoubles
<1>2. Off = {}
  <2> SUFFICES ASSUME Off # {} PROVE FALSE
    OBVIOUS
  <2>1. PICK m \in Off : \A j \in Off : m <= j
    <3> Off \subseteq Nat
      OBVIOUS
    <3> HIDE DEF Off
    <3> QED
      BY Least
  <2>2. CASE m = 0
    <3>1. n + 0 = n /\ Routes!Power[n] = Routes!Power[n] * 1
      BY <1>1
    <3> QED
      BY <3>1, <2>1, <2>2
  <2>3. CASE m # 0
    <3>1. m - 1 \in Nat /\ m - 1 <= Width - n /\ m - 1 \notin Off /\ n + m \in 1 .. Width /\ n + (m - 1) = (n + m) - 1
      BY <2>1, <2>3
    <3>2. PICK q \in Nat \ {0} : Routes!Power[n + (m - 1)] = Routes!Power[n] * q
      BY <3>1
    <3>3. Routes!Power[n + m] = 2 * (Routes!Power[n] * q)
      BY <3>1, <3>2, PowerDoubles
    <3>4. 2 * (Routes!Power[n] * q) = Routes!Power[n] * (2 * q) /\ 2 * q \in Nat \ {0}
      BY <1>1
    <3> QED
      BY <3>3, <3>4, <2>1
  <2> QED
    BY <2>2, <2>3
<1>3. \A m \in Nat : m <= Width - n => \E q \in Nat \ {0} : Routes!Power[n + m] = Routes!Power[n] * q
  BY <1>2
<1>4. PICK m \in Nat : m <= Width - n /\ n + m = Width
  OBVIOUS
<1> QED
  BY <1>3, <1>4

\* The mask of an address is the first address of its subnet, the broadcast
\* address is the last, and both are addresses.
LEMMA SubnetFacts ==
  ASSUME Width \in Nat, NEW len \in 0 .. Width, NEW ip \in Routes!Addresses
  PROVE  /\ Routes!Mask(len, ip) \in Routes!Addresses
         /\ Routes!Broadcast(ip, len) \in Routes!Addresses
         /\ ip <= Routes!Broadcast(ip, len)
         /\ Routes!Mask(len, Routes!Broadcast(ip, len)) = Routes!Mask(len, ip)
<1> DEFINE p == Routes!Power[Width - len]
           k == ip \div p
           x == ip % p
<1>1. Width - len \in 0 .. Width
  OBVIOUS
<1>2. PICK q \in Nat \ {0} : Routes!Power[Width] = p * q
  BY <1>1, PowerDivides
<1>3. p \in Nat \ {0} /\ p - 1 \in 0 .. p - 1
  <2>1. Routes!Power[Width - len] \in Nat \ {0}
    BY <1>1, PowerDoubles
  <2> QED
    BY <2>1
<1>4. Routes!Mask(len, ip) = ip - x /\ Routes!Broadcast(ip, len) = (ip - x) + (p - 1)
  BY DEF Routes!Mask, Routes!Broadcast
<1>5. Routes!Mask(len, (ip - x) + (p - 1)) = ((ip - x) + (p - 1)) - (((ip - x) + (p - 1)) % p)
  BY DEF Routes!Mask
<1> HIDE DEF p
<1>6. Routes!Addresses = 0 .. (p * q) - 1 /\ ip \in Nat /\ p * q \in Nat /\ ip < p * q
  BY <1>2, <1>3 DEF Routes!Addresses
<1>7. k \in Int /\ ip = (p * k) + x /\ x \in 0 .. p - 1
  BY <1>3, <1>6, DivMod, ModBound
<1> HIDE DEF k, x
<1>8. 0 <= k /\ k < q
  <2>1. k < 0 => p * k <= -p
    BY <1>3, <1>7
  <2>2. k >= q => p * k >= p * q
    BY <1>3, <1>7, <1>2
  <2>3. p * k \in Int
    BY <1>3, <1>7
  <2> QED
    BY <2>1, <2>2, <2>3, <1>2, <1>3, <1>6, <1>7
<1>9. p * k \in Nat /\ (p * k) + p <= p * q
  <2>1. p * k \in Nat
    BY <1>3, <1>7, <1>8
  <2>2. k + 1 <= q /\ p * (k + 1) = (p * k) + p
    BY <1>2, <1>3, <1>7, <1>8
  <2>3. p * (k + 1) <= p * q
    BY <2>2, <1>2, <1>3, <1>7
  <2> QED
    BY <2>1, <2>2, <2>3
<1>10. ip - x = p * k
  BY <1>3, <1>7, <1>9
<1>11. ((p * k) + (p - 1)) % p = p - 1
  BY <1>3, <1>7, ModOfSum
<1>12. p * k \in 0 .. (p * q) - 1 /\ (p * k) + (p - 1) \in 0 .. (p * q) - 1 /\ ip <= (p * k) + (p - 1)
  BY <1>3, <1>6, <1>7, <1>9
<1>13. ((p * k) + (p - 1)) - (p - 1) = p * k
  BY <1>3, <1>9
<1> QED
  BY <1>4, <1>5, <1>6, <1>10, <1>11, <1>12, <1>13

-----------------------------------------------------------------------------
(* Looking up.                                                             *)

LEMMA RouteTypes ==
  ASSUME NEW r \in RouteSet
  PROVE  /\ r.len \in 0 .. Width /\ r.len \in Int /\ r.hop \in NextHops /\ r.interface \in Routes!Interfaces
         /\ r # Routes!NoMatch
<1>1. r.len \in 0 .. Width /\ r.hop \in NextHops /\ r.interface \in Routes!Interfaces
  BY DEF RouteSet
<1>2. Routes!NoMatch.len = -1
  BY DEF Routes!NoMatch
<1> QED
  BY <1>1, <1>2

Holds(t, ip, r) == \E i \in DOMAIN t : t[i] = r /\ Routes!InSubnet(ip, r)

\* A look-up finds a longest match if there is a match.
LEMMA MatchFacts ==
  ASSUME NEW t \in Seq(RouteSet), NEW ip
  PROVE  LET m == Routes!Match(t, ip) IN
         \/ m = Routes!NoMatch /\ \A r : ~ Holds(t, ip, r)
         \/ m \in RouteSet /\ Holds(t, ip, m) /\ \A r : Holds(t, ip, r) => r.len <= m.len
<1> DEFINE n == Len(t)
           V == RouteSet \cup {Routes!NoMatch}
           F == [i \in 1 .. n |-> [v \in V |-> Routes!Stronger(t[i], v, ip)]]
<1>1. n \in Nat /\ DOMAIN t = 1 .. n /\ \A i \in 1 .. n : t[i] \in RouteSet
  BY LenProperties, ElementOfSeq
<1>2. PICK g \in [0 .. n -> V] : Rounds(g, n, Routes!NoMatch, F)
  <2>1. F \in [1 .. n -> [V -> V]] /\ Routes!NoMatch \in V
    BY <1>1 DEF Routes!Stronger
  <2> HIDE DEF F, V, n
  <2> QED
    BY <2>1, <1>1, RoundsExist
<1>3. g = [i \in 0 .. n |-> IF i = 0 THEN Routes!NoMatch ELSE Routes!Stronger(t[i], g[i - 1], ip)]
  <2>1. \A i \in 0 .. n : g[i] = IF i = 0 THEN Routes!NoMatch ELSE F[i][g[i - 1]]
    <3> HIDE DEF F, n
    <3> QED
      BY <1>2 DEF Rounds
  <2>2. \A i \in 0 .. n : i # 0 => F[i][g[i - 1]] = Routes!Stronger(t[i], g[i - 1], ip)
    <3> SUFFICES ASSUME NEW i \in 1 .. n PROVE F[i][g[i - 1]] = Routes!Stronger(t[i], g[i - 1], ip)
      BY <1>1
    <3>1. i - 1 \in 0 .. n
      BY <1>1
    <3>2. g[i - 1] \in V
      BY <3>1, <1>2
    <3> HIDE DEF V
    <3> QED
      BY <3>2
  <2> HIDE DEF F, n, V
  <2> QED
    BY <2>1, <2>2, <1>2
<1> HIDE DEF F
<1>4. PICK f : /\ f = [i \in 0 .. n |-> IF i = 0 THEN Routes!NoMatch ELSE Routes!Stronger(t[i], f[i - 1], ip)]
               /\ Routes!Match(t, ip) = f[n]
  BY <1>3 DEF Routes!Match
<1> DEFINE Good(k) == \/ f[k] = Routes!NoMatch /\ \A i \in 1 .. k : ~ Routes!InSubnet(ip, t[i])
                      \/ \E j \in 1 .. k : /\ f[k] = t[j] /\ Routes!InSubnet(ip, t[j])
                                           /\ \A i \in 1 .. k : Routes!InSubnet(ip, t[i]) => t[i].len <= t[j].len
           Bad == {k \in 0 .. n : ~ Good(k)}
<1>5. Bad = {}
  <2> SUFFICES ASSUME Bad # {} PROVE FALSE
    OBVIOUS
  <2>1. PICK k \in Bad : \A j \in Bad : k <= j
    <3> Bad \subseteq Nat
      OBVIOUS
    <3> HIDE DEF Bad
    <3> QED
      BY Least
  <2>2. CASE k = 0
    <3>1. f[0] = Routes!NoMatch
      BY <1>1, <1>4
    <3> QED
      BY <3>1, <2>1, <2>2
  <2>3. CASE k # 0
    <3>1. k \in 1 .. n /\ k - 1 \in 0 .. n /\ k - 1 \notin Bad
      BY <2>1, <2>3, <1>1
    <3>2. f[k] = Routes!Stronger(t[k], f[k - 1], ip)
      BY <3>1, <2>3, <1>4
    <3>3. \A i \in 1 .. k : i = k \/ i \in 1 .. k - 1
      BY <3>1, <1>1
    <3>4. 1 .. k - 1 \subseteq 1 .. k /\ \A i \in 1 .. k : i \in 1 .. n
      BY <3>1, <1>1
    <3>5. \A i \in 1 .. k : t[i].len \in Int /\ t[i].len >= 0
      BY <3>4, <1>1, RouteTypes
    <3>6. Good(k - 1)
      BY <3>1
    <3>7. Good(k)
      <4>1. CASE f[k - 1] = Routes!NoMatch /\ \A i \in 1 .. k - 1 : ~ Routes!InSubnet(ip, t[i])
        <5>1. f[k - 1].len = -1
          BY <4>1 DEF Routes!NoMatch
        <5> QED
          BY <4>1, <5>1, <3>1, <3>2, <3>3, <3>5 DEF Routes!Stronger
      <4>2. ASSUME NEW j \in 1 .. k - 1, f[k - 1] = t[j], Routes!InSubnet(ip, t[j]),
                   \A i \in 1 .. k - 1 : Routes!InSubnet(ip, t[i]) => t[i].len <= t[j].len
            PROVE  Good(k)
        <5>1. CASE Routes!InSubnet(ip, t[k]) /\ t[j].len <= t[k].len
          <6>1. f[k] = t[k]
            BY <5>1, <4>2, <3>2 DEF Routes!Stronger
          <6>2. ASSUME NEW i \in 1 .. k, Routes!InSubnet(ip, t[i]) PROVE t[i].len <= t[k].len
            <7>1. t[i].len \in Int /\ t[j].len \in Int /\ t[k].len \in Int
              BY <3>1, <3>4, <3>5, <1>1
            <7>2. i = k \/ t[i].len <= t[j].len
              BY <6>2, <4>2, <3>3
            <7> QED
              BY <7>1, <7>2, <5>1
          <6>3. k \in 1 .. k
            BY <3>1, <1>1
          <6> QED
            BY <6>1, <6>2, <6>3, <5>1
        <5>2. CASE ~(Routes!InSubnet(ip, t[k]) /\ t[j].len <= t[k].len)
          <6>1. f[k] = t[j]
            BY <5>2, <4>2, <3>2 DEF Routes!Stronger
          <6>2. ASSUME NEW i \in 1 .. k, Routes!InSubnet(ip, t[i]) PROVE t[i].len <= t[j].len
            <7>1. t[i].len \in Int /\ t[j].len \in Int /\ t[k].len \in Int
              BY <3>1, <3>4, <3>5, <1>1
            <7>2. i = k \/ t[i].len <= t[j].len
              BY <6>2, <4>2, <3>3
            <7> QED
              BY <7>1, <7>2, <6>2, <5>2
          <6> QED
            BY <6>1, <6>2, <4>2, <3>4
        <5> QED
          BY <5>1, <5>2
      <4> QED
        BY <3>6, <4>1, <4>2
    <3> HIDE DEF Good
    <3> QED
      BY <3>7, <2>1
  <2> QED
    BY <2>2, <2>3
<1>6. Good(n)
  <2>1. n \in 0 .. n
    BY <1>1
  <2> HIDE DEF Good, n
  <2> QED
    BY <2>1, <1>5
<1>7. \A r : Holds(t, ip, r) <=> \E i \in 1 .. n : t[i] = r /\ Routes!InSubnet(ip, t[i])
  BY <1>1 DEF Holds
<1> QED
  BY <1>1, <1>4, <1>6, <1>7

\* Two routes of a table that match with the same length are one.
LEMMA MatchOne ==
  ASSUME NEW t, Table(t), NEW ip, NEW r, NEW s, Holds(t, ip, r), Holds(t, ip, s), r.len = s.len
  PROVE  r = s
<1>1. PICK i \in DOMAIN t, j \in DOMAIN t : t[i] = r /\ t[j] = s
  BY DEF Holds
<1>2. r.ip = s.ip
  BY DEF Holds, Routes!InSubnet
<1> QED
  BY <1>1, <1>2 DEF Table

LEMMA HoldsTypes == ASSUME NEW t \in Seq(RouteSet), NEW ip, NEW r, Holds(t, ip, r) PROVE r \in RouteSet
  BY ElementOfSeq, LenProperties DEF Holds

\* A look-up depends on the routes that match only.
LEMMA SameMatch ==
  ASSUME NEW t, NEW u, Table(t), Table(u), NEW ip, \A r : Holds(t, ip, r) <=> Holds(u, ip, r)
  PROVE  Routes!Match(t, ip) = Routes!Match(u, ip)
<1> DEFINE m == Routes!Match(t, ip)
           k == Routes!Match(u, ip)
<1>1. t \in Seq(RouteSet) /\ u \in Seq(RouteSet)
  BY DEF Table
<1>2. \/ m = Routes!NoMatch /\ \A r : ~ Holds(t, ip, r)
      \/ m \in RouteSet /\ Holds(t, ip, m) /\ \A r : Holds(t, ip, r) => r.len <= m.len
  BY <1>1, MatchFacts
<1>3. \/ k = Routes!NoMatch /\ \A r : ~ Holds(u, ip, r)
      \/ k \in RouteSet /\ Holds(u, ip, k) /\ \A r : Holds(u, ip, r) => r.len <= k.len
  BY <1>1, MatchFacts
<1> HIDE DEF m, k
<1>4. ASSUME Holds(t, ip, m), Holds(t, ip, k), m.len <= k.len, k.len <= m.len, m \in RouteSet, k \in RouteSet
      PROVE  m = k
  <2>1. m.len = k.len
    BY <1>4, RouteTypes
  <2> QED
    BY <1>4, <2>1, MatchOne
<1>5. m = k
  BY <1>2, <1>3, <1>4
<1> QED
  BY <1>5 DEF m, k

\* The longest routes that contain an address are the one a look-up finds.
LEMMA BestMatch ==
  ASSUME RoutesIInv, NEW ip, NEW r
  PROVE  r \in Routes!Best(ip) <=> r = Routes!Match(routes, ip) /\ r # Routes!NoMatch
<1> DEFINE m == Routes!Match(routes, ip)
<1>1. routes \in Seq(RouteSet) /\ Table(routes)
  BY DEF RoutesIInv, Table
<1>2. \/ m = Routes!NoMatch /\ \A s : ~ Holds(routes, ip, s)
      \/ m \in RouteSet /\ Holds(routes, ip, m) /\ \A s : Holds(routes, ip, s) => s.len <= m.len
  BY <1>1, MatchFacts
<1> HIDE DEF m
<1>3. \A s : s \in Routes!Range(routes) /\ Routes!InSubnet(ip, s) <=> Holds(routes, ip, s)
  BY DEF Holds, Routes!Range
<1>4. r \in Routes!Best(ip) <=> Holds(routes, ip, r) /\ \A s : Holds(routes, ip, s) => s.len <= r.len
  BY <1>3 DEF Routes!Best
<1>5. ASSUME r \in Routes!Best(ip) PROVE r = m /\ r # Routes!NoMatch
  <2>1. Holds(routes, ip, r) /\ r \in RouteSet
    BY <1>1, <1>4, <1>5, HoldsTypes
  <2>2. Holds(routes, ip, m) /\ m \in RouteSet /\ r.len <= m.len /\ m.len <= r.len
    BY <1>2, <1>4, <1>5, <2>1
  <2>3. r.len = m.len
    BY <2>1, <2>2, RouteTypes
  <2> QED
    BY <1>1, <2>1, <2>2, <2>3, MatchOne, RouteTypes
<1>6. ASSUME r = m, r # Routes!NoMatch PROVE r \in Routes!Best(ip)
  BY <1>2, <1>4, <1>6
<1> QED
  BY <1>5, <1>6 DEF m

-----------------------------------------------------------------------------
(* Following next hops.                                                    *)

LEMMA RoutesConstants ==
  /\ Width \in Nat /\ RoutesCapacity \in Nat /\ MaxRecursion \in Nat \ {0}
  /\ OwnIp \in [Routes!Interfaces -> Routes!Destinations]
  /\ NextHops \subseteq Routes!Addresses
  BY RoutesAssumption DEF Routes!FwRoutesAssumption

HIDE RoutesAssumption DEF RoutesAssumption

\* Another address is looked up only if the match names it as its next hop.
LEMMA StepFacts ==
  ASSUME NEW t \in Seq(RouteSet), NEW ip \in Routes!Destinations
  PROVE  LET m == Routes!Match(t, ip) IN
         /\ Routes!Step(t, ip) \in Routes!Destinations
         /\ \/ Routes!Step(t, ip) = ip /\ (m = Routes!NoMatch \/ m.hop = Routes!NoHop)
            \/ Routes!Step(t, ip) = m.hop /\ m # Routes!NoMatch /\ m.hop # Routes!NoHop
<1> DEFINE m == Routes!Match(t, ip)
<1>1. m = Routes!NoMatch \/ m \in RouteSet
  BY MatchFacts
<1> HIDE DEF m
<1>2. m # Routes!NoMatch /\ m.hop # Routes!NoHop => m.hop \in Routes!Destinations
  BY <1>1, RouteTypes, RoutesConstants DEF Routes!Destinations
<1> QED
  BY <1>2 DEF Routes!Step, m

\* The addresses that find_route looks up.
Walk(ip, t, dst) ==
  /\ ip \in [0 .. MaxRecursion - 1 -> Routes!Destinations] /\ ip[0] = dst
  /\ \A k \in 1 .. MaxRecursion - 1 : ip[k] = Routes!Step(t, ip[k - 1])

LEMMA WalkExists ==
  ASSUME NEW t \in Seq(RouteSet), NEW dst \in Routes!Destinations
  PROVE  \E ip : /\ Walk(ip, t, dst)
                 /\ LET last == ip[MaxRecursion - 1]
                        m == Routes!Match(t, last)
                    IN  Routes!FindRoute(t, dst) = IF m = Routes!NoMatch \/ m.hop # Routes!NoHop THEN Routes!NoRoute
                                                   ELSE [hop |-> last, route |-> m]
<1> DEFINE n == MaxRecursion - 1
           F == [i \in 1 .. n |-> [v \in Routes!Destinations |-> Routes!Step(t, v)]]
<1>1. n \in Nat
  BY RoutesConstants
<1>2. PICK g \in [0 .. n -> Routes!Destinations] : Rounds(g, n, dst, F)
  <2>1. F \in [1 .. n -> [Routes!Destinations -> Routes!Destinations]]
    BY StepFacts
  <2> HIDE DEF F, n
  <2> QED
    BY <2>1, <1>1, RoundsExist
<1>3. g = [i \in 0 .. n |-> IF i = 0 THEN dst ELSE Routes!Step(t, g[i - 1])]
  <2>1. \A i \in 0 .. n : g[i] = IF i = 0 THEN dst ELSE F[i][g[i - 1]]
    <3> HIDE DEF F, n
    <3> QED
      BY <1>2 DEF Rounds
  <2>2. \A i \in 0 .. n : i # 0 => F[i][g[i - 1]] = Routes!Step(t, g[i - 1])
    <3> SUFFICES ASSUME NEW i \in 1 .. n PROVE F[i][g[i - 1]] = Routes!Step(t, g[i - 1])
      BY <1>1
    <3>1. i - 1 \in 0 .. n
      BY <1>1
    <3>2. g[i - 1] \in Routes!Destinations
      BY <3>1, <1>2
    <3> QED
      BY <3>2
  <2> HIDE DEF F, n
  <2> QED
    BY <2>1, <2>2, <1>2
<1> HIDE DEF F
<1> DEFINE IsWalk(f) == f = [i \in 0 .. n |-> IF i = 0 THEN dst ELSE Routes!Step(t, f[i - 1])]
<1>4. PICK f : /\ IsWalk(f)
               /\ LET last == f[n]
                      m == Routes!Match(t, last)
                  IN  Routes!FindRoute(t, dst) = IF m = Routes!NoMatch \/ m.hop # Routes!NoHop THEN Routes!NoRoute
                                                 ELSE [hop |-> last, route |-> m]
  BY <1>3 DEF Routes!FindRoute
<1>5. \A i \in 0 .. n : f[i] = IF i = 0 THEN dst ELSE Routes!Step(t, f[i - 1])
  <2> HIDE DEF n
  <2> QED
    BY <1>4
<1>6. \A i \in 0 .. n : f[i] \in Routes!Destinations
  <2> DEFINE Off == {i \in 0 .. n : f[i] \notin Routes!Destinations}
  <2> SUFFICES ASSUME Off # {} PROVE FALSE
    OBVIOUS
  <2>1. PICK i \in Off : \A j \in Off : i <= j
    <3> Off \subseteq Nat
      OBVIOUS
    <3> HIDE DEF Off
    <3> QED
      BY Least
  <2>2. i \in 0 .. n /\ (i # 0 => i - 1 \in 0 .. n /\ i - 1 \notin Off)
    BY <2>1, <1>1
  <2>3. i # 0 => f[i - 1] \in Routes!Destinations
    BY <2>2
  <2> QED
    BY <2>1, <2>2, <2>3, <1>5, StepFacts
<1>7. Walk(f, t, dst)
  <2>1. f \in [0 .. n -> Routes!Destinations]
    <3>1. f = [i \in 0 .. n |-> f[i]]
      <4> HIDE DEF n
      <4> QED
        BY <1>4
    <3> QED
      BY <3>1, <1>6
  <2>2. f[0] = dst /\ \A i \in 1 .. n : f[i] = Routes!Step(t, f[i - 1])
    <3>1. 0 \in 0 .. n /\ \A i \in 1 .. n : i \in 0 .. n /\ i # 0
      BY <1>1
    <3> HIDE DEF n
    <3> QED
      BY <3>1, <1>5
  <2> QED
    BY <2>1, <2>2 DEF Walk
<1> HIDE DEF IsWalk
<1> QED
  BY <1>4, <1>7

\* A way, place by place.
LEMMA WayShape ==
  ASSUME NEW dst \in Routes!Destinations, NEW way
  PROVE  way \in Routes!Ways(dst) <=>
           /\ way \in Seq(Routes!Destinations) /\ Len(way) \in 1 .. MaxRecursion /\ way[1] = dst
           /\ \A i \in 2 .. Len(way) : \E r \in Routes!Best(way[i - 1]) : r.hop = way[i]
<1> DEFINE D == Routes!Destinations
           H == Routes!BoundedSeq(D, MaxRecursion - 1)
<1>1. MaxRecursion \in Nat \ {0}
  BY RoutesConstants
<1>2. H = UNION {[1 .. m -> D] : m \in 0 .. MaxRecursion - 1}
  BY DEF Routes!BoundedSeq, Routes!SeqOf
<1>3. ASSUME NEW hops \in H, way = <<dst>> \o hops
      PROVE  way \in Seq(D) /\ Len(way) \in 1 .. MaxRecursion /\ way[1] = dst
  <2>1. PICK m \in 0 .. MaxRecursion - 1 : hops \in [1 .. m -> D]
    BY <1>2, <1>3
  <2>2. m \in Nat /\ hops \in Seq(D) /\ Len(hops) = m /\ <<dst>> \in Seq(D) /\ Len(<<dst>>) = 1
    BY <1>1, <2>1
  <2> HIDE DEF D, H
  <2>3. way \in Seq(D) /\ Len(way) = 1 + m /\ way[1] = <<dst>>[1]
    BY <2>2, <1>3, ConcatProperties
  <2> QED
    BY <2>1, <2>2, <2>3, <1>1
<1>4. ASSUME way \in Seq(D), Len(way) \in 1 .. MaxRecursion, way[1] = dst
      PROVE  \E hops \in H : way = <<dst>> \o hops
  <2> DEFINE m == Len(way) - 1
             hops == [i \in 1 .. m |-> way[i + 1]]
  <2>1. m \in 0 .. MaxRecursion - 1 /\ m \in Nat /\ Len(way) = 1 + m
    BY <1>1, <1>4
  <2>2. hops \in [1 .. m -> D]
    <3>1. \A i \in 1 .. m : i + 1 \in 1 .. Len(way)
      BY <2>1
    <3> HIDE DEF D
    <3> QED
      BY <3>1, <1>4, ElementOfSeq
  <2>3. hops \in H
    BY <1>2, <2>1, <2>2
  <2>4. hops \in Seq(D) /\ Len(hops) = m /\ <<dst>> \in Seq(D) /\ Len(<<dst>>) = 1 /\ <<dst>>[1] = dst
    <3>1. <<dst>> \in Seq(D) /\ Len(<<dst>>) = 1 /\ <<dst>>[1] = dst
      OBVIOUS
    <3> HIDE DEF hops, m, D
    <3> QED
      BY <3>1, <2>1, <2>2
  <2>5. \A i \in 1 .. m : hops[i] = way[i + 1]
    OBVIOUS
  <2> HIDE DEF hops, m, D, H
  <2> DEFINE c == <<dst>> \o hops
  <2>6. /\ c \in Seq(D) /\ Len(c) = 1 + m
        /\ \A i \in 1 .. 1 + m : c[i] = IF i <= 1 THEN <<dst>>[i] ELSE hops[i - 1]
    BY <2>4, ConcatProperties
  <2> HIDE DEF c
  <2>7. \A i \in 1 .. Len(way) : way[i] = c[i]
    <3> SUFFICES ASSUME NEW i \in 1 .. Len(way) PROVE way[i] = c[i]
      OBVIOUS
    <3>1. CASE i = 1
      BY <3>1, <2>1, <2>4, <2>6, <1>4
    <3>2. CASE i # 1
      <4>1. i - 1 \in 1 .. m /\ i \in 1 .. 1 + m /\ ~(i <= 1) /\ (i - 1) + 1 = i
        BY <3>2, <2>1
      <4> QED
        BY <4>1, <2>5, <2>6
    <3> QED
      BY <3>1, <3>2
  <2>8. way = c
    BY <2>1, <2>6, <2>7, <1>4, SeqEqual
  <2> QED
    BY <2>3, <2>8 DEF c
<1> QED
  BY <1>3, <1>4 DEF Routes!Ways

\* A way is what find_route looks up.
LEMMA WayWalked ==
  ASSUME RoutesIInv, NEW dst \in Routes!Destinations, NEW ip, Walk(ip, routes, dst),
         NEW way \in Routes!Ways(dst)
  PROVE  \A i \in 1 .. Len(way) : way[i] = ip[i - 1]
<1>1. /\ way \in Seq(Routes!Destinations) /\ Len(way) \in 1 .. MaxRecursion /\ way[1] = dst
      /\ \A i \in 2 .. Len(way) : \E r \in Routes!Best(way[i - 1]) : r.hop = way[i]
  BY WayShape
<1>2. /\ ip \in [0 .. MaxRecursion - 1 -> Routes!Destinations] /\ ip[0] = dst
      /\ \A k \in 1 .. MaxRecursion - 1 : ip[k] = Routes!Step(routes, ip[k - 1])
  BY DEF Walk
<1>3. MaxRecursion \in Nat \ {0} /\ routes \in Seq(RouteSet)
  BY RoutesConstants DEF RoutesIInv, Table
<1> DEFINE Off == {i \in 1 .. Len(way) : way[i] # ip[i - 1]}
<1> SUFFICES ASSUME Off # {} PROVE FALSE
  OBVIOUS
<1>4. PICK i \in Off : \A j \in Off : i <= j
  <2> Off \subseteq Nat
    OBVIOUS
  <2> HIDE DEF Off
  <2> QED
    BY Least
<1>5. i # 1
  BY <1>1, <1>2, <1>4
<1>6. /\ i \in 2 .. Len(way) /\ i - 1 \in 1 .. Len(way) /\ i - 1 \notin Off
      /\ i - 1 \in 1 .. MaxRecursion - 1 /\ i - 2 \in 0 .. MaxRecursion - 1
  BY <1>1, <1>3, <1>4, <1>5
<1>7. way[i - 1] = ip[i - 2] /\ ip[i - 1] = Routes!Step(routes, ip[i - 2]) /\ ip[i - 2] \in Routes!Destinations
  BY <1>2, <1>6
<1>8. PICK r \in Routes!Best(ip[i - 2]) : r.hop = way[i]
  BY <1>1, <1>6, <1>7
<1>9. r = Routes!Match(routes, ip[i - 2]) /\ r # Routes!NoMatch
  BY <1>8, BestMatch
<1>10. way[i] \in Routes!Destinations
  BY <1>1, <1>6, ElementOfSeq
<1>11. r.hop # Routes!NoHop
  BY <1>8, <1>10 DEF Routes!Destinations
<1>12. Routes!Step(routes, ip[i - 2]) = r.hop
  BY <1>3, <1>7, <1>9, <1>11, StepFacts
<1> QED
  BY <1>4, <1>7, <1>8, <1>12

\* Each address that find_route looks up ends a way.
LEMMA WalkWays ==
  ASSUME RoutesIInv, NEW dst \in Routes!Destinations, NEW ip, Walk(ip, routes, dst)
  PROVE  \A k \in 0 .. MaxRecursion - 1 : \E way \in Routes!Ways(dst) : Routes!Last(way) = ip[k]
<1> DEFINE Ends(k) == \E way \in Routes!Ways(dst) : Len(way) <= k + 1 /\ Routes!Last(way) = ip[k]
           Off == {k \in 0 .. MaxRecursion - 1 : ~ Ends(k)}
<1>1. /\ ip \in [0 .. MaxRecursion - 1 -> Routes!Destinations] /\ ip[0] = dst
      /\ \A k \in 1 .. MaxRecursion - 1 : ip[k] = Routes!Step(routes, ip[k - 1])
  BY DEF Walk
<1>2. MaxRecursion \in Nat \ {0} /\ routes \in Seq(RouteSet)
  BY RoutesConstants DEF RoutesIInv, Table
<1>3. Off = {}
  <2> SUFFICES ASSUME Off # {} PROVE FALSE
    OBVIOUS
  <2>1. PICK k \in Off : \A j \in Off : k <= j
    <3> Off \subseteq Nat
      OBVIOUS
    <3> HIDE DEF Off
    <3> QED
      BY Least
  <2>2. CASE k = 0
    <3>1. <<dst>> \in Seq(Routes!Destinations) /\ Len(<<dst>>) = 1 /\ <<dst>>[1] = dst
      OBVIOUS
    <3>2. Len(<<dst>>) \in 1 .. MaxRecursion /\ 2 .. Len(<<dst>>) = {}
      BY <1>2, <3>1
    <3>3. <<dst>> \in Routes!Ways(dst)
      BY <3>1, <3>2, WayShape
    <3>4. Routes!Last(<<dst>>) = dst
      BY <3>1 DEF Routes!Last
    <3>5. Len(<<dst>>) <= k + 1 /\ Routes!Last(<<dst>>) = ip[k]
      BY <3>1, <3>4, <1>1, <2>2
    <3>6. Ends(k)
      BY <3>3, <3>5
    <3> HIDE DEF Ends
    <3> QED
      BY <3>6, <2>1
  <2>3. CASE k # 0
    <3>1. k \in 1 .. MaxRecursion - 1 /\ k - 1 \in 0 .. MaxRecursion - 1 /\ k - 1 \notin Off
      BY <2>1, <2>3, <1>2
    <3>2. PICK way \in Routes!Ways(dst) : Len(way) <= (k - 1) + 1 /\ Routes!Last(way) = ip[k - 1]
      BY <3>1
    <3>3. /\ way \in Seq(Routes!Destinations) /\ Len(way) \in 1 .. MaxRecursion /\ way[1] = dst
          /\ \A i \in 2 .. Len(way) : \E r \in Routes!Best(way[i - 1]) : r.hop = way[i]
      BY WayShape
    <3>4. /\ ip[k] = Routes!Step(routes, ip[k - 1])
          /\ ip[k] \in Routes!Destinations /\ ip[k - 1] \in Routes!Destinations
      BY <1>1, <3>1
    <3> DEFINE m == Routes!Match(routes, ip[k - 1])
    <3>5. \/ ip[k] = ip[k - 1]
          \/ ip[k] = m.hop /\ m # Routes!NoMatch
      BY <1>2, <3>4, StepFacts
    <3> HIDE DEF m
    <3>6. CASE ip[k] = ip[k - 1]
      <4>1. Len(way) <= k + 1
        BY <3>1, <3>2, <3>3
      <4> QED
        BY <4>1, <3>2, <3>6, <2>1
    <3>7. CASE ip[k] = m.hop /\ m # Routes!NoMatch
      <4> DEFINE n == Len(way)
                 longer == Append(way, ip[k])
      <4>1. n \in Nat /\ n >= 1 /\ n <= k /\ n + 1 \in 1 .. MaxRecursion
        BY <3>1, <3>2, <3>3, <1>2
      <4>2. /\ longer \in Seq(Routes!Destinations) /\ Len(longer) = n + 1
            /\ \A i \in 1 .. n : longer[i] = way[i]
            /\ longer[n + 1] = ip[k]
        BY <3>3, <3>4, AppendProperties
      <4>3. longer[1] = dst
        BY <3>3, <4>1, <4>2
      <4>4. \A i \in 2 .. n + 1 : \E r \in Routes!Best(longer[i - 1]) : r.hop = longer[i]
        <5> SUFFICES ASSUME NEW i \in 2 .. n + 1 PROVE \E r \in Routes!Best(longer[i - 1]) : r.hop = longer[i]
          OBVIOUS
        <5> HIDE DEF longer
        <5>1. CASE i = n + 1
          <6>1. longer[i - 1] = way[n]
            BY <5>1, <4>1, <4>2
          <6>2. way[n] = ip[k - 1]
            BY <3>2 DEF Routes!Last
          <6>3. m \in Routes!Best(ip[k - 1])
            BY <3>7, BestMatch DEF m
          <6> QED
            BY <6>1, <6>2, <6>3, <3>7, <4>2, <5>1
        <5>2. CASE i # n + 1
          <6>1. i \in 2 .. n /\ i \in 1 .. n /\ i - 1 \in 1 .. n
            BY <5>2, <4>1
          <6> QED
            BY <6>1, <3>3, <4>2
        <5> QED
          BY <5>1, <5>2
      <4> HIDE DEF longer
      <4>5. longer \in Routes!Ways(dst)
        BY <4>1, <4>2, <4>3, <4>4, WayShape
      <4>6. Routes!Last(longer) = ip[k] /\ Len(longer) <= k + 1
        BY <4>1, <4>2, <3>1 DEF Routes!Last
      <4> QED
        BY <4>5, <4>6, <2>1
    <3> QED
      BY <3>5, <3>6, <3>7
  <2> QED
    BY <2>2, <2>3
<1> QED
  BY <1>3

\* Once there is no other address to look up, the walk stays where it is.
LEMMA WalkStays ==
  ASSUME NEW t, NEW dst, NEW ip, Walk(ip, t, dst), NEW n \in 0 .. MaxRecursion - 1,
         Routes!Step(t, ip[n]) = ip[n]
  PROVE  ip[MaxRecursion - 1] = ip[n]
<1> DEFINE Off == {k \in 0 .. MaxRecursion - 1 : n <= k /\ ip[k] # ip[n]}
<1>1. MaxRecursion \in Nat \ {0} /\ MaxRecursion - 1 \in 0 .. MaxRecursion - 1 /\ n <= MaxRecursion - 1
  BY RoutesConstants
<1> SUFFICES ASSUME Off # {} PROVE FALSE
  BY <1>1
<1>2. PICK k \in Off : \A j \in Off : k <= j
  <2> Off \subseteq Nat
    OBVIOUS
  <2> HIDE DEF Off
  <2> QED
    BY Least
<1>3. k # n
  BY <1>2
<1>4. k \in 1 .. MaxRecursion - 1 /\ k - 1 \in 0 .. MaxRecursion - 1 /\ n <= k - 1 /\ k - 1 \notin Off
  BY <1>1, <1>2, <1>3
<1>5. ip[k] = Routes!Step(t, ip[k - 1]) /\ ip[k - 1] = ip[n]
  BY <1>4 DEF Walk
<1> QED
  BY <1>2, <1>5

-----------------------------------------------------------------------------
(* Changing the table.                                                     *)

\* A route is added only if none is for its subnet.
LEMMA AddedAlone ==
  ASSUME routes \in Seq(RouteSet), NEW ip, NEW len, NEW interface, NEW h,
         Routes!Refuse(ip, len, interface, h) = "okay"
  PROVE  \A i \in DOMAIN routes : ~ Routes!Clash(ip, len, routes[i])
  BY DEF Routes!Refuse

\* What a call leaves of the table: one route more, or one less.
LEMMA RoutesNext ==
  ASSUME RoutesIInv, Routes!Next
  PROVE  /\ RoutesIInv'
         /\ \/ \E r \in Routes!Range(routes) : Routes!Range(routes') = Routes!Range(routes) \ {r}
            \/ \E r \in Routes!Range(routes') : Routes!Range(routes) = Routes!Range(routes') \ {r}
<1> DEFINE n == Len(routes)
<1>1. /\ routes \in Seq(RouteSet) /\ n \in Nat /\ DOMAIN routes = 1 .. n
      /\ \A i \in 1 .. n : routes[i] \in RouteSet
      /\ \A i, j \in 1 .. n : routes[i].len = routes[j].len /\ routes[i].ip = routes[j].ip => i = j
  <2>1. routes \in Seq(RouteSet)
    BY DEF RoutesIInv, Table
  <2> QED
    BY <2>1, LenProperties, ElementOfSeq DEF RoutesIInv, Table
<1>2. ASSUME NEW ip \in Routes!Addresses, NEW len \in 0 .. Width, NEW i \in Routes!Interfaces, NEW h \in NextHops,
             Routes!AddRoute(ip, len, i, h)
      PROVE  /\ RoutesIInv'
             /\ \E r \in Routes!Range(routes') : Routes!Range(routes) = Routes!Range(routes') \ {r}
  <2> DEFINE r == [ip |-> Routes!Mask(len, ip), len |-> len, interface |-> i, hop |-> h]
  <2>1. r \in RouteSet /\ r.len = len /\ r.ip = Routes!Mask(len, ip)
    <3>1. Routes!Mask(len, ip) \in Routes!Addresses
      BY RoutesConstants, SubnetFacts
    <3> QED
      BY <3>1 DEF RouteSet
  <2>2. routes' = Append(routes, r) /\ \A j \in 1 .. n : ~ Routes!Clash(ip, len, routes[j])
    BY <1>1, <1>2, AddedAlone DEF Routes!AddRoute
  <2>3. \A j \in 1 .. n : routes[j].len # r.len \/ routes[j].ip # r.ip
    BY <2>1, <2>2 DEF Routes!Clash
  <2> HIDE DEF r, n
  <2>4. /\ routes' \in Seq(RouteSet) /\ Len(routes') = n + 1 /\ DOMAIN routes' = 1 .. n + 1
        /\ \A j \in 1 .. n : routes'[j] = routes[j]
        /\ routes'[n + 1] = r
    BY <1>1, <2>1, <2>2, AppendProperties, LenProperties DEF n
  <2>5. \A j \in 1 .. n + 1 : j \in 1 .. n \/ j = n + 1
    BY <1>1
  <2>6. RoutesIInv'
    BY <1>1, <2>3, <2>4, <2>5 DEF RoutesIInv, Table
  <2>7. Routes!Range(routes') = Routes!Range(routes) \cup {r}
    <3>1. n + 1 \in 1 .. n + 1 /\ 1 .. n \subseteq 1 .. n + 1
      BY <1>1
    <3> QED
      BY <1>1, <2>4, <2>5, <3>1 DEF Routes!Range
  <2>8. r \notin Routes!Range(routes)
    BY <1>1, <2>3 DEF Routes!Range
  <2> QED
    BY <2>6, <2>7, <2>8
<1>3. ASSUME NEW place \in 1 .. RoutesCapacity, Routes!DeleteRoute(place)
      PROVE  /\ RoutesIInv'
             /\ \E r \in Routes!Range(routes) : Routes!Range(routes') = Routes!Range(routes) \ {r}
  <2>1. /\ place \in 1 .. n /\ n - 1 \in Nat
        /\ routes' = [i \in 1 .. n - 1 |-> IF i < place THEN routes[i] ELSE routes[i + 1]]
    BY <1>1, <1>3 DEF Routes!DeleteRoute, Routes!Shifted
  <2> DEFINE From(i) == IF i < place THEN i ELSE i + 1
  <2>2. \A i \in 1 .. n - 1 : From(i) \in 1 .. n /\ From(i) # place
    BY <1>1, <2>1
  <2>3. \A i, j \in 1 .. n - 1 : From(i) = From(j) => i = j
    BY <1>1, <2>1
  <2>4. \A j \in 1 .. n : j # place => \E i \in 1 .. n - 1 : From(i) = j
    <3> SUFFICES ASSUME NEW j \in 1 .. n, j # place PROVE \E i \in 1 .. n - 1 : From(i) = j
      OBVIOUS
    <3>1. CASE j < place
      <4>1. j \in 1 .. n - 1 /\ From(j) = j
        BY <3>1, <1>1, <2>1
      <4> QED
        BY <4>1
    <3>2. CASE j > place
      <4>1. j - 1 \in 1 .. n - 1 /\ From(j - 1) = j
        BY <3>2, <1>1, <2>1
      <4> QED
        BY <4>1
    <3> QED
      BY <3>1, <3>2, <1>1, <2>1
  <2> HIDE DEF n
  <2>5. /\ \A i \in 1 .. n - 1 : routes'[i] = routes[From(i)]
        /\ DOMAIN routes' = 1 .. n - 1
    BY <2>1
  <2> HIDE DEF From
  <2>6. routes' \in Seq(RouteSet)
    <3>1. routes' \in [1 .. n - 1 -> RouteSet]
      BY <1>1, <2>1, <2>2, <2>5
    <3> QED
      BY <3>1, <2>1
  <2>7. RoutesIInv'
    <3>1. \A i, j \in 1 .. n - 1 :
            routes'[i].len = routes'[j].len /\ routes'[i].ip = routes'[j].ip => From(i) = From(j)
      BY <1>1, <2>2, <2>5
    <3> QED
      BY <3>1, <2>3, <2>5, <2>6 DEF RoutesIInv, Table
  <2>8. \A i \in 1 .. n : i # place => routes[i] # routes[place]
    BY <1>1, <2>1
  <2>9. Routes!Range(routes') = Routes!Range(routes) \ {routes[place]}
    <3>1. \A r \in Routes!Range(routes') : r \in Routes!Range(routes) /\ r # routes[place]
      BY <1>1, <2>2, <2>5, <2>8 DEF Routes!Range
    <3>2. ASSUME NEW r \in Routes!Range(routes), r # routes[place] PROVE r \in Routes!Range(routes')
      <4>1. PICK j \in 1 .. n : routes[j] = r
        BY <1>1 DEF Routes!Range
      <4>2. PICK i \in 1 .. n - 1 : From(i) = j
        BY <4>1, <3>2, <2>4
      <4> QED
        BY <4>1, <4>2, <2>5 DEF Routes!Range
    <3> QED
      BY <3>1, <3>2
  <2>10. routes[place] \in Routes!Range(routes)
    BY <1>1, <2>1 DEF Routes!Range
  <2> QED
    BY <2>7, <2>9, <2>10
<1> QED
  BY <1>2, <1>3 DEF Routes!Next

-----------------------------------------------------------------------------
(* Where packets go.                                                       *)

\* A direct route refuses the last address of its subnet.
LEMMA LastAddress ==
  ASSUME NEW r \in RouteSet, NEW last \in Routes!Destinations, Routes!InSubnet(last, r), NEW dst \in Routes!Destinations
  PROVE  Routes!Broadcast(last, r.len) = dst <=>
         Routes!InSubnet(dst, r) /\ \A ip \in Routes!Addresses : Routes!InSubnet(ip, r) => ip <= dst
<1> DEFINE b == Routes!Broadcast(last, r.len)
<1>1. r.len \in 0 .. Width /\ Width \in Nat /\ last \in Routes!Addresses /\ dst \in Routes!Addresses
  BY RouteTypes, RoutesConstants DEF Routes!Destinations
<1>2. b \in Routes!Addresses /\ Routes!Mask(r.len, b) = Routes!Mask(r.len, last)
  BY <1>1, SubnetFacts
<1>3. Routes!InSubnet(b, r)
  BY <1>2 DEF Routes!InSubnet
<1>4. ASSUME NEW ip \in Routes!Addresses, Routes!InSubnet(ip, r) PROVE ip <= b
  <2>1. Routes!Mask(r.len, ip) = Routes!Mask(r.len, last)
    BY <1>4 DEF Routes!InSubnet
  <2>2. Routes!Broadcast(ip, r.len) = b
    BY <2>1 DEF Routes!Broadcast
  <2> QED
    BY <2>2, <1>1, SubnetFacts
<1>5. Routes!Addresses \subseteq Int
  BY DEF Routes!Addresses
<1> HIDE DEF b
<1>6. ASSUME Routes!InSubnet(dst, r), \A ip \in Routes!Addresses : Routes!InSubnet(ip, r) => ip <= dst PROVE b = dst
  <2>1. b <= dst /\ dst <= b
    BY <1>1, <1>2, <1>3, <1>4, <1>6
  <2> QED
    BY <2>1, <1>1, <1>2, <1>5
<1>7. b = dst => Routes!InSubnet(dst, r) /\ \A ip \in Routes!Addresses : Routes!InSubnet(ip, r) => ip <= dst
  BY <1>3, <1>4
<1> QED
  BY <1>6, <1>7 DEF b

LEMMA RoutesFollowed == RoutesIInv => Routes!RouteExact
<1> SUFFICES ASSUME RoutesIInv, NEW dst \in Routes!Destinations
             PROVE  /\ \A r, s \in Routes!Best(dst) : r = s
                    /\ IF Routes!WholeWays(dst) = {} THEN Routes!Forward(routes, dst) = "unreachable"
                       ELSE LET way == CHOOSE w \in Routes!WholeWays(dst) : TRUE
                                last == Routes!Last(way)
                                direct == CHOOSE r \in Routes!Best(last) : TRUE
                            IN  Routes!Forward(routes, dst) =
                                IF last = OwnIp[direct.interface] THEN "unreachable"
                                ELSE IF /\ Routes!InSubnet(dst, direct)
                                        /\ \A ip \in Routes!Addresses : Routes!InSubnet(ip, direct) => ip <= dst
                                     THEN "broadcast"
                                ELSE [hop |-> last, route |-> direct]
  BY DEF Routes!RouteExact
<1>1. \A r, s \in Routes!Best(dst) : r = s
  BY BestMatch
<1>2. routes \in Seq(RouteSet) /\ MaxRecursion \in Nat \ {0} /\ MaxRecursion - 1 \in 0 .. MaxRecursion - 1
  BY RoutesConstants DEF RoutesIInv, Table
<1>3. PICK ip : /\ Walk(ip, routes, dst)
                /\ LET last == ip[MaxRecursion - 1]
                       m == Routes!Match(routes, last)
                   IN  Routes!FindRoute(routes, dst) = IF m = Routes!NoMatch \/ m.hop # Routes!NoHop THEN Routes!NoRoute
                                                       ELSE [hop |-> last, route |-> m]
  BY <1>2, WalkExists
<1> DEFINE end == ip[MaxRecursion - 1]
           m == Routes!Match(routes, end)
<1>4. CASE Routes!WholeWays(dst) = {}
  <2>1. PICK way \in Routes!Ways(dst) : Routes!Last(way) = end
    BY <1>2, <1>3, WalkWays
  <2>2. ~ \E r \in Routes!Best(end) : r.hop = Routes!NoHop
    BY <1>4, <2>1 DEF Routes!WholeWays
  <2>3. m = Routes!NoMatch \/ m.hop # Routes!NoHop
    BY <2>2, BestMatch
  <2>4. Routes!FindRoute(routes, dst) = Routes!NoRoute
    BY <2>3, <1>3
  <2> QED
    BY <1>1, <1>4, <2>4 DEF Routes!Forward
<1>5. CASE Routes!WholeWays(dst) # {}
  <2> DEFINE way == CHOOSE w \in Routes!WholeWays(dst) : TRUE
             last == Routes!Last(way)
             direct == CHOOSE r \in Routes!Best(last) : TRUE
  <2>1. way \in Routes!WholeWays(dst)
    BY <1>5
  <2> HIDE DEF way
  <2>2. way \in Routes!Ways(dst) /\ \E r \in Routes!Best(last) : r.hop = Routes!NoHop
    BY <2>1 DEF Routes!WholeWays
  <2>3. way \in Seq(Routes!Destinations) /\ Len(way) \in 1 .. MaxRecursion
    BY <2>2, WayShape
  <2>4. last = way[Len(way)] /\ Len(way) \in 1 .. Len(way) /\ Len(way) - 1 \in 0 .. MaxRecursion - 1
    BY <2>3, <1>2 DEF Routes!Last
  <2>5. last = ip[Len(way) - 1]
    BY <2>2, <2>4, <1>3, WayWalked
  <2>6. last \in Routes!Destinations
    BY <2>3, <2>4, ElementOfSeq
  <2> DEFINE k == Routes!Match(routes, last)
  <2> HIDE DEF last
  <2>7. k \in Routes!Best(last) /\ k # Routes!NoMatch /\ k.hop = Routes!NoHop /\ direct = k
    BY <2>2, BestMatch
  <2>8. k \in RouteSet /\ Routes!InSubnet(last, k)
    BY <1>2, <2>7, MatchFacts DEF Holds
  <2>9. Routes!Step(routes, last) = last
    BY <2>7 DEF Routes!Step
  <2>10. end = last
    BY <1>3, <2>4, <2>5, <2>9, WalkStays
  <2>11. Routes!FindRoute(routes, dst) = [hop |-> last, route |-> k]
    BY <1>3, <2>7, <2>10
  <2> DEFINE found == Routes!FindRoute(routes, dst)
  <2>12. found.hop = last /\ found.route = k
    BY <2>11
  <2>13. found # Routes!NoRoute
    <3>1. Routes!NoRoute.hop = Routes!NoHop
      BY DEF Routes!NoRoute
    <3>2. last # Routes!NoHop
      BY <2>6 DEF Routes!Destinations
    <3> QED
      BY <2>12, <3>1, <3>2
  <2> HIDE DEF found, k, direct
  <2>14. Routes!Forward(routes, dst) =
            IF last = OwnIp[k.interface] THEN "unreachable"
            ELSE IF Routes!Broadcast(last, k.len) = dst THEN "broadcast"
            ELSE [hop |-> last, route |-> k]
    BY <2>11, <2>12, <2>13 DEF Routes!Forward, found
  <2>15. Routes!Broadcast(last, k.len) = dst <=>
         Routes!InSubnet(dst, k) /\ \A a \in Routes!Addresses : Routes!InSubnet(a, k) => a <= dst
    BY <2>6, <2>8, LastAddress
  <2>16. Routes!Forward(routes, dst) =
            IF last = OwnIp[direct.interface] THEN "unreachable"
            ELSE IF /\ Routes!InSubnet(dst, direct)
                    /\ \A a \in Routes!Addresses : Routes!InSubnet(a, direct) => a <= dst
                 THEN "broadcast"
            ELSE [hop |-> last, route |-> direct]
    BY <2>7, <2>14, <2>15
  <2> QED
    BY <1>1, <1>5, <2>16 DEF last, way, direct
<1> QED
  BY <1>4, <1>5

\* Two tables send a packet alike if each address they look up has the same
\* routes in both.
LEMMA SameWay ==
  ASSUME NEW t, NEW u, Table(t), Table(u), NEW dst \in Routes!Destinations,
         NEW ip, Walk(ip, t, dst),
         \A k \in 0 .. MaxRecursion - 1 : \A r : Holds(t, ip[k], r) <=> Holds(u, ip[k], r)
  PROVE  Routes!FindRoute(u, dst) = Routes!FindRoute(t, dst)
<1>1. /\ t \in Seq(RouteSet) /\ u \in Seq(RouteSet)
      /\ MaxRecursion \in Nat \ {0} /\ MaxRecursion - 1 \in 0 .. MaxRecursion - 1
  BY RoutesConstants DEF Table
<1>2. \A k \in 0 .. MaxRecursion - 1 : Routes!Match(t, ip[k]) = Routes!Match(u, ip[k])
  BY SameMatch
<1> DEFINE IsWalk(w, v) ==
             /\ Walk(w, v, dst)
             /\ LET last == w[MaxRecursion - 1]
                    m == Routes!Match(v, last)
                IN  Routes!FindRoute(v, dst) = IF m = Routes!NoMatch \/ m.hop # Routes!NoHop THEN Routes!NoRoute
                                               ELSE [hop |-> last, route |-> m]
<1>3. PICK a : IsWalk(a, t)
  BY <1>1, WalkExists
<1>4. PICK b : IsWalk(b, u)
  BY <1>1, WalkExists
<1>5. \A k \in 0 .. MaxRecursion - 1 : a[k] = ip[k] /\ b[k] = ip[k]
  <2> DEFINE Off == {k \in 0 .. MaxRecursion - 1 : ~(a[k] = ip[k] /\ b[k] = ip[k])}
  <2> SUFFICES ASSUME Off # {} PROVE FALSE
    OBVIOUS
  <2>1. PICK k \in Off : \A j \in Off : k <= j
    <3> Off \subseteq Nat
      OBVIOUS
    <3> HIDE DEF Off
    <3> QED
      BY Least
  <2>2. k # 0
    BY <2>1, <1>3, <1>4 DEF Walk
  <2>3. k \in 1 .. MaxRecursion - 1 /\ k - 1 \in 0 .. MaxRecursion - 1 /\ k - 1 \notin Off
    BY <2>1, <2>2, <1>1
  <2>4. a[k - 1] = ip[k - 1] /\ b[k - 1] = ip[k - 1]
    BY <2>3
  <2>5. /\ ip[k] = Routes!Step(t, ip[k - 1])
        /\ a[k] = Routes!Step(t, a[k - 1])
        /\ b[k] = Routes!Step(u, b[k - 1])
    BY <2>3, <1>3, <1>4 DEF Walk
  <2>6. Routes!Step(u, ip[k - 1]) = Routes!Step(t, ip[k - 1])
    BY <2>3, <1>2 DEF Routes!Step
  <2> QED
    BY <2>1, <2>4, <2>5, <2>6
<1>6. Routes!Match(u, b[MaxRecursion - 1]) = Routes!Match(t, a[MaxRecursion - 1]) /\ a[MaxRecursion - 1] = b[MaxRecursion - 1]
  BY <1>1, <1>2, <1>5
<1> QED
  BY <1>3, <1>4, <1>6

LEMMA TrafficStays == RoutesIInv /\ [Routes!Next]_routes => Routes!OnlyItsTraffic
<1> SUFFICES ASSUME RoutesIInv, [Routes!Next]_routes PROVE Routes!OnlyItsTraffic
  OBVIOUS
<1>1. CASE UNCHANGED routes
  BY <1>1 DEF Routes!OnlyItsTraffic
<1>2. CASE Routes!Next
  <2>1. /\ RoutesIInv'
        /\ \/ \E r \in Routes!Range(routes) : Routes!Range(routes') = Routes!Range(routes) \ {r}
           \/ \E r \in Routes!Range(routes') : Routes!Range(routes) = Routes!Range(routes') \ {r}
    BY <1>2, RoutesNext
  <2> DEFINE changed == Routes!SymDiff(Routes!Range(routes), Routes!Range(routes'))
  <2>2. ASSUME NEW dst \in Routes!Destinations,
               \A r \in changed, way \in Routes!Ways(dst) : ~ Routes!InSubnet(Routes!Last(way), r)
        PROVE  Routes!Forward(routes', dst) = Routes!Forward(routes, dst)
    <3>1. Table(routes) /\ Table(routes') /\ routes \in Seq(RouteSet)
      BY <2>1 DEF RoutesIInv, Table
    <3>2. PICK ip : Walk(ip, routes, dst)
      BY <3>1, WalkExists
    <3>3. ASSUME NEW k \in 0 .. MaxRecursion - 1, NEW r
          PROVE  Holds(routes, ip[k], r) <=> Holds(routes', ip[k], r)
      <4>1. PICK way \in Routes!Ways(dst) : Routes!Last(way) = ip[k]
        BY <3>2, WalkWays
      <4>2. Routes!InSubnet(ip[k], r) => r \notin changed
        BY <4>1, <2>2
      <4>3. Routes!InSubnet(ip[k], r) => (r \in Routes!Range(routes) <=> r \in Routes!Range(routes'))
        BY <4>2 DEF Routes!SymDiff
      <4> QED
        BY <4>3 DEF Holds, Routes!Range
    <3>4. Routes!FindRoute(routes', dst) = Routes!FindRoute(routes, dst)
      BY <3>1, <3>2, <3>3, SameWay
    <3> QED
      BY <3>4 DEF Routes!Forward
  <2> QED
    BY <2>1, <2>2 DEF Routes!OnlyItsTraffic
<1> QED
  BY <1>1, <1>2

-----------------------------------------------------------------------------

\* No two routes are ever of one subnet (fw_routing_table_add_route refuses a
\* clash), whatever is added and deleted.
THEOREM RoutesInvariance == SpecAll => []RoutesIInv
<1>1. InitAll => RoutesIInv
  BY DEF InitAll, Routes!Init, RoutesIInv, Table
<1>2. RoutesIInv /\ [NextAll]_<<part, vars, queueVars, routes>> => RoutesIInv'
  <2> SUFFICES ASSUME RoutesIInv, [NextAll]_<<part, vars, queueVars, routes>> PROVE RoutesIInv'
    OBVIOUS
  <2>1. CASE routes' = routes
    BY <2>1 DEF RoutesIInv
  <2>2. CASE Routes!Next
    BY <2>2, RoutesNext
  <2> QED
    BY <2>1, <2>2 DEF NextAll
<1> QED
  BY <1>1, <1>2, PTL DEF SpecAll

\* The longest matches alone decide where a packet goes, whatever the order of the
\* table (include/lions/firewall/routing.h:187).
THEOREM RoutesExact == SpecAll => []RouteExact
<1>1. RoutesIInv => RouteExact
  BY RoutesFollowed DEF RouteExact
<1> QED
  BY <1>1, RoutesInvariance, PTL

\* A protected call changes one route and disturbs no traffic of another
\* (examples/firewall/routing/routing_table.c:104).
THEOREM OtherTrafficStays == SpecAll => OtherRoutesStay
<1>1. RoutesIInv /\ [NextAll]_<<part, vars, queueVars, routes>>
      => [part = "routes" => Routes!OnlyItsTraffic]_<<part, routes>>
  <2> SUFFICES ASSUME RoutesIInv, [NextAll]_<<part, vars, queueVars, routes>>, part = "routes"
               PROVE  Routes!OnlyItsTraffic
    OBVIOUS
  <2>1. [Routes!Next]_routes
    BY DEF NextAll
  <2> QED
    BY <2>1, TrafficStays
<1> QED
  BY <1>1, RoutesInvariance, PTL DEF SpecAll, OtherRoutesStay
-----------------------------------------------------------------------------
(* The pool of waiting packets: the inductive invariant.                   *)

Nodes == Pool!Index

\* A sequence of nodes that begins at first and is linked by link.
Listed(s, first, link) ==
  /\ s \in Seq(Nodes)
  /\ s # <<>> => s[1] = first
  /\ \A i \in 1 .. Len(s) - 1 : link[s[i]] = s[i + 1]

Distinct(s) == \A i, j \in 1 .. Len(s) : s[i] = s[j] => i = j

PoolTypes ==
  /\ next \in [Nodes -> 0 .. PoolCapacity] /\ prev \in [Nodes -> Nodes] /\ child \in [Nodes -> Nodes]
  /\ root \in [DOMAIN root -> [hop : PoolHops, kids : Nat, tail : Nodes]]
  /\ node \in [DOMAIN node -> Packets]
  /\ DOMAIN root \subseteq DOMAIN node /\ DOMAIN node \subseteq Nodes
  /\ size \in Nat /\ head \in 0 .. PoolCapacity /\ tail \in Nodes /\ free \in 0 .. PoolCapacity
  /\ sent \in Seq(Packets)

\* The roots, linked both ways.
RootList(rs) ==
  /\ Listed(rs, head, next) /\ Distinct(rs)
  /\ \A i \in 1 .. Len(rs) : rs[i] \in DOMAIN root
  /\ \A r \in DOMAIN root : \E i \in 1 .. Len(rs) : rs[i] = r
  /\ \A i \in 1 .. Len(rs) - 1 : prev[rs[i + 1]] = rs[i]
  /\ rs # <<>> => tail = rs[Len(rs)]

\* The chain of each root, which share no node and hold all that are in use.
ChainLists(ch) ==
  /\ \A r \in DOMAIN root :
      /\ Listed(ch[r], r, child)
      /\ Len(ch[r]) = root[r].kids + 1 /\ ch[r][Len(ch[r])] = root[r].tail
      /\ \A i \in 1 .. Len(ch[r]) : ch[r][i] \in DOMAIN node
  /\ \A r, s \in DOMAIN root : \A i \in 1 .. Len(ch[r]), j \in 1 .. Len(ch[s]) :
      ch[r][i] = ch[s][j] => r = s /\ i = j
  /\ \A c \in DOMAIN node : \E r \in DOMAIN root : \E i \in 1 .. Len(ch[r]) : ch[r][i] = c

\* The free nodes are those that are not in use.
FreeList(fr) ==
  /\ Listed(fr, free, next) /\ Distinct(fr) /\ Len(fr) = PoolCapacity - size
  /\ \A i \in 1 .. Len(fr) : fr[i] \notin DOMAIN node
  /\ \A c \in Nodes \ DOMAIN node : \E i \in 1 .. Len(fr) : fr[i] = c

\* One root for each next hop, one node for each packet.
OneRoot == \A r, s \in DOMAIN root : root[r].hop = root[s].hop => r = s
OneNode == \A c, d \in DOMAIN node : node[c] = node[d] => c = d

PoolShape(rs, ch, fr) ==
  PoolTypes /\ RootList(rs) /\ ChainLists(ch) /\ FreeList(fr) /\ OneRoot /\ OneNode

PoolIInv == \E rs, ch, fr : PoolShape(rs, ch, fr)

-----------------------------------------------------------------------------
(* Walks.                                                                  *)

LEMMA NodesFacts == PoolCapacity \in Nat \ {0} /\ Nodes = 0 .. PoolCapacity - 1
                    /\ IsFiniteSet(Nodes) /\ Cardinality(Nodes) = PoolCapacity
<1>1. PoolCapacity \in Nat \ {0} /\ Nodes = 0 .. PoolCapacity - 1
  BY PoolAssumption DEF Pool!PacketQueueAssumption, Nodes, Pool!Index
<1>2. 0 \in Int /\ PoolCapacity - 1 \in Int /\ ~(0 > PoolCapacity - 1) /\ (PoolCapacity - 1) - 0 + 1 = PoolCapacity
  BY <1>1
<1>3. IsFiniteSet(0 .. PoolCapacity - 1) /\ Cardinality(0 .. PoolCapacity - 1) = (PoolCapacity - 1) - 0 + 1
  BY <1>2, FS_Interval
<1> QED
  BY <1>1, <1>2, <1>3

HIDE PoolAssumption DEF PoolAssumption

LEMMA PoolCardinality == ASSUME NEW S PROVE Pool!Cardinality(S) = Cardinality(S)
BY DEF Cardinality, Pool!Cardinality

LEMMA ListWalked ==
  ASSUME NEW s, NEW first, NEW link, Listed(s, first, link)
  PROVE  Pool!Walk(Len(s), first, link) = s
<1> DEFINE n == Len(s)
           IsWalk(f) == f = [i \in 1 .. n |-> IF i = 1 THEN first ELSE link[f[i - 1]]]
<1>1. n \in Nat /\ s \in [1 .. n -> Nodes] /\ s = [i \in 1 .. n |-> s[i]]
  BY LenProperties DEF Listed
<1>2. \A i \in 1 .. n : s[i] = IF i = 1 THEN first ELSE link[s[i - 1]]
  <2> SUFFICES ASSUME NEW i \in 1 .. n PROVE s[i] = IF i = 1 THEN first ELSE link[s[i - 1]]
    OBVIOUS
  <2>1. CASE i = 1
    <3>1. s # <<>>
      BY <2>1, <1>1
    <3> QED
      BY <3>1, <2>1 DEF Listed
  <2>2. CASE i # 1
    <3>1. i - 1 \in 1 .. n - 1 /\ (i - 1) + 1 = i
      BY <2>2, <1>1
    <3> QED
      BY <3>1, <2>2 DEF Listed
  <2> QED
    BY <2>1, <2>2
<1>3. IsWalk(s)
  <2> HIDE DEF n
  <2> QED
    BY <1>1, <1>2
<1>4. PICK f : IsWalk(f) /\ Pool!Walk(n, first, link) = f
  BY <1>3 DEF Pool!Walk
<1>5. \A i \in 1 .. n : f[i] = IF i = 1 THEN first ELSE link[f[i - 1]]
  <2> HIDE DEF n
  <2> QED
    BY <1>4
<1>6. \A i \in 1 .. n : f[i] = s[i]
  <2> DEFINE Off == {i \in 1 .. n : f[i] # s[i]}
  <2> SUFFICES ASSUME Off # {} PROVE FALSE
    OBVIOUS
  <2>1. PICK i \in Off : \A j \in Off : i <= j
    <3> Off \subseteq Nat
      BY <1>1
    <3> HIDE DEF Off
    <3> QED
      BY Least
  <2>2. i \in 1 .. n /\ (i # 1 => i - 1 \in 1 .. n /\ i - 1 \notin Off)
    BY <2>1, <1>1
  <2> QED
    BY <2>1, <2>2, <1>2, <1>5
<1>7. f = [i \in 1 .. n |-> f[i]]
  <2> HIDE DEF n
  <2> QED
    BY <1>4
<1> QED
  BY <1>1, <1>4, <1>6, <1>7

LEMMA IntervalFinite == ASSUME NEW n \in Nat PROVE IsFiniteSet(1 .. n) /\ Cardinality(1 .. n) = n
<1>1. IsFiniteSet(1 .. n)
  BY FS_Interval
<1>2. Cardinality(1 .. n) = n
  BY FS_Interval
<1> QED
  BY <1>1, <1>2

\* A list without repetition is as long as the set of its nodes.
LEMMA ListCounts ==
  ASSUME NEW s \in Seq(Nodes), Distinct(s), NEW S \in SUBSET Nodes,
         \A i \in 1 .. Len(s) : s[i] \in S, \A c \in S : \E i \in 1 .. Len(s) : s[i] = c
  PROVE  Cardinality(S) = Len(s)
<1>1. Len(s) \in Nat /\ s \in [1 .. Len(s) -> Nodes]
  BY LenProperties
<1>2. IsFiniteSet(1 .. Len(s)) /\ Cardinality(1 .. Len(s)) = Len(s)
  BY <1>1, IntervalFinite
<1>3. s \in [1 .. Len(s) -> S]
  BY <1>1
<1>4. s \in Bijection(1 .. Len(s), S)
  BY <1>3 DEF Bijection, Injection, Surjection, IsInjective, Distinct
<1>5. ExistsBijection(1 .. Len(s), S)
  BY <1>4 DEF ExistsBijection
<1> QED
  BY <1>2, <1>5, FS_Bijection

\* What the walks, the search for a root and the packets of a next hop are.
PoolRead(rs, ch, fr) ==
  /\ Pool!length = Len(rs) /\ Pool!Roots = rs /\ Pool!FreeNodes = fr
  /\ \A r \in DOMAIN root : Pool!Chain(r) = ch[r]
  /\ \A h : Pool!HasRoot(h) <=> \E r \in DOMAIN root : root[r].hop = h
  /\ \A h, r : r \in DOMAIN root /\ root[r].hop = h =>
      /\ Pool!FindNode(h) = r
      /\ Pool!PacketsFor(h) = [i \in 1 .. Len(ch[r]) |-> node[ch[r][i]]]
  /\ \A h : (\A r \in DOMAIN root : root[r].hop # h) => Pool!PacketsFor(h) = <<>>

LEMMA ShapeRead == \A rs, ch, fr : PoolShape(rs, ch, fr) => PoolRead(rs, ch, fr)
<1> SUFFICES ASSUME NEW rs, NEW ch, NEW fr, PoolShape(rs, ch, fr) PROVE PoolRead(rs, ch, fr)
  OBVIOUS
<1> USE DEF PoolShape
<1>1. /\ rs \in Seq(Nodes) /\ Len(rs) \in Nat /\ DOMAIN rs = 1 .. Len(rs)
      /\ fr \in Seq(Nodes) /\ Len(fr) \in Nat
      /\ DOMAIN root \subseteq Nodes
  BY LenProperties DEF RootList, FreeList, Listed, PoolTypes
<1>2. Pool!length = Len(rs)
  BY <1>1, ListCounts, PoolCardinality DEF RootList, Pool!length
<1>3. Pool!Roots = rs
  BY <1>2, ListWalked DEF RootList, Pool!Roots
<1>4. Pool!FreeNodes = fr
  <2>1. PoolCapacity - size = Len(fr)
    BY DEF FreeList
  <2> QED
    BY <2>1, ListWalked DEF FreeList, Pool!FreeNodes
<1>5. ASSUME NEW r \in DOMAIN root PROVE Pool!Chain(r) = ch[r]
  BY <1>5, ListWalked DEF ChainLists, Pool!Chain
<1>6. ASSUME NEW h PROVE Pool!HasRoot(h) <=> \E r \in DOMAIN root : root[r].hop = h
  BY <1>1, <1>3 DEF Pool!HasRoot, RootList
<1>7. ASSUME NEW h, NEW r, r \in DOMAIN root, root[r].hop = h PROVE Pool!FindNode(h) = r
  <2> DEFINE I == {i \in 1 .. Len(rs) : root[rs[i]].hop = h}
  <2>1. Pool!FindNode(h) = rs[Pool!Min(I)]
    BY <1>1, <1>3 DEF Pool!FindNode
  <2>2. I # {}
    BY <1>7 DEF RootList
  <2>3. \E x \in I : \A y \in I : x <= y
    <3> I \subseteq Nat
      BY <1>1
    <3> HIDE DEF I
    <3> QED
      BY <2>2, Least
  <2>4. Pool!Min(I) \in I
    <3> HIDE DEF I
    <3> QED
      BY <2>3 DEF Pool!Min
  <2>5. rs[Pool!Min(I)] \in DOMAIN root /\ root[rs[Pool!Min(I)]].hop = h
    BY <2>4 DEF RootList
  <2> QED
    BY <2>1, <2>5, <1>7 DEF OneRoot
<1>8. ASSUME NEW h, NEW r, r \in DOMAIN root, root[r].hop = h
      PROVE  Pool!PacketsFor(h) = [i \in 1 .. Len(ch[r]) |-> node[ch[r][i]]]
  <2>1. Pool!HasRoot(h) /\ Pool!FindNode(h) = r /\ Pool!Chain(r) = ch[r]
    BY <1>5, <1>6, <1>7, <1>8
  <2>2. DOMAIN ch[r] = 1 .. Len(ch[r])
    BY <1>8, LenProperties DEF ChainLists, Listed
  <2> QED
    BY <2>1, <2>2 DEF Pool!PacketsFor
<1>9. ASSUME NEW h, \A r \in DOMAIN root : root[r].hop # h PROVE Pool!PacketsFor(h) = <<>>
  BY <1>6, <1>9 DEF Pool!PacketsFor
<1> QED
  BY <1>2, <1>3, <1>4, <1>5, <1>6, <1>7, <1>8, <1>9 DEF PoolRead

LEMMA ShapeReadNext == (\A rs, ch, fr : PoolShape(rs, ch, fr) => PoolRead(rs, ch, fr))'
BY ShapeRead, PTL

\* size counts the nodes in use.
LEMMA SizeCounts == \A rs, ch, fr : PoolShape(rs, ch, fr) => size = Cardinality(DOMAIN node) /\ IsFiniteSet(DOMAIN node)
<1> SUFFICES ASSUME NEW rs, NEW ch, NEW fr, PoolShape(rs, ch, fr)
             PROVE  size = Cardinality(DOMAIN node) /\ IsFiniteSet(DOMAIN node)
  OBVIOUS
<1>1. size \in Nat /\ DOMAIN node \subseteq Nodes /\ fr \in Seq(Nodes) /\ Len(fr) = PoolCapacity - size
  BY DEF PoolShape, PoolTypes, FreeList, Listed
<1>2. Cardinality(Nodes \ DOMAIN node) = PoolCapacity - size
  <2>1. \A i \in 1 .. Len(fr) : fr[i] \in Nodes \ DOMAIN node
    BY <1>1, ElementOfSeq DEF PoolShape, FreeList
  <2> QED
    BY <1>1, <2>1, ListCounts DEF PoolShape, FreeList
<1>3. Nodes \cap DOMAIN node = DOMAIN node
  BY <1>1
<1>4. IsFiniteSet(DOMAIN node) /\ Cardinality(DOMAIN node) \in Nat
  BY <1>1, NodesFacts, FS_Subset, FS_CardinalityType
<1>5. Cardinality(Nodes \ DOMAIN node) = PoolCapacity - Cardinality(DOMAIN node)
  <2>1. Cardinality(Nodes \ DOMAIN node) = Cardinality(Nodes) - Cardinality(Nodes \cap DOMAIN node)
    BY NodesFacts, FS_Difference
  <2> QED
    BY <2>1, <1>3, NodesFacts
<1> QED
  BY <1>1, <1>2, <1>4, <1>5, NodesFacts

\* The packets that wait are those in nodes.
LEMMA WhoWaits ==
  \A rs, ch, fr : PoolShape(rs, ch, fr) =>
    /\ \A p : Waiting!IsWaiting(p) <=> \E c \in DOMAIN node : node[c] = p
    /\ Waiting!NumWaiting = size
<1> SUFFICES ASSUME NEW rs, NEW ch, NEW fr, PoolShape(rs, ch, fr)
             PROVE  /\ \A p : Waiting!IsWaiting(p) <=> \E c \in DOMAIN node : node[c] = p
                    /\ Waiting!NumWaiting = size
  OBVIOUS
<1>1. PoolRead(rs, ch, fr) /\ PoolTypes /\ ChainLists(ch)
  BY ShapeRead DEF PoolShape
<1>2. \A p : Waiting!IsWaiting(p) <=> \E h \in PoolHops : p \in Range(Pool!PacketsFor(h))
  BY DEF Waiting!IsWaiting, Waiting!Range, Range
<1>3. ASSUME NEW p, NEW h \in PoolHops, p \in Range(Pool!PacketsFor(h)) PROVE \E c \in DOMAIN node : node[c] = p
  <2>1. PICK r \in DOMAIN root : root[r].hop = h
    <3>1. Range(<<>>) = {}
      BY DEF Range
    <3> QED
      BY <3>1, <1>1, <1>3 DEF PoolRead
  <2>2. Pool!PacketsFor(h) = [i \in 1 .. Len(ch[r]) |-> node[ch[r][i]]]
    BY <1>1, <2>1 DEF PoolRead
  <2>3. PICK i \in 1 .. Len(ch[r]) : p = node[ch[r][i]]
    BY <1>3, <2>2 DEF Range
  <2> QED
    BY <1>1, <2>3 DEF ChainLists
<1>4. ASSUME NEW c \in DOMAIN node PROVE \E h \in PoolHops : node[c] \in Range(Pool!PacketsFor(h))
  <2>1. PICK r \in DOMAIN root : \E i \in 1 .. Len(ch[r]) : ch[r][i] = c
    BY <1>1 DEF ChainLists
  <2>2. Pool!PacketsFor(root[r].hop) = [i \in 1 .. Len(ch[r]) |-> node[ch[r][i]]]
    BY <1>1 DEF PoolRead
  <2>3. node[c] \in Range(Pool!PacketsFor(root[r].hop))
    BY <2>1, <2>2 DEF Range
  <2>4. root[r].hop \in PoolHops
    BY <1>1 DEF PoolTypes
  <2> QED
    BY <2>3, <2>4
<1>5. \A p : Waiting!IsWaiting(p) <=> \E c \in DOMAIN node : node[c] = p
  BY <1>2, <1>3, <1>4
<1>6. Waiting!NumWaiting = size
  <2> DEFINE W == {p \in Packets : Waiting!IsWaiting(p)}
  <2>1. node \in Bijection(DOMAIN node, W)
    <3>1. node \in [DOMAIN node -> W]
      BY <1>1, <1>5 DEF PoolTypes
    <3>2. \A c, d \in DOMAIN node : node[c] = node[d] => c = d
      BY DEF PoolShape, OneNode
    <3>3. \A p \in W : \E c \in DOMAIN node : node[c] = p
      BY <1>5
    <3> HIDE DEF W
    <3> QED
      BY <3>1, <3>2, <3>3 DEF Bijection, Injection, Surjection, IsInjective
  <2> HIDE DEF W
  <2>2. ExistsBijection(DOMAIN node, W)
    BY <2>1 DEF ExistsBijection
  <2>3. size = Cardinality(DOMAIN node) /\ IsFiniteSet(DOMAIN node)
    BY SizeCounts
  <2>4. Cardinality(W) = size
    BY <2>2, <2>3, FS_Bijection
  <2>5. Waiting!NumWaiting = Cardinality(W)
    BY DEF Waiting!NumWaiting, W, Cardinality, Waiting!Cardinality
  <2> QED
    BY <2>4, <2>5
<1> QED
  BY <1>5, <1>6

-----------------------------------------------------------------------------
(* Joining the queue.                                                      *)

\* The first free node takes the packet, and the others stay free.
LEMMA NodeTaken ==
  ASSUME NEW rs, NEW ch, NEW fr, PoolShape(rs, ch, fr), NEW p \in Packets, Pool!TakeNode(p)
  PROVE  /\ free \in Nodes /\ free \notin DOMAIN node /\ free \notin DOMAIN root
         /\ node' \in [DOMAIN node' -> Packets] /\ DOMAIN node' = DOMAIN node \cup {free}
         /\ node'[free] = p /\ \A c \in DOMAIN node : node'[c] = node[c]
         /\ OneNode'
         /\ size < PoolCapacity /\ sent' = <<>> /\ free' \in 0 .. PoolCapacity
         /\ \A c \in DOMAIN node : node[c] # p
<1>1. /\ PoolTypes /\ FreeList(fr) /\ OneNode
      /\ Listed(fr, free, next)
  BY DEF PoolShape, FreeList
<1>2. size < PoolCapacity /\ free' = next[free] /\ sent' = <<>> /\ p \notin Pool!Range(node)
      /\ node' = [i \in DOMAIN node \cup {free} |-> IF i = free THEN p ELSE node[i]]
  BY DEF Pool!TakeNode
<1>3. fr \in Seq(Nodes) /\ Len(fr) \in Nat \ {0} /\ fr # <<>> /\ 1 \in 1 .. Len(fr)
  <2>1. Len(fr) = PoolCapacity - size /\ fr \in Seq(Nodes)
    BY <1>1 DEF FreeList, Listed
  <2>2. Len(fr) \in Nat \ {0}
    BY <2>1, <1>1, <1>2, NodesFacts DEF PoolTypes
  <2> QED
    BY <2>1, <2>2
<1>4. free = fr[1] /\ fr[1] \in Nodes /\ fr[1] \notin DOMAIN node
  BY <1>1, <1>3, ElementOfSeq DEF Listed, FreeList
<1>5. free \notin DOMAIN root
  BY <1>1, <1>4 DEF PoolTypes
<1>6. DOMAIN node' = DOMAIN node \cup {free} /\ node'[free] = p /\ \A c \in DOMAIN node : node'[c] = node[c]
  BY <1>2, <1>4
<1>7. node' \in [DOMAIN node' -> Packets]
  BY <1>1, <1>2 DEF PoolTypes
<1>8. \A c \in DOMAIN node : node[c] # p
  BY <1>2 DEF Pool!Range
<1>9. OneNode'
  BY <1>1, <1>6, <1>8 DEF OneNode
<1>10. free' \in 0 .. PoolCapacity
  BY <1>1, <1>2, <1>4 DEF PoolTypes
<1> QED
  BY <1>2, <1>4, <1>5, <1>6, <1>7, <1>8, <1>9, <1>10

LEMMA FreeTaken ==
  ASSUME NEW rs, NEW ch, NEW fr, PoolShape(rs, ch, fr), NEW p \in Packets, Pool!TakeNode(p),
         size' = size + 1, \A c \in Nodes : c # free => next'[c] = next[c]
  PROVE  FreeList(Tail(fr))'
<1> DEFINE t == Tail(fr)
           n == Len(fr)
<1>1. /\ PoolTypes /\ fr \in Seq(Nodes) /\ n = PoolCapacity - size /\ Distinct(fr)
      /\ fr # <<>> => fr[1] = free
      /\ \A i \in 1 .. n - 1 : next[fr[i]] = fr[i + 1]
      /\ \A i \in 1 .. n : fr[i] \notin DOMAIN node
      /\ \A c \in Nodes \ DOMAIN node : \E i \in 1 .. n : fr[i] = c
  BY DEF PoolShape, FreeList, Listed
<1>2. n \in Nat \ {0} /\ fr # <<>>
  <2>1. size < PoolCapacity
    BY DEF Pool!TakeNode
  <2>2. n \in Nat \ {0}
    BY <1>1, <2>1, NodesFacts DEF PoolTypes
  <2> QED
    BY <2>2
<1>3. /\ t \in Seq(Nodes) /\ Len(t) = n - 1
      /\ \A i \in 1 .. n - 1 : t[i] = fr[i + 1]
  BY <1>1, <1>2, HeadTailProperties
<1> HIDE DEF t, n
<1>4. \A i \in 1 .. n - 1 : i + 1 \in 1 .. n /\ i + 1 # 1
  BY <1>2
<1>5. \A i \in 1 .. n : fr[i] \in Nodes /\ (fr[i] = free => i = 1)
  <2>1. \A i \in 1 .. n : fr[i] \in Nodes
    BY <1>1, ElementOfSeq DEF n
  <2>2. 1 \in 1 .. n /\ fr[1] = free
    BY <1>1, <1>2
  <2> QED
    BY <1>1, <2>1, <2>2 DEF Distinct, n
<1>6. Distinct(t)
  <2>1. ASSUME NEW i \in 1 .. n - 1, NEW j \in 1 .. n - 1, t[i] = t[j] PROVE i = j
    <3>1. i + 1 = j + 1
      BY <1>1, <1>3, <1>4, <2>1 DEF Distinct, n
    <3> QED
      BY <3>1
  <2> QED
    BY <2>1, <1>3 DEF Distinct
<1>7. Listed(t, free', next')
  <2>1. t # <<>> => t[1] = free'
    <3>1. t # <<>> => 1 \in 1 .. n - 1 /\ 1 + 1 = 2
      BY <1>2, <1>3
    <3>2. free' = next[free]
      BY DEF Pool!TakeNode
    <3> QED
      BY <3>1, <3>2, <1>1, <1>2, <1>3
  <2>2. \A i \in 1 .. Len(t) - 1 : next'[t[i]] = t[i + 1]
    <3> SUFFICES ASSUME NEW i \in 1 .. Len(t) - 1 PROVE next'[t[i]] = t[i + 1]
      OBVIOUS
    <3>1. i \in 1 .. n - 1 /\ i + 1 \in 1 .. n - 1 /\ i + 1 \in 1 .. n /\ i + 1 # 1
      BY <1>2, <1>3
    <3>2. t[i] = fr[i + 1] /\ t[i + 1] = fr[(i + 1) + 1] /\ next[fr[i + 1]] = fr[(i + 1) + 1]
      BY <3>1, <1>1, <1>3
    <3>3. fr[i + 1] \in Nodes /\ fr[i + 1] # free
      BY <3>1, <1>5
    <3> QED
      BY <3>2, <3>3
  <2> QED
    BY <2>1, <2>2, <1>3 DEF Listed
<1>8. Len(t) = PoolCapacity - size'
  BY <1>1, <1>3, NodesFacts DEF PoolTypes
<1>9. DOMAIN node' = DOMAIN node \cup {free}
  BY DEF Pool!TakeNode
<1>10. \A i \in 1 .. Len(t) : t[i] \notin DOMAIN node'
  BY <1>1, <1>3, <1>4, <1>5, <1>9
<1>11. ASSUME NEW c \in Nodes \ DOMAIN node' PROVE \E i \in 1 .. Len(t) : t[i] = c
  <2>1. PICK i \in 1 .. n : fr[i] = c
    BY <1>1, <1>9
  <2>2. i # 1
    BY <2>1, <1>1, <1>2, <1>9
  <2>3. i - 1 \in 1 .. n - 1 /\ (i - 1) + 1 = i
    BY <2>2, <1>2
  <2> QED
    BY <2>1, <2>3, <1>3
<1> QED
  BY <1>6, <1>7, <1>8, <1>10, <1>11 DEF FreeList, t

\* pkt_waiting_push_child: the packet joins the end of its next hop's chain.
LEMMA ChildShape ==
  ASSUME NEW rs, NEW ch, NEW fr, PoolShape(rs, ch, fr), NEW h \in PoolHops, NEW p \in Packets,
         Pool!PushChild(h, p)
  PROVE  \E r, d :
           /\ r \in DOMAIN root
           /\ root[r].hop = h
           /\ d = [s \in DOMAIN root |-> IF s = r THEN Append(ch[r], free) ELSE ch[s]]
           /\ PoolShape(rs, d, Tail(fr))'
           /\ DOMAIN root' = DOMAIN root /\ \A s \in DOMAIN root : root'[s].hop = root[s].hop
<1>1. /\ PoolTypes /\ RootList(rs) /\ ChainLists(ch) /\ OneRoot
      /\ PoolRead(rs, ch, fr)
  BY ShapeRead DEF PoolShape
<1>2. PICK r \in DOMAIN root : root[r].hop = h /\ Pool!FindNode(h) = r
  BY <1>1 DEF PoolRead, Pool!PushChild
<1>3. /\ Pool!TakeNode(p) /\ size' = size + 1
      /\ child' = [child EXCEPT ![root[r].tail] = free]
      /\ root' = [root EXCEPT ![r].tail = free, ![r].kids = @ + 1]
      /\ next' = next /\ prev' = prev /\ head' = head /\ tail' = tail
  BY <1>2 DEF Pool!PushChild, Pool!ChildOf
<1>4. /\ free \in Nodes /\ free \notin DOMAIN node /\ free \notin DOMAIN root
      /\ node' \in [DOMAIN node' -> Packets] /\ DOMAIN node' = DOMAIN node \cup {free}
      /\ OneNode' /\ sent' = <<>> /\ free' \in 0 .. PoolCapacity
  BY <1>3, NodeTaken
<1>5. FreeList(Tail(fr))'
  BY <1>3, FreeTaken
<1> DEFINE old == root[r]
           new == [hop |-> old.hop, kids |-> old.kids + 1, tail |-> free]
<1>6. /\ DOMAIN root' = DOMAIN root /\ root'[r] = new
      /\ \A s \in DOMAIN root : s # r => root'[s] = root[s]
      /\ old \in [hop : PoolHops, kids : Nat, tail : Nodes]
  BY <1>1, <1>3 DEF PoolTypes
<1>7. PoolTypes'
  <2>1. root' \in [DOMAIN root' -> [hop : PoolHops, kids : Nat, tail : Nodes]]
    <3>1. new \in [hop : PoolHops, kids : Nat, tail : Nodes]
      BY <1>4, <1>6
    <3>2. \A s \in DOMAIN root' : root'[s] \in [hop : PoolHops, kids : Nat, tail : Nodes]
      BY <1>1, <1>6, <3>1 DEF PoolTypes
    <3>3. root' = [s \in DOMAIN root' |-> root'[s]]
      BY <1>1, <1>3 DEF PoolTypes
    <3> QED
      BY <3>2, <3>3
  <2>2. child' \in [Nodes -> Nodes]
    BY <1>1, <1>3, <1>4 DEF PoolTypes
  <2>3. size' \in Nat
    BY <1>1, <1>3 DEF PoolTypes
  <2> QED
    BY <2>1, <2>2, <2>3, <1>1, <1>3, <1>4, <1>6 DEF PoolTypes
<1>8. RootList(rs)'
  BY <1>1, <1>3, <1>6 DEF RootList
<1>9. OneRoot'
  BY <1>1, <1>6 DEF OneRoot
<1> DEFINE c == ch[r]
           n == Len(c)
<1>10. /\ c \in Seq(Nodes) /\ n \in Nat \ {0} /\ n = old.kids + 1 /\ c[n] = old.tail /\ c[1] = r
       /\ \A i \in 1 .. n - 1 : child[c[i]] = c[i + 1]
       /\ \A i \in 1 .. n : c[i] \in DOMAIN node /\ c[i] \in Nodes
  <2>1. c \in Seq(Nodes) /\ n = old.kids + 1 /\ c[n] = old.tail /\ (c # <<>> => c[1] = r)
        /\ (\A i \in 1 .. n - 1 : child[c[i]] = c[i + 1])
        /\ (\A i \in 1 .. n : c[i] \in DOMAIN node)
    BY <1>1 DEF ChainLists, Listed
  <2>2. n \in Nat \ {0} /\ c # <<>>
    BY <2>1, <1>6
  <2> QED
    BY <2>1, <2>2, ElementOfSeq
<1> DEFINE a == Append(c, free)
<1>11. /\ a \in Seq(Nodes) /\ Len(a) = n + 1 /\ a[n + 1] = free
       /\ \A i \in 1 .. n : a[i] = c[i]
  BY <1>4, <1>10, AppendProperties
<1>12. PICK d : d = [s \in DOMAIN root |-> IF s = r THEN Append(ch[r], free) ELSE ch[s]]
  OBVIOUS
<1>13. d[r] = a /\ \A s \in DOMAIN root : s # r => d[s] = ch[s]
  BY <1>12
<1>14. /\ \A s \in DOMAIN root : s # r =>
            /\ ch[s] \in Seq(Nodes) /\ Len(ch[s]) \in Nat
            /\ Listed(ch[s], s, child)
            /\ Len(ch[s]) = root[s].kids + 1 /\ ch[s][Len(ch[s])] = root[s].tail
            /\ \A i \in 1 .. Len(ch[s]) : ch[s][i] \in DOMAIN node /\ ch[s][i] # old.tail
  <2> SUFFICES ASSUME NEW s \in DOMAIN root, s # r
               PROVE  /\ ch[s] \in Seq(Nodes) /\ Len(ch[s]) \in Nat
                      /\ Listed(ch[s], s, child)
                      /\ Len(ch[s]) = root[s].kids + 1 /\ ch[s][Len(ch[s])] = root[s].tail
                      /\ \A i \in 1 .. Len(ch[s]) : ch[s][i] \in DOMAIN node /\ ch[s][i] # old.tail
    OBVIOUS
  <2>1. ch[s] \in Seq(Nodes) /\ Len(ch[s]) \in Nat
    BY <1>1, LenProperties DEF ChainLists, Listed
  <2>2. n \in 1 .. n
    BY <1>10
  <2>3. \A i \in 1 .. Len(ch[s]) : ch[s][i] # c[n]
    BY <1>1, <2>2 DEF ChainLists
  <2> QED
    BY <1>1, <1>10, <2>1, <2>3 DEF ChainLists
<1> HIDE DEF a, old
<1>15. Listed(a, r, child')
  <2>1. a # <<>> => a[1] = r
    <3>1. 1 \in 1 .. n
      BY <1>10
    <3> QED
      BY <3>1, <1>10, <1>11
  <2>2. \A i \in 1 .. Len(a) - 1 : child'[a[i]] = a[i + 1]
    <3> SUFFICES ASSUME NEW i \in 1 .. n PROVE child'[a[i]] = a[i + 1]
      BY <1>10, <1>11
    <3>1. CASE i = n
      <4>1. a[i] = old.tail /\ a[i + 1] = free
        BY <3>1, <1>10, <1>11
      <4>2. child'[old.tail] = free
        BY <1>1, <1>3, <1>6 DEF PoolTypes, old
      <4> QED
        BY <4>1, <4>2
    <3>2. CASE i # n
      <4>1. i \in 1 .. n - 1 /\ i + 1 \in 1 .. n /\ n \in 1 .. n
        BY <3>2, <1>10
      <4>2. a[i] = c[i] /\ a[i + 1] = c[i + 1] /\ child[c[i]] = c[i + 1] /\ c[i] \in Nodes
        BY <4>1, <1>10, <1>11
      <4>3. c[i] # old.tail
        BY <4>1, <3>2, <1>1, <1>10 DEF ChainLists
      <4> QED
        BY <4>2, <4>3, <1>1, <1>3 DEF PoolTypes, old
    <3> QED
      BY <3>1, <3>2
  <2> QED
    BY <2>1, <2>2, <1>11 DEF Listed
<1>16. ASSUME NEW s \in DOMAIN root, s # r PROVE Listed(ch[s], s, child')
  <2>1. \A i \in 1 .. Len(ch[s]) - 1 : i \in 1 .. Len(ch[s])
    BY <1>14, <1>16
  <2>2. \A i \in 1 .. Len(ch[s]) - 1 : child'[ch[s][i]] = child[ch[s][i]]
    <3> SUFFICES ASSUME NEW i \in 1 .. Len(ch[s]) - 1 PROVE child'[ch[s][i]] = child[ch[s][i]]
      OBVIOUS
    <3>1. ch[s][i] \in Nodes /\ ch[s][i] # old.tail
      BY <2>1, <1>1, <1>14, <1>16 DEF PoolTypes
    <3> QED
      BY <3>1, <1>1, <1>3 DEF PoolTypes, old
  <2> QED
    BY <2>2, <1>14, <1>16 DEF Listed
<1>17. ChainLists(d)'
  <2>1. ASSUME NEW s \in DOMAIN root'
        PROVE  /\ Listed(d[s], s, child')
               /\ Len(d[s]) = root'[s].kids + 1 /\ d[s][Len(d[s])] = root'[s].tail
               /\ \A i \in 1 .. Len(d[s]) : d[s][i] \in DOMAIN node'
    <3>1. CASE s = r
      <4>1. \A i \in 1 .. n + 1 : i \in 1 .. n \/ i = n + 1
        BY <1>10
      <4>2. root'[r].kids = n /\ root'[r].tail = free
        BY <1>6, <1>10
      <4> QED
        BY <3>1, <4>1, <4>2, <1>4, <1>10, <1>11, <1>13, <1>15
    <3>2. CASE s # r
      BY <3>2, <2>1, <1>4, <1>6, <1>13, <1>14, <1>16
    <3> QED
      BY <3>1, <3>2
  <2>2. ASSUME NEW s \in DOMAIN root', NEW q \in DOMAIN root',
               NEW i \in 1 .. Len(d[s]), NEW j \in 1 .. Len(d[q]), d[s][i] = d[q][j]
        PROVE  s = q /\ i = j
    <3>1. ASSUME NEW t \in DOMAIN root, NEW k \in 1 .. Len(d[t])
          PROVE  \/ t = r /\ k = n + 1 /\ d[t][k] = free
                 \/ k \in 1 .. Len(ch[t]) /\ d[t][k] = ch[t][k] /\ d[t][k] # free
      <4>1. CASE t = r /\ k = n + 1
        BY <4>1, <1>11, <1>13
      <4>2. CASE t = r /\ k # n + 1
        <5>1. k \in 1 .. n
          BY <4>2, <3>1, <1>10, <1>11, <1>13
        <5> QED
          BY <5>1, <4>2, <1>4, <1>10, <1>11, <1>13
      <4>3. CASE t # r
        BY <4>3, <3>1, <1>4, <1>13, <1>14
      <4> QED
        BY <4>1, <4>2, <4>3
    <3>2. s \in DOMAIN root /\ q \in DOMAIN root
      BY <1>6
    <3>3. \/ s = r /\ i = n + 1 /\ d[s][i] = free
          \/ i \in 1 .. Len(ch[s]) /\ d[s][i] = ch[s][i] /\ d[s][i] # free
      BY <3>1, <3>2
    <3>4. \/ q = r /\ j = n + 1 /\ d[q][j] = free
          \/ j \in 1 .. Len(ch[q]) /\ d[q][j] = ch[q][j] /\ d[q][j] # free
      BY <3>1, <3>2
    <3> QED
      BY <3>2, <3>3, <3>4, <2>2, <1>1 DEF ChainLists
  <2>3. ASSUME NEW x \in DOMAIN node' PROVE \E s \in DOMAIN root' : \E i \in 1 .. Len(d[s]) : d[s][i] = x
    <3>1. CASE x = free
      <4>1. n + 1 \in 1 .. Len(d[r]) /\ d[r][n + 1] = free
        BY <1>10, <1>11, <1>13
      <4> QED
        BY <4>1, <3>1, <1>6
    <3>2. CASE x # free
      <4>1. PICK s \in DOMAIN root : \E i \in 1 .. Len(ch[s]) : ch[s][i] = x
        BY <3>2, <2>3, <1>1, <1>4 DEF ChainLists
      <4>2. PICK i \in 1 .. Len(ch[s]) : ch[s][i] = x
        BY <4>1
      <4>3. CASE s = r
        <5>1. i \in 1 .. n /\ i \in 1 .. n + 1
          BY <4>2, <4>3, <1>10
        <5>2. d[r][i] = x
          BY <5>1, <4>2, <4>3, <1>11, <1>13
        <5> QED
          BY <5>1, <5>2, <1>6, <1>11, <1>13
      <4>4. CASE s # r
        BY <4>2, <4>4, <1>6, <1>13
      <4> QED
        BY <4>3, <4>4
    <3> QED
      BY <3>1, <3>2
  <2>4. \A s \in DOMAIN root' :
              /\ Listed(d[s], s, child')
              /\ Len(d[s]) = root'[s].kids + 1 /\ d[s][Len(d[s])] = root'[s].tail
              /\ \A i \in 1 .. Len(d[s]) : d[s][i] \in DOMAIN node'
    BY <2>1
  <2>5. \A s, q \in DOMAIN root' : \A i \in 1 .. Len(d[s]), j \in 1 .. Len(d[q]) :
              d[s][i] = d[q][j] => s = q /\ i = j
    BY <2>2
  <2>6. \A x \in DOMAIN node' : \E s \in DOMAIN root' : \E i \in 1 .. Len(d[s]) : d[s][i] = x
    BY <2>3
  <2> QED
    BY ONLY <2>4, <2>5, <2>6 DEF ChainLists, Listed
<1>18. PoolShape(rs, d, Tail(fr))'
  BY <1>4, <1>5, <1>7, <1>8, <1>9, <1>17 DEF PoolShape
<1>19. \A s \in DOMAIN root : root'[s].hop = root[s].hop
  BY <1>6 DEF old
<1> QED
  BY <1>12, <1>2, <1>6, <1>18, <1>19

\* pkt_waiting_push: a free node becomes the first of the roots.
LEMMA PushShape ==
  ASSUME NEW rs, NEW ch, NEW fr, PoolShape(rs, ch, fr), NEW h \in PoolHops, NEW p \in Packets,
         Pool!Push(h, p)
  PROVE  \E r, rt, d :
           /\ r \in Nodes \ DOMAIN node
           /\ r = free
           /\ \A s \in DOMAIN root : root[s].hop # h
           /\ d = [s \in DOMAIN root \cup {r} |-> IF s = r THEN <<r>> ELSE ch[s]]
           /\ PoolShape(rt, d, Tail(fr))'
           /\ DOMAIN root' = DOMAIN root \cup {r} /\ root'[r].hop = h
           /\ \A s \in DOMAIN root : root'[s].hop = root[s].hop
<1>1. /\ PoolTypes /\ RootList(rs) /\ ChainLists(ch) /\ OneRoot
      /\ PoolRead(rs, ch, fr)
  BY ShapeRead DEF PoolShape
<1>2. \A s \in DOMAIN root : root[s].hop # h
  BY <1>1 DEF PoolRead, Pool!Push
<1>3. /\ Pool!TakeNode(p) /\ size' = size + 1 /\ child' = child
      /\ root' = [s \in DOMAIN root \cup {free} |->
                    IF s = free THEN [hop |-> h, kids |-> 0, tail |-> free] ELSE root[s]]
      /\ head' = free
  BY DEF Pool!Push
<1>4. IF Len(rs) > 0
      THEN next' = [next EXCEPT ![free] = head] /\ prev' = [prev EXCEPT ![head] = free] /\ tail' = tail
      ELSE tail' = free /\ next' = next /\ prev' = prev
  BY <1>1 DEF Pool!Push, PoolRead
<1>5. PICK r : r = free
  OBVIOUS
<1>6. /\ r \in Nodes /\ r \notin DOMAIN node /\ r \notin DOMAIN root
      /\ node' \in [DOMAIN node' -> Packets] /\ DOMAIN node' = DOMAIN node \cup {r}
      /\ OneNode' /\ sent' = <<>> /\ free' \in 0 .. PoolCapacity
  BY <1>3, <1>5, NodeTaken
<1>7. /\ DOMAIN root' = DOMAIN root \cup {r} /\ root'[r] = [hop |-> h, kids |-> 0, tail |-> r]
      /\ \A s \in DOMAIN root : root'[s] = root[s]
  BY <1>3, <1>5, <1>6
<1>8. FreeList(Tail(fr))'
  <2>1. \A c \in Nodes : c # free => next'[c] = next[c]
    BY <1>1, <1>4 DEF PoolTypes
  <2> QED
    BY <2>1, <1>3, FreeTaken
<1> DEFINE m == Len(rs)
<1>9. /\ rs \in Seq(Nodes) /\ m \in Nat
      /\ \A i \in 1 .. m : rs[i] \in Nodes /\ rs[i] \in DOMAIN root /\ rs[i] # r
      /\ m > 0 => rs[1] = head /\ 1 \in 1 .. m /\ head \in Nodes
      /\ \A i \in 1 .. m - 1 : next[rs[i]] = rs[i + 1] /\ prev[rs[i + 1]] = rs[i]
  <2>1. rs \in Seq(Nodes) /\ m \in Nat /\ (rs # <<>> => rs[1] = head)
        /\ (\A i \in 1 .. m - 1 : next[rs[i]] = rs[i + 1] /\ prev[rs[i + 1]] = rs[i])
        /\ (\A i \in 1 .. m : rs[i] \in DOMAIN root)
    BY <1>1, LenProperties DEF RootList, Listed
  <2>2. \A i \in 1 .. m : rs[i] \in Nodes
    BY <2>1, ElementOfSeq
  <2>3. m > 0 => rs # <<>> /\ 1 \in 1 .. m
    BY <2>1
  <2> QED
    BY <2>1, <2>2, <2>3, <1>6
<1>10. PICK rt : rt = <<r>> \o rs
  OBVIOUS
<1>11. /\ rt \in Seq(Nodes) /\ Len(rt) = m + 1 /\ rt # <<>>
       /\ rt[1] = r /\ \A i \in 1 .. m : rt[i + 1] = rs[i]
  <2>1. <<r>> \in Seq(Nodes) /\ Len(<<r>>) = 1 /\ <<r>>[1] = r
    BY <1>6
  <2>2. /\ rt \in Seq(Nodes) /\ Len(rt) = 1 + m
        /\ \A i \in 1 .. 1 + m : rt[i] = IF i <= 1 THEN <<r>>[i] ELSE rs[i - 1]
    BY <2>1, <1>9, <1>10, ConcatProperties
  <2>3. rt[1] = r
    BY <2>1, <2>2, <1>9
  <2>4. ASSUME NEW i \in 1 .. m PROVE rt[i + 1] = rs[i]
    <3>1. i + 1 \in 1 .. 1 + m /\ ~(i + 1 <= 1) /\ (i + 1) - 1 = i
      BY <1>9
    <3> QED
      BY <3>1, <2>2
  <2>5. rt # <<>>
    BY <2>2, <1>9
  <2> QED
    BY <2>2, <2>3, <2>4, <2>5, <1>9
<1> HIDE DEF m
<1>12. \A i \in 1 .. m + 1 : i = 1 \/ (i - 1 \in 1 .. m /\ rt[i] = rs[i - 1])
  <2> SUFFICES ASSUME NEW i \in 1 .. m + 1, i # 1 PROVE i - 1 \in 1 .. m /\ rt[i] = rs[i - 1]
    OBVIOUS
  <2>1. i - 1 \in 1 .. m /\ (i - 1) + 1 = i
    BY <1>9
  <2> QED
    BY <2>1, <1>11
<1>13. PoolTypes'
  <2>1. root' \in [DOMAIN root' -> [hop : PoolHops, kids : Nat, tail : Nodes]]
    <3>1. [hop |-> h, kids |-> 0, tail |-> r] \in [hop : PoolHops, kids : Nat, tail : Nodes]
      BY <1>6
    <3>2. \A s \in DOMAIN root' : root'[s] \in [hop : PoolHops, kids : Nat, tail : Nodes]
      BY <1>1, <1>7, <3>1 DEF PoolTypes
    <3>3. root' = [s \in DOMAIN root' |-> root'[s]]
      BY <1>3
    <3> QED
      BY <3>2, <3>3
  <2>2. next' \in [Nodes -> 0 .. PoolCapacity] /\ prev' \in [Nodes -> Nodes] /\ tail' \in Nodes
    <3>1. CASE Len(rs) > 0
      <4>1. next' = [next EXCEPT ![r] = head] /\ prev' = [prev EXCEPT ![head] = r] /\ tail' = tail
        BY <3>1, <1>4, <1>5
      <4> QED
        BY <4>1, <1>1, <1>6 DEF PoolTypes
    <3>2. CASE ~(Len(rs) > 0)
      <4>1. next' = next /\ prev' = prev /\ tail' = r
        BY <3>2, <1>4, <1>5
      <4> QED
        BY <4>1, <1>1, <1>6 DEF PoolTypes
    <3> QED
      BY <3>1, <3>2
  <2>3. size' \in Nat /\ head' \in 0 .. PoolCapacity
    BY <1>1, <1>3, <1>5, <1>6, NodesFacts DEF PoolTypes
  <2> QED
    BY <2>1, <2>2, <2>3, <1>1, <1>3, <1>6, <1>7 DEF PoolTypes
<1>14. RootList(rt)'
  <2>1. Listed(rt, head', next')
    <3>1. ASSUME NEW i \in 1 .. m PROVE next'[rt[i]] = rt[i + 1]
      <4>1. next' = [next EXCEPT ![r] = head] /\ next \in [Nodes -> 0 .. PoolCapacity]
        BY <1>1, <1>4, <1>5, <1>9 DEF PoolTypes, m
      <4>2. CASE i = 1
        BY <4>1, <4>2, <1>6, <1>9, <1>11
      <4>3. CASE i # 1
        <5>1. i - 1 \in 1 .. m - 1 /\ i - 1 \in 1 .. m /\ (i - 1) + 1 = i /\ i \in 1 .. m + 1
          BY <4>3, <1>9
        <5>2. rt[i] = rs[i - 1] /\ rt[i + 1] = rs[i] /\ next[rs[i - 1]] = rs[i]
              /\ rs[i - 1] # r /\ rs[i - 1] \in Nodes
          BY <5>1, <4>3, <1>9, <1>11, <1>12
        <5> QED
          BY <5>2, <4>1
      <4> QED
        BY <4>2, <4>3
    <3>2. rt[1] = head'
      BY <1>3, <1>5, <1>11
    <3>3. \A i \in 1 .. m : next'[rt[i]] = rt[i + 1]
      BY <3>1
    <3>4. Len(rt) - 1 = m /\ rt \in Seq(Nodes)
      BY <1>9, <1>11
    <3> QED
      BY ONLY <3>2, <3>3, <3>4 DEF Listed
  <2>2. Distinct(rt)
    <3>1. \A i, j \in 1 .. m : rs[i] = rs[j] => i = j
      BY <1>1 DEF RootList, Distinct, m
    <3>2. ASSUME NEW i \in 1 .. m + 1, NEW j \in 1 .. m + 1, rt[i] = rt[j] PROVE i = j
      <4>1. CASE i = 1 /\ j = 1
        BY <4>1
      <4>2. CASE i = 1 /\ j # 1
        BY <4>2, <3>2, <1>9, <1>11, <1>12
      <4>3. CASE i # 1 /\ j = 1
        BY <4>3, <3>2, <1>9, <1>11, <1>12
      <4>4. CASE i # 1 /\ j # 1
        <5>1. i - 1 = j - 1
          BY <4>4, <3>1, <3>2, <1>12
        <5> QED
          BY <5>1
      <4> QED
        BY <4>1, <4>2, <4>3, <4>4
    <3> QED
      BY <3>2, <1>11 DEF Distinct
  <2>3. \A i \in 1 .. Len(rt) : rt[i] \in DOMAIN root'
    BY <1>7, <1>9, <1>11, <1>12
  <2>4. ASSUME NEW s \in DOMAIN root' PROVE \E i \in 1 .. Len(rt) : rt[i] = s
    <3>1. CASE s = r
      BY <3>1, <1>9, <1>11
    <3>2. CASE s # r
      <4>1. PICK i \in 1 .. m : rs[i] = s
        BY <3>2, <1>1, <1>7 DEF RootList, m
      <4>2. i + 1 \in 1 .. Len(rt) /\ rt[i + 1] = s
        BY <4>1, <1>9, <1>11
      <4> QED
        BY <4>2
    <3> QED
      BY <3>1, <3>2
  <2>5. ASSUME NEW i \in 1 .. Len(rt) - 1 PROVE prev'[rt[i + 1]] = rt[i]
    <3>1. i \in 1 .. m /\ rt[i + 1] = rs[i] /\ i \in 1 .. m + 1 /\ m > 0
      BY <1>9, <1>11
    <3>2. prev' = [prev EXCEPT ![rs[1]] = r] /\ prev \in [Nodes -> Nodes]
      BY <3>1, <1>1, <1>4, <1>5, <1>9 DEF PoolTypes, m
    <3>3. CASE i = 1
      BY <3>1, <3>2, <3>3, <1>9, <1>11
    <3>4. CASE i # 1
      <4>1. i - 1 \in 1 .. m - 1 /\ (i - 1) + 1 = i
        BY <3>1, <3>4, <1>9
      <4>2. rt[i] = rs[i - 1] /\ prev[rs[i]] = rs[i - 1] /\ rs[i] \in Nodes
        BY <4>1, <3>1, <3>4, <1>9, <1>12
      <4>3. rs[i] # rs[1]
        BY <3>1, <3>4, <1>1, <1>9 DEF RootList, Distinct, m
      <4> QED
        BY <4>2, <4>3, <3>1, <3>2
    <3> QED
      BY <3>3, <3>4
  <2>6. tail' = rt[Len(rt)]
    <3>1. CASE m = 0
      BY <3>1, <1>4, <1>5, <1>11 DEF m
    <3>2. CASE m # 0
      <4>1. m > 0 /\ m \in 1 .. m /\ rs # <<>>
        BY <3>2, <1>9 DEF m
      <4>2. tail' = tail /\ tail = rs[m]
        BY <4>1, <1>1, <1>4 DEF RootList, m
      <4> QED
        BY <4>1, <4>2, <1>11
    <3> QED
      BY <3>1, <3>2
  <2>7. \A s \in DOMAIN root' : \E i \in 1 .. Len(rt) : rt[i] = s
    BY <2>4
  <2>8. \A i \in 1 .. Len(rt) - 1 : prev'[rt[i + 1]] = rt[i]
    BY <2>5
  <2> QED
    BY <2>1, <2>2, <2>3, <2>6, <2>7, <2>8 DEF RootList
<1>15. PICK d : d = [s \in DOMAIN root \cup {r} |-> IF s = r THEN <<r>> ELSE ch[s]]
  OBVIOUS
<1>16. /\ d[r] = <<r>> /\ Len(d[r]) = 1 /\ d[r][1] = r
       /\ \A s \in DOMAIN root : d[s] = ch[s]
  BY <1>6, <1>15
<1>17. ChainLists(d)'
  <2>1. \A s \in DOMAIN root' :
           /\ Listed(d[s], s, child')
           /\ Len(d[s]) = root'[s].kids + 1 /\ d[s][Len(d[s])] = root'[s].tail
           /\ \A i \in 1 .. Len(d[s]) : d[s][i] \in DOMAIN node'
    <3> SUFFICES ASSUME NEW s \in DOMAIN root'
                 PROVE  /\ Listed(d[s], s, child')
                        /\ Len(d[s]) = root'[s].kids + 1 /\ d[s][Len(d[s])] = root'[s].tail
                        /\ \A i \in 1 .. Len(d[s]) : d[s][i] \in DOMAIN node'
      OBVIOUS
    <3>1. CASE s = r
      <4>1. Listed(<<r>>, r, child')
        BY <1>6 DEF Listed
      <4> QED
        BY <4>1, <3>1, <1>6, <1>7, <1>16
    <3>2. CASE s # r
      <4>1. s \in DOMAIN root /\ d[s] = ch[s] /\ root'[s] = root[s]
        BY <3>2, <1>7, <1>16
      <4> QED
        BY <4>1, <1>1, <1>3, <1>6 DEF ChainLists
    <3> QED
      BY <3>1, <3>2
  <2>2. \A s, q \in DOMAIN root' : \A i \in 1 .. Len(d[s]), j \in 1 .. Len(d[q]) :
           d[s][i] = d[q][j] => s = q /\ i = j
    <3>1. \A s \in DOMAIN root : \A i \in 1 .. Len(ch[s]) : ch[s][i] # r
      BY <1>1, <1>6 DEF ChainLists
    <3>2. \A i \in 1 .. Len(d[r]) : i = 1 /\ d[r][i] = r
      BY <1>16
    <3>3. \A s \in DOMAIN root' : s = r \/ (s \in DOMAIN root /\ d[s] = ch[s])
      BY <1>7, <1>16
    <3> QED
      BY <3>1, <3>2, <3>3, <1>1 DEF ChainLists
  <2>3. \A x \in DOMAIN node' : \E s \in DOMAIN root' : \E i \in 1 .. Len(d[s]) : d[s][i] = x
    <3> SUFFICES ASSUME NEW x \in DOMAIN node'
                 PROVE  \E s \in DOMAIN root' : \E i \in 1 .. Len(d[s]) : d[s][i] = x
      OBVIOUS
    <3>1. CASE x = r
      <4>1. 1 \in 1 .. Len(d[r]) /\ r \in DOMAIN root'
        BY <1>7, <1>16
      <4> QED
        BY <4>1, <3>1, <1>16
    <3>2. CASE x # r
      <4>1. PICK s \in DOMAIN root : \E i \in 1 .. Len(ch[s]) : ch[s][i] = x
        BY <3>2, <1>1, <1>6 DEF ChainLists
      <4> QED
        BY <4>1, <1>7, <1>16
    <3> QED
      BY <3>1, <3>2
  <2> QED
    BY ONLY <2>1, <2>2, <2>3 DEF ChainLists, Listed
<1>18. OneRoot'
  BY <1>1, <1>2, <1>7 DEF OneRoot
<1>19. PoolShape(rt, d, Tail(fr))'
  BY <1>6, <1>8, <1>13, <1>14, <1>17, <1>18 DEF PoolShape
<1>20. root'[r].hop = h /\ \A s \in DOMAIN root : root'[s].hop = root[s].hop
  BY <1>7
<1> QED
  BY <1>2, <1>5, <1>6, <1>7, <1>15, <1>19, <1>20

-----------------------------------------------------------------------------
(* Leaving the queue.                                                      *)

\* The links once the root r of the chain c and its children are free.
NextReleased(r, c) ==
  /\ next' \in [Nodes -> 0 .. PoolCapacity]
  /\ next'[r] = IF Len(c) = 1 THEN free ELSE c[Len(c)]
  /\ \A k \in 2 .. Len(c) : next'[c[k]] = IF k = 2 THEN free ELSE c[k - 1]
  /\ \A x \in Nodes : (\A k \in 1 .. Len(c) : c[k] # x) =>
       next'[x] = IF r # head /\ x = prev[r] THEN next[r] ELSE next[x]

\* A chain: it starts with its root, its nodes are in use and different.
LEMMA ChainFacts ==
  ASSUME NEW ch, PoolTypes, ChainLists(ch), NEW r \in DOMAIN root
  PROVE  /\ ch[r] \in Seq(Nodes) /\ Len(ch[r]) \in Nat \ {0} /\ ch[r] # <<>>
         /\ Len(ch[r]) = root[r].kids + 1 /\ ch[r][1] = r
         /\ \A k \in 1 .. Len(ch[r]) : ch[r][k] \in DOMAIN node /\ ch[r][k] \in Nodes
         /\ \A k, l \in 1 .. Len(ch[r]) : ch[r][k] = ch[r][l] => k = l
<1>1. ch[r] \in Seq(Nodes) /\ Len(ch[r]) = root[r].kids + 1 /\ (ch[r] # <<>> => ch[r][1] = r)
      /\ root[r].kids \in Nat
  BY DEF ChainLists, Listed, PoolTypes
<1>2. Len(ch[r]) \in Nat \ {0} /\ ch[r] # <<>>
  BY <1>1
<1>3. \A k \in 1 .. Len(ch[r]) : ch[r][k] \in DOMAIN node /\ ch[r][k] \in Nodes
  BY <1>1, ElementOfSeq DEF ChainLists
<1>4. \A k, l \in 1 .. Len(ch[r]) : ch[r][k] = ch[r][l] => k = l
  BY DEF ChainLists
<1> QED
  BY <1>1, <1>2, <1>3, <1>4

LEMMA ReleaseNext ==
  ASSUME NEW ch, PoolTypes, ChainLists(ch), NEW r \in DOMAIN root,
         Pool!FreeParent(r, Tail(ch[r]))
  PROVE  NextReleased(r, ch[r])
<1> DEFINE c == ch[r]
           K == Len(c)
           kids == Tail(c)
           at(i) == CHOOSE k \in DOMAIN kids : kids[k] = i
           N(i) == IF i = r THEN (IF kids = <<>> THEN free ELSE Pool!Last(kids))
                   ELSE IF i \in Pool!Range(kids)
                        THEN IF at(i) = 1 THEN free ELSE kids[at(i) - 1]
                   ELSE IF r # head /\ i = prev[r] THEN next[r]
                   ELSE next[i]
<1>1. /\ c \in Seq(Nodes) /\ K \in Nat \ {0} /\ c # <<>> /\ c[1] = r
      /\ \A k \in 1 .. K : c[k] \in Nodes
      /\ \A k, l \in 1 .. K : c[k] = c[l] => k = l
  BY ChainFacts
<1>2. /\ kids \in Seq(Nodes) /\ Len(kids) = K - 1 /\ DOMAIN kids = 1 .. K - 1
      /\ \A k \in 1 .. K - 1 : kids[k] = c[k + 1]
      /\ kids = <<>> <=> K = 1
  <2>1. kids \in Seq(Nodes) /\ Len(kids) = K - 1 /\ \A k \in 1 .. Len(kids) : kids[k] = c[k + 1]
    BY <1>1, HeadTailProperties
  <2>2. DOMAIN kids = 1 .. Len(kids)
    BY <2>1, LenProperties
  <2>3. kids = <<>> <=> Len(kids) = 0
    BY <2>1, EmptySeq
  <2> QED
    BY <2>1, <2>2, <2>3, <1>1
<1> HIDE DEF c, K, kids
<1>3. next' = [i \in Nodes |-> N(i)]
  BY DEF Pool!FreeParent, kids, c, Nodes
<1>4. \A k \in 1 .. K - 1 : at(c[k + 1]) = k
  <2> SUFFICES ASSUME NEW k \in 1 .. K - 1 PROVE at(c[k + 1]) = k
    OBVIOUS
  <2>1. at(c[k + 1]) \in DOMAIN kids /\ kids[at(c[k + 1])] = c[k + 1]
    <3>1. kids[k] = c[k + 1] /\ k \in DOMAIN kids
      BY <1>2
    <3> QED
      BY <3>1
  <2> HIDE DEF at
  <2>2. at(c[k + 1]) \in 1 .. K - 1 /\ c[at(c[k + 1]) + 1] = c[k + 1]
    BY <2>1, <1>2
  <2>3. at(c[k + 1]) + 1 \in 1 .. K /\ k + 1 \in 1 .. K
    BY <2>2, <1>1
  <2>4. at(c[k + 1]) + 1 = k + 1
    BY <2>2, <2>3, <1>1
  <2> QED
    BY <2>2, <2>4
<1> HIDE DEF at
<1>5. \A x : x \in Pool!Range(kids) <=> \E k \in 1 .. K - 1 : kids[k] = x
  BY <1>2 DEF Pool!Range
<1>6. N(r) = IF K = 1 THEN free ELSE c[K]
  <2>1. CASE K = 1
    BY <2>1, <1>2
  <2>2. CASE K # 1
    <3>1. K - 1 \in 1 .. K - 1 /\ (K - 1) + 1 = K
      BY <2>2, <1>1
    <3>2. Pool!Last(kids) = kids[K - 1]
      BY <1>2 DEF Pool!Last
    <3> QED
      BY <2>2, <3>1, <3>2, <1>2
  <2> QED
    BY <2>1, <2>2
<1>7. \A k \in 2 .. K : N(c[k]) = IF k = 2 THEN free ELSE c[k - 1]
  <2> SUFFICES ASSUME NEW k \in 2 .. K PROVE N(c[k]) = IF k = 2 THEN free ELSE c[k - 1]
    OBVIOUS
  <2>1. k - 1 \in 1 .. K - 1 /\ (k - 1) + 1 = k /\ 1 \in 1 .. K /\ k \in 1 .. K /\ k # 1
    BY <1>1
  <2>2. c[k] # r /\ kids[k - 1] = c[k] /\ at(c[k]) = k - 1
    BY <2>1, <1>1, <1>2, <1>4
  <2>3. N(c[k]) = IF k - 1 = 1 THEN free ELSE kids[(k - 1) - 1]
    BY <2>1, <2>2, <1>5
  <2>4. CASE k = 2
    BY <2>3, <2>4
  <2>5. CASE k # 2
    <3>1. k - 1 # 1 /\ (k - 1) - 1 \in 1 .. K - 1 /\ ((k - 1) - 1) + 1 = k - 1
      BY <2>1, <2>5, <1>1
    <3> QED
      BY <2>3, <2>5, <3>1, <1>2
  <2> QED
    BY <2>4, <2>5
<1>8. \A x \in Nodes : (\A k \in 1 .. K : c[k] # x) =>
        N(x) = IF r # head /\ x = prev[r] THEN next[r] ELSE next[x]
  <2> SUFFICES ASSUME NEW x \in Nodes, \A k \in 1 .. K : c[k] # x
               PROVE  N(x) = IF r # head /\ x = prev[r] THEN next[r] ELSE next[x]
    OBVIOUS
  <2>1. x # r
    BY <1>1
  <2>2. \A k \in 1 .. K - 1 : kids[k] # x
    <3>1. \A k \in 1 .. K - 1 : k + 1 \in 1 .. K
      BY <1>1
    <3> QED
      BY <3>1, <1>2
  <2>3. x \notin Pool!Range(kids)
    BY <2>2, <1>5
  <2> QED
    BY <2>1, <2>3
<1>9. \A x \in Nodes : N(x) \in 0 .. PoolCapacity
  <2> SUFFICES ASSUME NEW x \in Nodes PROVE N(x) \in 0 .. PoolCapacity
    OBVIOUS
  <2>1. Nodes \subseteq 0 .. PoolCapacity /\ free \in 0 .. PoolCapacity
        /\ next[x] \in 0 .. PoolCapacity /\ next[r] \in 0 .. PoolCapacity
    BY NodesFacts DEF PoolTypes
  <2>2. CASE \E k \in 1 .. K : c[k] = x
    <3>1. PICK k \in 1 .. K : c[k] = x
      BY <2>2
    <3>2. CASE k = 1
      <4>1. K \in 1 .. K
        BY <1>1
      <4> QED
        BY <4>1, <2>1, <3>1, <3>2, <1>1, <1>6
    <3>3. CASE k # 1
      <4>1. k \in 2 .. K /\ k - 1 \in 1 .. K
        BY <3>3, <1>1
      <4>2. N(x) = IF k = 2 THEN free ELSE c[k - 1]
        BY <4>1, <3>1, <1>7
      <4> HIDE DEF N
      <4> QED
        BY <4>1, <4>2, <2>1, <1>1
    <3> QED
      BY <3>2, <3>3
  <2>3. CASE \A k \in 1 .. K : c[k] # x
    <3>1. N(x) = IF r # head /\ x = prev[r] THEN next[r] ELSE next[x]
      BY <2>3, <1>8
    <3> HIDE DEF N
    <3> QED
      BY <3>1, <2>1
  <2> QED
    BY <2>2, <2>3
<1> HIDE DEF N
<1>10. next' \in [Nodes -> 0 .. PoolCapacity] /\ \A x \in Nodes : next'[x] = N(x)
  BY <1>3, <1>9
<1>11. r \in Nodes /\ \A k \in 2 .. K : k \in 1 .. K
  BY <1>1 DEF PoolTypes
<1> QED
  BY <1>1, <1>6, <1>7, <1>8, <1>10, <1>11 DEF NextReleased, c, K

\* Which nodes go.
LEMMA NodesReleased ==
  ASSUME NEW ch, PoolTypes, ChainLists(ch), NEW r \in DOMAIN root,
         Pool!FreeParent(r, Tail(ch[r]))
  PROVE  /\ DOMAIN node' = {x \in DOMAIN node : \A k \in 1 .. Len(ch[r]) : ch[r][k] # x}
         /\ node' \in [DOMAIN node' -> Packets] /\ \A x \in DOMAIN node' : node'[x] = node[x]
         /\ DOMAIN root' = DOMAIN root \ {r} /\ \A s \in DOMAIN root' : root'[s] = root[s]
         /\ root' \in [DOMAIN root' -> [hop : PoolHops, kids : Nat, tail : Nodes]]
         /\ size' = size - Len(ch[r])
         /\ free' = r /\ child' = child
<1> DEFINE c == ch[r]
           K == Len(c)
           kids == Tail(c)
<1>1. /\ c \in Seq(Nodes) /\ K \in Nat \ {0} /\ c # <<>> /\ c[1] = r
  BY ChainFacts
<1>2. /\ Len(kids) = K - 1 /\ DOMAIN kids = 1 .. K - 1
      /\ \A k \in 1 .. K - 1 : kids[k] = c[k + 1]
  <2>1. kids \in Seq(Nodes) /\ Len(kids) = K - 1 /\ \A k \in 1 .. Len(kids) : kids[k] = c[k + 1]
    BY <1>1, HeadTailProperties
  <2>2. DOMAIN kids = 1 .. Len(kids)
    BY <2>1, LenProperties
  <2> QED
    BY <2>1, <2>2
<1>3. /\ free' = r /\ child' = child /\ size' = size - 1 - Len(kids)
      /\ node' = [x \in DOMAIN node \ ({r} \cup Pool!Range(kids)) |-> node[x]]
      /\ root' = [x \in DOMAIN root \ {r} |-> root[x]]
  BY DEF Pool!FreeParent, Pool!Restrict, kids, c
<1> HIDE DEF c, K, kids
<1>4. \A x : x \in {r} \cup Pool!Range(kids) <=> \E k \in 1 .. K : c[k] = x
  <2> SUFFICES ASSUME NEW x PROVE x \in {r} \cup Pool!Range(kids) <=> \E k \in 1 .. K : c[k] = x
    OBVIOUS
  <2>1. x \in Pool!Range(kids) <=> \E k \in 1 .. K - 1 : kids[k] = x
    BY <1>2 DEF Pool!Range
  <2>2. ASSUME x \in {r} \cup Pool!Range(kids) PROVE \E k \in 1 .. K : c[k] = x
    <3>1. CASE x = r
      <4>1. 1 \in 1 .. K
        BY <1>1
      <4> QED
        BY <4>1, <3>1, <1>1
    <3>2. CASE x # r
      <4>1. PICK k \in 1 .. K - 1 : kids[k] = x
        BY <2>1, <2>2, <3>2
      <4>2. k + 1 \in 1 .. K /\ c[k + 1] = x
        BY <4>1, <1>1, <1>2
      <4> QED
        BY <4>2
    <3> QED
      BY <3>1, <3>2
  <2>3. ASSUME NEW k \in 1 .. K, c[k] = x PROVE x \in {r} \cup Pool!Range(kids)
    <3>1. CASE k = 1
      BY <3>1, <2>3, <1>1
    <3>2. CASE k # 1
      <4>1. k - 1 \in 1 .. K - 1 /\ (k - 1) + 1 = k
        BY <3>2, <1>1
      <4>2. kids[k - 1] = x
        BY <4>1, <2>3, <1>2
      <4> QED
        BY <4>1, <4>2, <2>1
    <3> QED
      BY <3>1, <3>2
  <2> QED
    BY <2>2, <2>3
<1>5. /\ DOMAIN node' = {x \in DOMAIN node : \A k \in 1 .. K : c[k] # x}
      /\ \A x \in DOMAIN node' : node'[x] = node[x]
  BY <1>3, <1>4
<1>6. node' \in [DOMAIN node' -> Packets]
  BY <1>3 DEF PoolTypes
<1>7. size' = size - K
  BY <1>1, <1>2, <1>3 DEF PoolTypes
<1>8. DOMAIN root' = DOMAIN root \ {r} /\ \A s \in DOMAIN root' : root'[s] = root[s]
  BY <1>3
<1>9. root' \in [DOMAIN root' -> [hop : PoolHops, kids : Nat, tail : Nodes]]
  <2>1. \A s \in DOMAIN root' : root'[s] \in [hop : PoolHops, kids : Nat, tail : Nodes]
    BY <1>8 DEF PoolTypes
  <2>2. root' = [s \in DOMAIN root' |-> root'[s]]
    BY <1>3
  <2> QED
    BY <2>1, <2>2
<1> QED
  BY <1>3, <1>5, <1>6, <1>7, <1>8, <1>9 DEF c, K

\* The free list begins with the root, then its children from the last to the first.
LEMMA ReleaseFree ==
  ASSUME NEW ch, NEW rs, NEW fr, PoolTypes, RootList(rs), ChainLists(ch), FreeList(fr),
         NEW r \in DOMAIN root, Pool!FreeParent(r, Tail(ch[r]))
  PROVE  size' \in Nat /\ \E fl : FreeList(fl)'
<1> DEFINE c == ch[r]
           K == Len(c)
           n == Len(fr)
<1>1. /\ c \in Seq(Nodes) /\ K \in Nat \ {0} /\ c[1] = r
      /\ \A k \in 1 .. K : c[k] \in DOMAIN node /\ c[k] \in Nodes
      /\ \A k, l \in 1 .. K : c[k] = c[l] => k = l
  BY ChainFacts
<1>2. NextReleased(r, c)
  BY ReleaseNext
<1>3. /\ DOMAIN node' = {x \in DOMAIN node : \A k \in 1 .. K : c[k] # x}
      /\ size' = size - K /\ free' = r
  BY NodesReleased
<1>4. /\ fr \in Seq(Nodes) /\ n \in Nat /\ n = PoolCapacity - size
      /\ \A k \in 1 .. n : fr[k] \in Nodes /\ fr[k] \notin DOMAIN node
      /\ \A k, l \in 1 .. n : fr[k] = fr[l] => k = l
      /\ n > 0 => 1 \in 1 .. n /\ fr[1] = free
      /\ \A k \in 1 .. n - 1 : next[fr[k]] = fr[k + 1]
      /\ \A x \in Nodes \ DOMAIN node : \E k \in 1 .. n : fr[k] = x
  <2>1. fr \in Seq(Nodes) /\ n \in Nat /\ n = PoolCapacity - size /\ (fr # <<>> => fr[1] = free)
        /\ (\A k \in 1 .. n - 1 : next[fr[k]] = fr[k + 1])
        /\ (\A k \in 1 .. n : fr[k] \notin DOMAIN node)
        /\ (\A k, l \in 1 .. n : fr[k] = fr[l] => k = l)
        /\ (\A x \in Nodes \ DOMAIN node : \E k \in 1 .. n : fr[k] = x)
    BY LenProperties DEF FreeList, Listed, Distinct
  <2>2. \A k \in 1 .. n : fr[k] \in Nodes
    BY <2>1, ElementOfSeq
  <2>3. n > 0 => fr # <<>> /\ 1 \in 1 .. n
    BY <2>1
  <2> QED
    BY <2>1, <2>2, <2>3
<1>5. r # head => prev[r] \in DOMAIN node
  <2> SUFFICES ASSUME r # head PROVE prev[r] \in DOMAIN node
    OBVIOUS
  <2>1. PICK m \in 1 .. Len(rs) : rs[m] = r
    BY DEF RootList
  <2>2. Len(rs) \in Nat /\ rs # <<>> /\ rs[1] = head
    BY <2>1, LenProperties DEF RootList, Listed
  <2>3. m - 1 \in 1 .. Len(rs) - 1 /\ m - 1 \in 1 .. Len(rs) /\ (m - 1) + 1 = m
    BY <2>1, <2>2
  <2>4. prev[r] = rs[m - 1] /\ rs[m - 1] \in DOMAIN root
    BY <2>1, <2>3 DEF RootList
  <2> QED
    BY <2>4 DEF PoolTypes
<1> HIDE DEF c, K, n
<1>6. \A k \in 1 .. n : next'[fr[k]] = next[fr[k]] /\ \A l \in 1 .. K : c[l] # fr[k]
  BY <1>1, <1>2, <1>4, <1>5 DEF NextReleased, K
<1> DEFINE q(j) == IF j = 1 THEN 1 ELSE K + 2 - j
<1>7. PICK fl : fl = [j \in 1 .. K + n |-> IF j <= K THEN c[q(j)] ELSE fr[j - K]]
  OBVIOUS
<1>8. \A j \in 1 .. K : q(j) \in 1 .. K /\ j \in 1 .. K + n /\ fl[j] = c[q(j)]
  <2>1. \A j \in 1 .. K : j \in 1 .. K + n /\ j <= K
    BY <1>1, <1>4
  <2>2. \A j \in 1 .. K : q(j) \in 1 .. K
    BY <1>1
  <2> QED
    BY <2>1, <2>2, <1>7
<1>9. \A k \in 1 .. n : k + K \in 1 .. K + n /\ fl[k + K] = fr[k]
  <2>1. \A k \in 1 .. n : k + K \in 1 .. K + n /\ ~(k + K <= K) /\ (k + K) - K = k
    BY <1>1, <1>4
  <2> QED
    BY <2>1, <1>7
<1>10. \A j \in 1 .. K + n : j \in 1 .. K \/ (j - K \in 1 .. n /\ fl[j] = fr[j - K] /\ j # 1)
  <2>1. \A j \in 1 .. K + n : j \in 1 .. K \/ (j - K \in 1 .. n /\ ~(j <= K) /\ j # 1)
    BY <1>1, <1>4
  <2> QED
    BY <2>1, <1>7
<1>11. ASSUME NEW j \in 1 .. K + n
       PROVE  fl[j] \in Nodes /\ fl[j] \notin DOMAIN node'
  <2> HIDE DEF q
  <2>1. CASE j \in 1 .. K
    BY <2>1, <1>1, <1>3, <1>8
  <2>2. CASE j \notin 1 .. K
    BY <2>2, <1>3, <1>4, <1>10
  <2> QED
    BY <2>1, <2>2
<1>12. fl \in Seq(Nodes) /\ Len(fl) = K + n
  <2>1. K + n \in Nat
    BY <1>1, <1>4
  <2>2. fl \in [1 .. K + n -> Nodes]
    BY <1>7, <1>11
  <2>3. fl \in Seq(Nodes)
    BY <2>1, <2>2, SeqDef
  <2>4. DOMAIN fl = 1 .. K + n
    BY <2>2
  <2> QED
    BY <2>1, <2>3, <2>4
<1>13. Distinct(fl)
  <2>1. ASSUME NEW i \in 1 .. K + n, NEW j \in 1 .. K + n, fl[i] = fl[j] PROVE i = j
    <3>1. CASE i \in 1 .. K /\ j \in 1 .. K
      <4>1. q(i) = q(j)
        BY <3>1, <2>1, <1>1, <1>8
      <4> QED
        BY <4>1, <3>1, <1>1
    <3>2. CASE i \in 1 .. K /\ j \notin 1 .. K
      BY <3>2, <2>1, <1>6, <1>8, <1>10
    <3>3. CASE i \notin 1 .. K /\ j \in 1 .. K
      BY <3>3, <2>1, <1>6, <1>8, <1>10
    <3>4. CASE i \notin 1 .. K /\ j \notin 1 .. K
      <4>1. i - K = j - K
        BY <3>4, <2>1, <1>4, <1>10
      <4> QED
        BY <4>1, <1>1, <1>4
    <3> QED
      BY <3>1, <3>2, <3>3, <3>4
  <2> QED
    BY <2>1, <1>12 DEF Distinct
<1>14. Listed(fl, free', next')
  <2>1. fl[1] = free'
    <3>1. 1 \in 1 .. K /\ q(1) = 1
      BY <1>1
    <3> QED
      BY <3>1, <1>1, <1>3, <1>8
  <2>2. ASSUME NEW j \in 1 .. (K + n) - 1 PROVE next'[fl[j]] = fl[j + 1]
    <3>0. j \in 1 .. K + n /\ j + 1 \in 1 .. K + n
      BY <1>1, <1>4
    <3>1. CASE j = 1 /\ K = 1
      <4>1. n > 0 /\ 1 \in 1 .. n /\ 1 + K = j + 1 /\ 1 \in 1 .. K /\ q(1) = 1
        BY <2>2, <3>1, <1>1, <1>4
      <4>2. fl[j] = r /\ fl[j + 1] = fr[1] /\ fr[1] = free
        BY <4>1, <3>1, <1>1, <1>4, <1>8, <1>9
      <4> QED
        BY <4>2, <3>1, <1>2 DEF NextReleased, K
    <3>2. CASE j = 1 /\ K # 1
      <4>1. j \in 1 .. K /\ q(j) = 1 /\ j + 1 \in 1 .. K /\ q(j + 1) = K
        BY <3>2, <1>1
      <4>2. fl[j] = r /\ fl[j + 1] = c[K]
        BY <4>1, <1>1, <1>8
      <4> QED
        BY <4>2, <3>2, <1>2 DEF NextReleased, K
    <3>3. CASE j # 1 /\ j \in 1 .. K /\ j # K
      <4>1. q(j) \in 2 .. K /\ q(j) # 2 /\ j + 1 \in 1 .. K /\ q(j + 1) = q(j) - 1
        BY <3>3, <1>1
      <4>2. fl[j] = c[q(j)] /\ fl[j + 1] = c[q(j) - 1]
        BY <4>1, <3>3, <1>8
      <4>3. \A k \in 2 .. K : next'[c[k]] = IF k = 2 THEN free ELSE c[k - 1]
        BY <1>2 DEF NextReleased, K
      <4> HIDE DEF q
      <4> QED
        BY <4>1, <4>2, <4>3
    <3>4. CASE j # 1 /\ j \in 1 .. K /\ j = K
      <4>1. q(j) = 2 /\ 2 \in 2 .. K /\ n > 0 /\ 1 \in 1 .. n /\ 1 + K = j + 1
        BY <2>2, <3>4, <1>1, <1>4
      <4>2. fl[j] = c[2] /\ fl[j + 1] = free
        BY SMTT(30), <4>1, <3>4, <1>4, <1>8, <1>9
      <4>3. next'[c[2]] = free
        BY <4>1, <1>2 DEF NextReleased, K
      <4> QED
        BY <4>2, <4>3
    <3>5. CASE j \notin 1 .. K
      <4>1. j - K \in 1 .. n /\ fl[j] = fr[j - K]
        BY <3>0, <3>5, <1>10
      <4>2. j - K \in 1 .. n - 1 /\ (j - K) + 1 \in 1 .. n /\ ((j - K) + 1) + K = j + 1
        BY <4>1, <2>2, <1>1, <1>4
      <4>3. fl[j + 1] = fr[(j - K) + 1] /\ next[fr[j - K]] = fr[(j - K) + 1]
        BY <4>2, <1>4, <1>9
      <4> QED
        BY <4>1, <4>3, <1>6
    <3> QED
      BY <3>1, <3>2, <3>3, <3>4, <3>5
  <2> QED
    BY <2>1, <2>2, <1>12 DEF Listed
<1>15. \A j \in 1 .. K + n : fl[j] \notin DOMAIN node'
  BY <1>11
<1>16. ASSUME NEW x \in Nodes \ DOMAIN node' PROVE \E j \in 1 .. K + n : fl[j] = x
  <2>1. CASE x \notin DOMAIN node
    <3>1. PICK k \in 1 .. n : fr[k] = x
      BY <2>1, <1>16, <1>4
    <3> QED
      BY <3>1, <1>9
  <2>2. CASE x \in DOMAIN node
    <3>1. PICK k \in 1 .. K : c[k] = x
      BY <2>2, <1>3, <1>16
    <3>2. q(k) \in 1 .. K /\ q(q(k)) = k
      BY <1>1
    <3> QED
      BY <3>1, <3>2, <1>8
  <2> QED
    BY <2>1, <2>2
<1>17. Len(fl) = PoolCapacity - size' /\ size' \in Nat
  <2>1. Len(fl) = PoolCapacity - size'
    BY <1>1, <1>3, <1>4, <1>12, NodesFacts DEF PoolTypes
  <2>2. Cardinality(Nodes \ DOMAIN node') = Len(fl)
    BY <1>12, <1>13, <1>15, <1>16, ListCounts
  <2>3. Cardinality(Nodes \ DOMAIN node') <= PoolCapacity
    <3>1. Nodes \ DOMAIN node' \in SUBSET Nodes
      OBVIOUS
    <3> QED
      BY <3>1, NodesFacts, FS_Subset
  <2>4. size' \in Int /\ Len(fl) \in Nat /\ PoolCapacity \in Nat
    BY <1>1, <1>3, <1>4, <1>12, NodesFacts DEF PoolTypes
  <2>5. Len(fl) <= PoolCapacity
    BY <2>2, <2>3
  <2>6. ASSUME NEW a \in Int, NEW b \in Nat, NEW e \in Nat, b = e - a, b <= e PROVE a \in Nat
    BY <2>6
  <2> QED
    BY ONLY <2>1, <2>4, <2>5, <2>6
<1>18. FreeList(fl)'
  BY <1>12, <1>13, <1>14, <1>15, <1>16, <1>17 DEF FreeList
<1> QED
  BY <1>17, <1>18

\* The roots before and after the one that goes are linked to each other.
LEMMA ReleaseRoots ==
  ASSUME NEW ch, NEW rs, PoolTypes, RootList(rs), ChainLists(ch),
         NEW r \in DOMAIN root, Pool!FreeParent(r, Tail(ch[r]))
  PROVE  /\ head' \in 0 .. PoolCapacity /\ tail' \in Nodes /\ prev' \in [Nodes -> Nodes]
         /\ \E rt : RootList(rt)'
<1> DEFINE L == Len(rs)
<1>1. /\ rs \in Seq(Nodes) /\ L \in Nat
      /\ \A i \in 1 .. L : rs[i] \in Nodes /\ rs[i] \in DOMAIN root
      /\ \A i, j \in 1 .. L : rs[i] = rs[j] => i = j
      /\ \A s \in DOMAIN root : \E i \in 1 .. L : rs[i] = s
      /\ \A i \in 1 .. L - 1 : next[rs[i]] = rs[i + 1] /\ prev[rs[i + 1]] = rs[i]
      /\ L > 0 => rs[1] = head /\ tail = rs[L]
  <2>1. rs \in Seq(Nodes) /\ L \in Nat /\ (rs # <<>> => rs[1] = head /\ tail = rs[L])
        /\ (\A i \in 1 .. L - 1 : next[rs[i]] = rs[i + 1] /\ prev[rs[i + 1]] = rs[i])
        /\ (\A i \in 1 .. L : rs[i] \in DOMAIN root)
        /\ (\A i, j \in 1 .. L : rs[i] = rs[j] => i = j)
        /\ (\A s \in DOMAIN root : \E i \in 1 .. L : rs[i] = s)
    BY LenProperties DEF RootList, Listed, Distinct
  <2>2. \A i \in 1 .. L : rs[i] \in Nodes
    BY <2>1, ElementOfSeq
  <2>3. L > 0 => rs # <<>>
    BY <2>1
  <2> QED
    BY <2>1, <2>2, <2>3
<1> HIDE DEF L
<1>2. PICK m \in 1 .. L : rs[m] = r
  BY <1>1
<1>3. L \in Nat /\ m \in 1 .. L
  BY <1>1
<1>4. \A i, j \in 1 .. L : rs[i] = rs[j] => i = j
  BY <1>1
<1>5. \A i \in 1 .. L : rs[i] \in Nodes /\ rs[i] \in DOMAIN root
  BY <1>1
<1>6. \A i \in 1 .. L - 1 : next[rs[i]] = rs[i + 1] /\ prev[rs[i + 1]] = rs[i]
  BY <1>1
<1>7. rs[1] = head /\ rs[L] = tail
  BY <1>1, <1>3
<1>8. /\ L > 0 /\ 1 \in 1 .. L /\ L \in 1 .. L
      /\ r = head <=> m = 1
      /\ r = tail <=> m = L
      /\ m # 1 => m - 1 \in 1 .. L - 1 /\ m - 1 \in 1 .. L /\ prev[r] = rs[m - 1]
      /\ m # L => m \in 1 .. L - 1 /\ m + 1 \in 1 .. L /\ next[r] = rs[m + 1]
  <2>1. L > 0 /\ 1 \in 1 .. L /\ L \in 1 .. L
    BY <1>1, <1>2
  <2>2. rs[1] = head /\ rs[L] = tail
    BY <1>1, <2>1
  <2>3. (r = head <=> m = 1) /\ (r = tail <=> m = L)
    BY <1>1, <1>2, <2>1, <2>2
  <2>4. m # 1 => m - 1 \in 1 .. L - 1 /\ m - 1 \in 1 .. L /\ (m - 1) + 1 = m
    BY <1>1, <1>2
  <2>5. m # L => m \in 1 .. L - 1 /\ m + 1 \in 1 .. L
    BY <1>1, <1>2
  <2> QED
    BY <2>1, <2>3, <2>4, <2>5, <1>1, <1>2
<1>9. /\ head' = IF m = 1 THEN next[r] ELSE head
      /\ m = L => tail' = prev[r] /\ prev' = prev
      /\ m # L => prev' = [prev EXCEPT ![next[r]] = prev[r]] /\ tail' = tail
  BY <1>8 DEF Pool!FreeParent
<1>10. ASSUME NEW i \in 1 .. L, i # m
      PROVE  next'[rs[i]] = IF m # 1 /\ i = m - 1 THEN next[r] ELSE next[rs[i]]
  <2>1. rs[i] # r /\ rs[i] \in DOMAIN root /\ rs[i] \in Nodes
    BY <1>1, <1>2, <1>10
  <2>2. \A k \in 1 .. Len(ch[r]) : ch[r][k] # rs[i]
    <3>1. 1 \in 1 .. Len(ch[rs[i]]) /\ ch[rs[i]][1] = rs[i]
      BY <2>1, ChainFacts
    <3> QED
      BY <2>1, <3>1 DEF ChainLists
  <2>3. next'[rs[i]] = IF r # head /\ rs[i] = prev[r] THEN next[r] ELSE next[rs[i]]
    BY <2>1, <2>2, ReleaseNext DEF NextReleased
  <2>4. m # 1 => (rs[i] = prev[r] <=> i = m - 1)
    BY <1>8, <1>4
  <2> QED
    BY <2>3, <2>4, <1>8
<1>11. PICK rt : rt = [i \in 1 .. L - 1 |-> IF i < m THEN rs[i] ELSE rs[i + 1]]
  OBVIOUS
<1> DEFINE at(i) == IF i < m THEN i ELSE i + 1
<1>12. \A i \in 1 .. L - 1 : rt[i] = rs[at(i)] /\ at(i) \in 1 .. L /\ at(i) # m
  BY <1>1, <1>2, <1>11
<1>13. \A i, j \in 1 .. L - 1 : at(i) = at(j) => i = j
  BY <1>3
<1>14. \A k \in 1 .. L : k # m => \E i \in 1 .. L - 1 : at(i) = k
  <2> SUFFICES ASSUME NEW k \in 1 .. L, k # m PROVE \E i \in 1 .. L - 1 : at(i) = k
    OBVIOUS
  <2>1. CASE k < m
    <3>1. k \in 1 .. L - 1 /\ at(k) = k
      BY <2>1, <1>1, <1>2
    <3> QED
      BY <3>1
  <2>2. CASE ~(k < m)
    <3>1. k - 1 \in 1 .. L - 1 /\ at(k - 1) = k
      BY <2>2, <1>1, <1>2
    <3> QED
      BY <3>1
  <2> QED
    BY <2>1, <2>2
<1>15. \A i \in 1 .. L - 1 : i + 1 \in 1 .. L - 1 =>
         \/ at(i) # m - 1 /\ at(i) \in 1 .. L - 1 /\ at(i + 1) = at(i) + 1
         \/ at(i) = m - 1 /\ at(i + 1) = m + 1 /\ m # 1 /\ m # L
  <2> SUFFICES ASSUME NEW i \in 1 .. L - 1, i + 1 \in 1 .. L - 1
               PROVE  \/ at(i) # m - 1 /\ at(i) \in 1 .. L - 1 /\ at(i + 1) = at(i) + 1
                      \/ at(i) = m - 1 /\ at(i + 1) = m + 1 /\ m # 1 /\ m # L
    OBVIOUS
  <2>1. CASE i = m - 1
    BY <2>1, <1>3
  <2>2. CASE i < m - 1
    BY <2>2, <1>3
  <2>3. CASE i > m - 1
    BY <2>3, <1>3
  <2> QED
    BY <2>1, <2>2, <2>3, <1>3
<1>16. rt \in Seq(Nodes) /\ Len(rt) = L - 1
  <2>1. L - 1 \in Nat
    BY <1>3
  <2>2. \A i \in 1 .. L - 1 : rt[i] \in Nodes
    <3> HIDE DEF at
    <3> QED
      BY <1>12, <1>5
  <2>3. rt \in [1 .. L - 1 -> Nodes]
    BY <1>11, <2>2
  <2>4. rt \in Seq(Nodes)
    BY <2>1, <2>3, SeqDef
  <2>5. DOMAIN rt = 1 .. L - 1
    BY <1>11
  <2> QED
    BY <2>1, <2>4, <2>5
<1>17. L - 1 # 0 => 1 \in 1 .. L - 1 /\ L - 1 \in 1 .. L - 1
                    /\ at(1) = (IF m = 1 THEN 2 ELSE 1) /\ at(L - 1) = (IF m = L THEN L - 1 ELSE L)
  BY <1>1, <1>2
<1>18. /\ head' \in 0 .. PoolCapacity /\ tail' \in Nodes /\ prev' \in [Nodes -> Nodes]
  <2>1. r \in Nodes
    BY DEF PoolTypes
  <2>2. CASE m = L
    BY <2>1, <2>2, <1>9 DEF PoolTypes
  <2>3. CASE m # L
    BY <2>1, <2>3, <1>9 DEF PoolTypes
  <2> QED
    BY <2>2, <2>3
<1> HIDE DEF at
<1>19. Listed(rt, head', next')
  <2>1. rt # <<>> => rt[1] = head'
    <3> SUFFICES ASSUME rt # <<>> PROVE rt[1] = head'
      OBVIOUS
    <3>1. L - 1 # 0
      BY <1>16, EmptySeq
    <3>2. CASE m = 1
      <4>1. m # L /\ m + 1 = 2
        BY <3>1, <3>2
      <4> QED
        BY <4>1, <3>1, <3>2, <1>8, <1>9, <1>12, <1>17
    <3>3. CASE m # 1
      <4>1. rt[1] = rs[1]
        BY <3>1, <3>3, <1>12, <1>17
      <4> QED
        BY <4>1, <3>3, <1>9, <1>7
    <3> QED
      BY <3>2, <3>3
  <2>2. ASSUME NEW i \in 1 .. (L - 1) - 1 PROVE next'[rt[i]] = rt[i + 1]
    <3>1. i \in 1 .. L - 1 /\ i + 1 \in 1 .. L - 1
      BY <1>1
    <3>2. /\ rt[i] = rs[at(i)] /\ at(i) \in 1 .. L /\ at(i) # m
          /\ rt[i + 1] = rs[at(i + 1)]
      BY <3>1, <1>12
    <3>3. CASE at(i) # m - 1 /\ at(i) \in 1 .. L - 1 /\ at(i + 1) = at(i) + 1
      <4>1. next'[rs[at(i)]] = next[rs[at(i)]]
        BY <3>2, <3>3, <1>10
      <4> QED
        BY <4>1, <3>2, <3>3, <1>6
    <3>4. CASE at(i) = m - 1 /\ at(i + 1) = m + 1 /\ m # 1 /\ m # L
      BY <3>2, <3>4, <1>8, <1>10
    <3> QED
      BY <3>1, <3>3, <3>4, <1>15
  <2> QED
    BY <2>1, <2>2, <1>16 DEF Listed
<1>20. Distinct(rt)
  <2>1. ASSUME NEW i \in 1 .. L - 1, NEW j \in 1 .. L - 1, rt[i] = rt[j] PROVE i = j
    <3>1. at(i) = at(j)
      BY <2>1, <1>12, <1>4
    <3> QED
      BY <3>1, <1>13
  <2> QED
    BY <2>1, <1>16 DEF Distinct
<1>21. DOMAIN root' = DOMAIN root \ {r}
  BY NodesReleased
<1>22. \A i \in 1 .. L - 1 : rt[i] \in DOMAIN root'
  <2> SUFFICES ASSUME NEW i \in 1 .. L - 1 PROVE rt[i] \in DOMAIN root'
    OBVIOUS
  <2>1. rt[i] = rs[at(i)] /\ at(i) \in 1 .. L /\ at(i) # m
    BY <1>12
  <2>2. rs[at(i)] # r
    BY <2>1, <1>2, <1>4
  <2> QED
    BY <2>1, <2>2, <1>21, <1>5
<1>23. \A s \in DOMAIN root' : \E i \in 1 .. L - 1 : rt[i] = s
  <2> SUFFICES ASSUME NEW s \in DOMAIN root' PROVE \E i \in 1 .. L - 1 : rt[i] = s
    OBVIOUS
  <2>1. PICK k \in 1 .. L : rs[k] = s
    BY <1>1, <1>21
  <2>2. PICK i \in 1 .. L - 1 : at(i) = k
    BY <2>1, <1>2, <1>14, <1>21
  <2> QED
    BY <2>1, <2>2, <1>12
<1>24. ASSUME NEW i \in 1 .. (L - 1) - 1 PROVE prev'[rt[i + 1]] = rt[i]
  <2>1. i \in 1 .. L - 1 /\ i + 1 \in 1 .. L - 1
    BY <1>1
  <2>2. /\ rt[i] = rs[at(i)] /\ at(i) \in 1 .. L /\ at(i) # m
        /\ rt[i + 1] = rs[at(i + 1)] /\ at(i + 1) \in 1 .. L /\ at(i + 1) # m
    BY <2>1, <1>12
  <2>3. CASE at(i) # m - 1 /\ at(i) \in 1 .. L - 1 /\ at(i + 1) = at(i) + 1
    <3>1. prev[rt[i + 1]] = rt[i]
      BY <2>2, <2>3, <1>6
    <3>2. m # L => rt[i + 1] # next[r]
      <4>1. m # L => at(i + 1) # m + 1
        BY <2>2, <2>3
      <4> QED
        BY <4>1, <2>2, <1>8, <1>4
    <3>3. rt[i + 1] \in Nodes
      BY <2>2, <1>1
    <3> QED
      BY <3>1, <3>2, <3>3, <1>9 DEF PoolTypes
  <2>4. CASE at(i) = m - 1 /\ at(i + 1) = m + 1 /\ m # 1 /\ m # L
    <3>1. rt[i + 1] = next[r] /\ rt[i] = prev[r] /\ next[r] \in Nodes
      BY <2>2, <2>4, <1>1, <1>8
    <3> QED
      BY <3>1, <2>4, <1>9 DEF PoolTypes
  <2> QED
    BY <2>1, <2>3, <2>4, <1>15
<1>25. rt # <<>> => tail' = rt[L - 1]
  <2> SUFFICES ASSUME rt # <<>> PROVE tail' = rt[L - 1]
    OBVIOUS
  <2>1. L - 1 # 0
    BY <1>16, EmptySeq
  <2>2. CASE m = L
    <3>1. m # 1
      BY <2>1, <2>2
    <3> QED
      BY <3>1, <2>1, <2>2, <1>8, <1>9, <1>12, <1>17
  <2>3. CASE m # L
    <3>1. rt[L - 1] = rs[L]
      BY <2>1, <2>3, <1>12, <1>17
    <3> QED
      BY <3>1, <2>3, <1>9, <1>7
  <2> QED
    BY <2>2, <2>3
<1>26. RootList(rt)'
  BY <1>16, <1>19, <1>20, <1>22, <1>23, <1>24, <1>25 DEF RootList
<1> QED
  BY <1>18, <1>26

\* process_arp_waiting: a root and its children leave.
LEMMA ReleaseShape ==
  ASSUME NEW rs, NEW ch, NEW fr, PoolShape(rs, ch, fr), NEW h \in PoolHops, Pool!Release(h)
  PROVE  \E r, rt, fl :
           /\ r \in DOMAIN root
           /\ root[r].hop = h
           /\ sent' = Pool!PacketsFor(h)
           /\ PoolShape(rt, ch, fl)'
           /\ DOMAIN root' = DOMAIN root \ {r}
           /\ \A s \in DOMAIN root' : root'[s].hop = root[s].hop
           /\ \A x \in DOMAIN node' : node'[x] = node[x]
<1>1. /\ PoolTypes /\ RootList(rs) /\ ChainLists(ch) /\ FreeList(fr) /\ OneRoot /\ OneNode
      /\ PoolRead(rs, ch, fr)
  BY ShapeRead DEF PoolShape
<1>2. Pool!HasRoot(h) /\ sent' = Pool!PacketsFor(h)
      /\ Pool!FreeParent(Pool!FindNode(h), Tail(Pool!Chain(Pool!FindNode(h))))
  BY DEF Pool!Release
<1>3. PICK r \in DOMAIN root : root[r].hop = h
  BY <1>1, <1>2 DEF PoolRead
<1>4. Pool!FindNode(h) = r /\ Pool!Chain(r) = ch[r]
      /\ Pool!PacketsFor(h) = [i \in 1 .. Len(ch[r]) |-> node[ch[r][i]]]
  BY <1>1, <1>3 DEF PoolRead
<1>5. Pool!FreeParent(r, Tail(ch[r]))
  BY <1>2, <1>4
<1>6. /\ DOMAIN node' = {x \in DOMAIN node : \A k \in 1 .. Len(ch[r]) : ch[r][k] # x}
      /\ node' \in [DOMAIN node' -> Packets] /\ \A x \in DOMAIN node' : node'[x] = node[x]
      /\ DOMAIN root' = DOMAIN root \ {r} /\ \A s \in DOMAIN root' : root'[s] = root[s]
      /\ root' \in [DOMAIN root' -> [hop : PoolHops, kids : Nat, tail : Nodes]]
      /\ free' = r /\ child' = child
  BY <1>1, <1>5, NodesReleased
<1>7. PICK fl : FreeList(fl)'
  BY <1>1, <1>5, ReleaseFree
<1>8. PICK rt : RootList(rt)'
  BY <1>1, <1>5, ReleaseRoots
<1>9. ASSUME NEW s \in DOMAIN root', NEW i \in 1 .. Len(ch[s]) PROVE ch[s][i] \in DOMAIN node'
  <2>1. s \in DOMAIN root /\ s # r /\ ch[s][i] \in DOMAIN node
    BY <1>1, <1>6, <1>9 DEF ChainLists
  <2>2. \A k \in 1 .. Len(ch[r]) : ch[r][k] # ch[s][i]
    BY <2>1, <1>1, <1>9 DEF ChainLists
  <2> QED
    BY <2>1, <2>2, <1>6
<1>10. ASSUME NEW x \in DOMAIN node' PROVE \E s \in DOMAIN root' : \E i \in 1 .. Len(ch[s]) : ch[s][i] = x
  <2>1. PICK s \in DOMAIN root : \E i \in 1 .. Len(ch[s]) : ch[s][i] = x
    BY <1>1, <1>6, <1>10 DEF ChainLists
  <2>2. s # r
    BY <2>1, <1>6, <1>10
  <2> QED
    BY <2>1, <2>2, <1>6
<1>11. ChainLists(ch)'
  <2>1. \A s \in DOMAIN root' :
              /\ Listed(ch[s], s, child')
              /\ Len(ch[s]) = root'[s].kids + 1 /\ ch[s][Len(ch[s])] = root'[s].tail
              /\ \A i \in 1 .. Len(ch[s]) : ch[s][i] \in DOMAIN node'
    <3> SUFFICES ASSUME NEW s \in DOMAIN root'
                 PROVE  /\ Listed(ch[s], s, child')
                        /\ Len(ch[s]) = root'[s].kids + 1 /\ ch[s][Len(ch[s])] = root'[s].tail
                        /\ \A i \in 1 .. Len(ch[s]) : ch[s][i] \in DOMAIN node'
      OBVIOUS
    <3>1. s \in DOMAIN root /\ root'[s] = root[s] /\ child' = child
      BY <1>6
    <3> QED
      BY <3>1, <1>1, <1>9 DEF ChainLists
  <2>2. \A s, q \in DOMAIN root' : \A i \in 1 .. Len(ch[s]), j \in 1 .. Len(ch[q]) :
              ch[s][i] = ch[q][j] => s = q /\ i = j
    BY <1>1, <1>6 DEF ChainLists
  <2>3. \A x \in DOMAIN node' : \E s \in DOMAIN root' : \E i \in 1 .. Len(ch[s]) : ch[s][i] = x
    BY <1>10
  <2> QED
    BY ONLY <2>1, <2>2, <2>3 DEF ChainLists, Listed
<1>12. PoolTypes'
  <2>1. head' \in 0 .. PoolCapacity /\ tail' \in Nodes /\ prev' \in [Nodes -> Nodes]
    BY <1>1, <1>5, ReleaseRoots
  <2>2. size' \in Nat
    BY <1>1, <1>5, ReleaseFree
  <2>3. next' \in [Nodes -> 0 .. PoolCapacity]
    BY <1>1, <1>5, ReleaseNext DEF NextReleased
  <2>4. sent' \in Seq(Packets)
    <3>1. Len(ch[r]) \in Nat /\ \A i \in 1 .. Len(ch[r]) : ch[r][i] \in DOMAIN node
      BY <1>1, ChainFacts
    <3>2. sent' \in [1 .. Len(ch[r]) -> Packets]
      BY <3>1, <1>1, <1>2, <1>4 DEF PoolTypes
    <3> QED
      BY <3>1, <3>2, SeqDef
  <2>5. DOMAIN root' \subseteq DOMAIN node'
    <3>1. \A s \in DOMAIN root' : 1 \in 1 .. Len(ch[s]) /\ ch[s][1] = s
      BY <1>1, <1>6, ChainFacts
    <3> QED
      BY <3>1, <1>9
  <2>6. DOMAIN node' \subseteq Nodes /\ free' \in 0 .. PoolCapacity
    BY <1>1, <1>6, NodesFacts DEF PoolTypes
  <2> QED
    BY <2>1, <2>2, <2>3, <2>4, <2>5, <2>6, <1>1, <1>6 DEF PoolTypes
<1>13. OneRoot' /\ OneNode'
  <2>1. OneRoot'
    BY <1>1, <1>6 DEF OneRoot
  <2>2. OneNode'
    BY <1>1, <1>6 DEF OneNode
  <2> QED
    BY <2>1, <2>2
<1>14. PoolShape(rt, ch, fl)'
  BY <1>7, <1>8, <1>11, <1>12, <1>13 DEF PoolShape
<1>15. \A s \in DOMAIN root' : root'[s].hop = root[s].hop
  BY <1>6
<1> QED
  BY <1>2, <1>3, <1>6, <1>14, <1>15

-----------------------------------------------------------------------------
(* Each operation is one of the abstract queue.                            *)

\* The packets for each next hop, as sequences.
LEMMA PacketsSeq ==
  ASSUME NEW rs, NEW ch, NEW fr, PoolShape(rs, ch, fr), NEW h PROVE Pool!PacketsFor(h) \in Seq(Packets)
<1>1. PoolRead(rs, ch, fr) /\ PoolTypes /\ ChainLists(ch)
  BY ShapeRead DEF PoolShape
<1>2. CASE \A r \in DOMAIN root : root[r].hop # h
  <2>1. Pool!PacketsFor(h) = <<>>
    BY <1>1, <1>2 DEF PoolRead
  <2> QED
    BY <2>1
<1>3. ASSUME NEW r \in DOMAIN root, root[r].hop = h PROVE Pool!PacketsFor(h) \in Seq(Packets)
  <2>1. Pool!PacketsFor(h) = [i \in 1 .. Len(ch[r]) |-> node[ch[r][i]]]
    BY <1>1, <1>3 DEF PoolRead
  <2>2. Len(ch[r]) \in Nat /\ \A i \in 1 .. Len(ch[r]) : ch[r][i] \in DOMAIN node
    BY <1>1, ChainFacts
  <2>3. Pool!PacketsFor(h) \in [1 .. Len(ch[r]) -> Packets]
    BY <2>1, <2>2, <1>1 DEF PoolTypes
  <2> QED
    BY <2>2, <2>3, SeqDef
<1> QED
  BY <1>2, <1>3

LEMMA ChildWaits ==
  ASSUME NEW rs, NEW ch, NEW fr, PoolShape(rs, ch, fr), NEW h \in PoolHops, NEW p \in Packets,
         Pool!PushChild(h, p)
  PROVE  PoolIInv' /\ Waiting!Wait(h, p)
<1>1. PICK r, d :
         /\ r \in DOMAIN root
         /\ root[r].hop = h
         /\ d = [s \in DOMAIN root |-> IF s = r THEN Append(ch[r], free) ELSE ch[s]]
         /\ PoolShape(rs, d, Tail(fr))'
         /\ DOMAIN root' = DOMAIN root /\ \A s \in DOMAIN root : root'[s].hop = root[s].hop
  BY ChildShape
<1>2. PoolIInv'
  BY <1>1 DEF PoolIInv
<1>3. PoolRead(rs, ch, fr) /\ PoolTypes /\ ChainLists(ch)
  BY ShapeRead DEF PoolShape
<1>4. PoolRead(rs, d, Tail(fr))'
  BY <1>1, ShapeReadNext
<1>5. /\ node'[free] = p /\ \A x \in DOMAIN node : node'[x] = node[x] /\ node[x] # p
      /\ size < PoolCapacity /\ sent' = <<>>
  <2>1. Pool!TakeNode(p)
    BY DEF Pool!PushChild, Pool!ChildOf
  <2> QED
    BY <2>1, NodeTaken
<1>6. ASSUME NEW g \in PoolHops, g # h PROVE Pool!PacketsFor(g)' = Pool!PacketsFor(g)
  <2>1. CASE \A s \in DOMAIN root : root[s].hop # g
    <3>1. \A s \in DOMAIN root' : root'[s].hop # g
      BY <2>1, <1>1
    <3> QED
      BY <2>1, <3>1, <1>3, <1>4 DEF PoolRead
  <2>2. ASSUME NEW s \in DOMAIN root, root[s].hop = g PROVE Pool!PacketsFor(g)' = Pool!PacketsFor(g)
    <3>1. s # r /\ d[s] = ch[s] /\ s \in DOMAIN root' /\ root'[s].hop = g
      BY <2>2, <1>1, <1>6
    <3>2. Pool!PacketsFor(g)' = [i \in 1 .. Len(ch[s]) |-> node'[ch[s][i]]]
      BY <3>1, <1>4 DEF PoolRead
    <3>3. Pool!PacketsFor(g) = [i \in 1 .. Len(ch[s]) |-> node[ch[s][i]]]
      BY <2>2, <1>3 DEF PoolRead
    <3>4. \A i \in 1 .. Len(ch[s]) : node'[ch[s][i]] = node[ch[s][i]]
      BY <1>3, <1>5, ChainFacts
    <3> QED
      BY <3>2, <3>3, <3>4
  <2> QED
    BY <2>1, <2>2
<1>7. Pool!PacketsFor(h)' = Append(Pool!PacketsFor(h), p)
  <2> DEFINE n == Len(ch[r])
  <2>1. /\ ch[r] \in Seq(Nodes) /\ n \in Nat
        /\ \A i \in 1 .. n : ch[r][i] \in DOMAIN node
    BY <1>1, <1>3, ChainFacts
  <2>2. d[r] = Append(ch[r], free) /\ r \in DOMAIN root' /\ root'[r].hop = h
    BY <1>1
  <2>3. free \in Nodes
    <3>1. Pool!TakeNode(p)
      BY DEF Pool!PushChild, Pool!ChildOf
    <3> QED
      BY <3>1, NodeTaken
  <2>4. Len(d[r]) = n + 1 /\ d[r][n + 1] = free /\ \A i \in 1 .. n : d[r][i] = ch[r][i]
    BY <2>1, <2>2, <2>3, AppendProperties
  <2> HIDE DEF n
  <2>5. Pool!PacketsFor(h)' = [i \in 1 .. n + 1 |-> node'[d[r][i]]]
    <3>1. \A g, t : t \in DOMAIN root' /\ root'[t].hop = g
                   => Pool!PacketsFor(g)' = [i \in 1 .. Len(d[t]) |-> node'[d[t][i]]]
      BY <1>4 DEF PoolRead
    <3>2. Pool!PacketsFor(h)' = [i \in 1 .. Len(d[r]) |-> node'[d[r][i]]]
      BY <2>2, <3>1
    <3> QED
      BY <2>4, <3>2
  <2>6. Pool!PacketsFor(h) = [i \in 1 .. n |-> node[ch[r][i]]]
    BY <1>1, <1>3 DEF PoolRead, n
  <2>7. Pool!PacketsFor(h) \in Seq(Packets) /\ Len(Pool!PacketsFor(h)) = n
    BY <2>1, <2>6, PacketsSeq
  <2> DEFINE q == Append(Pool!PacketsFor(h), p)
  <2>8. /\ q \in Seq(Packets) /\ Len(q) = n + 1 /\ q[n + 1] = p
        /\ \A i \in 1 .. n : q[i] = Pool!PacketsFor(h)[i]
    BY <2>7, AppendProperties
  <2>9. q = [i \in 1 .. n + 1 |-> q[i]]
    BY <2>8, LenProperties
  <2>10. \A i \in 1 .. n + 1 : q[i] = node'[d[r][i]]
    <3> SUFFICES ASSUME NEW i \in 1 .. n + 1 PROVE q[i] = node'[d[r][i]]
      OBVIOUS
    <3>1. CASE i = n + 1
      BY <3>1, <2>4, <2>8, <1>5
    <3>2. CASE i # n + 1
      <4>1. i \in 1 .. n
        BY <3>2, <2>1
      <4>2. q[i] = node[ch[r][i]] /\ d[r][i] = ch[r][i]
        BY <4>1, <2>4, <2>6, <2>8
      <4> QED
        BY <4>1, <4>2, <2>1, <1>5
    <3> QED
      BY <3>1, <3>2
  <2> HIDE DEF q
  <2>11. q = Pool!PacketsFor(h)'
    BY <2>5, <2>9, <2>10
  <2> QED
    BY <2>11 DEF q
<1>8. Waiting!NumWaiting < PoolCapacity /\ ~Waiting!IsWaiting(p)
  BY <1>5, WhoWaits
<1>9. [g \in PoolHops |-> Pool!PacketsFor(g)]'
      = [[g \in PoolHops |-> Pool!PacketsFor(g)] EXCEPT ![h] = Append(@, p)]
  BY <1>6, <1>7
<1> QED
  BY <1>2, <1>5, <1>8, <1>9 DEF Waiting!Wait

LEMMA PushWaits ==
  ASSUME NEW rs, NEW ch, NEW fr, PoolShape(rs, ch, fr), NEW h \in PoolHops, NEW p \in Packets,
         Pool!Push(h, p)
  PROVE  PoolIInv' /\ Waiting!Wait(h, p)
<1>1. PICK r, rt, d :
         /\ r \in Nodes \ DOMAIN node
         /\ r = free
         /\ \A s \in DOMAIN root : root[s].hop # h
         /\ d = [s \in DOMAIN root \cup {r} |-> IF s = r THEN <<r>> ELSE ch[s]]
         /\ PoolShape(rt, d, Tail(fr))'
         /\ DOMAIN root' = DOMAIN root \cup {r} /\ root'[r].hop = h
         /\ \A s \in DOMAIN root : root'[s].hop = root[s].hop
  BY PushShape
<1>2. PoolIInv'
  BY <1>1 DEF PoolIInv
<1>3. PoolRead(rs, ch, fr) /\ PoolTypes /\ ChainLists(ch)
  BY ShapeRead DEF PoolShape
<1>4. PoolRead(rt, d, Tail(fr))'
  BY <1>1, ShapeReadNext
<1>5. /\ node'[free] = p /\ \A x \in DOMAIN node : node'[x] = node[x] /\ node[x] # p
      /\ size < PoolCapacity /\ sent' = <<>>
  <2>1. Pool!TakeNode(p)
    BY DEF Pool!Push
  <2> QED
    BY <2>1, NodeTaken
<1>6. ASSUME NEW g \in PoolHops, g # h PROVE Pool!PacketsFor(g)' = Pool!PacketsFor(g)
  <2>1. CASE \A s \in DOMAIN root : root[s].hop # g
    <3>1. \A s \in DOMAIN root' : root'[s].hop # g
      BY <2>1, <1>1, <1>6
    <3> QED
      BY <2>1, <3>1, <1>3, <1>4 DEF PoolRead
  <2>2. ASSUME NEW s \in DOMAIN root, root[s].hop = g PROVE Pool!PacketsFor(g)' = Pool!PacketsFor(g)
    <3>1. s # r /\ d[s] = ch[s] /\ s \in DOMAIN root' /\ root'[s].hop = g
      BY <2>2, <1>1, <1>3 DEF PoolTypes
    <3>2. Pool!PacketsFor(g)' = [i \in 1 .. Len(ch[s]) |-> node'[ch[s][i]]]
      BY <3>1, <1>4 DEF PoolRead
    <3>3. Pool!PacketsFor(g) = [i \in 1 .. Len(ch[s]) |-> node[ch[s][i]]]
      BY <2>2, <1>3 DEF PoolRead
    <3>4. \A i \in 1 .. Len(ch[s]) : node'[ch[s][i]] = node[ch[s][i]]
      BY <1>3, <1>5, ChainFacts
    <3> QED
      BY <3>2, <3>3, <3>4
  <2> QED
    BY <2>1, <2>2
<1>7. Pool!PacketsFor(h)' = Append(Pool!PacketsFor(h), p)
  <2>1. Pool!PacketsFor(h) = <<>>
    BY <1>1, <1>3 DEF PoolRead
  <2>2. d[r] = <<r>> /\ r \in DOMAIN root' /\ root'[r].hop = h
    BY <1>1
  <2>3. Pool!PacketsFor(h)' = [i \in 1 .. 1 |-> node'[<<r>>[i]]]
    <3>1. Len(d[r]) = 1
      BY <2>2
    <3>2. \A g, q : q \in DOMAIN root' /\ root'[q].hop = g =>
            Pool!PacketsFor(g)' = [i \in 1 .. Len(d[q]) |-> node'[d[q][i]]]
      BY <1>4 DEF PoolRead
    <3>3. Pool!PacketsFor(h)' = [i \in 1 .. Len(d[r]) |-> node'[d[r][i]]]
      BY <2>2, <3>2
    <3> QED
      BY <2>2, <3>1, <3>3
  <2>4. \A i \in 1 .. 1 : node'[<<r>>[i]] = p
    BY <1>1, <1>5
  <2>5. Append(<<>>, p) = [i \in 1 .. 1 |-> p]
    OBVIOUS
  <2> QED
    BY <2>1, <2>3, <2>4, <2>5
<1>8. Waiting!NumWaiting < PoolCapacity /\ ~Waiting!IsWaiting(p)
  BY <1>5, WhoWaits
<1>9. [g \in PoolHops |-> Pool!PacketsFor(g)]'
      = [[g \in PoolHops |-> Pool!PacketsFor(g)] EXCEPT ![h] = Append(@, p)]
  BY <1>6, <1>7
<1> QED
  BY <1>2, <1>5, <1>8, <1>9 DEF Waiting!Wait

LEMMA ReleaseLeaves ==
  ASSUME NEW rs, NEW ch, NEW fr, PoolShape(rs, ch, fr), NEW h \in PoolHops, Pool!Release(h)
  PROVE  PoolIInv' /\ Waiting!Release(h)
<1>1. PICK r, rt, fl :
         /\ r \in DOMAIN root
         /\ root[r].hop = h
         /\ sent' = Pool!PacketsFor(h)
         /\ PoolShape(rt, ch, fl)'
         /\ DOMAIN root' = DOMAIN root \ {r}
         /\ \A s \in DOMAIN root' : root'[s].hop = root[s].hop
         /\ \A x \in DOMAIN node' : node'[x] = node[x]
  BY ReleaseShape
<1>2. PoolIInv'
  BY <1>1 DEF PoolIInv
<1>3. PoolRead(rs, ch, fr) /\ PoolTypes /\ ChainLists(ch) /\ OneRoot
  BY ShapeRead DEF PoolShape
<1>4. PoolRead(rt, ch, fl)' /\ ChainLists(ch)'
  BY <1>1, ShapeReadNext DEF PoolShape
<1>5. ASSUME NEW g \in PoolHops, g # h PROVE Pool!PacketsFor(g)' = Pool!PacketsFor(g)
  <2>1. CASE \A s \in DOMAIN root : root[s].hop # g
    <3>1. \A s \in DOMAIN root' : root'[s].hop # g
      BY <2>1, <1>1
    <3> QED
      BY <2>1, <3>1, <1>3, <1>4 DEF PoolRead
  <2>2. ASSUME NEW s \in DOMAIN root, root[s].hop = g PROVE Pool!PacketsFor(g)' = Pool!PacketsFor(g)
    <3>1. s \in DOMAIN root' /\ root'[s].hop = g
      BY <2>2, <1>1, <1>5
    <3>2. Pool!PacketsFor(g)' = [i \in 1 .. Len(ch[s]) |-> node'[ch[s][i]]]
      BY <3>1, <1>4 DEF PoolRead
    <3>3. Pool!PacketsFor(g) = [i \in 1 .. Len(ch[s]) |-> node[ch[s][i]]]
      BY <2>2, <1>3 DEF PoolRead
    <3>4. \A i \in 1 .. Len(ch[s]) : node'[ch[s][i]] = node[ch[s][i]]
      BY <3>1, <1>1, <1>4 DEF ChainLists
    <3> QED
      BY <3>2, <3>3, <3>4
  <2> QED
    BY <2>1, <2>2
<1>6. Pool!PacketsFor(h)' = <<>>
  <2>1. \A s \in DOMAIN root' : root'[s].hop # h
    BY <1>1, <1>3 DEF OneRoot
  <2> QED
    BY <2>1, <1>4 DEF PoolRead
<1>7. Pool!PacketsFor(h) # <<>>
  <2>1. Pool!PacketsFor(h) = [i \in 1 .. Len(ch[r]) |-> node[ch[r][i]]]
    BY <1>1, <1>3 DEF PoolRead
  <2>2. Len(ch[r]) \in Nat \ {0}
    BY <1>1, <1>3, ChainFacts
  <2>3. 1 \in DOMAIN Pool!PacketsFor(h)
    BY <2>1, <2>2
  <2> QED
    BY <2>3
<1>8. [g \in PoolHops |-> Pool!PacketsFor(g)]'
      = [[g \in PoolHops |-> Pool!PacketsFor(g)] EXCEPT ![h] = <<>>]
  BY <1>5, <1>6
<1> QED
  BY <1>1, <1>2, <1>7, <1>8 DEF Waiting!Release

-----------------------------------------------------------------------------
(* The pool implements the queues.                                         *)

\* At the start all nodes are free.
LEMMA PoolStarts == Pool!Init => PoolIInv /\ Waiting!Init
<1> SUFFICES ASSUME Pool!Init PROVE PoolIInv /\ Waiting!Init
  OBVIOUS
<1>1. /\ next = [i \in Nodes |-> i + 1] /\ prev = [i \in Nodes |-> 0] /\ child = [i \in Nodes |-> 0]
      /\ node = <<>> /\ root = <<>> /\ size = 0 /\ head = 0 /\ tail = 0 /\ free = 0 /\ sent = <<>>
  BY DEF Pool!Init, Nodes
<1>2. DOMAIN root = {} /\ DOMAIN node = {}
  BY <1>1
<1>3. PoolTypes
  <2>1. next \in [Nodes -> 0 .. PoolCapacity]
    BY <1>1, NodesFacts
  <2>2. 0 \in Nodes /\ 0 \in 0 .. PoolCapacity
    BY NodesFacts
  <2>3. root \in [DOMAIN root -> [hop : PoolHops, kids : Nat, tail : Nodes]] /\ node \in [DOMAIN node -> Packets]
    BY <1>1, <1>2
  <2>4. sent \in Seq(Packets)
    BY <1>1
  <2>5. prev \in [Nodes -> Nodes] /\ child \in [Nodes -> Nodes]
    BY <1>1, <2>2
  <2> QED
    BY <1>1, <1>2, <2>1, <2>2, <2>3, <2>4, <2>5 DEF PoolTypes
<1>4. RootList(<<>>)
  BY <1>1, <1>2 DEF RootList, Listed, Distinct
<1>5. ChainLists(<<>>)
  BY <1>2 DEF ChainLists
<1>6. PICK fr : fr = [i \in 1 .. PoolCapacity |-> i - 1]
  OBVIOUS
<1>7. fr \in Seq(Nodes) /\ Len(fr) = PoolCapacity /\ fr[1] = 0
  <2>1. fr \in [1 .. PoolCapacity -> Nodes]
    BY <1>6, NodesFacts
  <2>2. PoolCapacity \in Nat /\ 1 \in 1 .. PoolCapacity
    BY NodesFacts
  <2>3. fr \in Seq(Nodes)
    BY <2>1, <2>2, SeqDef
  <2> QED
    BY <1>6, <2>2, <2>3
<1>8. \A i \in 1 .. PoolCapacity - 1 : next[fr[i]] = fr[i + 1]
  <2> SUFFICES ASSUME NEW i \in 1 .. PoolCapacity - 1 PROVE next[fr[i]] = fr[i + 1]
    OBVIOUS
  <2>1. i \in 1 .. PoolCapacity /\ i + 1 \in 1 .. PoolCapacity /\ i - 1 \in Nodes
        /\ (i - 1) + 1 = i /\ (i + 1) - 1 = i
    BY NodesFacts
  <2> QED
    BY <2>1, <1>1, <1>6
<1>9. FreeList(fr)
  <2>1. Listed(fr, free, next)
    BY <1>1, <1>7, <1>8 DEF Listed
  <2>2. Distinct(fr)
    BY <1>6, <1>7, NodesFacts DEF Distinct
  <2>3. ASSUME NEW c \in Nodes PROVE \E i \in 1 .. Len(fr) : fr[i] = c
    <3>1. c + 1 \in 1 .. PoolCapacity /\ (c + 1) - 1 = c
      BY NodesFacts
    <3> QED
      BY <3>1, <1>6, <1>7
  <2>4. Len(fr) = PoolCapacity - size
    BY <1>1, <1>7, NodesFacts
  <2> QED
    BY <2>1, <2>2, <2>3, <2>4, <1>2 DEF FreeList
<1>10. PoolShape(<<>>, <<>>, fr)
  BY <1>2, <1>3, <1>4, <1>5, <1>9 DEF PoolShape, OneRoot, OneNode
<1>11. \A h : Pool!PacketsFor(h) = <<>>
  BY <1>2, <1>10, ShapeRead DEF PoolRead
<1> QED
  BY <1>1, <1>10, <1>11 DEF PoolIInv, Waiting!Init

LEMMA PoolStep == PoolIInv /\ Pool!Next => PoolIInv' /\ Waiting!Next
<1> SUFFICES ASSUME PoolIInv, Pool!Next PROVE PoolIInv' /\ Waiting!Next
  OBVIOUS
<1>1. PICK rs, ch, fr : PoolShape(rs, ch, fr)
  BY DEF PoolIInv
<1>2. PICK h \in PoolHops : \/ Pool!Release(h)
                            \/ \E p \in Packets : Pool!Push(h, p) \/ Pool!PushChild(h, p)
  BY DEF Pool!Next
<1>3. CASE Pool!Release(h)
  BY <1>1, <1>3, ReleaseLeaves DEF Waiting!Next
<1>4. ASSUME NEW p \in Packets, Pool!Push(h, p) PROVE PoolIInv' /\ Waiting!Next
  BY <1>1, <1>4, PushWaits DEF Waiting!Next
<1>5. ASSUME NEW p \in Packets, Pool!PushChild(h, p) PROVE PoolIInv' /\ Waiting!Next
  BY <1>1, <1>5, ChildWaits DEF Waiting!Next
<1> QED
  BY <1>2, <1>3, <1>4, <1>5

THEOREM PoolInvariance == SpecAll => []PoolIInv
<1>1. InitAll => PoolIInv
  BY PoolStarts DEF InitAll
<1>2. PoolIInv /\ [NextAll]_<<part, vars, queueVars, routes>> => PoolIInv'
  <2> SUFFICES ASSUME PoolIInv, [NextAll]_<<part, vars, queueVars, routes>> PROVE PoolIInv'
    OBVIOUS
  <2>1. CASE Pool!Next
    BY <2>1, PoolStep
  <2>2. CASE UNCHANGED queueVars
    <3>1. PICK rs, ch, fr : PoolShape(rs, ch, fr)
      BY DEF PoolIInv
    <3>2. PoolTypes /\ RootList(rs) /\ ChainLists(ch) /\ FreeList(fr) /\ OneRoot /\ OneNode
      BY <3>1 DEF PoolShape
    <3>3. PoolTypes'
      BY <2>2, <3>2 DEF PoolTypes, queueVars
    <3>4. RootList(rs)'
      BY <2>2, <3>2 DEF RootList, queueVars
    <3>5. ChainLists(ch)'
      BY <2>2, <3>2 DEF ChainLists, queueVars
    <3>6. FreeList(fr)'
      BY <2>2, <3>2 DEF FreeList, queueVars
    <3>7. OneRoot' /\ OneNode'
      <4>1. root' = root /\ node' = node
        BY <2>2 DEF queueVars
      <4>2. OneRoot'
        BY <4>1, <3>2 DEF OneRoot
      <4>3. OneNode'
        BY <4>1, <3>2 DEF OneNode
      <4> QED
        BY <4>2, <4>3
    <3> QED
      BY <3>3, <3>4, <3>5, <3>6, <3>7 DEF PoolIInv, PoolShape
  <2> QED
    BY <2>1, <2>2 DEF NextAll
<1> QED
  BY <1>1, <1>2, PTL DEF SpecAll

\* A list holds no more nodes than there are.
LEMMA ListFits ==
  ASSUME NEW s \in Seq(Nodes), Distinct(s) PROVE Len(s) <= PoolCapacity
<1> DEFINE S == {s[i] : i \in 1 .. Len(s)}
<1>1. S \in SUBSET Nodes
  BY ElementOfSeq
<1>2. Cardinality(S) = Len(s)
  <2>1. \A i \in 1 .. Len(s) : s[i] \in S
    OBVIOUS
  <2>2. \A c \in S : \E i \in 1 .. Len(s) : s[i] = c
    OBVIOUS
  <2> HIDE DEF S
  <2> QED
    BY <1>1, <2>1, <2>2, ListCounts
<1>3. Cardinality(S) <= PoolCapacity
  BY <1>1, NodesFacts, FS_Subset
<1> QED
  BY <1>2, <1>3

LEMMA PoolCorrect == PoolIInv => Pool!TypeOK /\ Pool!PoolPartitioned
<1> SUFFICES ASSUME PoolIInv PROVE Pool!TypeOK /\ Pool!PoolPartitioned
  OBVIOUS
<1>1. PICK rs, ch, fr : PoolShape(rs, ch, fr)
  BY DEF PoolIInv
<1>2. PoolTypes /\ RootList(rs) /\ ChainLists(ch) /\ FreeList(fr) /\ PoolRead(rs, ch, fr)
  BY <1>1, ShapeRead DEF PoolShape
<1>3. size = Cardinality(DOMAIN node)
  BY <1>1, SizeCounts
<1>4. Pool!TypeOK
  <2>1. \A r \in DOMAIN root : root[r] \in [hop : PoolHops, kids : 0 .. PoolCapacity - 1, tail : Nodes]
    <3> SUFFICES ASSUME NEW r \in DOMAIN root
                 PROVE  root[r] \in [hop : PoolHops, kids : 0 .. PoolCapacity - 1, tail : Nodes]
      OBVIOUS
    <3>1. ch[r] \in Seq(Nodes) /\ Distinct(ch[r]) /\ Len(ch[r]) = root[r].kids + 1
      BY <1>2, ChainFacts DEF Distinct
    <3>2. root[r].kids + 1 <= PoolCapacity
      BY <3>1, ListFits
    <3>3. root[r] \in [hop : PoolHops, kids : Nat, tail : Nodes]
      BY <1>2 DEF PoolTypes
    <3>4. root[r].kids \in 0 .. PoolCapacity - 1
      BY <3>2, <3>3, NodesFacts
    <3> QED
      BY <3>3, <3>4
  <2>2. size \in 0 .. PoolCapacity
    <3>1. size \in Nat /\ Len(fr) = PoolCapacity - size /\ fr \in Seq(Nodes)
      BY <1>2 DEF PoolTypes, FreeList, Listed
    <3>2. Len(fr) \in Nat
      BY <3>1, LenProperties
    <3> QED
      BY <3>1, <3>2, NodesFacts
  <2>3. Pool!Range(root) \subseteq [hop : PoolHops, kids : 0 .. PoolCapacity - 1, tail : Nodes]
    BY <2>1 DEF Pool!Range
  <2>4. Pool!Range(node) \subseteq Packets
    BY <1>2 DEF Pool!Range, PoolTypes
  <2> QED
    BY <2>2, <2>3, <2>4, <1>2 DEF Pool!TypeOK, PoolTypes, Nodes
<1>5. Pool!PoolPartitioned
  <2>1. /\ DOMAIN rs = 1 .. Len(rs) /\ DOMAIN fr = 1 .. Len(fr)
        /\ \A r \in DOMAIN root : DOMAIN ch[r] = 1 .. Len(ch[r])
    BY <1>2, LenProperties DEF RootList, FreeList, ChainLists, Listed
  <2>2. Pool!IsInjective(rs) /\ Pool!Range(rs) = DOMAIN root
    <3>1. \A i, k \in DOMAIN rs : rs[i] = rs[k] => i = k
      BY <1>2, <2>1 DEF RootList, Distinct
    <3>2. \A i \in DOMAIN rs : rs[i] \in DOMAIN root
      BY <1>2, <2>1 DEF RootList
    <3>3. \A r \in DOMAIN root : \E i \in DOMAIN rs : rs[i] = r
      BY <1>2, <2>1 DEF RootList
    <3> QED
      BY ONLY <3>1, <3>2, <3>3 DEF Pool!IsInjective, Pool!Range
  <2>3. \A r \in DOMAIN root : \A i \in DOMAIN ch[r] : ch[r][i] \in DOMAIN node
    BY <1>2, <2>1 DEF ChainLists
  <2>4. \A r, s \in DOMAIN root : \A i \in DOMAIN ch[r], k \in DOMAIN ch[s] :
              ch[r][i] = ch[s][k] => r = s /\ i = k
    <3>1. \A r, s \in DOMAIN root : \A i \in 1 .. Len(ch[r]), k \in 1 .. Len(ch[s]) :
              ch[r][i] = ch[s][k] => r = s /\ i = k
      BY <1>2 DEF ChainLists
    <3>2. \A r \in DOMAIN root : DOMAIN ch[r] = 1 .. Len(ch[r])
      BY <2>1
    <3> QED
      BY ONLY <3>1, <3>2
  <2>5. \A c \in DOMAIN node : \E r \in DOMAIN root : \E i \in DOMAIN ch[r] : ch[r][i] = c
    BY <1>2, <2>1 DEF ChainLists
  <2>6. \A r \in DOMAIN root : Pool!IsInjective(ch[r])
    BY ONLY <2>4 DEF Pool!IsInjective
  <2>7. \A r, s \in DOMAIN root : r # s => Pool!Range(ch[r]) \cap Pool!Range(ch[s]) = {}
    BY ONLY <2>4 DEF Pool!Range
  <2>8. UNION {Pool!Range(ch[r]) : r \in DOMAIN root} = DOMAIN node
    <3>1. \A r \in DOMAIN root : Pool!Range(ch[r]) \subseteq DOMAIN node
      BY ONLY <2>3 DEF Pool!Range
    <3>2. \A c \in DOMAIN node : \E r \in DOMAIN root : c \in Pool!Range(ch[r])
      BY ONLY <2>5 DEF Pool!Range
    <3> QED
      BY ONLY <3>1, <3>2
  <2>9. Pool!IsInjective(fr) /\ Pool!Range(fr) = Nodes \ DOMAIN node
    <3>1. Pool!IsInjective(fr)
      BY <1>2, <2>1 DEF FreeList, Distinct, Pool!IsInjective
    <3>2. \A i \in 1 .. Len(fr) : fr[i] \in Nodes \ DOMAIN node
      BY <1>2, ElementOfSeq DEF FreeList, Listed
    <3> QED
      BY <3>1, <3>2, <1>2, <2>1 DEF FreeList, Pool!Range
  <2>10. size = Pool!Cardinality(DOMAIN node)
    BY <1>3, PoolCardinality
  <2>11. Pool!Roots = rs /\ Pool!FreeNodes = fr /\ \A r \in DOMAIN root : Pool!Chain(r) = ch[r]
    BY <1>2 DEF PoolRead
  <2>12. UNION {Pool!Range(Pool!Chain(r)) : r \in DOMAIN root} = DOMAIN node
    BY <2>8, <2>11
  <2> QED
    BY <2>2, <2>6, <2>7, <2>9, <2>10, <2>11, <2>12 DEF Pool!PoolPartitioned, Nodes
<1> QED
  BY <1>4, <1>5

\* The pool of nodes implements the waiting packets of WaitingPackets, for any
\* number of nodes: packets leave in the order they came, and none is lost,
\* duplicated or sent elsewhere (examples/firewall/routing/packet_queue.c).
THEOREM PoolRefines == SpecAll => PoolImplementsQueue
<1>1. InitAll => Waiting!Init
  BY PoolStarts DEF InitAll
<1>2. PoolIInv /\ [NextAll]_<<part, vars, queueVars, routes>>
      => [part # "pool" \/ Waiting!Next]_queueVars
  <2> SUFFICES ASSUME PoolIInv, [NextAll]_<<part, vars, queueVars, routes>>
               PROVE  [part # "pool" \/ Waiting!Next]_queueVars
    OBVIOUS
  <2>1. CASE Pool!Next
    BY <2>1, PoolStep
  <2>2. CASE UNCHANGED queueVars
    BY <2>2
  <2> QED
    BY <2>1, <2>2 DEF NextAll
<1>3. PoolIInv => (part = "pool" => Pool!TypeOK /\ Pool!PoolPartitioned)
  BY PoolCorrect
<1> QED
  BY <1>1, <1>2, <1>3, PoolInvariance, PTL DEF SpecAll, PoolImplementsQueue
=============================================================================
