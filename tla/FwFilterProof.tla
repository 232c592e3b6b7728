--------------------------- MODULE FwFilterProof ---------------------------
(***************************************************************************)
(* What holds of the packet filters for any number of filters, any width   *)
(* of an address, any rules, packets and capacities; and of the way of a   *)
(* buffer (FwBuffers), whichever components a behaviour looks at.          *)
(***************************************************************************)
EXTENDS FwFilter, FwBuffers, FiniteSetTheorems, SequenceTheorems, WellFoundedInduction, TLAPS

Rules == [id : RuleIds, action : Actions, src : Nets, dst : Nets,
          sport : Ports \cup {AnyPort}, dport : Ports \cup {AnyPort}]
Instances == [rule : RuleIds, sip : Addresses, sport : Ports, dip : Addresses, dport : Ports]

TypeOK ==
    /\ rules \in [Filters -> Seq(Rules)]
    /\ ids \in [Filters -> SUBSET RuleIds] /\ lastId \in [Filters -> RuleIds]
    /\ instances \in [Filters -> Seq(Instances)]
    /\ pc \in [Filters -> {"idle", "scan", "decide", "remove", "moving"}]
    /\ pkt \in [Filters -> Packets \cup {NoPacket}]
    /\ unread \in [Filters -> Seq(Filters)]
    /\ pos \in [Filters -> Nat \ {0}]
    /\ goneId \in [Filters -> RuleIds]
    /\ verdict \in [Filters -> Actions \cup {"none", "established"}]
    /\ seen \in [Filters -> BOOLEAN] /\ steady \in [Filters -> BOOLEAN] /\ raced \in [Filters -> BOOLEAN]

\* A rule table and the ids it holds: each rule has an id of its own, the first is
\* the default rule, which matches every packet, and no two clash, which is what
\* keeps them from tying.
TableExact(table, known) ==
    /\ {table[i].id : i \in DOMAIN table} = known
    /\ \A i, j \in DOMAIN table : table[i].id = table[j].id => i = j
    /\ Len(table) >= 1 /\ table[1] = Default(table[1].action)
    /\ \A i, j \in DOMAIN table : Clash(table[i], table[i].action, table[j]) => i = j

Owns(table, inst) == \E j \in DOMAIN table : table[j].id = inst.rule /\ table[j].action = "connect"

TablesFit(f) ==
    /\ TableExact(rules[f], ids[f] \cup Leaving(f))
    /\ Len(rules[f]) <= RulesCapacity /\ Len(instances[f]) <= InstancesCapacity

\* While an entry is overwritten every other one has its rule.
AllOwned(f) ==
    \A i \in DOMAIN instances[f] : ~(pc[f] = "moving" /\ i = pos[f]) => Owns(rules[f], instances[f][i])

\* A removal leaves none of its instances behind the place it has reached, and the
\* id it removes is no longer in the bitmap.
RemovalUnderWay(f) ==
    /\ pc[f] \in {"remove", "moving"} =>
        /\ \A i \in DOMAIN instances[f] : i < pos[f] => instances[f][i].rule # goneId[f]
        /\ goneId[f] # DefaultId => goneId[f] \notin ids[f]
    /\ pc[f] = "moving" => pos[f] \in DOMAIN instances[f]
    /\ pc[f] \in {"idle", "decide"} => pos[f] = 1

\* What a filter decides by a rule is the action of that rule still.
VerdictCurrent(f) ==
    /\ pc[f] \in {"scan", "decide"} => pkt[f] \in Packets
    /\ pc[f] = "decide" => verdict[f] \in {"established", FindRule(rules[f], pkt[f]).action}

Own(f) ==
    /\ TablesFit(f) /\ AllOwned(f) /\ RemovalUnderWay(f) /\ VerdictCurrent(f)

\* Where a lookup is, and what it has still to read.
Ahead(f) ==
    \E k \in DOMAIN unread[f] : \E i \in DOMAIN instances[unread[f][k]] :
        /\ Returns(instances[unread[f][k]][i], pkt[f])
        /\ k = 1 => pos[f] <= i

\* A lookup that no removal overlaps has a connection that was there all the time
\* still ahead of it; what it finds was there while it looked.
LookupUnderWay(f) ==
    /\ \A k \in DOMAIN unread[f] : unread[f][k] # f
    /\ pc[f] = "scan" =>
        /\ Connected(f, pkt[f], instances) => seen[f]
        /\ steady[f] /\ ~raced[f] => Ahead(f)
        /\ unread[f] = <<>> => pos[f] = 1
    /\ pc[f] = "decide" /\ ~raced[f] =>
        /\ verdict[f] = "established" => seen[f]
        /\ verdict[f] # "established" => ~steady[f]

IInv == TypeOK /\ \A f \in Filters : Own(f) /\ LookupUnderWay(f)

-----------------------------------------------------------------------------
(* Numbers and subnet masks.                                               *)

\* A set of natural numbers has a least element.
LEMMA Least == ASSUME NEW S, S \subseteq Nat, S # {} PROVE \E i \in S : \A j \in S : i <= j
<1> DEFINE R == {ss \in Nat \X Nat : ss[1] < ss[2]}
<1>1. IsWellFoundedOn(R, Nat)
  BY NatLessThanWellFounded DEF OpToRel
<1>2. PICK x \in S : \A y \in S : <<y, x>> \notin R
  <2> HIDE DEF R
  <2> QED
    BY <1>1, WFMin
<1>3. \A y \in S : x <= y
  <2> SUFFICES ASSUME NEW y \in S, ~(x <= y) PROVE FALSE
    OBVIOUS
  <2>1. y < x /\ x \in Nat /\ y \in Nat
    OBVIOUS
  <2>2. <<y, x>> \in R
    BY <2>1
  <2> QED
    BY <2>2, <1>2
<1> QED
  BY <1>3

Doubling(g, n) == g \in [0 .. n -> Nat \ {0}] /\ g[0] = 1 /\ \A i \in 1 .. n : g[i] = 2 * g[i - 1]

LEMMA DoublingExists == ASSUME NEW n \in Nat PROVE \E g : Doubling(g, n)
<1> DEFINE Without == {m \in Nat : ~ \E g : Doubling(g, m)}
<1> SUFFICES ASSUME Without # {} PROVE FALSE
  OBVIOUS
<1>1. PICK m \in Without : \A j \in Without : m <= j
  <2> Without \subseteq Nat
    OBVIOUS
  <2> HIDE DEF Without
  <2> QED
    BY Least
<1>2. CASE m = 0
  <2>1. Doubling([i \in 0 .. 0 |-> 1], 0)
    BY DEF Doubling
  <2> QED
    BY <2>1, <1>2
<1>3. CASE m # 0
  <2>1. m - 1 \in Nat /\ m - 1 \notin Without
    BY <1>1, <1>3
  <2>2. PICK g : Doubling(g, m - 1)
    BY <2>1
  <2> DEFINE h == [i \in 0 .. m |-> IF i = m THEN 2 * g[m - 1] ELSE g[i]]
  <2>3. g \in [0 .. m - 1 -> Nat \ {0}] /\ g[0] = 1 /\ \A i \in 1 .. m - 1 : g[i] = 2 * g[i - 1]
    BY <2>2 DEF Doubling
  <2>4. h \in [0 .. m -> Nat \ {0}] /\ h[0] = 1
    <3>1. 2 * g[m - 1] \in Nat \ {0}
      BY <2>1, <2>3
    <3>2. \A i \in 0 .. m : i # m => i \in 0 .. m - 1
      BY <1>1
    <3> QED
      BY <2>3, <3>1, <3>2, <1>3
  <2>5. \A i \in 1 .. m : h[i] = 2 * h[i - 1]
    <3> SUFFICES ASSUME NEW i \in 1 .. m PROVE h[i] = 2 * h[i - 1]
      OBVIOUS
    <3>1. i \in 0 .. m /\ i - 1 \in 0 .. m /\ i - 1 # m
      BY <1>1
    <3>2. i # m => i \in 1 .. m - 1
      BY <1>1
    <3> QED
      BY <3>1, <3>2, <2>3
  <2> HIDE DEF h
  <2>6. Doubling(h, m)
    BY <2>4, <2>5 DEF Doubling
  <2> QED
    BY <2>6
<1> QED
  BY <1>2, <1>3

\* Power is the sequence of the powers of two.
LEMMA PowerDoubles == ASSUME Width \in Nat PROVE Doubling(Power, Width)
<1> DEFINE IsPower(p) == p = [n \in 0 .. Width |-> IF n = 0 THEN 1 ELSE 2 * p[n - 1]]
<1>1. PICK g : Doubling(g, Width)
  BY DoublingExists
<1>2. g \in [0 .. Width -> Nat \ {0}] /\ g[0] = 1 /\ \A i \in 1 .. Width : g[i] = 2 * g[i - 1]
  BY <1>1 DEF Doubling
<1>3. IsPower(g)
  <2>1. \A n \in 0 .. Width : g[n] = IF n = 0 THEN 1 ELSE 2 * g[n - 1]
    BY <1>2
  <2> QED
    BY <2>1, <1>2
<1>4. IsPower(Power)
  BY <1>3 DEF Power
<1>5. Power[0] = 1 /\ \A i \in 1 .. Width : Power[i] = 2 * Power[i - 1]
  <2> HIDE DEF Power
  <2>1. \A n \in 0 .. Width : Power[n] = IF n = 0 THEN 1 ELSE 2 * Power[n - 1]
    BY <1>4
  <2> QED
    BY <2>1
<1>6. \A n \in 0 .. Width : Power[n] = g[n]
  <2> DEFINE Other == {n \in 0 .. Width : Power[n] # g[n]}
  <2> SUFFICES ASSUME Other # {} PROVE FALSE
    OBVIOUS
  <2>1. PICK n \in Other : \A j \in Other : n <= j
    <3> Other \subseteq Nat
      OBVIOUS
    <3> HIDE DEF Other
    <3> QED
      BY Least
  <2>2. n # 0 /\ n \in 1 .. Width
    BY <2>1, <1>2, <1>5
  <2>3. n - 1 \in 0 .. Width /\ n - 1 \notin Other
    BY <2>1, <2>2
  <2> QED
    BY <2>2, <2>3, <1>2, <1>5
<1>7. Power = g
  <2> HIDE DEF Power
  <2>1. Power = [n \in 0 .. Width |-> Power[n]]
    BY <1>4
  <2> QED
    BY <2>1, <1>2, <1>6
<1> QED
  BY <1>7, <1>1

LEMMA PowerPositive == ASSUME Width \in Nat, NEW n \in 0 .. Width PROVE Power[n] \in Nat \ {0}
  BY PowerDoubles DEF Doubling

LEMMA ModBound == ASSUME NEW x \in Int, NEW p \in Nat \ {0}
                  PROVE  x % p \in 0 .. p - 1
  BY Z3

LEMMA DivMod == ASSUME NEW x \in Int, NEW p \in Nat \ {0}
                PROVE  x \div p \in Int /\ x = (p * (x \div p)) + (x % p)
  BY Z3

LEMMA ModSmall == ASSUME NEW p \in Nat \ {0}, NEW x \in 0 .. p - 1
                  PROVE  x % p = x
  BY Z3

LEMMA MultMod == ASSUME NEW k \in Int, NEW p \in Nat \ {0}
                 PROVE  (p * k) % p = 0
  BY Z3

\* The mask of an address is an address, and masks itself.
LEMMA MaskFacts == ASSUME Width \in Nat, NEW len \in 0 .. Width, NEW ip \in Addresses
                   PROVE  /\ Mask(len, ip) \in Addresses
                          /\ Mask(len, Mask(len, ip)) = Mask(len, ip)
<1> DEFINE p == Power[Width - len]
           q == ip \div p
           r == ip % p
<1>1. p \in Nat \ {0}
  <2>1. Width - len \in 0 .. Width
    OBVIOUS
  <2> HIDE DEF Power
  <2> QED
    BY <2>1, PowerPositive
<1>2. ip \in Nat /\ Addresses = 0 .. Power[Width] - 1 /\ Power[Width] \in Nat
  BY PowerPositive DEF Addresses
<1> HIDE DEF p
<1>3. q \in Int /\ ip = (p * q) + r /\ r \in 0 .. p - 1
  BY <1>1, <1>2, DivMod, ModBound
<1>4. Mask(len, ip) = ip - r
  BY DEF Mask, p
<1>5. r <= ip
  <2>1. CASE ip < p
    BY <2>1, <1>1, <1>2, ModSmall
  <2>2. CASE ip >= p
    BY <2>2, <1>1, <1>2, <1>3
  <2> QED
    BY <2>1, <2>2, <1>1, <1>2
<1> HIDE DEF q, r
<1>6. Mask(len, ip) \in Addresses
  BY <1>2, <1>3, <1>4, <1>5, <1>1
<1>7. (p * q) \in Int /\ ip - r = p * q
  BY <1>1, <1>2, <1>3
<1>8. (ip - r) % p = 0
  BY <1>1, <1>3, <1>7, MultMod
<1>9. Mask(len, ip - r) = (ip - r) - ((ip - r) % p)
  BY DEF Mask, p
<1>10. ip - r \in Int
  BY <1>2, <1>3, <1>1
<1> QED
  BY <1>4, <1>6, <1>8, <1>9, <1>10

\* The net of length 0 holds every address.
LEMMA WholeNet == ASSUME Width \in Nat, NEW ip \in Addresses PROVE Mask(0, ip) = 0
<1>1. Power[Width] \in Nat \ {0} /\ Width - 0 = Width
  BY PowerPositive
<1>2. ip \in 0 .. Power[Width] - 1
  BY DEF Addresses
<1>3. ip % Power[Width] = ip
  BY <1>1, <1>2, ModSmall
<1> QED
  BY <1>1, <1>2, <1>3 DEF Mask

-----------------------------------------------------------------------------
(* Matching.                                                               *)

LEMMA Irreflexive == ASSUME NEW r \in Rules PROVE ~ MoreSpecific(r, r)
  BY DEF MoreSpecific, Rules, Nets

LEMMA Transitive ==
  ASSUME NEW a \in Rules, NEW b \in Rules, NEW c \in Rules, MoreSpecific(a, b), MoreSpecific(b, c)
  PROVE  MoreSpecific(a, c)
<1>1. /\ a.src.len \in Int /\ b.src.len \in Int /\ c.src.len \in Int
      /\ a.dst.len \in Int /\ b.dst.len \in Int /\ c.dst.len \in Int
  BY DEF Rules, Nets
<1> QED
  BY <1>1 DEF MoreSpecific

\* Two rules that match a packet and of which none is more specific clash.
LEMMA TieClashes ==
  ASSUME NEW r \in Rules, NEW m \in Rules, NEW p \in Packets, NEW a,
         Matches(r, p), Matches(m, p), ~ MoreSpecific(r, m), ~ MoreSpecific(m, r)
  PROVE  Clash(r, a, m)
<1>1. r.src.len \in Int /\ m.src.len \in Int /\ r.dst.len \in Int /\ m.dst.len \in Int
  BY DEF Rules, Nets
<1>2. r.src.len = m.src.len /\ r.dst.len = m.dst.len
  BY <1>1 DEF MoreSpecific
<1>3. /\ r.sport = AnyPort <=> m.sport = AnyPort
      /\ r.dport = AnyPort <=> m.dport = AnyPort
  BY <1>2 DEF MoreSpecific
<1>4. r.sport = m.sport /\ r.dport = m.dport
  BY <1>3 DEF Matches
<1>5. InNet(r.src.ip, m.src) /\ InNet(r.dst.ip, m.dst)
  BY <1>2 DEF Matches, InNet
<1> QED
  BY <1>2, <1>4, <1>5 DEF Clash

LEMMA DefaultMatches ==
  ASSUME FwFilterAssumption, NEW a, NEW p \in Packets
  PROVE  Matches(Default(a), p)
<1>1. p.src.ip \in Addresses /\ p.dst.ip \in Addresses /\ Width \in Nat
  BY DEF FwFilterAssumption, Endpoints
<1>2. 0 \in Addresses
  <2>1. Power[Width] \in Nat \ {0}
    BY <1>1, PowerPositive
  <2> QED
    BY <2>1 DEF Addresses
<1>3. Mask(0, p.src.ip) = 0 /\ Mask(0, p.dst.ip) = 0 /\ Mask(0, 0) = 0
  BY <1>1, <1>2, WholeNet
<1> QED
  BY <1>3 DEF Default, Matches, InNet

\* One round of the loop of fw_filter_find_action, and what it has after each.
Preferred(r, m, p) == IF Matches(r, p) /\ MoreSpecific(r, m) THEN r ELSE m

IsSearch(best, table, p) ==
    best = [i \in DOMAIN table |-> IF i = 1 THEN table[1] ELSE Preferred(table[i], best[i - 1], p)]

SearchTo(best, n, table, p) ==
    /\ best \in [1 .. n -> Rules]
    /\ n >= 1 => best[1] = table[1]
    /\ \A i \in 2 .. n : best[i] = Preferred(table[i], best[i - 1], p)

LEMMA SearchExists ==
  ASSUME NEW table \in Seq(Rules), NEW p
  PROVE  \E best : IsSearch(best, table, p)
<1> DEFINE Without == {n \in 0 .. Len(table) : ~ \E best : SearchTo(best, n, table, p)}
<1>1. Len(table) \in Nat /\ DOMAIN table = 1 .. Len(table) /\ \A i \in 1 .. Len(table) : table[i] \in Rules
  BY LenProperties, ElementOfSeq
<1>2. Without = {}
  <2> SUFFICES ASSUME Without # {} PROVE FALSE
    OBVIOUS
  <2>1. PICK n \in Without : \A j \in Without : n <= j
    <3> Without \subseteq Nat
      OBVIOUS
    <3> HIDE DEF Without
    <3> QED
      BY Least
  <2>2. CASE n = 0
    <3>1. SearchTo([i \in 1 .. 0 |-> table[i]], 0, table, p)
      BY DEF SearchTo
    <3> QED
      BY <3>1, <2>2
  <2>3. CASE n # 0
    <3>1. n \in 1 .. Len(table) /\ n - 1 \in 0 .. Len(table) /\ n - 1 \notin Without
      BY <2>1, <2>3, <1>1
    <3>2. PICK b : SearchTo(b, n - 1, table, p)
      BY <3>1
    <3>3. /\ b \in [1 .. n - 1 -> Rules]
          /\ n - 1 >= 1 => b[1] = table[1]
          /\ \A i \in 2 .. n - 1 : b[i] = Preferred(table[i], b[i - 1], p)
      BY <3>2 DEF SearchTo
    <3> DEFINE next == IF n = 1 THEN table[1] ELSE Preferred(table[n], b[n - 1], p)
               c == [i \in 1 .. n |-> IF i = n THEN next ELSE b[i]]
    <3>4. next \in Rules
      <4>1. n # 1 => n - 1 \in 1 .. n - 1
        BY <3>1
      <4> QED
        BY <4>1, <3>1, <3>3, <1>1 DEF Preferred
    <3> HIDE DEF next
    <3>5. c \in [1 .. n -> Rules]
      <4>1. \A i \in 1 .. n : i # n => i \in 1 .. n - 1
        BY <3>1
      <4> QED
        BY <4>1, <3>3, <3>4
    <3>6. c[1] = table[1]
      BY <3>1, <3>3 DEF next
    <3>7. \A i \in 2 .. n : c[i] = Preferred(table[i], c[i - 1], p)
      <4> SUFFICES ASSUME NEW i \in 2 .. n PROVE c[i] = Preferred(table[i], c[i - 1], p)
        OBVIOUS
      <4>1. i \in 1 .. n /\ i - 1 \in 1 .. n /\ i - 1 # n /\ n # 1
        BY <3>1
      <4>2. i # n => i \in 2 .. n - 1
        BY <3>1
      <4> QED
        BY <4>1, <4>2, <3>3 DEF next
    <3> HIDE DEF c
    <3>8. SearchTo(c, n, table, p)
      BY <3>5, <3>6, <3>7 DEF SearchTo
    <3> QED
      BY <3>8
  <2> QED
    BY <2>2, <2>3
<1>3. PICK best : SearchTo(best, Len(table), table, p)
  <2>1. Len(table) \in 0 .. Len(table)
    BY <1>1
  <2> QED
    BY <2>1, <1>2
<1>4. \A i \in DOMAIN table : best[i] = IF i = 1 THEN table[1] ELSE Preferred(table[i], best[i - 1], p)
  <2> SUFFICES ASSUME NEW i \in 1 .. Len(table)
               PROVE  best[i] = IF i = 1 THEN table[1] ELSE Preferred(table[i], best[i - 1], p)
    BY <1>1
  <2>1. i # 1 => i \in 2 .. Len(table)
    BY <1>1
  <2> QED
    BY <2>1, <1>1, <1>3 DEF SearchTo
<1> QED
  BY <1>1, <1>3, <1>4 DEF IsSearch, SearchTo

\* fw_filter_find_action returns the end of such a search.
LEMMA FindRuleSearches ==
  ASSUME NEW table \in Seq(Rules), NEW p
  PROVE  \E best : IsSearch(best, table, p) /\ FindRule(table, p) = best[Len(table)]
<1>1. PICK g : IsSearch(g, table, p)
  BY SearchExists
<1>2. g = [i \in DOMAIN table |->
            IF i = 1 THEN table[1]
            ELSE IF Matches(table[i], p) /\ MoreSpecific(table[i], g[i - 1]) THEN table[i] ELSE g[i - 1]]
  BY <1>1 DEF IsSearch, Preferred
<1>3. \E f : /\ f = [i \in DOMAIN table |->
                     IF i = 1 THEN table[1]
                     ELSE IF Matches(table[i], p) /\ MoreSpecific(table[i], f[i - 1]) THEN table[i] ELSE f[i - 1]]
            /\ FindRule(table, p) = f[Len(table)]
  BY <1>2 DEF FindRule
<1> QED
  BY <1>3 DEF IsSearch, Preferred

\* It returns a rule of the table that matches, and none that matches is more
\* specific.
LEMMA FindRuleFacts ==
  ASSUME FwFilterAssumption, NEW table \in Seq(Rules), Len(table) >= 1, NEW p \in Packets,
         table[1] = Default(table[1].action)
  PROVE  /\ \E k \in DOMAIN table : FindRule(table, p) = table[k]
         /\ Matches(FindRule(table, p), p)
         /\ \A i \in DOMAIN table : Matches(table[i], p) => ~ MoreSpecific(table[i], FindRule(table, p))
<1>1. Len(table) \in Nat /\ DOMAIN table = 1 .. Len(table) /\ \A i \in 1 .. Len(table) : table[i] \in Rules
  BY LenProperties, ElementOfSeq
<1>2. PICK best : IsSearch(best, table, p) /\ FindRule(table, p) = best[Len(table)]
  BY FindRuleSearches
<1>3. /\ best[1] = table[1]
      /\ \A i \in 2 .. Len(table) : best[i] = Preferred(table[i], best[i - 1], p)
  <2>1. \A i \in 1 .. Len(table) : best[i] = IF i = 1 THEN table[1] ELSE Preferred(table[i], best[i - 1], p)
    BY <1>1, <1>2 DEF IsSearch
  <2> QED
    BY <2>1, <1>1
<1> DEFINE Good(n) == /\ \E k \in DOMAIN table : best[n] = table[k]
                      /\ Matches(best[n], p)
                      /\ \A i \in 1 .. n : Matches(table[i], p) => ~ MoreSpecific(table[i], best[n])
           Bad == {n \in 1 .. Len(table) : ~ Good(n)}
<1>4. Bad = {}
  <2> SUFFICES ASSUME Bad # {} PROVE FALSE
    OBVIOUS
  <2>1. PICK n \in Bad : \A j \in Bad : n <= j
    <3> Bad \subseteq Nat
      OBVIOUS
    <3> HIDE DEF Bad
    <3> QED
      BY Least
  <2>2. n \in 1 .. Len(table) /\ ~ Good(n)
    BY <2>1
  <2>3. CASE n = 1
    <3>1. Matches(table[1], p)
      BY DefaultMatches
    <3>2. 1 .. 1 = {1}
      OBVIOUS
    <3> QED
      BY <3>1, <3>2, <2>2, <2>3, <1>1, <1>3, Irreflexive
  <2>4. CASE n # 1
    <3>1. n - 1 \in 1 .. Len(table) /\ n \in 2 .. Len(table) /\ Good(n - 1)
      BY <2>1, <2>2, <2>4, <1>1
    <3>2. PICK k \in 1 .. Len(table) : best[n - 1] = table[k]
      BY <3>1, <1>1
    <3>3. \A i \in 1 .. n : i # n => i \in 1 .. n - 1
      BY <2>2
    <3>4. /\ Matches(table[k], p)
          /\ \A i \in 1 .. n - 1 : Matches(table[i], p) => ~ MoreSpecific(table[i], table[k])
      BY <3>1, <3>2
    <3> HIDE DEF Bad
    <3>5. CASE Matches(table[n], p) /\ MoreSpecific(table[n], table[k])
      <4>1. best[n] = table[n]
        BY <3>5, <3>1, <3>2, <1>3 DEF Preferred
      <4>2. \A i \in 1 .. n : Matches(table[i], p) => ~ MoreSpecific(table[i], table[n])
        <5> SUFFICES ASSUME NEW i \in 1 .. n, Matches(table[i], p), MoreSpecific(table[i], table[n])
                     PROVE  FALSE
          OBVIOUS
        <5>1. table[i] \in Rules /\ table[n] \in Rules /\ table[k] \in Rules
          BY <1>1, <2>2
        <5>2. i # n
          BY <5>1, Irreflexive
        <5>3. MoreSpecific(table[i], table[k])
          BY <5>1, <3>5, Transitive
        <5> QED
          BY <5>2, <5>3, <3>3, <3>4
      <4> QED
        BY <4>1, <4>2, <3>5, <2>2, <1>1
    <3>6. CASE ~(Matches(table[n], p) /\ MoreSpecific(table[n], table[k]))
      <4>1. best[n] = table[k]
        BY <3>6, <3>1, <3>2, <1>3 DEF Preferred
      <4>2. \A i \in 1 .. n : Matches(table[i], p) => ~ MoreSpecific(table[i], table[k])
        BY <3>3, <3>4, <3>6
      <4> QED
        BY <4>1, <4>2, <3>4, <2>2, <1>1
    <3> QED
      BY <3>5, <3>6
  <2> QED
    BY <2>3, <2>4
<1>5. Len(table) \in 1 .. Len(table)
  BY <1>1
<1>6. Good(Len(table))
  BY <1>4, <1>5
<1> QED
  BY <1>1, <1>2, <1>6

\* Without a clash in the table it is more specific than every other that matches.
LEMMA MostSpecific ==
  ASSUME FwFilterAssumption, NEW table \in Seq(Rules), Len(table) >= 1, NEW p \in Packets,
         table[1] = Default(table[1].action),
         \A i, j \in DOMAIN table : Clash(table[i], table[i].action, table[j]) => i = j,
         NEW i \in DOMAIN table, Matches(table[i], p), table[i] # FindRule(table, p)
  PROVE  MoreSpecific(FindRule(table, p), table[i])
<1>1. Len(table) \in Nat /\ DOMAIN table = 1 .. Len(table) /\ \A j \in 1 .. Len(table) : table[j] \in Rules
  BY LenProperties, ElementOfSeq
<1>2. PICK k \in DOMAIN table : FindRule(table, p) = table[k]
  BY FindRuleFacts
<1>3. Matches(table[k], p) /\ ~ MoreSpecific(table[i], table[k])
  BY <1>2, FindRuleFacts
<1>4. ~ Clash(table[i], table[i].action, table[k])
  BY <1>2
<1> QED
  BY <1>1, <1>2, <1>3, <1>4, TieClashes

-----------------------------------------------------------------------------
(* Tables.                                                                 *)

\* Taking a rule out shifts those behind it.
LEMMA RemoveAtFacts ==
  ASSUME NEW S, NEW s \in Seq(S), NEW n \in 1 .. Len(s)
  PROVE  /\ RemoveAt(s, n) \in Seq(S)
         /\ Len(RemoveAt(s, n)) = Len(s) - 1
         /\ \A i \in 1 .. Len(s) - 1 : RemoveAt(s, n)[i] = IF i < n THEN s[i] ELSE s[i + 1]
<1>1. Len(s) \in Nat /\ \A i \in 1 .. Len(s) : s[i] \in S
  BY LenProperties, ElementOfSeq
<1> DEFINE front == SubSeq(s, 1, n - 1)
           back == SubSeq(s, n + 1, Len(s))
<1>2. /\ front \in Seq(S) /\ Len(front) = n - 1
      /\ \A i \in 1 .. n - 1 : front[i] = s[i]
  <2>1. \A i \in 1 .. n - 1 : s[i] \in S
    BY <1>1
  <2>2. /\ front \in Seq(S) /\ Len(front) = IF 1 <= n - 1 THEN (n - 1) - 1 + 1 ELSE 0
        /\ \A i \in 1 .. (n - 1) - 1 + 1 : front[i] = s[1 + i - 1]
    BY <2>1, SubSeqProperties
  <2> QED
    BY <2>2
<1>3. /\ back \in Seq(S) /\ Len(back) = Len(s) - n
      /\ \A i \in 1 .. Len(s) - n : back[i] = s[n + i]
  <2>1. (\A i \in n + 1 .. Len(s) : s[i] \in S) /\ n + 1 \in Int /\ Len(s) \in Int
    BY <1>1
  <2>2. /\ back \in Seq(S) /\ Len(back) = IF n + 1 <= Len(s) THEN Len(s) - (n + 1) + 1 ELSE 0
        /\ \A i \in 1 .. Len(s) - (n + 1) + 1 : back[i] = s[(n + 1) + i - 1]
    BY <2>1, SubSeqProperties
  <2> QED
    BY <2>2, <1>1
<1> HIDE DEF front, back
<1>4. /\ front \o back \in Seq(S) /\ Len(front \o back) = Len(front) + Len(back)
      /\ \A i \in 1 .. Len(front) + Len(back) :
            (front \o back)[i] = IF i <= Len(front) THEN front[i] ELSE back[i - Len(front)]
  BY <1>2, <1>3, ConcatProperties
<1>5. \A i \in 1 .. Len(s) - 1 : (front \o back)[i] = IF i < n THEN s[i] ELSE s[i + 1]
  <2> SUFFICES ASSUME NEW i \in 1 .. Len(s) - 1
               PROVE  (front \o back)[i] = IF i < n THEN s[i] ELSE s[i + 1]
    OBVIOUS
  <2>1. i \in 1 .. Len(front) + Len(back)
    BY <1>1, <1>2, <1>3
  <2>2. CASE i < n
    <3>1. i \in 1 .. n - 1 /\ i <= Len(front)
      BY <2>2, <1>2
    <3> QED
      BY <2>1, <2>2, <3>1, <1>2, <1>4
  <2>3. CASE ~(i < n)
    <3>1. i - (n - 1) \in 1 .. Len(s) - n /\ ~(i <= Len(front)) /\ n + (i - (n - 1)) = i + 1
      BY <2>3, <1>1, <1>2
    <3> QED
      BY <2>1, <2>3, <3>1, <1>2, <1>3, <1>4
  <2> QED
    BY <2>2, <2>3
<1>6. RemoveAt(s, n) = front \o back
  BY DEF RemoveAt, front, back
<1>7. Len(front \o back) = Len(s) - 1
  BY <1>1, <1>2, <1>3, <1>4
<1> QED
  BY <1>4, <1>5, <1>6, <1>7

LEMMA FrontFacts ==
  ASSUME NEW S, NEW s \in Seq(S), Len(s) >= 1
  PROVE  /\ Front(s) \in Seq(S) /\ Len(Front(s)) = Len(s) - 1
         /\ \A i \in 1 .. Len(s) - 1 : Front(s)[i] = s[i]
<1>1. Len(s) \in Nat /\ \A i \in 1 .. Len(s) : s[i] \in S
  BY LenProperties, ElementOfSeq
<1>2. PICK n \in Nat : n = Len(s) - 1
  BY <1>1
<1>3. \A i \in 1 .. n : s[i] \in S
  BY <1>1, <1>2
<1> DEFINE front == SubSeq(s, 1, n)
<1>4. /\ front \in Seq(S) /\ Len(front) = IF 1 <= n THEN n - 1 + 1 ELSE 0
      /\ \A i \in 1 .. n - 1 + 1 : front[i] = s[1 + i - 1]
  BY <1>3, SubSeqProperties
<1>5. Front(s) = front
  BY <1>2 DEF Front
<1> HIDE DEF front
<1>6. Len(front) = n /\ \A i \in 1 .. n : front[i] = s[i]
  <2>1. n - 1 + 1 = n /\ \A i \in 1 .. n : 1 + i - 1 = i
    OBVIOUS
  <2> QED
    BY <2>1, <1>4
<1> QED
  BY <1>2, <1>4, <1>5, <1>6

\* The instance a removal leaves at an index.
LEMMA ReplacedFacts ==
  ASSUME NEW S, NEW s \in Seq(S), NEW n \in 1 .. Len(s), NEW x \in S
  PROVE  /\ [s EXCEPT ![n] = x] \in Seq(S)
         /\ Len([s EXCEPT ![n] = x]) = Len(s)
         /\ \A i \in 1 .. Len(s) : [s EXCEPT ![n] = x][i] = IF i = n THEN x ELSE s[i]
<1>1. Len(s) \in Nat /\ s \in [1 .. Len(s) -> S] /\ DOMAIN s = 1 .. Len(s)
  BY LenProperties
<1>2. [s EXCEPT ![n] = x] \in [1 .. Len(s) -> S]
  BY <1>1
<1>3. \A i \in 1 .. Len(s) : [s EXCEPT ![n] = x][i] = IF i = n THEN x ELSE s[i]
  BY <1>1
<1>4. [s EXCEPT ![n] = x] \in Seq(S) /\ Len([s EXCEPT ![n] = x]) = Len(s)
  BY <1>1, <1>2
<1> QED
  BY <1>3, <1>4

\* A filter reads the tables of all others, each once.
LEMMA OrderFacts ==
  ASSUME NEW S, IsFiniteSet(S)
  PROVE  /\ SetToSeq(S) \in Seq(S)
         /\ \A x \in S : \E k \in DOMAIN SetToSeq(S) : SetToSeq(S)[k] = x
<1>1. Cardinality(S) \in Nat /\ ExistsBijection(1 .. Cardinality(S), S)
  BY FS_CardinalityType
<1>2. PICK b \in [1 .. Cardinality(S) -> S] : IsInjective(b)
  <2>1. PICK b : b \in Bijection(1 .. Cardinality(S), S)
    BY <1>1 DEF ExistsBijection
  <2> QED
    BY <2>1 DEF Bijection, Injection, IsInjective
<1>3. SetToSeq(S) \in [1 .. Cardinality(S) -> S] /\ IsInjective(SetToSeq(S))
  BY <1>2 DEF SetToSeq
<1> DEFINE s == SetToSeq(S)
<1> HIDE DEF s
<1>4. s \in Seq(S) /\ DOMAIN s = 1 .. Cardinality(S)
  BY <1>1, <1>3 DEF s
<1>5. s \in Injection(1 .. Cardinality(S), S)
  BY <1>3 DEF s, Injection, IsInjective
<1>6. IsFiniteSet(1 .. Cardinality(S)) /\ Cardinality(1 .. Cardinality(S)) = Cardinality(S)
  BY <1>1, FS_Interval
<1>7. s \in Surjection(1 .. Cardinality(S), S)
  BY <1>5, <1>6, FS_Injection
<1> QED
  BY <1>4, <1>7 DEF Surjection, s

\* rules_reserve_id finds an id that is free, when one is.
LEMMA ReserveId ==
  ASSUME FwFilterAssumption, NEW f \in Filters, ids[f] \subseteq RuleIds, lastId[f] \in RuleIds,
         RuleIds \ ids[f] # {}
  PROVE  NextId(f) \in RuleIds \ ids[f]
<1> DEFINE Place(i) == (lastId[f] + 1 + i) % RulesCapacity
           free == {i \in RuleIds : Place(i) \notin ids[f]}
<1>1. RulesCapacity \in Nat \ {0} /\ lastId[f] \in 0 .. RulesCapacity - 1 /\ RuleIds = 0 .. RulesCapacity - 1
  BY DEF FwFilterAssumption, RuleIds
<1>2. \A i \in RuleIds : Place(i) \in RuleIds
  <2> SUFFICES ASSUME NEW i \in RuleIds PROVE Place(i) \in RuleIds
    OBVIOUS
  <2>1. lastId[f] + 1 + i \in Int
    BY <1>1
  <2> QED
    BY <2>1, <1>1, ModBound
<1>3. free # {}
  <2>1. PICK x \in RuleIds : x \notin ids[f]
    OBVIOUS
  <2> DEFINE i == IF x > lastId[f] THEN x - lastId[f] - 1 ELSE (x + RulesCapacity) - lastId[f] - 1
  <2>2. i \in RuleIds
    BY <1>1
  <2>3. Place(i) = x
    <3>1. CASE x > lastId[f]
      <4>1. lastId[f] + 1 + i = x
        BY <3>1, <1>1
      <4> QED
        BY <4>1, <1>1, ModSmall
    <3>2. CASE ~(x > lastId[f])
      <4>1. lastId[f] + 1 + i = x + RulesCapacity
        BY <3>2, <1>1
      <4> HIDE DEF i
      <4>2. (x + RulesCapacity) % RulesCapacity = x
        BY <1>1, Z3
      <4> QED
        BY <4>1, <4>2
    <3> QED
      BY <3>1, <3>2
  <2> HIDE DEF i
  <2> QED
    BY <2>1, <2>2, <2>3
<1>4. free \subseteq Nat
  BY <1>1
<1>5. PICK m \in free : \A j \in free : m <= j
  <2> HIDE DEF free
  <2> QED
    BY <1>3, <1>4, Least
<1>6. (CHOOSE i \in free : \A j \in free : i <= j) \in free
  <2> HIDE DEF free
  <2> QED
    BY <1>5
<1>7. NextId(f) = Place(CHOOSE i \in free : \A j \in free : i <= j)
  BY DEF NextId
<1> DEFINE c == CHOOSE i \in free : \A j \in free : i <= j
<1>8. c \in RuleIds /\ Place(c) \notin ids[f]
  BY <1>6
<1> HIDE DEF c, free
<1>9. Place(c) \in RuleIds
  BY <1>8, <1>2
<1>10. NextId(f) = Place(c)
  BY <1>7 DEF c, free
<1> QED
  BY <1>8, <1>9, <1>10

\* A table with room leaves an id free: the assert of rules_reserve_id.
LEMMA IdIsFree ==
  ASSUME FwFilterAssumption, NEW s \in Seq(Rules), Len(s) < RulesCapacity
  PROVE  RuleIds \ {s[i].id : i \in DOMAIN s} # {}
<1> DEFINE used == {s[i].id : i \in DOMAIN s}
<1>1. Len(s) \in Nat /\ DOMAIN s = 1 .. Len(s) /\ RulesCapacity \in Nat \ {0}
  BY LenProperties DEF FwFilterAssumption
<1>2. Cardinality(used) <= Len(s)
  <2> DEFINE g == [i \in 1 .. Len(s) |-> s[i].id]
  <2>1. g \in Surjection(1 .. Len(s), used)
    BY <1>1 DEF Surjection
  <2> HIDE DEF g, used
  <2>2. ExistsSurjection(1 .. Len(s), used)
    BY <2>1 DEF ExistsSurjection
  <2> QED
    BY <2>2, <1>1, FS_SurjCardinalityBound
<1>3. IsFiniteSet(used)
  <2> DEFINE g == [i \in 1 .. Len(s) |-> s[i].id]
  <2>1. g \in Surjection(1 .. Len(s), used)
    BY <1>1 DEF Surjection
  <2>2. IsFiniteSet(1 .. Len(s))
    BY <1>1, FS_Interval
  <2> HIDE DEF g, used
  <2> QED
    BY <2>1, <2>2, FS_Surjection
<1>4. Cardinality(RuleIds) = RulesCapacity
  <2>1. 0 \in Int /\ RulesCapacity - 1 \in Int /\ RulesCapacity - 1 >= 0
    BY <1>1
  <2>2. Cardinality(0 .. RulesCapacity - 1) = (RulesCapacity - 1) - 0 + 1
    BY <2>1, FS_Interval
  <2> QED
    BY <2>2, <1>1 DEF RuleIds
<1> HIDE DEF used
<1>5. SUFFICES ASSUME RuleIds \subseteq used PROVE FALSE
  BY DEF used
<1>6. Cardinality(RuleIds) <= Cardinality(used)
  BY <1>3, <1>5, FS_Subset
<1>7. Cardinality(used) \in Nat
  BY <1>3, FS_CardinalityType
<1> QED
  BY <1>1, <1>2, <1>4, <1>6, <1>7

\* Whether two rules clash does not depend on their order.
LEMMA ClashSymmetric == ASSUME NEW r, NEW m, NEW a, NEW b, Clash(r, a, m) PROVE Clash(m, b, r)
  BY DEF Clash, InNet

\* The rule that fw_filter_add_rule stores for a shape.
Stored(id, shape, action) ==
    [id |-> id, action |-> action, sport |-> shape.sport, dport |-> shape.dport,
     src |-> [shape.src EXCEPT !.ip = Mask(shape.src.len, @)],
     dst |-> [shape.dst EXCEPT !.ip = Mask(shape.dst.len, @)]]

LEMMA StoredFacts ==
  ASSUME FwFilterAssumption, NEW id \in RuleIds, NEW shape \in Shapes, NEW action \in Actions
  PROVE  /\ Stored(id, shape, action) \in Rules
         /\ Stored(id, shape, action).id = id
         /\ \A r, a, b : Clash(Stored(id, shape, action), a, r) => Clash(shape, b, r)
<1>1. Width \in Nat /\ shape \in ShapeSet
  BY DEF FwFilterAssumption
<1>2. /\ shape.src.len \in 0 .. Width /\ shape.dst.len \in 0 .. Width
      /\ shape.src.ip \in Addresses /\ shape.dst.ip \in Addresses
      /\ shape.sport \in Ports \cup {AnyPort} /\ shape.dport \in Ports \cup {AnyPort}
      /\ shape.src \in Nets /\ shape.dst \in Nets
  BY <1>1 DEF ShapeSet, Nets
<1> DEFINE src == [shape.src EXCEPT !.ip = Mask(shape.src.len, @)]
           dst == [shape.dst EXCEPT !.ip = Mask(shape.dst.len, @)]
<1>3. /\ Mask(shape.src.len, shape.src.ip) \in Addresses /\ Mask(shape.dst.len, shape.dst.ip) \in Addresses
      /\ Mask(shape.src.len, Mask(shape.src.len, shape.src.ip)) = Mask(shape.src.len, shape.src.ip)
      /\ Mask(shape.dst.len, Mask(shape.dst.len, shape.dst.ip)) = Mask(shape.dst.len, shape.dst.ip)
  BY <1>1, <1>2, MaskFacts
<1>4. src = [ip |-> Mask(shape.src.len, shape.src.ip), len |-> shape.src.len]
  BY <1>2 DEF Nets
<1>5. dst = [ip |-> Mask(shape.dst.len, shape.dst.ip), len |-> shape.dst.len]
  BY <1>2 DEF Nets
<1>6. Stored(id, shape, action) =
        [id |-> id, action |-> action, sport |-> shape.sport, dport |-> shape.dport, src |-> src, dst |-> dst]
  BY DEF Stored
<1> HIDE DEF src, dst
<1>7. src \in Nets /\ dst \in Nets
  BY <1>2, <1>3, <1>4, <1>5 DEF Nets
<1>8. Stored(id, shape, action) \in Rules /\ Stored(id, shape, action).id = id
  BY <1>2, <1>6, <1>7 DEF Rules
<1>9. ASSUME NEW r, NEW a, NEW b, Clash(Stored(id, shape, action), a, r) PROVE Clash(shape, b, r)
  BY <1>3, <1>4, <1>5, <1>6, <1>9 DEF Clash, InNet
<1> QED
  BY <1>8, <1>9

LEMMA RuleAdded ==
  ASSUME NEW t \in Seq(Rules), NEW known, TableExact(t, known), NEW r \in Rules, r.id \notin known,
         \A i \in DOMAIN t : ~ Clash(r, r.action, t[i])
  PROVE  /\ Append(t, r) \in Seq(Rules) /\ Len(Append(t, r)) = Len(t) + 1
         /\ TableExact(Append(t, r), known \cup {r.id})
         /\ \A inst : Owns(t, inst) => Owns(Append(t, r), inst)
<1> DEFINE u == Append(t, r)
<1>1. Len(t) \in Nat /\ DOMAIN t = 1 .. Len(t) /\ Len(t) >= 1
  BY LenProperties DEF TableExact
<1>2. /\ u \in Seq(Rules) /\ Len(u) = Len(t) + 1
      /\ \A i \in 1 .. Len(t) : u[i] = t[i]
      /\ u[Len(t) + 1] = r
  BY AppendProperties
<1> HIDE DEF u
<1>3. DOMAIN u = (1 .. Len(t)) \cup {Len(t) + 1} /\ Len(t) + 1 \notin 1 .. Len(t)
  <2>1. DOMAIN u = 1 .. Len(t) + 1
    BY <1>2, LenProperties
  <2> QED
    BY <2>1, <1>1
<1>4. {u[i].id : i \in DOMAIN u} = known \cup {r.id}
  BY <1>1, <1>2, <1>3 DEF TableExact
<1>5. \A i, j \in DOMAIN u : u[i].id = u[j].id => i = j
  <2>1. \A i \in 1 .. Len(t) : t[i].id # r.id
    BY <1>1 DEF TableExact
  <2> QED
    BY <2>1, <1>1, <1>2, <1>3 DEF TableExact
<1>6. Len(u) >= 1 /\ u[1] = Default(u[1].action)
  BY <1>1, <1>2 DEF TableExact
<1>7. \A i, j \in DOMAIN u : Clash(u[i], u[i].action, u[j]) => i = j
  <2> SUFFICES ASSUME NEW i \in DOMAIN u, NEW j \in DOMAIN u, Clash(u[i], u[i].action, u[j]) PROVE i = j
    OBVIOUS
  <2>1. CASE i \in 1 .. Len(t) /\ j \in 1 .. Len(t)
    <3>1. Clash(t[i], t[i].action, t[j])
      BY <2>1, <1>2
    <3> QED
      BY <3>1, <2>1, <1>1 DEF TableExact
  <2>2. CASE i = Len(t) + 1 /\ j \in 1 .. Len(t)
    <3>1. Clash(r, r.action, t[j])
      BY <2>2, <1>2
    <3> QED
      BY <3>1, <2>2, <1>1
  <2>3. CASE i \in 1 .. Len(t) /\ j = Len(t) + 1
    <3>1. Clash(t[i], t[i].action, r)
      BY <2>3, <1>2
    <3> QED
      BY <3>1, <2>3, <1>1, ClashSymmetric
  <2> QED
    BY <2>1, <2>2, <2>3, <1>3
<1>8. \A inst : Owns(t, inst) => Owns(u, inst)
  BY <1>1, <1>2, <1>3 DEF Owns
<1> QED
  BY <1>2, <1>4, <1>5, <1>6, <1>7, <1>8 DEF TableExact, u

LEMMA RuleRemoved ==
  ASSUME NEW t \in Seq(Rules), NEW known, TableExact(t, known), NEW n \in 2 .. Len(t)
  PROVE  /\ RemoveAt(t, n) \in Seq(Rules) /\ Len(RemoveAt(t, n)) = Len(t) - 1
         /\ TableExact(RemoveAt(t, n), known \ {t[n].id})
         /\ \A inst : Owns(t, inst) /\ (t[n].action # "connect" \/ inst.rule # t[n].id)
                        => Owns(RemoveAt(t, n), inst)
<1> DEFINE u == RemoveAt(t, n)
           Place(i) == IF i < n THEN i ELSE i + 1
<1>1. Len(t) \in Nat /\ DOMAIN t = 1 .. Len(t) /\ Len(t) >= 2 /\ n \in 1 .. Len(t)
  BY LenProperties
<1>2. /\ u \in Seq(Rules) /\ Len(u) = Len(t) - 1
      /\ \A i \in 1 .. Len(t) - 1 : u[i] = IF i < n THEN t[i] ELSE t[i + 1]
  BY <1>1, RemoveAtFacts
<1> HIDE DEF u
<1>3. DOMAIN u = 1 .. Len(t) - 1
  BY <1>2, LenProperties
<1>4. \A i \in DOMAIN u : Place(i) \in DOMAIN t /\ Place(i) # n /\ u[i] = t[Place(i)]
  BY <1>1, <1>2, <1>3
<1>5. \A i, j \in DOMAIN u : Place(i) = Place(j) => i = j
  BY <1>1, <1>3
<1>6. \A k \in DOMAIN t : k # n => \E i \in DOMAIN u : Place(i) = k
  <2> SUFFICES ASSUME NEW k \in 1 .. Len(t), k # n PROVE \E i \in DOMAIN u : Place(i) = k
    BY <1>1
  <2>1. CASE k < n
    <3>1. k \in DOMAIN u /\ Place(k) = k
      BY <2>1, <1>1, <1>3
    <3> QED
      BY <3>1
  <2>2. CASE k > n
    <3>1. k - 1 \in DOMAIN u /\ Place(k - 1) = k
      BY <2>2, <1>1, <1>3
    <3> QED
      BY <3>1
  <2> QED
    BY <2>1, <2>2, <1>1
<1>7. 1 \in DOMAIN u /\ Place(1) = 1
  BY <1>1, <1>3
<1> HIDE DEF Place
<1>8. {u[i].id : i \in DOMAIN u} = known \ {t[n].id}
  <2>1. \A i \in DOMAIN u : u[i].id \in known /\ u[i].id # t[n].id
    BY <1>1, <1>4 DEF TableExact
  <2>2. \A x \in known : x # t[n].id => \E i \in DOMAIN u : u[i].id = x
    <3> SUFFICES ASSUME NEW x \in known, x # t[n].id PROVE \E i \in DOMAIN u : u[i].id = x
      OBVIOUS
    <3>1. PICK k \in DOMAIN t : t[k].id = x
      BY DEF TableExact
    <3>2. PICK i \in DOMAIN u : Place(i) = k
      BY <3>1, <1>6
    <3> QED
      BY <3>1, <3>2, <1>4
  <2> QED
    BY <2>1, <2>2
<1>9. \A i, j \in DOMAIN u : u[i].id = u[j].id => i = j
  BY <1>4, <1>5 DEF TableExact
<1>10. Len(u) >= 1 /\ u[1] = Default(u[1].action)
  <2>1. u[1] = t[1] /\ t[1] = Default(t[1].action)
    BY <1>4, <1>7 DEF TableExact
  <2> QED
    BY <2>1, <1>1, <1>2
<1>11. \A i, j \in DOMAIN u : Clash(u[i], u[i].action, u[j]) => i = j
  <2> SUFFICES ASSUME NEW i \in DOMAIN u, NEW j \in DOMAIN u, Clash(u[i], u[i].action, u[j]) PROVE i = j
    OBVIOUS
  <2>1. Clash(t[Place(i)], t[Place(i)].action, t[Place(j)]) /\ Place(i) \in DOMAIN t /\ Place(j) \in DOMAIN t
    BY <1>4
  <2>2. Place(i) = Place(j)
    BY <2>1 DEF TableExact
  <2> QED
    BY <2>2, <1>5
<1>12. ASSUME NEW inst, Owns(t, inst), t[n].action # "connect" \/ inst.rule # t[n].id
       PROVE  Owns(u, inst)
  <2>1. PICK j \in DOMAIN t : t[j].id = inst.rule /\ t[j].action = "connect"
    BY <1>12 DEF Owns
  <2>2. j # n
    BY <2>1, <1>12
  <2>3. PICK i \in DOMAIN u : Place(i) = j
    BY <2>2, <1>6
  <2> QED
    BY <2>1, <2>3, <1>4 DEF Owns
<1> QED
  BY <1>2, <1>8, <1>9, <1>10, <1>11, <1>12 DEF TableExact, u

LEMMA DefaultSet ==
  ASSUME FwFilterAssumption, NEW t \in Seq(Rules), NEW known, TableExact(t, known), NEW a \in Actions
  PROVE  /\ [t EXCEPT ![1].action = a] \in Seq(Rules) /\ Len([t EXCEPT ![1].action = a]) = Len(t)
         /\ TableExact([t EXCEPT ![1].action = a], known)
         /\ \A inst : Owns(t, inst) /\ (t[1].action # "connect" \/ inst.rule # DefaultId)
                        => Owns([t EXCEPT ![1].action = a], inst)
<1> DEFINE r == [t[1] EXCEPT !.action = a]
           u == [t EXCEPT ![1] = r]
<1>1. Len(t) \in Nat /\ DOMAIN t = 1 .. Len(t) /\ Len(t) >= 1 /\ 1 \in 1 .. Len(t) /\ t[1] \in Rules
  BY LenProperties, ElementOfSeq DEF TableExact
<1>2. r \in Rules
  BY <1>1 DEF Rules
<1>3. u = [t EXCEPT ![1].action = a]
  OBVIOUS
<1>4. /\ r.id = t[1].id /\ r.action = a /\ r = Default(a)
      /\ r.src = t[1].src /\ r.dst = t[1].dst /\ r.sport = t[1].sport /\ r.dport = t[1].dport
  BY <1>1 DEF TableExact, Default, Rules
<1> HIDE DEF r
<1>5. u \in Seq(Rules) /\ Len(u) = Len(t) /\ \A i \in 1 .. Len(t) : u[i] = IF i = 1 THEN r ELSE t[i]
  BY <1>1, <1>2, ReplacedFacts
<1> HIDE DEF u
<1>6. DOMAIN u = DOMAIN t
  BY <1>1, <1>5, LenProperties
<1>7. \A i \in DOMAIN t : u[i].id = t[i].id
  BY <1>1, <1>4, <1>5
<1>8. {u[i].id : i \in DOMAIN u} = known /\ \A i, j \in DOMAIN u : u[i].id = u[j].id => i = j
  BY <1>6, <1>7 DEF TableExact
<1>9. u[1] = Default(u[1].action)
  BY <1>1, <1>4, <1>5
<1>10. \A i \in DOMAIN t : /\ u[i].src = t[i].src /\ u[i].dst = t[i].dst
                           /\ u[i].sport = t[i].sport /\ u[i].dport = t[i].dport
  BY <1>1, <1>4, <1>5
<1>11. \A i, j \in DOMAIN u : Clash(u[i], u[i].action, u[j]) => i = j
  <2> SUFFICES ASSUME NEW i \in DOMAIN t, NEW j \in DOMAIN t, Clash(u[i], u[i].action, u[j]) PROVE i = j
    BY <1>6
  <2>1. Clash(t[i], t[i].action, t[j])
    BY <1>10 DEF Clash, InNet
  <2> QED
    BY <2>1 DEF TableExact
<1>12. ASSUME NEW inst, Owns(t, inst), t[1].action # "connect" \/ inst.rule # DefaultId
       PROVE  Owns(u, inst)
  <2>1. PICK j \in DOMAIN t : t[j].id = inst.rule /\ t[j].action = "connect"
    BY <1>12 DEF Owns
  <2>2. t[1].id = DefaultId
    BY DEF TableExact, Default
  <2>3. j # 1
    BY <2>1, <2>2, <1>12
  <2>4. u[j] = t[j]
    BY <2>3, <1>1, <1>5
  <2> QED
    BY <2>1, <2>4, <1>6 DEF Owns
<1>13. TableExact(u, known)
  BY <1>1, <1>5, <1>8, <1>9, <1>11 DEF TableExact
<1>14. \A inst : Owns(t, inst) /\ (t[1].action # "connect" \/ inst.rule # DefaultId) => Owns(u, inst)
  BY <1>12
<1> QED
  BY ONLY <1>3, <1>5, <1>13, <1>14

-----------------------------------------------------------------------------
(* What a step of one filter leaves to the others.                         *)

\* Only filter f moves.
OnlyFor(f) ==
    \A g \in Filters \ {f} :
        /\ rules'[g] = rules[g] /\ ids'[g] = ids[g] /\ instances'[g] = instances[g]
        /\ pc'[g] = pc[g] /\ pkt'[g] = pkt[g] /\ unread'[g] = unread[g] /\ pos'[g] = pos[g]
        /\ goneId'[g] = goneId[g] /\ verdict'[g] = verdict[g]

\* It takes nothing from its instances.
Grows(f) ==
    \A i \in DOMAIN instances[f] : i \in DOMAIN instances'[f] /\ instances'[f][i] = instances[f][i]

LEMMA OthersOwn ==
  ASSUME IInv, NEW f, OnlyFor(f), NEW g \in Filters \ {f}
  PROVE  Own(g)'
<1>1. Own(g)
  BY DEF IInv
<1>2. /\ rules'[g] = rules[g] /\ ids'[g] = ids[g] /\ instances'[g] = instances[g]
      /\ pc'[g] = pc[g] /\ pkt'[g] = pkt[g] /\ pos'[g] = pos[g]
      /\ goneId'[g] = goneId[g] /\ verdict'[g] = verdict[g]
  BY DEF OnlyFor
<1>3. TablesFit(g)'
  BY <1>1, <1>2 DEF Own, TablesFit, Leaving
<1>4. AllOwned(g)'
  BY <1>1, <1>2 DEF Own, AllOwned
<1>5. RemovalUnderWay(g)'
  BY <1>1, <1>2 DEF Own, RemovalUnderWay
<1>6. VerdictCurrent(g)'
  BY <1>1, <1>2 DEF Own, VerdictCurrent
<1> QED
  BY <1>3, <1>4, <1>5, <1>6 DEF Own

\* A step that touches no table disturbs no lookup.
LEMMA OthersLook ==
  ASSUME IInv, NEW f, OnlyFor(f), instances' = instances, NEW g \in Filters \ {f},
         seen'[g] = seen[g], steady'[g] = steady[g], raced'[g] = raced[g]
  PROVE  LookupUnderWay(g)'
<1>1. LookupUnderWay(g)
  BY DEF IInv
<1>2. /\ pc'[g] = pc[g] /\ pkt'[g] = pkt[g] /\ unread'[g] = unread[g] /\ pos'[g] = pos[g]
      /\ verdict'[g] = verdict[g]
  BY DEF OnlyFor
<1>3. Ahead(g)' <=> Ahead(g)
  BY <1>2 DEF Ahead
<1>4. Connected(g, pkt[g], instances)' <=> Connected(g, pkt[g], instances)
  BY <1>2 DEF Connected
<1> QED
  BY <1>1, <1>2, <1>3, <1>4 DEF LookupUnderWay

\* What the histories say of a filter that looks up a packet.
LEMMA WatchLook ==
  ASSUME NEW g \in Filters, NEW racing, Watch(racing), pc'[g] \in {"scan", "decide"}
  PROVE  /\ seen[g] => seen'[g]
         /\ steady'[g] => steady[g]
         /\ raced[g] => raced'[g]
         /\ pc'[g] = "scan" /\ Connected(g, pkt[g], instances') => seen'[g]
         /\ pc'[g] = "scan" /\ racing \ {g} # {} => raced'[g]
  BY DEF Watch

LEMMA WatchTypes ==
  ASSUME NEW racing, Watch(racing)
  PROVE  /\ seen' \in [Filters -> BOOLEAN] /\ steady' \in [Filters -> BOOLEAN]
         /\ raced' \in [Filters -> BOOLEAN]
  BY DEF Watch

\* What a removal does to a table others notice as a race; what else is done to a
\* table takes nothing away.
LEMMA OthersWatched ==
  ASSUME IInv, NEW f \in Filters, OnlyFor(f), Watch(Removing), f \in Removing \/ Grows(f),
         NEW g \in Filters \ {f}
  PROVE  LookupUnderWay(g)'
<1>1. LookupUnderWay(g)
  BY DEF IInv
<1>2. /\ pc'[g] = pc[g] /\ pkt'[g] = pkt[g] /\ unread'[g] = unread[g] /\ pos'[g] = pos[g]
      /\ verdict'[g] = verdict[g]
  BY DEF OnlyFor
<1>3. \A k \in DOMAIN unread[g] : unread[g][k] \in Filters
  BY LenProperties, ElementOfSeq DEF IInv, TypeOK
<1>4. ASSUME Grows(f), Ahead(g) PROVE Ahead(g)'
  <2>1. PICK k \in DOMAIN unread[g] : \E i \in DOMAIN instances[unread[g][k]] :
            /\ Returns(instances[unread[g][k]][i], pkt[g])
            /\ k = 1 => pos[g] <= i
    BY <1>4 DEF Ahead
  <2>2. PICK h : h = unread[g][k]
    OBVIOUS
  <2>3. PICK i \in DOMAIN instances[h] : Returns(instances[h][i], pkt[g]) /\ (k = 1 => pos[g] <= i)
    BY <2>1, <2>2
  <2>4. h \in Filters
    BY <2>2, <1>3
  <2>5. i \in DOMAIN instances'[h] /\ instances'[h][i] = instances[h][i]
    <3>1. CASE h = f
      BY <3>1, <1>4, <2>3 DEF Grows
    <3>2. CASE h # f
      BY <3>2, <2>3, <2>4 DEF OnlyFor
    <3> QED
      BY <3>1, <3>2
  <2>6. unread'[g][k] = h /\ k \in DOMAIN unread'[g]
    BY <2>2, <1>2
  <2>7. Returns(instances'[h][i], pkt'[g]) /\ (k = 1 => pos'[g] <= i)
    BY <2>3, <2>5, <1>2
  <2> QED
    BY <2>5, <2>6, <2>7 DEF Ahead
<1>5. CASE pc[g] = "scan"
  <2>1. pc'[g] = "scan"
    BY <1>5, <1>2
  <2>2. Connected(g, pkt[g], instances)' => seen'[g]
    BY <2>1, <1>2, WatchLook DEF Connected
  <2>3. steady'[g] /\ ~ raced'[g] => Ahead(g)'
    <3> SUFFICES ASSUME steady'[g], ~ raced'[g] PROVE Ahead(g)'
      OBVIOUS
    <3>1. steady[g] /\ ~ raced[g] /\ ~(Removing \ {g} # {})
      BY <2>1, WatchLook
    <3>2. Grows(f)
      BY <3>1
    <3>3. Ahead(g)
      BY <3>1, <1>1, <1>5 DEF LookupUnderWay
    <3> QED
      BY <3>2, <3>3, <1>4
  <2> QED
    BY <2>1, <2>2, <2>3, <1>1, <1>2 DEF LookupUnderWay
<1>6. CASE pc[g] = "decide"
  <2>1. pc'[g] = "decide"
    BY <1>6, <1>2
  <2>2. (seen[g] => seen'[g]) /\ (steady'[g] => steady[g]) /\ (raced[g] => raced'[g])
    BY <2>1, WatchLook
  <2> QED
    BY <2>1, <2>2, <1>1, <1>2, <1>6 DEF LookupUnderWay
<1>7. CASE pc[g] \notin {"scan", "decide"}
  BY <1>7, <1>1, <1>2 DEF LookupUnderWay
<1> QED
  BY <1>5, <1>6, <1>7

\* A filter that looks up no packet has only the rest of its list of neighbours.
LEMMA NoLookup ==
  ASSUME IInv, NEW f \in Filters, unread'[f] = unread[f], pc'[f] \notin {"scan", "decide"}
  PROVE  LookupUnderWay(f)'
  BY DEF IInv, LookupUnderWay

\* The initial states.
LEMMA InitIInv == ASSUME Init PROVE IInv
<1>1. PICK a \in Actions \ {"reject"} : rules = [f \in Filters |-> <<Default(a)>>]
  BY DEF Init
<1>2. Default(a) \in Rules
  <2>1. Width \in Nat /\ RulesCapacity \in Nat \ {0}
    BY FwFilterAssumption DEF FwFilterAssumption
  <2>2. Power[Width] \in Nat \ {0}
    BY <2>1, PowerPositive
  <2>3. [ip |-> 0, len |-> 0] \in Nets
    BY <2>1, <2>2 DEF Nets, Addresses
  <2>4. 0 \in RuleIds
    BY <2>1 DEF RuleIds
  <2> QED
    BY <2>3, <2>4 DEF Rules, Default, DefaultId
<1>3. DefaultId \in RuleIds /\ RulesCapacity \in Nat \ {0} /\ InstancesCapacity \in Nat
  BY FwFilterAssumption DEF FwFilterAssumption, RuleIds, DefaultId
<1>4. TypeOK
  <2>1. rules \in [Filters -> Seq(Rules)]
    BY <1>1, <1>2
  <2>2. \A S : <<>> \in Seq(S)
    BY EmptySeq
  <2> QED
    BY <2>1, <2>2, <1>3 DEF Init, TypeOK
<1>5. ASSUME NEW f \in Filters PROVE Own(f) /\ LookupUnderWay(f)
  <2>1. /\ rules[f] = <<Default(a)>> /\ ids[f] = {DefaultId} /\ instances[f] = <<>>
        /\ pc[f] = "idle" /\ pos[f] = 1 /\ unread[f] = <<>>
    BY <1>1 DEF Init
  <2>2. Len(rules[f]) = 1 /\ DOMAIN rules[f] = {1} /\ rules[f][1] = Default(a)
    BY <2>1
  <2>3. DOMAIN instances[f] = {} /\ Len(instances[f]) = 0 /\ DOMAIN unread[f] = {}
    BY <2>1
  <2>4. TableExact(rules[f], {DefaultId})
    BY <2>2 DEF TableExact, Default, DefaultId
  <2>5. TablesFit(f)
    BY <2>1, <2>2, <2>3, <2>4, <1>3 DEF TablesFit, Leaving
  <2>6. AllOwned(f) /\ RemovalUnderWay(f) /\ VerdictCurrent(f) /\ LookupUnderWay(f)
    BY <2>1, <2>3 DEF AllOwned, RemovalUnderWay, VerdictCurrent, LookupUnderWay
  <2> QED
    BY <2>5, <2>6 DEF Own
<1> QED
  BY <1>4, <1>5 DEF IInv

-----------------------------------------------------------------------------
(* The steps of a lookup.                                                  *)

LEMMA Assembled ==
  ASSUME IInv, NEW f \in Filters, TypeOK', Own(f)', LookupUnderWay(f)', OnlyFor(f),
         \A g \in Filters \ {f} : LookupUnderWay(g)'
  PROVE  IInv'
  BY OthersOwn DEF IInv

LEMMA ReceiveIInv == ASSUME IInv, NEW f \in Filters, NEW p \in Packets, Receive(f, p) PROVE IInv'
<1>1. /\ pc[f] = "idle" /\ pc' = [pc EXCEPT ![f] = "scan"] /\ pkt' = [pkt EXCEPT ![f] = p]
      /\ unread' = [unread EXCEPT ![f] = SetToSeq(Filters \ {f})]
      /\ seen' = [seen EXCEPT ![f] = Connected(f, p, instances)]
      /\ steady' = [steady EXCEPT ![f] = Connected(f, p, instances)]
      /\ raced' = [raced EXCEPT ![f] = Removing # {}]
      /\ rules' = rules /\ ids' = ids /\ lastId' = lastId /\ instances' = instances
      /\ pos' = pos /\ goneId' = goneId /\ verdict' = verdict
  BY DEF Receive, tableVars
<1>2. TypeOK /\ Own(f) /\ LookupUnderWay(f)
  BY DEF IInv
<1>3. /\ SetToSeq(Filters \ {f}) \in Seq(Filters \ {f})
      /\ \A x \in Filters \ {f} : \E k \in DOMAIN SetToSeq(Filters \ {f}) : SetToSeq(Filters \ {f})[k] = x
  <2>1. IsFiniteSet(Filters)
    BY FwFilterAssumption DEF FwFilterAssumption
  <2>2. IsFiniteSet(Filters \ {f})
    BY <2>1, FS_Subset
  <2> QED
    BY <2>2, OrderFacts
<1>4. PICK order : order = SetToSeq(Filters \ {f})
  OBVIOUS
<1>5. /\ order \in Seq(Filters \ {f}) /\ order \in Seq(Filters)
      /\ \A k \in DOMAIN order : order[k] \in Filters \ {f}
      /\ \A x \in Filters \ {f} : \E k \in DOMAIN order : order[k] = x
  <2>1. order \in Seq(Filters \ {f})
    BY <1>3, <1>4
  <2>2. \A k \in DOMAIN order : order[k] \in Filters \ {f}
    BY <2>1, LenProperties, ElementOfSeq
  <2>3. order \in Seq(Filters)
    BY <2>1
  <2> QED
    BY <2>1, <2>2, <2>3, <1>3, <1>4
<1>6. TypeOK'
  <2>1. Connected(f, p, instances) \in BOOLEAN /\ (Removing # {}) \in BOOLEAN
    BY DEF Connected
  <2> QED
    BY <1>1, <1>2, <1>4, <1>5, <2>1 DEF TypeOK
<1>7. /\ pc'[f] = "scan" /\ pkt'[f] = p /\ unread'[f] = order /\ pos'[f] = 1
      /\ seen'[f] = Connected(f, p, instances) /\ steady'[f] = Connected(f, p, instances)
  BY <1>1, <1>2, <1>4 DEF TypeOK, Own, RemovalUnderWay
<1>8. Own(f)'
  <2>1. TablesFit(f)'
    BY <1>1, <1>2, <1>7 DEF Own, TablesFit, Leaving
  <2>2. AllOwned(f)'
    BY <1>1, <1>2, <1>7 DEF Own, AllOwned
  <2>3. RemovalUnderWay(f)' /\ VerdictCurrent(f)'
    BY <1>7 DEF RemovalUnderWay, VerdictCurrent
  <2> QED
    BY <2>1, <2>2, <2>3 DEF Own
<1>9. LookupUnderWay(f)'
  <2>1. ASSUME Connected(f, p, instances) PROVE Ahead(f)'
    <3>1. PICK g \in Filters \ {f} : \E i \in DOMAIN instances[g] : Returns(instances[g][i], p)
      BY <2>1 DEF Connected
    <3>2. PICK i \in DOMAIN instances[g] : Returns(instances[g][i], p)
      BY <3>1
    <3>3. PICK k \in DOMAIN order : order[k] = g
      BY <1>5
    <3>4. 1 <= i
      <4>1. instances[g] \in Seq(Instances)
        BY <1>2 DEF TypeOK
      <4>2. DOMAIN instances[g] = 1 .. Len(instances[g])
        BY <4>1, LenProperties
      <4> QED
        BY <3>2, <4>2
    <3> QED
      BY <3>2, <3>3, <3>4, <1>1, <1>7 DEF Ahead
  <2> QED
    BY <2>1, <1>1, <1>5, <1>7 DEF LookupUnderWay
<1>10. OnlyFor(f) /\ \A g \in Filters \ {f} : seen'[g] = seen[g] /\ steady'[g] = steady[g] /\ raced'[g] = raced[g]
  BY <1>1, <1>2 DEF OnlyFor, TypeOK
<1> QED
  BY <1>1, <1>6, <1>8, <1>9, <1>10, OthersLook, Assembled

LEMMA ScanIInv == ASSUME IInv, NEW f \in Filters, Scan(f) PROVE IInv'
<1> DEFINE h == Head(unread[f])
           table == instances[h]
           exhausted == pos[f] > Len(table)
           found == ~ exhausted /\ Returns(table[pos[f]], pkt[f])
<1>1. /\ pc[f] = "scan" /\ unread[f] # <<>>
      /\ exhausted =>
            /\ unread' = [unread EXCEPT ![f] = Tail(@)] /\ pos' = [pos EXCEPT ![f] = 1]
            /\ pc' = pc /\ verdict' = verdict
      /\ found =>
            /\ verdict' = [verdict EXCEPT ![f] = "established"] /\ pc' = [pc EXCEPT ![f] = "decide"]
            /\ unread' = [unread EXCEPT ![f] = <<>>] /\ pos' = [pos EXCEPT ![f] = 1]
      /\ ~ exhausted /\ ~ found =>
            /\ pos' = [pos EXCEPT ![f] = @ + 1] /\ pc' = pc /\ unread' = unread /\ verdict' = verdict
      /\ rules' = rules /\ ids' = ids /\ lastId' = lastId /\ instances' = instances /\ pkt' = pkt
      /\ goneId' = goneId /\ seen' = seen /\ steady' = steady /\ raced' = raced
  BY DEF Scan, ScanEntry, tableVars, watchVars
<1>2. TypeOK /\ Own(f) /\ LookupUnderWay(f)
  BY DEF IInv
<1>a. PICK rest : rest = Tail(unread[f])
  OBVIOUS
<1>b. PICK none : none = <<>>
  OBVIOUS
<1>3. /\ unread[f] \in Seq(Filters) /\ pos[f] \in Nat \ {0} /\ Len(unread[f]) \in Nat \ {0}
      /\ DOMAIN unread[f] = 1 .. Len(unread[f]) /\ h = unread[f][1]
      /\ rest \in Seq(Filters) /\ DOMAIN rest = 1 .. Len(unread[f]) - 1
      /\ \A k \in 1 .. Len(unread[f]) - 1 : rest[k] = unread[f][k + 1]
  <2>1. unread[f] \in Seq(Filters) /\ pos[f] \in Nat \ {0}
    BY <1>2 DEF TypeOK
  <2>2. DOMAIN unread[f] = 1 .. Len(unread[f]) /\ Len(unread[f]) \in Nat \ {0}
    BY <2>1, <1>1, LenProperties, EmptySeq
  <2>3. /\ Tail(unread[f]) \in Seq(Filters) /\ Len(Tail(unread[f])) = Len(unread[f]) - 1
        /\ \A k \in 1 .. Len(Tail(unread[f])) : Tail(unread[f])[k] = unread[f][k + 1]
    BY <2>1, <1>1, HeadTailProperties
  <2>4. DOMAIN Tail(unread[f]) = 1 .. Len(Tail(unread[f]))
    BY <2>3, LenProperties
  <2> QED
    BY <2>1, <2>2, <2>3, <2>4, <1>a
<1>4. /\ h \in Filters \ {f} /\ table \in Seq(Instances) /\ Len(table) \in Nat
      /\ DOMAIN table = 1 .. Len(table)
  <2>1. 1 \in DOMAIN unread[f]
    BY <1>3
  <2>2. h \in Filters \ {f}
    BY <2>1, <1>2, <1>3, ElementOfSeq DEF LookupUnderWay
  <2>3. table \in Seq(Instances)
    BY <2>2, <1>2 DEF TypeOK
  <2> QED
    BY <2>2, <2>3, LenProperties
<1> HIDE DEF h, table, exhausted, found
<1>5. /\ exhausted => pos[f] > Len(table)
      /\ ~ exhausted => pos[f] \in DOMAIN table
      /\ found => pos[f] \in DOMAIN table /\ Returns(table[pos[f]], pkt[f])
      /\ ~ exhausted /\ ~ found => ~ Returns(table[pos[f]], pkt[f])
      /\ table = instances[h]
  BY <1>3, <1>4 DEF exhausted, found, table
<1>6. TypeOK'
  <2>1. pos[f] + 1 \in Nat \ {0} /\ none \in Seq(Filters)
    BY <1>3, <1>b, EmptySeq
  <2>2. CASE exhausted
    <3>1. unread' = [unread EXCEPT ![f] = rest]
      BY <2>2, <1>1, <1>a
    <3>2. unread \in [Filters -> Seq(Filters)] /\ pos \in [Filters -> Nat \ {0}] /\ rest \in Seq(Filters)
      BY <1>2, <1>3 DEF TypeOK
    <3>3. pos' = [pos EXCEPT ![f] = 1]
      BY <2>2, <1>1
    <3>4. unread' \in [Filters -> Seq(Filters)]
      BY <3>1, <3>2
    <3>5. pos' \in [Filters -> Nat \ {0}]
      BY <3>2, <3>3
    <3> QED
      BY <2>2, <3>4, <3>5, <1>1, <1>2 DEF TypeOK
  <2>3. CASE found
    <3>1. unread' = [unread EXCEPT ![f] = none]
      BY <2>3, <1>1, <1>b
    <3>2. unread \in [Filters -> Seq(Filters)] /\ pos \in [Filters -> Nat \ {0}] /\ none \in Seq(Filters)
      BY <1>2, <2>1 DEF TypeOK
    <3>3. pos' = [pos EXCEPT ![f] = 1]
      BY <2>3, <1>1
    <3>4. unread' \in [Filters -> Seq(Filters)]
      BY <3>1, <3>2
    <3>5. pos' \in [Filters -> Nat \ {0}]
      BY <3>2, <3>3
    <3> QED
      BY <2>3, <3>4, <3>5, <1>1, <1>2 DEF TypeOK
  <2>4. CASE ~ exhausted /\ ~ found
    BY <2>4, <2>1, <1>1, <1>2, <1>3 DEF TypeOK
  <2> QED
    BY <2>2, <2>3, <2>4
<1>7. /\ exhausted => unread'[f] = rest /\ pos'[f] = 1 /\ pc'[f] = "scan"
      /\ found => verdict'[f] = "established" /\ pc'[f] = "decide" /\ unread'[f] = <<>> /\ pos'[f] = 1
      /\ ~ exhausted /\ ~ found => pos'[f] = pos[f] + 1 /\ pc'[f] = "scan" /\ unread'[f] = unread[f]
  BY <1>1, <1>2, <1>a DEF TypeOK
<1>8. Own(f)'
  <2>1. pc'[f] \in {"scan", "decide"}
    BY <1>7
  <2>2. TablesFit(f)' /\ AllOwned(f)'
    BY <2>1, <1>1, <1>2 DEF Own, TablesFit, AllOwned, Leaving
  <2>3. RemovalUnderWay(f)' /\ VerdictCurrent(f)'
    BY <2>1, <1>1, <1>2, <1>7 DEF Own, RemovalUnderWay, VerdictCurrent
  <2> QED
    BY <2>2, <2>3 DEF Own
<1>9. LookupUnderWay(f)'
  <2>1. CASE found
    <3>1. Connected(f, pkt[f], instances)
      BY <2>1, <1>4, <1>5 DEF Connected
    <3> QED
      BY <2>1, <3>1, <1>1, <1>2, <1>7 DEF LookupUnderWay
  <2>2. CASE ~ found
    <3>1. pc'[f] = "scan"
      BY <2>2, <1>7
    <3>2. ASSUME NEW k \in DOMAIN unread'[f] PROVE unread'[f][k] # f
      <4>1. CASE exhausted
        <5>1. k \in 1 .. Len(unread[f]) - 1 /\ k + 1 \in DOMAIN unread[f]
          BY <4>1, <3>2, <1>3, <1>7
        <5> QED
          BY <4>1, <5>1, <1>2, <1>3, <1>7 DEF LookupUnderWay
      <4>2. CASE ~ exhausted
        BY <4>2, <2>2, <1>2, <1>7 DEF LookupUnderWay
      <4> QED
        BY <4>1, <4>2
    <3>3. ASSUME Ahead(f) PROVE Ahead(f)'
      <4>1. PICK k \in DOMAIN unread[f] : \E i \in DOMAIN instances[unread[f][k]] :
                /\ Returns(instances[unread[f][k]][i], pkt[f])
                /\ k = 1 => pos[f] <= i
        BY <3>3 DEF Ahead
      <4>2. PICK i \in DOMAIN instances[unread[f][k]] :
                /\ Returns(instances[unread[f][k]][i], pkt[f])
                /\ k = 1 => pos[f] <= i
        BY <4>1
      <4>3. k \in 1 .. Len(unread[f])
        BY <1>3
      <4>4. CASE exhausted
        <5>1. k # 1
          <6> SUFFICES ASSUME k = 1 PROVE FALSE
            OBVIOUS
          <6>1. unread[f][k] = h
            BY <1>3
          <6>2. i \in 1 .. Len(table) /\ pos[f] <= i
            BY <6>1, <4>2, <1>4, <1>5
          <6> QED
            BY <6>2, <4>4, <1>3, <1>4, <1>5
        <5>2. k - 1 \in 1 .. Len(unread[f]) - 1 /\ (k - 1) + 1 = k
          BY <5>1, <4>3, <1>3
        <5>3. PICK m : m = k - 1
          OBVIOUS
        <5>4. m \in DOMAIN unread'[f] /\ unread'[f][m] = unread[f][k]
          BY <5>2, <5>3, <4>4, <1>3, <1>7
        <5>5. pos'[f] <= i
          <6>1. unread[f][k] \in Filters
            BY <4>3, <1>3, ElementOfSeq
          <6>2. instances[unread[f][k]] \in Seq(Instances)
            BY <6>1, <1>2 DEF TypeOK
          <6>3. DOMAIN instances[unread[f][k]] = 1 .. Len(instances[unread[f][k]])
            BY <6>2, LenProperties
          <6> QED
            BY <6>3, <4>2, <4>4, <1>7
        <5> QED
          BY <5>4, <5>5, <4>2, <1>1 DEF Ahead
      <4>5. CASE ~ exhausted
        <5>1. k = 1 => pos[f] + 1 <= i
          <6> SUFFICES ASSUME k = 1 PROVE pos[f] + 1 <= i
            OBVIOUS
          <6>1. unread[f][k] = h
            BY <1>3
          <6>2. i \in 1 .. Len(table) /\ pos[f] <= i /\ Returns(table[i], pkt[f])
            BY <6>1, <4>2, <1>4, <1>5
          <6>3. i # pos[f]
            BY <6>2, <4>5, <2>2, <1>5
          <6> QED
            BY <6>2, <6>3, <1>3, <1>4
        <5>2. unread'[f] = unread[f] /\ pos'[f] = pos[f] + 1
          BY <4>5, <2>2, <1>7
        <5> QED
          BY <5>1, <5>2, <4>2, <1>1 DEF Ahead
      <4> QED
        BY <4>4, <4>5
    <3>4. unread'[f] = <<>> => pos'[f] = 1
      BY <2>2, <1>1, <1>7
    <3>5. Connected(f, pkt[f], instances)' <=> Connected(f, pkt[f], instances)
      BY <1>1 DEF Connected
    <3> QED
      BY <3>1, <3>2, <3>3, <3>4, <3>5, <1>1, <1>2 DEF LookupUnderWay
  <2> QED
    BY <2>1, <2>2
<1>10. OnlyFor(f)
  <2>1. CASE exhausted
    BY <2>1, <1>1, <1>2 DEF OnlyFor, TypeOK
  <2>2. CASE found
    BY <2>2, <1>1, <1>2 DEF OnlyFor, TypeOK
  <2>3. CASE ~ exhausted /\ ~ found
    BY <2>3, <1>1, <1>2 DEF OnlyFor, TypeOK
  <2> QED
    BY <2>1, <2>2, <2>3
<1> QED
  BY <1>1, <1>6, <1>8, <1>9, <1>10, OthersLook, Assembled

LEMMA ScanEndsIInv == ASSUME IInv, NEW f \in Filters, ScanEnds(f) PROVE IInv'
<1>1. /\ pc[f] = "scan" /\ unread[f] = <<>>
      /\ verdict' = [verdict EXCEPT ![f] = FindRule(rules[f], pkt[f]).action]
      /\ pc' = [pc EXCEPT ![f] = "decide"]
      /\ rules' = rules /\ ids' = ids /\ lastId' = lastId /\ instances' = instances /\ pkt' = pkt
      /\ unread' = unread /\ pos' = pos /\ goneId' = goneId
      /\ seen' = seen /\ steady' = steady /\ raced' = raced
  BY DEF ScanEnds, tableVars, watchVars
<1>2. TypeOK /\ Own(f) /\ LookupUnderWay(f)
  BY DEF IInv
<1>3. FindRule(rules[f], pkt[f]) \in Rules
  <2>1. /\ rules[f] \in Seq(Rules) /\ pkt[f] \in Packets /\ Len(rules[f]) >= 1
        /\ rules[f][1] = Default(rules[f][1].action)
    BY <1>1, <1>2 DEF TypeOK, Own, TablesFit, TableExact, VerdictCurrent
  <2>2. \E k \in DOMAIN rules[f] : FindRule(rules[f], pkt[f]) = rules[f][k]
    BY <2>1, FindRuleFacts, FwFilterAssumption
  <2> QED
    BY <2>1, <2>2, LenProperties, ElementOfSeq
<1>4. PICK a : a = FindRule(rules[f], pkt[f]).action
  OBVIOUS
<1>5. a \in Actions /\ a # "established"
  BY <1>3, <1>4, FwFilterAssumption DEF Rules, FwFilterAssumption
<1>6. TypeOK'
  BY <1>1, <1>2, <1>4, <1>5 DEF TypeOK
<1>7. pc'[f] = "decide" /\ verdict'[f] = a
  BY <1>1, <1>2, <1>4 DEF TypeOK
<1>8. Own(f)'
  <2>1. TablesFit(f)' /\ AllOwned(f)'
    BY <1>1, <1>2, <1>7 DEF Own, TablesFit, AllOwned, Leaving
  <2>2. RemovalUnderWay(f)'
    BY <1>1, <1>2, <1>7 DEF LookupUnderWay, RemovalUnderWay
  <2>3. VerdictCurrent(f)'
    BY <1>1, <1>2, <1>4, <1>7 DEF Own, VerdictCurrent
  <2> QED
    BY <2>1, <2>2, <2>3 DEF Own
<1>9. LookupUnderWay(f)'
  <2>1. ~ Ahead(f)
    BY <1>1 DEF Ahead
  <2> QED
    BY <2>1, <1>1, <1>2, <1>5, <1>7 DEF LookupUnderWay
<1>10. OnlyFor(f)
  BY <1>1, <1>2 DEF OnlyFor, TypeOK
<1> QED
  BY <1>1, <1>6, <1>8, <1>9, <1>10, OthersLook, Assembled

LEMMA DecideIInv == ASSUME IInv, NEW f \in Filters, Decide(f) PROVE IInv'
<1> DEFINE new == NewInstance(FindRule(rules[f], pkt[f]), pkt[f])
           adds == verdict[f] = "connect" /\ HasRoom(f) /\ new \notin Range(instances[f])
<1>1. /\ pc[f] = "decide"
      /\ instances' = IF adds THEN [instances EXCEPT ![f] = Append(@, new)] ELSE instances
      /\ pc' = [pc EXCEPT ![f] = "idle"] /\ verdict' = [verdict EXCEPT ![f] = "none"]
      /\ pkt' = [pkt EXCEPT ![f] = NoPacket]
      /\ rules' = rules /\ ids' = ids /\ lastId' = lastId /\ unread' = unread /\ pos' = pos
      /\ goneId' = goneId
      /\ Watch(Removing)
  BY DEF Decide, tableVars
<1>2. TypeOK /\ Own(f) /\ LookupUnderWay(f)
  BY DEF IInv
<1>3. /\ rules[f] \in Seq(Rules) /\ pkt[f] \in Packets /\ Len(rules[f]) >= 1
      /\ rules[f][1] = Default(rules[f][1].action)
  BY <1>1, <1>2 DEF TypeOK, Own, TablesFit, TableExact, VerdictCurrent
<1>4. PICK k \in DOMAIN rules[f] : FindRule(rules[f], pkt[f]) = rules[f][k]
  BY <1>3, FindRuleFacts, FwFilterAssumption
<1>5. rules[f][k] \in Rules
  BY <1>3, <1>4, LenProperties, ElementOfSeq
<1>6. new \in Instances /\ new.rule = rules[f][k].id
  <2>1. pkt[f].src \in Endpoints /\ pkt[f].dst \in Endpoints
    BY <1>3, FwFilterAssumption DEF FwFilterAssumption
  <2> QED
    BY <2>1, <1>4, <1>5 DEF NewInstance, Instances, Endpoints, Rules
<1>7. adds => rules[f][k].action = "connect" /\ Len(instances[f]) < InstancesCapacity
  BY <1>1, <1>2, <1>4 DEF Own, VerdictCurrent, HasRoom
<1>8. /\ instances[f] \in Seq(Instances) /\ Len(instances[f]) \in Nat
      /\ DOMAIN instances[f] = 1 .. Len(instances[f])
  <2>1. instances[f] \in Seq(Instances)
    BY <1>2 DEF TypeOK
  <2> QED
    BY <2>1, LenProperties
<1>9. PICK x \in Instances : x = new
  BY <1>6
<1> HIDE DEF new, adds
<1>10. /\ Append(instances[f], x) \in Seq(Instances) /\ Len(Append(instances[f], x)) = Len(instances[f]) + 1
       /\ DOMAIN Append(instances[f], x) = (1 .. Len(instances[f])) \cup {Len(instances[f]) + 1}
       /\ \A i \in 1 .. Len(instances[f]) : Append(instances[f], x)[i] = instances[f][i]
       /\ Append(instances[f], x)[Len(instances[f]) + 1] = x
  <2>1. /\ Append(instances[f], x) \in Seq(Instances) /\ Len(Append(instances[f], x)) = Len(instances[f]) + 1
        /\ \A i \in 1 .. Len(instances[f]) : Append(instances[f], x)[i] = instances[f][i]
        /\ Append(instances[f], x)[Len(instances[f]) + 1] = x
    BY <1>8, AppendProperties
  <2>2. DOMAIN Append(instances[f], x) = 1 .. Len(instances[f]) + 1
    BY <2>1, LenProperties
  <2>3. 1 .. Len(instances[f]) + 1 = (1 .. Len(instances[f])) \cup {Len(instances[f]) + 1}
    BY <1>8
  <2> QED
    BY <2>1, <2>2, <2>3
<1>11. /\ adds => instances'[f] = Append(instances[f], x)
       /\ ~ adds => instances'[f] = instances[f]
  BY <1>1, <1>2, <1>9 DEF TypeOK
<1>12. instances' \in [Filters -> Seq(Instances)] /\ \A g \in Filters \ {f} : instances'[g] = instances[g]
  <2>1. CASE adds
    BY <2>1, <1>1, <1>2, <1>9, <1>10 DEF TypeOK
  <2>2. CASE ~ adds
    BY <2>2, <1>1, <1>2 DEF TypeOK
  <2> QED
    BY <2>1, <2>2
<1>13. TypeOK'
  BY <1>1, <1>2, <1>12, WatchTypes DEF TypeOK
<1>14. pc'[f] = "idle"
  BY <1>1, <1>2 DEF TypeOK
<1>15. Grows(f)
  BY <1>8, <1>10, <1>11 DEF Grows
<1>16. Own(f)'
  <2>1. Len(instances'[f]) <= InstancesCapacity
    <3>1. InstancesCapacity \in Nat /\ Len(instances[f]) <= InstancesCapacity
      BY <1>2, FwFilterAssumption DEF FwFilterAssumption, Own, TablesFit
    <3> QED
      BY <3>1, <1>7, <1>8, <1>10, <1>11
  <2>2. TablesFit(f)'
    BY <2>1, <1>1, <1>2, <1>14 DEF Own, TablesFit, Leaving
  <2>3. AllOwned(f)'
    <3>1. \A i \in 1 .. Len(instances[f]) : Owns(rules[f], instances[f][i])
      BY <1>1, <1>2, <1>8 DEF Own, AllOwned
    <3>2. CASE adds
      <4>1. Owns(rules[f], x)
        BY <3>2, <1>4, <1>6, <1>7, <1>9 DEF Owns
      <4> QED
        BY <3>1, <3>2, <4>1, <1>1, <1>10, <1>11 DEF AllOwned
    <3>3. CASE ~ adds
      BY <3>1, <3>3, <1>1, <1>8, <1>11 DEF AllOwned
    <3> QED
      BY <3>2, <3>3
  <2>4. RemovalUnderWay(f)' /\ VerdictCurrent(f)'
    BY <1>1, <1>2, <1>14 DEF Own, RemovalUnderWay, VerdictCurrent
  <2> QED
    BY <2>2, <2>3, <2>4 DEF Own
<1>17. LookupUnderWay(f)'
  BY <1>1, <1>14, NoLookup
<1>18. OnlyFor(f)
  BY <1>1, <1>2, <1>12 DEF OnlyFor, TypeOK
<1> QED
  BY <1>1, <1>13, <1>15, <1>16, <1>17, <1>18, OthersWatched, Assembled

-----------------------------------------------------------------------------
(* The steps of an update.                                                 *)

\* The assert of fw_filter_remove_rule: an id in the table has its rule.
LEMMA RuleOfFacts ==
  ASSUME NEW f, NEW known, rules[f] \in Seq(Rules), TableExact(rules[f], known),
         NEW id \in known, id # DefaultId
  PROVE  RuleOf(f, id) \in 2 .. Len(rules[f]) /\ rules[f][RuleOf(f, id)].id = id
<1>1. Len(rules[f]) \in Nat /\ DOMAIN rules[f] = 1 .. Len(rules[f])
  BY LenProperties
<1>2. PICK i \in DOMAIN rules[f] : rules[f][i].id = id
  BY DEF TableExact
<1>3. i # 1
  BY <1>2 DEF TableExact, Default
<1>4. i \in 2 .. Len(rules[f])
  BY <1>1, <1>3
<1> QED
  BY <1>2, <1>4 DEF RuleOf

LEMMA AddRuleIInv ==
  ASSUME IInv, NEW f \in Filters, NEW s \in Shapes, NEW a \in Actions, AddRule(f, s, a) PROVE IInv'
<1> DEFINE new == Stored(NextId(f), s, a)
<1>1. /\ pc[f] = "idle" /\ Len(rules[f]) < RulesCapacity
      /\ \A i \in DOMAIN rules[f] : ~ Clash(s, a, rules[f][i])
      /\ rules' = [rules EXCEPT ![f] = Append(@, new)]
      /\ ids' = [ids EXCEPT ![f] = @ \cup {NextId(f)}]
      /\ lastId' = [lastId EXCEPT ![f] = NextId(f)]
      /\ instances' = instances /\ pc' = pc /\ pkt' = pkt /\ unread' = unread /\ pos' = pos
      /\ verdict' = verdict /\ goneId' = goneId /\ seen' = seen /\ steady' = steady /\ raced' = raced
  BY DEF AddRule, Stored, scanVars, watchVars
<1>2. TypeOK /\ Own(f)
  BY DEF IInv
<1>3. rules[f] \in Seq(Rules) /\ TableExact(rules[f], ids[f]) /\ ids[f] \subseteq RuleIds /\ lastId[f] \in RuleIds
  <2>1. ids[f] \cup Leaving(f) = ids[f]
    BY <1>1 DEF Leaving
  <2> QED
    BY <2>1, <1>2 DEF TypeOK, Own, TablesFit
<1>4. NextId(f) \in RuleIds \ ids[f]
  <2>1. RuleIds \ ids[f] # {}
    BY <1>1, <1>3, IdIsFree, FwFilterAssumption DEF TableExact
  <2> QED
    BY <2>1, <1>3, ReserveId, FwFilterAssumption
<1>5. PICK id : id = NextId(f)
  OBVIOUS
<1>6. PICK r : r = new
  OBVIOUS
<1>7. /\ r \in Rules /\ r.id = id
      /\ \A i \in DOMAIN rules[f] : ~ Clash(r, r.action, rules[f][i])
  BY <1>1, <1>4, <1>5, <1>6, StoredFacts, FwFilterAssumption
<1> HIDE DEF new
<1>8. PICK t : t = Append(rules[f], r)
  OBVIOUS
<1>9. /\ t \in Seq(Rules) /\ Len(t) = Len(rules[f]) + 1 /\ TableExact(t, ids[f] \cup {id})
      /\ \A inst : Owns(rules[f], inst) => Owns(t, inst)
  BY <1>3, <1>4, <1>5, <1>7, <1>8, RuleAdded
<1>10. rules' = [rules EXCEPT ![f] = t] /\ ids' = [ids EXCEPT ![f] = ids[f] \cup {id}]
  BY <1>1, <1>5, <1>6, <1>8
<1>11. TypeOK'
  <2>1. rules' \in [Filters -> Seq(Rules)]
    BY <1>2, <1>9, <1>10 DEF TypeOK
  <2>2. ids' \in [Filters -> SUBSET RuleIds] /\ lastId' \in [Filters -> RuleIds]
    BY <1>1, <1>2, <1>4, <1>5, <1>10 DEF TypeOK
  <2> QED
    BY <2>1, <2>2, <1>1, <1>2 DEF TypeOK
<1>12. rules'[f] = t /\ ids'[f] = ids[f] \cup {id} /\ pc'[f] = "idle"
  BY <1>1, <1>2, <1>10 DEF TypeOK
<1>13. Own(f)'
  <2>1. TablesFit(f)'
    <3>1. Leaving(f)' = {} /\ (ids[f] \cup {id}) \cup {} = ids[f] \cup {id}
      BY <1>12 DEF Leaving
    <3>2. Len(t) <= RulesCapacity
      <4>1. RulesCapacity \in Nat /\ Len(rules[f]) \in Nat
        BY <1>3, LenProperties, FwFilterAssumption DEF FwFilterAssumption
      <4> QED
        BY <4>1, <1>1, <1>9
    <3>3. Len(instances'[f]) <= InstancesCapacity
      BY <1>1, <1>2 DEF Own, TablesFit
    <3>4. TableExact(rules'[f], ids'[f] \cup Leaving(f)')
      BY <3>1, <1>9, <1>12
    <3> QED
      BY <3>2, <3>3, <3>4, <1>12 DEF TablesFit
  <2>2. AllOwned(f)'
    BY <1>1, <1>2, <1>9, <1>12 DEF Own, AllOwned
  <2>3. RemovalUnderWay(f)' /\ VerdictCurrent(f)'
    BY <1>1, <1>2, <1>12 DEF Own, RemovalUnderWay, VerdictCurrent
  <2> QED
    BY <2>1, <2>2, <2>3 DEF Own
<1>14. LookupUnderWay(f)'
  BY <1>1, <1>12, NoLookup
<1>15. OnlyFor(f)
  BY <1>1, <1>2, <1>10 DEF OnlyFor, TypeOK
<1> QED
  BY <1>1, <1>11, <1>13, <1>14, <1>15, OthersLook, Assembled

\* A removal starts: the id is given back, the rule and its instances are there.
LEMMA RemovalStarts ==
  ASSUME IInv, NEW f \in Filters, NEW id \in RuleIds, pc[f] = "idle", id # DefaultId => id \in ids[f],
         ids' = [ids EXCEPT ![f] = @ \ ({id} \ {DefaultId})], pc' = [pc EXCEPT ![f] = "remove"],
         goneId' = [goneId EXCEPT ![f] = id], rules' = rules, lastId' = lastId,
         instances' = instances, pkt' = pkt, unread' = unread, pos' = pos, verdict' = verdict,
         Watch(Removing)
  PROVE  IInv'
<1>1. TypeOK /\ Own(f)
  BY DEF IInv
<1>2. TypeOK'
  <2>1. ids' \in [Filters -> SUBSET RuleIds] /\ goneId' \in [Filters -> RuleIds]
    BY <1>1 DEF TypeOK
  <2> QED
    BY <2>1, <1>1, WatchTypes DEF TypeOK
<1>3. ids'[f] = ids[f] \ ({id} \ {DefaultId}) /\ pc'[f] = "remove" /\ goneId'[f] = id /\ pos'[f] = 1
  BY <1>1 DEF TypeOK, Own, RemovalUnderWay
<1>4. Own(f)'
  <2>1. TablesFit(f)'
    <3>1. ids[f] \cup Leaving(f) = ids[f]
      BY DEF Leaving
    <3>2. ids'[f] \cup Leaving(f)' = ids[f]
      BY <1>3 DEF Leaving
    <3> QED
      BY <3>1, <3>2, <1>1 DEF Own, TablesFit
  <2>2. AllOwned(f)'
    BY <1>1, <1>3 DEF Own, AllOwned
  <2>3. RemovalUnderWay(f)'
    <3>1. instances[f] \in Seq(Instances)
      BY <1>1 DEF TypeOK
    <3>2. DOMAIN instances[f] = 1 .. Len(instances[f])
      BY <3>1, LenProperties
    <3>3. \A i \in DOMAIN instances[f] : ~(i < 1)
      BY <3>2
    <3> QED
      BY <3>3, <1>3 DEF RemovalUnderWay
  <2>4. VerdictCurrent(f)'
    BY <1>3 DEF VerdictCurrent
  <2> QED
    BY <2>1, <2>2, <2>3, <2>4 DEF Own
<1>5. LookupUnderWay(f)'
  BY <1>3, NoLookup
<1>6. OnlyFor(f)
  BY <1>1 DEF OnlyFor, TypeOK
<1>7. Grows(f)
  BY DEF Grows
<1> QED
  BY <1>2, <1>4, <1>5, <1>6, <1>7, OthersWatched, Assembled

\* A table t of which no instance loses its rule takes the place of f's.
LEMMA TableReplaced ==
  ASSUME IInv, NEW f \in Filters, NEW t \in Seq(Rules), NEW known \in SUBSET RuleIds,
         pc[f] \in {"idle", "remove"},
         TableExact(t, known), Len(t) <= Len(rules[f]),
         \A i \in DOMAIN instances[f] : Owns(t, instances[f][i]),
         rules' = [rules EXCEPT ![f] = t], ids' = [ids EXCEPT ![f] = known],
         pc' = [pc EXCEPT ![f] = "idle"], pos' = [pos EXCEPT ![f] = 1],
         goneId' \in [Filters -> RuleIds], \A g \in Filters \ {f} : goneId'[g] = goneId[g],
         lastId' = lastId, instances' = instances, pkt' = pkt, unread' = unread, verdict' = verdict,
         Watch(Removing)
  PROVE  IInv'
<1>1. TypeOK /\ Own(f)
  BY DEF IInv
<1>2. TypeOK'
  <2>1. rules' \in [Filters -> Seq(Rules)]
    BY <1>1 DEF TypeOK
  <2>2. ids' \in [Filters -> SUBSET RuleIds] /\ pos' \in [Filters -> Nat \ {0}]
    BY <1>1 DEF TypeOK
  <2> QED
    BY <2>1, <2>2, <1>1, WatchTypes DEF TypeOK
<1>3. rules'[f] = t /\ ids'[f] = known /\ pc'[f] = "idle" /\ pos'[f] = 1
  BY <1>1 DEF TypeOK
<1>4. Own(f)'
  <2>1. TablesFit(f)'
    <3>1. known \cup Leaving(f)' = known
      BY <1>3 DEF Leaving
    <3>2. Len(t) <= RulesCapacity
      <4>1. RulesCapacity \in Nat /\ Len(rules[f]) \in Nat /\ Len(t) \in Nat /\ Len(rules[f]) <= RulesCapacity
        BY <1>1, LenProperties, FwFilterAssumption DEF FwFilterAssumption, TypeOK, Own, TablesFit
      <4> QED
        BY <4>1
    <3> QED
      BY <3>1, <3>2, <1>1, <1>3 DEF Own, TablesFit
  <2>2. AllOwned(f)'
    BY <1>3 DEF AllOwned
  <2>3. RemovalUnderWay(f)' /\ VerdictCurrent(f)'
    BY <1>3 DEF RemovalUnderWay, VerdictCurrent
  <2> QED
    BY <2>1, <2>2, <2>3 DEF Own
<1>5. LookupUnderWay(f)'
  BY <1>3, NoLookup
<1>6. OnlyFor(f)
  BY <1>1 DEF OnlyFor, TypeOK
<1>7. Grows(f)
  BY DEF Grows
<1> QED
  BY <1>2, <1>4, <1>5, <1>6, <1>7, OthersWatched, Assembled

LEMMA RemoveRuleIInv ==
  ASSUME IInv, NEW f \in Filters, NEW id \in RuleIds, RemoveRule(f, id) PROVE IInv'
<1> DEFINE n == RuleOf(f, id)
<1>1. /\ pc[f] = "idle" /\ id # DefaultId /\ id \in ids[f]
      /\ ids' = [ids EXCEPT ![f] = @ \ {id}]
      /\ rules[f][n].action = "connect" =>
            pc' = [pc EXCEPT ![f] = "remove"] /\ goneId' = [goneId EXCEPT ![f] = id] /\ rules' = rules
      /\ rules[f][n].action # "connect" =>
            rules' = [rules EXCEPT ![f] = RemoveAt(@, n)] /\ pc' = pc /\ goneId' = goneId
      /\ lastId' = lastId /\ instances' = instances /\ pkt' = pkt /\ unread' = unread /\ pos' = pos
      /\ verdict' = verdict
      /\ Watch(Removing)
  BY DEF RemoveRule, RemoveFrom, scanVars
<1>2. TypeOK /\ Own(f)
  BY DEF IInv
<1> HIDE DEF n
<1>3. CASE rules[f][n].action = "connect"
  <2>1. ids' = [ids EXCEPT ![f] = @ \ ({id} \ {DefaultId})]
    <3>1. {id} \ {DefaultId} = {id}
      BY <1>1
    <3> QED
      BY <3>1, <1>1
  <2> QED
    BY <2>1, <1>1, <1>3, RemovalStarts
<1>4. CASE rules[f][n].action # "connect"
  <2>1. rules[f] \in Seq(Rules) /\ TableExact(rules[f], ids[f]) /\ ids[f] \subseteq RuleIds
    <3>1. ids[f] \cup Leaving(f) = ids[f]
      BY <1>1 DEF Leaving
    <3> QED
      BY <3>1, <1>2 DEF TypeOK, Own, TablesFit
  <2>2. n \in 2 .. Len(rules[f]) /\ rules[f][n].id = id
    BY <2>1, <1>1, RuleOfFacts DEF n
  <2>3. PICK t : t = RemoveAt(rules[f], n)
    OBVIOUS
  <2>4. /\ t \in Seq(Rules) /\ Len(t) = Len(rules[f]) - 1 /\ TableExact(t, ids[f] \ {id})
        /\ \A inst : Owns(rules[f], inst) => Owns(t, inst)
    BY <2>1, <2>2, <2>3, <1>4, RuleRemoved
  <2>5. Len(t) <= Len(rules[f])
    BY <2>1, <2>4, LenProperties
  <2>6. \A i \in DOMAIN instances[f] : Owns(t, instances[f][i])
    BY <2>4, <1>1, <1>2 DEF Own, AllOwned
  <2>7. /\ rules' = [rules EXCEPT ![f] = t] /\ ids' = [ids EXCEPT ![f] = ids[f] \ {id}]
        /\ pc' = [pc EXCEPT ![f] = "idle"] /\ pos' = [pos EXCEPT ![f] = 1]
    BY <2>3, <1>1, <1>2, <1>4 DEF TypeOK, Own, RemovalUnderWay
  <2>8. goneId' \in [Filters -> RuleIds] /\ \A g \in Filters \ {f} : goneId'[g] = goneId[g]
    BY <1>1, <1>2, <1>4 DEF TypeOK
  <2>9. ids[f] \ {id} \in SUBSET RuleIds
    BY <2>1
  <2> QED
    BY <2>4, <2>5, <2>6, <2>7, <2>8, <2>9, <1>1, TableReplaced
<1> QED
  BY <1>3, <1>4

LEMMA SetDefaultIInv ==
  ASSUME IInv, NEW f \in Filters, NEW a \in Actions, SetDefault(f, a) PROVE IInv'
<1>1. /\ pc[f] = "idle"
      /\ rules[f][1].action = "connect" =>
            pc' = [pc EXCEPT ![f] = "remove"] /\ goneId' = [goneId EXCEPT ![f] = DefaultId] /\ rules' = rules
      /\ rules[f][1].action # "connect" =>
            rules' = [rules EXCEPT ![f][1].action = a] /\ pc' = pc /\ goneId' = goneId
      /\ ids' = ids /\ lastId' = lastId /\ instances' = instances /\ pkt' = pkt /\ unread' = unread
      /\ pos' = pos /\ verdict' = verdict
      /\ Watch(Removing)
  BY DEF SetDefault, scanVars
<1>2. TypeOK /\ Own(f)
  BY DEF IInv
<1>3. CASE rules[f][1].action = "connect"
  <2>1. ids' = [ids EXCEPT ![f] = @ \ ({DefaultId} \ {DefaultId})]
    <3>1. \A s : s \ ({DefaultId} \ {DefaultId}) = s
      OBVIOUS
    <3>2. ids[f] \ ({DefaultId} \ {DefaultId}) = ids[f]
      BY <3>1
    <3> QED
      BY <3>2, <1>1, <1>2 DEF TypeOK
  <2>2. DefaultId \in RuleIds
    BY FwFilterAssumption DEF FwFilterAssumption, RuleIds, DefaultId
  <2> QED
    BY <2>1, <2>2, <1>1, <1>3, RemovalStarts
<1>4. CASE rules[f][1].action # "connect"
  <2>1. rules[f] \in Seq(Rules) /\ TableExact(rules[f], ids[f]) /\ ids[f] \in SUBSET RuleIds
    <3>1. ids[f] \cup Leaving(f) = ids[f]
      BY <1>1 DEF Leaving
    <3> QED
      BY <3>1, <1>2 DEF TypeOK, Own, TablesFit
  <2>2. PICK t : t = [rules[f] EXCEPT ![1].action = a]
    OBVIOUS
  <2>3. /\ t \in Seq(Rules) /\ Len(t) = Len(rules[f]) /\ TableExact(t, ids[f])
        /\ \A inst : Owns(rules[f], inst) => Owns(t, inst)
    BY <2>1, <2>2, <1>4, DefaultSet, FwFilterAssumption
  <2>4. Len(t) <= Len(rules[f])
    BY <2>1, <2>3, LenProperties
  <2>5. \A i \in DOMAIN instances[f] : Owns(t, instances[f][i])
    BY <2>3, <1>1, <1>2 DEF Own, AllOwned
  <2>6. /\ rules' = [rules EXCEPT ![f] = t] /\ ids' = [ids EXCEPT ![f] = ids[f]]
        /\ pc' = [pc EXCEPT ![f] = "idle"] /\ pos' = [pos EXCEPT ![f] = 1]
    BY <2>2, <1>1, <1>2, <1>4 DEF TypeOK, Own, RemovalUnderWay
  <2>7. goneId' \in [Filters -> RuleIds] /\ \A g \in Filters \ {f} : goneId'[g] = goneId[g]
    BY <1>1, <1>2, <1>4 DEF TypeOK
  <2> QED
    BY <2>1, <2>3, <2>4, <2>5, <2>6, <2>7, <1>1, TableReplaced
<1> QED
  BY <1>3, <1>4

-----------------------------------------------------------------------------
(* The steps of a removal.                                                 *)

LEMMA RemoveSkipIInv == ASSUME IInv, NEW f \in Filters, RemoveSkip(f) PROVE IInv'
<1>1. /\ pc[f] = "remove" /\ pos[f] <= Len(instances[f]) /\ instances[f][pos[f]].rule # goneId[f]
      /\ pos' = [pos EXCEPT ![f] = @ + 1]
      /\ rules' = rules /\ ids' = ids /\ lastId' = lastId /\ instances' = instances /\ pc' = pc
      /\ pkt' = pkt /\ unread' = unread /\ verdict' = verdict /\ goneId' = goneId
      /\ seen' = seen /\ steady' = steady /\ raced' = raced
  BY DEF RemoveSkip, tableVars, watchVars
<1>2. TypeOK /\ Own(f)
  BY DEF IInv
<1>3. pos[f] \in Nat \ {0} /\ pos[f] + 1 \in Nat \ {0}
  BY <1>2 DEF TypeOK
<1>4. TypeOK'
  <2>1. pos' \in [Filters -> Nat \ {0}]
    BY <1>1, <1>2, <1>3 DEF TypeOK
  <2> QED
    BY <2>1, <1>1, <1>2 DEF TypeOK
<1>5. pos'[f] = pos[f] + 1 /\ pc'[f] = "remove"
  BY <1>1, <1>2 DEF TypeOK
<1>6. Own(f)'
  <2>1. TablesFit(f)' /\ AllOwned(f)' /\ VerdictCurrent(f)'
    BY <1>1, <1>2, <1>5 DEF Own, TablesFit, AllOwned, VerdictCurrent, Leaving
  <2>2. RemovalUnderWay(f)'
    <3>1. instances[f] \in Seq(Instances)
      BY <1>2 DEF TypeOK
    <3>2. DOMAIN instances[f] = 1 .. Len(instances[f])
      BY <3>1, LenProperties
    <3>3. \A i \in DOMAIN instances[f] : i < pos[f] + 1 => i < pos[f] \/ i = pos[f]
      BY <3>2, <1>3
    <3>4. \A i \in DOMAIN instances[f] : i < pos[f] + 1 => instances[f][i].rule # goneId[f]
      BY <3>3, <1>1, <1>2 DEF Own, RemovalUnderWay
    <3> QED
      BY <3>4, <1>1, <1>2, <1>5 DEF Own, RemovalUnderWay
  <2> QED
    BY <2>1, <2>2 DEF Own
<1>7. LookupUnderWay(f)'
  BY <1>1, <1>5, NoLookup
<1>8. OnlyFor(f)
  BY <1>1, <1>2 DEF OnlyFor, TypeOK
<1> QED
  BY <1>1, <1>4, <1>6, <1>7, <1>8, OthersLook, Assembled

\* What a removal at an index of the table says of that index.
LEMMA PlaceFacts ==
  ASSUME TypeOK, NEW f \in Filters
  PROVE  /\ instances[f] \in Seq(Instances) /\ Len(instances[f]) \in Nat
         /\ DOMAIN instances[f] = 1 .. Len(instances[f])
         /\ \A i \in 1 .. Len(instances[f]) : instances[f][i] \in Instances
         /\ pos[f] \in Nat \ {0}
  BY LenProperties, ElementOfSeq DEF TypeOK

LEMMA RemoveCopyIInv == ASSUME IInv, NEW f \in Filters, RemoveCopy(f) PROVE IInv'
<1> DEFINE old == instances[f][pos[f]]
           new == Last(instances[f])
           mixtures == [rule : {old.rule, new.rule}, sip : {old.sip, new.sip},
                        sport : {old.sport, new.sport}, dip : {old.dip, new.dip},
                        dport : {old.dport, new.dport}]
<1>1. /\ pc[f] = "remove" /\ pos[f] <= Len(instances[f])
      /\ \E torn \in mixtures : instances' = [instances EXCEPT ![f][pos[f]] = torn]
      /\ pc' = [pc EXCEPT ![f] = "moving"]
      /\ rules' = rules /\ ids' = ids /\ lastId' = lastId /\ pkt' = pkt /\ unread' = unread /\ pos' = pos
      /\ verdict' = verdict /\ goneId' = goneId
      /\ Watch(Removing)
  BY DEF RemoveCopy, tableVars, scanVars
<1>2. TypeOK /\ Own(f)
  BY DEF IInv
<1>3. /\ instances[f] \in Seq(Instances) /\ Len(instances[f]) \in Nat
      /\ DOMAIN instances[f] = 1 .. Len(instances[f])
      /\ \A i \in 1 .. Len(instances[f]) : instances[f][i] \in Instances
      /\ pos[f] \in 1 .. Len(instances[f])
  BY <1>1, <1>2, PlaceFacts
<1>4. PICK torn \in mixtures : instances' = [instances EXCEPT ![f][pos[f]] = torn]
  BY <1>1
<1>5. torn \in Instances
  <2>1. Len(instances[f]) \in 1 .. Len(instances[f])
    BY <1>3
  <2>2. old \in Instances /\ new \in Instances
    BY <2>1, <1>3 DEF Last
  <2>3. /\ {old.rule, new.rule} \subseteq RuleIds
        /\ {old.sip, new.sip} \subseteq Addresses /\ {old.dip, new.dip} \subseteq Addresses
        /\ {old.sport, new.sport} \subseteq Ports /\ {old.dport, new.dport} \subseteq Ports
    BY <2>2 DEF Instances
  <2> HIDE DEF old, new
  <2> QED
    BY <2>3 DEF Instances
<1> HIDE DEF mixtures, old, new
<1>6. PICK u : u = [instances[f] EXCEPT ![pos[f]] = torn]
  OBVIOUS
<1>7. /\ u \in Seq(Instances) /\ Len(u) = Len(instances[f]) /\ DOMAIN u = 1 .. Len(instances[f])
      /\ \A i \in 1 .. Len(instances[f]) : i # pos[f] => u[i] = instances[f][i]
  <2>1. /\ u \in Seq(Instances) /\ Len(u) = Len(instances[f])
        /\ \A i \in 1 .. Len(instances[f]) : u[i] = IF i = pos[f] THEN torn ELSE instances[f][i]
    BY <1>3, <1>5, <1>6, ReplacedFacts
  <2>2. DOMAIN u = 1 .. Len(u)
    BY <2>1, LenProperties
  <2> QED
    BY <2>1, <2>2
<1>8. instances' = [instances EXCEPT ![f] = u]
  BY <1>2, <1>4, <1>6 DEF TypeOK
<1>9. instances'[f] = u /\ pc'[f] = "moving"
  BY <1>1, <1>2, <1>8 DEF TypeOK
<1>10. TypeOK'
  <2>1. instances' \in [Filters -> Seq(Instances)]
    BY <1>2, <1>7, <1>8 DEF TypeOK
  <2> QED
    BY <2>1, <1>1, <1>2, WatchTypes DEF TypeOK
<1>11. Own(f)'
  <2>1. TablesFit(f)'
    <3>1. Leaving(f)' = Leaving(f)
      BY <1>1, <1>9 DEF Leaving
    <3> QED
      BY <3>1, <1>1, <1>2, <1>7, <1>9 DEF Own, TablesFit
  <2>2. AllOwned(f)'
    <3>1. \A i \in 1 .. Len(instances[f]) : i # pos[f] => Owns(rules[f], u[i])
      BY <1>1, <1>2, <1>3, <1>7 DEF Own, AllOwned
    <3> QED
      BY <3>1, <1>1, <1>7, <1>9 DEF AllOwned
  <2>3. RemovalUnderWay(f)'
    <3>1. \A i \in 1 .. Len(instances[f]) : i < pos[f] => u[i].rule # goneId[f]
      <4>1. \A i \in 1 .. Len(instances[f]) : i < pos[f] => i # pos[f]
        BY <1>3
      <4> QED
        BY <4>1, <1>1, <1>2, <1>3, <1>7 DEF Own, RemovalUnderWay
    <3> QED
      BY <3>1, <1>1, <1>2, <1>3, <1>7, <1>9 DEF Own, RemovalUnderWay
  <2>4. VerdictCurrent(f)'
    BY <1>9 DEF VerdictCurrent
  <2> QED
    BY <2>1, <2>2, <2>3, <2>4 DEF Own
<1>12. LookupUnderWay(f)'
  BY <1>1, <1>9, NoLookup
<1>13. OnlyFor(f)
  BY <1>1, <1>2, <1>8 DEF OnlyFor, TypeOK
<1>14. f \in Removing
  BY <1>1 DEF Removing
<1> QED
  BY <1>1, <1>10, <1>11, <1>12, <1>13, <1>14, OthersWatched, Assembled

\* The table after the copy is complete and the last entry gone.
LEMMA ShrunkFacts ==
  ASSUME NEW S, NEW s \in Seq(S), NEW n \in 1 .. Len(s)
  PROVE  /\ Front([s EXCEPT ![n] = Last(s)]) \in Seq(S)
         /\ DOMAIN Front([s EXCEPT ![n] = Last(s)]) = 1 .. Len(s) - 1
         /\ Len(Front([s EXCEPT ![n] = Last(s)])) = Len(s) - 1
         /\ \A i \in 1 .. Len(s) - 1 :
              Front([s EXCEPT ![n] = Last(s)])[i] = IF i = n THEN s[Len(s)] ELSE s[i]
<1>1. Len(s) \in Nat /\ Len(s) \in 1 .. Len(s) /\ s[Len(s)] \in S
  BY LenProperties, ElementOfSeq
<1>2. PICK u : u = [s EXCEPT ![n] = Last(s)]
  OBVIOUS
<1>3. /\ u \in Seq(S) /\ Len(u) = Len(s)
      /\ \A i \in 1 .. Len(s) : u[i] = IF i = n THEN s[Len(s)] ELSE s[i]
  BY <1>1, <1>2, ReplacedFacts DEF Last
<1>4. /\ Front(u) \in Seq(S) /\ Len(Front(u)) = Len(s) - 1
      /\ \A i \in 1 .. Len(s) - 1 : Front(u)[i] = u[i]
  BY <1>1, <1>3, FrontFacts
<1>5. DOMAIN Front(u) = 1 .. Len(s) - 1
  BY <1>4, LenProperties
<1>6. \A i \in 1 .. Len(s) - 1 : i \in 1 .. Len(s)
  BY <1>1
<1> QED
  BY <1>2, <1>3, <1>4, <1>5, <1>6

LEMMA ShrinkIInv == ASSUME IInv, NEW f \in Filters, Shrink(f) PROVE IInv'
<1>1. /\ pc[f] = "moving"
      /\ instances' = [instances EXCEPT ![f] = Front([instances[f] EXCEPT ![pos[f]] = Last(instances[f])])]
      /\ pc' = [pc EXCEPT ![f] = "remove"]
      /\ rules' = rules /\ ids' = ids /\ lastId' = lastId /\ pkt' = pkt /\ unread' = unread /\ pos' = pos
      /\ verdict' = verdict /\ goneId' = goneId
      /\ Watch(Removing)
  BY DEF Shrink, ShrinkTo, tableVars, scanVars
<1>2. TypeOK /\ Own(f)
  BY DEF IInv
<1>3. /\ instances[f] \in Seq(Instances) /\ Len(instances[f]) \in Nat
      /\ DOMAIN instances[f] = 1 .. Len(instances[f])
      /\ pos[f] \in 1 .. Len(instances[f])
  BY <1>1, <1>2, PlaceFacts DEF Own, RemovalUnderWay
<1>4. PICK u : u = Front([instances[f] EXCEPT ![pos[f]] = Last(instances[f])])
  OBVIOUS
<1>5. /\ u \in Seq(Instances) /\ DOMAIN u = 1 .. Len(instances[f]) - 1 /\ Len(u) = Len(instances[f]) - 1
      /\ \A i \in 1 .. Len(instances[f]) - 1 :
            u[i] = IF i = pos[f] THEN instances[f][Len(instances[f])] ELSE instances[f][i]
  BY <1>3, <1>4, ShrunkFacts
<1>6. instances' = [instances EXCEPT ![f] = u]
  BY <1>1, <1>4
<1>7. instances'[f] = u /\ pc'[f] = "remove"
  BY <1>1, <1>2, <1>6 DEF TypeOK
<1>8. TypeOK'
  <2>1. instances' \in [Filters -> Seq(Instances)]
    BY <1>2, <1>5, <1>6 DEF TypeOK
  <2> QED
    BY <2>1, <1>1, <1>2, WatchTypes DEF TypeOK
<1>9. Own(f)'
  <2>1. TablesFit(f)'
    <3>1. Leaving(f)' = Leaving(f)
      BY <1>1, <1>7 DEF Leaving
    <3>2. Len(u) <= InstancesCapacity
      <4>1. Len(instances[f]) <= InstancesCapacity /\ InstancesCapacity \in Nat
        BY <1>2, FwFilterAssumption DEF FwFilterAssumption, Own, TablesFit
      <4> QED
        BY <4>1, <1>3, <1>5
    <3> QED
      BY <3>1, <3>2, <1>1, <1>2, <1>7 DEF Own, TablesFit
  <2>2. AllOwned(f)'
    <3>1. \A i \in 1 .. Len(instances[f]) : i # pos[f] => Owns(rules[f], instances[f][i])
      BY <1>1, <1>2, <1>3 DEF Own, AllOwned
    <3>2. \A i \in 1 .. Len(instances[f]) - 1 : i \in 1 .. Len(instances[f]) /\ i # Len(instances[f])
      BY <1>3
    <3>3. Len(instances[f]) \in 1 .. Len(instances[f])
      BY <1>3
    <3>4. ASSUME NEW i \in 1 .. Len(instances[f]) - 1 PROVE Owns(rules[f], u[i])
      <4>1. CASE i = pos[f]
        BY <4>1, <3>1, <3>2, <3>3, <1>5
      <4>2. CASE i # pos[f]
        BY <4>2, <3>1, <3>2, <1>5
      <4> QED
        BY <4>1, <4>2
    <3> QED
      BY <3>4, <1>1, <1>5, <1>7 DEF AllOwned
  <2>3. RemovalUnderWay(f)'
    <3>1. ASSUME NEW i \in 1 .. Len(instances[f]) - 1, i < pos[f] PROVE u[i].rule # goneId[f]
      <4>1. i \in DOMAIN instances[f] /\ u[i] = instances[f][i]
        BY <3>1, <1>3, <1>5
      <4> QED
        BY <4>1, <3>1, <1>1, <1>2 DEF Own, RemovalUnderWay
    <3> QED
      BY <3>1, <1>1, <1>2, <1>5, <1>7 DEF Own, RemovalUnderWay
  <2>4. VerdictCurrent(f)'
    BY <1>7 DEF VerdictCurrent
  <2> QED
    BY <2>1, <2>2, <2>3, <2>4 DEF Own
<1>10. LookupUnderWay(f)'
  BY <1>1, <1>7, NoLookup
<1>11. OnlyFor(f)
  BY <1>1, <1>2, <1>6 DEF OnlyFor, TypeOK
<1>12. f \in Removing
  BY <1>1 DEF Removing
<1> QED
  BY <1>1, <1>8, <1>9, <1>10, <1>11, <1>12, OthersWatched, Assembled

LEMMA RemoveEndsIInv == ASSUME IInv, NEW f \in Filters, RemoveEnds(f) PROVE IInv'
<1> DEFINE n == RuleOf(f, goneId[f])
<1>1. /\ pc[f] = "remove" /\ pos[f] > Len(instances[f])
      /\ goneId[f] # DefaultId => rules' = [rules EXCEPT ![f] = RemoveAt(@, n)]
      /\ goneId[f] = DefaultId =>
            \E a \in Actions \ {"connect"} : rules' = [rules EXCEPT ![f][1].action = a]
      /\ pc' = [pc EXCEPT ![f] = "idle"] /\ pos' = [pos EXCEPT ![f] = 1]
      /\ goneId' = [goneId EXCEPT ![f] = DefaultId]
      /\ ids' = ids /\ lastId' = lastId /\ instances' = instances /\ pkt' = pkt /\ unread' = unread
      /\ verdict' = verdict
      /\ Watch(Removing)
  BY DEF RemoveEnds
<1>2. TypeOK /\ Own(f)
  BY DEF IInv
<1> HIDE DEF n
<1>3. /\ rules[f] \in Seq(Rules) /\ TableExact(rules[f], ids[f] \cup Leaving(f)) /\ ids[f] \in SUBSET RuleIds
      /\ ids' = [ids EXCEPT ![f] = ids[f]]
  BY <1>1, <1>2 DEF TypeOK, Own, TablesFit
<1>4. goneId' \in [Filters -> RuleIds] /\ \A g \in Filters \ {f} : goneId'[g] = goneId[g]
  <2>1. DefaultId \in RuleIds
    BY FwFilterAssumption DEF FwFilterAssumption, RuleIds, DefaultId
  <2> QED
    BY <2>1, <1>1, <1>2 DEF TypeOK
<1>5. \A i \in DOMAIN instances[f] : Owns(rules[f], instances[f][i]) /\ instances[f][i].rule # goneId[f]
  <2>1. \A i \in DOMAIN instances[f] : i < pos[f]
    BY <1>1, <1>2, PlaceFacts
  <2> QED
    BY <2>1, <1>1, <1>2 DEF Own, AllOwned, RemovalUnderWay
<1>6. CASE goneId[f] # DefaultId
  <2>1. Leaving(f) = {goneId[f]} /\ goneId[f] \notin ids[f]
    BY <1>1, <1>2, <1>6 DEF Leaving, Own, RemovalUnderWay
  <2>2. n \in 2 .. Len(rules[f]) /\ rules[f][n].id = goneId[f]
    BY <2>1, <1>3, <1>6, RuleOfFacts DEF n
  <2>3. PICK t : t = RemoveAt(rules[f], n)
    OBVIOUS
  <2>4. /\ t \in Seq(Rules) /\ Len(t) = Len(rules[f]) - 1
        /\ TableExact(t, (ids[f] \cup Leaving(f)) \ {goneId[f]})
        /\ \A inst : Owns(rules[f], inst) /\ inst.rule # goneId[f] => Owns(t, inst)
    BY <2>2, <2>3, <1>3, RuleRemoved
  <2>5. (ids[f] \cup Leaving(f)) \ {goneId[f]} = ids[f]
    BY <2>1
  <2>6. TableExact(t, ids[f])
    BY <2>4, <2>5
  <2>7. Len(t) <= Len(rules[f])
    BY <2>4, <1>3, LenProperties
  <2>8. \A i \in DOMAIN instances[f] : Owns(t, instances[f][i])
    BY <2>4, <1>5
  <2>9. rules' = [rules EXCEPT ![f] = t]
    BY <2>3, <1>1, <1>6
  <2> QED
    BY <2>4, <2>6, <2>7, <2>8, <2>9, <1>1, <1>3, <1>4, TableReplaced
<1>7. CASE goneId[f] = DefaultId
  <2>1. ids[f] \cup Leaving(f) = ids[f]
    BY <1>7 DEF Leaving
  <2>2. PICK a \in Actions : rules' = [rules EXCEPT ![f][1].action = a]
    BY <1>1, <1>7
  <2>3. PICK t : t = [rules[f] EXCEPT ![1].action = a]
    OBVIOUS
  <2>4. /\ t \in Seq(Rules) /\ Len(t) = Len(rules[f]) /\ TableExact(t, ids[f])
        /\ \A inst : Owns(rules[f], inst) /\ inst.rule # DefaultId => Owns(t, inst)
    BY <2>1, <2>3, <1>3, DefaultSet, FwFilterAssumption
  <2>5. Len(t) <= Len(rules[f])
    BY <2>4, <1>3, LenProperties
  <2>6. \A i \in DOMAIN instances[f] : Owns(t, instances[f][i])
    BY <2>4, <1>5, <1>7
  <2>7. rules' = [rules EXCEPT ![f] = t]
    BY <2>2, <2>3, <1>2 DEF TypeOK
  <2> QED
    BY <2>4, <2>5, <2>6, <2>7, <1>1, <1>3, <1>4, TableReplaced
<1> QED
  BY <1>6, <1>7

-----------------------------------------------------------------------------

LEMMA NextIInv == ASSUME IInv, [Next]_vars PROVE IInv'
<1>1. CASE UNCHANGED vars
  <2>1. /\ rules' = rules /\ ids' = ids /\ lastId' = lastId /\ instances' = instances /\ pc' = pc
        /\ pkt' = pkt /\ unread' = unread /\ pos' = pos /\ verdict' = verdict /\ goneId' = goneId
        /\ seen' = seen /\ steady' = steady /\ raced' = raced
    BY <1>1 DEF vars, tableVars, scanVars, watchVars
  <2>2. TypeOK'
    BY <2>1 DEF IInv, TypeOK
  <2>3. ASSUME NEW f \in Filters PROVE Own(f)' /\ LookupUnderWay(f)'
    <3>1. Own(f) /\ LookupUnderWay(f)
      BY DEF IInv
    <3>2. TablesFit(f)' /\ AllOwned(f)' /\ RemovalUnderWay(f)' /\ VerdictCurrent(f)'
      BY <2>1, <3>1 DEF Own, TablesFit, Leaving, AllOwned, RemovalUnderWay, VerdictCurrent
    <3>3. LookupUnderWay(f)'
      BY <2>1, <3>1 DEF LookupUnderWay, Ahead, Connected
    <3> QED
      BY <3>2, <3>3 DEF Own
  <2> QED
    BY <2>2, <2>3 DEF IInv
<1>2. CASE \E f \in Filters : Lookup(f)
  BY <1>2, ReceiveIInv, ScanIInv, ScanEndsIInv, DecideIInv DEF Lookup
<1>3. CASE \E f \in Managed : Update(f) \/ Removal(f)
  <2>1. PICK f \in Filters : Update(f) \/ Removal(f)
    BY <1>3, FwFilterAssumption DEF FwFilterAssumption
  <2>2. CASE Update(f)
    BY <2>2, AddRuleIInv, RemoveRuleIInv, SetDefaultIInv DEF Update
  <2>3. CASE Removal(f)
    BY <2>3, RemoveSkipIInv, RemoveCopyIInv, ShrinkIInv, RemoveEndsIInv DEF Removal
  <2> QED
    BY <2>1, <2>2, <2>3
<1> QED
  BY <1>1, <1>2, <1>3 DEF Next

\* The inductive invariant: each filter's tables agree, a removal has got as far as
\* it says and a lookup has not passed what it must find.
THEOREM FilterInvariance == Spec => []IInv
<1>1. Init => IInv
  BY InitIInv
<1>2. IInv /\ [Next]_vars => IInv'
  BY NextIInv
<1> QED
  BY <1>1, <1>2, PTL DEF Spec

\* The asserts of fw_filter_add_rule and fw_filter_remove_rule: ids and rules agree.
THEOREM RuleIds_Exact == Spec => []RuleIdsExact
<1>1. IInv => RuleIdsExact
  <2> SUFFICES ASSUME IInv, NEW f \in Filters
               PROVE  /\ {rules[f][i].id : i \in DOMAIN rules[f]} = ids[f] \cup Leaving(f)
                      /\ \A i, j \in DOMAIN rules[f] : rules[f][i].id = rules[f][j].id => i = j
                      /\ rules[f][1].id = DefaultId
                      /\ Len(rules[f]) <= RulesCapacity /\ Len(instances[f]) <= InstancesCapacity
    BY DEF RuleIdsExact
  <2>1. TablesFit(f)
    BY DEF IInv, Own
  <2>2. rules[f][1].id = DefaultId
    BY <2>1 DEF TablesFit, TableExact, Default
  <2> QED
    BY <2>1, <2>2 DEF TablesFit, TableExact
<1> QED
  BY <1>1, FilterInvariance, PTL

\* fw_filter_find_action applies the most specific rule that matches, whatever
\* the order in which rules came and went.
THEOREM MostSpecificRule == Spec => []MostSpecificRuleApplies
<1>1. IInv => MostSpecificRuleApplies
  <2> SUFFICES ASSUME IInv, NEW f \in Filters, NEW p \in Packets, NEW i \in DOMAIN rules[f],
                      Matches(rules[f][i], p), rules[f][i] # FindRule(rules[f], p)
               PROVE  MoreSpecific(FindRule(rules[f], p), rules[f][i])
    BY DEF MostSpecificRuleApplies
  <2>1. rules[f] \in Seq(Rules) /\ TablesFit(f)
    BY DEF IInv, Own, TypeOK
  <2> QED
    BY <2>1, MostSpecific, FwFilterAssumption DEF TablesFit, TableExact
<1> QED
  BY <1>1, FilterInvariance, PTL

\* fw_filter_remove_instances: no connection outlives its rule.
THEOREM ConnectionsOwned == Spec => []InstancesOwned
<1>1. IInv => InstancesOwned
  BY DEF IInv, Own, AllOwned, Owns, InstancesOwned
<1> QED
  BY <1>1, FilterInvariance, PTL

\* The loops of fw_filter_find_action over the neighbours' tables.
THEOREM LookupsExact == Spec => []LookupExact
<1>1. IInv => LookupExact
  BY DEF IInv, LookupUnderWay, LookupExact
<1> QED
  BY <1>1, FilterInvariance, PTL

\* What a step of fw_filter_remove_instances takes from a table.
LEMMA NoneLost ==
  ASSUME IInv, [Next]_vars, NEW f \in Filters, NEW inst \in Range(instances[f]) \ Range(instances'[f])
  PROVE  \/ pc[f] = "remove" /\ inst.rule = goneId[f]
         \/ pc[f] = "moving" /\ inst = instances[f][pos[f]]
<1>1. TypeOK
  BY DEF IInv
<1>2. /\ instances[f] \in Seq(Instances) /\ Len(instances[f]) \in Nat
      /\ DOMAIN instances[f] = 1 .. Len(instances[f])
  BY <1>1, PlaceFacts
<1>3. PICK i \in 1 .. Len(instances[f]) : inst = instances[f][i]
  BY <1>2 DEF Range
<1>4. ~ \E j \in DOMAIN instances'[f] : instances'[f][j] = instances[f][i]
  BY <1>3 DEF Range
<1>5. instances' # instances
  BY <1>2, <1>4
<1>6. instances'[f] # instances[f]
  BY <1>2, <1>4
<1>7. PICK g \in Filters : Decide(g) \/ RemoveCopy(g) \/ Shrink(g)
  <2>1. ~ UNCHANGED vars
    BY <1>5 DEF vars
  <2>2. CASE \E g \in Filters : Lookup(g)
    BY <2>2, <1>5 DEF Lookup, Receive, Scan, ScanEntry, ScanEnds
  <2>3. CASE \E g \in Managed : Update(g) \/ Removal(g)
    <3>1. PICK g \in Filters : Update(g) \/ Removal(g)
      BY <2>3, FwFilterAssumption DEF FwFilterAssumption
    <3>2. ~ Update(g)
      BY <1>5 DEF Update, AddRule, RemoveRule, RemoveFrom, SetDefault
    <3> QED
      BY <3>1, <3>2, <1>5 DEF Removal, RemoveSkip, RemoveEnds
  <2> QED
    BY <2>1, <2>2, <2>3 DEF Next
<1>8. CASE Decide(g)
  <2> DEFINE new == NewInstance(FindRule(rules[g], pkt[g]), pkt[g])
  <2>1. instances' = [instances EXCEPT ![g] = Append(@, new)]
    BY <1>5, <1>8 DEF Decide
  <2>2. g = f
    BY <2>1, <1>1, <1>6 DEF TypeOK
  <2>3. PICK x : x = new
    OBVIOUS
  <2> HIDE DEF new
  <2>4. instances'[f] = Append(instances[f], x)
    BY <2>1, <2>2, <2>3, <1>1 DEF TypeOK
  <2>5. x \in Instances
    <3>1. IInv'
      BY NextIInv
    <3>2. instances'[f] \in Seq(Instances)
      BY <3>1 DEF IInv, TypeOK
    <3>3. x \in Instances \cup {x} /\ instances[f] \in Seq(Instances \cup {x})
      BY <1>2
    <3>4. Len(Append(instances[f], x)) = Len(instances[f]) + 1 /\ Append(instances[f], x)[Len(instances[f]) + 1] = x
      BY <3>3, AppendProperties
    <3>5. Len(instances[f]) + 1 \in 1 .. Len(instances'[f])
      BY <3>4, <2>4, <1>2
    <3>6. instances'[f][Len(instances[f]) + 1] \in Instances
      BY <3>2, <3>5, ElementOfSeq
    <3> QED
      BY <3>4, <3>6, <2>4
  <2>6. i \in DOMAIN Append(instances[f], x) /\ Append(instances[f], x)[i] = instances[f][i]
    <3>1. /\ Append(instances[f], x) \in Seq(Instances) /\ Len(Append(instances[f], x)) = Len(instances[f]) + 1
          /\ \A j \in 1 .. Len(instances[f]) : Append(instances[f], x)[j] = instances[f][j]
      BY <2>5, <1>2, AppendProperties
    <3>2. DOMAIN Append(instances[f], x) = 1 .. Len(instances[f]) + 1
      BY <3>1, LenProperties
    <3> QED
      BY <3>1, <3>2, <1>2, <1>3
  <2> QED
    BY <2>4, <2>6, <1>4
<1>9. CASE RemoveCopy(g)
  <2>1. PICK torn : instances' = [instances EXCEPT ![g][pos[g]] = torn]
    BY <1>9 DEF RemoveCopy
  <2>2. g = f
    BY <2>1, <1>1, <1>6 DEF TypeOK
  <2>3. instances'[f] = [instances[f] EXCEPT ![pos[f]] = torn]
    BY <2>1, <2>2, <1>1 DEF TypeOK
  <2>4. i = pos[f]
    BY <2>3, <1>2, <1>4
  <2>5. pc[f] = "remove" /\ instances[f][pos[f]].rule = goneId[f]
    BY <2>2, <1>9 DEF RemoveCopy
  <2> QED
    BY <2>4, <2>5, <1>3
<1>10. CASE Shrink(g)
  <2>1. /\ pc[g] = "moving"
        /\ instances' = [instances EXCEPT ![g] = Front([instances[g] EXCEPT ![pos[g]] = Last(instances[g])])]
    BY <1>10 DEF Shrink, ShrinkTo
  <2>2. g = f
    BY <2>1, <1>1, <1>6 DEF TypeOK
  <2>3. pos[f] \in 1 .. Len(instances[f])
    BY <2>1, <2>2, <1>2 DEF IInv, Own, RemovalUnderWay
  <2>4. PICK u : u = Front([instances[f] EXCEPT ![pos[f]] = Last(instances[f])])
    OBVIOUS
  <2>5. instances'[f] = u
    BY <2>1, <2>2, <2>4, <1>1 DEF TypeOK
  <2>6. /\ DOMAIN u = 1 .. Len(instances[f]) - 1
        /\ \A j \in 1 .. Len(instances[f]) - 1 :
              u[j] = IF j = pos[f] THEN instances[f][Len(instances[f])] ELSE instances[f][j]
    BY <2>3, <2>4, <1>2, ShrunkFacts
  <2>7. i = pos[f]
    <3> SUFFICES ASSUME i # pos[f] PROVE FALSE
      OBVIOUS
    <3>1. CASE i = Len(instances[f])
      <4>1. pos[f] \in 1 .. Len(instances[f]) - 1
        BY <2>3, <3>1, <1>2
      <4>2. u[pos[f]] = instances[f][i]
        BY <4>1, <3>1, <2>6
      <4> QED
        BY <4>1, <4>2, <2>5, <2>6, <1>4
    <3>2. CASE i # Len(instances[f])
      <4>1. i \in 1 .. Len(instances[f]) - 1
        BY <3>2, <1>2
      <4>2. u[i] = instances[f][i]
        BY <4>1, <2>6
      <4> QED
        BY <4>1, <4>2, <2>5, <2>6, <1>4
    <3> QED
      BY <3>1, <3>2
  <2> QED
    BY <2>1, <2>2, <2>7, <1>3
<1> QED
  BY <1>7, <1>8, <1>9, <1>10

\* fw_filter_remove_instances costs no other rule a connection.
THEOREM ConnectionsSurvive == Spec => OtherConnectionsSurvive
<1>1. IInv /\ [Next]_vars =>
        [\A f \in Filters :
            \A inst \in Range(instances[f]) \ Range(instances'[f]) :
                \/ pc[f] = "remove" /\ inst.rule = goneId[f]
                \/ pc[f] = "moving" /\ inst = instances[f][pos[f]]]_vars
  BY NoneLost
<1> QED
  BY <1>1, FilterInvariance, PTL DEF Spec, OtherConnectionsSurvive

-----------------------------------------------------------------------------
(* Buffers: the inductive invariant.                                       *)

Sending == {"replyFree", "icmpFree"}
Answering(q) == IF q = "answered" THEN "arp" ELSE Reader[q]

DrainsAt(c, i, q) == Script[c][i].do = "drain" /\ Script[c][i].of = q
TellsAt(c, i, q) == Script[c][i].do \in Telling /\ Script[c][i].of = q

\* A component in its handler has the queue q before it.
Covers(p, q) ==
    /\ running[p] # "none"
    /\ \E i \in DOMAIN Script[running[p]] : step[p] <= i /\ DrainsAt(running[p], i, q)
Comes(q) == Answering(q) \in signalled \/ Covers(Reader[q], q)

\* It has yet to tell the reader of q.
Tells(p, q) ==
    /\ running[p] # "none" /\ q \in written[p]
    /\ \E i \in DOMAIN Script[running[p]] : step[p] <= i /\ TellsAt(running[p], i, q)

BuffersTypeOK ==
    /\ system \in Systems
    /\ at \in [Buffers -> Queues \cup Kept]
    /\ listening \subseteq NetQueues
    /\ signalled \subseteq {c \in Channels : Owner(c) \in system.detail}
    /\ running \in [Components -> Channels \cup {"none"}]
    /\ step \in [Components -> Nat \ {0}]
    /\ phase \in [Components -> {"take", "ask", "look"}]
    /\ written \in [Components -> SUBSET Queues]
    /\ overwritten \subseteq {"icmpActive"}

\* Where a handler is.
HandlerExact(p) ==
    running[p] # "none" =>
        /\ Owner(running[p]) = p /\ p \in system.detail
        /\ step[p] \in DOMAIN Script[running[p]]
        /\ phase[p] # "take" => At(p).do = "drain" /\ At(p).of \in NetQueues

\* A queue with a reader that is looked at holds a buffer only if it is used.
FilledIsUsed == \A b \in Buffers :
    at[b] \in Queues \ Sending /\ Reader[at[b]] \in system.detail => Used(at[b])

\* A reader that has asked for no notification of q will come to it.
DeafReaderComes == \A q \in NetQueues \ Sending :
    Reader[q] \in system.detail /\ Used(q) /\ q \notin listening => Comes(q)

\* Having asked, a reader that looks again is told of what it may miss.
LookIsSafe(p) ==
    running[p] # "none" /\ phase[p] = "look" =>
        At(p).of \in listening \/ Reader[At(p).of] \in signalled

\* To a queue that holds a buffer the reader comes, or is told to, unless the
\* notification for it was overwritten.
FilledIsSeen == \A q \in Queues \ Sending :
    Reader[q] \in system.detail /\ In(q) # {} =>
        Comes(q) \/ q \in overwritten \/ \E p \in Components : Tells(p, q)

BuffersIInv ==
    /\ BuffersTypeOK /\ FilledIsUsed /\ DeafReaderComes /\ FilledIsSeen
    /\ \A p \in Components : HandlerExact(p) /\ LookIsSafe(p)

-----------------------------------------------------------------------------
(* Buffers: the scripts.                                                   *)

\* A later step tells the reader of q.
ToldLater(script, i, q) ==
    \E j \in DOMAIN script :
        i < j /\ script[j].do \in Telling /\ script[j].of = q

\* A step of component p: it drains queues p reads, and what it writes to is told
\* of by a later step.
StepExact(p, script, i) ==
    LET s == script[i] IN
    /\ s.do \in {"drain", "work"} \cup Telling
    /\ s.do = "drain" =>
        /\ s.of \in Queues \ Sending /\ Reader[s.of] = p
        /\ s.to \subseteq (Queues \cup Kept) \ {"answered"}
        /\ \A q \in s.to \cap Queues : ToldLater(script, i, q)
        /\ p = "responder" => ToldLater(script, i, "responderFree") /\ ToldLater(script, i, "replyActive")
    /\ s.do \in Telling => s.of \in Queues \ {"answered"}
    /\ s.do = "tell if listening" => s.of \in NetQueues
    /\ s.do = "tell last" => s.of = "icmpActive"
    /\ s.do = "work" => /\ p = "webserver" => ToldLater(script, i, "webFree")
                        /\ p = "icmp" => ToldLater(script, i, "icmpActive")

LEMMA QueueNames ==
  Queues = {"rxActive", "filterFree", "responderFree", "routerFree", "webFree", "sent",
            "filterActive", "responderActive", "routed", "answered", "web", "txFree",
            "replyActive", "icmpActive", "send", "replyFree", "icmpFree", "rxFree", "txActive"}
  BY DEF Queues, Reader

LEMMA DrainExact ==
  ASSUME NEW p, NEW script, NEW i, NEW q \in Queues \ Sending, NEW to,
         script[i] = Drain(q, to), Reader[q] = p,
         p = "responder" => ToldLater(script, i, "responderFree") /\ ToldLater(script, i, "replyActive"),
         to \subseteq (Queues \cup Kept) \ {"answered"},
         \A t \in to \cap Queues : ToldLater(script, i, t)
  PROVE  StepExact(p, script, i)
<1>1. script[i].do = "drain" /\ script[i].of = q /\ script[i].to = to
  BY DEF Drain
<1> QED
  BY <1>1 DEF StepExact, Telling

LEMMA TellExact ==
  ASSUME NEW p, NEW script, NEW i, NEW q \in Queues \ {"answered"}, script[i] = Tell(q)
  PROVE  StepExact(p, script, i) /\ \A j \in DOMAIN script : j < i /\ i \in DOMAIN script => ToldLater(script, j, q)
<1>1. script[i].do = "tell" /\ script[i].of = q
  BY DEF Tell
<1> QED
  BY <1>1 DEF StepExact, ToldLater, Telling

LEMMA TellLastExact ==
  ASSUME NEW p, NEW script, NEW i, script[i] = TellLast("icmpActive")
  PROVE  /\ StepExact(p, script, i)
         /\ \A j \in DOMAIN script : j < i /\ i \in DOMAIN script => ToldLater(script, j, "icmpActive")
<1>1. script[i].do = "tell last" /\ script[i].of = "icmpActive"
  <2>1. TellLast("icmpActive").do = "tell last" /\ TellLast("icmpActive").of = "icmpActive"
    BY DEF TellLast
  <2> QED
    BY <2>1, Zenon
<1>2. "icmpActive" \in Queues \ {"answered"}
  BY QueueNames
<1> QED
  BY <1>1, <1>2 DEF StepExact, ToldLater, Telling

LEMMA TellIfAskedExact ==
  ASSUME NEW p, NEW script, NEW i, NEW q \in NetQueues, script[i] = TellIfAsked(q)
  PROVE  StepExact(p, script, i) /\ \A j \in DOMAIN script : j < i /\ i \in DOMAIN script => ToldLater(script, j, q)
<1>1. script[i].do = "tell if listening" /\ script[i].of = q
  <2>1. TellIfAsked(q).do = "tell if listening" /\ TellIfAsked(q).of = q
    BY DEF TellIfAsked
  <2> QED
    BY <2>1, Zenon
<1>2. q \in Queues \ {"answered"}
  BY QueueNames DEF NetQueues
<1> QED
  BY <1>1, <1>2 DEF StepExact, ToldLater, Telling

LEMMA WorkExact ==
  ASSUME NEW p, NEW script, NEW i, script[i] = Work,
         p = "webserver" => ToldLater(script, i, "webFree"),
         p = "icmp" => ToldLater(script, i, "icmpActive")
  PROVE  StepExact(p, script, i)
<1>1. Work.do = "work"
  BY DEF Work
<1>2. script[i].do = "work"
  BY <1>1, Zenon
<1> QED
  BY <1>2 DEF StepExact, Telling

LEMMA VirtRxExact ==
  DOMAIN VirtRx = 1 .. 9 /\ Len(VirtRx) = 9 /\ \A i \in DOMAIN VirtRx : StepExact("virtRx", VirtRx, i)
<1> DEFINE S == VirtRx
<1>1. /\ DOMAIN S = 1 .. 9 /\ Len(S) = 9
      /\ S[1] = Drain("rxActive", {"filterActive", "responderActive", "rxFree"})
      /\ S[2] = TellIfAsked("filterActive") /\ S[3] = TellIfAsked("responderActive")
      /\ S[4] = Drain("filterFree", {"rxFree"}) /\ S[5] = Drain("responderFree", {"rxFree"})
      /\ S[6] = Drain("routerFree", {"rxFree"}) /\ S[7] = Drain("webFree", {"rxFree"})
      /\ S[8] = Drain("sent", {"rxFree"}) /\ S[9] = TellIfAsked("rxFree")
  BY DEF VirtRx
<1> HIDE DEF S
<1>2. /\ StepExact("virtRx", S, 2) /\ StepExact("virtRx", S, 3) /\ StepExact("virtRx", S, 9)
      /\ ToldLater(S, 1, "filterActive") /\ ToldLater(S, 1, "responderActive")
      /\ \A i \in 1 .. 8 : ToldLater(S, i, "rxFree")
  BY <1>1, TellIfAskedExact DEF NetQueues
<1>3. /\ {"rxFree"} \cap Queues = {"rxFree"} /\ {"rxFree"} \subseteq (Queues \cup Kept) \ {"answered"}
      /\ \A q \in {"filterFree", "responderFree", "routerFree", "webFree", "sent"} :
           q \in Queues \ Sending /\ Reader[q] = "virtRx"
  BY QueueNames DEF Reader, Sending
<1>4. StepExact("virtRx", S, 1)
  BY <1>1, <1>2, QueueNames, DrainExact DEF Reader, Sending
<1>5. /\ StepExact("virtRx", S, 4) /\ StepExact("virtRx", S, 5) /\ StepExact("virtRx", S, 6)
      /\ StepExact("virtRx", S, 7) /\ StepExact("virtRx", S, 8)
  BY <1>1, <1>2, <1>3, DrainExact
<1> QED
  BY <1>1, <1>2, <1>4, <1>5 DEF S

LEMMA FilterExact ==
  DOMAIN Filter = 1 .. 3 /\ Len(Filter) = 3 /\ \A i \in DOMAIN Filter : StepExact("filter", Filter, i)
<1> DEFINE S == Filter
<1>1. /\ DOMAIN S = 1 .. 3 /\ Len(S) = 3
      /\ S[1] = Drain("filterActive", {"routed", "filterFree"})
      /\ S[2] = Tell("routed")
      /\ S[3] = Tell("filterFree")
  BY DEF Filter
<1> HIDE DEF S
<1>2. /\ StepExact("filter", S, 2)
      /\ ToldLater(S, 1, "routed")
      /\ StepExact("filter", S, 3)
      /\ ToldLater(S, 1, "filterFree")
  BY <1>1, QueueNames, TellExact
<1>3. StepExact("filter", S, 1)
  BY <1>1, <1>2, QueueNames, DrainExact DEF Reader, Sending, Kept
<1> QED
  BY <1>1, <1>2, <1>3 DEF S

LEMMA ResponderExact ==
  DOMAIN Responder = 1 .. 3 /\ Len(Responder) = 3 /\ \A i \in DOMAIN Responder : StepExact("responder", Responder, i)
<1> DEFINE S == Responder
<1>1. /\ DOMAIN S = 1 .. 3 /\ Len(S) = 3
      /\ S[1] = Drain("responderActive", {"responderFree"})
      /\ S[2] = TellIfAsked("responderFree")
      /\ S[3] = TellIfAsked("replyActive")
  BY DEF Responder
<1> HIDE DEF S
<1>2. /\ StepExact("responder", S, 2)
      /\ ToldLater(S, 1, "responderFree")
      /\ StepExact("responder", S, 3)
      /\ ToldLater(S, 1, "replyActive")
  BY <1>1, QueueNames, TellIfAskedExact DEF NetQueues
<1>3. StepExact("responder", S, 1)
  BY <1>1, <1>2, QueueNames, DrainExact DEF Reader, Sending, Kept
<1> QED
  BY <1>1, <1>2, <1>3 DEF S

LEMMA RouteScriptExact ==
  DOMAIN Route = 1 .. 4 /\ Len(Route) = 4 /\ \A i \in DOMAIN Route : StepExact("router", Route, i)
<1> DEFINE S == Route
<1>1. /\ DOMAIN S = 1 .. 4 /\ Len(S) = 4
      /\ S[1] = Drain("routed", {"routerFree", "web", "waiting", "send"})
      /\ S[2] = Tell("send")
      /\ S[3] = Tell("routerFree")
      /\ S[4] = Tell("web")
  BY DEF Route
<1> HIDE DEF S
<1>2. /\ StepExact("router", S, 2)
      /\ ToldLater(S, 1, "send")
      /\ StepExact("router", S, 3)
      /\ ToldLater(S, 1, "routerFree")
      /\ StepExact("router", S, 4)
      /\ ToldLater(S, 1, "web")
  BY <1>1, QueueNames, TellExact
<1>3. StepExact("router", S, 1)
  BY <1>1, <1>2, QueueNames, DrainExact DEF Reader, Sending, Kept
<1> QED
  BY <1>1, <1>2, <1>3 DEF S

LEMMA RouteAnsweredExact ==
  DOMAIN RouteAnswered = 1 .. 5 /\ Len(RouteAnswered) = 5 /\ \A i \in DOMAIN RouteAnswered : StepExact("router", RouteAnswered, i)
<1> DEFINE S == RouteAnswered
<1>1. /\ DOMAIN S = 1 .. 5 /\ Len(S) = 5
      /\ S[1] = Drain("answered", {"send", "routerFree"})
      /\ S[2] = Drain("routed", {"routerFree", "web", "waiting", "send"})
      /\ S[3] = Tell("send")
      /\ S[4] = Tell("routerFree")
      /\ S[5] = Tell("web")
  BY DEF RouteAnswered, Route
<1> HIDE DEF S
<1>2. /\ StepExact("router", S, 3)
      /\ ToldLater(S, 1, "send")
      /\ ToldLater(S, 2, "send")
      /\ StepExact("router", S, 4)
      /\ ToldLater(S, 1, "routerFree")
      /\ ToldLater(S, 2, "routerFree")
      /\ StepExact("router", S, 5)
      /\ ToldLater(S, 2, "web")
  BY <1>1, QueueNames, TellExact
<1>3. StepExact("router", S, 1)
  BY <1>1, <1>2, QueueNames, DrainExact DEF Reader, Sending, Kept
<1>4. StepExact("router", S, 2)
  BY <1>1, <1>2, QueueNames, DrainExact DEF Reader, Sending, Kept
<1> QED
  BY <1>1, <1>2, <1>3, <1>4 DEF S

LEMMA WebserverExact ==
  DOMAIN Webserver = 1 .. 3 /\ Len(Webserver) = 3 /\ \A i \in DOMAIN Webserver : StepExact("webserver", Webserver, i)
<1> DEFINE S == Webserver
<1>1. /\ DOMAIN S = 1 .. 3 /\ Len(S) = 3
      /\ S[1] = Drain("web", {"held", "webFree"})
      /\ S[2] = Work
      /\ S[3] = Tell("webFree")
  BY DEF Webserver
<1> HIDE DEF S
<1>2. /\ StepExact("webserver", S, 3)
      /\ ToldLater(S, 1, "webFree")
      /\ ToldLater(S, 2, "webFree")
  BY <1>1, QueueNames, TellExact
<1>3. StepExact("webserver", S, 1)
  BY <1>1, <1>2, QueueNames, DrainExact DEF Reader, Sending, Kept
<1>4. StepExact("webserver", S, 2)
  BY <1>1, <1>2, WorkExact
<1> QED
  BY <1>1, <1>2, <1>3, <1>4 DEF S

LEMMA IcmpExact ==
  DOMAIN Icmp = 1 .. 2 /\ Len(Icmp) = 2 /\ \A i \in DOMAIN Icmp : StepExact("icmp", Icmp, i)
<1> DEFINE S == Icmp
<1>1. /\ DOMAIN S = 1 .. 2 /\ Len(S) = 2
      /\ S[1] = Work
      /\ S[2] = TellLast("icmpActive")
  BY DEF Icmp
<1> HIDE DEF S
<1>2. /\ StepExact("icmp", S, 2)
      /\ ToldLater(S, 1, "icmpActive")
  BY <1>1, TellLastExact
<1>3. StepExact("icmp", S, 1)
  BY <1>1, <1>2, WorkExact
<1> QED
  BY <1>1, <1>2, <1>3 DEF S

LEMMA VirtTxExact ==
  DOMAIN VirtTx = 1 .. 8 /\ Len(VirtTx) = 8 /\ \A i \in DOMAIN VirtTx : StepExact("virtTx", VirtTx, i)
<1> DEFINE S == VirtTx
<1>1. /\ DOMAIN S = 1 .. 8 /\ Len(S) = 8
      /\ S[1] = Drain("txFree", {"replyFree", "icmpFree", "sent"})
      /\ S[2] = TellIfAsked("replyFree")
      /\ S[3] = TellIfAsked("icmpFree")
      /\ S[4] = Tell("sent")
      /\ S[5] = Drain("replyActive", {"txActive"})
      /\ S[6] = Drain("icmpActive", {"txActive"})
      /\ S[7] = Drain("send", {"txActive"})
      /\ S[8] = TellIfAsked("txActive")
  BY DEF VirtTx
<1> HIDE DEF S
<1>2. /\ StepExact("virtTx", S, 2)
      /\ ToldLater(S, 1, "replyFree")
      /\ StepExact("virtTx", S, 3)
      /\ ToldLater(S, 1, "icmpFree")
      /\ StepExact("virtTx", S, 4)
      /\ ToldLater(S, 1, "sent")
      /\ StepExact("virtTx", S, 8)
      /\ ToldLater(S, 5, "txActive")
      /\ ToldLater(S, 6, "txActive")
      /\ ToldLater(S, 7, "txActive")
  BY <1>1, QueueNames, TellExact, TellIfAskedExact DEF NetQueues
<1>3. StepExact("virtTx", S, 1)
  BY <1>1, <1>2, QueueNames, DrainExact DEF Reader, Sending, Kept
<1>4. StepExact("virtTx", S, 5)
  BY <1>1, <1>2, QueueNames, DrainExact DEF Reader, Sending, Kept
<1>5. StepExact("virtTx", S, 6)
  BY <1>1, <1>2, QueueNames, DrainExact DEF Reader, Sending, Kept
<1>6. StepExact("virtTx", S, 7)
  BY <1>1, <1>2, QueueNames, DrainExact DEF Reader, Sending, Kept
<1> QED
  BY <1>1, <1>2, <1>3, <1>4, <1>5, <1>6 DEF S

LEMMA DriverExact ==
  DOMAIN Driver = 1 .. 2 /\ Len(Driver) = 2 /\ \A i \in DOMAIN Driver : StepExact("driver", Driver, i)
<1> DEFINE S == Driver
<1>1. /\ DOMAIN S = 1 .. 2 /\ Len(S) = 2
      /\ S[1] = Drain("rxFree", {"rxRing"})
      /\ S[2] = Drain("txActive", {"txRing"})
  BY DEF Driver
<1> HIDE DEF S
<1>2. StepExact("driver", S, 1)
  BY <1>1, QueueNames, DrainExact DEF Reader, Sending, Kept
<1>3. StepExact("driver", S, 2)
  BY <1>1, QueueNames, DrainExact DEF Reader, Sending, Kept
<1> QED
  BY <1>1, <1>2, <1>3 DEF S

\* The component that handles a notification by c.
LEMMA ScriptsExact ==
  ASSUME NEW c \in Channels
  PROVE  \E n \in Nat : /\ DOMAIN Script[c] = 1 .. n /\ Len(Script[c]) = n
                        /\ \A i \in DOMAIN Script[c] : StepExact(Owner(c), Script[c], i)
<1>1. /\ Script["virtRx"] = VirtRx /\ Script["virtTx"] = VirtTx /\ Script["filter"] = Filter
      /\ Script["responder"] = Responder /\ Script["router"] = Route /\ Script["arp"] = RouteAnswered
      /\ Script["webserver"] = Webserver /\ Script["icmp"] = Icmp /\ Script["driver"] = Driver
  BY DEF Script
<1>2. CASE c = "virtRx"
  BY <1>1, <1>2, VirtRxExact DEF Owner
<1>3. CASE c = "virtTx"
  BY <1>1, <1>3, VirtTxExact DEF Owner
<1>4. CASE c = "filter"
  BY <1>1, <1>4, FilterExact DEF Owner
<1>5. CASE c = "responder"
  BY <1>1, <1>5, ResponderExact DEF Owner
<1>6. CASE c = "router"
  BY <1>1, <1>6, RouteScriptExact DEF Owner
<1>7. CASE c = "arp"
  BY <1>1, <1>7, RouteAnsweredExact DEF Owner
<1>8. CASE c = "webserver"
  BY <1>1, <1>8, WebserverExact DEF Owner
<1>9. CASE c = "icmp"
  BY <1>1, <1>9, IcmpExact DEF Owner
<1>10. CASE c = "driver"
  BY <1>1, <1>10, DriverExact DEF Owner
<1> QED
  BY <1>2, <1>3, <1>4, <1>5, <1>6, <1>7, <1>8, <1>9, <1>10 DEF Channels, Components

\* Every queue, those of the components that only send excepted, is drained in
\* the handler its reader is notified for.
LEMMA EveryQueueIsRead ==
  ASSUME NEW q \in Queues \ Sending
  PROVE  /\ Answering(q) \in Channels /\ Owner(Answering(q)) = Reader[q] /\ Reader[q] \in Components
         /\ \E i \in DOMAIN Script[Answering(q)] : DrainsAt(Answering(q), i, q)
<1>1. CASE q = "answered"
  <2>1. DOMAIN RouteAnswered = 1 .. 5 /\ RouteAnswered[1] = Drain("answered", {"send", "routerFree"})
    BY DEF RouteAnswered, Route
  <2> QED
    BY <1>1, <2>1 DEF Answering, Channels, Components, Owner, Reader, Script, DrainsAt, Drain
<1>2. CASE q \in {"rxActive", "filterFree", "responderFree", "routerFree", "webFree", "sent"}
  <2>1. /\ DOMAIN VirtRx = 1 .. 9
        /\ VirtRx[1].do = "drain" /\ VirtRx[1].of = "rxActive"
        /\ VirtRx[4].do = "drain" /\ VirtRx[4].of = "filterFree"
        /\ VirtRx[5].do = "drain" /\ VirtRx[5].of = "responderFree"
        /\ VirtRx[6].do = "drain" /\ VirtRx[6].of = "routerFree"
        /\ VirtRx[7].do = "drain" /\ VirtRx[7].of = "webFree"
        /\ VirtRx[8].do = "drain" /\ VirtRx[8].of = "sent"
    BY DEF VirtRx, Drain
  <2>2. Reader[q] = "virtRx" /\ Answering(q) = "virtRx" /\ Script["virtRx"] = VirtRx
    BY <1>2 DEF Reader, Answering, Script
  <2> QED
    BY <1>2, <2>1, <2>2 DEF Channels, Components, Owner, DrainsAt
<1>3. CASE q \in {"txFree", "replyActive", "icmpActive", "send"}
  <2>1. /\ DOMAIN VirtTx = 1 .. 8
        /\ VirtTx[1].do = "drain" /\ VirtTx[1].of = "txFree"
        /\ VirtTx[5].do = "drain" /\ VirtTx[5].of = "replyActive"
        /\ VirtTx[6].do = "drain" /\ VirtTx[6].of = "icmpActive"
        /\ VirtTx[7].do = "drain" /\ VirtTx[7].of = "send"
    BY DEF VirtTx, Drain
  <2>2. Reader[q] = "virtTx" /\ Answering(q) = "virtTx" /\ Script["virtTx"] = VirtTx
    BY <1>3 DEF Reader, Answering, Script
  <2> QED
    BY <1>3, <2>1, <2>2 DEF Channels, Components, Owner, DrainsAt
<1>4. CASE q = "filterActive"
  <2>1. DOMAIN Filter = 1 .. 3 /\ Filter[1].do = "drain" /\ Filter[1].of = "filterActive"
    BY DEF Filter, Drain
  <2>2. Reader[q] = "filter" /\ Answering(q) = "filter" /\ Script["filter"] = Filter
    BY <1>4 DEF Reader, Answering, Script
  <2> QED
    BY <1>4, <2>1, <2>2 DEF Channels, Components, Owner, DrainsAt
<1>5. CASE q = "responderActive"
  <2>1. DOMAIN Responder = 1 .. 3 /\ Responder[1].do = "drain" /\ Responder[1].of = "responderActive"
    BY DEF Responder, Drain
  <2>2. Reader[q] = "responder" /\ Answering(q) = "responder" /\ Script["responder"] = Responder
    BY <1>5 DEF Reader, Answering, Script
  <2> QED
    BY <1>5, <2>1, <2>2 DEF Channels, Components, Owner, DrainsAt
<1>6. CASE q = "routed"
  <2>1. DOMAIN Route = 1 .. 4 /\ Route[1].do = "drain" /\ Route[1].of = "routed"
    BY DEF Route, Drain
  <2>2. Reader[q] = "router" /\ Answering(q) = "router" /\ Script["router"] = Route
    BY <1>6 DEF Reader, Answering, Script
  <2> QED
    BY <1>6, <2>1, <2>2 DEF Channels, Components, Owner, DrainsAt
<1>7. CASE q = "web"
  <2>1. DOMAIN Webserver = 1 .. 3 /\ Webserver[1].do = "drain" /\ Webserver[1].of = "web"
    BY DEF Webserver, Drain
  <2>2. Reader[q] = "webserver" /\ Answering(q) = "webserver" /\ Script["webserver"] = Webserver
    BY <1>7 DEF Reader, Answering, Script
  <2> QED
    BY <1>7, <2>1, <2>2 DEF Channels, Components, Owner, DrainsAt
<1>8. CASE q = "rxFree"
  <2>1. DOMAIN Driver = 1 .. 2 /\ Driver[1].do = "drain" /\ Driver[1].of = "rxFree"
    BY DEF Driver, Drain
  <2>2. Reader[q] = "driver" /\ Answering(q) = "driver" /\ Script["driver"] = Driver
    BY <1>8 DEF Reader, Answering, Script
  <2> QED
    BY <1>8, <2>1, <2>2 DEF Channels, Components, Owner, DrainsAt
<1>9. CASE q = "txActive"
  <2>1. DOMAIN Driver = 1 .. 2 /\ Driver[2].do = "drain" /\ Driver[2].of = "txActive"
    BY DEF Driver, Drain
  <2>2. Reader[q] = "driver" /\ Answering(q) = "driver" /\ Script["driver"] = Driver
    BY <1>9 DEF Reader, Answering, Script
  <2> QED
    BY <1>9, <2>1, <2>2 DEF Channels, Components, Owner, DrainsAt
<1> QED
  BY <1>1, <1>2, <1>3, <1>4, <1>5, <1>6, <1>7, <1>8, <1>9, QueueNames DEF Sending

-----------------------------------------------------------------------------
(* Buffers: a handler goes on.                                             *)

LEMMA MinIsLeast ==
  ASSUME NEW S, S \subseteq Nat, S # {}
  PROVE  Min(S) \in S /\ \A x \in S : Min(S) <= x
<1>1. \E m \in S : \A x \in S : m <= x
  BY Least
<1> QED
  BY <1>1 DEF Min

LEMMA ChannelsNamed ==
  /\ "none" \notin Channels /\ "arp" \in Channels /\ Components \subseteq Channels
  /\ \A c \in Channels : Owner(c) \in Components
  BY DEF Channels, Components, Owner

\* GoOn stops at the first step that matters.
LEMMA GoesOn ==
  ASSUME BuffersTypeOK, NEW p \in Components, NEW c \in Channels, NEW from \in Nat \ {0}, NEW wrote,
         GoOn(p, c, from, wrote)
  PROVE  /\ running' \in [Components -> Channels \cup {"none"}]
         /\ step' \in [Components -> Nat \ {0}]
         /\ phase' \in [Components -> {"take", "ask", "look"}]
         /\ \A o \in Components : o # p =>
              running'[o] = running[o] /\ step'[o] = step[o] /\ phase'[o] = phase[o]
         /\ phase'[p] = "take" /\ running'[p] \in {c, "none"}
         /\ running'[p] # "none" => step'[p] \in DOMAIN Script[c] /\ from <= step'[p]
         /\ \A i \in DOMAIN Script[c] : from <= i /\ Matters(c, i, wrote) =>
              running'[p] = c /\ step'[p] <= i
<1> DEFINE ahead == {i \in from .. Len(Script[c]) : Matters(c, i, wrote)}
           end == ahead = {}
           to == IF end THEN 1 ELSE Min(ahead)
           now == IF end THEN "none" ELSE c
<1>1. PICK n \in Nat : DOMAIN Script[c] = 1 .. n /\ Len(Script[c]) = n
  BY ScriptsExact
<1>2. /\ step' = [step EXCEPT ![p] = to] /\ running' = [running EXCEPT ![p] = now]
      /\ phase' = [phase EXCEPT ![p] = "take"]
  BY DEF GoOn
<1>3. \A i \in ahead : i \in Nat \ {0} /\ i \in DOMAIN Script[c] /\ from <= i
  BY <1>1
<1>4. \A i \in DOMAIN Script[c] : from <= i /\ Matters(c, i, wrote) => i \in ahead
  BY <1>1
<1> HIDE DEF ahead
<1>5. ahead # {} => to \in ahead /\ \A i \in ahead : to <= i
  <2>1. ahead \subseteq Nat
    BY <1>3
  <2> QED
    BY <2>1, MinIsLeast
<1>6. ahead = {} => to = 1
  OBVIOUS
<1>7. now \in Channels \cup {"none"} /\ (ahead = {} => now = "none") /\ (ahead # {} => now = c)
  OBVIOUS
<1> HIDE DEF to, now
<1>8. to \in Nat \ {0}
  BY <1>3, <1>5, <1>6
<1>9. /\ running' \in [Components -> Channels \cup {"none"}]
      /\ step' \in [Components -> Nat \ {0}] /\ phase' \in [Components -> {"take", "ask", "look"}]
  BY <1>2, <1>7, <1>8 DEF BuffersTypeOK
<1>10. /\ \A o \in Components : o # p =>
              running'[o] = running[o] /\ step'[o] = step[o] /\ phase'[o] = phase[o]
       /\ phase'[p] = "take" /\ running'[p] = now /\ step'[p] = to
  BY <1>2 DEF BuffersTypeOK
<1>11. running'[p] # "none" => step'[p] \in DOMAIN Script[c] /\ from <= step'[p]
  BY <1>1, <1>3, <1>5, <1>7, <1>10
<1>12. \A i \in DOMAIN Script[c] : from <= i /\ Matters(c, i, wrote) => running'[p] = c /\ step'[p] <= i
  BY <1>4, <1>5, <1>7, <1>10
<1> QED
  BY <1>7, <1>9, <1>10, <1>11, <1>12

\* A component whose handler goes on.
Goes(p) ==
    /\ running[p] # "none" /\ system' = system
    /\ NextStep(p, written'[p])
    /\ \A o \in Components : o # p => written'[o] = written[o]

\* It keeps what it has before it, the queue of its step excepted.
LEMMA StillCovers ==
  ASSUME BuffersIInv, NEW p \in Components, Goes(p), NEW o \in Components, NEW q \in Queues \ Sending,
         Used(q), Covers(o, q), o = p => ~DrainsAt(running[p], step[p], q)
  PROVE  Covers(o, q)'
<1>1. CASE o # p
  <2>1. running[p] \in Channels /\ step[p] + 1 \in Nat \ {0} /\ GoOn(p, running[p], step[p] + 1, written'[p])
    BY DEF Goes, NextStep, BuffersIInv, BuffersTypeOK
  <2>2. running'[o] = running[o] /\ step'[o] = step[o]
    BY <1>1, <2>1, GoesOn DEF BuffersIInv
  <2> QED
    BY <2>2 DEF Covers
<1>2. CASE o = p
  <2>1. running[p] \in Channels /\ step[p] \in Nat \ {0} /\ GoOn(p, running[p], step[p] + 1, written'[p])
    BY DEF Goes, NextStep, BuffersIInv, BuffersTypeOK
  <2>2. PICK i \in DOMAIN Script[running[p]] : step[p] <= i /\ DrainsAt(running[p], i, q)
    BY <1>2 DEF Covers
  <2>3. i \in Nat /\ i # step[p]
    BY <1>2, <2>1, <2>2, ScriptsExact
  <2>4. Matters(running[p], i, written'[p])
    BY <2>2 DEF Matters, DrainsAt
  <2>5. running'[p] = running[p] /\ step'[p] <= i
    <3>1. step[p] + 1 <= i /\ step[p] + 1 \in Nat \ {0}
      BY <2>1, <2>2, <2>3
    <3> QED
      BY <2>1, <2>2, <2>4, <3>1, GoesOn DEF BuffersIInv
  <2> QED
    BY <1>2, <2>1, <2>2, <2>5 DEF Covers, Goes
<1> QED
  BY <1>1, <1>2

LEMMA StillTells ==
  ASSUME BuffersIInv, NEW p \in Components, Goes(p), NEW o \in Components, NEW q \in Queues,
         Tells(o, q), o = p => q \in written'[p] /\ ~TellsAt(running[p], step[p], q)
  PROVE  Tells(o, q)'
<1>1. CASE o # p
  <2>1. running[p] \in Channels /\ step[p] + 1 \in Nat \ {0} /\ GoOn(p, running[p], step[p] + 1, written'[p])
    BY DEF Goes, NextStep, BuffersIInv, BuffersTypeOK
  <2>2. running'[o] = running[o] /\ step'[o] = step[o] /\ written'[o] = written[o]
    BY <1>1, <2>1, GoesOn DEF BuffersIInv, Goes
  <2> QED
    BY <2>2 DEF Tells
<1>2. CASE o = p
  <2>1. running[p] \in Channels /\ step[p] \in Nat \ {0} /\ GoOn(p, running[p], step[p] + 1, written'[p])
    BY DEF Goes, NextStep, BuffersIInv, BuffersTypeOK
  <2>2. PICK i \in DOMAIN Script[running[p]] : step[p] <= i /\ TellsAt(running[p], i, q)
    BY <1>2 DEF Tells
  <2>3. i \in Nat /\ i # step[p]
    BY <1>2, <2>1, <2>2, ScriptsExact
  <2>4. Matters(running[p], i, written'[p])
    <3>1. LET s == Script[running[p]][i] IN s.do # "work" /\ s.do # "drain" /\ s.of = q
      BY <2>2 DEF TellsAt, Telling
    <3> QED
      BY <1>2, <3>1, Zenon DEF Matters
  <2>5. running'[p] = running[p] /\ step'[p] <= i
    <3>1. step[p] + 1 <= i /\ step[p] + 1 \in Nat \ {0}
      BY <2>1, <2>2, <2>3
    <3> QED
      BY <2>1, <2>2, <2>4, <3>1, GoesOn DEF BuffersIInv
  <2> QED
    BY <1>2, <2>1, <2>2, <2>5 DEF Tells, Goes
<1> QED
  BY <1>1, <1>2

-----------------------------------------------------------------------------
(* Buffers: one lemma for each kind of step.                               *)

LEMMA NetQueueNames == NetQueues \subseteq Queues /\ "answered" \notin NetQueues
  BY QueueNames DEF NetQueues

LEMMA HandlerParts ==
  ASSUME BuffersIInv, NEW p \in Components, running[p] # "none"
  PROVE  /\ running[p] \in Channels /\ Owner(running[p]) = p /\ p \in system.detail
         /\ step[p] \in DOMAIN Script[running[p]] /\ step[p] \in Nat
         /\ phase[p] # "take" => At(p).do = "drain" /\ At(p).of \in NetQueues
         /\ StepExact(p, Script[running[p]], step[p])
<1>1. /\ running[p] \in Channels /\ Owner(running[p]) = p /\ p \in system.detail
      /\ step[p] \in DOMAIN Script[running[p]] /\ step[p] \in Nat
      /\ phase[p] # "take" => At(p).do = "drain" /\ At(p).of \in NetQueues
  BY DEF BuffersIInv, BuffersTypeOK, HandlerExact
<1>2. StepExact(p, Script[running[p]], step[p])
  BY <1>1, ScriptsExact
<1> QED
  BY <1>1, <1>2

\* Filling queues whose readers p will tell.
LEMMA WritesInv ==
  ASSUME BuffersIInv, NEW p \in Components, running[p] # "none", NEW W \in SUBSET Queues,
         written' = [written EXCEPT ![p] = @ \cup W],
         UNCHANGED <<system, overwritten, listening, signalled, running, step, phase>>,
         at' \in [Buffers -> Queues \cup Kept],
         \A b \in Buffers : at'[b] # at[b] /\ at'[b] \in Queues \ Sending => at'[b] \in W,
         \A q \in W : ToldLater(Script[running[p]], step[p], q),
         \A q \in W : q \notin Sending /\ Reader[q] \in system.detail => Used(q)
  PROVE  BuffersIInv'
<1>1. system' = system /\ overwritten' = overwritten /\ listening' = listening /\ signalled' = signalled /\ running' = running
      /\ step' = step /\ phase' = phase
  OBVIOUS
<1>2. BuffersTypeOK'
  <2>1. written' \in [Components -> SUBSET Queues]
    BY DEF BuffersIInv, BuffersTypeOK
  <2> QED
    BY <1>1, <2>1 DEF BuffersIInv, BuffersTypeOK
<1>3. \A o \in Components : HandlerExact(o)' /\ LookIsSafe(o)'
  BY <1>1 DEF BuffersIInv, HandlerExact, LookIsSafe, At
<1>4. FilledIsUsed'
  BY <1>1 DEF BuffersIInv, FilledIsUsed, Used
<1>5. \A q : Comes(q)' <=> Comes(q)
  BY <1>1 DEF Comes, Covers
<1>6. DeafReaderComes'
  BY <1>1, <1>5 DEF BuffersIInv, DeafReaderComes, Used
<1>7. \A o \in Components : written[o] \subseteq written'[o]
  BY DEF BuffersIInv, BuffersTypeOK
<1>8. \A o \in Components, q \in Queues : Tells(o, q) => Tells(o, q)'
  BY <1>1, <1>7 DEF Tells
<1>9. \A q \in W : Tells(p, q)'
  <2> SUFFICES ASSUME NEW q \in W PROVE Tells(p, q)'
    OBVIOUS
  <2>1. q \in written'[p]
    BY DEF BuffersIInv, BuffersTypeOK
  <2>2. PICK j \in DOMAIN Script[running[p]] :
          step[p] < j /\ TellsAt(running[p], j, q)
    BY Zenon DEF ToldLater, TellsAt
  <2>3. step[p] <= j
    <3>1. step[p] \in Nat /\ j \in Nat
      BY HandlerParts, ScriptsExact
    <3> QED
      BY <2>2, <3>1
  <2> QED
    BY <1>1, <2>1, <2>2, <2>3 DEF Tells
<1>10. FilledIsSeen'
  <2> SUFFICES ASSUME NEW q \in Queues \ Sending, Reader[q] \in system.detail, NEW b \in Buffers, at'[b] = q
               PROVE  Comes(q) \/ q \in overwritten \/ \E o \in Components : Tells(o, q)'
    BY <1>1, <1>5 DEF FilledIsSeen, In
  <2>1. CASE at[b] = q
    BY <2>1, <1>1, <1>8 DEF BuffersIInv, FilledIsSeen, In
  <2>2. CASE at[b] # q
    BY <2>2, <1>9
  <2> QED
    BY <2>1, <2>2
<1> QED
  BY <1>2, <1>3, <1>4, <1>6, <1>10 DEF BuffersIInv

\* Filling a queue from outside.
LEMMA HandInv ==
  ASSUME BuffersIInv, NEW b \in Buffers, NEW q \in (Queues \cup Kept) \ {"answered"}, Hand(b, q),
         q \in Queues \ Sending /\ Reader[q] \in system.detail => Used(q)
  PROVE  BuffersIInv'
<1>1. /\ at' = [at EXCEPT ![b] = q]
      /\ system' = system /\ overwritten' = overwritten /\ running' = running /\ step' = step /\ phase' = phase /\ written' = written
  BY DEF Hand, handlers
<1> DEFINE hears == q \in Queues /\ Reader[q] \in system.detail /\ (q \in NetQueues => q \in listening)
<1>2. /\ hears => signalled' = signalled \cup {Reader[q]} /\ listening' = listening \ {q}
      /\ ~hears => signalled' = signalled /\ listening' = listening
  BY DEF Hand
<1> HIDE DEF hears
<1>3. signalled \subseteq signalled' /\ listening' \subseteq listening
  BY <1>2
<1>4. hears => Answering(q) \in signalled'
  BY <1>2 DEF Answering
<1>5. \A r : r # q => (r \in listening <=> r \in listening')
  BY <1>2
<1>6. BuffersTypeOK'
  <2>1. at' \in [Buffers -> Queues \cup Kept]
    BY <1>1 DEF BuffersIInv, BuffersTypeOK
  <2>2. hears => Reader[q] \in Channels /\ Owner(Reader[q]) = Reader[q]
    BY QueueNames DEF hears, Reader, Channels, Components, Owner
  <2>3. signalled' \subseteq {c \in Channels : Owner(c) \in system.detail}
    BY <1>2, <2>2 DEF BuffersIInv, BuffersTypeOK, hears
  <2>4. listening' \subseteq NetQueues
    BY <1>3 DEF BuffersIInv, BuffersTypeOK
  <2> QED
    BY <1>1, <2>1, <2>3, <2>4 DEF BuffersIInv, BuffersTypeOK
<1>7. \A o \in Components : HandlerExact(o)' /\ LookIsSafe(o)'
  <2> SUFFICES ASSUME NEW o \in Components PROVE HandlerExact(o)' /\ LookIsSafe(o)'
    OBVIOUS
  <2>1. HandlerExact(o)'
    BY <1>1 DEF BuffersIInv, HandlerExact, At
  <2>2. LookIsSafe(o)'
    <3> SUFFICES ASSUME running[o] # "none", phase[o] = "look"
                 PROVE  At(o).of \in listening' \/ Reader[At(o).of] \in signalled'
      BY <1>1 DEF LookIsSafe, At
    <3>1. At(o).of \in listening \/ Reader[At(o).of] \in signalled
      BY DEF BuffersIInv, LookIsSafe
    <3> QED
      BY <1>2, <1>3, <3>1
  <2> QED
    BY <2>1, <2>2
<1>8. FilledIsUsed'
  <2> SUFFICES ASSUME NEW c \in Buffers, at'[c] \in Queues \ Sending, Reader[at'[c]] \in system.detail
               PROVE  Used(at'[c])
    BY <1>1 DEF FilledIsUsed, Used
  <2>1. CASE c = b
    BY <1>1, <2>1 DEF BuffersIInv, BuffersTypeOK
  <2>2. CASE c # b
    BY <1>1, <2>2 DEF BuffersIInv, BuffersTypeOK, FilledIsUsed
  <2> QED
    BY <2>1, <2>2
<1>9. \A r : Comes(r) => Comes(r)'
  BY <1>1, <1>3 DEF Comes, Covers
<1>10. DeafReaderComes'
  <2> SUFFICES ASSUME NEW r \in NetQueues \ Sending, Reader[r] \in system.detail, Used(r), r \notin listening'
               PROVE  Comes(r)'
    BY <1>1 DEF DeafReaderComes, Used
  <2>1. CASE r \notin listening
    BY <1>9, <2>1 DEF BuffersIInv, DeafReaderComes
  <2>2. CASE r \in listening
    BY <1>2, <1>4, <1>5, <2>2 DEF Comes
  <2> QED
    BY <2>1, <2>2
<1>11. FilledIsSeen'
  <2> SUFFICES ASSUME NEW r \in Queues \ Sending, Reader[r] \in system.detail, NEW c \in Buffers, at'[c] = r
               PROVE  Comes(r)' \/ r \in overwritten \/ \E o \in Components : Tells(o, r)'
    BY <1>1 DEF FilledIsSeen, In
  <2>1. CASE at[c] = r
    <3>1. Comes(r) \/ r \in overwritten \/ \E o \in Components : Tells(o, r)
      BY <2>1 DEF BuffersIInv, FilledIsSeen, In
    <3> QED
      BY <1>1, <1>9, <3>1 DEF Tells
  <2>2. CASE at[c] # r
    <3>1. c = b /\ r = q
      BY <1>1, <2>2 DEF BuffersIInv, BuffersTypeOK
    <3>2. CASE hears
      BY <1>4, <3>1, <3>2 DEF Comes
    <3>3. CASE ~hears
      <4>1. q \in NetQueues \ Sending /\ q \notin listening /\ Used(q)
        BY <3>1, <3>3 DEF hears
      <4> QED
        BY <1>9, <3>1, <4>1 DEF BuffersIInv, DeafReaderComes
    <3> QED
      BY <3>2, <3>3
  <2> QED
    BY <2>1, <2>2
<1> QED
  BY <1>6, <1>7, <1>8, <1>10, <1>11 DEF BuffersIInv

\* Going on to the next step.
LEMMA GoesInv ==
  ASSUME BuffersIInv, NEW p \in Components, Goes(p), at' = at,
         overwritten \subseteq overwritten', overwritten' \subseteq {"icmpActive"},
         written'[p] \subseteq Queues, written' \in [Components -> SUBSET Queues],
         listening' \subseteq listening,
         signalled \subseteq signalled', signalled' \subseteq {c \in Channels : Owner(c) \in system.detail},
         \A q \in Queues : q \in listening \ listening' => Reader[q] \in signalled' /\ q # "answered",
         \A q \in Queues \ Sending : DrainsAt(running[p], step[p], q) =>
            In(q) = {} /\ (q \in NetQueues => q \in listening \/ Reader[q] \in signalled),
         \A q \in Queues \ Sending : Reader[q] \in system.detail /\ In(q) # {} /\ Tells(p, q) /\ ~Comes(q) =>
            \/ Answering(q) \in signalled' \/ q \in overwritten'
            \/ q \in written'[p] /\ ~TellsAt(running[p], step[p], q)
  PROVE  BuffersIInv'
<1>1. /\ system' = system /\ running[p] \in Channels /\ step[p] + 1 \in Nat \ {0} /\ step[p] \in Nat
      /\ GoOn(p, running[p], step[p] + 1, written'[p])
  BY DEF Goes, NextStep, BuffersIInv, BuffersTypeOK
<1>2. /\ running' \in [Components -> Channels \cup {"none"}]
      /\ step' \in [Components -> Nat \ {0}]
      /\ phase' \in [Components -> {"take", "ask", "look"}]
      /\ \A o \in Components : o # p =>
           running'[o] = running[o] /\ step'[o] = step[o] /\ phase'[o] = phase[o]
      /\ phase'[p] = "take" /\ running'[p] \in {running[p], "none"}
      /\ running'[p] # "none" => step'[p] \in DOMAIN Script[running[p]]
  BY <1>1, GoesOn DEF BuffersIInv
<1>3. BuffersTypeOK'
  BY <1>1, <1>2 DEF BuffersIInv, BuffersTypeOK
<1>4. \A o \in Components : HandlerExact(o)' /\ LookIsSafe(o)'
  <2> SUFFICES ASSUME NEW o \in Components PROVE HandlerExact(o)' /\ LookIsSafe(o)'
    OBVIOUS
  <2>1. CASE o = p
    <3>1. running'[p] # "none" => Owner(running[p]) = p /\ p \in system.detail
      BY HandlerParts DEF Goes
    <3> QED
      BY <1>1, <1>2, <2>1, <3>1 DEF HandlerExact, LookIsSafe
  <2>2. CASE o # p
    <3>1. running'[o] = running[o] /\ step'[o] = step[o] /\ phase'[o] = phase[o]
      BY <1>2, <2>2
    <3>2. HandlerExact(o)'
      BY <1>1, <3>1 DEF BuffersIInv, HandlerExact, At
    <3>3. LookIsSafe(o)'
      <4> SUFFICES ASSUME running[o] # "none", phase[o] = "look"
                   PROVE  At(o).of \in listening' \/ Reader[At(o).of] \in signalled'
        BY <3>1 DEF LookIsSafe, At
      <4>1. At(o).of \in listening \/ Reader[At(o).of] \in signalled
        BY DEF BuffersIInv, LookIsSafe
      <4>2. At(o).of \in Queues
        BY HandlerParts, NetQueueNames
      <4> QED
        BY <4>1, <4>2
    <3> QED
      BY <3>2, <3>3
  <2> QED
    BY <2>1, <2>2
<1>5. FilledIsUsed'
  BY <1>1 DEF BuffersIInv, FilledIsUsed, Used
<1>6. ASSUME NEW q \in Queues \ Sending, Used(q), Comes(q), ~DrainsAt(running[p], step[p], q)
      PROVE  Comes(q)'
  <2>1. Reader[q] \in Components
    BY EveryQueueIsRead
  <2> QED
    BY <1>6, <2>1, StillCovers DEF Comes
<1>7. ASSUME NEW q \in Queues, q \in listening \ listening' PROVE Comes(q)'
  BY <1>7 DEF Comes, Answering
<1>8. DeafReaderComes'
  <2> SUFFICES ASSUME NEW q \in NetQueues \ Sending, Reader[q] \in system.detail, Used(q), q \notin listening'
               PROVE  Comes(q)'
    BY <1>1 DEF DeafReaderComes, Used
  <2>1. q \in Queues \ Sending /\ q # "answered"
    BY NetQueueNames
  <2>2. CASE q \in listening
    BY <1>7, <2>1, <2>2
  <2>3. CASE q \notin listening /\ DrainsAt(running[p], step[p], q)
    <3>1. Reader[q] \in signalled'
      BY <2>1, <2>3
    <3> QED
      BY <2>1, <3>1 DEF Comes, Answering
  <2>4. CASE q \notin listening /\ ~DrainsAt(running[p], step[p], q)
    <3>1. Comes(q)
      BY <2>4 DEF BuffersIInv, DeafReaderComes
    <3> QED
      BY <1>6, <2>1, <2>4, <3>1
  <2> QED
    BY <2>2, <2>3, <2>4
<1>9. FilledIsSeen'
  <2> SUFFICES ASSUME NEW q \in Queues \ Sending, Reader[q] \in system.detail, In(q) # {}
               PROVE  Comes(q)' \/ q \in overwritten' \/ \E o \in Components : Tells(o, q)'
    BY <1>1 DEF FilledIsSeen, In
  <2>1. Used(q) /\ ~DrainsAt(running[p], step[p], q)
    BY DEF BuffersIInv, FilledIsUsed, In
  <2>2. CASE Comes(q) \/ q \in overwritten
    BY <1>6, <2>1, <2>2
  <2>3. CASE ~Comes(q) /\ q \notin overwritten
    <3>1. PICK o \in Components : Tells(o, q)
      BY <2>3 DEF BuffersIInv, FilledIsSeen
    <3>2. CASE o # p
      BY <3>1, <3>2, StillTells
    <3>3. CASE o = p
      <4>1. \/ Answering(q) \in signalled' \/ q \in overwritten'
            \/ q \in written'[p] /\ ~TellsAt(running[p], step[p], q)
        BY <2>3, <3>1, <3>3
      <4>2. CASE Answering(q) \in signalled' \/ q \in overwritten'
        BY <4>2 DEF Comes
      <4>3. CASE q \in written'[p] /\ ~TellsAt(running[p], step[p], q)
        BY <3>1, <3>3, <4>3, StillTells
      <4> QED
        BY <4>1, <4>2, <4>3
    <3> QED
      BY <3>2, <3>3
  <2> QED
    BY <2>2, <2>3
<1> QED
  BY <1>3, <1>4, <1>5, <1>8, <1>9 DEF BuffersIInv

\* notified().
LEMMA WakeInv == ASSUME BuffersIInv, NEW c \in Channels, Wake(c) PROVE BuffersIInv'
<1> DEFINE p == Owner(c)
<1>0. p \in Components /\ c \in signalled /\ running[p] = "none" /\ p \in system.detail
  BY ChannelsNamed DEF Wake, BuffersIInv, BuffersTypeOK
<1>1. /\ system' = system /\ at' = at /\ listening' = listening /\ written' = written
      /\ overwritten' = {q \in overwritten : Reader[q] # c}
      /\ signalled' = signalled \ {c} /\ GoOn(p, c, 1, written[p])
  BY DEF Wake
<1>p. Owner(c) = p
  OBVIOUS
<1> HIDE DEF p
<1>2. /\ running' \in [Components -> Channels \cup {"none"}]
      /\ step' \in [Components -> Nat \ {0}]
      /\ phase' \in [Components -> {"take", "ask", "look"}]
      /\ \A o \in Components : o # p =>
           running'[o] = running[o] /\ step'[o] = step[o] /\ phase'[o] = phase[o]
      /\ phase'[p] = "take" /\ running'[p] \in {c, "none"}
      /\ running'[p] # "none" => step'[p] \in DOMAIN Script[c]
      /\ \A i \in DOMAIN Script[c] : 1 <= i /\ Matters(c, i, written[p]) =>
           running'[p] = c /\ step'[p] <= i
  BY <1>0, <1>1, GoesOn DEF BuffersIInv
<1>3. BuffersTypeOK'
  BY <1>1, <1>2 DEF BuffersIInv, BuffersTypeOK
<1>4. \A o \in Components : HandlerExact(o)' /\ LookIsSafe(o)'
  <2> SUFFICES ASSUME NEW o \in Components PROVE HandlerExact(o)' /\ LookIsSafe(o)'
    OBVIOUS
  <2>1. CASE o = p
    BY <1>0, <1>1, <1>2, <1>p, <2>1 DEF HandlerExact, LookIsSafe
  <2>2. CASE o # p
    <3>1. running'[o] = running[o] /\ step'[o] = step[o] /\ phase'[o] = phase[o]
      BY <1>2, <2>2
    <3>2. HandlerExact(o)'
      BY <1>1, <3>1 DEF BuffersIInv, HandlerExact, At
    <3>3. LookIsSafe(o)'
      <4> SUFFICES ASSUME running[o] # "none", phase[o] = "look"
                   PROVE  At(o).of \in listening' \/ Reader[At(o).of] \in signalled'
        BY <3>1 DEF LookIsSafe, At
      <4>1. At(o).of \in listening \/ Reader[At(o).of] \in signalled
        BY DEF BuffersIInv, LookIsSafe
      <4>2. Reader[At(o).of] = o
        <5>1. StepExact(o, Script[running[o]], step[o]) /\ At(o).do = "drain"
          BY HandlerParts
        <5> QED
          BY <5>1 DEF StepExact, At
      <4>3. o # c
        BY <1>p, <2>2 DEF Owner, Components
      <4> QED
        BY <1>1, <4>1, <4>2, <4>3
    <3> QED
      BY <3>2, <3>3
  <2> QED
    BY <2>1, <2>2
<1>5. FilledIsUsed'
  BY <1>1 DEF BuffersIInv, FilledIsUsed, Used
<1>woken. ASSUME NEW q \in Queues \ Sending, Used(q), Answering(q) = c PROVE Comes(q)'
  <2>1. Reader[q] = p
    BY <1>p, <1>woken, EveryQueueIsRead
  <2>2. PICK i \in DOMAIN Script[c] : DrainsAt(c, i, q)
    BY <1>woken, EveryQueueIsRead
  <2>3. i \in Nat /\ 1 <= i
    BY ScriptsExact
  <2>4. Matters(c, i, written[p])
    BY <1>woken, <2>2 DEF Matters, DrainsAt
  <2>5. running'[p] = c /\ step'[p] <= i
    BY <1>2, <2>3, <2>4
  <2> QED
    BY <2>1, <2>2, <2>5, ChannelsNamed DEF Comes, Covers
<1>6. ASSUME NEW q \in Queues \ Sending, Used(q), Comes(q) PROVE Comes(q)'
  <2>0. Reader[q] \in Components
    BY EveryQueueIsRead
  <2>1. CASE Answering(q) \in signalled /\ Answering(q) # c
    BY <1>1, <2>1 DEF Comes
  <2>2. CASE Answering(q) = c
    BY <1>6, <1>woken, <2>2
  <2>3. CASE Covers(Reader[q], q)
    <3>1. Reader[q] # p
      BY <1>0, <2>3 DEF Covers
    <3>2. running'[Reader[q]] = running[Reader[q]] /\ step'[Reader[q]] = step[Reader[q]]
      BY <1>2, <2>0, <3>1
    <3>3. Covers(Reader[q], q)'
      BY <2>3, <3>2 DEF Covers
    <3> QED
      BY <3>3 DEF Comes
  <2> QED
    BY <1>6, <2>1, <2>2, <2>3 DEF Comes
<1>7. ASSUME NEW o \in Components, NEW q \in Queues, Tells(o, q) PROVE Tells(o, q)'
  <2>1. o # p
    BY <1>0, <1>7 DEF Tells
  <2>2. running'[o] = running[o] /\ step'[o] = step[o] /\ written'[o] = written[o]
    BY <1>1, <1>2, <2>1
  <2> QED
    BY <1>7, <2>2 DEF Tells
<1>8. DeafReaderComes'
  <2> SUFFICES ASSUME NEW q \in NetQueues \ Sending, Reader[q] \in system.detail, Used(q), q \notin listening
               PROVE  Comes(q)'
    BY <1>1 DEF DeafReaderComes, Used
  <2>1. Comes(q) /\ q \in Queues \ Sending
    BY NetQueueNames DEF BuffersIInv, DeafReaderComes
  <2> QED
    BY <1>6, <2>1
<1>9. FilledIsSeen'
  <2> SUFFICES ASSUME NEW q \in Queues \ Sending, Reader[q] \in system.detail, In(q) # {}
               PROVE  Comes(q)' \/ q \in overwritten' \/ \E o \in Components : Tells(o, q)'
    BY <1>1 DEF FilledIsSeen, In
  <2>1. Used(q)
    BY DEF BuffersIInv, FilledIsUsed, In
  <2>2. Comes(q) \/ q \in overwritten \/ \E o \in Components : Tells(o, q)
    BY DEF BuffersIInv, FilledIsSeen
  <2>3. CASE q \in overwritten /\ Reader[q] = c
    <3>1. Answering(q) = c /\ Reader[q] = "virtTx"
      BY <2>3 DEF BuffersIInv, BuffersTypeOK, Answering, Reader
    <3> QED
      BY <1>woken, <2>1, <3>1
  <2> QED
    BY <1>1, <1>6, <1>7, <2>1, <2>2, <2>3
<1> QED
  BY <1>3, <1>4, <1>5, <1>8, <1>9 DEF BuffersIInv

\* The queue was found empty, and is not looked at again.
LEMMA EmptyLeftInv ==
  ASSUME BuffersIInv, NEW p \in Components, running[p] # "none", At(p).do = "drain", In(At(p).of) = {},
         At(p).of \in NetQueues => At(p).of \in listening \/ Reader[At(p).of] \in signalled,
         NextStep(p, written[p]), UNCHANGED <<system, overwritten, at, listening, signalled, written>>
  PROVE  BuffersIInv'
<1>1. /\ Goes(p) /\ at' = at /\ listening' = listening /\ signalled' = signalled /\ written' = written
      /\ overwritten \subseteq overwritten' /\ overwritten' \subseteq {"icmpActive"}
  BY DEF Goes, BuffersIInv, BuffersTypeOK
<1>2. written'[p] \subseteq Queues /\ written' \in [Components -> SUBSET Queues]
      /\ signalled \subseteq {c \in Channels : Owner(c) \in system.detail}
  BY <1>1 DEF BuffersIInv, BuffersTypeOK
<1>3. \A q : DrainsAt(running[p], step[p], q) => q = At(p).of
  BY DEF DrainsAt, At
<1>4. \A q \in Queues \ Sending : Tells(p, q) =>
        q \in written'[p] /\ ~TellsAt(running[p], step[p], q)
  <2>1. At(p).do \notin Telling
    BY DEF Telling
  <2> QED
    BY <1>1, <2>1, Zenon DEF Tells, TellsAt, At
<1> QED
  BY <1>1, <1>2, <1>3, <1>4, GoesInv

LEMMA WorkDoneInv == ASSUME BuffersIInv, NEW p \in Components, WorkDone(p) PROVE BuffersIInv'
<1>1. /\ Goes(p) /\ at' = at /\ listening' = listening /\ signalled' = signalled /\ written' = written
      /\ overwritten \subseteq overwritten' /\ overwritten' \subseteq {"icmpActive"}
      /\ Script[running[p]][step[p]].do = "work"
  BY DEF WorkDone, Working, Goes, At, BuffersIInv, BuffersTypeOK
<1>2. written'[p] \subseteq Queues /\ written' \in [Components -> SUBSET Queues]
      /\ signalled \subseteq {c \in Channels : Owner(c) \in system.detail}
  BY <1>1 DEF BuffersIInv, BuffersTypeOK
<1>3. \A q : ~DrainsAt(running[p], step[p], q)
  BY <1>1 DEF DrainsAt
<1>4. \A q \in Queues \ Sending : Tells(p, q) =>
        q \in written'[p] /\ ~TellsAt(running[p], step[p], q)
  <2>1. Script[running[p]][step[p]].do \notin Telling
    BY <1>1 DEF Telling
  <2> QED
    BY <1>1, <2>1, Zenon DEF Tells, TellsAt
<1> QED
  BY <1>1, <1>2, <1>3, <1>4, GoesInv

\* The phases of a drain: the component stays where it is, and asks more than before.
LEMMA PhaseInv ==
  ASSUME BuffersIInv, NEW p \in Components, running[p] # "none",
         At(p).do = "drain", At(p).of \in NetQueues, NEW ph \in {"take", "ask", "look"},
         phase' = [phase EXCEPT ![p] = ph], listening' \subseteq NetQueues,
         \A q \in Queues : q # At(p).of => (q \in listening' <=> q \in listening),
         ph = "look" => listening' = listening \cup {At(p).of},
         UNCHANGED <<system, overwritten, at, signalled, running, step, written>>,
         ph = "look" \/ \A o \in Components \ {p} :
           running[o] # "none" /\ phase[o] = "look" => At(o).of # At(p).of
  PROVE  BuffersIInv'
<1>1. /\ system' = system /\ overwritten' = overwritten /\ at' = at /\ signalled' = signalled
      /\ running' = running /\ step' = step /\ written' = written
  OBVIOUS
<1>2. BuffersTypeOK'
  BY <1>1 DEF BuffersIInv, BuffersTypeOK
<1>3. /\ phase'[p] = ph
      /\ \A o \in Components : o # p => phase'[o] = phase[o]
  BY DEF BuffersIInv, BuffersTypeOK
<1>4. \A o \in Components : HandlerExact(o)' /\ LookIsSafe(o)'
  <2> SUFFICES ASSUME NEW o \in Components PROVE HandlerExact(o)' /\ LookIsSafe(o)'
    OBVIOUS
  <2>1. HandlerExact(o)'
    BY <1>1, <1>3 DEF BuffersIInv, HandlerExact, At
  <2>2. CASE o = p
    BY <1>1, <1>3, <2>2, <2>1 DEF LookIsSafe, At
  <2>3. CASE o # p
    <3> SUFFICES ASSUME running[o] # "none", phase[o] = "look"
                 PROVE  At(o).of \in listening' \/ Reader[At(o).of] \in signalled
      BY <1>1, <1>3, <2>1, <2>3 DEF LookIsSafe, At
    <3>1. At(o).of \in listening \/ Reader[At(o).of] \in signalled
      BY DEF BuffersIInv, LookIsSafe
    <3>2. At(o).of \in Queues
      BY HandlerParts, NetQueueNames
    <3> QED
      BY <2>3, <3>1, <3>2
  <2> QED
    BY <2>1, <2>2, <2>3
<1>5. FilledIsUsed'
  BY <1>1 DEF BuffersIInv, FilledIsUsed, Used
<1>6. \A q : (Comes(q)' <=> Comes(q)) /\ \A o \in Components : Tells(o, q)' <=> Tells(o, q)
  BY <1>1 DEF Comes, Covers, Tells
<1>7. Comes(At(p).of)
  <2>1. /\ running[p] \in Channels /\ step[p] \in DOMAIN Script[running[p]] /\ step[p] \in Nat
        /\ Reader[At(p).of] = p
    BY HandlerParts DEF StepExact, At
  <2>2. DrainsAt(running[p], step[p], At(p).of) /\ step[p] <= step[p]
    BY <2>1 DEF DrainsAt, At
  <2> QED
    BY <2>1, <2>2 DEF Comes, Covers
<1>8. DeafReaderComes'
  <2> SUFFICES ASSUME NEW q \in NetQueues \ Sending, Reader[q] \in system.detail, Used(q), q \notin listening'
               PROVE  Comes(q)
    BY <1>1, <1>6 DEF DeafReaderComes, Used
  <2>1. CASE q = At(p).of
    BY <1>7, <2>1
  <2>2. CASE q # At(p).of
    BY <2>2, NetQueueNames DEF BuffersIInv, DeafReaderComes
  <2> QED
    BY <2>1, <2>2
<1>9. FilledIsSeen'
  BY <1>1, <1>6 DEF BuffersIInv, FilledIsSeen, In
<1> QED
  BY <1>2, <1>4, <1>5, <1>8, <1>9 DEF BuffersIInv

\* Two components drain different queues.
LEMMA DrainsApart ==
  ASSUME BuffersIInv, NEW p \in Components, running[p] # "none", At(p).do = "drain",
         NEW o \in Components, o # p, running[o] # "none", At(o).do = "drain"
  PROVE  At(o).of # At(p).of
<1>1. Reader[At(p).of] = p /\ Reader[At(o).of] = o
  BY HandlerParts DEF StepExact, At
<1> QED
  BY <1>1

LEMMA FoundEmptyInv == ASSUME BuffersIInv, NEW p \in Components, FoundEmpty(p) PROVE BuffersIInv'
<1>1. /\ running[p] # "none" /\ At(p).do = "drain" /\ In(At(p).of) = {}
      /\ UNCHANGED <<system, overwritten, at, listening, signalled, written>>
  BY DEF FoundEmpty, Draining
<1>2. CASE At(p).of \in NetQueues
  <2>1. phase' = [phase EXCEPT ![p] = "ask"] /\ running' = running /\ step' = step
    BY <1>2 DEF FoundEmpty
  <2>2. listening' \subseteq NetQueues
    BY <1>1 DEF BuffersIInv, BuffersTypeOK
  <2>3. \A o \in Components \ {p} : running[o] # "none" /\ phase[o] = "look" => At(o).of # At(p).of
    BY <1>1, HandlerParts, DrainsApart
  <2> QED
    BY <1>1, <1>2, <2>1, <2>2, <2>3, PhaseInv
<1>3. CASE At(p).of \notin NetQueues
  BY <1>1, <1>3, EmptyLeftInv DEF FoundEmpty
<1> QED
  BY <1>2, <1>3

LEMMA AskInv == ASSUME BuffersIInv, NEW p \in Components, Ask(p) PROVE BuffersIInv'
<1>1. /\ running[p] # "none" /\ At(p).do = "drain" /\ phase[p] = "ask"
      /\ listening' = listening \cup {At(p).of} /\ phase' = [phase EXCEPT ![p] = "look"]
      /\ UNCHANGED <<system, overwritten, at, signalled, running, step, written>>
  BY DEF Ask, Draining
<1>2. At(p).of \in NetQueues
  BY <1>1, HandlerParts
<1>3. listening' \subseteq NetQueues
  BY <1>1, <1>2 DEF BuffersIInv, BuffersTypeOK
<1> QED
  BY <1>1, <1>2, <1>3, PhaseInv

LEMMA LookAgainInv == ASSUME BuffersIInv, NEW p \in Components, LookAgain(p) PROVE BuffersIInv'
<1>1. /\ running[p] # "none" /\ At(p).do = "drain" /\ phase[p] = "look"
      /\ UNCHANGED <<system, overwritten, at, signalled, written>>
  BY DEF LookAgain, Draining
<1>2. At(p).of \in NetQueues
  BY <1>1, HandlerParts
<1>3. CASE In(At(p).of) = {}
  <2>1. NextStep(p, written[p]) /\ listening' = listening
    BY <1>3 DEF LookAgain
  <2>2. At(p).of \in listening \/ Reader[At(p).of] \in signalled
    BY <1>1 DEF BuffersIInv, LookIsSafe
  <2> QED
    BY <1>1, <1>3, <2>1, <2>2, EmptyLeftInv
<1>4. CASE In(At(p).of) # {}
  <2>1. /\ listening' = listening \ {At(p).of} /\ phase' = [phase EXCEPT ![p] = "take"]
        /\ running' = running /\ step' = step
    BY <1>4 DEF LookAgain
  <2>2. listening' \subseteq NetQueues
    BY <2>1 DEF BuffersIInv, BuffersTypeOK
  <2>3. \A o \in Components \ {p} : running[o] # "none" /\ phase[o] = "look" => At(o).of # At(p).of
    BY <1>1, HandlerParts, DrainsApart
  <2> QED
    BY <1>1, <1>2, <2>1, <2>2, <2>3, PhaseInv
<1> QED
  BY <1>3, <1>4

LEMMA ReadersAreComponents ==
  ASSUME NEW q \in Queues
  PROVE  Reader[q] \in Channels /\ Owner(Reader[q]) = Reader[q]
  BY QueueNames DEF Reader, Channels, Components, Owner

LEMMA TellReaderInv == ASSUME BuffersIInv, NEW p \in Components, TellReader(p) PROVE BuffersIInv'
<1> DEFINE q == At(p).of
           sends == q \in written[p] /\ (At(p).do # "tell if listening" \/ q \in listening)
           kept == IF q = "rxFree" /\ ~sends THEN written[p] ELSE written[p] \ {q}
<1>1. /\ running[p] # "none" /\ At(p).do \in Telling
      /\ signalled' = IF sends THEN signalled \cup ({Reader[q]} \cap system.detail) ELSE signalled
      /\ listening' = IF sends /\ At(p).do = "tell if listening" /\ Reader[q] \in system.detail
                      THEN listening \ {q} ELSE listening
      /\ written' = [written EXCEPT ![p] = kept]
      /\ NextStep(p, written'[p]) /\ system' = system /\ overwritten' = overwritten /\ at' = at
  BY Zenon DEF TellReader
<1>2. /\ q \in Queues \ {"answered"}
      /\ At(p).do = "tell if listening" => q \in NetQueues
  BY <1>1, HandlerParts DEF StepExact, At
<1>3. /\ Reader[q] \in Channels /\ Owner(Reader[q]) = Reader[q]
      /\ q # "answered" /\ Answering(q) = Reader[q]
  BY <1>2, ReadersAreComponents DEF Answering
<1>4. kept \subseteq Queues /\ written[p] \ {q} \subseteq kept
  BY DEF BuffersIInv, BuffersTypeOK
<1>5. \A r : DrainsAt(running[p], step[p], r) => At(p).do = "drain"
  BY DEF DrainsAt, At
<1>6. \A r : TellsAt(running[p], step[p], r) => r = q
  BY DEF TellsAt, At
<1>7. \A r : ~DrainsAt(running[p], step[p], r)
  BY <1>1, <1>5 DEF Telling
<1>8. /\ written' \in [Components -> SUBSET Queues] /\ written'[p] = kept
      /\ \A o \in Components : o # p => written'[o] = written[o]
  BY <1>1, <1>4 DEF BuffersIInv, BuffersTypeOK
<1> HIDE DEF q, kept
<1>9. /\ signalled' \subseteq {c \in Channels : Owner(c) \in system.detail} /\ signalled \subseteq signalled'
      /\ overwritten \subseteq overwritten' /\ overwritten' \subseteq {"icmpActive"}
  BY <1>1, <1>3 DEF BuffersIInv, BuffersTypeOK
<1>10. listening' \subseteq listening
  BY <1>1
<1>11. \A r \in Queues : r \in listening \ listening' => Reader[r] \in signalled' /\ r # "answered"
  BY <1>1, <1>3
<1>12. ASSUME NEW r \in Queues \ Sending, Reader[r] \in system.detail, In(r) # {}, Tells(p, r), ~Comes(r)
       PROVE  \/ Answering(r) \in signalled'
              \/ r \in written'[p] /\ ~TellsAt(running[p], step[p], r)
  <2>1. r \in written[p]
    BY <1>12 DEF Tells
  <2>2. CASE r # q
    BY <1>4, <1>6, <1>8, <2>1, <2>2
  <2>3. CASE r = q
    <3>1. CASE sends
      BY <1>1, <1>3, <1>12, <2>3, <3>1
    <3>2. CASE ~sends
      <4>1. At(p).do = "tell if listening" /\ q \notin listening
        BY <1>1, <2>1, <2>3, <3>2
      <4>2. r \in NetQueues \ Sending /\ Used(r)
        BY <1>2, <1>12, <2>3, <4>1 DEF BuffersIInv, FilledIsUsed, In, q
      <4>3. Comes(r)
        BY <1>12, <2>3, <4>1, <4>2 DEF BuffersIInv, DeafReaderComes
      <4> QED
        BY <1>12, <4>3
    <3> QED
      BY <3>1, <3>2
  <2> QED
    BY <2>2, <2>3
<1>13. Goes(p)
  BY <1>1, <1>8 DEF Goes
<1> HIDE DEF sends
<1>14. \A r \in Queues \ Sending : DrainsAt(running[p], step[p], r) =>
         In(r) = {} /\ (r \in NetQueues => r \in listening \/ Reader[r] \in signalled)
  BY <1>7
<1>15. at' = at /\ written'[p] \subseteq Queues /\ written' \in [Components -> SUBSET Queues]
  BY <1>1, <1>4, <1>8
<1>16. \A r \in Queues \ Sending : Reader[r] \in system.detail /\ In(r) # {} /\ Tells(p, r) /\ ~Comes(r) =>
         \/ Answering(r) \in signalled'
         \/ r \in written'[p] /\ ~TellsAt(running[p], step[p], r)
  BY <1>12
<1> QED
  BY <1>9, <1>10, <1>11, <1>13, <1>14, <1>15, <1>16, GoesInv

\* A deferred notification is replaced: its queue counts as overwritten.
LEMMA OverwriteInv == ASSUME BuffersIInv, NEW p \in Components, Overwrite(p) PROVE BuffersIInv'
<1> DEFINE q == At(p).of
<1>1. /\ running[p] # "none" /\ At(p).do = "tell last"
      /\ overwritten' = overwritten \cup {q}
      /\ written' = [written EXCEPT ![p] = @ \ {q}]
      /\ NextStep(p, written'[p])
      /\ UNCHANGED <<system, at, listening, signalled>>
  BY DEF Overwrite
<1>2. q = "icmpActive"
  BY <1>1, HandlerParts DEF StepExact, At
<1>3. /\ overwritten \subseteq overwritten' /\ overwritten' \subseteq {"icmpActive"}
      /\ signalled \subseteq signalled' /\ signalled' \subseteq {c \in Channels : Owner(c) \in system.detail}
      /\ listening' \subseteq listening /\ q \in overwritten'
  BY <1>1, <1>2 DEF BuffersIInv, BuffersTypeOK
<1>4. /\ written' \in [Components -> SUBSET Queues] /\ written'[p] = written[p] \ {q}
      /\ \A o \in Components : o # p => written'[o] = written[o]
  BY <1>1 DEF BuffersIInv, BuffersTypeOK
<1>5. Goes(p)
  BY <1>1, <1>4 DEF Goes
<1>6. \A r : ~DrainsAt(running[p], step[p], r)
  BY <1>1 DEF DrainsAt, At
<1>7. \A r : TellsAt(running[p], step[p], r) => r = q
  BY DEF TellsAt, At
<1>8. \A r \in Queues \ Sending : Tells(p, r) =>
        r \in overwritten' \/ (r \in written'[p] /\ ~TellsAt(running[p], step[p], r))
  <2> SUFFICES ASSUME NEW r \in Queues \ Sending, Tells(p, r), r # q
               PROVE  r \in written'[p] /\ ~TellsAt(running[p], step[p], r)
    BY <1>3
  <2> QED
    BY <1>4, <1>7 DEF Tells
<1>9. at' = at /\ listening' = listening /\ written'[p] \subseteq Queues
  BY <1>1, <1>4
<1> HIDE DEF q
<1> QED
  BY <1>3, <1>4, <1>5, <1>6, <1>8, <1>9, GoesInv

LEMMA PassInv == ASSUME BuffersIInv, NEW p \in Components, Pass(p) PROVE BuffersIInv'
<1>1. /\ running[p] # "none" /\ At(p).do = "drain"
      /\ UNCHANGED <<system, overwritten, listening, signalled, running, step, phase>>
  BY DEF Pass, Draining
<1>2. PICK b \in Buffers, q \in At(p).to :
        /\ Leads(b, q) /\ at' = [at EXCEPT ![b] = q]
        /\ written' = [written EXCEPT ![p] = @ \cup ({q} \cap Queues)]
  BY DEF Pass, In
<1>3. /\ q \in Queues \cup Kept
      /\ q \in Queues => ToldLater(Script[running[p]], step[p], q) /\ Used(q)
  BY <1>1, <1>2, HandlerParts DEF StepExact, At, Leads
<1> DEFINE W == {q} \cap Queues
<1>4. W \in SUBSET Queues /\ written' = [written EXCEPT ![p] = @ \cup W]
      /\ \A r \in W : ToldLater(Script[running[p]], step[p], r) /\ Used(r)
  BY <1>2, <1>3
<1>5. at' \in [Buffers -> Queues \cup Kept] /\ \A c \in Buffers : at'[c] # at[c] => at'[c] = q
  BY <1>2, <1>3 DEF BuffersIInv, BuffersTypeOK
<1>6. \A c \in Buffers : at'[c] # at[c] /\ at'[c] \in Queues \ Sending => at'[c] \in W
  BY <1>5
<1> HIDE DEF W
<1> QED
  BY <1>1, <1>4, <1>5, <1>6, WritesInv

LEMMA ReplyInv ==
  ASSUME BuffersIInv, NEW b \in RxBuffers, NEW r \in ReplyBuffers, Reply(b, r)
  PROVE  BuffersIInv'
<1> DEFINE p == "responder"
           W == {"responderFree", "replyActive"}
<1>1. /\ running[p] # "none" /\ At(p).do = "drain" /\ Used("replyActive")
      /\ at' = [at EXCEPT ![b] = "responderFree", ![r] = "replyActive"]
      /\ written' = [written EXCEPT ![p] = @ \cup W]
      /\ UNCHANGED <<system, overwritten, listening, signalled, running, step, phase>>
      /\ p \in Components
  BY DEF Reply, Draining, Components
<1>2. W \in SUBSET Queues
  BY QueueNames
<1>3. p \in system.detail /\ StepExact(p, Script[running[p]], step[p])
  BY <1>1, HandlerParts
<1>4. \A q \in W : ToldLater(Script[running[p]], step[p], q)
  BY <1>1, <1>3 DEF StepExact, At
<1>5. \A q \in W : Reader[q] \in system.detail => Used(q)
  BY <1>1, <1>3 DEF Used, Reader, Writer
<1>6. at' \in [Buffers -> Queues \cup Kept] /\ \A c \in Buffers : at'[c] # at[c] => at'[c] \in W
  BY <1>1, <1>2 DEF BuffersIInv, BuffersTypeOK
<1> HIDE DEF p, W
<1> QED
  BY <1>1, <1>2, <1>4, <1>5, <1>6, WritesInv

LEMMA FreeInv == ASSUME BuffersIInv, NEW b \in Buffers, Free(b) PROVE BuffersIInv'
<1> DEFINE p == "webserver"
           W == {"webFree"}
<1>1. /\ running[p] # "none" /\ At(p).do = "work"
      /\ at' = [at EXCEPT ![b] = "webFree"]
      /\ written' = [written EXCEPT ![p] = @ \cup W]
      /\ UNCHANGED <<system, overwritten, listening, signalled, running, step, phase>>
      /\ p \in Components
  BY DEF Free, Working, Components
<1>2. W \in SUBSET Queues
  BY QueueNames
<1>3. p \in system.detail /\ StepExact(p, Script[running[p]], step[p])
  BY <1>1, HandlerParts
<1>4. \A q \in W : ToldLater(Script[running[p]], step[p], q)
  BY <1>1, <1>3 DEF StepExact, At
<1>5. \A q \in W : Reader[q] \in system.detail => Used(q)
  BY <1>1, <1>3 DEF Used, Reader, Writer
<1>6. at' \in [Buffers -> Queues \cup Kept] /\ \A c \in Buffers : at'[c] # at[c] => at'[c] \in W
  BY <1>1, <1>2 DEF BuffersIInv, BuffersTypeOK
<1> HIDE DEF p, W
<1> QED
  BY <1>1, <1>2, <1>4, <1>5, <1>6, WritesInv

LEMMA GenerateInv == ASSUME BuffersIInv, NEW b \in Buffers, Generate(b) PROVE BuffersIInv'
<1> DEFINE p == "icmp"
           W == {"icmpActive"}
<1>1. /\ running[p] # "none" /\ At(p).do = "work"
      /\ at' = [at EXCEPT ![b] = "icmpActive"]
      /\ written' = [written EXCEPT ![p] = @ \cup W]
      /\ UNCHANGED <<system, overwritten, listening, signalled, running, step, phase>>
      /\ p \in Components
  BY DEF Generate, Working, Components
<1>2. W \in SUBSET Queues
  BY QueueNames
<1>3. p \in system.detail /\ StepExact(p, Script[running[p]], step[p])
  BY <1>1, HandlerParts
<1>4. \A q \in W : ToldLater(Script[running[p]], step[p], q)
  BY <1>1, <1>3 DEF StepExact, At
<1>5. \A q \in W : Reader[q] \in system.detail => Used(q)
  BY <1>1, <1>3 DEF Used, Reader, Writer
<1>6. at' \in [Buffers -> Queues \cup Kept] /\ \A c \in Buffers : at'[c] # at[c] => at'[c] \in W
  BY <1>1, <1>2 DEF BuffersIInv, BuffersTypeOK
<1> HIDE DEF p, W
<1> QED
  BY <1>1, <1>2, <1>4, <1>5, <1>6, WritesInv

\* A component that is not looked at in detail.
LEMMA TargetsKnown ==
  ASSUME NEW q \in Queues, NEW to \in Targets[q]
  PROVE  to \in (Queues \cup Kept) \ {"answered"}
<1> DEFINE drains == {t \in UNION {Range(Script[c]) : c \in Channels} : t.do = "drain" /\ t.of = q}
<1>1. Targets[q] = UNION {s.to : s \in drains}
  BY DEF Targets
<1>2. PICK s \in drains : to \in s.to
  BY <1>1
<1>3. s.do = "drain" /\ \E c \in Channels : s \in Range(Script[c])
  OBVIOUS
<1> HIDE DEF drains
<1>4. PICK c \in Channels : s \in Range(Script[c])
  BY <1>3
<1>5. PICK i \in DOMAIN Script[c] : s = Script[c][i]
  BY <1>4 DEF Range
<1>6. StepExact(Owner(c), Script[c], i)
  BY ScriptsExact
<1> QED
  BY <1>2, <1>3, <1>5, <1>6 DEF StepExact

LEMMA PassElsewhereInv == ASSUME BuffersIInv, NEW b \in Buffers, PassElsewhere(b) PROVE BuffersIInv'
<1>1. PICK q \in Targets[at[b]] : Leads(b, q) /\ Hand(b, q)
  BY DEF PassElsewhere
<1>2. q \in (Queues \cup Kept) \ {"answered"}
  BY TargetsKnown DEF PassElsewhere
<1>3. q \in Queues => Used(q)
  BY <1>1 DEF Leads
<1> QED
  BY <1>1, <1>2, <1>3, HandInv

LEMMA SendElsewhereInv ==
  ASSUME BuffersIInv, NEW b \in Buffers,
         \/ SendElsewhere(b, "responder", "replyFree", "replyActive")
         \/ SendElsewhere(b, "icmp", "icmpFree", "icmpActive")
         \/ SendElsewhere(b, "webserver", "held", "webFree")
  PROVE  BuffersIInv'
<1>1. PICK q \in {"replyActive", "icmpActive", "webFree"} :
        Hand(b, q) /\ (Reader[q] \in system.detail => Used(q))
  BY DEF SendElsewhere, Used, Reader, Writer
<1>2. q \in (Queues \cup Kept) \ {"answered"}
  BY QueueNames
<1> QED
  BY <1>1, <1>2, HandInv

LEMMA SendUntoldInv == ASSUME BuffersIInv, NEW b \in Buffers, SendUntold(b) PROVE BuffersIInv'
<1>1. /\ at' = [at EXCEPT ![b] = "icmpActive"] /\ overwritten' = overwritten \cup {"icmpActive"}
      /\ system' = system /\ listening' = listening /\ signalled' = signalled
      /\ running' = running /\ step' = step /\ phase' = phase /\ written' = written
      /\ "icmp" \in system.passing
  BY DEF SendUntold, handlers
<1>2. "icmpActive" \in Queues /\ Reader["icmpActive"] = "virtTx" /\ Writer["icmpActive"] = "icmp"
  BY QueueNames DEF Reader, Writer
<1>3. BuffersTypeOK'
  BY <1>1, <1>2 DEF BuffersIInv, BuffersTypeOK
<1>4. \A o \in Components : HandlerExact(o)' /\ LookIsSafe(o)'
  BY <1>1 DEF BuffersIInv, HandlerExact, LookIsSafe, At
<1>5. FilledIsUsed'
  <2> SUFFICES ASSUME NEW c \in Buffers, at'[c] \in Queues \ Sending, Reader[at'[c]] \in system.detail
               PROVE  Used(at'[c])
    BY <1>1 DEF FilledIsUsed, Used
  <2>1. CASE c = b
    BY <1>1, <1>2, <2>1 DEF BuffersIInv, BuffersTypeOK, Used
  <2>2. CASE c # b
    BY <1>1, <2>2 DEF BuffersIInv, BuffersTypeOK, FilledIsUsed
  <2> QED
    BY <2>1, <2>2
<1>6. \A r : (Comes(r)' <=> Comes(r)) /\ \A o \in Components : Tells(o, r)' <=> Tells(o, r)
  BY <1>1 DEF Comes, Covers, Tells
<1>7. DeafReaderComes'
  BY <1>1, <1>6 DEF BuffersIInv, DeafReaderComes, Used
<1>8. FilledIsSeen'
  <2> SUFFICES ASSUME NEW r \in Queues \ Sending, Reader[r] \in system.detail, NEW c \in Buffers,
                      at'[c] = r, r # "icmpActive"
               PROVE  Comes(r) \/ r \in overwritten \/ \E o \in Components : Tells(o, r)
    BY <1>1, <1>6 DEF FilledIsSeen, In
  <2>1. at[c] = r
    BY <1>1 DEF BuffersIInv, BuffersTypeOK
  <2> QED
    BY <2>1 DEF BuffersIInv, FilledIsSeen, In
<1> QED
  BY <1>3, <1>4, <1>5, <1>7, <1>8 DEF BuffersIInv

LEMMA DeviceDoneInv == ASSUME BuffersIInv, NEW b \in Buffers, DeviceDone(b) PROVE BuffersIInv'
<1>1. PICK q \in {"rxActive", "txFree"} : Hand(b, q) /\ Used(q)
  BY DEF DeviceDone
<1>2. q \in (Queues \cup Kept) \ {"answered"}
  BY QueueNames
<1> QED
  BY <1>1, <1>2, HandInv

\* A notification more.
LEMMA SignalInv ==
  ASSUME BuffersIInv, UNCHANGED <<system, overwritten, listening, handlers>>,
         at' \in [Buffers -> Queues \cup Kept], signalled \subseteq signalled',
         signalled' \subseteq {c \in Channels : Owner(c) \in system.detail},
         \A b \in Buffers : at'[b] # at[b] => at'[b] = "answered" /\ ("router" \in system.detail => "arp" \in signalled')
  PROVE  BuffersIInv'
<1>1. system' = system /\ overwritten' = overwritten /\ listening' = listening /\ running' = running /\ step' = step
      /\ phase' = phase /\ written' = written
  BY DEF handlers
<1>2. BuffersTypeOK'
  BY <1>1 DEF BuffersIInv, BuffersTypeOK
<1>3. \A o \in Components : HandlerExact(o)' /\ LookIsSafe(o)'
  BY <1>1 DEF BuffersIInv, HandlerExact, LookIsSafe, At
<1>4. Reader["answered"] = "router" /\ Writer["answered"] = "router" /\ Answering("answered") = "arp"
  BY DEF Reader, Writer, Answering
<1>5. FilledIsUsed'
  <2> SUFFICES ASSUME NEW b \in Buffers, at'[b] \in Queues \ Sending, Reader[at'[b]] \in system.detail
               PROVE  Used(at'[b])
    BY <1>1 DEF FilledIsUsed, Used
  <2>1. CASE at'[b] = at[b]
    BY <2>1 DEF BuffersIInv, FilledIsUsed
  <2>2. CASE at'[b] # at[b]
    BY <1>4, <2>2 DEF Used
  <2> QED
    BY <2>1, <2>2
<1>6. \A q : Comes(q) => Comes(q)'
  BY <1>1 DEF Comes, Covers
<1>7. DeafReaderComes'
  BY <1>1, <1>6 DEF BuffersIInv, DeafReaderComes, Used
<1>8. FilledIsSeen'
  <2> SUFFICES ASSUME NEW q \in Queues \ Sending, Reader[q] \in system.detail, NEW b \in Buffers, at'[b] = q
               PROVE  Comes(q)' \/ q \in overwritten \/ \E o \in Components : Tells(o, q)'
    BY <1>1 DEF FilledIsSeen, In
  <2>1. CASE at'[b] = at[b]
    <3>1. Comes(q) \/ q \in overwritten \/ \E o \in Components : Tells(o, q)
      BY <2>1 DEF BuffersIInv, FilledIsSeen, In
    <3> QED
      BY <1>1, <1>6, <3>1 DEF Tells
  <2>2. CASE at'[b] # at[b]
    BY <1>4, <2>2 DEF Comes
  <2> QED
    BY <2>1, <2>2
<1> QED
  BY <1>2, <1>3, <1>5, <1>7, <1>8 DEF BuffersIInv

LEMMA AnswerInv == ASSUME BuffersIInv, NEW b \in Buffers, Answer(b) PROVE BuffersIInv'
<1>1. /\ at' = [at EXCEPT ![b] = "answered"]
      /\ signalled' = signalled \cup ({"arp"} \cap {c \in Channels : Owner(c) \in system.detail})
      /\ UNCHANGED <<system, overwritten, listening, handlers>>
  BY DEF Answer
<1>2. at' \in [Buffers -> Queues \cup Kept] /\ \A c \in Buffers : at'[c] # at[c] => at'[c] = "answered"
  BY <1>1, QueueNames DEF BuffersIInv, BuffersTypeOK
<1>3. "router" \in system.detail => "arp" \in signalled'
  BY <1>1, ChannelsNamed DEF Owner
<1>4. signalled \subseteq signalled' /\ signalled' \subseteq {c \in Channels : Owner(c) \in system.detail}
  BY <1>1 DEF BuffersIInv, BuffersTypeOK
<1> QED
  BY <1>1, <1>2, <1>3, <1>4, SignalInv

LEMMA StirInv == ASSUME BuffersIInv, NEW p \in Components, Stir(p) PROVE BuffersIInv'
<1>1. /\ p \in {"webserver", "icmp"} \cap system.detail /\ signalled' = signalled \cup {p}
      /\ at' = at /\ UNCHANGED <<system, overwritten, listening, handlers>>
  BY DEF Stir
<1>2. p \in Channels /\ Owner(p) \in system.detail
  BY <1>1, ChannelsNamed DEF Owner
<1>3. signalled \subseteq signalled' /\ signalled' \subseteq {c \in Channels : Owner(c) \in system.detail}
  BY <1>1, <1>2 DEF BuffersIInv, BuffersTypeOK
<1>4. at' \in [Buffers -> Queues \cup Kept]
  BY <1>1 DEF BuffersIInv, BuffersTypeOK
<1> QED
  BY <1>1, <1>3, <1>4, SignalInv

LEMMA InitBuffersIInv == ASSUME BuffersInit PROVE BuffersIInv
<1>1. /\ system \in Systems /\ listening = NetQueues /\ signalled = {}
      /\ at = [b \in Buffers |->
           IF b \in RxBuffers THEN "rxRing" ELSE IF b \in ReplyBuffers THEN "replyFree" ELSE "icmpFree"]
      /\ running = [p \in Components |-> "none"]
      /\ step = [p \in Components |-> 1]
      /\ phase = [p \in Components |-> "take"]
      /\ written = [p \in Components |-> {}]
      /\ overwritten = {}
  BY DEF BuffersInit
<1>2. \A b \in Buffers : at[b] \in {"rxRing"} \cup Sending
  BY <1>1 DEF Sending
<1>3. {"rxRing"} \cup Sending \subseteq Queues \cup Kept /\ "rxRing" \notin Queues
  BY QueueNames DEF Sending, Kept
<1>4. BuffersTypeOK
  <2>1. at \in [Buffers -> Queues \cup Kept]
    BY <1>1, <1>2, <1>3
  <2> QED
    BY <1>1, <2>1 DEF BuffersTypeOK
<1>5. \A b \in Buffers : at[b] \notin Queues \ Sending
  BY <1>2, <1>3
<1>6. FilledIsUsed /\ FilledIsSeen
  BY <1>5 DEF FilledIsUsed, FilledIsSeen, In
<1>7. DeafReaderComes
  BY <1>1 DEF DeafReaderComes
<1>8. \A p \in Components : HandlerExact(p) /\ LookIsSafe(p)
  BY <1>1 DEF HandlerExact, LookIsSafe
<1> QED
  BY <1>4, <1>6, <1>7, <1>8 DEF BuffersIInv

LEMMA NextBuffersIInv == ASSUME BuffersIInv, [BuffersNext]_bufferVars PROVE BuffersIInv'
<1>1. CASE BuffersNext
  <2>1. RxBuffers \subseteq Buffers
    BY DEF Buffers
  <2>2. CASE \E c \in Channels : Wake(c)
    BY <2>2, WakeInv
  <2>3. CASE \E p \in Components :
               \/ Pass(p) \/ FoundEmpty(p) \/ WorkDone(p) \/ Ask(p) \/ LookAgain(p)
               \/ TellReader(p) \/ Overwrite(p) \/ Stir(p)
    BY <2>3, PassInv, FoundEmptyInv, WorkDoneInv, AskInv, LookAgainInv, TellReaderInv, OverwriteInv, StirInv
  <2>4. CASE \E b \in RxBuffers, r \in ReplyBuffers : Reply(b, r)
    BY <2>4, ReplyInv
  <2>5. CASE \E b \in Buffers :
               \/ SendElsewhere(b, "responder", "replyFree", "replyActive")
               \/ SendElsewhere(b, "icmp", "icmpFree", "icmpActive")
               \/ SendElsewhere(b, "webserver", "held", "webFree")
               \/ SendUntold(b)
    BY <2>5, SendElsewhereInv, SendUntoldInv
  <2>6. CASE \E b \in Buffers : PassElsewhere(b) \/ Free(b) \/ Generate(b) \/ DeviceDone(b) \/ Answer(b)
    BY <2>6, PassElsewhereInv, FreeInv, GenerateInv, DeviceDoneInv, AnswerInv
  <2> QED
    BY <1>1, <2>2, <2>3, <2>4, <2>5, <2>6 DEF BuffersNext
<1>2. CASE UNCHANGED bufferVars
  <2>1. UNCHANGED <<system, overwritten, at, listening, signalled, running, step, phase, written>>
    BY <1>2 DEF bufferVars, handlers
  <2> QED
    BY <2>1 DEF BuffersIInv, BuffersTypeOK, FilledIsUsed, DeafReaderComes, FilledIsSeen, HandlerExact,
                LookIsSafe, Used, In, Comes, Covers, Tells, At
<1> QED
  BY <1>1, <1>2

\* No handler of virt rx, filter, responder, router, webserver, virt tx, ICMP
\* module and driver leaves a buffer where nobody will look, whichever of them a
\* behaviour looks at and however their steps interleave, except behind a
\* notification of the ICMP module that a later one replaced.
THEOREM NoBufferStranded == BuffersSpec => []NothingStranded
<1>1. BuffersInit => BuffersIInv
  BY InitBuffersIInv
<1>2. BuffersIInv /\ [BuffersNext]_bufferVars => BuffersIInv'
  BY NextBuffersIInv
<1>3. BuffersIInv => NothingStranded
  <2> SUFFICES ASSUME BuffersIInv, NEW q \in Queues \ {"replyFree", "icmpFree"}, In(q) # {}
               PROVE  WillRead(q) \/ WillBeTold(q) \/ (q = "icmpActive" /\ q \in overwritten)
    BY DEF NothingStranded
  <2>1. q \in Queues \ Sending
    BY DEF Sending
  <2>2. CASE Reader[q] \notin system.detail
    BY <2>2 DEF WillRead
  <2>3. CASE Reader[q] \in system.detail /\ Comes(q)
    <3>1. CASE Answering(q) \in signalled
      BY <3>1 DEF WillRead, Answering
    <3>2. CASE Covers(Reader[q], q)
      <4>1. Reader[q] \in Components
        BY <2>1, EveryQueueIsRead
      <4>2. PICK i \in DOMAIN Script[running[Reader[q]]] :
              step[Reader[q]] <= i /\ DrainsAt(running[Reader[q]], i, q)
        BY <3>2 DEF Covers
      <4>3. running[Reader[q]] \in Channels /\ running[Reader[q]] # "none" /\ step[Reader[q]] \in Nat
        BY <3>2, <4>1, HandlerParts DEF Covers
      <4>4. i \in step[Reader[q]] .. Len(Script[running[Reader[q]]])
        BY <4>2, <4>3, ScriptsExact
      <4> QED
        BY <4>2, <4>3, <4>4 DEF WillRead, DrainsAt
    <3> QED
      BY <2>3, <3>1, <3>2 DEF Comes
  <2>4. CASE q \in overwritten
    BY <2>4 DEF BuffersIInv, BuffersTypeOK
  <2>5. CASE Reader[q] \in system.detail /\ ~Comes(q) /\ q \notin overwritten
    <3>1. PICK p \in Components : Tells(p, q)
      BY <2>1, <2>5 DEF BuffersIInv, FilledIsSeen
    <3>2. PICK i \in DOMAIN Script[running[p]] : step[p] <= i /\ TellsAt(running[p], i, q)
      BY <3>1 DEF Tells
    <3>3. running[p] \in Channels /\ running[p] # "none" /\ step[p] \in Nat /\ q \in written[p]
      BY <3>1, HandlerParts DEF Tells
    <3>4. i \in step[p] .. Len(Script[running[p]])
      BY <3>2, <3>3, ScriptsExact
    <3>5. Script[running[p]][i].do = "tell if listening" => q \in listening
      <4> SUFFICES ASSUME Script[running[p]][i].do = "tell if listening", q \notin listening PROVE FALSE
        OBVIOUS
      <4>1. q \in NetQueues \ Sending
        <5>1. StepExact(Owner(running[p]), Script[running[p]], i)
          BY <3>2, <3>3, ScriptsExact
        <5> QED
          BY <2>1, <3>2, <5>1, Zenon DEF StepExact, TellsAt
      <4>2. Used(q)
        BY <2>1, <2>5 DEF BuffersIInv, FilledIsUsed, In
      <4> QED
        BY <2>5, <4>1, <4>2 DEF BuffersIInv, DeafReaderComes
    <3> QED
      BY <3>2, <3>3, <3>4, <3>5, Zenon DEF WillBeTold, TellsAt
  <2> QED
    BY <2>2, <2>3, <2>4, <2>5
<1> QED
  BY <1>1, <1>2, <1>3, PTL DEF BuffersSpec
=============================================================================
