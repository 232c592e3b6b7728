---------------------------- MODULE PosixProof ----------------------------
(***************************************************************************)
(* What holds of the C library for any number of descriptors, sockets,     *)
(* pcbs, buffers and bytes: first memory, then files, then sockets, each   *)
(* with the inductive invariant of its module, and last the three of them  *)
(* in MCPosix, of which a behaviour moves one.                             *)
(***************************************************************************)
EXTENDS MCPosix, FiniteSetTheorems, SequenceTheorems, WellFoundedInduction, TLAPS

-----------------------------------------------------------------------------
(* Memory: arithmetic of pages.                                            *)

LEMMA ModBound == ASSUME NEW x \in Int, NEW p \in Nat \ {0}
                  PROVE  x % p \in 0 .. p - 1
  BY Z3

LEMMA DivMod == ASSUME NEW x \in Int, NEW p \in Nat \ {0}
                PROVE  x \div p \in Int /\ x = (p * (x \div p)) + (x % p)
  BY Z3

LEMMA ModSmall == ASSUME NEW p \in Nat \ {0}, NEW x \in 0 .. p - 1
                  PROVE  x % p = x
  BY Z3

LEMMA MultMod == ASSUME NEW k \in Int, NEW p \in Nat \ {0}
                 PROVE  (p * k) % p = 0
  BY Z3

\* The difference of two multiples is one.
LEMMA DifferenceMod == ASSUME NEW x \in Int, NEW y \in Int, NEW p \in Nat \ {0},
                              x % p = 0, y % p = 0
                       PROVE  (x - y) % p = 0
<1> DEFINE a == x \div p
           b == y \div p
<1>1. a \in Int /\ b \in Int /\ x = p * a /\ y = p * b
  BY DivMod
<1> HIDE DEF a, b
<1>2. x - y = p * (a - b)
  BY <1>1, Z3
<1>3. (p * (a - b)) % p = 0
  BY <1>1, MultMod
<1> QED
  BY <1>2, <1>3

\* PAGE_ALIGN_DOWN: the largest page boundary that is not above x.
LEMMA DownFacts == ASSUME NEW x \in Nat, Page \in Nat \ {0}
                   PROVE  /\ Core!Down(x) \in Nat
                          /\ Core!Down(x) <= x /\ x < Core!Down(x) + Page
                          /\ Core!Down(x) % Page = 0
<1> DEFINE q == x \div Page
           r == x % Page
<1>1. q \in Int /\ x = (Page * q) + r /\ r \in 0 .. Page - 1
  BY DivMod, ModBound
<1>2. Core!Down(x) = x - r
  BY DEF Core!Down
<1> HIDE DEF q, r
<1>3. (Page * q) \in Int
  BY <1>1
<1>4. Core!Down(x) = Page * q
  BY <1>1, <1>2, <1>3
<1>5. Core!Down(x) % Page = 0
  BY <1>1, <1>4, MultMod
<1>6. r <= x
  <2>1. CASE x < Page
    BY <2>1, <1>1, ModSmall DEF r
  <2>2. CASE x >= Page
    BY <2>2, <1>1
  <2> QED
    BY <2>1, <2>2
<1> QED
  BY <1>1, <1>2, <1>5, <1>6

-----------------------------------------------------------------------------
(* Memory: the assumptions of MoreCore, an area that ends on a page boundary,  *)
(* and lengths whose rounding does not wrap.                                   *)
PagedArea ==
  /\ Core!MoreCoreAssumption
  /\ (Area + Size) % Page = 0
  /\ MaxLength + Page <= WordSize

BreakBelowTop ==
  /\ base \in Nat /\ top \in Nat
  /\ Area <= base /\ base <= top /\ top <= Area + Size

PageAligned == top % Page = 0

MappingsAboveTop ==
  \A m \in mappings : /\ m.at \in Nat /\ m.length \in Nat
                      /\ top <= m.at /\ m.at + m.length <= Area + Size

MappingsApart ==
  \A m, n \in mappings :
    m = n \/ m.at + m.length <= n.at \/ n.at + n.length <= m.at

CoreIInv == BreakBelowTop /\ PageAligned /\ MappingsAboveTop /\ MappingsApart

LEMMA Positive == ASSUME PagedArea
                  PROVE  /\ WordSize \in Nat \ {0} /\ Page \in Nat \ {0}
                         /\ Area \in Nat \ {0} /\ Size \in Nat \ {0}
                         /\ MaxLength \in Nat \ {0}
                         /\ Area + Size < WordSize /\ MaxLength + Page <= WordSize
  BY DEF PagedArea, Core!MoreCoreAssumption

LEMMA InitCoreIInv == ASSUME PagedArea, Core!Init PROVE CoreIInv
<1>1. Core!Word(Area + Size) = Area + Size
  BY Positive, ModSmall DEF Core!Word
<1>2. BreakBelowTop
  BY <1>1, Positive DEF Core!Init, BreakBelowTop
<1>3. PageAligned
  BY <1>1 DEF Core!Init, PageAligned, PagedArea
<1>4. MappingsAboveTop /\ MappingsApart
  BY DEF Core!Init, MappingsAboveTop, MappingsApart
<1> QED
  BY <1>2, <1>3, <1>4 DEF CoreIInv

\* What a mapping takes: a whole number of pages, at least the length, between
\* the break and the old top.
LEMMA MMapFacts ==
  ASSUME PagedArea, CoreIInv, NEW length \in 1 .. MaxLength, Core!MMap(length)
  PROVE  \E t \in Nat : /\ top' = t /\ t % Page = 0
                        /\ base <= t /\ t + length <= top
<1> DEFINE R == Core!Rounded(length)
<1>1. Core!Word(length + Page - 1) = length + Page - 1
  BY Positive, ModSmall DEF Core!Word
<1>2. length + Page - 1 \in Nat
  BY Positive
<1>3. R = Core!Down(length + Page - 1)
  BY <1>1 DEF Core!Rounded
<1> HIDE DEF R
<1>4. R \in Nat /\ R >= length /\ R % Page = 0
  BY <1>2, <1>3, DownFacts, Positive
<1>5. top - base \in 0 .. WordSize - 1
  BY Positive DEF CoreIInv, BreakBelowTop
<1>6. Core!Word(top - base) = top - base
  BY <1>5, ModSmall, Positive DEF Core!Word
<1>7. R <= top - base
  BY <1>6 DEF Core!MMap, Core!Fits, R
<1>8. top - R \in 0 .. WordSize - 1 /\ base <= top - R
  BY <1>4, <1>7, Positive DEF CoreIInv, BreakBelowTop
<1>9. Core!Word(top - R) = top - R
  BY <1>8, ModSmall, Positive DEF Core!Word
<1>10. (top - R) % Page = 0
  BY <1>4, DifferenceMod, Positive DEF CoreIInv, BreakBelowTop, PageAligned
<1>11. Core!Down(top - R) = top - R
  BY <1>8, <1>10 DEF Core!Down
<1>12. top' = top - R
  BY <1>9, <1>11 DEF Core!MMap, R
<1>13. top - R \in Nat /\ (top - R) + length <= top
  BY <1>4, <1>8 DEF CoreIInv, BreakBelowTop
<1> QED
  BY <1>8, <1>10, <1>12, <1>13

LEMMA NextCoreIInv == ASSUME PagedArea, CoreIInv, [Core!Next]_coreVars PROVE CoreIInv'
<1>1. ASSUME NEW newbrk \in 0 .. WordSize - 1, Core!Brk(newbrk) PROVE CoreIInv'
  <2>1. top' = top /\ mappings' = mappings
    BY <1>1 DEF Core!Brk
  <2>2. base' \in Nat /\ Area <= base' /\ base' <= top
    BY <1>1, Positive DEF Core!Brk, CoreIInv, BreakBelowTop
  <2>3. BreakBelowTop'
    BY <2>1, <2>2 DEF CoreIInv, BreakBelowTop
  <2>4. PageAligned' /\ MappingsAboveTop' /\ MappingsApart'
    BY <2>1 DEF CoreIInv, PageAligned, MappingsAboveTop, MappingsApart
  <2> QED
    BY <2>3, <2>4 DEF CoreIInv
<1>2. ASSUME NEW length \in 1 .. MaxLength, Core!MMap(length) PROVE CoreIInv'
  <2>0. PICK t \in Nat : /\ top' = t /\ t % Page = 0
                        /\ base <= t /\ t + length <= top
    BY <1>2, MMapFacts
  <2> DEFINE new == [at |-> t, length |-> length]
  <2>1. base <= t /\ t + length <= top
    BY <2>0
  <2>2. base' = base /\ mappings' = mappings \cup {new}
    BY <1>2, <2>0 DEF Core!MMap
  <2>3. new.at = t /\ new.length = length
    OBVIOUS
  <2> HIDE DEF new
  <2>9. top \in Nat /\ top <= Area + Size /\ Area + Size \in Nat /\ length \in Nat
    BY Positive DEF CoreIInv, BreakBelowTop
  <2>4. BreakBelowTop'
    BY <2>0, <2>1, <2>2, <2>9, Positive DEF CoreIInv, BreakBelowTop
  <2>5. PageAligned'
    BY <2>0 DEF PageAligned
  <2>6. ASSUME NEW m \in mappings
        PROVE  /\ m.at \in Nat /\ m.length \in Nat
               /\ top <= m.at /\ m.at + m.length <= Area + Size
    BY DEF CoreIInv, MappingsAboveTop
  <2>7. MappingsAboveTop'
    <3> SUFFICES ASSUME NEW m \in mappings'
                 PROVE  /\ m.at \in Nat /\ m.length \in Nat
                        /\ t <= m.at /\ m.at + m.length <= Area + Size
      BY <2>0 DEF MappingsAboveTop
    <3>1. CASE m = new
      <4>1. m.at = t /\ m.length = length
        BY <3>1, <2>3
      <4>2. t + length <= Area + Size
        BY <2>1, <2>9
      <4> QED
        BY <4>1, <4>2, <2>1, <2>3
    <3>2. CASE m \in mappings
      <4>1. t <= top
        BY <2>1, <2>3, <2>9
      <4> QED
        BY <3>2, <4>1, <2>1, <2>6, <2>9
    <3> QED
      BY <2>2, <3>1, <3>2
  <2>8. MappingsApart'
    <3> SUFFICES ASSUME NEW m \in mappings', NEW n \in mappings'
                 PROVE  m = n \/ m.at + m.length <= n.at \/ n.at + n.length <= m.at
      BY DEF MappingsApart
    <3>1. CASE m \in mappings /\ n \in mappings
      BY <3>1 DEF CoreIInv, MappingsApart
    <3>2. CASE m = new /\ n \in mappings
      <4>1. m.at + m.length = t + length
        BY <3>2, <2>3
      <4>2. n.at \in Nat /\ top <= n.at
        BY <3>2, <2>6
      <4> QED
        BY <4>1, <4>2, <2>1, <2>3, <2>9
    <3>3. CASE n = new /\ m \in mappings
      <4>1. n.at + n.length = t + length
        BY <3>3, <2>3
      <4>2. m.at \in Nat /\ top <= m.at
        BY <3>3, <2>6
      <4> QED
        BY <4>1, <4>2, <2>1, <2>3, <2>9
    <3>4. CASE m = new /\ n = new
      BY <3>4
    <3> QED
      BY <2>2, <3>1, <3>2, <3>3, <3>4
  <2> QED
    BY <2>4, <2>5, <2>7, <2>8 DEF CoreIInv
<1>3. CASE UNCHANGED coreVars
  BY <1>3 DEF coreVars, CoreIInv, BreakBelowTop, PageAligned, MappingsAboveTop, MappingsApart
<1> QED
  BY <1>1, <1>2, <1>3 DEF Core!Next

LEMMA CoreIInvImplies == ASSUME PagedArea, CoreIInv PROVE Core!MemoryHandedOutOnce
<1> SUFFICES ASSUME NEW m \in mappings
             PROVE  /\ Core!Cells(m) \subseteq base .. Area + Size - 1
                    /\ \A n \in mappings \ {m} : Core!Cells(m) \cap Core!Cells(n) = {}
  BY DEF Core!MemoryHandedOutOnce
<1>1. Core!Cells(m) \subseteq base .. Area + Size - 1
  BY Positive DEF CoreIInv, BreakBelowTop, MappingsAboveTop, Core!Cells
<1>2. ASSUME NEW n \in mappings \ {m} PROVE Core!Cells(m) \cap Core!Cells(n) = {}
  <2>1. m.at + m.length <= n.at \/ n.at + n.length <= m.at
    BY DEF CoreIInv, MappingsApart
  <2>2. {m.at, m.length, n.at, n.length} \subseteq Nat
    BY DEF CoreIInv, MappingsAboveTop
  <2> QED
    BY <2>1, <2>2 DEF Core!Cells
<1> QED
  BY <1>1, <1>2

-----------------------------------------------------------------------------
(* Sets of numbers.                                                           *)

\* A set of numbers has a least one.
LEMMA Least == ASSUME NEW S, S \subseteq Nat, S # {} PROVE \E i \in S : \A j \in S : i <= j
<1> DEFINE R == {ss \in Nat \X Nat : ss[1] < ss[2]}
<1>1. IsWellFoundedOn(R, Nat)
  BY NatLessThanWellFounded DEF OpToRel
<1>2. PICK x \in S : \A y \in S : <<y, x>> \notin R
  <2> HIDE DEF R
  <2> QED
    BY <1>1, WFMin
<1>3. ASSUME NEW y \in S PROVE x <= y
  <2>1. x \in Nat /\ y \in Nat
    OBVIOUS
  <2>2. y < x => <<y, x>> \in R
    BY <2>1
  <2> QED
    BY <2>1, <2>2, <1>2
<1> QED
  BY <1>3

-----------------------------------------------------------------------------
(* Files: the inductive invariant.                                         *)

AllPaths == Paths \cup {Files!Root}
Entries == [active : BOOLEAN, dir : BOOLEAN, ptr : Int]
ServerEntries == [open : BOOLEAN, path : AllPaths, dir : BOOLEAN]
Nodes == [kind : {"none", "file", "dir"}, bytes : Seq(Nat)]

OpenCalls == [op : {"openat"}, fd : Fds, path : AllPaths, excl : BOOLEAN, wr : BOOLEAN,
              dir : BOOLEAN, trunc : BOOLEAN, create : BOOLEAN,
              pc : {"excl", "isdir", "open", "trunc"}, s : ServerFds \cup {NoServerFd}]
MoveCalls == [op : {"read", "write"}, fd : Fds, len : Nat \ {0}, done : Nat, data : Seq(Nat)]
DoneCalls == [op : {"done"}, fd : Fds, from : Int, data : Seq(Nat)]

CallTypeOK ==
    \/ call = Files!Idle
    \/ call \in OpenCalls
    \/ call \in MoveCalls
    \/ call \in DoneCalls

TablesTypeOK ==
    /\ fd_table \in [Fds -> Entries]
    /\ fs_server_fd_map \in [Fds -> ServerFds \cup {NoServerFd}]
    /\ fd_path \in [Fds -> AllPaths]
    /\ server \in [ServerFds -> ServerEntries]
    /\ tree \in [AllPaths -> Nodes]
    /\ shared \subseteq ServerFds

\* A descriptor that openat has returned names one of the server's.
OpenedNamed == \A f \in Files!Opened : fs_server_fd_map[f] \in ServerFds

\* Between the open and the truncation of openat only the call knows what the
\* server has opened.
OpenUnderWay ==
    call.op = "openat" =>
        /\ fd_table[call.fd].active
        /\ call.pc # "trunc" => call.s = NoServerFd
        /\ call.pc = "trunc" =>
            /\ call.s \in ServerFds /\ ~call.dir
            /\ call.s \notin shared =>
                /\ server[call.s] = [open |-> TRUE, path |-> call.path, dir |-> FALSE]
                /\ \A g \in Files!Opened : fs_server_fd_map[g] # call.s

\* The buffer a call has for its path or its data.
Held == IF call.op \in {"read", "write"} \/ (call.op = "openat" /\ call.pc # "trunc") THEN 1 ELSE 0
BuffersExact == free_buffers = Buffers - Held

\* What a transfer has moved so far lies in the file behind file_ptr.
MoveUnderWay ==
    /\ call.op \in {"read", "write", "done"} => fd_table[call.fd].active
    /\ call.op \in {"read", "write"} =>
        LET b   == Files!Bytes(call.fd)
            ptr == fd_table[call.fd].ptr
        IN  /\ call.done = Len(call.data)
            /\ call.done > 0 => ptr >= 0 /\ ptr + call.done <= Len(b)
            /\ call.data = SubSeq(b, ptr + 1, ptr + call.done)

FilesIInv ==
    /\ TablesTypeOK /\ CallTypeOK
    /\ Files!FreeFdIsClean /\ Files!DescriptorKeepsItsFile
    /\ OpenedNamed /\ OpenUnderWay /\ BuffersExact /\ MoveUnderWay
    /\ Files!TransferExact

-----------------------------------------------------------------------------
(* Files: sequences of bytes.                                              *)

LEMMA SameBytes ==
  ASSUME NEW b, NEW c, NEW m \in Int, NEW n \in Int,
         \A i \in m .. n : b[i] \in Nat /\ c[i] = b[i]
  PROVE  SubSeq(c, m, n) = SubSeq(b, m, n)
<1> DEFINE x == SubSeq(b, m, n)
           y == SubSeq(c, m, n)
<1>1. /\ x \in Seq(Nat) /\ Len(x) = IF m <= n THEN n - m + 1 ELSE 0
      /\ \A i \in 1 .. n - m + 1 : x[i] = b[m + i - 1]
  BY SubSeqProperties
<1>2. \A i \in m .. n : c[i] \in Nat
  OBVIOUS
<1>3. /\ y \in Seq(Nat) /\ Len(y) = IF m <= n THEN n - m + 1 ELSE 0
      /\ \A i \in 1 .. n - m + 1 : y[i] = c[m + i - 1]
  BY <1>2, SubSeqProperties
<1>4. ASSUME NEW i \in 1 .. n - m + 1 PROVE b[m + i - 1] = c[m + i - 1]
  <2>1. m + i - 1 \in m .. n
    OBVIOUS
  <2> QED
    BY <2>1
<1> HIDE DEF x, y
<1>5. \A i \in 1 .. Len(x) : y[i] = x[i]
  BY <1>1, <1>3, <1>4
<1> QED
  BY <1>1, <1>3, <1>5, SeqEqual DEF x, y

\* A piece and the bytes that follow it are a longer piece.
LEMMA PieceGrows ==
  ASSUME NEW b, NEW data, NEW new \in Seq(Nat), NEW p \in Int,
         data \in Seq(Nat), data = SubSeq(b, p + 1, p + Len(data)),
         \A i \in 1 .. Len(data) : b[p + i] \in Nat,
         \A i \in 1 .. Len(new) : b[p + Len(data) + i] = new[i]
  PROVE  data \o new = SubSeq(b, p + 1, p + Len(data \o new))
<1> DEFINE d == Len(data)
           k == Len(new)
           all == data \o new
           x == SubSeq(b, p + 1, p + (d + k))
<1>1. d \in Nat /\ k \in Nat
  BY LenProperties
<1>2. /\ all \in Seq(Nat) /\ Len(all) = d + k
      /\ \A i \in 1 .. d + k : all[i] = IF i <= d THEN data[i] ELSE new[i - d]
  BY ConcatProperties
<1>3. \A i \in p + 1 .. p + d : b[i] \in Nat
  <2> SUFFICES ASSUME NEW i \in p + 1 .. p + d PROVE b[i] \in Nat
    OBVIOUS
  <2> HIDE DEF d
  <2>1. i - p \in 1 .. d /\ p + (i - p) = i
    BY <1>1
  <2> QED
    BY <2>1 DEF d
<1>4. \A i \in 1 .. d : data[i] = b[p + i]
  <2>1. \A i \in 1 .. (p + d) - (p + 1) + 1 : SubSeq(b, p + 1, p + d)[i] = b[(p + 1) + i - 1]
    BY <1>1, <1>3, SubSeqProperties
  <2> HIDE DEF d
  <2>2. ASSUME NEW i \in 1 .. d PROVE data[i] = b[p + i]
    <3>1. i \in 1 .. (p + d) - (p + 1) + 1 /\ (p + 1) + i - 1 = p + i
      BY <1>1
    <3> QED
      BY <2>1, <3>1 DEF d
  <2> QED
    BY <2>2
<1>5. \A i \in 1 .. k : new[i] \in Nat
  BY LenProperties
<1> HIDE DEF d, k, all
<1>6. \A i \in 1 .. k : b[p + d + i] = new[i]
  BY DEF d, k
<1>7. \A i \in p + 1 .. p + (d + k) : b[i] \in Nat
  <2> SUFFICES ASSUME NEW i \in p + 1 .. p + (d + k) PROVE b[i] \in Nat
    OBVIOUS
  <2>1. CASE i <= p + d
    BY <2>1, <1>1, <1>3
  <2>2. CASE i > p + d
    <3>1. i - p - d \in 1 .. k /\ p + d + (i - p - d) = i
      BY <2>2, <1>1
    <3> QED
      BY <3>1, <1>5, <1>6
  <2> QED
    BY <2>1, <2>2, <1>1
<1>8. /\ x \in Seq(Nat) /\ Len(x) = d + k
      /\ \A i \in 1 .. d + k : x[i] = b[p + i]
  <2>1. /\ x \in Seq(Nat)
        /\ Len(x) = IF p + 1 <= p + (d + k) THEN (p + (d + k)) - (p + 1) + 1 ELSE 0
        /\ \A i \in 1 .. (p + (d + k)) - (p + 1) + 1 : x[i] = b[(p + 1) + i - 1]
    BY <1>1, <1>7, SubSeqProperties
  <2> HIDE DEF x
  <2>2. ASSUME NEW i \in 1 .. d + k PROVE x[i] = b[p + i]
    <3>1. i \in 1 .. (p + (d + k)) - (p + 1) + 1 /\ (p + 1) + i - 1 = p + i
      BY <1>1
    <3> QED
      BY <2>1, <3>1
  <2> QED
    BY <2>1, <2>2, <1>1
<1> HIDE DEF x
<1>9. \A i \in 1 .. d + k : all[i] = x[i]
  <2> SUFFICES ASSUME NEW i \in 1 .. d + k PROVE all[i] = x[i]
    OBVIOUS
  <2>1. x[i] = b[p + i]
    BY <1>8
  <2>2. CASE i <= d
    <3>1. i \in 1 .. d
      BY <2>2, <1>1
    <3>2. all[i] = data[i]
      BY <2>2, <1>2
    <3> QED
      BY <2>1, <3>1, <3>2, <1>4
  <2>3. CASE i > d
    <3>1. i - d \in 1 .. k /\ p + d + (i - d) = p + i
      BY <2>3, <1>1
    <3>2. b[p + i] = new[i - d]
      BY <3>1, <1>6
    <3> QED
      BY <2>1, <2>3, <3>2, <1>1, <1>2
  <2> QED
    BY <2>2, <2>3, <1>1
<1>10. all = x
  BY <1>2, <1>8, <1>9, SeqEqual
<1> QED
  BY <1>2, <1>10 DEF all, x

\* What a write leaves of the bytes before its offset, and what it puts there.
LEMMA OverwriteFacts ==
  ASSUME NEW b \in Seq(Nat), NEW o \in Nat, NEW data \in Seq(Nat)
  PROVE  LET c == Files!Overwrite(b, o, data) IN
         /\ c \in Seq(Nat)
         /\ Len(c) = IF o + Len(data) > Len(b) THEN o + Len(data) ELSE Len(b)
         /\ \A i \in 1 .. Len(b) : i <= o => c[i] = b[i]
         /\ \A i \in 1 .. Len(data) : c[o + i] = data[i]
<1> DEFINE k == Len(data)
           n == IF o + k > Len(b) THEN o + k ELSE Len(b)
           At(i) == IF i \in o + 1 .. o + k THEN data[i - o] ELSE Files!Byte(b, i)
           c == [i \in 1 .. n |-> At(i)]
<1>1. k \in Nat /\ Len(b) \in Nat /\ n \in Nat /\ n >= Len(b) /\ n >= o + k
  BY LenProperties
<1>2. c = Files!Overwrite(b, o, data)
  BY DEF Files!Overwrite
<1>3. \A i \in 1 .. Len(b) : Files!Byte(b, i) = b[i] /\ b[i] \in Nat
  BY LenProperties DEF Files!Byte
<1>4. \A i : Files!Byte(b, i) \in Nat
  BY <1>3, LenProperties DEF Files!Byte
<1>5. \A i \in 1 .. k : data[i] \in Nat
  BY LenProperties
<1> HIDE DEF k
<1>6. ASSUME NEW i \in 1 .. n PROVE At(i) \in Nat
  <2>1. CASE i \in o + 1 .. o + k
    <3>1. i - o \in 1 .. k
      BY <2>1, <1>1
    <3> QED
      BY <2>1, <3>1, <1>5
  <2>2. CASE i \notin o + 1 .. o + k
    BY <2>2, <1>4
  <2> QED
    BY <2>1, <2>2
<1> HIDE DEF n
<1>7. c \in [1 .. n -> Nat]
  BY <1>6
<1>8. c \in Seq(Nat) /\ Len(c) = n
  <2>1. c \in Seq(Nat)
    BY <1>1, <1>7, SeqDef
  <2>2. DOMAIN c = 1 .. n /\ DOMAIN c = 1 .. Len(c) /\ Len(c) \in Nat
    BY <2>1, LenProperties
  <2> QED
    BY <2>1, <2>2, <1>1
<1>9. \A i \in 1 .. Len(b) : i <= o => c[i] = b[i]
  BY <1>1, <1>3
<1>10. ASSUME NEW i \in 1 .. k PROVE c[o + i] = data[i]
  <2>1. o + i \in 1 .. n /\ o + i \in o + 1 .. o + k /\ (o + i) - o = i
    BY <1>1
  <2> QED
    BY <2>1
<1> HIDE DEF c
<1> QED
  BY <1>2, <1>8, <1>9, <1>10 DEF n, k

-----------------------------------------------------------------------------
(* Files: the descriptor tables, for every action that opens and closes none. *)

LEMMA IdleCall == Files!Idle.op = "none"
  BY DEF Files!Idle

LEMMA CallOps ==
  ASSUME CallTypeOK
  PROVE  /\ call.op = "openat" => call \in OpenCalls
         /\ call.op \in {"read", "write"} => call \in MoveCalls
         /\ call.op = "done" => call \in DoneCalls
         /\ call.op \in {"none", "openat", "read", "write", "done"}
         /\ call.op = "none" => call = Files!Idle
  BY DEF CallTypeOK, OpenCalls, MoveCalls, DoneCalls, Files!Idle

\* posix_fd_allocate finds a descriptor while there is a free one.
LEMMA FirstFreeFree ==
  ASSUME Fds # Files!Active
  PROVE  Files!FirstFree \in Fds /\ ~fd_table[Files!FirstFree].active
<1>1. Fds \ Files!Active # {} /\ Fds \ Files!Active \subseteq Nat
  BY FilesAssumption DEF Files!Active, Files!FileFdsAssumption
<1>2. \E f \in Fds \ Files!Active : \A g \in Fds \ Files!Active : f <= g
  BY <1>1, Least
<1>3. Files!FirstFree \in Fds \ Files!Active
  BY <1>2 DEF Files!FirstFree
<1> QED
  BY <1>3 DEF Files!Active

NamesExact == Files!FreeFdIsClean /\ Files!DescriptorKeepsItsFile /\ OpenedNamed

LEMMA NamesKept ==
  ASSUME NamesExact, Files!Opened' = Files!Opened,
         fs_server_fd_map' = fs_server_fd_map, fd_path' = fd_path,
         server' = server, shared' = shared,
         \A f \in Files!Opened : fd_table'[f].dir = fd_table[f].dir
  PROVE  NamesExact'
<1>1. Files!FreeFdIsClean'
  BY DEF NamesExact, Files!FreeFdIsClean
<1>2. Files!DescriptorKeepsItsFile'
  BY DEF NamesExact, Files!DescriptorKeepsItsFile, Files!ServerFile
<1>3. OpenedNamed'
  BY DEF NamesExact, OpenedNamed
<1> QED
  BY <1>1, <1>2, <1>3 DEF NamesExact

LEMMA FilesParts ==
  FilesIInv <=> /\ TablesTypeOK /\ CallTypeOK /\ NamesExact /\ OpenUnderWay
                /\ BuffersExact /\ MoveUnderWay /\ Files!TransferExact
  BY DEF FilesIInv, NamesExact

\* Outside openat and a transfer there is nothing to say of the call.
LEMMA QuietCall ==
  ASSUME call'.op \notin {"openat", "read", "write", "done"}
  PROVE  OpenUnderWay' /\ MoveUnderWay' /\ Files!TransferExact' /\ Held' = 0
  BY DEF OpenUnderWay, MoveUnderWay, Files!TransferExact, Held

LEMMA IdleAfter ==
  ASSUME call' = Files!Idle
  PROVE  /\ OpenUnderWay' /\ MoveUnderWay' /\ Files!TransferExact' /\ Held' = 0
         /\ CallTypeOK' /\ Files!Opened' = Files!Active'
<1>1. call'.op = "none"
  BY IdleCall
<1>2. CallTypeOK'
  BY DEF CallTypeOK, Files!Idle
<1>3. Files!Opened' = Files!Active'
  BY <1>1 DEF Files!Opened
<1> QED
  BY <1>1, <1>2, <1>3, QuietCall

LEMMA IdleBefore ==
  ASSUME FilesIInv, Files!Starts
  PROVE  Files!Opened = Files!Active /\ free_buffers = Buffers /\ Held = 0
  BY IdleCall, FilesAssumption DEF Files!Starts, Files!Opened, FilesIInv, BuffersExact, Held, Files!FileFdsAssumption

-----------------------------------------------------------------------------
(* Files: one lemma for each action.                                       *)

LEMMA OpenInv ==
  ASSUME FilesIInv, NEW path \in AllPaths, NEW flags \in Files!OpenFlags, Files!Open(path, flags)
  PROVE  FilesIInv'
<1>0. Files!Opened = Files!Active /\ free_buffers = Buffers /\ Held = 0
  BY IdleBefore DEF Files!Open
<1>1. /\ fs_server_fd_map' = fs_server_fd_map /\ fd_path' = fd_path
      /\ server' = server /\ tree' = tree /\ shared' = shared
  BY DEF Files!Open
<1>2. TablesTypeOK /\ CallTypeOK /\ NamesExact /\ OpenUnderWay
      /\ BuffersExact /\ MoveUnderWay /\ Files!TransferExact
  BY FilesParts
<1>3. CASE free_buffers = 0 \/ Fds = Files!Active
  <2>1. call' = Files!Idle /\ fd_table' = fd_table /\ free_buffers' = free_buffers
    BY <1>3 DEF Files!Open, Files!Returns
  <2>2. Files!Opened' = Files!Opened
    BY <1>0, <2>1, IdleAfter DEF Files!Active
  <2>3. NamesExact'
    BY <1>1, <1>2, <2>1, <2>2, NamesKept
  <2>4. TablesTypeOK'
    BY <1>1, <1>2, <2>1 DEF TablesTypeOK
  <2>5. BuffersExact'
    BY <1>0, <2>1, IdleAfter, FilesAssumption DEF BuffersExact, Files!FileFdsAssumption
  <2> QED
    BY <2>1, <2>3, <2>4, <2>5, IdleAfter DEF FilesIInv, NamesExact
<1>4. CASE ~(free_buffers = 0 \/ Fds = Files!Active)
  <2> DEFINE fd == Files!FirstFree
             c == [op |-> "openat", fd |-> fd, path |-> path, excl |-> flags.excl,
                   wr |-> flags.wr, dir |-> flags.dir, trunc |-> flags.trunc,
                   create |-> flags.create, pc |-> "start", s |-> NoServerFd]
             pc == Files!AfterOpen(c, "start")
  <2>1. fd \in Fds /\ ~fd_table[fd].active
    BY <1>4, FirstFreeFree
  <2>2. /\ call' = [c EXCEPT !.pc = pc]
        /\ fd_table' = [fd_table EXCEPT ![fd] = [Files!Closed EXCEPT !.active = TRUE]]
        /\ free_buffers' = free_buffers - 1
    BY <1>4 DEF Files!Open
  <2>3. pc \in {"excl", "isdir", "open"}
    BY DEF Files!AfterOpen
  <2>4. flags \in [dir : BOOLEAN, wr : BOOLEAN, create : BOOLEAN, excl : BOOLEAN, trunc : BOOLEAN]
    <3> DEFINE R == [dir : BOOLEAN, wr : BOOLEAN, create : BOOLEAN, excl : BOOLEAN, trunc : BOOLEAN]
    <3>1. Files!ReadOnly \in R
      BY DEF Files!ReadOnly
    <3>2. Files!Creating \in R
      BY <3>1 DEF Files!Creating
    <3>3. \A r \in R, b \in BOOLEAN : [r EXCEPT !.dir = b] \in R /\ [r EXCEPT !.trunc = b] \in R
                                   /\ [r EXCEPT !.excl = b] \in R
      OBVIOUS
    <3> HIDE DEF R
    <3>4. flags \in R
      BY <3>1, <3>2, <3>3 DEF Files!OpenFlags
    <3> QED
      BY <3>4 DEF R
  <2> HIDE DEF pc
  <2>5. call' \in OpenCalls /\ call'.op = "openat" /\ call'.fd = fd /\ call'.pc = pc /\ call'.s = NoServerFd
    BY <2>1, <2>2, <2>3, <2>4 DEF OpenCalls
  <2> HIDE DEF c, fd
  <2>6. fd_table' \in [Fds -> Entries] /\ fd_table'[fd].active
        /\ \A f \in Fds \ {fd} : fd_table'[f] = fd_table[f]
    <3> DEFINE e == [Files!Closed EXCEPT !.active = TRUE]
    <3>1. e \in Entries /\ e.active
      <4>1. Files!Closed \in Entries
        BY DEF Entries, Files!Closed
      <4> QED
        BY <4>1 DEF Entries
    <3>2. fd_table' = [fd_table EXCEPT ![fd] = e]
      BY <2>2
    <3> HIDE DEF e
    <3> QED
      BY <1>2, <2>1, <3>1, <3>2 DEF TablesTypeOK
  <2>7. Files!Opened' = Files!Opened
    BY <1>0, <2>1, <2>5, <2>6 DEF Files!Opened, Files!Active
  <2>8. NamesExact'
    <3>1. \A f \in Files!Opened : fd_table'[f].dir = fd_table[f].dir
      BY <1>0, <2>1, <2>6 DEF Files!Active
    <3> QED
      BY <1>1, <1>2, <2>7, <3>1, NamesKept
  <2>9. TablesTypeOK'
    BY <1>1, <1>2, <2>6 DEF TablesTypeOK
  <2>10. CallTypeOK'
    BY <2>5 DEF CallTypeOK
  <2>11. OpenUnderWay'
    BY <2>3, <2>5, <2>6 DEF OpenUnderWay
  <2>12. BuffersExact'
    BY <1>0, <2>2, <2>3, <2>5 DEF BuffersExact, Held
  <2>13. MoveUnderWay' /\ Files!TransferExact'
    BY <2>5 DEF MoveUnderWay, Files!TransferExact
  <2> QED
    BY <2>8, <2>9, <2>10, <2>11, <2>12, <2>13 DEF FilesIInv, NamesExact
<1> QED
  BY <1>3, <1>4

\* openat gives up: its descriptor named nothing and is free again.
LEMMA GivesUpInv ==
  ASSUME FilesIInv, call.op = "openat", call.pc # "trunc", Files!OpenGivesUp,
         fs_server_fd_map' = fs_server_fd_map, fd_path' = fd_path,
         server' = server, tree' = tree, shared' = shared
  PROVE  FilesIInv'
<1>1. /\ fd_table' = [fd_table EXCEPT ![call.fd] = Files!Closed]
      /\ free_buffers' = free_buffers + 1
      /\ call' = Files!Idle
  BY DEF Files!OpenGivesUp, Files!Returns
<1>2. TablesTypeOK /\ CallTypeOK /\ NamesExact /\ OpenUnderWay /\ BuffersExact
  BY FilesParts
<1>3. call \in OpenCalls /\ call.fd \in Fds
  BY <1>2, CallOps DEF OpenCalls
<1>4. fd_table' \in [Fds -> Entries] /\ ~fd_table'[call.fd].active
      /\ \A f \in Fds \ {call.fd} : fd_table'[f] = fd_table[f]
  BY <1>1, <1>2, <1>3 DEF TablesTypeOK, Entries, Files!Closed
<1>5. Files!Opened' = Files!Opened
  BY <1>1, <1>4, IdleAfter DEF Files!Opened, Files!Active
<1>6. NamesExact'
  <2>1. \A f \in Files!Opened : fd_table'[f].dir = fd_table[f].dir
    BY <1>4 DEF Files!Opened, Files!Active
  <2> QED
    BY <1>2, <1>5, <2>1, NamesKept
<1>7. TablesTypeOK'
  BY <1>2, <1>4 DEF TablesTypeOK
<1>8. BuffersExact'
  <2>1. free_buffers = Buffers - 1 /\ Held' = 0 /\ Buffers \in Nat
    BY <1>1, <1>2, IdleAfter, FilesAssumption DEF BuffersExact, Held, Files!FileFdsAssumption
  <2> QED
    BY <1>1, <2>1 DEF BuffersExact
<1> QED
  BY <1>1, <1>6, <1>7, <1>8, IdleAfter DEF FilesIInv, NamesExact

\* openat goes on to its next command.
LEMMA GoesOnInv ==
  ASSUME FilesIInv, call.op = "openat", call.pc # "trunc",
         NEW pc \in {"excl", "isdir", "open"}, call' = [call EXCEPT !.pc = pc],
         fd_table' = fd_table, free_buffers' = free_buffers,
         fs_server_fd_map' = fs_server_fd_map, fd_path' = fd_path,
         server' = server, tree' = tree, shared' = shared
  PROVE  FilesIInv'
<1>1. TablesTypeOK /\ CallTypeOK /\ NamesExact /\ OpenUnderWay /\ BuffersExact
  BY FilesParts
<1>2. call \in OpenCalls
  BY <1>1, CallOps
<1>3. /\ call' \in OpenCalls
      /\ call'.op = "openat" /\ call'.fd = call.fd /\ call'.pc = pc /\ call'.s = call.s
  BY <1>2 DEF OpenCalls
<1>4. Files!Opened' = Files!Opened
  BY <1>3 DEF Files!Opened, Files!Active
<1>5. NamesExact'
  BY <1>1, <1>4, NamesKept
<1>6. TablesTypeOK' /\ CallTypeOK'
  BY <1>1, <1>3 DEF TablesTypeOK, CallTypeOK
<1>7. OpenUnderWay'
  BY <1>1, <1>3 DEF OpenUnderWay
<1>8. BuffersExact'
  BY <1>1, <1>3 DEF BuffersExact, Held
<1>9. MoveUnderWay' /\ Files!TransferExact'
  BY <1>3 DEF MoveUnderWay, Files!TransferExact
<1> QED
  BY <1>5, <1>6, <1>7, <1>8, <1>9 DEF FilesIInv, NamesExact

LEMMA OpenExclInv ==
  ASSUME FilesIInv, NEW fails \in BOOLEAN, Files!OpenExcl(fails)
  PROVE  FilesIInv'
<1>1. /\ call.op = "openat" /\ call.pc = "excl"
      /\ fs_server_fd_map' = fs_server_fd_map /\ fd_path' = fd_path
      /\ server' = server /\ tree' = tree /\ shared' = shared
  BY DEF Files!OpenExcl
<1>2. CASE ~fails /\ Files!StatFinds(call.path)
  BY <1>1, <1>2, GivesUpInv DEF Files!OpenExcl
<1>3. CASE ~(~fails /\ Files!StatFinds(call.path))
  <2>1. /\ call' = [call EXCEPT !.pc = Files!AfterOpen(call, "excl")]
        /\ fd_table' = fd_table /\ free_buffers' = free_buffers
    BY <1>3 DEF Files!OpenExcl
  <2>2. Files!AfterOpen(call, "excl") \in {"excl", "isdir", "open"}
    BY DEF Files!AfterOpen
  <2> QED
    BY <1>1, <2>1, <2>2, GoesOnInv
<1> QED
  BY <1>2, <1>3

LEMMA OpenIsDirInv ==
  ASSUME FilesIInv, NEW fails \in BOOLEAN, Files!OpenIsDir(fails)
  PROVE  FilesIInv'
<1>1. /\ call.op = "openat" /\ call.pc = "isdir"
      /\ fs_server_fd_map' = fs_server_fd_map /\ fd_path' = fd_path
      /\ server' = server /\ tree' = tree /\ shared' = shared
  BY DEF Files!OpenIsDir
<1> DEFINE Refused == ~fails /\ Files!StatFinds(call.path) /\ tree[call.path].kind = "dir"
<1>2. CASE Refused
  BY <1>1, <1>2, GivesUpInv DEF Files!OpenIsDir
<1>3. CASE ~Refused
  <2>1. /\ call' = [call EXCEPT !.pc = "open"]
        /\ fd_table' = fd_table /\ free_buffers' = free_buffers
    BY <1>3 DEF Files!OpenIsDir
  <2> QED
    BY <1>1, <2>1, GoesOnInv
<1> QED
  BY <1>2, <1>3

LEMMA OpenFailsInv == ASSUME FilesIInv, Files!OpenFails PROVE FilesIInv'
  BY GivesUpInv DEF Files!OpenFails

LEMMA NodesTake ==
  ASSUME NEW n \in Nodes, NEW b \in Seq(Nat)
  PROVE  [n EXCEPT !.bytes = b] \in Nodes /\ [n EXCEPT !.bytes = b].bytes = b
  BY DEF Nodes

\* The descriptor openat returns names what the server has opened for the call,
\* and nobody else does.
LEMMA InstallInv ==
  ASSUME FilesIInv, call.op = "openat", NEW s \in ServerFds, Files!Install(s),
         call.pc = "trunc" => s = call.s,
         tree' \in [AllPaths -> Nodes], server' \in [ServerFds -> ServerEntries], shared' = shared,
         \A u \in ServerFds \ {s} : server'[u] = server[u],
         s \notin shared =>
            /\ server'[s] = [open |-> TRUE, path |-> call.path, dir |-> call.dir]
            /\ \A g \in Files!Opened : fs_server_fd_map[g] # s,
         free_buffers' = free_buffers + Held
  PROVE  FilesIInv'
<1> DEFINE fd == call.fd
           e == [active |-> TRUE, dir |-> call.dir, ptr |-> 0]
<1>1. TablesTypeOK /\ CallTypeOK /\ NamesExact /\ OpenUnderWay /\ BuffersExact
  BY FilesParts
<1>2. call \in OpenCalls /\ fd \in Fds /\ call.dir \in BOOLEAN /\ call.path \in AllPaths
  BY <1>1, CallOps DEF OpenCalls
<1>3. /\ fd_table' = [fd_table EXCEPT ![fd] = e]
      /\ fs_server_fd_map' = [fs_server_fd_map EXCEPT ![fd] = s]
      /\ fd_path' = [fd_path EXCEPT ![fd] = call.path]
      /\ call' = Files!Idle
  BY DEF Files!Install, Files!Returns
<1>4. e \in Entries /\ e.active /\ e.dir = call.dir
  BY <1>2 DEF Entries
<1> HIDE DEF e
<1>5. /\ fd_table' \in [Fds -> Entries]
      /\ fs_server_fd_map' \in [Fds -> ServerFds \cup {NoServerFd}]
      /\ fd_path' \in [Fds -> AllPaths]
  BY <1>1, <1>2, <1>3, <1>4 DEF TablesTypeOK
<1>6. /\ fd_table'[fd] = e /\ fs_server_fd_map'[fd] = s /\ fd_path'[fd] = call.path
      /\ \A f \in Fds \ {fd} : /\ fd_table'[f] = fd_table[f]
                               /\ fs_server_fd_map'[f] = fs_server_fd_map[f]
                               /\ fd_path'[f] = fd_path[f]
  BY <1>1, <1>2, <1>3 DEF TablesTypeOK
<1> HIDE DEF fd
<1>7. Files!Opened' = Files!Opened \cup {fd} /\ fd \notin Files!Opened
      /\ Files!Opened \subseteq Fds
  BY <1>2, <1>3, <1>4, <1>6, IdleAfter DEF Files!Opened, Files!Active, fd
<1>8. Files!FreeFdIsClean'
  BY <1>1, <1>6, <1>7 DEF NamesExact, Files!FreeFdIsClean
<1>9. OpenedNamed'
  BY <1>1, <1>6, <1>7 DEF NamesExact, OpenedNamed
<1>10. Files!DescriptorKeepsItsFile'
  <2> SUFFICES ASSUME NEW f \in Files!Opened', fs_server_fd_map'[f] \notin shared
               PROVE  /\ server'[fs_server_fd_map'[f]]
                           = [open |-> TRUE, path |-> fd_path'[f], dir |-> fd_table'[f].dir]
                      /\ \A g \in Files!Opened' \ {f} : fs_server_fd_map'[g] # fs_server_fd_map'[f]
    BY DEF Files!DescriptorKeepsItsFile, Files!ServerFile
  <2>1. CASE f = fd
    BY <2>1, <1>4, <1>6, <1>7
  <2>2. CASE f # fd
    <3>1. f \in Files!Opened /\ f \in Fds \ {fd} /\ fs_server_fd_map[f] = fs_server_fd_map'[f]
      BY <2>2, <1>6, <1>7
    <3>2. /\ server[fs_server_fd_map[f]]
                = [open |-> TRUE, path |-> fd_path[f], dir |-> fd_table[f].dir]
          /\ \A g \in Files!Opened \ {f} : fs_server_fd_map[g] # fs_server_fd_map[f]
          /\ fs_server_fd_map[f] \in ServerFds
      BY <3>1, <1>1 DEF NamesExact, OpenedNamed, Files!DescriptorKeepsItsFile, Files!ServerFile
    <3>3. fs_server_fd_map[f] # s
      BY <3>1
    <3>4. server'[fs_server_fd_map'[f]]
                = [open |-> TRUE, path |-> fd_path'[f], dir |-> fd_table'[f].dir]
      BY ZenonT(60), <3>1, <3>2, <3>3, <1>6
    <3>5. \A g \in Files!Opened \ {f} : fs_server_fd_map'[g] # fs_server_fd_map'[f]
      BY <3>1, <3>2, <1>6, <1>7
    <3> QED
      BY <3>1, <3>3, <3>4, <3>5, <1>6, <1>7
  <2> QED
    BY <2>1, <2>2
<1>11. TablesTypeOK'
  BY <1>1, <1>5 DEF TablesTypeOK
<1>12. BuffersExact'
  <2>1. Held' = 0 /\ free_buffers = Buffers - Held /\ Buffers \in Nat /\ Held \in {0, 1}
    BY <1>1, <1>3, IdleAfter, FilesAssumption DEF BuffersExact, Held, Files!FileFdsAssumption
  <2> QED
    BY <2>1 DEF BuffersExact
<1> QED
  BY <1>3, <1>8, <1>9, <1>10, <1>11, <1>12, IdleAfter DEF FilesIInv

LEMMA OpenSucceedsInv ==
  ASSUME FilesIInv, NEW s \in ServerFds, Files!OpenSucceeds(s)
  PROVE  FilesIInv'
<1> DEFINE x == [open |-> TRUE, path |-> call.path, dir |-> call.dir]
<1>1. TablesTypeOK /\ CallTypeOK /\ NamesExact /\ OpenUnderWay /\ BuffersExact
  BY FilesParts
<1>2. /\ call.op = "openat" /\ call.pc = "open" /\ ~server[s].open
      /\ server' = [server EXCEPT ![s] = x]
      /\ tree' = IF call.dir THEN tree ELSE [tree EXCEPT ![call.path].kind = "file"]
      /\ free_buffers' = free_buffers + 1
      /\ shared' = shared
  BY DEF Files!OpenSucceeds
<1>3. call \in OpenCalls /\ call.fd \in Fds /\ call.dir \in BOOLEAN /\ call.path \in AllPaths
  BY <1>1, <1>2, CallOps DEF OpenCalls
<1>4. x \in ServerEntries /\ x.open
  BY <1>3 DEF ServerEntries
<1> HIDE DEF x
<1>5. /\ server' \in [ServerFds -> ServerEntries] /\ server'[s] = x
      /\ \A u \in ServerFds \ {s} : server'[u] = server[u]
  BY <1>1, <1>2, <1>4 DEF TablesTypeOK
<1>6. tree' \in [AllPaths -> Nodes]
  <2>1. [tree[call.path] EXCEPT !.kind = "file"] \in Nodes
    BY <1>1, <1>3 DEF TablesTypeOK, Nodes
  <2> QED
    BY <2>1, <1>1, <1>2, <1>3 DEF TablesTypeOK
<1>7. s \notin shared => \A g \in Files!Opened : fs_server_fd_map[g] # s
  <2> SUFFICES ASSUME s \notin shared, NEW g \in Files!Opened, fs_server_fd_map[g] = s PROVE FALSE
    OBVIOUS
  <2>1. server[s] = [open |-> TRUE, path |-> fd_path[g], dir |-> fd_table[g].dir]
    BY <1>1 DEF NamesExact, Files!DescriptorKeepsItsFile, Files!ServerFile
  <2> QED
    BY <2>1, <1>2
<1>8. CASE call.trunc /\ ~call.dir
  <2>1. /\ call' = [call EXCEPT !.pc = "trunc", !.s = s]
        /\ fd_table' = fd_table /\ fs_server_fd_map' = fs_server_fd_map /\ fd_path' = fd_path
    BY <1>8 DEF Files!OpenSucceeds
  <2>2. /\ call' \in OpenCalls /\ call'.op = "openat" /\ call'.fd = call.fd /\ call'.pc = "trunc"
        /\ call'.s = s /\ call'.path = call.path /\ call'.dir = call.dir
    BY <2>1, <1>2, <1>3 DEF OpenCalls
  <2>3. Files!Opened' = Files!Opened /\ Files!Opened \subseteq Fds
    BY <2>1, <2>2, <1>2 DEF Files!Opened, Files!Active
  <2>4. Files!FreeFdIsClean' /\ OpenedNamed'
    BY <2>1, <2>3, <1>1 DEF NamesExact, Files!FreeFdIsClean, OpenedNamed
  <2>5. Files!DescriptorKeepsItsFile'
    <3> SUFFICES ASSUME NEW f \in Files!Opened, fs_server_fd_map[f] \notin shared
                 PROVE  /\ server'[fs_server_fd_map[f]]
                             = [open |-> TRUE, path |-> fd_path[f], dir |-> fd_table[f].dir]
                        /\ \A g \in Files!Opened \ {f} : fs_server_fd_map[g] # fs_server_fd_map[f]
      BY <2>1, <2>3, <1>2 DEF Files!DescriptorKeepsItsFile, Files!ServerFile
    <3>1. /\ server[fs_server_fd_map[f]]
                = [open |-> TRUE, path |-> fd_path[f], dir |-> fd_table[f].dir]
          /\ \A g \in Files!Opened \ {f} : fs_server_fd_map[g] # fs_server_fd_map[f]
          /\ fs_server_fd_map[f] \in ServerFds
      BY <1>1 DEF NamesExact, OpenedNamed, Files!DescriptorKeepsItsFile, Files!ServerFile
    <3>2. fs_server_fd_map[f] # s
      BY <1>7
    <3> QED
      BY <3>1, <3>2, <1>5
  <2>6. OpenUnderWay'
    <3>1. s \notin shared => \A g \in Files!Opened' : fs_server_fd_map'[g] # s
      BY <2>1, <2>3, <1>7
    <3>2. ~call'.dir /\ server'[s] = [open |-> TRUE, path |-> call'.path, dir |-> FALSE]
      BY <1>5, <1>8, <1>3, <2>2 DEF x
    <3>3. fd_table'[call'.fd].active
      BY <2>1, <2>2, <1>1, <1>2 DEF OpenUnderWay
    <3> QED
      BY <3>1, <3>2, <3>3, <2>2, <1>2 DEF OpenUnderWay
  <2>7. BuffersExact'
    <3>1. free_buffers = Buffers - 1 /\ Held' = 0 /\ Buffers \in Nat
      BY <1>1, <1>2, <2>2, FilesAssumption DEF BuffersExact, Held, Files!FileFdsAssumption
    <3> QED
      BY <3>1, <1>2 DEF BuffersExact
  <2>8. MoveUnderWay' /\ Files!TransferExact' /\ CallTypeOK'
    BY <2>2 DEF MoveUnderWay, Files!TransferExact, CallTypeOK
  <2>9. TablesTypeOK'
    BY <1>1, <1>2, <1>5, <1>6, <2>1 DEF TablesTypeOK
  <2> QED
    BY <2>4, <2>5, <2>6, <2>7, <2>8, <2>9 DEF FilesIInv
<1>9. CASE ~(call.trunc /\ ~call.dir)
  <2>1. Files!Install(s)
    BY <1>9 DEF Files!OpenSucceeds
  <2>2. Held = 1
    BY <1>2 DEF Held
  <2>3. server'[s] = [open |-> TRUE, path |-> call.path, dir |-> call.dir]
    BY <1>5 DEF x
  <2> QED
    BY <2>1, <2>2, <2>3, <1>2, <1>5, <1>6, <1>7, InstallInv
<1> QED
  BY <1>8, <1>9

LEMMA OpenTruncatesInv ==
  ASSUME FilesIInv, NEW fails \in BOOLEAN, Files!OpenTruncates(fails)
  PROVE  FilesIInv'
<1> DEFINE fd == call.fd
<1>1. TablesTypeOK /\ CallTypeOK /\ NamesExact /\ OpenUnderWay /\ BuffersExact
  BY FilesParts
<1>2. /\ call.op = "openat" /\ call.pc = "trunc"
      /\ free_buffers' = free_buffers /\ server' = server /\ shared' = shared
  BY DEF Files!OpenTruncates
<1>3. call \in OpenCalls /\ fd \in Fds /\ call.path \in AllPaths
  BY <1>1, <1>2, CallOps DEF OpenCalls
<1>4. Held = 0 /\ free_buffers = Buffers /\ Buffers \in Nat
  BY <1>1, <1>2, FilesAssumption DEF BuffersExact, Held, Files!FileFdsAssumption
<1>5. CASE fails
  <2>1. /\ fd_table' = [fd_table EXCEPT ![fd] = Files!Closed] /\ call' = Files!Idle
        /\ fs_server_fd_map' = fs_server_fd_map /\ fd_path' = fd_path /\ tree' = tree
    BY <1>5 DEF Files!OpenTruncates, Files!Returns
  <2>2. fd_table' \in [Fds -> Entries] /\ ~fd_table'[fd].active
        /\ \A f \in Fds \ {fd} : fd_table'[f] = fd_table[f]
    BY <1>1, <1>3, <2>1 DEF TablesTypeOK, Entries, Files!Closed
  <2>3. Files!Opened' = Files!Opened
    BY <1>2, <2>1, <2>2, IdleAfter DEF Files!Opened, Files!Active
  <2>4. \A f \in Files!Opened : fd_table'[f].dir = fd_table[f].dir
    BY <1>2, <2>2 DEF Files!Opened, Files!Active
  <2>5. NamesExact'
    BY <1>1, <1>2, <2>1, <2>3, <2>4, NamesKept
  <2>6. TablesTypeOK'
    BY <1>1, <1>2, <2>1, <2>2 DEF TablesTypeOK
  <2>7. BuffersExact'
    BY <1>2, <1>4, <2>1, IdleAfter DEF BuffersExact
  <2> QED
    BY <2>1, <2>5, <2>6, <2>7, IdleAfter DEF FilesIInv, NamesExact
<1>6. CASE ~fails
  <2>1. Files!Install(call.s) /\ tree' = [tree EXCEPT ![server[call.s].path].bytes = <<>>]
    BY <1>6 DEF Files!OpenTruncates
  <2>2. call.s \in ServerFds /\ ~call.dir /\ server[call.s] \in ServerEntries
    BY <1>1, <1>2 DEF OpenUnderWay, TablesTypeOK
  <2>3. tree' \in [AllPaths -> Nodes]
    <3>1. server[call.s].path \in AllPaths
      BY <2>2 DEF ServerEntries
    <3>2. [tree[server[call.s].path] EXCEPT !.bytes = <<>>] \in Nodes
      <4>1. <<>> \in Seq(Nat) /\ tree[server[call.s].path] \in Nodes
        BY <3>1, <1>1 DEF TablesTypeOK
      <4> QED
        BY <4>1, NodesTake
    <3> QED
      BY <3>1, <3>2, <2>1, <1>1 DEF TablesTypeOK
  <2>4. server' \in [ServerFds -> ServerEntries]
    BY <1>1, <1>2 DEF TablesTypeOK
  <2>5. call.s \notin shared =>
            /\ server'[call.s] = [open |-> TRUE, path |-> call.path, dir |-> call.dir]
            /\ \A g \in Files!Opened : fs_server_fd_map[g] # call.s
    <3>1. call.dir = FALSE
      BY <2>2, <1>3 DEF OpenCalls
    <3> QED
      BY <3>1, <1>1, <1>2 DEF OpenUnderWay
  <2>6. free_buffers' = free_buffers + Held
    BY <1>2, <1>4
  <2> QED
    BY <1>2, <2>1, <2>2, <2>3, <2>4, <2>5, <2>6, InstallInv
<1> QED
  BY <1>5, <1>6

-----------------------------------------------------------------------------
(* Files: transfers.                                                       *)

\* A step that moves file_ptr or nothing in the tables.
LEMMA PtrOnly ==
  ASSUME TablesTypeOK, NamesExact, NEW f \in Fds, NEW p \in Int,
         fd_table' = [fd_table EXCEPT ![f].ptr = p],
         fs_server_fd_map' = fs_server_fd_map, fd_path' = fd_path,
         server' = server, shared' = shared, tree' \in [AllPaths -> Nodes],
         call.op # "openat", call'.op # "openat"
  PROVE  TablesTypeOK' /\ NamesExact' /\ Files!Active' = Files!Active /\ fd_table'[f].ptr = p
<1> DEFINE e == [fd_table[f] EXCEPT !.ptr = p]
<1>1. fd_table[f] \in Entries
  BY DEF TablesTypeOK
<1>2. e \in Entries /\ e.active = fd_table[f].active /\ e.dir = fd_table[f].dir /\ e.ptr = p
  BY <1>1 DEF Entries
<1>3. fd_table' = [fd_table EXCEPT ![f] = e]
  OBVIOUS
<1> HIDE DEF e
<1>4. /\ fd_table' \in [Fds -> Entries] /\ fd_table'[f] = e
      /\ \A g \in Fds : /\ fd_table'[g].active = fd_table[g].active
                        /\ fd_table'[g].dir = fd_table[g].dir
  BY <1>2, <1>3 DEF TablesTypeOK
<1>5. Files!Active' = Files!Active /\ Files!Opened' = Files!Opened
  BY <1>4 DEF Files!Active, Files!Opened
<1>6. Files!Opened \subseteq Fds
  BY DEF Files!Opened, Files!Active
<1>7. NamesExact'
  BY <1>4, <1>5, <1>6, NamesKept
<1>8. TablesTypeOK'
  BY <1>4 DEF TablesTypeOK
<1> QED
  BY <1>2, <1>4, <1>5, <1>7, <1>8

LEMMA TransferInv ==
  ASSUME FilesIInv, NEW op \in {"read", "write"}, NEW f \in Fds, NEW n \in Lengths,
         Files!Transfer(op, f, n)
  PROVE  FilesIInv'
<1>1. TablesTypeOK /\ CallTypeOK /\ NamesExact /\ OpenUnderWay /\ BuffersExact
  BY FilesParts
<1>2. /\ fd_table' = fd_table /\ fs_server_fd_map' = fs_server_fd_map /\ fd_path' = fd_path
      /\ server' = server /\ tree' = tree /\ shared' = shared
      /\ f \in Files!Active
  BY DEF Files!Transfer
<1>3. Files!Opened = Files!Active /\ free_buffers = Buffers /\ Held = 0
  BY IdleBefore DEF Files!Transfer
<1>4. TablesTypeOK'
  BY <1>1, <1>2 DEF TablesTypeOK
<1>5. CASE free_buffers = 0
  <2>1. call' = Files!Idle /\ free_buffers' = free_buffers
    BY <1>5 DEF Files!Transfer, Files!Returns
  <2>2. Files!Opened' = Files!Opened
    BY <1>2, <1>3, <2>1, IdleAfter DEF Files!Active
  <2>3. NamesExact'
    BY <1>1, <1>2, <2>2, NamesKept
  <2>4. BuffersExact'
    BY <1>3, <2>1, IdleAfter, FilesAssumption DEF BuffersExact, Files!FileFdsAssumption
  <2> QED
    BY <1>4, <2>1, <2>3, <2>4, IdleAfter DEF FilesIInv, NamesExact
<1>6. CASE free_buffers # 0
  <2>1. /\ call' = [op |-> op, fd |-> f, len |-> n, done |-> 0, data |-> <<>>]
        /\ free_buffers' = free_buffers - 1
    BY <1>6 DEF Files!Transfer
  <2>2. /\ call' \in MoveCalls /\ call'.op = op /\ call'.fd = f /\ call'.done = 0 /\ call'.data = <<>>
    <3>1. n \in Nat \ {0} /\ <<>> \in Seq(Nat)
      BY FilesAssumption DEF Files!FileFdsAssumption
    <3> QED
      BY <2>1, <3>1 DEF MoveCalls
  <2>3. Files!Opened' = Files!Opened
    BY <1>2, <1>3, <2>2 DEF Files!Opened, Files!Active
  <2>4. NamesExact'
    BY <1>1, <1>2, <2>3, NamesKept
  <2>5. BuffersExact'
    BY <1>3, <2>1, <2>2 DEF BuffersExact, Held
  <2>6. MoveUnderWay'
    <3> DEFINE ptr == fd_table[f].ptr
               b   == Files!Bytes(f)'
    <3>1. ptr \in Int /\ fd_table[f].active
      BY <1>1, <1>2 DEF TablesTypeOK, Entries, Files!Active
    <3> HIDE DEF ptr, b
    <3>2. SubSeq(b, ptr + 1, ptr + 0) = <<>>
      BY <3>1, SubSeqEmpty
    <3>3. <<>> = SubSeq(b, ptr + 1, ptr + 0) /\ 0 = Len(<<>>)
      BY <3>2
    <3> QED
      BY <1>2, <2>2, <3>1, <3>3 DEF MoveUnderWay, ptr, b
  <2>7. OpenUnderWay' /\ Files!TransferExact' /\ CallTypeOK'
    BY <2>2 DEF OpenUnderWay, Files!TransferExact, CallTypeOK
  <2> QED
    BY <1>4, <2>4, <2>5, <2>6, <2>7 DEF FilesIInv, NamesExact
<1> QED
  BY <1>5, <1>6

\* One command moved the bytes new, which lie behind what was moved before.
LEMMA MovedInv ==
  ASSUME FilesIInv, call.op \in {"read", "write"}, NEW k \in Nat, NEW new \in Seq(Nat), Len(new) = k,
         Files!Moved(k, call.data \o new),
         fs_server_fd_map' = fs_server_fd_map, fd_path' = fd_path,
         server' = server, shared' = shared, tree' \in [AllPaths -> Nodes],
         NEW ptr, ptr = fd_table[call.fd].ptr, NEW b, b = tree'[server[fs_server_fd_map[call.fd]].path].bytes,
         call.data \o new = SubSeq(b, ptr + 1, ptr + Len(call.data \o new)),
         call.done + k > 0 => ptr >= 0 /\ ptr + (call.done + k) <= Len(b)
  PROVE  FilesIInv'
<1> DEFINE all   == call.data \o new
           asked == Files!SmallerOf(call.len, Chunk)
           fd    == call.fd
<1>1. TablesTypeOK /\ CallTypeOK /\ NamesExact /\ BuffersExact /\ MoveUnderWay
  BY FilesParts
<1>2. call \in MoveCalls /\ fd \in Fds /\ call.len \in Nat \ {0} /\ call.done \in Nat /\ call.data \in Seq(Nat)
  BY <1>1, CallOps DEF MoveCalls
<1>3. fd_table[fd].active /\ call.done = Len(call.data) /\ ptr \in Int
  BY <1>1, <1>2 DEF MoveUnderWay, TablesTypeOK, Entries
<1>4. all \in Seq(Nat) /\ Len(all) = call.done + k
  <2>1. call.data \o new \in Seq(Nat) /\ Len(call.data \o new) = Len(call.data) + Len(new)
    <3>1. \A x, y \in Seq(Nat) : x \o y \in Seq(Nat) /\ Len(x \o y) = Len(x) + Len(y)
      BY ConcatProperties
    <3> QED
      BY <3>1, <1>2
  <2> QED
    BY <2>1, <1>3
<1>5. asked \in Nat /\ asked <= call.len
  BY <1>2, FilesAssumption DEF Files!SmallerOf, Files!FileFdsAssumption
<1>6. free_buffers = Buffers - 1 /\ Buffers \in Nat
  BY <1>1, FilesAssumption DEF BuffersExact, Held, Files!FileFdsAssumption
<1> HIDE DEF all, asked
<1>7. CASE k < asked \/ call.len = asked
  <2>1. /\ free_buffers' = free_buffers + 1
        /\ fd_table' = [fd_table EXCEPT ![fd].ptr = @ + (call.done + k)]
        /\ call' = [op |-> "done", fd |-> fd, from |-> ptr, data |-> all]
    BY <1>7 DEF Files!Moved, all, asked
  <2>2. fd_table' = [fd_table EXCEPT ![fd].ptr = ptr + (call.done + k)]
    BY <2>1, <1>2, <1>1 DEF TablesTypeOK, Entries
  <2>3. ptr + (call.done + k) \in Int
    BY <1>2, <1>3
  <2>4. /\ call' \in DoneCalls /\ call'.op = "done" /\ call'.fd = fd /\ call'.from = ptr
        /\ call'.data = all
    BY <2>1, <1>2, <1>3, <1>4 DEF DoneCalls
  <2> HIDE DEF fd
  <2>5. TablesTypeOK' /\ NamesExact' /\ Files!Active' = Files!Active
        /\ fd_table'[fd].ptr = ptr + (call.done + k)
    BY <1>1, <1>2, <2>2, <2>3, <2>4, PtrOnly
  <2>6. MoveUnderWay'
    <3>1. fd \in Files!Active'
      BY <1>2, <1>3, <2>5 DEF Files!Active
    <3>2. fd_table'[fd].active
      BY <3>1 DEF Files!Active
    <3> QED
      BY <2>4, <3>2 DEF MoveUnderWay
  <2>7. Files!TransferExact'
    <3>1. b = Files!Bytes(call.fd)'
      BY <2>4 DEF Files!Bytes, Files!ServerFile, fd
    <3>2. all = SubSeq(b, ptr + 1, ptr + Len(all))
      BY DEF all
    <3> HIDE DEF all
    <3>3. fd_table'[call'.fd].ptr = call'.from + Len(call'.data)
      BY <1>4, <2>4, <2>5
    <3> QED
      BY <2>4, <3>1, <3>2, <3>3 DEF Files!TransferExact
  <2>8. BuffersExact' /\ OpenUnderWay' /\ CallTypeOK'
    BY <1>6, <2>1, <2>4 DEF BuffersExact, Held, OpenUnderWay, CallTypeOK
  <2> QED
    BY <2>5, <2>6, <2>7, <2>8 DEF FilesIInv, NamesExact
<1>8. CASE ~(k < asked \/ call.len = asked)
  <2>1. /\ call' = [call EXCEPT !.len = @ - asked, !.done = call.done + k, !.data = all]
        /\ free_buffers' = free_buffers /\ fd_table' = fd_table
    BY <1>8 DEF Files!Moved, all, asked
  <2>2. call.len - asked \in Nat \ {0} /\ call.done + k \in Nat
    BY <1>2, <1>5, <1>8
  <2>3. /\ call' \in MoveCalls /\ call'.op = call.op /\ call'.fd = fd
        /\ call'.done = call.done + k /\ call'.data = all
    BY <2>1, <2>2, <1>2, <1>4 DEF MoveCalls
  <2>4. Files!Opened' = Files!Opened
    BY <2>1, <2>3 DEF Files!Opened, Files!Active
  <2>5. NamesExact'
    BY <1>1, <2>1, <2>4, NamesKept
  <2>6. TablesTypeOK'
    BY <1>1, <2>1 DEF TablesTypeOK
  <2>7. MoveUnderWay'
    <3>1. b = Files!Bytes(call.fd)'
      BY <2>3 DEF Files!Bytes, Files!ServerFile
    <3>2. all = SubSeq(b, ptr + 1, ptr + Len(all))
      BY DEF all
    <3> HIDE DEF fd
    <3>3. /\ call'.done = Len(call'.data)
          /\ call'.done > 0 => ptr >= 0 /\ ptr + call'.done <= Len(b)
          /\ call'.data = SubSeq(b, ptr + 1, ptr + call'.done)
      BY <1>4, <2>3, <3>2
    <3>4. fd_table'[call'.fd].active /\ fd_table'[call'.fd].ptr = ptr
      BY <1>3, <2>1, <2>3 DEF fd
    <3> HIDE DEF all
    <3> QED
      BY <3>1, <3>3, <3>4 DEF MoveUnderWay
  <2>8. BuffersExact' /\ OpenUnderWay' /\ CallTypeOK' /\ Files!TransferExact'
    BY <1>1, <1>6, <2>1, <2>3 DEF BuffersExact, Held, OpenUnderWay, CallTypeOK, Files!TransferExact
  <2> QED
    BY <2>5, <2>6, <2>7, <2>8 DEF FilesIInv, NamesExact
<1> QED
  BY <1>7, <1>8

\* Where the bytes of a descriptor are, when the server serves it.
LEMMA ServedBytes ==
  ASSUME TablesTypeOK, NEW f \in Fds, Files!Serves(f)
  PROVE  /\ Files!ServerFile(f).path \in AllPaths
         /\ tree[Files!ServerFile(f).path] \in Nodes
         /\ Files!Bytes(f) \in Seq(Nat)
<1>1. fs_server_fd_map[f] \in ServerFds
  BY DEF Files!Serves
<1>2. Files!ServerFile(f) \in ServerEntries
  BY <1>1 DEF TablesTypeOK, Files!ServerFile
<1>3. Files!ServerFile(f).path \in AllPaths
  BY <1>2 DEF ServerEntries
<1>4. tree[Files!ServerFile(f).path] \in Nodes
  BY <1>3 DEF TablesTypeOK
<1> QED
  BY <1>3, <1>4 DEF Files!Bytes, Nodes

LEMMA WriteChunkInv ==
  ASSUME FilesIInv, NEW k \in 0 .. Chunk, Files!WriteChunk(k)
  PROVE  FilesIInv'
<1> DEFINE f    == call.fd
           ptr  == fd_table[f].ptr
           done == call.done
           path == Files!ServerFile(f).path
           old  == Files!Bytes(f)
           data == [i \in 1 .. k |-> done + i]
           b    == Files!Overwrite(old, ptr + done, data)
<1>1. TablesTypeOK /\ CallTypeOK /\ MoveUnderWay
  BY FilesParts
<1>2. /\ call.op = "write" /\ Files!Serves(f) /\ ptr >= 0
      /\ tree' = [tree EXCEPT ![path].bytes = Files!Overwrite(@, ptr + done, data)]
      /\ Files!Moved(k, call.data \o data)
      /\ fs_server_fd_map' = fs_server_fd_map /\ fd_path' = fd_path
      /\ server' = server /\ shared' = shared
  BY DEF Files!WriteChunk
<1>3. call \in MoveCalls /\ f \in Fds /\ done \in Nat /\ call.data \in Seq(Nat) /\ k \in Nat
  <2>1. call \in MoveCalls
    BY <1>1, <1>2, CallOps
  <2>2. k \in Nat
    BY FilesAssumption DEF Files!FileFdsAssumption
  <2> QED
    BY <2>1, <2>2 DEF MoveCalls
<1>4. path \in AllPaths /\ tree[path] \in Nodes /\ old \in Seq(Nat) /\ old = tree[path].bytes
  BY <1>1, <1>2, <1>3, ServedBytes DEF Files!Bytes
<1>5. ptr \in Nat
  BY <1>1, <1>2, <1>3 DEF TablesTypeOK, Entries
<1>6. data \in Seq(Nat) /\ Len(data) = k
  <2>1. data \in [1 .. k -> Nat]
    BY <1>3
  <2> HIDE DEF data
  <2>2. data \in Seq(Nat)
    BY <2>1, <1>3, SeqDef
  <2>3. DOMAIN data = 1 .. k /\ DOMAIN data = 1 .. Len(data) /\ Len(data) \in Nat
    BY <2>1, <2>2, LenProperties
  <2> QED
    BY <2>2, <2>3, <1>3
<1>7. /\ done = Len(call.data)
      /\ done > 0 => ptr + done <= Len(old)
      /\ call.data = SubSeq(old, ptr + 1, ptr + done)
  BY <1>1, <1>2 DEF MoveUnderWay
<1>8. tree' = [tree EXCEPT ![path].bytes = b]
  BY <1>2, <1>4
<1> HIDE DEF data, path, old, ptr, done
<1>9. /\ b \in Seq(Nat)
      /\ Len(b) = IF (ptr + done) + k > Len(old) THEN (ptr + done) + k ELSE Len(old)
      /\ \A i \in 1 .. Len(old) : i <= ptr + done => b[i] = old[i]
      /\ \A i \in 1 .. k : b[(ptr + done) + i] = data[i]
  <2>1. ptr + done \in Nat
    BY <1>3, <1>5 DEF done
  <2> QED
    BY ZenonT(60), <1>4, <1>6, <2>1, OverwriteFacts
<1> HIDE DEF b
<1>10. Len(old) \in Nat /\ Len(b) \in Nat /\ \A i \in 1 .. Len(old) : old[i] \in Nat
  <2>1. old \in Seq(Nat) /\ b \in Seq(Nat)
    BY <1>4, <1>9
  <2>2. Len(b) \in Nat
    BY <2>1, LenProperties
  <2>3. Len(old) \in Nat /\ old \in [1 .. Len(old) -> Nat]
    BY <2>1, LenProperties
  <2> QED
    BY <2>2, <2>3
<1>11. done \in Nat /\ ptr \in Nat /\ k \in Nat
  BY <1>3, <1>5 DEF done
<1>12. \A i \in ptr + 1 .. ptr + done : old[i] \in Nat /\ b[i] = old[i]
  <2> SUFFICES ASSUME NEW i \in ptr + 1 .. ptr + done PROVE old[i] \in Nat /\ b[i] = old[i]
    OBVIOUS
  <2>1. i \in 1 .. Len(old) /\ i <= ptr + done
    BY <1>7, <1>10, <1>11
  <2> QED
    BY <2>1, <1>9, <1>10
<1>13. call.data = SubSeq(b, ptr + 1, ptr + done)
  BY <1>7, <1>11, <1>12, SameBytes
<1>14. call.data \o data = SubSeq(b, ptr + 1, ptr + Len(call.data \o data))
  <2>1. \A i \in 1 .. done : b[ptr + i] \in Nat
    <3> SUFFICES ASSUME NEW i \in 1 .. done PROVE b[ptr + i] \in Nat
      OBVIOUS
    <3>1. ptr + i \in ptr + 1 .. ptr + done
      BY <1>11
    <3> QED
      BY <3>1, <1>12
  <2>2. \A i \in 1 .. k : b[ptr + done + i] = data[i]
    BY <1>9, <1>11
  <2>3. /\ call.data = SubSeq(b, ptr + 1, ptr + Len(call.data))
        /\ \A i \in 1 .. Len(call.data) : b[ptr + i] \in Nat
        /\ \A i \in 1 .. Len(data) : b[ptr + Len(call.data) + i] = data[i]
    BY <1>6, <1>7, <1>13, <2>1, <2>2
  <2>4. call.data \in Seq(Nat) /\ ptr \in Int
    BY <1>3, <1>11
  <2> QED
    BY <1>6, <2>3, <2>4, PieceGrows
<1>15. tree' \in [AllPaths -> Nodes] /\ tree'[path].bytes = b
  <2>1. [tree[path] EXCEPT !.bytes = b] \in Nodes /\ [tree[path] EXCEPT !.bytes = b].bytes = b
    BY <1>4, <1>9, NodesTake
  <2>2. tree' = [tree EXCEPT ![path] = [tree[path] EXCEPT !.bytes = b]]
    BY <1>8
  <2> QED
    BY <2>1, <2>2, <1>1, <1>4 DEF TablesTypeOK
<1>16. done + k > 0 => ptr >= 0 /\ ptr + (done + k) <= Len(b)
  BY <1>9, <1>10, <1>11
<1>17. b = tree'[server[fs_server_fd_map[f]].path].bytes
  BY <1>15 DEF path, Files!ServerFile
<1> QED
  BY <1>2, <1>6, <1>11, <1>14, <1>15, <1>16, <1>17, MovedInv DEF ptr, done

LEMMA ReadChunkInv ==
  ASSUME FilesIInv, NEW k \in 0 .. Chunk, Files!ReadChunk(k)
  PROVE  FilesIInv'
<1> DEFINE f    == call.fd
           ptr  == fd_table[f].ptr
           done == call.done
           b    == Files!Bytes(f)
           data == SubSeq(b, (ptr + done) + 1, (ptr + done) + k)
<1>1. TablesTypeOK /\ CallTypeOK /\ MoveUnderWay
  BY FilesParts
<1>2. /\ call.op = "read" /\ Files!Serves(f) /\ ptr >= 0
      /\ k > 0 => (ptr + done) + k <= Len(b)
      /\ tree' = tree
      /\ Files!Moved(k, call.data \o data)
      /\ fs_server_fd_map' = fs_server_fd_map /\ fd_path' = fd_path
      /\ server' = server /\ shared' = shared
  BY DEF Files!ReadChunk
<1>3. call \in MoveCalls /\ f \in Fds /\ done \in Nat /\ call.data \in Seq(Nat) /\ k \in Nat
  <2>1. call \in MoveCalls
    BY <1>1, <1>2, CallOps
  <2>2. k \in Nat
    BY FilesAssumption DEF Files!FileFdsAssumption
  <2> QED
    BY <2>1, <2>2 DEF MoveCalls
<1>4. b \in Seq(Nat)
  BY <1>1, <1>2, <1>3, ServedBytes
<1>5. ptr \in Nat
  BY <1>1, <1>2, <1>3 DEF TablesTypeOK, Entries
<1>6. /\ done = Len(call.data)
      /\ done > 0 => ptr + done <= Len(b)
      /\ call.data = SubSeq(b, ptr + 1, ptr + done)
  BY <1>1, <1>2 DEF MoveUnderWay
<1>7. b = tree'[server[fs_server_fd_map[f]].path].bytes
  BY <1>2 DEF Files!Bytes, Files!ServerFile
<1>8. done \in Nat /\ ptr \in Nat /\ k \in Nat
  BY <1>3, <1>5
<1> HIDE DEF b, ptr, done
<1>9. Len(b) \in Nat /\ \A i \in 1 .. Len(b) : b[i] \in Nat
  BY <1>4, LenProperties
<1>10. \A i \in (ptr + done) + 1 .. (ptr + done) + k : b[i] \in Nat
  <2> SUFFICES ASSUME NEW i \in (ptr + done) + 1 .. (ptr + done) + k PROVE b[i] \in Nat
    OBVIOUS
  <2>1. i \in 1 .. Len(b)
    BY <1>2, <1>8, <1>9
  <2> QED
    BY <2>1, <1>9
<1>11. data \in Seq(Nat) /\ Len(data) = k /\ \A i \in 1 .. k : data[i] = b[ptr + done + i]
  <2> DEFINE m == (ptr + done) + 1
             n == (ptr + done) + k
  <2>1. m \in Int /\ n \in Int /\ n - m + 1 = k /\ (m <= n <=> k > 0)
    BY <1>8
  <2>2. \A i \in m .. n : b[i] \in Nat
    BY <1>10
  <2>3. data = SubSeq(b, m, n)
    OBVIOUS
  <2>4. \A i \in 1 .. k : m + i - 1 = ptr + done + i
    BY <1>8
  <2> HIDE DEF m, n, data
  <2>5. /\ data \in Seq(Nat)
        /\ Len(data) = IF m <= n THEN n - m + 1 ELSE 0
        /\ \A i \in 1 .. n - m + 1 : data[i] = b[m + i - 1]
    BY <2>1, <2>2, <2>3, SubSeqProperties
  <2>6. Len(data) = k
    BY <2>1, <2>5, <1>8
  <2>7. \A i \in 1 .. k : data[i] = b[m + i - 1]
    BY <2>1, <2>5
  <2> QED
    BY <2>4, <2>5, <2>6, <2>7
<1> HIDE DEF data
<1>12. call.data \o data = SubSeq(b, ptr + 1, ptr + Len(call.data \o data))
  <2>1. \A i \in 1 .. done : b[ptr + i] \in Nat
    <3> SUFFICES ASSUME NEW i \in 1 .. done PROVE b[ptr + i] \in Nat
      OBVIOUS
    <3>1. ptr + i \in 1 .. Len(b)
      BY <1>6, <1>8, <1>9
    <3> QED
      BY <3>1, <1>9
  <2>2. \A i \in 1 .. k : b[ptr + done + i] = data[i]
    BY <1>11
  <2>3. /\ call.data = SubSeq(b, ptr + 1, ptr + Len(call.data))
        /\ \A i \in 1 .. Len(call.data) : b[ptr + i] \in Nat
        /\ \A i \in 1 .. Len(data) : b[ptr + Len(call.data) + i] = data[i]
    BY <1>6, <1>11, <2>1, <2>2
  <2>4. call.data \in Seq(Nat) /\ ptr \in Int
    BY <1>3, <1>8
  <2> QED
    BY ZenonT(60), <1>11, <2>3, <2>4, PieceGrows
<1>13. done + k > 0 => ptr >= 0 /\ ptr + (done + k) <= Len(b)
  BY <1>2, <1>6, <1>8, <1>9
<1>14. tree' \in [AllPaths -> Nodes]
  BY <1>1, <1>2 DEF TablesTypeOK
<1> QED
  BY <1>2, <1>7, <1>8, <1>11, <1>12, <1>13, <1>14, MovedInv DEF ptr, done

LEMMA TransferReturnsInv == ASSUME FilesIInv, Files!TransferReturns PROVE FilesIInv'
<1>1. TablesTypeOK /\ CallTypeOK /\ NamesExact /\ BuffersExact
  BY FilesParts
<1>2. /\ call.op = "done" /\ call' = Files!Idle
      /\ fd_table' = fd_table /\ fs_server_fd_map' = fs_server_fd_map /\ fd_path' = fd_path
      /\ free_buffers' = free_buffers /\ server' = server /\ tree' = tree /\ shared' = shared
  BY DEF Files!TransferReturns, Files!Returns
<1>3. Files!Opened' = Files!Opened
  BY <1>2, IdleAfter DEF Files!Opened, Files!Active
<1>4. NamesExact'
  BY <1>1, <1>2, <1>3, NamesKept
<1>5. BuffersExact'
  BY <1>1, <1>2, IdleAfter DEF BuffersExact, Held
<1>6. TablesTypeOK'
  BY <1>1, <1>2 DEF TablesTypeOK
<1> QED
  BY <1>2, <1>4, <1>5, <1>6, IdleAfter DEF FilesIInv, NamesExact

LEMMA TransferFailsInv == ASSUME FilesIInv, Files!TransferFails PROVE FilesIInv'
<1>1. TablesTypeOK /\ CallTypeOK /\ NamesExact /\ BuffersExact
  BY FilesParts
<1>2. /\ call.op \in {"read", "write"} /\ call' = Files!Idle
      /\ fd_table' = fd_table /\ fs_server_fd_map' = fs_server_fd_map /\ fd_path' = fd_path
      /\ free_buffers' = free_buffers + 1 /\ server' = server /\ tree' = tree /\ shared' = shared
  BY DEF Files!TransferFails, Files!Returns
<1>3. Files!Opened' = Files!Opened
  BY <1>2, IdleAfter DEF Files!Opened, Files!Active
<1>4. NamesExact'
  BY <1>1, <1>2, <1>3, NamesKept
<1>5. BuffersExact'
  BY <1>1, <1>2, IdleAfter, FilesAssumption DEF BuffersExact, Held, Files!FileFdsAssumption
<1>6. TablesTypeOK'
  BY <1>1, <1>2 DEF TablesTypeOK
<1> QED
  BY <1>2, <1>4, <1>5, <1>6, IdleAfter DEF FilesIInv, NamesExact

-----------------------------------------------------------------------------
(* Files: the other calls.                                                 *)

LEMMA SeekToInv ==
  ASSUME FilesIInv, NEW f \in Fds, NEW new \in Int, Files!SeekTo(f, new)
  PROVE  FilesIInv'
<1>1. TablesTypeOK /\ NamesExact
  BY FilesParts
<1>2. /\ fd_table' = [fd_table EXCEPT ![f].ptr = new]
      /\ fs_server_fd_map' = fs_server_fd_map /\ fd_path' = fd_path /\ call' = Files!Idle
      /\ free_buffers' = free_buffers /\ server' = server /\ tree' = tree /\ shared' = shared
  BY DEF Files!SeekTo, Files!Returns
<1>3. Held = 0 /\ free_buffers = Buffers /\ Buffers \in Nat /\ call.op # "openat"
  BY IdleBefore, IdleCall, FilesAssumption DEF Files!SeekTo, Files!Starts, Files!FileFdsAssumption
<1>4. TablesTypeOK' /\ NamesExact'
  <2>1. call'.op # "openat" /\ tree' \in [AllPaths -> Nodes]
    BY <1>1, <1>2, IdleCall DEF TablesTypeOK
  <2> QED
    BY <1>1, <1>2, <1>3, <2>1, PtrOnly
<1>5. BuffersExact'
  BY <1>2, <1>3, IdleAfter DEF BuffersExact
<1> QED
  BY <1>2, <1>4, <1>5, IdleAfter DEF FilesIInv, NamesExact

LEMMA SeekInv ==
  ASSUME FilesIInv, NEW f \in Fds, NEW o \in Offsets, NEW w \in {"set", "cur", "end"},
         Files!Seek(f, o, w)
  PROVE  FilesIInv'
<1>1. TablesTypeOK /\ o \in Int
  BY FilesParts, FilesAssumption DEF Files!FileFdsAssumption
<1>2. CASE w = "set"
  BY <1>1, <1>2, SeekToInv DEF Files!Seek
<1>3. CASE w = "cur"
  <2>1. fd_table[f].ptr + o \in Int
    BY <1>1 DEF TablesTypeOK, Entries
  <2> QED
    BY <1>3, <2>1, SeekToInv DEF Files!Seek
<1>4. CASE w = "end"
  <2>1. Files!Serves(f) /\ Files!SeekTo(f, Len(Files!Bytes(f)) + o)
    BY <1>4 DEF Files!Seek
  <2>2. Len(Files!Bytes(f)) \in Nat
    BY <1>1, <2>1, ServedBytes, LenProperties
  <2>3. Len(Files!Bytes(f)) + o \in Int
    BY <1>1, <2>2
  <2> QED
    BY <2>1, <2>3, SeekToInv
<1> QED
  BY <1>2, <1>3, <1>4

\* What the server has open after a close: one descriptor less, or the same.
LEMMA ServerAfterCloseFacts ==
  ASSUME TablesTypeOK, NEW f \in Fds
  PROVE  LET after == Files!ServerAfterClose(f) IN
         /\ after \in [ServerFds -> ServerEntries]
         /\ \A u \in ServerFds : u # fs_server_fd_map[f] => after[u] = server[u]
         /\ \A u \in ServerFds :
               (u = fs_server_fd_map[f] /\ server[u].dir = fd_table[f].dir) => ~after[u].open
<1> DEFINE after == Files!ServerAfterClose(f)
           m     == fs_server_fd_map[f]
<1>1. Files!NotOpen \in ServerEntries /\ ~Files!NotOpen.open
  BY DEF Files!NotOpen, ServerEntries, AllPaths
<1>2. server \in [ServerFds -> ServerEntries]
  BY DEF TablesTypeOK
<1>3. CASE m \in ServerFds /\ server[m].open /\ server[m].dir = fd_table[f].dir
  <2>1. after = [server EXCEPT ![m] = Files!NotOpen]
    BY <1>3 DEF Files!ServerAfterClose, Files!ServerFile
  <2> HIDE DEF after, m
  <2>2. after \in [ServerFds -> ServerEntries] /\ after[m] = Files!NotOpen
        /\ \A u \in ServerFds : u # m => after[u] = server[u]
    BY <1>1, <1>2, <1>3, <2>1
  <2> QED
    BY <1>1, <2>2 DEF after, m
<1>4. CASE ~(m \in ServerFds /\ server[m].open /\ server[m].dir = fd_table[f].dir)
  <2>1. after = server
    BY <1>4 DEF Files!ServerAfterClose, Files!ServerFile
  <2> HIDE DEF after
  <2> QED
    BY <1>2, <1>4, <2>1 DEF after
<1> QED
  BY <1>3, <1>4

LEMMA CloseInv ==
  ASSUME FilesIInv, NEW f \in Fds, NEW fails \in BOOLEAN, Files!Close(f, fails)
  PROVE  FilesIInv'
<1>1. TablesTypeOK /\ NamesExact
  BY FilesParts
<1>2. /\ f \in Files!Active
      /\ server' = IF fails THEN server ELSE Files!ServerAfterClose(f)
      /\ fd_table' = [fd_table EXCEPT ![f] = Files!Closed]
      /\ fs_server_fd_map' = [fs_server_fd_map EXCEPT ![f] = NoServerFd]
      /\ fd_path' = [fd_path EXCEPT ![f] = Files!Root]
      /\ call' = Files!Idle
      /\ free_buffers' = free_buffers /\ tree' = tree /\ shared' = shared
  BY DEF Files!Close, Files!Returns
<1>3. Held = 0 /\ free_buffers = Buffers /\ Buffers \in Nat /\ Files!Opened = Files!Active
  BY IdleBefore, FilesAssumption DEF Files!Close, Files!FileFdsAssumption
<1>4. /\ server' \in [ServerFds -> ServerEntries]
      /\ \A u \in ServerFds : u # fs_server_fd_map[f] => server'[u] = server[u]
  BY <1>1, <1>2, ServerAfterCloseFacts DEF TablesTypeOK
<1>5. /\ fd_table' \in [Fds -> Entries]
      /\ fs_server_fd_map' \in [Fds -> ServerFds \cup {NoServerFd}]
      /\ fd_path' \in [Fds -> AllPaths]
  <2>1. Files!Closed \in Entries /\ Files!Root \in AllPaths
    BY DEF Files!Closed, Entries, AllPaths
  <2>2. fd_table' \in [Fds -> Entries]
    BY <1>1, <1>2, <2>1 DEF TablesTypeOK
  <2>3. fs_server_fd_map' \in [Fds -> ServerFds \cup {NoServerFd}]
    BY <1>1, <1>2 DEF TablesTypeOK
  <2>4. fd_path' \in [Fds -> AllPaths]
    BY <1>1, <1>2, <2>1 DEF TablesTypeOK
  <2> QED
    BY <2>2, <2>3, <2>4
<1>6. /\ ~fd_table'[f].active /\ fs_server_fd_map'[f] = NoServerFd /\ fd_path'[f] = Files!Root
      /\ \A g \in Fds \ {f} : /\ fd_table'[g] = fd_table[g]
                              /\ fs_server_fd_map'[g] = fs_server_fd_map[g]
                              /\ fd_path'[g] = fd_path[g]
  BY <1>1, <1>2 DEF TablesTypeOK, Files!Closed
<1>7. Files!Opened' = Files!Opened \ {f} /\ Files!Opened \subseteq Fds
  BY <1>2, <1>3, <1>6, IdleAfter DEF Files!Active
<1>8. Files!FreeFdIsClean' /\ OpenedNamed'
  BY <1>1, <1>6, <1>7 DEF NamesExact, Files!FreeFdIsClean, OpenedNamed
<1>9. Files!DescriptorKeepsItsFile'
  <2> SUFFICES ASSUME NEW g \in Files!Opened', fs_server_fd_map'[g] \notin shared
               PROVE  /\ server'[fs_server_fd_map'[g]]
                           = [open |-> TRUE, path |-> fd_path'[g], dir |-> fd_table'[g].dir]
                      /\ \A h \in Files!Opened' \ {g} : fs_server_fd_map'[h] # fs_server_fd_map'[g]
    BY <1>2 DEF Files!DescriptorKeepsItsFile, Files!ServerFile
  <2>1. g \in Files!Opened /\ g \in Fds \ {f} /\ fs_server_fd_map'[g] = fs_server_fd_map[g]
    BY <1>6, <1>7
  <2>2. /\ server[fs_server_fd_map[g]]
              = [open |-> TRUE, path |-> fd_path[g], dir |-> fd_table[g].dir]
        /\ \A h \in Files!Opened \ {g} : fs_server_fd_map[h] # fs_server_fd_map[g]
        /\ fs_server_fd_map[g] \in ServerFds
    BY <2>1, <1>1 DEF NamesExact, OpenedNamed, Files!DescriptorKeepsItsFile, Files!ServerFile
  <2>3. fs_server_fd_map[g] # fs_server_fd_map[f]
    BY <2>1, <2>2, <1>2, <1>3
  <2>4. \A h \in Files!Opened' \ {g} : fs_server_fd_map'[h] # fs_server_fd_map'[g]
    BY <2>1, <2>2, <1>6, <1>7
  <2> QED
    BY <2>1, <2>2, <2>3, <2>4, <1>4, <1>6
<1>10. TablesTypeOK'
  BY <1>1, <1>2, <1>4, <1>5 DEF TablesTypeOK
<1>11. BuffersExact'
  BY <1>2, <1>3, IdleAfter DEF BuffersExact
<1> QED
  BY <1>2, <1>8, <1>9, <1>10, <1>11, IdleAfter DEF FilesIInv

LEMMA Dup3Inv ==
  ASSUME FilesIInv, NEW old \in Fds, NEW new \in Fds, NEW fails \in BOOLEAN, Files!Dup3(old, new, fails)
  PROVE  FilesIInv'
<1> DEFINE m == fs_server_fd_map[old]
<1>1. TablesTypeOK /\ NamesExact
  BY FilesParts
<1>2. /\ old \in Files!Active /\ new # old
      /\ server' = IF new \in Files!Active /\ ~fails THEN Files!ServerAfterClose(new) ELSE server
      /\ fd_table' = [fd_table EXCEPT ![new] = fd_table[old]]
      /\ fs_server_fd_map' = [fs_server_fd_map EXCEPT ![new] = m]
      /\ fd_path' = [fd_path EXCEPT ![new] = Files!Root]
      /\ shared' = shared \cup {m}
      /\ call' = Files!Idle
      /\ free_buffers' = free_buffers /\ tree' = tree
  BY DEF Files!Dup3, Files!Returns
<1>3. Held = 0 /\ free_buffers = Buffers /\ Buffers \in Nat /\ Files!Opened = Files!Active
  BY IdleBefore, FilesAssumption DEF Files!Dup3, Files!FileFdsAssumption
<1>4. m \in ServerFds
  BY <1>1, <1>2, <1>3 DEF NamesExact, OpenedNamed
<1>5. /\ server' \in [ServerFds -> ServerEntries]
      /\ \A u \in ServerFds : (new \in Files!Active => u # fs_server_fd_map[new]) => server'[u] = server[u]
  BY <1>1, <1>2, ServerAfterCloseFacts DEF TablesTypeOK
<1> HIDE DEF m
<1>6. /\ fd_table' \in [Fds -> Entries]
      /\ fs_server_fd_map' \in [Fds -> ServerFds \cup {NoServerFd}]
      /\ fd_path' \in [Fds -> AllPaths]
  <2>1. fd_table[old] \in Entries /\ Files!Root \in AllPaths
    BY <1>1 DEF TablesTypeOK, AllPaths
  <2>2. fd_table' \in [Fds -> Entries]
    BY <1>1, <1>2, <2>1 DEF TablesTypeOK
  <2>3. fs_server_fd_map' \in [Fds -> ServerFds \cup {NoServerFd}]
    BY <1>1, <1>2, <1>4 DEF TablesTypeOK
  <2>4. fd_path' \in [Fds -> AllPaths]
    BY <1>1, <1>2, <2>1 DEF TablesTypeOK
  <2> QED
    BY <2>2, <2>3, <2>4
<1>7. /\ fd_table'[new] = fd_table[old] /\ fs_server_fd_map'[new] = m
      /\ \A g \in Fds \ {new} : /\ fd_table'[g] = fd_table[g]
                                /\ fs_server_fd_map'[g] = fs_server_fd_map[g]
                                /\ fd_path'[g] = fd_path[g]
  BY <1>1, <1>2 DEF TablesTypeOK
<1>8. Files!Opened' = Files!Opened \cup {new} /\ Files!Opened \subseteq Fds
  BY <1>2, <1>3, <1>7, IdleAfter DEF Files!Active
<1>9. Files!FreeFdIsClean' /\ OpenedNamed'
  BY <1>1, <1>4, <1>7, <1>8 DEF NamesExact, Files!FreeFdIsClean, OpenedNamed
<1>10. Files!DescriptorKeepsItsFile'
  <2> SUFFICES ASSUME NEW g \in Files!Opened', fs_server_fd_map'[g] \notin shared'
               PROVE  /\ server'[fs_server_fd_map'[g]]
                           = [open |-> TRUE, path |-> fd_path'[g], dir |-> fd_table'[g].dir]
                      /\ \A h \in Files!Opened' \ {g} : fs_server_fd_map'[h] # fs_server_fd_map'[g]
    BY DEF Files!DescriptorKeepsItsFile, Files!ServerFile
  <2>0. g # new
    BY <1>2, <1>7
  <2>1. g \in Files!Opened /\ g \in Fds \ {new} /\ fs_server_fd_map'[g] = fs_server_fd_map[g]
        /\ fs_server_fd_map[g] \notin shared /\ fs_server_fd_map[g] # m
    BY <1>2, <1>7, <1>8, <2>0
  <2>2. /\ server[fs_server_fd_map[g]]
              = [open |-> TRUE, path |-> fd_path[g], dir |-> fd_table[g].dir]
        /\ \A h \in Files!Opened \ {g} : fs_server_fd_map[h] # fs_server_fd_map[g]
        /\ fs_server_fd_map[g] \in ServerFds
    BY <2>1, <1>1 DEF NamesExact, OpenedNamed, Files!DescriptorKeepsItsFile, Files!ServerFile
  <2>3. new \in Files!Active => fs_server_fd_map[g] # fs_server_fd_map[new]
    BY <2>1, <2>2, <1>3
  <2>4. \A h \in Files!Opened' \ {g} : fs_server_fd_map'[h] # fs_server_fd_map'[g]
    BY <2>1, <2>2, <1>7, <1>8
  <2> QED
    BY ZenonT(60), <2>1, <2>2, <2>3, <2>4, <1>5, <1>7
<1>11. TablesTypeOK'
  BY <1>1, <1>2, <1>4, <1>5, <1>6 DEF TablesTypeOK
<1>12. BuffersExact'
  BY <1>2, <1>3, IdleAfter DEF BuffersExact
<1> QED
  BY <1>2, <1>9, <1>10, <1>11, <1>12, IdleAfter DEF FilesIInv

\* mkdirat and unlinkat change nothing but the tree.
LEMMA TreeOnlyInv ==
  ASSUME FilesIInv, Files!Starts, Files!Returns, NEW path \in AllPaths, NEW n \in Nodes,
         tree' = [tree EXCEPT ![path] = n],
         UNCHANGED <<fd_table, fs_server_fd_map, fd_path, free_buffers, server, shared>>
  PROVE  FilesIInv'
<1>1. TablesTypeOK /\ NamesExact
  BY FilesParts
<1>2. /\ fd_table' = fd_table /\ fs_server_fd_map' = fs_server_fd_map /\ fd_path' = fd_path
      /\ free_buffers' = free_buffers /\ server' = server /\ shared' = shared
      /\ call' = Files!Idle
  BY DEF Files!Returns
<1>3. Held = 0 /\ free_buffers = Buffers /\ Buffers \in Nat /\ Files!Opened = Files!Active
  BY IdleBefore, FilesAssumption DEF Files!FileFdsAssumption
<1>4. Files!Opened' = Files!Opened
  BY <1>2, <1>3, IdleAfter DEF Files!Active
<1>5. NamesExact'
  BY <1>1, <1>2, <1>4, NamesKept
<1>6. TablesTypeOK'
  BY <1>1, <1>2 DEF TablesTypeOK
<1>7. BuffersExact'
  BY <1>2, <1>3, IdleAfter DEF BuffersExact
<1> QED
  BY <1>2, <1>5, <1>6, <1>7, IdleAfter DEF FilesIInv, NamesExact

LEMMA MakeDirInv ==
  ASSUME FilesIInv, NEW path \in Paths, Files!MakeDir(path)
  PROVE  FilesIInv'
<1>1. path \in AllPaths /\ tree[path] \in Nodes /\ tree \in [AllPaths -> Nodes]
  BY FilesParts DEF TablesTypeOK, AllPaths
<1> DEFINE n == [tree[path] EXCEPT !.kind = "dir"]
<1>2. n \in Nodes
  BY <1>1 DEF Nodes
<1>3. tree' = [tree EXCEPT ![path] = n]
  BY <1>1 DEF Files!MakeDir
<1> HIDE DEF n
<1> QED
  BY <1>1, <1>2, <1>3, TreeOnlyInv DEF Files!MakeDir

LEMMA UnlinkInv ==
  ASSUME FilesIInv, NEW path \in Paths, NEW dir \in BOOLEAN, Files!Unlink(path, dir)
  PROVE  FilesIInv'
<1>1. path \in AllPaths /\ Files!Nothing \in Nodes
  BY DEF AllPaths, Nodes, Files!Nothing
<1> QED
  BY <1>1, TreeOnlyInv DEF Files!Unlink

LEMMA InitFilesIInv == ASSUME Files!Init PROVE FilesIInv
<1>1. /\ fd_table = [f \in Fds |-> Files!Closed]
      /\ fs_server_fd_map = [f \in Fds |-> NoServerFd]
      /\ fd_path = [f \in Fds |-> Files!Root]
      /\ free_buffers = Buffers /\ call = Files!Idle
      /\ server = [s \in ServerFds |-> Files!NotOpen]
      /\ tree = [p \in Paths \cup {Files!Root} |->
                   IF p = Files!Root THEN [Files!Nothing EXCEPT !.kind = "dir"] ELSE Files!Nothing]
      /\ shared = {}
  BY DEF Files!Init
<1>2. TablesTypeOK
  <2>1. /\ Files!Closed \in Entries /\ Files!Root \in AllPaths /\ Files!NotOpen \in ServerEntries
        /\ Files!Nothing \in Nodes
    BY DEF Files!Closed, Entries, AllPaths, Files!NotOpen, ServerEntries, Files!Nothing, Nodes
  <2>2. [Files!Nothing EXCEPT !.kind = "dir"] \in Nodes
    BY <2>1 DEF Nodes
  <2>3. tree \in [AllPaths -> Nodes]
    BY <1>1, <2>1, <2>2 DEF AllPaths
  <2> QED
    BY <1>1, <2>1, <2>3 DEF TablesTypeOK
<1>3. Files!Opened = {}
  <2>1. \A f \in Fds : ~fd_table[f].active
    BY <1>1 DEF Files!Closed
  <2> QED
    BY <2>1 DEF Files!Opened, Files!Active
<1>4. Files!FreeFdIsClean /\ Files!DescriptorKeepsItsFile /\ OpenedNamed
  BY <1>1, <1>3 DEF Files!FreeFdIsClean, Files!DescriptorKeepsItsFile, OpenedNamed
<1>5. CallTypeOK /\ OpenUnderWay /\ MoveUnderWay /\ Files!TransferExact /\ BuffersExact
  BY <1>1, IdleCall, FilesAssumption
     DEF CallTypeOK, OpenUnderWay, MoveUnderWay, Files!TransferExact, BuffersExact, Held, Files!FileFdsAssumption
<1> QED
  BY <1>2, <1>4, <1>5 DEF FilesIInv

LEMMA CommandInv == ASSUME FilesIInv, Files!Command PROVE FilesIInv'
<1>1. ASSUME NEW b \in BOOLEAN, Files!OpenExcl(b) \/ Files!OpenIsDir(b) \/ Files!OpenTruncates(b)
      PROVE  FilesIInv'
  BY <1>1, OpenExclInv, OpenIsDirInv, OpenTruncatesInv
<1>2. CASE Files!OpenFails \/ Files!TransferFails \/ Files!TransferReturns
  BY <1>2, OpenFailsInv, TransferFailsInv, TransferReturnsInv
<1>3. ASSUME NEW s \in ServerFds, Files!OpenSucceeds(s) PROVE FilesIInv'
  BY <1>3, OpenSucceedsInv
<1>4. ASSUME NEW k \in 0 .. Chunk, Files!ReadChunk(k) \/ Files!WriteChunk(k) PROVE FilesIInv'
  BY <1>4, ReadChunkInv, WriteChunkInv
<1> QED
  BY <1>1, <1>2, <1>3, <1>4 DEF Files!Command

LEMMA SyscallInv == ASSUME FilesIInv, Files!Syscall PROVE FilesIInv'
<1>1. ASSUME NEW path \in Paths \cup {Files!Root}, NEW flags \in Files!OpenFlags, Files!Open(path, flags)
      PROVE  FilesIInv'
  BY <1>1, OpenInv DEF AllPaths
<1>2. ASSUME NEW f \in Fds, NEW n \in Lengths, Files!Transfer("read", f, n) \/ Files!Transfer("write", f, n)
      PROVE  FilesIInv'
  BY <1>2, TransferInv
<1>3. ASSUME NEW f \in Fds, NEW o \in Offsets, NEW w \in {"set", "cur", "end"}, Files!Seek(f, o, w)
      PROVE  FilesIInv'
  BY <1>3, SeekInv
<1>4. ASSUME NEW f \in Fds, NEW b \in BOOLEAN, Files!Close(f, b) PROVE FilesIInv'
  BY <1>4, CloseInv
<1>5. ASSUME NEW f \in Fds, NEW g \in Fds, NEW b \in BOOLEAN, Files!Dup3(f, g, b) PROVE FilesIInv'
  BY <1>5, Dup3Inv
<1>6. ASSUME NEW p \in Paths, NEW d \in BOOLEAN, Files!MakeDir(p) \/ Files!Unlink(p, d) PROVE FilesIInv'
  BY <1>6, MakeDirInv, UnlinkInv
<1> QED
  BY <1>1, <1>2, <1>3, <1>4, <1>5, <1>6 DEF Files!Syscall

LEMMA NextFilesIInv == ASSUME FilesIInv, [Files!Next]_fileVars PROVE FilesIInv'
<1>1. CASE Files!Next
  BY <1>1, CommandInv, SyscallInv DEF Files!Next
<1>2. CASE UNCHANGED fileVars
  <2>1. UNCHANGED <<fd_table, fs_server_fd_map, fd_path, free_buffers, call, server, tree, shared>>
    BY <1>2 DEF fileVars
  <2>2. TablesTypeOK' /\ CallTypeOK' /\ Files!FreeFdIsClean' /\ OpenedNamed' /\ BuffersExact'
    BY <2>1 DEF FilesIInv, TablesTypeOK, CallTypeOK, Files!FreeFdIsClean, OpenedNamed,
                BuffersExact, Held, Files!Opened, Files!Active
  <2>3. Files!DescriptorKeepsItsFile' /\ OpenUnderWay'
    BY <2>1 DEF FilesIInv, Files!DescriptorKeepsItsFile, OpenUnderWay, Files!ServerFile,
                Files!Opened, Files!Active
  <2>4. MoveUnderWay' /\ Files!TransferExact'
    BY <2>1 DEF FilesIInv, MoveUnderWay, Files!TransferExact, Files!Bytes, Files!ServerFile
  <2> QED
    BY <2>2, <2>3, <2>4 DEF FilesIInv
<1> QED
  BY <1>1, <1>2

LEMMA BuffersBack == ASSUME FilesIInv PROVE Files!BuffersComeBack
  BY IdleCall, FilesAssumption DEF FilesIInv, BuffersExact, Held, Files!BuffersComeBack, Files!FileFdsAssumption

-----------------------------------------------------------------------------
(* Files: what the server is left with.                                    *)

\* A step after which no more of the server's descriptors are open, and no fewer
\* are named, orphans none.
LEMMA NoNewOrphan ==
  ASSUME NEW s, \A f \in Files!Active : fs_server_fd_map[f] = s => \E g \in Files!Active' : fs_server_fd_map'[g] = s,
         server'[s].open => server[s].open,
         (call.op = "openat" /\ call.s = s) => (call'.op = "openat" /\ call'.s = s),
         Files!Orphan(s)'
  PROVE  Files!Orphan(s)
<1>1. server'[s].open /\ (\A g \in Files!Active' : fs_server_fd_map'[g] # s)
      /\ (call'.op = "openat" => call'.s # s)
  BY DEF Files!Orphan
<1> QED
  BY <1>1 DEF Files!Orphan

\* The same for a step that leaves the server alone and keeps the names.
LEMMA NamesStay ==
  ASSUME NEW s \in ServerFds, fs_server_fd_map' = fs_server_fd_map, server' = server,
         \A f \in Files!Active : f \in Files!Active' \/ fs_server_fd_map[f] = NoServerFd,
         call.op = "openat" => call.s = NoServerFd \/ (call'.op = "openat" /\ call'.s = call.s),
         Files!Orphan(s)'
  PROVE  Files!Orphan(s)
<1>1. s # NoServerFd
  BY FilesAssumption DEF Files!FileFdsAssumption
<1>2. ASSUME NEW f \in Files!Active, fs_server_fd_map[f] = s
      PROVE  \E g \in Files!Active' : fs_server_fd_map'[g] = s
  BY <1>1, <1>2
<1>3. (call.op = "openat" /\ call.s = s) => (call'.op = "openat" /\ call'.s = s)
  BY <1>1
<1> QED
  BY <1>2, <1>3, NoNewOrphan

\* The descriptor of an openat that is under way has no name yet.
LEMMA OpeningUnnamed ==
  ASSUME FilesIInv, call.op = "openat"
  PROVE  /\ call.fd \in Files!Active /\ call.fd \notin Files!Opened
         /\ fs_server_fd_map[call.fd] = NoServerFd
         /\ call.pc # "trunc" => call.s = NoServerFd
<1>1. call.fd \in Fds /\ fd_table[call.fd].active
  BY CallOps DEF FilesIInv, OpenCalls, OpenUnderWay
<1>2. call.fd \notin Files!Opened
  BY DEF Files!Opened
<1>3. fs_server_fd_map[call.fd] = NoServerFd
  BY <1>1, <1>2 DEF FilesIInv, Files!FreeFdIsClean
<1> QED
  BY <1>1, <1>2, <1>3 DEF FilesIInv, OpenUnderWay, Files!Active

\* Only a truncation or a close that fails leaves the server a descriptor that
\* nobody can close.
OrphanCaused ==
    \/ Files!OpenTruncates(TRUE)
    \/ \E f \in Fds : Files!Close(f, TRUE) \/ (\E g \in Fds : Files!Dup3(f, g, TRUE))

LEMMA OrphansByCommand ==
  ASSUME FilesIInv, Files!Command, NEW s \in ServerFds \ shared, Files!Orphan(s)'
  PROVE  Files!Orphan(s) \/ OrphanCaused
<1>0. s \in ServerFds /\ s # NoServerFd
  BY FilesAssumption DEF Files!FileFdsAssumption
<1>1. ASSUME call.op = "openat", call.pc # "trunc", Files!OpenGivesUp,
             fs_server_fd_map' = fs_server_fd_map, server' = server
      PROVE  Files!Orphan(s)
  <2>1. fs_server_fd_map[call.fd] = NoServerFd /\ call.s = NoServerFd
    BY <1>1, OpeningUnnamed
  <2>2. \A f \in Files!Active : f \in Files!Active' \/ fs_server_fd_map[f] = NoServerFd
    <3>1. fd_table' = [fd_table EXCEPT ![call.fd] = Files!Closed]
      BY <1>1 DEF Files!OpenGivesUp
    <3>2. \A f \in Files!Active : f = call.fd \/ f \in Files!Active'
      BY <3>1 DEF FilesIInv, TablesTypeOK, Files!Active
    <3> QED
      BY <2>1, <3>2
  <2> QED
    BY <1>0, <1>1, <2>1, <2>2, NamesStay
<1>2. ASSUME call.op = "openat", call.pc # "trunc",
             fd_table' = fd_table, fs_server_fd_map' = fs_server_fd_map, server' = server
      PROVE  Files!Orphan(s)
  <2>1. call.s = NoServerFd /\ \A f \in Files!Active : f \in Files!Active'
    BY <1>2, OpeningUnnamed DEF Files!Active
  <2> QED
    BY <1>0, <1>2, <2>1, NamesStay
<1>3. ASSUME NEW b \in BOOLEAN, Files!OpenExcl(b) PROVE Files!Orphan(s)
  BY <1>1, <1>2, <1>3 DEF Files!OpenExcl
<1>4. ASSUME NEW b \in BOOLEAN, Files!OpenIsDir(b) PROVE Files!Orphan(s)
  <2>1. /\ call.op = "openat" /\ call.pc = "isdir"
        /\ fs_server_fd_map' = fs_server_fd_map /\ server' = server
        /\ Files!OpenGivesUp \/ fd_table' = fd_table
    BY <1>4 DEF Files!OpenIsDir
  <2> QED
    BY <1>1, <1>2, <2>1
<1>5. CASE Files!OpenFails
  BY <1>1, <1>5 DEF Files!OpenFails
<1>6. ASSUME NEW b \in BOOLEAN, Files!OpenTruncates(b) PROVE Files!Orphan(s) \/ OrphanCaused
  <2>1. CASE b
    BY <1>6, <2>1 DEF OrphanCaused
  <2>2. CASE ~b
    <3>1. /\ Files!Install(call.s) /\ server' = server /\ call.op = "openat"
          /\ fd_table' = [fd_table EXCEPT ![call.fd] = [active |-> TRUE, dir |-> call.dir, ptr |-> 0]]
          /\ fs_server_fd_map' = [fs_server_fd_map EXCEPT ![call.fd] = call.s]
      BY <1>6, <2>2 DEF Files!OpenTruncates, Files!Install
    <3>2. call.fd \in Files!Active /\ fs_server_fd_map[call.fd] = NoServerFd
      BY <3>1, OpeningUnnamed
    <3>3. /\ fd_table \in [Fds -> Entries] /\ call.fd \in Fds
          /\ fs_server_fd_map \in [Fds -> ServerFds \cup {NoServerFd}]
      BY <3>2 DEF FilesIInv, TablesTypeOK, Files!Active
    <3>4. /\ call.fd \in Files!Active' /\ fs_server_fd_map'[call.fd] = call.s
          /\ \A f \in Files!Active : f # call.fd =>
                f \in Files!Active' /\ fs_server_fd_map'[f] = fs_server_fd_map[f]
      BY <3>1, <3>3 DEF Files!Active
    <3>5. call.s # s
      BY <3>4 DEF Files!Orphan
    <3>6. \A f \in Files!Active : fs_server_fd_map[f] = s => \E g \in Files!Active' : fs_server_fd_map'[g] = s
      BY <1>0, <3>2, <3>4
    <3> QED
      BY <3>1, <3>5, <3>6, NoNewOrphan
  <2> QED
    BY <2>1, <2>2
<1>7. ASSUME NEW t \in ServerFds, Files!OpenSucceeds(t) PROVE Files!Orphan(s)
  <2>1. /\ call.op = "openat" /\ call.pc = "open"
        /\ server' = [server EXCEPT ![t] = [open |-> TRUE, path |-> call.path, dir |-> call.dir]]
    BY <1>7 DEF Files!OpenSucceeds
  <2>2. call.fd \in Files!Active /\ fs_server_fd_map[call.fd] = NoServerFd /\ call.s = NoServerFd
    BY <2>1, OpeningUnnamed
  <2>3. /\ fd_table \in [Fds -> Entries] /\ call.fd \in Fds /\ call \in OpenCalls
        /\ fs_server_fd_map \in [Fds -> ServerFds \cup {NoServerFd}]
        /\ server \in [ServerFds -> ServerEntries]
    BY <2>1, <2>2, CallOps DEF FilesIInv, TablesTypeOK, Files!Active
  <2>4. CASE call.trunc /\ ~call.dir
    <3>1. /\ call' = [call EXCEPT !.pc = "trunc", !.s = t]
          /\ fd_table' = fd_table /\ fs_server_fd_map' = fs_server_fd_map
      BY <1>7, <2>4 DEF Files!OpenSucceeds
    <3>2. call'.op = "openat" /\ call'.s = t
      BY <2>1, <2>3, <3>1 DEF OpenCalls
    <3>3. t # s
      BY <3>2 DEF Files!Orphan
    <3>4. server'[s] = server[s]
      BY <2>1, <2>3, <3>3, <1>0
    <3>5. Files!Active' = Files!Active
      BY <3>1 DEF Files!Active
    <3> QED
      BY <1>0, <2>2, <3>1, <3>4, <3>5, NoNewOrphan
  <2>5. CASE ~(call.trunc /\ ~call.dir)
    <3>1. /\ fd_table' = [fd_table EXCEPT ![call.fd] = [active |-> TRUE, dir |-> call.dir, ptr |-> 0]]
          /\ fs_server_fd_map' = [fs_server_fd_map EXCEPT ![call.fd] = t]
      BY <1>7, <2>5 DEF Files!OpenSucceeds, Files!Install
    <3>2. /\ call.fd \in Files!Active' /\ fs_server_fd_map'[call.fd] = t
          /\ \A f \in Files!Active : f # call.fd =>
                f \in Files!Active' /\ fs_server_fd_map'[f] = fs_server_fd_map[f]
      BY <3>1, <2>3 DEF Files!Active
    <3>3. t # s
      BY <3>2 DEF Files!Orphan
    <3>4. server'[s] = server[s]
      BY <2>1, <2>3, <3>3, <1>0
    <3>5. \A f \in Files!Active : fs_server_fd_map[f] = s => \E g \in Files!Active' : fs_server_fd_map'[g] = s
      BY <1>0, <2>2, <3>2
    <3> QED
      BY <1>0, <2>2, <3>4, <3>5, NoNewOrphan
  <2> QED
    BY <2>4, <2>5
<1>8. ASSUME call.op # "openat", server' = server, fs_server_fd_map' = fs_server_fd_map,
             Files!Active' = Files!Active
      PROVE  Files!Orphan(s)
  BY <1>8, NoNewOrphan
<1>9. CASE Files!TransferReturns \/ Files!TransferFails
  <2>1. /\ call.op # "openat" /\ server' = server /\ fs_server_fd_map' = fs_server_fd_map
        /\ fd_table' = fd_table
    BY <1>9 DEF Files!TransferReturns, Files!TransferFails
  <2> QED
    BY <2>1, <1>8 DEF Files!Active
<1>10. ASSUME NEW k \in 0 .. Chunk, Files!ReadChunk(k) \/ Files!WriteChunk(k) PROVE Files!Orphan(s)
  <2>1. /\ call.op \in {"read", "write"} /\ server' = server /\ fs_server_fd_map' = fs_server_fd_map
        /\ \E data : Files!Moved(k, data)
    BY <1>10 DEF Files!ReadChunk, Files!WriteChunk
  <2>2. Files!Active' = Files!Active
    <3>1. fd_table \in [Fds -> Entries]
      BY DEF FilesIInv, TablesTypeOK
    <3>2. fd_table' = fd_table \/ \E d : fd_table' = [fd_table EXCEPT ![call.fd].ptr = @ + d]
      BY <2>1 DEF Files!Moved
    <3>3. \A f \in Fds : fd_table'[f].active = fd_table[f].active
      <4>1. CASE fd_table' = fd_table
        BY <4>1
      <4>2. ASSUME NEW d, fd_table' = [fd_table EXCEPT ![call.fd].ptr = @ + d]
            PROVE  \A f \in Fds : fd_table'[f].active = fd_table[f].active
        <5> DEFINE e == [fd_table[call.fd] EXCEPT !.ptr = @ + d]
        <5>1. call.fd \in Fds => e.active = fd_table[call.fd].active
          BY <3>1 DEF Entries
        <5>2. fd_table' = [fd_table EXCEPT ![call.fd] = e]
          BY <4>2
        <5> HIDE DEF e
        <5> QED
          BY <3>1, <5>1, <5>2
      <4> QED
        BY <3>2, <4>1, <4>2
    <3> QED
      BY <3>3 DEF Files!Active
  <2> QED
    BY <2>1, <2>2, <1>8
<1> QED
  BY <1>3, <1>4, <1>5, <1>6, <1>7, <1>9, <1>10 DEF Files!Command

\* What a close gives back to the server: the descriptor it names, unless dup3
\* has handed that one on.
LEMMA ClosedForGood ==
  ASSUME FilesIInv, NEW f \in Files!Opened, fs_server_fd_map[f] \notin shared
  PROVE  ~Files!ServerAfterClose(f)[fs_server_fd_map[f]].open
<1>1. f \in Fds /\ fs_server_fd_map[f] \in ServerFds
  BY DEF FilesIInv, OpenedNamed, Files!Opened, Files!Active
<1>2. server[fs_server_fd_map[f]] = [open |-> TRUE, path |-> fd_path[f], dir |-> fd_table[f].dir]
  BY DEF FilesIInv, Files!DescriptorKeepsItsFile, Files!ServerFile
<1>3. server[fs_server_fd_map[f]].dir = fd_table[f].dir
  BY <1>2
<1> QED
  BY <1>1, <1>3, ServerAfterCloseFacts DEF FilesIInv

LEMMA OrphansBySyscall ==
  ASSUME FilesIInv, Files!Syscall, NEW s \in ServerFds \ shared, Files!Orphan(s)'
  PROVE  Files!Orphan(s) \/ OrphanCaused
<1>0. /\ s \in ServerFds /\ s \notin shared /\ s # NoServerFd
      /\ server'[s].open /\ \A g \in Files!Active' : fs_server_fd_map'[g] # s
  BY FilesAssumption DEF Files!FileFdsAssumption, Files!Orphan
<1>1. /\ fd_table \in [Fds -> Entries]
      /\ fs_server_fd_map \in [Fds -> ServerFds \cup {NoServerFd}]
      /\ server \in [ServerFds -> ServerEntries] /\ TablesTypeOK
  BY DEF FilesIInv, TablesTypeOK
<1>2. ASSUME Files!Starts PROVE call.op # "openat" /\ Files!Opened = Files!Active
  BY <1>2, IdleCall, IdleBefore DEF Files!Starts
<1>3. ASSUME Files!Starts, server' = server, fs_server_fd_map' = fs_server_fd_map,
             \A f \in Fds : fd_table[f].active => fd_table'[f].active
      PROVE  Files!Orphan(s)
  <2>1. \A f \in Files!Active : f \in Files!Active'
    BY <1>3 DEF Files!Active
  <2> QED
    BY <1>0, <1>2, <1>3, <2>1, NamesStay
<1>4. ASSUME NEW path, NEW flags, Files!Open(path, flags) PROVE Files!Orphan(s)
  <2>1. /\ Files!Starts /\ server' = server /\ fs_server_fd_map' = fs_server_fd_map
        /\ \/ fd_table' = fd_table
           \/ fd_table' = [fd_table EXCEPT ![Files!FirstFree] = [Files!Closed EXCEPT !.active = TRUE]]
    BY <1>4 DEF Files!Open
  <2>2. [Files!Closed EXCEPT !.active = TRUE].active
    BY DEF Files!Closed
  <2>3. \A f \in Fds : fd_table[f].active => fd_table'[f].active
    BY <1>1, <2>1, <2>2
  <2> QED
    BY <1>3, <2>1, <2>3
<1>5. ASSUME NEW op, NEW f \in Fds, NEW n, Files!Transfer(op, f, n) PROVE Files!Orphan(s)
  BY <1>3, <1>5 DEF Files!Transfer
<1>6. ASSUME NEW f \in Fds, NEW o, NEW w \in {"set", "cur", "end"}, Files!Seek(f, o, w) PROVE Files!Orphan(s)
  <2>1. \E new : Files!SeekTo(f, new)
    BY <1>6 DEF Files!Seek
  <2>2. /\ Files!Starts /\ server' = server /\ fs_server_fd_map' = fs_server_fd_map
        /\ \E new : fd_table' = [fd_table EXCEPT ![f].ptr = new]
    BY <2>1 DEF Files!SeekTo
  <2>3. \A g \in Fds : fd_table'[g].active = fd_table[g].active
    BY <1>1, <2>2 DEF Entries
  <2> QED
    BY <1>3, <2>2, <2>3
<1>7. ASSUME NEW f \in Fds, NEW b \in BOOLEAN, Files!Close(f, b) PROVE Files!Orphan(s) \/ OrphanCaused
  <2>1. CASE b
    BY <1>7, <2>1 DEF OrphanCaused
  <2>2. CASE ~b
    <3>1. /\ Files!Starts /\ f \in Files!Active
          /\ server' = Files!ServerAfterClose(f)
          /\ fd_table' = [fd_table EXCEPT ![f] = Files!Closed]
          /\ fs_server_fd_map' = [fs_server_fd_map EXCEPT ![f] = NoServerFd]
      BY <1>7, <2>2 DEF Files!Close
    <3>2. fs_server_fd_map[f] # s
      BY <1>0, <1>2, <3>1, ClosedForGood
    <3>3. server'[s] = server[s]
      BY <1>0, <1>1, <3>1, <3>2, ServerAfterCloseFacts
    <3>4. \A g \in Files!Active : g # f => g \in Files!Active' /\ fs_server_fd_map'[g] = fs_server_fd_map[g]
      BY <1>1, <3>1 DEF Files!Active
    <3>5. \A g \in Files!Active : fs_server_fd_map[g] = s => \E h \in Files!Active' : fs_server_fd_map'[h] = s
      BY <3>2, <3>4
    <3> QED
      BY <1>2, <3>1, <3>3, <3>5, NoNewOrphan
  <2> QED
    BY <2>1, <2>2
<1>8. ASSUME NEW old \in Fds, NEW new \in Fds, NEW b \in BOOLEAN, Files!Dup3(old, new, b), ~OrphanCaused
      PROVE  Files!Orphan(s)
  <2>0. ~b
    BY <1>8 DEF OrphanCaused
  <2>1. /\ Files!Starts /\ old \in Files!Active /\ new # old
        /\ server' = IF new \in Files!Active THEN Files!ServerAfterClose(new) ELSE server
        /\ fd_table' = [fd_table EXCEPT ![new] = fd_table[old]]
        /\ fs_server_fd_map' = [fs_server_fd_map EXCEPT ![new] = fs_server_fd_map[old]]
    BY <1>8, <2>0 DEF Files!Dup3
  <2>2. new \in Files!Active => fs_server_fd_map[new] # s
    BY <1>0, <1>2, <2>1, ClosedForGood
  <2>3. server'[s] = server[s]
    BY <1>0, <1>1, <2>1, <2>2, ServerAfterCloseFacts
  <2>4. \A g \in Files!Active : g # new => g \in Files!Active' /\ fs_server_fd_map'[g] = fs_server_fd_map[g]
    BY <1>1, <2>1 DEF Files!Active
  <2>5. \A g \in Files!Active : fs_server_fd_map[g] = s => \E h \in Files!Active' : fs_server_fd_map'[h] = s
    BY <2>2, <2>4
  <2> QED
    BY <1>2, <2>1, <2>3, <2>5, NoNewOrphan
<1>9. ASSUME NEW p \in Paths, NEW d \in BOOLEAN, Files!MakeDir(p) \/ Files!Unlink(p, d) PROVE Files!Orphan(s)
  BY <1>3, <1>9 DEF Files!MakeDir, Files!Unlink
<1> QED
  BY <1>4, <1>5, <1>6, <1>7, <1>8, <1>9 DEF Files!Syscall

LEMMA OrphanStep == ASSUME FilesIInv, [Files!Next]_fileVars PROVE Files!OrphansComeFromFailure
<1>1. CASE Files!Next
  BY <1>1, OrphansByCommand, OrphansBySyscall DEF Files!Next, Files!OrphansComeFromFailure, OrphanCaused
<1>2. CASE UNCHANGED fileVars
  BY <1>2 DEF fileVars, Files!OrphansComeFromFailure, Files!Orphan, Files!Active
<1> QED
  BY <1>1, <1>2
-----------------------------------------------------------------------------
(* Sockets: the inductive invariant.                                       *)

States == {"unallocated", "allocated", "bound", "listening", "connecting", "connected",
           "closing", "error", "closed_by_peer"}
Rings == [head : 0 .. BufSize - 1, len : 0 .. BufSize, buf : [0 .. BufSize - 1 -> Nat], got : Nat, lost : Nat]
Callers == [op : {"idle", "connect", "accept", "send", "recv"}, s : Sockets \cup {NoSocket},
            woken : BOOLEAN]
Conns == [st : {"free", "closed", "listen", "synsent", "open", "finwait", "lastack"},
          arg : Sockets \cup {NoSocket}, cbs : {"none", "err", "all"}, next : Nat \ {0},
          lost : Nat, unacked : BOOLEAN]

TcpTypeOK ==
    /\ state \in [Sockets -> States]
    /\ sock_tpcb \in [Sockets -> Pcbs \cup {NoPcb}]
    /\ rx \in [Sockets -> Rings]
    /\ accept_queue \in [Sockets -> Seq(Pcbs)]
    /\ conn \in [Pcbs -> Conns]

CallerExact ==
    /\ caller \in Callers
    /\ caller.op # "idle" => caller.s \in Sockets
    /\ ConnectAndAcceptWake

\* The socket a pcb names is in this state and has this pcb.
Of(p, st) ==
    conn[p].arg \in Sockets /\ state[conn[p].arg] = st /\ sock_tpcb[conn[p].arg] = p

\* Nothing has come on a connection.
NoneYet(c) == c.next = 1 /\ c.lost = 0

\* All that has come was lost before the accept, is read, or waits in the ring.
Whole(r, c) == r.lost = c.lost /\ r.lost + r.got + r.len = c.next - 1

\* What lwIP's view of a pcb says of the socket it names.
PcbExact(p) ==
    LET c == conn[p] IN
    /\ c.st = "free" => c = FreePcb
    /\ c.st = "closed" => c.cbs = "err" /\ NoneYet(c)
    /\ c.st = "listen" => c.cbs = "none" /\ Of(p, "listening")
    /\ c.st = "synsent" => c.cbs = "err" /\ NoneYet(c) /\ Of(p, "connecting")
    /\ c.st = "open" => /\ c.cbs = "all" => Of(p, "connected")
                        /\ c.cbs # "all" => c.cbs = "none" /\ c.next = c.lost + 1
    /\ c.st = "finwait" => c.cbs = "all" /\ Of(p, "closing")
    /\ c.st = "lastack" => c.arg = NoSocket

\* A ring nothing has been put into yet.
Fresh(s) == rx[s].head = 0 /\ rx[s].len = 0 /\ rx[s].got = 0 /\ rx[s].lost = 0

\* What the state of a socket says of its pcb and its ring.
SocketExact(s) ==
    LET p == sock_tpcb[s]
        c == conn[sock_tpcb[s]]
    IN  /\ state[s] \in {"unallocated", "allocated", "bound", "connecting", "listening"} => Fresh(s)
        /\ state[s] = "unallocated" => p = NoPcb
        /\ state[s] \in {"allocated", "bound"} /\ p # NoPcb => c.st = "closed" /\ c.arg = s
        /\ state[s] = "connecting" => p # NoPcb /\ c.st \in {"closed", "synsent"} /\ c.arg = s
        /\ state[s] = "listening" => p # NoPcb /\ c.st = "listen" /\ c.arg = s
        /\ state[s] = "connected" =>
            /\ p # NoPcb
            /\ \/ c = FreePcb
               \/ c.st = "open" /\ c.cbs = "all" /\ c.arg = s /\ Whole(rx[s], c)

\* The pcbs that wait to be accepted: in one place of one queue each, in no
\* socket, and without callbacks.
QueuesExact ==
    \A s \in Sockets : \A i \in DOMAIN accept_queue[s] :
        LET q == accept_queue[s][i] IN
        /\ conn[q] = FreePcb \/ (conn[q].st = "open" /\ conn[q].cbs = "none")
        /\ \A t \in Sockets : sock_tpcb[t] # q
        /\ \A t \in Sockets : \A j \in DOMAIN accept_queue[t] :
             accept_queue[t][j] = q => t = s /\ j = i

\* Where the i-th byte behind the head is, and what the ring holds there.
Cell(h, i) == IF h + i < BufSize THEN h + i ELSE h + i - BufSize

RingExact(r) ==
    \A i \in Nat : i < BufSize =>
        r.buf[Cell(r.head, i)] = IF i < r.len THEN r.lost + r.got + 1 + i ELSE 0

TcpIInv ==
    /\ TcpTypeOK
    /\ \A p \in Pcbs : PcbExact(p)
    /\ \A s \in Sockets : SocketExact(s) /\ RingExact(rx[s])
    /\ QueuesExact
    /\ CallerExact

\* The descriptors of a socket.
Names(s) == {f \in Fds : fd_socket[f] = s}

FdsTypeOK ==
    /\ socket_refcount \in [Sockets -> Int]
    /\ fd_socket \in [Fds -> Sockets \cup {NoSocket}]

\* A socket with a descriptor has a pcb and is neither free nor being closed.
NamedAlive ==
    \A s \in Sockets : Names(s) # {} =>
        sock_tpcb[s] # NoPcb /\ state[s] # "unallocated" /\ state[s] # "closing"

CountsExact ==
    \A s \in Sockets :
        \/ socket_refcount[s] = Cardinality(Names(s))
        \/ socket_refcount[s] = -1 /\ Names(s) = {} /\ state[s] = "allocated"

FdsIInv == FdsTypeOK /\ NamedAlive /\ CountsExact

SocketsIInv == TcpIInv /\ FdsIInv

\* The program has been stopped by the assertion of socket_sent_callback: the
\* tables are as they were, and nothing moves any more.
TablesIInv ==
    /\ TcpTypeOK
    /\ \A p \in Pcbs : PcbExact(p)
    /\ \A s \in Sockets : SocketExact(s) /\ RingExact(rx[s])
    /\ FdsIInv

Stopped ==
    /\ TablesIInv
    /\ caller = Aborted
    /\ \E p \in Pcbs : conn[p].st = "lastack" /\ conn[p].unacked

-----------------------------------------------------------------------------
(* Sockets: the receive ring.                                              *)

LEMMA BufSizePositive == BufSize \in Nat \ {0}
  BY TcpSocketsAssumption

LEMMA Wrapped ==
  ASSUME NEW p \in Nat \ {0}, NEW x \in 0 .. p + p - 1
  PROVE  x % p = IF x < p THEN x ELSE x - p
<1>1. CASE x < p
  BY <1>1, ModSmall
<1>2. CASE x >= p
  <2>1. x \in p .. p + p - 1
    BY <1>2
  <2>2. x % p = x - p
    BY <2>1, Z3
  <2> QED
    BY <1>2, <2>2
<1> QED
  BY <1>1, <1>2

LEMMA WrappedInRing ==
  \A x \in Nat : x < BufSize + BufSize => x % BufSize = IF x < BufSize THEN x ELSE x - BufSize
<1> SUFFICES ASSUME NEW x \in Nat, x < BufSize + BufSize
             PROVE  x % BufSize = IF x < BufSize THEN x ELSE x - BufSize
  OBVIOUS
<1>1. PICK p \in Nat \ {0} : p = BufSize
  BY BufSizePositive
<1>2. x \in 0 .. p + p - 1
  BY <1>1
<1>3. x % p = IF x < p THEN x ELSE x - p
  BY <1>2, Wrapped
<1> QED
  BY <1>1, <1>3

LEMMA RingBounds ==
  ASSUME NEW r \in Rings
  PROVE  /\ r.head \in Nat /\ r.head < BufSize /\ r.len \in Nat /\ r.len <= BufSize
         /\ r.got \in Nat /\ r.lost \in Nat /\ r.buf \in [0 .. BufSize - 1 -> Nat] /\ BufSize \in Nat
         /\ BufSize > 0
<1>1. r.head \in 0 .. BufSize - 1 /\ r.len \in 0 .. BufSize
      /\ r.got \in Nat /\ r.lost \in Nat /\ r.buf \in [0 .. BufSize - 1 -> Nat]
  BY DEF Rings
<1> QED
  BY <1>1, BufSizePositive

LEMMA CellIsIndex ==
  ASSUME NEW h \in Nat, h < BufSize, NEW i \in Nat, i < BufSize
  PROVE  /\ (h + i) % BufSize = Cell(h, i)
         /\ Cell(h, i) \in 0 .. BufSize - 1
         /\ Cell(h, i) \in Nat
<1>1. PICK x \in Nat : x = h + i
  OBVIOUS
<1>2. x < BufSize + BufSize
  BY <1>1, BufSizePositive
<1>3. x % BufSize = IF x < BufSize THEN x ELSE x - BufSize
  BY <1>2, WrappedInRing
<1> QED
  BY <1>1, <1>3, BufSizePositive DEF Cell

LEMMA StreamIsExact ==
  ASSUME rx \in [Sockets -> Rings]
  PROVE  StreamInOrder <=> \A s \in Sockets : RingExact(rx[s])
<1>1. ASSUME NEW s \in Sockets
      PROVE  \A i \in Nat : i < BufSize => (rx[s].head + i) % BufSize = Cell(rx[s].head, i)
  <2>1. rx[s].head \in Nat /\ rx[s].head < BufSize
    BY RingBounds
  <2> QED
    BY <2>1, CellIsIndex
<1>2. \A i : i \in 0 .. BufSize - 1 <=> i \in Nat /\ i < BufSize
  BY BufSizePositive
<1> QED
  BY <1>1, <1>2 DEF StreamInOrder, RingExact

\* Taking k bytes from the head moves the other bytes k places forward.
LEMMA CellBehindHead ==
  ASSUME NEW h \in Nat, h < BufSize, NEW k \in Nat, h + k <= BufSize,
         NEW g \in Nat, g = IF h + k < BufSize THEN h + k ELSE 0,
         NEW i \in Nat, i < BufSize
  PROVE  /\ k + i < BufSize => Cell(g, i) = Cell(h, k + i) /\ Cell(g, i) \notin h .. h + k - 1
         /\ k + i >= BufSize => Cell(g, i) \in h .. h + k - 1
  BY BufSizePositive DEF Cell

\* One run of bytes read: from the head on, not around the end.
LEMMA FetchExact ==
  ASSUME NEW r \in Rings, RingExact(r), NEW n \in Nat
  PROVE  /\ Fetch(r, n) \in Rings /\ RingExact(Fetch(r, n))
         /\ Fetch(r, n).got + Fetch(r, n).len = r.got + r.len /\ Fetch(r, n).lost = r.lost
         /\ Fetch(r, n).len <= r.len /\ r.len - Fetch(r, n).len <= n
         /\ r.len = 0 => Fetch(r, n).head = r.head /\ Fetch(r, n).len = 0 /\ Fetch(r, n).got = r.got
<1> DEFINE k == SmallerOf(n, SmallerOf(r.len, BufSize - r.head))
           buf == [i \in DOMAIN r.buf |-> IF i \in r.head .. r.head + k - 1 THEN 0 ELSE r.buf[i]]
           head == (r.head + k) % BufSize
           q == Fetch(r, n)
<1>1. /\ r.head \in Nat /\ r.head < BufSize /\ r.len \in Nat /\ r.len <= BufSize
      /\ r.got \in Nat /\ r.lost \in Nat /\ r.buf \in [0 .. BufSize - 1 -> Nat] /\ BufSize \in Nat /\ BufSize > 0
  BY RingBounds
<1>2. k \in Nat /\ k <= n /\ k <= r.len /\ r.head + k <= BufSize
  BY <1>1 DEF SmallerOf
<1>3. q = [r EXCEPT !.head = head, !.len = r.len - k, !.got = r.got + k, !.buf = buf]
  BY DEF Fetch, Rings
<1> HIDE DEF k, q
<1>4. head = IF r.head + k < BufSize THEN r.head + k ELSE 0
  <2>1. r.head + k \in Nat /\ r.head + k < BufSize + BufSize
    BY <1>1, <1>2
  <2>2. head = IF r.head + k < BufSize THEN r.head + k ELSE (r.head + k) - BufSize
    BY <2>1, WrappedInRing
  <2> QED
    BY <2>2, <1>1, <1>2
<1> HIDE DEF head
<1>5. head \in 0 .. BufSize - 1 /\ head \in Nat /\ head < BufSize
  BY <1>1, <1>2, <1>4
<1>6. /\ buf \in [0 .. BufSize - 1 -> Nat]
      /\ \A i \in 0 .. BufSize - 1 : buf[i] = IF i \in r.head .. r.head + k - 1 THEN 0 ELSE r.buf[i]
  BY <1>1
<1> HIDE DEF buf
<1>7. /\ q.head = head /\ q.len = r.len - k /\ q.got = r.got + k /\ q.buf = buf /\ q.lost = r.lost
      /\ q \in Rings
  <2>1. r.len - k \in 0 .. BufSize /\ r.got + k \in Nat
    BY <1>1, <1>2
  <2> QED
    BY <1>3, <1>5, <1>6, <2>1 DEF Rings
<1>8. RingExact(q)
  <2> SUFFICES ASSUME NEW i \in Nat, i < BufSize
               PROVE  buf[Cell(head, i)] = IF i < r.len - k THEN r.lost + (r.got + k) + 1 + i ELSE 0
    BY <1>7 DEF RingExact
  <2>1. Cell(head, i) \in 0 .. BufSize - 1
    BY <1>5, CellIsIndex
  <2>2. CASE k + i < BufSize
    <3>1. k + i \in Nat /\ Cell(r.head, k + i) = Cell(head, i)
          /\ Cell(head, i) \notin r.head .. r.head + k - 1
      <4>1. k + i \in Nat
        BY <1>2
      <4>2. PICK h \in Nat, g \in Nat : h = r.head /\ g = head
        BY <1>1, <1>5
      <4>3. h < BufSize /\ h + k <= BufSize /\ g = IF h + k < BufSize THEN h + k ELSE 0
        BY <4>2, <1>1, <1>2, <1>4
      <4>4. Cell(g, i) = Cell(h, k + i) /\ Cell(g, i) \notin h .. h + k - 1
        BY <1>2, <2>2, <4>3, CellBehindHead
      <4> QED
        BY <4>1, <4>2, <4>4
    <3>2. r.buf[Cell(head, i)] = IF k + i < r.len THEN r.lost + r.got + 1 + (k + i) ELSE 0
      BY <3>1, <2>2 DEF RingExact
    <3>3. buf[Cell(head, i)] = r.buf[Cell(head, i)]
      BY <1>6, <2>1, <3>1
    <3>4. (IF k + i < r.len THEN r.lost + r.got + 1 + (k + i) ELSE 0)
          = (IF i < r.len - k THEN r.lost + (r.got + k) + 1 + i ELSE 0)
      BY SMTT(30), <1>1, <1>2
    <3> QED
      BY <3>2, <3>3, <3>4
  <2>3. CASE k + i >= BufSize
    <3>1. Cell(head, i) \in r.head .. r.head + k - 1
      BY <1>1, <1>2, <1>4, <1>5, <2>3, CellBehindHead
    <3>2. ~(i < r.len - k)
      BY <1>1, <1>2, <2>3
    <3> QED
      BY <1>6, <2>1, <3>1, <3>2
  <2> QED
    BY <2>2, <2>3, <1>1, <1>2
<1>9. /\ q.got + q.len = r.got + r.len /\ q.len <= r.len /\ r.len - q.len <= n
      /\ r.len = 0 => q.head = r.head /\ q.len = 0 /\ q.got = r.got
  <2>1. q.got + q.len = r.got + r.len /\ q.len <= r.len /\ r.len - q.len <= n
    BY <1>1, <1>2, <1>7
  <2>2. ASSUME r.len = 0 PROVE k = 0 /\ head = r.head
    <3>1. k = 0
      BY <1>1, <1>2, <2>2
    <3> QED
      BY <1>1, <1>4, <3>1
  <2> QED
    BY <2>1, <2>2, <1>1, <1>7
<1> QED
  BY <1>7, <1>8, <1>9 DEF q

LEMMA FetchAllExact ==
  ASSUME NEW r \in Rings, RingExact(r), NEW n \in Nat
  PROVE  /\ FetchAll(r, n) \in Rings /\ RingExact(FetchAll(r, n))
         /\ FetchAll(r, n).got + FetchAll(r, n).len = r.got + r.len /\ FetchAll(r, n).lost = r.lost
         /\ r.len = 0 => /\ FetchAll(r, n).head = r.head /\ FetchAll(r, n).len = 0
                         /\ FetchAll(r, n).got = r.got
<1> DEFINE first == Fetch(r, n)
           m     == n - (r.len - first.len)
           q     == Fetch(first, m)
<1>1. /\ first \in Rings /\ RingExact(first)
      /\ first.got + first.len = r.got + r.len /\ first.lost = r.lost
      /\ first.len <= r.len /\ r.len - first.len <= n
      /\ r.len = 0 => first.head = r.head /\ first.len = 0 /\ first.got = r.got
  BY FetchExact
<1>2. q = FetchAll(r, n)
  BY DEF FetchAll
<1> HIDE DEF first
<1>3. m \in Nat
  <2>1. first.len \in Nat /\ r.len \in Nat
    BY <1>1, RingBounds
  <2> QED
    BY <1>1, <2>1
<1> HIDE DEF m
<1>4. /\ q \in Rings /\ RingExact(q)
      /\ q.got + q.len = first.got + first.len /\ q.lost = first.lost
      /\ first.len = 0 => q.head = first.head /\ q.len = 0 /\ q.got = first.got
  BY <1>1, <1>3, FetchExact
<1> HIDE DEF q
<1> QED
  BY <1>1, <1>2, <1>4

\* One run of bytes stored, from the tail on and not around the end: the next
\* bytes of the stream.
LEMMA StoreExact ==
  ASSUME NEW r \in Rings, RingExact(r), NEW n \in Nat, n + r.len <= BufSize,
         NEW b \in Nat, b = r.lost + r.got + r.len + 1
  PROVE  /\ Store(r, b, n) \in Rings /\ RingExact(Store(r, b, n))
         /\ Store(r, b, n).got = r.got /\ Store(r, b, n).head = r.head /\ Store(r, b, n).lost = r.lost
         /\ r.len <= Store(r, b, n).len /\ Store(r, b, n).len - r.len <= n
         /\ Store(r, b, n).len - r.len < n =>
              Cell(r.head, r.len) + (Store(r, b, n).len - r.len) = BufSize
<1> DEFINE tail == TailCell(r)
           k == RoomInOneRun(r, n)
           buf == [i \in DOMAIN r.buf |-> IF i \in tail .. tail + k - 1 THEN b + i - tail ELSE r.buf[i]]
           q == Store(r, b, n)
<1>1. /\ r.head \in Nat /\ r.head < BufSize /\ r.len \in Nat /\ r.len <= BufSize
      /\ r.got \in Nat /\ r.lost \in Nat /\ r.buf \in [0 .. BufSize - 1 -> Nat] /\ BufSize \in Nat /\ BufSize > 0
  BY RingBounds
<1>2. tail = IF r.head + r.len < BufSize THEN r.head + r.len ELSE r.head + r.len - BufSize
  <2>1. PICK x \in Nat : x = r.head + r.len
    BY <1>1
  <2>2. x < BufSize + BufSize
    BY SMTT(30), <1>1, <2>1
  <2>3. x % BufSize = IF x < BufSize THEN x ELSE x - BufSize
    BY <2>2, WrappedInRing
  <2>4. tail = x % BufSize
    BY <2>1 DEF TailCell
  <2> HIDE DEF tail
  <2> QED
    BY SMTT(30), <1>1, <2>1, <2>3, <2>4
<1>3. k = SmallerOf(n, BufSize - LargerOf(r.len, tail))
  BY DEF RoomInOneRun
<1>4. q = [r EXCEPT !.len = r.len + k, !.buf = buf]
  BY DEF Store, Rings
<1> HIDE DEF tail, k, q
<1>5. tail \in Nat /\ tail < BufSize
  BY SMTT(30), <1>1, <1>2
<1>6. /\ k \in Nat /\ k <= n /\ r.len + k <= BufSize /\ tail + k <= BufSize
      /\ k < n => tail + k = BufSize
  <2>1. CASE r.head + r.len < BufSize
    <3>1. LargerOf(r.len, tail) = tail
      BY <1>1, <1>2, <2>1 DEF LargerOf
    <3>2. k = IF n < BufSize - tail THEN n ELSE BufSize - tail
      BY <1>3, <3>1 DEF SmallerOf
    <3> QED
      BY <1>1, <1>5, <3>2
  <2>2. CASE r.head + r.len >= BufSize
    <3>1. LargerOf(r.len, tail) = r.len
      BY SMTT(30), <1>1, <1>2, <2>2 DEF LargerOf
    <3>2. k = IF n < BufSize - r.len THEN n ELSE BufSize - r.len
      BY <1>3, <3>1 DEF SmallerOf
    <3>3. k = n
      BY <1>1, <3>2
    <3>4. tail <= r.len
      BY SMTT(30), <1>1, <1>2, <2>2
    <3> QED
      BY <1>1, <1>5, <3>3, <3>4
  <2> QED
    BY <2>1, <2>2, <1>1
<1>7. /\ buf \in [0 .. BufSize - 1 -> Nat]
      /\ \A i \in 0 .. BufSize - 1 : buf[i] = IF i \in tail .. tail + k - 1 THEN b + i - tail ELSE r.buf[i]
  BY SMTT(30), <1>1, <1>5, <1>6
<1> HIDE DEF buf
<1>8. q \in Rings /\ q.head = r.head /\ q.len = r.len + k /\ q.got = r.got /\ q.lost = r.lost /\ q.buf = buf
  <2>1. r.len + k \in 0 .. BufSize
    BY <1>1, <1>6
  <2> QED
    BY <1>4, <1>7, <2>1 DEF Rings
<1>9. RingExact(q)
  <2> SUFFICES ASSUME NEW i \in Nat, i < BufSize
               PROVE  buf[Cell(r.head, i)] = IF i < r.len + k THEN r.lost + r.got + 1 + i ELSE 0
    BY <1>8 DEF RingExact
  <2>1. Cell(r.head, i) \in 0 .. BufSize - 1
    BY <1>1, CellIsIndex
  <2>2. r.buf[Cell(r.head, i)] = IF i < r.len THEN r.lost + r.got + 1 + i ELSE 0
    BY DEF RingExact
  <2>0. PICK g \in Nat : g = r.lost + r.got
    BY <1>1
  <2>5. PICK h \in Nat, l \in Nat, c \in Nat, t \in Nat, m \in Nat :
              h = r.head /\ l = r.len /\ c = Cell(r.head, i) /\ t = tail /\ m = k
    BY <1>1, <1>5, <1>6, CellIsIndex
  <2>6. /\ h < BufSize /\ l + m <= BufSize /\ t + m <= BufSize
        /\ t = IF h + l < BufSize THEN h + l ELSE h + l - BufSize
        /\ c = Cell(h, i) /\ b = g + l + 1
    BY <2>0, <2>5, <1>1, <1>2, <1>6
  <2>3. CASE l <= i /\ i < l + m
    <3>1. c \in t .. t + m - 1 /\ c - t = i - l
      BY <2>3, <2>6, BufSizePositive DEF Cell
    <3>2. buf[c] = b + c - t
      BY <1>7, <2>1, <2>5, <3>1
    <3>3. b + c - t = g + 1 + i
      BY <2>6, <3>1
    <3> QED
      BY <2>0, <2>3, <2>5, <3>2, <3>3
  <2>4. CASE i < l \/ l + m <= i
    <3>1. c \notin t .. t + m - 1
      BY <2>4, <2>6, BufSizePositive DEF Cell
    <3>2. buf[c] = r.buf[c]
      BY <1>7, <2>1, <2>5, <3>1
    <3>3. i < l <=> i < l + m
      BY <2>4
    <3> QED
      BY <2>0, <2>2, <2>5, <3>2, <3>3
  <2> QED
    BY <2>3, <2>4
<1>10. /\ r.len <= q.len /\ q.len - r.len <= n
       /\ q.len - r.len < n => Cell(r.head, r.len) + (q.len - r.len) = BufSize
  <2>1. tail = Cell(r.head, r.len)
    BY <1>2 DEF Cell
  <2>2. q.len - r.len = k
    BY <1>1, <1>6, <1>8
  <2>3. q.len = r.len + k /\ r.len \in Nat
    BY <1>1, <1>8
  <2> QED
    BY <1>1, <1>6, <2>1, <2>2, <2>3
<1> QED
  BY <1>8, <1>9, <1>10 DEF q

\* What fits is stored whole: the free part of the ring is at most two runs.
LEMMA StoreAllExact ==
  ASSUME NEW r \in Rings, RingExact(r), NEW n \in Nat, n + r.len <= BufSize,
         NEW b \in Nat, b = r.lost + r.got + r.len + 1
  PROVE  /\ StoreAll(r, b, n) \in Rings /\ RingExact(StoreAll(r, b, n))
         /\ StoreAll(r, b, n).got = r.got /\ StoreAll(r, b, n).len = r.len + n
         /\ StoreAll(r, b, n).head = r.head /\ StoreAll(r, b, n).lost = r.lost
<1> DEFINE first == Store(r, b, n)
           k     == first.len - r.len
           q     == Store(first, b + k, n - k)
<1>1. /\ first \in Rings /\ RingExact(first) /\ first.got = r.got /\ first.head = r.head
      /\ first.lost = r.lost
      /\ r.len <= first.len /\ k <= n
      /\ k < n => Cell(r.head, r.len) + k = BufSize
  BY StoreExact
<1>2. q = StoreAll(r, b, n)
  BY DEF StoreAll
<1> HIDE DEF first
<1>3. /\ r.len \in Nat /\ r.len <= BufSize /\ first.len \in Nat /\ first.len <= BufSize
      /\ r.got \in Nat /\ r.lost \in Nat /\ r.head \in Nat /\ r.head < BufSize /\ BufSize \in Nat /\ BufSize > 0
  BY <1>1, RingBounds
<1>4. first.len = r.len + k /\ k \in Nat
  BY <1>1, <1>3
<1> HIDE DEF k
<1>5. /\ n - k \in Nat /\ (n - k) + first.len <= BufSize
      /\ b + k \in Nat /\ b + k = first.lost + first.got + first.len + 1
  BY <1>1, <1>3, <1>4
<1>6. /\ q \in Rings /\ RingExact(q) /\ q.got = first.got /\ q.head = first.head /\ q.lost = first.lost
      /\ first.len <= q.len /\ q.len - first.len <= n - k
      /\ q.len - first.len < n - k => Cell(first.head, first.len) + (q.len - first.len) = BufSize
  BY <1>1, <1>5, StoreExact
<1> HIDE DEF q
<1>7. q.len \in Nat /\ q.len <= BufSize
  BY <1>6, RingBounds
<1>8. q.len = r.len + n
  <2>1. ASSUME q.len - first.len < n - k PROVE FALSE
    <3>1. k < n
      BY <1>3, <1>4, <1>6, <1>7, <2>1
    <3>2. Cell(r.head, r.len) + k = BufSize /\ Cell(r.head, first.len) + (q.len - first.len) = BufSize
      BY <1>1, <1>6, <2>1, <3>1
    <3>3. /\ Cell(r.head, r.len) = IF r.head + r.len < BufSize THEN r.head + r.len
                                   ELSE r.head + r.len - BufSize
          /\ Cell(r.head, first.len) = IF r.head + first.len < BufSize THEN r.head + first.len
                                       ELSE r.head + first.len - BufSize
      BY DEF Cell
    <3> QED
      BY <1>3, <1>4, <1>7, <2>1, <3>1, <3>2, <3>3
  <2> QED
    BY <1>3, <1>4, <1>5, <1>6, <1>7, <2>1
<1> QED
  BY <1>1, <1>2, <1>6, <1>8

-----------------------------------------------------------------------------
(* Sockets: what one slot, one pcb and the caller may do.                  *)

LEMMA NoSocketIsNone == NoSocket \notin Sockets /\ FreePcb.arg = NoSocket /\ FreePcb.st = "free"
                        /\ FreePcb.cbs = "none" /\ NoneYet(FreePcb)
  BY TcpSocketsAssumption DEF NoSocket, Sockets, FreePcb, NoneYet

LEMMA FreePcbTyped == FreePcb \in Conns
  BY DEF FreePcb, Conns, NoSocket

LEMMA RingTyped == EmptyRing \in Rings /\ RingExact(EmptyRing) /\ EmptyRing.head = 0 /\ EmptyRing.len = 0
                   /\ EmptyRing.got = 0 /\ EmptyRing.lost = 0
<1>1. EmptyRing.head = 0 /\ EmptyRing.len = 0 /\ EmptyRing.got = 0 /\ EmptyRing.lost = 0
      /\ EmptyRing.buf = [i \in 0 .. BufSize - 1 |-> 0]
  BY DEF EmptyRing
<1>2. EmptyRing \in Rings
  BY BufSizePositive DEF EmptyRing, Rings
<1>3. ASSUME NEW i \in Nat, i < BufSize PROVE EmptyRing.buf[Cell(0, i)] = 0 /\ ~(i < 0)
  <2>1. PICK c \in 0 .. BufSize - 1 : c = Cell(0, i)
    BY <1>3, BufSizePositive, CellIsIndex
  <2>2. EmptyRing.buf[c] = 0
    BY <1>1
  <2> QED
    BY <2>1, <2>2
<1> QED
  BY <1>1, <1>2, <1>3 DEF RingExact

\* The thread sleeps on: nothing it waits for has changed.
LEMMA CallerStays ==
  ASSUME CallerExact, UNCHANGED caller,
         \A t \in Sockets : state[t] = "connecting" => state'[t] = "connecting" \/ caller.op # "connect"
                                                        \/ caller.s # t,
         \A t \in Sockets : accept_queue[t] = <<>> => accept_queue'[t] = <<>>
  PROVE  CallerExact'
  BY DEF CallerExact, ConnectAndAcceptWake

\* The thread is woken by a change of what it waits for.
LEMMA WakeExact ==
  ASSUME CallerExact, NEW op \in {"connect", "accept", "send", "recv"}, NEW s \in Sockets, Wake(op, s),
         \A t \in Sockets : (t # s \/ op # "connect") /\ state[t] = "connecting" => state'[t] = "connecting",
         \A t \in Sockets : (t # s \/ op # "accept") /\ accept_queue[t] = <<>> => accept_queue'[t] = <<>>
  PROVE  CallerExact'
<1>1. CASE Waits(op, s)
  <2>1. caller' = [caller EXCEPT !.woken = TRUE]
    BY <1>1 DEF Wake
  <2>2. caller' \in Callers /\ caller'.op = caller.op /\ caller'.s = caller.s /\ caller'.woken
    BY <2>1 DEF CallerExact, Callers
  <2> QED
    BY <2>2 DEF CallerExact, ConnectAndAcceptWake
<1>2. CASE ~Waits(op, s)
  <2>1. caller' = caller
    BY <1>2 DEF Wake
  <2>2. ~caller.woken => caller.op # op \/ caller.s # s
    BY <1>2 DEF Waits
  <2> QED
    BY <2>1, <2>2 DEF CallerExact, ConnectAndAcceptWake
<1> QED
  BY <1>1, <1>2

\* One slot of the table, and the pcb that it has and that names it.
LEMMA SlotInv ==
  ASSUME TcpIInv, NEW s \in Sockets, NEW st \in States, NEW r \in Rings, NEW p \in Pcbs \cup {NoPcb},
         state' = [state EXCEPT ![s] = st], rx' = [rx EXCEPT ![s] = r],
         sock_tpcb' = [sock_tpcb EXCEPT ![s] = p], UNCHANGED accept_queue,
         p \in {sock_tpcb[s], NoPcb}, conn' \in [Pcbs -> Conns],
         \A q \in Pcbs : conn'[q] = conn[q] \/ (conn[q].arg = s /\ sock_tpcb[s] = q),
         \A q \in Pcbs : conn[q].arg = s /\ sock_tpcb[s] = q => PcbExact(q)',
         SocketExact(s)', RingExact(r), CallerExact'
  PROVE  TcpIInv'
<1>1. /\ TcpTypeOK /\ QueuesExact
      /\ \A q \in Pcbs : PcbExact(q)
      /\ \A t \in Sockets : SocketExact(t) /\ RingExact(rx[t])
  BY DEF TcpIInv
<1>2. /\ state'[s] = st /\ \A t \in Sockets : t # s => state'[t] = state[t]
      /\ rx'[s] = r /\ \A t \in Sockets : t # s => rx'[t] = rx[t]
      /\ sock_tpcb'[s] = p /\ \A t \in Sockets : t # s => sock_tpcb'[t] = sock_tpcb[t]
  BY <1>1 DEF TcpTypeOK
<1>3. TcpTypeOK'
  <2>1. state' \in [Sockets -> States]
    BY <1>1 DEF TcpTypeOK
  <2>2. rx' \in [Sockets -> Rings]
    BY <1>1 DEF TcpTypeOK
  <2>3. sock_tpcb' \in [Sockets -> Pcbs \cup {NoPcb}]
    BY <1>1 DEF TcpTypeOK
  <2> QED
    BY <1>1, <2>1, <2>2, <2>3 DEF TcpTypeOK
<1>4. ASSUME NEW q \in Pcbs PROVE PcbExact(q)'
  <2>1. CASE conn[q].arg = s /\ sock_tpcb[s] = q
    BY <2>1
  <2>2. CASE ~(conn[q].arg = s /\ sock_tpcb[s] = q)
    <3>1. conn'[q] = conn[q]
      BY <2>2
    <3>2. ASSUME NEW x, Of(q, x) PROVE Of(q, x)'
      BY <3>1, <3>2, <2>2, <1>2 DEF Of
    <3> QED
      BY <1>1, <3>1, <3>2 DEF PcbExact
  <2> QED
    BY <2>1, <2>2
<1>5. ASSUME NEW t \in Sockets, t # s PROVE SocketExact(t)'
  <2>1. state'[t] = state[t] /\ rx'[t] = rx[t] /\ sock_tpcb'[t] = sock_tpcb[t]
    BY <1>2, <1>5
  <2>2. SocketExact(t) /\ sock_tpcb[t] \in Pcbs \cup {NoPcb}
    BY <1>1 DEF TcpTypeOK
  <2>3. CASE sock_tpcb[t] = NoPcb
    BY <2>1, <2>2, <2>3 DEF SocketExact, Fresh
  <2>4. CASE sock_tpcb[t] \in Pcbs /\ conn'[sock_tpcb[t]] = conn[sock_tpcb[t]]
    BY <2>1, <2>2, <2>4 DEF SocketExact, Fresh
  <2>5. CASE sock_tpcb[t] \in Pcbs /\ conn[sock_tpcb[t]].arg = s
    <3>1. conn[sock_tpcb[t]].arg # t /\ conn[sock_tpcb[t]] # FreePcb
      BY <1>5, <2>5, NoSocketIsNone
    <3>2. sock_tpcb[t] # NoPcb
      BY <2>5, TcpSocketsAssumption
    <3> QED
      BY <2>1, <2>2, <3>1, <3>2 DEF SocketExact, Fresh
  <2> QED
    BY <2>2, <2>3, <2>4, <2>5
<1>6. ASSUME NEW t \in Sockets PROVE SocketExact(t)' /\ RingExact(rx'[t])
  BY <1>1, <1>2, <1>5
<1>7. QueuesExact'
  <2> SUFFICES ASSUME NEW t \in Sockets, NEW i \in DOMAIN accept_queue[t]
               PROVE  /\ conn'[accept_queue[t][i]] = conn[accept_queue[t][i]]
                      /\ \A u \in Sockets : sock_tpcb'[u] # accept_queue[t][i]
    BY <1>1 DEF QueuesExact
  <2> DEFINE q == accept_queue[t][i]
  <2>1. q \in Pcbs
    BY <1>1 DEF TcpTypeOK
  <2>2. \A u \in Sockets : sock_tpcb[u] # q
    BY <1>1 DEF QueuesExact
  <2> HIDE DEF q
  <2>3. conn'[q] = conn[q]
    BY <2>1, <2>2
  <2>4. \A u \in Sockets : sock_tpcb'[u] # q
    BY <1>2, <2>1, <2>2, TcpSocketsAssumption
  <2> QED
    BY <2>3, <2>4 DEF q
<1> QED
  BY <1>3, <1>4, <1>6, <1>7 DEF TcpIInv

\* A pcb that no slot has any more, or not yet, and the queues it may be in.
LEMMA DetachedPcbInv ==
  ASSUME TcpIInv, NEW p \in Pcbs, NEW e \in Conns, conn' = [conn EXCEPT ![p] = e],
         UNCHANGED <<state, sock_tpcb, rx>>, accept_queue' \in [Sockets -> Seq(Pcbs)],
         \/ conn[p] = FreePcb /\ e = FreePcb
         \/ conn[p].st = "lastack" /\ e = FreePcb
         \/ /\ conn[p].st = "open" /\ conn[p].cbs = "none"
            /\ e = FreePcb \/ (e.st = "open" /\ e.cbs = "none" /\ e.next = e.lost + 1),
         QueuesExact', CallerExact'
  PROVE  TcpIInv'
<1>1. /\ TcpTypeOK
      /\ \A q \in Pcbs : PcbExact(q)
      /\ \A t \in Sockets : SocketExact(t) /\ RingExact(rx[t])
  BY DEF TcpIInv
<1>2. conn'[p] = e /\ \A q \in Pcbs : q # p => conn'[q] = conn[q]
  BY <1>1 DEF TcpTypeOK
<1>3. TcpTypeOK'
  <2>1. conn' \in [Pcbs -> Conns]
    BY <1>1 DEF TcpTypeOK
  <2> QED
    BY <1>1, <2>1 DEF TcpTypeOK
<1>4. ASSUME NEW q \in Pcbs PROVE PcbExact(q)'
  <2>1. CASE q = p
    BY <1>2, <2>1, NoSocketIsNone DEF PcbExact
  <2>2. CASE q # p
    <3>1. conn'[q] = conn[q]
      BY <1>2, <2>2
    <3> QED
      BY <1>1, <3>1 DEF PcbExact, Of
  <2> QED
    BY <2>1, <2>2
<1>5. ASSUME NEW t \in Sockets PROVE SocketExact(t)'
  <2>1. SocketExact(t) /\ sock_tpcb[t] \in Pcbs \cup {NoPcb}
    BY <1>1 DEF TcpTypeOK
  <2>2. CASE sock_tpcb[t] = p /\ conn[p] # FreePcb
    <3>1. conn[p].st \notin {"closed", "synsent", "listen"} /\ conn[p] # FreePcb
          /\ ~(conn[p].st = "open" /\ conn[p].cbs = "all") /\ p # NoPcb
      BY <2>2, NoSocketIsNone, TcpSocketsAssumption
    <3> QED
      BY <2>1, <2>2, <3>1 DEF SocketExact, Fresh
  <2>3. CASE sock_tpcb[t] = NoPcb
    BY <2>1, <2>3 DEF SocketExact, Fresh
  <2>4. CASE sock_tpcb[t] \in Pcbs /\ conn'[sock_tpcb[t]] = conn[sock_tpcb[t]]
    BY <2>1, <2>4 DEF SocketExact, Fresh
  <2>5. CASE sock_tpcb[t] = p /\ conn[p] = FreePcb
    <3>1. conn'[p] = FreePcb
      BY <1>2, <2>5, NoSocketIsNone
    <3> QED
      BY <2>1, <2>4, <2>5, <3>1
  <2> QED
    BY <1>2, <2>1, <2>2, <2>3, <2>4, <2>5
<1> QED
  BY <1>1, <1>3, <1>4, <1>5 DEF TcpIInv

LEMMA LonePcbInv ==
  ASSUME TcpIInv, NEW p \in Pcbs, NEW e \in Conns, conn' = [conn EXCEPT ![p] = e],
         UNCHANGED <<state, sock_tpcb, rx, accept_queue, caller>>,
         conn[p].st = "lastack" \/ (conn[p].st = "open" /\ conn[p].cbs = "none"),
         e = FreePcb \/ (conn[p].st = "open" /\ e.st = "open" /\ e.cbs = "none" /\ e.next = e.lost + 1)
  PROVE  TcpIInv'
<1>1. TcpTypeOK /\ QueuesExact /\ CallerExact
  BY DEF TcpIInv
<1>2. conn'[p] = e /\ \A q \in Pcbs : q # p => conn'[q] = conn[q]
  BY <1>1 DEF TcpTypeOK
<1>3. QueuesExact'
  <2> SUFFICES ASSUME NEW t \in Sockets, NEW i \in DOMAIN accept_queue[t]
               PROVE  conn'[accept_queue[t][i]] = FreePcb
                      \/ (conn'[accept_queue[t][i]].st = "open" /\ conn'[accept_queue[t][i]].cbs = "none")
    BY <1>1 DEF QueuesExact
  <2>1. accept_queue[t][i] \in Pcbs
    BY <1>1 DEF TcpTypeOK
  <2> QED
    BY <1>1, <1>2, <2>1 DEF QueuesExact
<1>4. CallerExact'
  BY <1>1 DEF CallerExact, ConnectAndAcceptWake
<1>5. accept_queue' \in [Sockets -> Seq(Pcbs)]
  BY <1>1 DEF TcpTypeOK
<1> QED
  BY <1>3, <1>4, <1>5, DetachedPcbInv

-----------------------------------------------------------------------------
(* Sockets: the callbacks.                                                 *)

LEMMA TcpParts ==
  ASSUME TcpIInv
  PROVE  /\ TcpTypeOK /\ QueuesExact /\ CallerExact
         /\ \A q \in Pcbs : PcbExact(q)
         /\ \A t \in Sockets : SocketExact(t) /\ RingExact(rx[t])
  BY DEF TcpIInv

\* A pcb that runs the callbacks of a socket is the pcb of that socket.
LEMMA CallbackSocket ==
  ASSUME TcpIInv, NEW p \in Pcbs
  PROVE  /\ conn[p] \in Conns
         /\ conn[p].st = "synsent" => Of(p, "connecting") /\ conn[p].cbs = "err" /\ NoneYet(conn[p])
         /\ conn[p].st = "open" /\ conn[p].cbs = "all" => Of(p, "connected")
         /\ conn[p].st = "finwait" => Of(p, "closing")
         /\ conn[p].st = "listen" => Of(p, "listening") /\ conn[p].cbs = "none"
         /\ conn[p].st = "lastack" => conn[p].arg = NoSocket
  BY DEF TcpIInv, TcpTypeOK, PcbExact

\* A callback on the pcb p of the socket s, which keeps its pcb.
LEMMA CallbackInv ==
  ASSUME TcpIInv, NEW p \in Pcbs, NEW s \in Sockets, conn[p].arg = s, sock_tpcb[s] = p,
         NEW e \in Conns, NEW st \in States, NEW r \in Rings,
         conn' = [conn EXCEPT ![p] = e], state' = [state EXCEPT ![s] = st],
         rx' = [rx EXCEPT ![s] = r], UNCHANGED <<sock_tpcb, accept_queue>>,
         (e = conn[p] /\ st = state[s]) \/ e = FreePcb \/ (e.st = "lastack" /\ e.arg = NoSocket)
             \/ (e.st = "open" /\ e.cbs = "all" /\ e.arg = s /\ st = "connected")
             \/ (e.st = "finwait" /\ e.cbs = "all" /\ e.arg = s /\ st = "closing")
             \/ (e.st = "listen" /\ e.cbs = "none" /\ e.arg = s /\ st = "listening")
             \/ (e.st = "synsent" /\ e.cbs = "err" /\ NoneYet(e) /\ e.arg = s /\ st = "connecting")
             \/ (e.st = "closed" /\ e.cbs = "err" /\ NoneYet(e)),
         \/ st \in {"closing", "error", "closed_by_peer"}
         \/ st = "connected" /\ e.st = "open" /\ e.cbs = "all" /\ e.arg = s /\ Whole(r, e)
         \/ st = "listening" /\ e.st = "listen" /\ e.arg = s /\ r = rx[s] /\ Fresh(s)
         \/ st = "connecting" /\ e.st \in {"closed", "synsent"} /\ e.arg = s /\ r = rx[s] /\ Fresh(s),
         RingExact(r), CallerExact'
  PROVE  TcpIInv'
<1>1. TcpTypeOK /\ (\A q \in Pcbs : PcbExact(q))
  BY TcpParts
<1>2. /\ state'[s] = st /\ rx'[s] = r /\ sock_tpcb'[s] = p /\ p # NoPcb
      /\ conn'[p] = e /\ \A q \in Pcbs : q # p => conn'[q] = conn[q]
      /\ conn' \in [Pcbs -> Conns]
  <2>1. state'[s] = st /\ rx'[s] = r /\ sock_tpcb'[s] = p /\ p # NoPcb
    BY <1>1, TcpSocketsAssumption DEF TcpTypeOK
  <2>2. conn'[p] = e /\ \A q \in Pcbs : q # p => conn'[q] = conn[q]
    BY <1>1 DEF TcpTypeOK
  <2>3. conn' \in [Pcbs -> Conns]
    BY <1>1 DEF TcpTypeOK
  <2> QED
    BY <2>1, <2>2, <2>3
<1>3. sock_tpcb' = [sock_tpcb EXCEPT ![s] = p]
  BY <1>1 DEF TcpTypeOK
<1>4. ASSUME NEW x, e.arg = s, st = x PROVE Of(p, x)'
  BY <1>2, <1>4 DEF Of
<1>5. PcbExact(p)'
  <2>1. CASE e = conn[p] /\ st = state[s]
    <3>1. ASSUME NEW x, Of(p, x) PROVE Of(p, x)'
      BY <1>2, <2>1, <3>1 DEF Of
    <3> QED
      BY <1>1, <1>2, <2>1, <3>1 DEF PcbExact
  <2>2. CASE ~(e = conn[p] /\ st = state[s])
    BY <1>2, <1>4, <2>2, NoSocketIsNone DEF PcbExact
  <2> QED
    BY <2>1, <2>2
<1>6. SocketExact(s)'
  BY <1>2 DEF SocketExact, Fresh
<1>7. \A q \in Pcbs : conn'[q] = conn[q] \/ (conn[q].arg = s /\ sock_tpcb[s] = q)
  BY <1>2
<1>8. \A q \in Pcbs : conn[q].arg = s /\ sock_tpcb[s] = q => PcbExact(q)'
  BY <1>5
<1>9. p \in {sock_tpcb[s], NoPcb} /\ p \in Pcbs \cup {NoPcb}
  OBVIOUS
<1> QED
  BY <1>2, <1>3, <1>6, <1>7, <1>8, <1>9, SlotInv

LEMMA ConnectedInv == ASSUME TcpIInv, NEW p \in Pcbs, Connected(p) PROVE TcpIInv'
<1> DEFINE s == conn[p].arg
           e == [conn[p] EXCEPT !.st = "open", !.cbs = "all"]
<1>1. /\ conn[p].st = "synsent" /\ conn' = [conn EXCEPT ![p] = e]
      /\ state' = [state EXCEPT ![s] = "connected"] /\ Wake("connect", s)
      /\ UNCHANGED <<sock_tpcb, rx, accept_queue>>
  BY DEF Connected
<1>2. /\ conn[p] \in Conns /\ s \in Sockets /\ state[s] = "connecting" /\ sock_tpcb[s] = p
      /\ NoneYet(conn[p])
  BY <1>1, CallbackSocket DEF Of
<1>3. e \in Conns /\ e.st = "open" /\ e.cbs = "all" /\ e.arg = s /\ NoneYet(e)
  BY <1>2 DEF Conns, NoneYet
<1> HIDE DEF e
<1>4. TcpTypeOK /\ SocketExact(s) /\ RingExact(rx[s]) /\ CallerExact
  BY <1>2, TcpParts
<1>5. rx[s] \in Rings /\ rx' = [rx EXCEPT ![s] = rx[s]]
  BY <1>1, <1>2, <1>4 DEF TcpTypeOK
<1>6. Whole(rx[s], e)
  BY <1>2, <1>3, <1>4 DEF SocketExact, Fresh, Whole, NoneYet
<1>7. CallerExact'
  <2>1. \A t \in Sockets : (t # s \/ "connect" # "connect") /\ state[t] = "connecting" => state'[t] = "connecting"
    BY <1>1, <1>4 DEF TcpTypeOK
  <2> QED
    BY <1>1, <1>2, <1>4, <2>1, WakeExact
<1>8. "connected" \in States
  BY DEF States
<1> HIDE DEF s
<1> QED
  BY <1>1, <1>2, <1>3, <1>4, <1>5, <1>6, <1>7, <1>8, CallbackInv DEF s

\* What does not change is still a legal value.
LEMMA SlotTyped ==
  ASSUME TcpIInv, NEW s \in Sockets
  PROVE  /\ state[s] \in States /\ rx[s] \in Rings /\ RingExact(rx[s]) /\ SocketExact(s)
         /\ sock_tpcb[s] \in Pcbs \cup {NoPcb} /\ accept_queue[s] \in Seq(Pcbs)
         /\ state = [state EXCEPT ![s] = state[s]] /\ rx = [rx EXCEPT ![s] = rx[s]]
         /\ sock_tpcb = [sock_tpcb EXCEPT ![s] = sock_tpcb[s]]
         /\ \A x : [state EXCEPT ![s] = x][s] = x
         /\ \A x, t \in Sockets : t # s => [state EXCEPT ![s] = x][t] = state[t]
<1>1. TcpTypeOK /\ RingExact(rx[s]) /\ SocketExact(s)
  BY TcpParts
<1> QED
  BY <1>1 DEF TcpTypeOK

LEMMA FailedInv == ASSUME TcpIInv, NEW p \in Pcbs, Failed(p) PROVE TcpIInv'
<1> DEFINE s == conn[p].arg
<1>1. /\ conn[p].st \in {"synsent", "open", "finwait", "lastack"} /\ conn[p].cbs # "none"
      /\ conn' = [conn EXCEPT ![p] = FreePcb] /\ UNCHANGED <<sock_tpcb, rx, accept_queue>>
      /\ s # NoSocket => /\ state' = [state EXCEPT ![s] = "error"]
                         /\ IF state[s] = "connecting" THEN Wake("connect", s) ELSE UNCHANGED caller
      /\ s = NoSocket => UNCHANGED <<state, caller>>
  BY DEF Failed
<1>2. FreePcb \in Conns /\ conn[p] \in Conns
  BY FreePcbTyped, CallbackSocket
<1>3. CASE s = NoSocket
  <2>1. conn[p].st = "lastack"
    <3>1. PcbExact(p) /\ ~Of(p, "connecting") /\ ~Of(p, "connected") /\ ~Of(p, "closing")
      BY <1>3, TcpParts, NoSocketIsNone DEF Of
    <3> QED
      BY <1>1, <1>2, <3>1 DEF PcbExact, Conns
  <2> QED
    BY <1>1, <1>2, <1>3, <2>1, LonePcbInv
<1>4. CASE s # NoSocket
  <2>1. s \in Sockets /\ sock_tpcb[s] = p
    <3>1. conn[p].st # "lastack"
      BY <1>4, CallbackSocket
    <3>2. conn[p].st = "open" => conn[p].cbs = "all"
      <4>1. PcbExact(p)
        BY TcpParts
      <4> QED
        BY <1>1, <1>2, <4>1 DEF PcbExact, Conns
    <3> QED
      BY <1>1, <3>1, <3>2, CallbackSocket DEF Of
  <2>2. /\ rx[s] \in Rings /\ RingExact(rx[s]) /\ rx' = [rx EXCEPT ![s] = rx[s]]
        /\ state' = [state EXCEPT ![s] = "error"] /\ "error" \in States
    BY <1>1, <1>4, <2>1, SlotTyped DEF States
  <2>3. CallerExact'
    <3>1. CallerExact /\ UNCHANGED accept_queue /\ \A t \in Sockets : t # s => state'[t] = state[t]
      BY <1>1, <2>1, <2>2, TcpParts DEF TcpTypeOK
    <3>2. CASE state[s] = "connecting"
      <4>1. Wake("connect", s)
        BY <1>1, <1>4, <3>2
      <4> HIDE DEF s
      <4> QED
        BY <2>1, <3>1, <4>1, WakeExact
    <3>3. CASE state[s] # "connecting"
      <4>1. UNCHANGED caller
        BY <1>1, <1>4, <3>3
      <4> HIDE DEF s
      <4> QED
        BY <2>1, <3>1, <3>3, <4>1, CallerStays
    <3> QED
      BY <3>2, <3>3
  <2> HIDE DEF s
  <2> QED
    BY <1>1, <1>2, <2>1, <2>2, <2>3, CallbackInv DEF s
<1> QED
  BY <1>3, <1>4

\* A connection whose callbacks are set: the pcb of a connected socket.
LEMMA OpenSocket ==
  ASSUME TcpIInv, NEW p \in Pcbs, conn[p].st = "open", conn[p].cbs = "all"
  PROVE  LET s == conn[p].arg IN
         /\ s \in Sockets /\ state[s] = "connected" /\ sock_tpcb[s] = p
         /\ rx[s] \in Rings /\ RingExact(rx[s]) /\ Whole(rx[s], conn[p])
<1> DEFINE s == conn[p].arg
<1>1. s \in Sockets /\ state[s] = "connected" /\ sock_tpcb[s] = p
  BY CallbackSocket DEF Of
<1>2. rx[s] \in Rings /\ RingExact(rx[s]) /\ SocketExact(s)
  BY <1>1, SlotTyped
<1>3. conn[p] # FreePcb
  BY NoSocketIsNone
<1> QED
  BY <1>1, <1>2, <1>3 DEF SocketExact

\* Nobody waits in connect or accept for what a connection receives.
LEMMA OtherWake ==
  ASSUME TcpIInv, NEW op \in {"send", "recv"}, NEW s \in Sockets, Wake(op, s) \/ UNCHANGED caller,
         state[s] # "connecting", UNCHANGED accept_queue,
         \A t \in Sockets : t # s => state'[t] = state[t]
  PROVE  CallerExact'
<1>1. CallerExact
  BY TcpParts
<1>2. CASE Wake(op, s)
  BY <1>1, <1>2, WakeExact
<1>3. CASE UNCHANGED caller
  BY <1>1, <1>3, CallerStays
<1> QED
  BY <1>2, <1>3

LEMMA PeerClosedInv == ASSUME TcpIInv, NEW p \in Pcbs, PeerClosed(p) PROVE TcpIInv'
<1> DEFINE s == conn[p].arg
           e == Shut([conn[p] EXCEPT !.arg = NoSocket], rx[s].len > 0, "lastack")
<1>1. /\ conn[p].st = "open" /\ conn[p].cbs = "all"
      /\ state' = [state EXCEPT ![s] = "closed_by_peer"]
      /\ conn' = [conn EXCEPT ![p] = e] /\ Wake("recv", s)
      /\ UNCHANGED <<sock_tpcb, rx, accept_queue>>
  BY DEF PeerClosed
<1>2. s \in Sockets /\ state[s] = "connected" /\ sock_tpcb[s] = p /\ conn[p] \in Conns
      /\ rx[s] \in Rings /\ RingExact(rx[s])
  BY <1>1, OpenSocket, CallbackSocket
<1>3. e \in Conns /\ (e = FreePcb \/ (e.st = "lastack" /\ e.arg = NoSocket))
  <2>1. CASE rx[s].len > 0
    BY <2>1, FreePcbTyped DEF Shut
  <2>2. CASE ~(rx[s].len > 0)
    BY <2>2, <1>2 DEF Shut, Conns
  <2> QED
    BY <2>1, <2>2
<1> HIDE DEF e
<1>4. rx' = [rx EXCEPT ![s] = rx[s]] /\ "closed_by_peer" \in States
      /\ \A t \in Sockets : t # s => state'[t] = state[t]
  BY <1>1, <1>2, SlotTyped DEF States
<1> HIDE DEF s
<1>5. CallerExact'
  BY <1>1, <1>2, <1>4, OtherWake
<1> QED
  BY <1>1, <1>2, <1>3, <1>4, <1>5, CallbackInv DEF s

LEMMA PeerClosedTooInv == ASSUME TcpIInv, NEW p \in Pcbs, PeerClosedToo(p) PROVE TcpIInv'
<1>0. PICK s \in Sockets : s = conn[p].arg /\ state[s] = "closing" /\ sock_tpcb[s] = p
  BY CallbackSocket DEF PeerClosedToo, Of
<1> DEFINE e == [conn[p] EXCEPT !.arg = NoSocket, !.st = "lastack"]
<1>1. /\ conn[p].st = "finwait" /\ conn[p].cbs = "all"
      /\ state' = [state EXCEPT ![s] = "unallocated"]
      /\ sock_tpcb' = [sock_tpcb EXCEPT ![s] = NoPcb]
      /\ rx' = [rx EXCEPT ![s] = EmptyRing]
      /\ conn' = [conn EXCEPT ![p] = e]
      /\ UNCHANGED <<accept_queue, caller>>
  BY <1>0 DEF PeerClosedToo
<1>2. s \in Sockets /\ state[s] = "closing" /\ sock_tpcb[s] = p /\ conn[p] \in Conns
  BY <1>0, CallbackSocket
<1>3. e \in Conns /\ e.st = "lastack" /\ e.arg = NoSocket
  BY <1>2 DEF Conns
<1> HIDE DEF e
<1>4. TcpTypeOK /\ CallerExact
  BY TcpParts
<1>5. /\ conn'[p] = e /\ \A q \in Pcbs : q # p => conn'[q] = conn[q]
      /\ \A t \in Sockets : t # s => state'[t] = state[t]
  BY <1>1, <1>2, <1>4 DEF TcpTypeOK
<1>6. conn' \in [Pcbs -> Conns]
  BY <1>1, <1>3, <1>4 DEF TcpTypeOK
<1>7. PcbExact(p)'
  BY <1>3, <1>5 DEF PcbExact
<1>8. state'[s] = "unallocated" /\ sock_tpcb'[s] = NoPcb /\ rx'[s] = EmptyRing
  BY <1>1, <1>2, <1>4 DEF TcpTypeOK
<1>9. SocketExact(s)'
  BY <1>8, RingTyped DEF SocketExact, Fresh
<1>10. CallerExact'
  BY <1>1, <1>2, <1>4, <1>5, CallerStays
<1>11. "unallocated" \in States
  BY DEF States
<1>12. \A q \in Pcbs : conn[q].arg = s /\ sock_tpcb[s] = q => PcbExact(q)'
  BY <1>2, <1>7
<1>13. \A q \in Pcbs : conn'[q] = conn[q] \/ (conn[q].arg = s /\ sock_tpcb[s] = q)
  BY <1>0, <1>2, <1>5
<1> QED
  BY <1>1, <1>2, <1>6, <1>9, <1>10, <1>11, <1>12, <1>13, RingTyped, SlotInv

LEMMA SentInv == ASSUME TcpIInv, NEW p \in Pcbs, conn[p].arg # NoSocket, Sent(p) PROVE TcpIInv'
<1> DEFINE s == conn[p].arg
           e == [conn[p] EXCEPT !.unacked = FALSE]
<1>1. /\ conn[p].st \in {"open", "finwait", "lastack"} /\ conn[p].cbs = "all" /\ s # NoSocket
      /\ conn' = [conn EXCEPT ![p] = e] /\ Wake("send", s)
      /\ UNCHANGED <<state, sock_tpcb, rx, accept_queue>>
  BY DEF Sent
<1>2. /\ conn[p] \in Conns /\ s \in Sockets /\ sock_tpcb[s] = p
      /\ (conn[p].st = "open" /\ state[s] = "connected") \/ (conn[p].st = "finwait" /\ state[s] = "closing")
  BY <1>1, CallbackSocket DEF Of
<1>3. e \in Conns /\ e.st = conn[p].st /\ e.arg = s /\ e.cbs = "all"
      /\ e.next = conn[p].next /\ e.lost = conn[p].lost
  BY <1>1, <1>2 DEF Conns
<1> HIDE DEF e
<1>4. /\ rx[s] \in Rings /\ RingExact(rx[s]) /\ rx' = [rx EXCEPT ![s] = rx[s]]
      /\ state' = [state EXCEPT ![s] = state[s]] /\ state[s] \in States
      /\ \A t \in Sockets : t # s => state'[t] = state[t]
  BY <1>1, <1>2, SlotTyped
<1>5. conn[p].st = "open" => Whole(rx[s], e)
  BY <1>1, <1>3, OpenSocket DEF Whole
<1> HIDE DEF s
<1>6. CallerExact'
  BY <1>1, <1>2, <1>4, OtherWake
<1>7. CASE conn[p].st = "open"
  BY <1>1, <1>2, <1>3, <1>4, <1>5, <1>6, <1>7, CallbackInv DEF s
<1>8. CASE conn[p].st = "finwait"
  BY <1>1, <1>2, <1>3, <1>4, <1>6, <1>8, CallbackInv DEF s
<1> QED
  BY <1>2, <1>7, <1>8

LEMMA FinishedInv == ASSUME TcpIInv, NEW p \in Pcbs, Finished(p) PROVE TcpIInv'
  BY FreePcbTyped, LonePcbInv DEF Finished

LEMMA PendingLostInv == ASSUME TcpIInv, NEW p \in Pcbs, PendingLost(p) PROVE TcpIInv'
  BY FreePcbTyped, LonePcbInv DEF PendingLost

LEMMA DroppedUnacceptedInv == ASSUME TcpIInv, NEW p \in Pcbs, DroppedUnaccepted(p) PROVE TcpIInv'
<1> DEFINE e == [conn[p] EXCEPT !.next = @ + 1, !.lost = @ + 1]
<1>1. /\ conn[p].st = "open" /\ conn[p].cbs = "none" /\ conn' = [conn EXCEPT ![p] = e]
      /\ UNCHANGED <<state, sock_tpcb, rx, accept_queue, caller>>
  BY DEF DroppedUnaccepted
<1>2. conn[p] \in Conns /\ conn[p].next = conn[p].lost + 1
  BY <1>1, CallbackSocket, TcpParts DEF PcbExact
<1>3. e \in Conns /\ e.st = "open" /\ e.cbs = "none" /\ e.next = e.lost + 1
  <2>1. conn[p].next \in Nat \ {0} /\ conn[p].lost \in Nat
    BY <1>2 DEF Conns
  <2>2. conn[p].next + 1 \in Nat \ {0} /\ conn[p].lost + 1 \in Nat
    BY <2>1
  <2> HIDE DEF e
  <2>3. e = [conn[p] EXCEPT !.next = conn[p].next + 1, !.lost = conn[p].lost + 1]
    BY DEF e
  <2>4. e \in Conns /\ e.st = conn[p].st /\ e.cbs = conn[p].cbs
    BY <1>2, <2>2, <2>3 DEF Conns
  <2>5. e.next = conn[p].next + 1 /\ e.lost = conn[p].lost + 1
    BY <1>2, <2>3 DEF Conns
  <2> QED
    BY <1>1, <1>2, <2>4, <2>5
<1> HIDE DEF e
<1> QED
  BY <1>1, <1>3, LonePcbInv

LEMMA ReceivedInv ==
  ASSUME TcpIInv, NEW p \in Pcbs, NEW n \in 1 .. BufSize, Received(p, n) PROVE TcpIInv'
<1> DEFINE s == conn[p].arg
           e == [conn[p] EXCEPT !.next = @ + n]
           r == StoreAll(rx[s], conn[p].next, n)
<1>1. /\ conn[p].st = "open" /\ conn[p].cbs = "all" /\ n <= BufSize - rx[s].len
      /\ conn' = [conn EXCEPT ![p] = e] /\ rx' = [rx EXCEPT ![s] = r]
      /\ Wake("recv", s) /\ UNCHANGED <<state, sock_tpcb, accept_queue>>
  BY DEF Received
<1>2. /\ conn[p] \in Conns /\ s \in Sockets /\ state[s] = "connected" /\ sock_tpcb[s] = p
      /\ rx[s] \in Rings /\ RingExact(rx[s]) /\ Whole(rx[s], conn[p])
  BY <1>1, OpenSocket, CallbackSocket
<1>3. n \in Nat /\ n > 0 /\ conn[p].next \in Nat \ {0}
  BY <1>2, BufSizePositive DEF Conns
<1>4. /\ e \in Conns /\ e.st = "open" /\ e.arg = s /\ e.cbs = "all" /\ e.next = conn[p].next + n
      /\ e.lost = conn[p].lost
  BY <1>1, <1>2, <1>3 DEF Conns
<1> HIDE DEF e
<1>5. r \in Rings /\ RingExact(r) /\ r.got = rx[s].got /\ r.len = rx[s].len + n
      /\ r.lost = rx[s].lost
  <2>1. rx[s].len \in Nat /\ rx[s].got \in Nat /\ rx[s].lost \in Nat /\ BufSize \in Nat
    BY <1>2, RingBounds
  <2>2. n + rx[s].len <= BufSize /\ conn[p].next = rx[s].lost + rx[s].got + rx[s].len + 1
    BY <1>1, <1>2, <1>3, <2>1 DEF Whole
  <2> QED
    BY <1>2, <1>3, <2>2, StoreAllExact
<1> HIDE DEF r
<1>6. Whole(r, e)
  <2>1. rx[s].len \in Nat /\ rx[s].got \in Nat /\ rx[s].lost \in Nat
    BY <1>2, RingBounds
  <2> QED
    BY <1>2, <1>3, <1>4, <1>5, <2>1 DEF Whole
<1>7. /\ state' = [state EXCEPT ![s] = state[s]] /\ state[s] \in States
      /\ \A t \in Sockets : t # s => state'[t] = state[t]
  BY <1>1, <1>2, SlotTyped
<1> HIDE DEF s
<1>8. CallerExact'
  BY <1>1, <1>2, <1>7, OtherWake
<1> QED
  BY <1>1, <1>2, <1>4, <1>5, <1>6, <1>7, <1>8, CallbackInv DEF s

\* A new connection joins the queue of a socket that listens, if there is room.
LEMMA IncomingInv ==
  ASSUME TcpIInv, NEW p \in Pcbs, NEW q \in Pcbs, Incoming(p, q) PROVE TcpIInv'
<1>0. PICK s \in Sockets : s = conn[p].arg /\ state[s] = "listening" /\ sock_tpcb[s] = p
  BY CallbackSocket DEF Incoming, Of
<1> DEFINE e == [FreePcb EXCEPT !.st = "open", !.arg = s]
<1>1. /\ conn[p].st = "listen" /\ Unused(q) /\ Wake("accept", s)
      /\ \/ UNCHANGED <<accept_queue, conn>>
         \/ /\ accept_queue' = [accept_queue EXCEPT ![s] = Append(accept_queue[s], q)]
            /\ conn' = [conn EXCEPT ![q] = e]
      /\ UNCHANGED <<state, sock_tpcb, rx>>
  BY <1>0 DEF Incoming
<1>2. /\ TcpTypeOK /\ QueuesExact /\ CallerExact
      /\ \A x \in Pcbs : PcbExact(x)
      /\ \A t \in Sockets : SocketExact(t) /\ RingExact(rx[t])
  BY TcpParts
<1>3. CASE UNCHANGED <<accept_queue, conn>>
  <2>1. CallerExact'
    BY <1>1, <1>2, <1>3, WakeExact
  <2> QED
    BY <1>1, <1>2, <1>3, <2>1
       DEF TcpIInv, TcpTypeOK, QueuesExact, PcbExact, Of, SocketExact, Fresh
<1>4. CASE /\ accept_queue' = [accept_queue EXCEPT ![s] = Append(accept_queue[s], q)]
           /\ conn' = [conn EXCEPT ![q] = e]
  <2>1. e \in Conns /\ e.st = "open" /\ e.arg = s /\ e.cbs = "none" /\ e.next = e.lost + 1
    <3>1. e \in Conns /\ e.st = "open" /\ e.arg = s /\ e.cbs = "none" /\ e.next = FreePcb.next /\ e.lost = FreePcb.lost
      BY FreePcbTyped, NoSocketIsNone DEF Conns
    <3>2. FreePcb.next = 1 /\ FreePcb.lost = 0
      BY NoSocketIsNone DEF NoneYet
    <3> QED
      BY <3>1, <3>2
  <2> HIDE DEF e
  <2>2. /\ conn[q] = FreePcb /\ \A t \in Sockets : sock_tpcb[t] # q
        /\ \A t \in Sockets : \A i \in DOMAIN accept_queue[t] : accept_queue[t][i] # q
    BY <1>1, <1>2 DEF Unused, Queued, PcbExact
  <2>3. conn'[q] = e /\ \A x \in Pcbs : x # q => conn'[x] = conn[x]
    BY <1>2, <1>4 DEF TcpTypeOK
  <2>4. conn' \in [Pcbs -> Conns]
    BY <1>2, <1>4, <2>1 DEF TcpTypeOK
  <2>5. \A t \in Sockets : accept_queue[t] \in Seq(Pcbs)
    BY <1>2 DEF TcpTypeOK
  <2>6. /\ accept_queue'[s] = Append(accept_queue[s], q)
        /\ \A t \in Sockets : t # s => accept_queue'[t] = accept_queue[t]
    BY <1>2, <1>4 DEF TcpTypeOK
  <2>7. accept_queue' \in [Sockets -> Seq(Pcbs)]
    <3>1. Append(accept_queue[s], q) \in Seq(Pcbs)
      BY <2>5
    <3> QED
      BY <1>2, <1>4, <3>1 DEF TcpTypeOK
  <2>8. TcpTypeOK'
    BY <1>1, <1>2, <2>4, <2>7 DEF TcpTypeOK
  <2>9. ASSUME NEW x \in Pcbs PROVE PcbExact(x)'
    <3>1. CASE x = q
      BY <2>1, <2>3, <3>1 DEF PcbExact
    <3>2. CASE x # q
      <4>1. conn'[x] = conn[x]
        BY <2>3, <3>2
      <4> QED
        BY <1>1, <1>2, <4>1 DEF PcbExact, Of
    <3> QED
      BY <3>1, <3>2
  <2>10. ASSUME NEW t \in Sockets PROVE SocketExact(t)'
    <3>1. SocketExact(t) /\ sock_tpcb[t] \in Pcbs \cup {NoPcb} /\ sock_tpcb[t] # q
      BY <1>2, <2>2 DEF TcpTypeOK
    <3>2. CASE sock_tpcb[t] = NoPcb
      BY <1>1, <3>1, <3>2 DEF SocketExact, Fresh
    <3>3. CASE sock_tpcb[t] \in Pcbs
      <4>1. conn'[sock_tpcb[t]] = conn[sock_tpcb[t]]
        BY <2>3, <3>1, <3>3
      <4> QED
        BY <1>1, <3>1, <4>1 DEF SocketExact, Fresh
    <3> QED
      BY <3>1, <3>2, <3>3
  <2>11. \* Each element of a queue is an earlier element of it or the new one.
         ASSUME NEW t \in Sockets, NEW i \in DOMAIN accept_queue'[t]
         PROVE  \/ i \in DOMAIN accept_queue[t] /\ accept_queue'[t][i] = accept_queue[t][i]
                \/ t = s /\ i = Len(accept_queue[s]) + 1 /\ accept_queue'[t][i] = q
    <3>1. CASE t # s
      BY <2>6, <3>1
    <3>2. CASE t = s
      BY <2>5, <2>6, <3>2
    <3> QED
      BY <3>1, <3>2
  <2>12. ASSUME NEW t \in Sockets, NEW i \in DOMAIN accept_queue[t]
         PROVE  /\ accept_queue[t][i] \in Pcbs /\ accept_queue[t][i] # q
                /\ conn[accept_queue[t][i]] = FreePcb \/ (conn[accept_queue[t][i]].st = "open" /\ conn[accept_queue[t][i]].cbs = "none")
                /\ \A u \in Sockets : sock_tpcb[u] # accept_queue[t][i]
                /\ \A u \in Sockets : \A j \in DOMAIN accept_queue[u] :
                     accept_queue[u][j] = accept_queue[t][i] => u = t /\ j = i
    BY <1>2, <2>2, <2>5 DEF QueuesExact
  <2>13. QueuesExact'
    <3> SUFFICES ASSUME NEW t \in Sockets, NEW i \in DOMAIN accept_queue'[t]
                 PROVE  LET x == accept_queue'[t][i] IN
                        /\ conn'[x] = FreePcb \/ (conn'[x].st = "open" /\ conn'[x].cbs = "none")
                        /\ \A u \in Sockets : sock_tpcb'[u] # x
                        /\ \A u \in Sockets : \A j \in DOMAIN accept_queue'[u] :
                             accept_queue'[u][j] = x => u = t /\ j = i
      BY DEF QueuesExact
    <3>1. CASE i \in DOMAIN accept_queue[t] /\ accept_queue'[t][i] = accept_queue[t][i]
      BY <1>1, <2>3, <2>11, <2>12, <3>1
    <3>2. CASE t = s /\ i = Len(accept_queue[s]) + 1 /\ accept_queue'[t][i] = q
      BY <1>1, <2>1, <2>2, <2>3, <2>11, <2>12, <3>2
    <3> QED
      BY <2>11, <3>1, <3>2
  <2>14. CallerExact'
    <3>1. \A t \in Sockets : (t # s \/ "accept" # "accept") /\ accept_queue[t] = <<>> => accept_queue'[t] = <<>>
      BY <2>6
    <3> QED
      BY <1>1, <1>2, <3>1, WakeExact
  <2> QED
    BY <1>1, <1>2, <2>8, <2>9, <2>10, <2>13, <2>14 DEF TcpIInv
<1> QED
  BY <1>1, <1>3, <1>4

\* The callback that stops the program finds no socket behind its pcb.
LEMMA SentToNobody ==
  ASSUME TcpIInv, NEW p \in Pcbs, conn[p].arg = NoSocket, Sent(p)
  PROVE  /\ conn[p].st = "lastack" /\ conn[p].unacked /\ caller' = Aborted
         /\ UNCHANGED <<state, sock_tpcb, socket_refcount, rx, accept_queue, conn>>
<1>1. /\ conn[p].st \in {"open", "finwait", "lastack"} /\ conn[p].cbs = "all" /\ conn[p].unacked
      /\ caller' = Aborted /\ UNCHANGED <<state, sock_tpcb, socket_refcount, rx, accept_queue, conn>>
  BY DEF Sent
<1>2. ~(conn[p].st = "open") /\ ~(conn[p].st = "finwait")
  BY <1>1, CallbackSocket, NoSocketIsNone DEF Of
<1> QED
  BY <1>1, <1>2

\* A callback stops the program, or the sockets stay as they should be.
LEMMA LwipInv ==
  ASSUME TcpIInv, Lwip
  PROVE  \/ TcpIInv'
         \/ /\ caller' = Aborted /\ \E p \in Pcbs : conn[p].st = "lastack" /\ conn[p].unacked
            /\ UNCHANGED <<state, sock_tpcb, socket_refcount, rx, accept_queue, conn>>
<1>1. PICK p \in Pcbs :
        \/ Connected(p) \/ Failed(p) \/ PeerClosed(p) \/ PeerClosedToo(p)
        \/ Sent(p) \/ Finished(p) \/ PendingLost(p) \/ DroppedUnaccepted(p)
        \/ \E n \in 1 .. BufSize : Received(p, n)
        \/ \E q \in Pcbs : Incoming(p, q)
  BY DEF Lwip
<1> QED
  BY <1>1, ConnectedInv, FailedInv, PeerClosedInv, PeerClosedTooInv, SentInv, SentToNobody, FinishedInv,
     PendingLostInv, DroppedUnacceptedInv, ReceivedInv, IncomingInv

-----------------------------------------------------------------------------
(* Sockets: the calls that change one slot.                                *)

\* Only the caller changes.
LEMMA CallerOnlyInv ==
  ASSUME TcpIInv, UNCHANGED <<state, sock_tpcb, rx, accept_queue, conn>>, CallerExact'
  PROVE  TcpIInv'
  BY DEF TcpIInv, TcpTypeOK, QueuesExact, PcbExact, Of, SocketExact, Fresh

\* A thread that is awake, or sleeps for what has not come yet.
LEMMA IdleExact == ASSUME caller' = Idle PROVE CallerExact'
  BY NoSocketIsNone DEF CallerExact, ConnectAndAcceptWake, Callers, Idle

LEMMA BlockExact ==
  ASSUME NEW op \in {"connect", "accept", "send", "recv"}, NEW s \in Sockets, Block(op, s),
         op = "connect" => state'[s] = "connecting", op = "accept" => accept_queue'[s] = <<>>
  PROVE  CallerExact'
<1>1. caller' = [op |-> op, s |-> s, woken |-> FALSE]
  BY DEF Block
<1>2. caller' \in Callers /\ caller'.op = op /\ caller'.s = s
  BY <1>1 DEF Callers
<1> QED
  BY <1>2 DEF CallerExact, ConnectAndAcceptWake

LEMMA AgainExact ==
  ASSUME CallerExact, Again, caller.op \in {"connect", "send", "recv"},
         caller.op = "connect" => state'[caller.s] = "connecting"
  PROVE  CallerExact'
<1>1. caller' = [caller EXCEPT !.woken = FALSE]
  BY DEF Again
<1>2. caller' \in Callers /\ caller'.op = caller.op /\ caller'.s = caller.s
  BY <1>1 DEF CallerExact, Callers
<1> QED
  BY <1>2 DEF CallerExact, ConnectAndAcceptWake

LEMMA BindInv == ASSUME TcpIInv, NEW s \in Sockets, Bind(s) PROVE TcpIInv'
<1>1. /\ state[s] = "allocated" /\ state' = [state EXCEPT ![s] = "bound"]
      /\ UNCHANGED <<sock_tpcb, rx, accept_queue, caller, conn>>
  BY DEF Bind
<1>2. TcpTypeOK /\ SocketExact(s) /\ CallerExact /\ \A q \in Pcbs : PcbExact(q)
  BY TcpParts
<1>3. state'[s] = "bound" /\ \A t \in Sockets : t # s => state'[t] = state[t]
  BY <1>1, <1>2 DEF TcpTypeOK
<1>4. SocketExact(s)'
  BY <1>1, <1>2, <1>3 DEF SocketExact, Fresh
<1>5. \A q \in Pcbs : conn[q].arg = s /\ sock_tpcb[s] = q => PcbExact(q)'
  BY <1>1, <1>2 DEF PcbExact, Of
<1>6. CallerExact'
  BY <1>1, <1>2, <1>3, CallerStays
<1>7. "bound" \in States /\ rx[s] \in Rings /\ sock_tpcb[s] \in Pcbs \cup {NoPcb} /\ RingExact(rx[s])
      /\ rx' = [rx EXCEPT ![s] = rx[s]] /\ sock_tpcb' = [sock_tpcb EXCEPT ![s] = sock_tpcb[s]]
      /\ conn' \in [Pcbs -> Conns]
  BY <1>1, <1>2, SlotTyped DEF States, TcpTypeOK
<1> QED
  BY <1>1, <1>4, <1>5, <1>6, <1>7, SlotInv

\* A socket that has a pcb and has not been used yet.
LEMMA NewSocket ==
  ASSUME TcpIInv, NEW s \in Sockets, state[s] \in {"allocated", "bound"}, sock_tpcb[s] # NoPcb
  PROVE  /\ sock_tpcb[s] \in Pcbs /\ Fresh(s)
         /\ conn[sock_tpcb[s]] \in Conns /\ conn[sock_tpcb[s]].st = "closed"
         /\ conn[sock_tpcb[s]].arg = s
         /\ conn[sock_tpcb[s]].cbs = "err" /\ NoneYet(conn[sock_tpcb[s]])
<1>1. SocketExact(s) /\ sock_tpcb[s] \in Pcbs /\ TcpTypeOK /\ \A q \in Pcbs : PcbExact(q)
  BY SlotTyped, TcpParts
<1> QED
  BY <1>1 DEF SocketExact, PcbExact, TcpTypeOK

LEMMA ListenInv ==
  ASSUME TcpIInv, NEW s \in Sockets, state[s] \in {"allocated", "bound"}, sock_tpcb[s] # NoPcb, Listen(s)
  PROVE  TcpIInv'
<1>1. PICK p \in Pcbs : p = sock_tpcb[s]
  BY NewSocket
<1> DEFINE e == [conn[p] EXCEPT !.st = "listen", !.cbs = "none"]
<1>2. /\ state' = [state EXCEPT ![s] = "listening"] /\ conn' = [conn EXCEPT ![p] = e]
      /\ UNCHANGED <<sock_tpcb, rx, accept_queue, caller>>
  BY <1>1 DEF Listen
<1>3. conn[p] \in Conns /\ conn[p].arg = s /\ Fresh(s)
  BY <1>1, NewSocket
<1>4. e \in Conns /\ e.st = "listen" /\ e.cbs = "none" /\ e.arg = s
  BY <1>3 DEF Conns
<1> HIDE DEF e
<1>5. /\ rx[s] \in Rings /\ RingExact(rx[s]) /\ rx' = [rx EXCEPT ![s] = rx[s]] /\ "listening" \in States
      /\ \A t \in Sockets : t # s => state'[t] = state[t]
  BY <1>2, SlotTyped DEF States
<1>6. CallerExact'
  BY <1>2, <1>5, TcpParts, CallerStays
<1> QED
  BY <1>1, <1>2, <1>3, <1>4, <1>5, <1>6, CallbackInv

LEMMA ConnectInv ==
  ASSUME TcpIInv, NEW s \in Sockets, NEW refused \in BOOLEAN, NEW nonblock \in BOOLEAN,
         sock_tpcb[s] # NoPcb, Connect(s, refused, nonblock)
  PROVE  TcpIInv'
<1>1. PICK p \in Pcbs : p = sock_tpcb[s]
  BY NewSocket DEF Connect
<1> DEFINE e == IF refused THEN conn[p] ELSE [conn[p] EXCEPT !.st = "synsent"]
<1>2. /\ state[s] \in {"bound", "allocated"} /\ state' = [state EXCEPT ![s] = "connecting"]
      /\ UNCHANGED caller \/ Block("connect", s)
      /\ UNCHANGED <<sock_tpcb, rx, accept_queue>>
  BY DEF Connect
<1>3. /\ conn[p] \in Conns /\ conn[p].st = "closed" /\ conn[p].arg = s /\ Fresh(s)
      /\ conn[p].cbs = "err" /\ NoneYet(conn[p])
  BY <1>1, <1>2, NewSocket
<1>4. conn' = [conn EXCEPT ![p] = e]
  <2>1. conn \in [Pcbs -> Conns]
    BY TcpParts DEF TcpTypeOK
  <2>2. CASE refused
    BY <1>1, <2>1, <2>2 DEF Connect
  <2>3. CASE ~refused
    BY <1>1, <2>1, <2>3 DEF Connect
  <2> QED
    BY <2>2, <2>3
<1>5. e \in Conns /\ e.st \in {"closed", "synsent"} /\ e.cbs = "err" /\ e.arg = s /\ NoneYet(e)
  BY <1>3 DEF Conns, NoneYet
<1> HIDE DEF e
<1>6. /\ rx[s] \in Rings /\ RingExact(rx[s]) /\ rx' = [rx EXCEPT ![s] = rx[s]] /\ "connecting" \in States
      /\ \A t \in Sockets : t # s => state'[t] = state[t]
      /\ state'[s] = "connecting"
  <2>1. state'[s] = "connecting"
    BY <1>2, TcpParts DEF TcpTypeOK
  <2> QED
    BY <1>2, <2>1, SlotTyped DEF States
<1>7. CallerExact'
  <2>1. CASE Block("connect", s)
    BY <1>6, <2>1, BlockExact
  <2>2. CASE UNCHANGED caller
    BY <1>2, <1>6, <2>2, TcpParts, CallerStays
  <2> QED
    BY <1>2, <2>1, <2>2
<1> QED
  BY <1>1, <1>2, <1>3, <1>4, <1>5, <1>6, <1>7, CallbackInv

LEMMA ConnectResumeInv == ASSUME TcpIInv, ConnectResume PROVE TcpIInv'
<1>1. /\ caller.op = "connect" /\ UNCHANGED <<state, sock_tpcb, rx, accept_queue, conn>>
      /\ (state[caller.s] = "connecting" /\ Again) \/ caller' = Idle
  BY DEF ConnectResume
<1>2. CallerExact'
  BY <1>1, TcpParts, AgainExact, IdleExact
<1> QED
  BY <1>1, <1>2, CallerOnlyInv

\* What tcp_socket_write may mark on its pcb.
LEMMA TransmitInv ==
  ASSUME TcpIInv, NEW s \in Sockets, state[s] = "connected", Transmit(s),
         UNCHANGED <<state, sock_tpcb, rx, accept_queue>>, CallerExact'
  PROVE  TcpIInv'
<1>1. /\ rx[s] \in Rings /\ RingExact(rx[s]) /\ SocketExact(s)
      /\ rx' = [rx EXCEPT ![s] = rx[s]] /\ state' = [state EXCEPT ![s] = state[s]] /\ state[s] \in States
      /\ conn \in [Pcbs -> Conns] /\ sock_tpcb[s] \in Pcbs \cup {NoPcb}
  BY SlotTyped, TcpParts DEF TcpTypeOK
<1>2. PICK p \in Pcbs : p = sock_tpcb[s]
  BY <1>1 DEF SocketExact
<1>3. conn' = [q \in Pcbs |-> IF q = p /\ conn[q].st = "open"
                              THEN [conn[q] EXCEPT !.unacked = TRUE] ELSE conn[q]]
  BY <1>2 DEF Transmit
<1>4. CASE conn[p].st # "open"
  <2>1. conn' = conn
    BY <1>1, <1>3, <1>4
  <2> QED
    BY <2>1, CallerOnlyInv
<1>5. CASE conn[p].st = "open"
  <2> DEFINE e == [conn[p] EXCEPT !.unacked = TRUE]
  <2>1. conn' = [conn EXCEPT ![p] = e]
    BY <1>1, <1>3, <1>5
  <2>2. conn[p] \in Conns /\ conn[p] # FreePcb
    BY <1>1, <1>5, NoSocketIsNone
  <2>3. conn[p].cbs = "all" /\ conn[p].arg = s /\ Whole(rx[s], conn[p])
    BY <1>1, <1>2, <2>2 DEF SocketExact
  <2>4. e \in Conns /\ e.st = "open" /\ e.cbs = "all" /\ e.arg = s
        /\ e.next = conn[p].next /\ e.lost = conn[p].lost
    BY <1>5, <2>2, <2>3 DEF Conns
  <2> HIDE DEF e
  <2>5. /\ (e.st = "open" /\ e.cbs = "all" /\ e.arg = s /\ state[s] = "connected")
        /\ Whole(rx[s], e) /\ conn[p].arg = s /\ sock_tpcb[s] = p
        /\ UNCHANGED <<sock_tpcb, accept_queue>>
    BY <1>2, <2>3, <2>4 DEF Whole
  <2> QED
    BY ZenonT(60), <1>1, <2>1, <2>4, <2>5, CallbackInv
<1> QED
  BY <1>4, <1>5

LEMMA WriteInv ==
  ASSUME TcpIInv, NEW s \in Sockets, NEW full \in BOOLEAN, NEW nonblock \in BOOLEAN,
         Write(s, full, nonblock)
  PROVE  TcpIInv'
<1>1. /\ state[s] = "connected" /\ UNCHANGED <<state, sock_tpcb, rx, accept_queue>>
      /\ \/ Transmit(s) /\ UNCHANGED caller
         \/ UNCHANGED conn /\ Block("send", s)
  BY DEF Write
<1>2. CASE Transmit(s) /\ UNCHANGED caller
  <2>1. CallerExact'
    BY <1>1, <1>2, TcpParts, CallerStays
  <2> QED
    BY <1>1, <1>2, <2>1, TransmitInv
<1>3. CASE UNCHANGED conn /\ Block("send", s)
  <2>1. CallerExact'
    BY <1>3, BlockExact
  <2> QED
    BY <1>1, <1>3, <2>1, CallerOnlyInv
<1> QED
  BY <1>1, <1>2, <1>3

LEMMA WriteResumeInv ==
  ASSUME TcpIInv, NEW full \in BOOLEAN, WriteResume(full) PROVE TcpIInv'
<1>1. /\ caller.op = "send" /\ UNCHANGED <<state, sock_tpcb, rx, accept_queue>>
      /\ \/ caller' = Idle /\ UNCHANGED conn
         \/ Again /\ UNCHANGED conn
         \/ state[caller.s] = "connected" /\ caller' = Idle /\ Transmit(caller.s)
  BY DEF WriteResume
<1>2. PICK s \in Sockets : s = caller.s
  BY <1>1, TcpParts DEF CallerExact
<1>3. CallerExact'
  BY <1>1, TcpParts, AgainExact, IdleExact
<1>4. CASE UNCHANGED conn
  BY <1>1, <1>3, <1>4, CallerOnlyInv
<1>5. CASE state[caller.s] = "connected" /\ Transmit(caller.s)
  <2>1. state[s] = "connected" /\ Transmit(s)
    BY <1>2, <1>5
  <2> QED
    BY <1>1, <1>3, <2>1, TransmitInv
<1> QED
  BY <1>1, <1>4, <1>5

\* The ring of a socket gives bytes to the application.
LEMMA FetchInv ==
  ASSUME TcpIInv, NEW s \in Sockets, NEW n \in Nat,
         rx' = [rx EXCEPT ![s] = FetchAll(rx[s], n)],
         UNCHANGED <<state, sock_tpcb, accept_queue, conn>>, CallerExact'
  PROVE  TcpIInv'
<1> DEFINE r == FetchAll(rx[s], n)
<1>1. /\ rx[s] \in Rings /\ RingExact(rx[s]) /\ SocketExact(s)
      /\ state' = [state EXCEPT ![s] = state[s]] /\ state[s] \in States
      /\ sock_tpcb' = [sock_tpcb EXCEPT ![s] = sock_tpcb[s]] /\ sock_tpcb[s] \in Pcbs \cup {NoPcb}
      /\ TcpTypeOK /\ conn' \in [Pcbs -> Conns] /\ \A q \in Pcbs : PcbExact(q)
  BY SlotTyped, TcpParts DEF TcpTypeOK
<1>2. /\ r \in Rings /\ RingExact(r) /\ r.got + r.len = rx[s].got + rx[s].len
      /\ r.lost = rx[s].lost /\ rx[s].got \in Nat /\ rx[s].len \in Nat /\ r.got \in Nat /\ r.len \in Nat
      /\ rx[s].len = 0 => r.head = rx[s].head /\ r.len = 0 /\ r.got = rx[s].got
  BY <1>1, FetchAllExact, RingBounds
<1> HIDE DEF r
<1>3. rx' = [rx EXCEPT ![s] = r] /\ rx'[s] = r
  BY <1>1 DEF r, TcpTypeOK
<1>4. SocketExact(s)'
  <2>1. Fresh(s) => Fresh(s)'
    BY <1>2, <1>3 DEF Fresh
  <2>2. ASSUME NEW c \in Conns, Whole(rx[s], c) PROVE Whole(r, c)
    <3>1. rx[s].lost \in Nat
      BY <1>1, RingBounds
    <3> QED
      BY <1>2, <2>2, <3>1 DEF Whole
  <2> QED
    BY <1>1, <1>2, <1>3, <2>1, <2>2 DEF SocketExact, TcpTypeOK
<1>5. \A q \in Pcbs : PcbExact(q)'
  BY <1>1 DEF PcbExact, Of
<1> QED
  BY <1>1, <1>2, <1>3, <1>4, <1>5, SlotInv

LEMMA RecvInv ==
  ASSUME TcpIInv, NEW s \in Sockets, NEW n \in 1 .. BufSize, NEW nonblock \in BOOLEAN,
         Recv(s, n, nonblock)
  PROVE  TcpIInv'
<1>1. /\ UNCHANGED <<state, sock_tpcb, accept_queue, conn>>
      /\ \/ UNCHANGED rx /\ Block("recv", s)
         \/ rx' = [rx EXCEPT ![s] = FetchAll(rx[s], n)] /\ UNCHANGED caller
  BY DEF Recv
<1>2. CASE UNCHANGED rx /\ Block("recv", s)
  <2>1. CallerExact'
    BY <1>2, BlockExact
  <2> QED
    BY <1>1, <1>2, <2>1, CallerOnlyInv
<1>3. CASE rx' = [rx EXCEPT ![s] = FetchAll(rx[s], n)] /\ UNCHANGED caller
  <2>1. CallerExact' /\ n \in Nat
    BY <1>1, <1>3, TcpParts, CallerStays, BufSizePositive
  <2> QED
    BY <1>1, <1>3, <2>1, FetchInv
<1> QED
  BY <1>1, <1>2, <1>3

LEMMA RecvResumeInv ==
  ASSUME TcpIInv, NEW n \in 1 .. BufSize, RecvResume(n) PROVE TcpIInv'
<1>1. /\ caller.op = "recv" /\ UNCHANGED <<state, sock_tpcb, accept_queue, conn>>
      /\ \/ Again /\ UNCHANGED rx
         \/ caller' = Idle /\ rx' = [rx EXCEPT ![caller.s] = FetchAll(rx[caller.s], n)]
  BY DEF RecvResume
<1>2. PICK s \in Sockets : s = caller.s
  BY <1>1, TcpParts DEF CallerExact
<1>3. CallerExact' /\ n \in Nat
  BY <1>1, TcpParts, AgainExact, IdleExact, BufSizePositive
<1>4. CASE UNCHANGED rx
  BY <1>1, <1>3, <1>4, CallerOnlyInv
<1>5. CASE rx' = [rx EXCEPT ![caller.s] = FetchAll(rx[caller.s], n)]
  <2>1. rx' = [rx EXCEPT ![s] = FetchAll(rx[s], n)]
    BY <1>2, <1>5
  <2> QED
    BY <1>1, <1>3, <2>1, FetchInv
<1> QED
  BY <1>1, <1>4, <1>5

\* tcp_socket_close_int: the other slots and their pcbs are left alone.
LEMMA CloseIntInv ==
  ASSUME TcpIInv, NEW s \in Sockets, CloseInt(s), UNCHANGED <<accept_queue, caller>>,
         caller.op = "idle"
  PROVE  /\ TcpIInv'
         /\ \A t \in Sockets : t # s => state'[t] = state[t] /\ sock_tpcb'[t] = sock_tpcb[t]
         /\ state[s] \notin {"unallocated", "closing"}
         /\ state[s] = "allocated" => state'[s] = "unallocated"
<1>1. /\ TcpTypeOK /\ rx[s] \in Rings /\ RingExact(rx[s]) /\ SocketExact(s) /\ CallerExact
      /\ rx = [rx EXCEPT ![s] = rx[s]]
      /\ "closing" \in States /\ "unallocated" \in States
      /\ \A q \in Pcbs : PcbExact(q)
  BY SlotTyped, TcpParts DEF States
<1>2. CallerExact'
  BY <1>1 DEF CallerExact, ConnectAndAcceptWake
<1>3. ASSUME NEW p \in Pcbs, p = sock_tpcb[s], state[s] \in {"listening", "connected"},
             state' = [state EXCEPT ![s] = "closing"],
             conn' = IF conn[p].st = "open" THEN [conn EXCEPT ![p] = Shut(@, rx[s].len > 0, "finwait")]
                     ELSE [conn EXCEPT ![p] = FreePcb],
             UNCHANGED <<sock_tpcb, rx>>
      PROVE  TcpIInv'
  <2>1. CASE conn[p] = FreePcb
    <3>1. conn' = conn
      BY <1>1, <1>3, <2>1, NoSocketIsNone DEF TcpTypeOK
    <3>2. state'[s] = "closing" /\ \A t \in Sockets : t # s => state'[t] = state[t]
      BY <1>1, <1>3 DEF TcpTypeOK
    <3>3. SocketExact(s)'
      BY <3>2 DEF SocketExact
    <3>4. \A q \in Pcbs : conn[q].arg = s /\ sock_tpcb[s] = q => PcbExact(q)'
      BY <1>3, <2>1, NoSocketIsNone
    <3>5. sock_tpcb' = [sock_tpcb EXCEPT ![s] = sock_tpcb[s]] /\ conn' \in [Pcbs -> Conns]
      BY <1>1, <1>3, <3>1 DEF TcpTypeOK
    <3> QED
      BY <1>1, <1>2, <1>3, <3>1, <3>3, <3>4, <3>5, SlotInv
  <2>2. CASE conn[p] # FreePcb
    <3> DEFINE e == IF conn[p].st = "open" /\ ~(rx[s].len > 0)
                    THEN [conn[p] EXCEPT !.st = "finwait"] ELSE FreePcb
    <3>1. conn[p].arg = s /\ conn[p] \in Conns /\ (conn[p].st = "open" => conn[p].cbs = "all")
      BY <1>1, <1>3, <2>2 DEF SocketExact, TcpTypeOK
    <3>2. conn' = [conn EXCEPT ![p] = e]
      BY <1>1, <1>3 DEF Shut, TcpTypeOK
    <3>3. e \in Conns /\ (e = FreePcb \/ (e.st = "finwait" /\ e.cbs = "all" /\ e.arg = s))
      BY <3>1, FreePcbTyped DEF Conns
    <3> HIDE DEF e
    <3>4. conn[p].arg = s /\ sock_tpcb[s] = p /\ rx' = [rx EXCEPT ![s] = rx[s]]
          /\ UNCHANGED <<sock_tpcb, accept_queue>>
          /\ state' = [state EXCEPT ![s] = "closing"]
          /\ rx[s] \in Rings /\ RingExact(rx[s]) /\ "closing" \in States
      BY <1>1, <1>3, <3>1
    <3>5. \/ e = FreePcb
          \/ (e.st = "finwait" /\ e.cbs = "all" /\ e.arg = s /\ "closing" = "closing")
      BY <3>3
    <3> QED
      BY <1>2, <3>2, <3>3, <3>4, <3>5, CallbackInv
  <2> QED
    BY <2>1, <2>2
<1>4. ASSUME NEW p \in Pcbs \cup {NoPcb}, p = sock_tpcb[s],
             \/ state[s] = "connecting" /\ conn' = [conn EXCEPT ![p] = FreePcb]
             \/ state[s] \in {"allocated", "bound", "error", "closed_by_peer"} /\ UNCHANGED conn,
             FreeSlot(s)
      PROVE  TcpIInv'
  <2>1. /\ state' = [state EXCEPT ![s] = "unallocated"] /\ sock_tpcb' = [sock_tpcb EXCEPT ![s] = NoPcb]
        /\ rx' = [rx EXCEPT ![s] = EmptyRing]
    BY <1>4 DEF FreeSlot
  <2>2. /\ state'[s] = "unallocated" /\ sock_tpcb'[s] = NoPcb /\ rx'[s] = EmptyRing
    BY <1>1, <2>1 DEF TcpTypeOK
  <2>3. SocketExact(s)'
    BY <2>2, RingTyped DEF SocketExact, Fresh
  <2>4. CASE state[s] = "connecting" /\ conn' = [conn EXCEPT ![p] = FreePcb]
    <3>1. p \in Pcbs /\ conn[p].arg = s
      BY <1>1, <1>4, <2>4 DEF SocketExact
    <3>2. conn'[p] = FreePcb /\ \A q \in Pcbs : q # p => conn'[q] = conn[q]
      BY <1>1, <2>4, <3>1 DEF TcpTypeOK
    <3>3. conn' \in [Pcbs -> Conns]
      BY <1>1, <2>4, <3>1, FreePcbTyped DEF TcpTypeOK
    <3>4. PcbExact(p)'
      BY <3>2, NoSocketIsNone DEF PcbExact
    <3>5. /\ \A q \in Pcbs : conn'[q] = conn[q] \/ (conn[q].arg = s /\ sock_tpcb[s] = q)
          /\ \A q \in Pcbs : conn[q].arg = s /\ sock_tpcb[s] = q => PcbExact(q)'
      BY <1>4, <3>1, <3>2, <3>4
    <3> QED
      BY <1>1, <1>2, <2>1, <2>3, <3>3, <3>5, RingTyped, SlotInv
  <2>5. CASE state[s] \in {"allocated", "bound", "error", "closed_by_peer"} /\ UNCHANGED conn
    <3>1. \A q \in Pcbs : conn[q].arg = s /\ sock_tpcb[s] = q => PcbExact(q)'
      BY <1>1, <2>5 DEF PcbExact, Of
    <3>2. conn' \in [Pcbs -> Conns]
      BY <1>1, <2>5 DEF TcpTypeOK
    <3> QED
      BY <1>1, <1>2, <2>1, <2>3, <2>5, <3>1, <3>2, RingTyped, SlotInv
  <2> QED
    BY <1>4, <2>4, <2>5
<1>5. PICK p \in Pcbs \cup {NoPcb} : p = sock_tpcb[s]
  BY <1>1 DEF TcpTypeOK
<1>6. \/ /\ state[s] \in {"listening", "connected"}
         /\ state' = [state EXCEPT ![s] = "closing"]
         /\ conn' = IF conn[p].st = "open" THEN [conn EXCEPT ![p] = Shut(@, rx[s].len > 0, "finwait")]
                    ELSE [conn EXCEPT ![p] = FreePcb]
         /\ UNCHANGED <<sock_tpcb, rx>>
      \/ state[s] = "connecting" /\ conn' = [conn EXCEPT ![p] = FreePcb] /\ FreeSlot(s)
      \/ /\ state[s] \in {"allocated", "bound", "error", "closed_by_peer"}
         /\ FreeSlot(s) /\ UNCHANGED conn
  BY <1>5 DEF CloseInt
<1>7. TcpIInv'
  <2>1. CASE state[s] \in {"listening", "connected"}
    <3>1. p \in Pcbs
      BY <1>1, <1>5, <2>1 DEF SocketExact
    <3>2. /\ state' = [state EXCEPT ![s] = "closing"]
          /\ conn' = IF conn[p].st = "open" THEN [conn EXCEPT ![p] = Shut(@, rx[s].len > 0, "finwait")]
                     ELSE [conn EXCEPT ![p] = FreePcb]
          /\ UNCHANGED <<sock_tpcb, rx>>
      BY <1>6, <2>1
    <3> QED
      BY <1>3, <1>5, <2>1, <3>1, <3>2
  <2>2. CASE ~(state[s] \in {"listening", "connected"})
    BY <1>4, <1>5, <1>6, <2>2
  <2> QED
    BY <2>1, <2>2
<1>8. \A t \in Sockets : t # s => state'[t] = state[t] /\ sock_tpcb'[t] = sock_tpcb[t]
  BY <1>1, <1>6 DEF FreeSlot, TcpTypeOK
<1>9. state[s] = "allocated" => state'[s] = "unallocated"
  BY <1>1, <1>6 DEF FreeSlot, TcpTypeOK
<1> QED
  BY <1>6, <1>7, <1>8, <1>9

-----------------------------------------------------------------------------
(* Sockets: a slot is taken.                                               *)

LEMMA FirstFreeSlot ==
  ASSUME FreeSlots # {} PROVE FirstFree \in Sockets /\ state[FirstFree] = "unallocated"
<1>1. FreeSlots \subseteq Nat
  BY TcpSocketsAssumption DEF FreeSlots, Sockets
<1>2. \E s \in FreeSlots : \A t \in FreeSlots : s <= t
  BY <1>1, Least
<1>3. FirstFree \in FreeSlots
  BY <1>2 DEF FirstFree
<1> QED
  BY <1>3 DEF FreeSlots

\* A free slot gets a pcb that no slot has.
LEMMA NewSlotInv ==
  ASSUME TcpIInv, NEW s \in Sockets, state[s] = "unallocated",
         NEW q \in Pcbs, \A t \in Sockets : sock_tpcb[t] # q,
         NEW e \in Conns, NEW st \in States, NEW r \in Rings, RingExact(r),
         state' = [state EXCEPT ![s] = st], sock_tpcb' = [sock_tpcb EXCEPT ![s] = q],
         rx' = [rx EXCEPT ![s] = r], conn' = [conn EXCEPT ![q] = e],
         accept_queue' \in [Sockets -> Seq(Pcbs)],
         \/ st = "allocated" /\ e.st = "closed" /\ e.arg = s /\ e.cbs = "err" /\ NoneYet(e) /\ r = rx[s]
         \/ st \in {"connected", "closing"} /\ e = FreePcb
         \/ st = "connected" /\ e.st = "open" /\ e.arg = s /\ e.cbs = "all" /\ Whole(r, e)
         \/ st = "closing" /\ e.st = "finwait" /\ e.arg = s /\ e.cbs = "all",
         QueuesExact', CallerExact'
  PROVE  TcpIInv'
<1>1. /\ TcpTypeOK
      /\ \A x \in Pcbs : PcbExact(x)
      /\ \A t \in Sockets : SocketExact(t) /\ RingExact(rx[t])
  BY TcpParts
<1>2. /\ state'[s] = st /\ rx'[s] = r /\ sock_tpcb'[s] = q
      /\ \A t \in Sockets : t # s => state'[t] = state[t] /\ rx'[t] = rx[t] /\ sock_tpcb'[t] = sock_tpcb[t]
      /\ q # NoPcb
  BY <1>1, TcpSocketsAssumption DEF TcpTypeOK
<1>3. conn'[q] = e /\ \A x \in Pcbs : x # q => conn'[x] = conn[x]
  BY <1>1 DEF TcpTypeOK
<1>4. TcpTypeOK'
  <2>1. state' \in [Sockets -> States]
    BY <1>1 DEF TcpTypeOK
  <2>2. rx' \in [Sockets -> Rings]
    BY <1>1 DEF TcpTypeOK
  <2>3. sock_tpcb' \in [Sockets -> Pcbs \cup {NoPcb}]
    BY <1>1 DEF TcpTypeOK
  <2>4. conn' \in [Pcbs -> Conns]
    BY <1>1 DEF TcpTypeOK
  <2> QED
    BY <2>1, <2>2, <2>3, <2>4 DEF TcpTypeOK
<1>5. sock_tpcb[s] = NoPcb /\ Fresh(s)
  BY <1>1 DEF SocketExact
<1>6. ASSUME NEW x \in Pcbs PROVE PcbExact(x)'
  <2>1. CASE x = q
    <3>1. ASSUME NEW y, e.arg = s, st = y PROVE Of(x, y)'
      BY <1>2, <1>3, <2>1, <3>1 DEF Of
    <3> QED
      BY <1>3, <2>1, <3>1, NoSocketIsNone DEF PcbExact
  <2>2. CASE x # q
    <3>1. conn'[x] = conn[x]
      BY <1>3, <2>2
    <3>2. ASSUME NEW y, Of(x, y) PROVE Of(x, y)'
      BY <1>2, <1>5, <3>1, <3>2, TcpSocketsAssumption DEF Of
    <3> QED
      BY <1>1, <3>1, <3>2 DEF PcbExact
  <2> QED
    BY <2>1, <2>2
<1>7. SocketExact(s)'
  <2>1. st = "allocated" => Fresh(s)'
    BY <1>2, <1>5 DEF Fresh
  <2> QED
    BY <1>2, <1>3, <2>1 DEF SocketExact
<1>8. ASSUME NEW t \in Sockets, t # s PROVE SocketExact(t)'
  <2>1. state'[t] = state[t] /\ rx'[t] = rx[t] /\ sock_tpcb'[t] = sock_tpcb[t]
    BY <1>2, <1>8
  <2>2. SocketExact(t) /\ sock_tpcb[t] \in Pcbs \cup {NoPcb} /\ sock_tpcb[t] # q
    BY <1>1 DEF TcpTypeOK
  <2>3. CASE sock_tpcb[t] = NoPcb
    BY <2>1, <2>2, <2>3 DEF SocketExact, Fresh
  <2>4. CASE sock_tpcb[t] \in Pcbs
    <3>1. conn'[sock_tpcb[t]] = conn[sock_tpcb[t]]
      BY <1>3, <2>2, <2>4
    <3> QED
      BY <2>1, <2>2, <3>1 DEF SocketExact, Fresh
  <2> QED
    BY <2>2, <2>3, <2>4
<1>9. ASSUME NEW t \in Sockets PROVE SocketExact(t)' /\ RingExact(rx'[t])
  BY <1>1, <1>2, <1>7, <1>8
<1> QED
  BY <1>4, <1>6, <1>9 DEF TcpIInv

LEMMA TailFacts ==
  ASSUME NEW x \in Seq(Pcbs), x # <<>>, NEW i \in DOMAIN Tail(x)
  PROVE  i \in Nat /\ i > 0 /\ i + 1 \in DOMAIN x /\ Tail(x)[i] = x[i + 1]
<1>1. Len(x) \in Nat /\ DOMAIN x = 1 .. Len(x) /\ Len(Tail(x)) = Len(x) - 1 /\ Tail(x) \in Seq(Pcbs)
  BY HeadTailProperties
<1>2. DOMAIN Tail(x) = 1 .. Len(x) - 1
  BY <1>1
<1>3. i \in Nat /\ i > 0 /\ i + 1 \in DOMAIN x
  BY <1>1, <1>2
<1>4. Tail(x)[i] = x[i + 1]
  BY <1>2, HeadTailProperties
<1> QED
  BY <1>3, <1>4

\* The oldest connection leaves the queue of its socket.
LEMMA TailQueues ==
  ASSUME TcpTypeOK, QueuesExact, NEW ls \in Sockets, accept_queue[ls] # <<>>,
         NEW q, q = Head(accept_queue[ls]),
         accept_queue' = [accept_queue EXCEPT ![ls] = Tail(@)]
  PROVE  /\ q \in Pcbs /\ \A t \in Sockets : sock_tpcb[t] # q
         /\ conn[q] = FreePcb \/ (conn[q].st = "open" /\ conn[q].cbs = "none")
         /\ accept_queue' \in [Sockets -> Seq(Pcbs)]
         /\ \A t \in Sockets : accept_queue[t] = <<>> => accept_queue'[t] = <<>>
         /\ (/\ \A x \in Pcbs : x # q => conn'[x] = conn[x]
             /\ \A t \in Sockets : sock_tpcb'[t] = sock_tpcb[t] \/ sock_tpcb'[t] = q) => QueuesExact'
<1>1. \A t \in Sockets : accept_queue[t] \in Seq(Pcbs)
  BY DEF TcpTypeOK
<1>2. 1 \in DOMAIN accept_queue[ls] /\ q = accept_queue[ls][1] /\ q \in Pcbs
  BY <1>1
<1>3. /\ \A t \in Sockets : sock_tpcb[t] # q
      /\ conn[q] = FreePcb \/ (conn[q].st = "open" /\ conn[q].cbs = "none")
      /\ \A u \in Sockets : \A j \in DOMAIN accept_queue[u] : accept_queue[u][j] = q => u = ls /\ j = 1
  BY <1>2 DEF QueuesExact
<1>4. Tail(accept_queue[ls]) \in Seq(Pcbs)
  BY <1>1
<1>5. /\ accept_queue'[ls] = Tail(accept_queue[ls])
      /\ \A t \in Sockets : t # ls => accept_queue'[t] = accept_queue[t]
  BY DEF TcpTypeOK
<1>6. accept_queue' \in [Sockets -> Seq(Pcbs)]
  BY <1>4 DEF TcpTypeOK
<1> DEFINE o(t) == IF t = ls THEN 1 ELSE 0
<1>7. ASSUME NEW t \in Sockets, NEW i \in DOMAIN accept_queue'[t]
      PROVE  /\ i \in Nat /\ i > 0 /\ i + o(t) \in DOMAIN accept_queue[t]
             /\ accept_queue'[t][i] = accept_queue[t][i + o(t)]
  <2>1. CASE t = ls
    <3>1. PICK x \in Seq(Pcbs) : x = accept_queue[ls]
      BY <1>1
    <3>2. x # <<>> /\ i \in DOMAIN Tail(x) /\ accept_queue'[t] = Tail(x)
      BY <1>5, <1>7, <2>1, <3>1
    <3>3. i \in Nat /\ i > 0 /\ i + 1 \in DOMAIN x /\ Tail(x)[i] = x[i + 1]
      BY <3>2, TailFacts
    <3> QED
      BY <2>1, <3>1, <3>2, <3>3
  <2>2. CASE t # ls
    BY <1>1, <1>5, <2>2
  <2> QED
    BY <2>1, <2>2
<1>8. ASSUME \A x \in Pcbs : x # q => conn'[x] = conn[x],
             \A t \in Sockets : sock_tpcb'[t] = sock_tpcb[t] \/ sock_tpcb'[t] = q
      PROVE  QueuesExact'
  <2> SUFFICES ASSUME NEW t \in Sockets, NEW i \in DOMAIN accept_queue'[t]
               PROVE  LET x == accept_queue'[t][i] IN
                      /\ conn'[x] = FreePcb \/ (conn'[x].st = "open" /\ conn'[x].cbs = "none")
                      /\ \A u \in Sockets : sock_tpcb'[u] # x
                      /\ \A u \in Sockets : \A j \in DOMAIN accept_queue'[u] :
                           accept_queue'[u][j] = x => u = t /\ j = i
    BY DEF QueuesExact
  <2> DEFINE x == accept_queue'[t][i]
             k == i + o(t)
  <2>1. i \in Nat /\ i > 0 /\ k \in DOMAIN accept_queue[t] /\ x = accept_queue[t][k] /\ x \in Pcbs
    BY <1>1, <1>7
  <2>2. /\ conn[x] = FreePcb \/ (conn[x].st = "open" /\ conn[x].cbs = "none")
        /\ \A u \in Sockets : sock_tpcb[u] # x
        /\ \A u \in Sockets : \A j \in DOMAIN accept_queue[u] :
             accept_queue[u][j] = x => u = t /\ j = k
    BY <2>1 DEF QueuesExact
  <2>3. x # q
    <3>1. t = ls => k # 1
      BY <2>1
    <3> QED
      BY <1>3, <2>1, <3>1
  <2>4. ASSUME NEW u \in Sockets, NEW j \in DOMAIN accept_queue'[u], accept_queue'[u][j] = x
        PROVE  u = t /\ j = i
    <3>1. j \in Nat /\ j + o(u) \in DOMAIN accept_queue[u] /\ accept_queue[u][j + o(u)] = x
      BY <1>7, <2>4
    <3>2. u = t /\ j + o(u) = k
      BY <2>2, <3>1
    <3> QED
      BY <2>1, <3>1, <3>2
  <2> HIDE DEF x, k
  <2>5. conn'[x] = conn[x] /\ \A u \in Sockets : sock_tpcb'[u] # x
    BY <1>8, <2>1, <2>2, <2>3
  <2> QED
    BY <2>2, <2>4, <2>5 DEF x
<1>9. \A t \in Sockets : accept_queue[t] = <<>> => accept_queue'[t] = <<>>
  BY <1>5
<1> QED
  BY <1>2, <1>3, <1>6, <1>8, <1>9

LEMMA CreateInv == ASSUME TcpIInv, NEW p \in Pcbs, Create(p) PROVE TcpIInv'
<1>0. PICK s \in Sockets : s = FirstFree /\ state[s] = "unallocated"
  BY FirstFreeSlot DEF Create
<1> DEFINE e == [FreePcb EXCEPT !.st = "closed", !.arg = s, !.cbs = "err"]
<1>1. /\ Unused(p) /\ state' = [state EXCEPT ![s] = "allocated"]
      /\ sock_tpcb' = [sock_tpcb EXCEPT ![s] = p]
      /\ accept_queue' = [accept_queue EXCEPT ![s] = <<>>]
      /\ conn' = [conn EXCEPT ![p] = e]
      /\ UNCHANGED <<rx, caller>>
  BY <1>0 DEF Create
<1>2. /\ TcpTypeOK /\ QueuesExact /\ CallerExact /\ rx[s] \in Rings /\ RingExact(rx[s])
      /\ rx' = [rx EXCEPT ![s] = rx[s]] /\ "allocated" \in States
  BY <1>1, TcpParts, SlotTyped DEF States
<1>3. e \in Conns /\ e.st = "closed" /\ e.arg = s /\ e.cbs = "err" /\ NoneYet(e)
  BY FreePcbTyped, NoSocketIsNone DEF Conns, NoneYet
<1> HIDE DEF e
<1>4. /\ \A t \in Sockets : sock_tpcb[t] # p
      /\ \A t \in Sockets : \A i \in DOMAIN accept_queue[t] : accept_queue[t][i] # p
  BY <1>1 DEF Unused, Queued
<1>5. /\ accept_queue'[s] = <<>> /\ \A t \in Sockets : t # s => accept_queue'[t] = accept_queue[t]
      /\ accept_queue' \in [Sockets -> Seq(Pcbs)]
  <2>1. accept_queue'[s] = <<>> /\ \A t \in Sockets : t # s => accept_queue'[t] = accept_queue[t]
    BY <1>1, <1>2 DEF TcpTypeOK
  <2>2. <<>> \in Seq(Pcbs)
    OBVIOUS
  <2>3. accept_queue' \in [Sockets -> Seq(Pcbs)]
    BY <1>1, <1>2, <2>2 DEF TcpTypeOK
  <2> QED
    BY <2>1, <2>3
<1>6. \A t \in Sockets : \A i \in DOMAIN accept_queue'[t] :
        t # s /\ i \in DOMAIN accept_queue[t] /\ accept_queue'[t][i] = accept_queue[t][i]
  BY <1>5
<1>7. /\ \A t \in Sockets : sock_tpcb'[t] = sock_tpcb[t] \/ sock_tpcb'[t] = p
      /\ \A x \in Pcbs : x # p => conn'[x] = conn[x]
      /\ \A t \in Sockets : \A i \in DOMAIN accept_queue[t] : accept_queue[t][i] \in Pcbs
  BY <1>1, <1>2 DEF TcpTypeOK
<1>8. QueuesExact'
  <2> SUFFICES ASSUME NEW t \in Sockets, NEW i \in DOMAIN accept_queue'[t]
               PROVE  LET x == accept_queue'[t][i] IN
                      /\ conn'[x] = FreePcb \/ (conn'[x].st = "open" /\ conn'[x].cbs = "none")
                      /\ \A u \in Sockets : sock_tpcb'[u] # x
                      /\ \A u \in Sockets : \A j \in DOMAIN accept_queue'[u] :
                           accept_queue'[u][j] = x => u = t /\ j = i
    BY DEF QueuesExact
  <2>1. i \in DOMAIN accept_queue[t] /\ accept_queue'[t][i] = accept_queue[t][i]
    BY <1>6
  <2>2. LET x == accept_queue[t][i] IN
        /\ x \in Pcbs /\ x # p
        /\ conn[x] = FreePcb \/ (conn[x].st = "open" /\ conn[x].cbs = "none")
        /\ \A u \in Sockets : sock_tpcb[u] # x
        /\ \A u \in Sockets : \A j \in DOMAIN accept_queue[u] :
             accept_queue[u][j] = x => u = t /\ j = i
    BY <1>2, <1>4, <1>7, <2>1 DEF QueuesExact
  <2> QED
    BY <1>6, <1>7, <2>1, <2>2
<1>9. CallerExact'
  <2>1. \A t \in Sockets : state[t] = "connecting" => state'[t] = "connecting"
    BY <1>0, <1>1, <1>2 DEF TcpTypeOK
  <2>2. \A t \in Sockets : accept_queue[t] = <<>> => accept_queue'[t] = <<>>
    BY <1>5
  <2> QED
    BY <1>1, <1>2, <2>1, <2>2, CallerStays
<1> QED
  BY <1>0, <1>1, <1>2, <1>3, <1>4, <1>5, <1>8, <1>9, NewSlotInv

LEMMA CreateFailInv == ASSUME TcpIInv, CreateFail PROVE TcpIInv'
<1>0. PICK s \in Sockets : s = FirstFree /\ state[s] = "unallocated"
  BY FirstFreeSlot DEF CreateFail
<1>1. /\ state' = [state EXCEPT ![s] = "allocated"]
      /\ UNCHANGED <<sock_tpcb, rx, accept_queue, caller, conn>>
  BY <1>0 DEF CreateFail
<1>2. /\ TcpTypeOK /\ CallerExact /\ rx[s] \in Rings /\ RingExact(rx[s]) /\ SocketExact(s)
      /\ rx' = [rx EXCEPT ![s] = rx[s]] /\ "allocated" \in States
      /\ sock_tpcb' = [sock_tpcb EXCEPT ![s] = sock_tpcb[s]] /\ sock_tpcb[s] \in Pcbs \cup {NoPcb}
      /\ \A x \in Pcbs : PcbExact(x)
  BY <1>1, TcpParts, SlotTyped DEF States
<1>3. state'[s] = "allocated" /\ \A t \in Sockets : t # s => state'[t] = state[t]
  BY <1>1, <1>2 DEF TcpTypeOK
<1>4. SocketExact(s)'
  BY <1>0, <1>1, <1>2, <1>3 DEF SocketExact, Fresh
<1>5. \A x \in Pcbs : conn[x].arg = s /\ sock_tpcb[s] = x => PcbExact(x)'
  BY <1>0, <1>2, TcpSocketsAssumption DEF SocketExact
<1>6. CallerExact'
  BY <1>0, <1>1, <1>2, <1>3, CallerStays
<1>7. conn' \in [Pcbs -> Conns]
  BY <1>1, <1>2 DEF TcpTypeOK
<1> QED
  BY <1>1, <1>2, <1>4, <1>5, <1>6, <1>7, SlotInv

\* tcp_socket_accept with a connection in the queue.
LEMMA TakeInv ==
  ASSUME TcpIInv, NEW ls \in Sockets, NEW hasFd \in BOOLEAN, accept_queue[ls] # <<>>,
         Take(ls, hasFd), UNCHANGED caller \/ caller' = Idle
  PROVE  TcpIInv'
<1>1. /\ TcpTypeOK /\ QueuesExact /\ CallerExact
  BY TcpParts
<1> DEFINE qq == Head(accept_queue[ls])
<1>2. PICK q : q = qq
  OBVIOUS
<1>3. accept_queue' = [accept_queue EXCEPT ![ls] = Tail(@)]
  BY DEF Take
<1>4. /\ q \in Pcbs /\ \A t \in Sockets : sock_tpcb[t] # q
      /\ conn[q] = FreePcb \/ (conn[q].st = "open" /\ conn[q].cbs = "none")
      /\ accept_queue' \in [Sockets -> Seq(Pcbs)]
      /\ \A t \in Sockets : accept_queue[t] = <<>> => accept_queue'[t] = <<>>
      /\ (/\ \A x \in Pcbs : x # q => conn'[x] = conn[x]
          /\ \A t \in Sockets : sock_tpcb'[t] = sock_tpcb[t] \/ sock_tpcb'[t] = q) => QueuesExact'
  BY <1>1, <1>2, <1>3, TailQueues
<1>5. CASE FreeSlots = {}
  <2>1. conn' = [conn EXCEPT ![q] = FreePcb] /\ UNCHANGED <<state, sock_tpcb, rx>>
    BY <1>2, <1>5 DEF Take
  <2>2. QueuesExact'
    BY <1>1, <1>4, <2>1 DEF TcpTypeOK
  <2>3. CallerExact'
    BY <1>1, <1>4, <2>1, CallerStays, IdleExact
  <2> QED
    BY <1>4, <2>1, <2>2, <2>3, FreePcbTyped, DetachedPcbInv
<1>6. CASE FreeSlots # {}
  <2>0. PICK s \in Sockets : s = FirstFree /\ state[s] = "unallocated"
    BY <1>6, FirstFreeSlot
  <2> DEFINE st == IF hasFd THEN "connected" ELSE "closing"
             e == IF conn[q].st = "open"
                  THEN [conn[q] EXCEPT !.arg = s, !.cbs = "all", !.st = IF hasFd THEN "open" ELSE "finwait"]
                  ELSE conn[q]
             r == [rx[s] EXCEPT !.lost = conn[q].lost]
  <2>1. /\ state' = [state EXCEPT ![s] = st] /\ sock_tpcb' = [sock_tpcb EXCEPT ![s] = q]
        /\ conn' = [conn EXCEPT ![q] = e] /\ rx' = [rx EXCEPT ![s] = r]
    <3>1. /\ state' = [state EXCEPT ![s] = st] /\ sock_tpcb' = [sock_tpcb EXCEPT ![s] = q]
      BY <1>2, <1>6, <2>0 DEF Take
    <3>2. conn' = [conn EXCEPT ![q] = e]
      BY <1>1, <1>2, <1>4, <1>6, <2>0 DEF Take, TcpTypeOK
    <3>3. rx' = [rx EXCEPT ![s] = r]
      BY <1>1, <1>2, <1>6, <2>0 DEF Take, TcpTypeOK
    <3> QED
      BY <3>1, <3>2, <3>3
  <2>2. conn[q] \in Conns /\ conn[q].lost \in Nat /\ conn[q].next = conn[q].lost + 1
    <3>1. conn[q] \in Conns
      BY <1>1, <1>4 DEF TcpTypeOK
    <3>2. conn[q].lost \in Nat
      BY <3>1 DEF Conns
    <3>3. conn[q].next = conn[q].lost + 1
      BY <1>4, TcpParts, NoSocketIsNone DEF PcbExact, NoneYet
    <3> QED
      BY <3>1, <3>2, <3>3
  <2>3. /\ e \in Conns /\ e.next = conn[q].next /\ e.lost = conn[q].lost
        /\ \/ e = FreePcb
           \/ e.arg = s /\ e.cbs = "all" /\ e.st = IF hasFd THEN "open" ELSE "finwait"
    BY <1>4, <2>2, NoSocketIsNone DEF Conns
  <2>4. rx[s] \in Rings /\ RingExact(rx[s]) /\ Fresh(s)
    BY <2>0, SlotTyped DEF SocketExact
  <2>5. r \in Rings /\ r.head = rx[s].head /\ r.len = 0 /\ r.got = 0 /\ r.lost = conn[q].lost /\ r.buf = rx[s].buf
    BY <2>2, <2>4 DEF Rings, Fresh
  <2>6. st \in States /\ st = IF hasFd THEN "connected" ELSE "closing"
    BY DEF States
  <2> HIDE DEF st, e, r
  <2>7. RingExact(r)
    <3>1. ASSUME NEW i \in Nat, i < BufSize PROVE r.buf[Cell(r.head, i)] = 0 /\ ~(i < 0)
      BY <2>4, <2>5, <3>1 DEF RingExact, Fresh
    <3> QED
      BY <2>5, <3>1 DEF RingExact
  <2>8. Whole(r, e)
    BY <2>2, <2>3, <2>5 DEF Whole
  <2>9. QueuesExact'
    BY <1>1, <1>4, <2>1 DEF TcpTypeOK
  <2>10. CallerExact'
    <3>1. \A t \in Sockets : state[t] = "connecting" => state'[t] = "connecting"
      BY <1>1, <2>0, <2>1 DEF TcpTypeOK
    <3> QED
      BY <1>1, <1>4, <3>1, CallerStays, IdleExact
  <2>11. \/ st \in {"connected", "closing"} /\ e = FreePcb
         \/ st = "connected" /\ e.st = "open" /\ e.arg = s /\ e.cbs = "all" /\ Whole(r, e)
         \/ st = "closing" /\ e.st = "finwait" /\ e.arg = s /\ e.cbs = "all"
    BY <2>3, <2>6, <2>8
  <2> QED
    BY <1>4, <2>0, <2>1, <2>3, <2>5, <2>6, <2>7, <2>9, <2>10, <2>11, NewSlotInv
<1> QED
  BY <1>5, <1>6

LEMMA AcceptInv ==
  ASSUME TcpIInv, NEW ls \in Sockets, NEW hasFd \in BOOLEAN, NEW nonblock \in BOOLEAN,
         Accept(ls, hasFd, nonblock)
  PROVE  TcpIInv'
<1>1. CASE accept_queue[ls] # <<>>
  <2>1. Take(ls, hasFd) /\ UNCHANGED caller /\ CallerExact
    BY <1>1, TcpParts DEF Accept
  <2> QED
    BY <1>1, <2>1, TakeInv
<1>2. CASE accept_queue[ls] = <<>>
  <2>1. Block("accept", ls) /\ UNCHANGED <<state, sock_tpcb, rx, accept_queue, conn>>
    BY <1>2 DEF Accept
  <2>2. CallerExact'
    BY <1>2, <2>1, BlockExact
  <2> QED
    BY <2>1, <2>2, CallerOnlyInv
<1> QED
  BY <1>1, <1>2

LEMMA AcceptResumeInv ==
  ASSUME TcpIInv, NEW hasFd \in BOOLEAN, AcceptResume(hasFd) PROVE TcpIInv'
<1>1. PICK ls \in Sockets : ls = caller.s
  BY TcpParts DEF AcceptResume, CallerExact
<1>2. caller' = Idle
  BY DEF AcceptResume
<1>3. CASE accept_queue[ls] # <<>>
  <2>1. Take(ls, hasFd)
    BY <1>1, <1>3 DEF AcceptResume
  <2> QED
    BY <1>2, <1>3, <2>1, TakeInv
<1>4. CASE accept_queue[ls] = <<>>
  <2>1. UNCHANGED <<state, sock_tpcb, rx, accept_queue, conn>>
    BY <1>1, <1>4 DEF AcceptResume
  <2> QED
    BY <1>2, <2>1, IdleExact, CallerOnlyInv
<1> QED
  BY <1>3, <1>4

-----------------------------------------------------------------------------
(* Sockets: descriptors and counts.                                        *)

LEMMA FirstFreeFdFree ==
  ASSUME FreeFds # {} PROVE FirstFreeFd \in Fds /\ fd_socket[FirstFreeFd] = NoSocket
<1>1. FreeFds \subseteq Nat
  BY SocketFdsAssumption DEF FreeFds
<1>2. \E f \in FreeFds : \A g \in FreeFds : f <= g
  BY <1>1, Least
<1>3. FirstFreeFd \in FreeFds
  BY <1>2 DEF FirstFreeFd
<1> QED
  BY <1>3 DEF FreeFds

LEMMA NamesCounted ==
  ASSUME NEW s \in Sockets
  PROVE  /\ IsFiniteSet(Names(s)) /\ Cardinality(Names(s)) \in Nat
         /\ Cardinality(Names(s)) = 0 <=> Names(s) = {}
<1>1. IsFiniteSet(Names(s))
  BY SocketFdsAssumption, FS_Subset DEF Names
<1> QED
  BY <1>1, FS_CardinalityType, FS_EmptySet

\* A socket that nothing changes keeps what its count says.
LEMMA FdsStay ==
  ASSUME FdsIInv, UNCHANGED <<fd_socket, socket_refcount>>,
         \A s \in Sockets : Names(s) # {} =>
             sock_tpcb'[s] # NoPcb /\ state'[s] # "unallocated" /\ state'[s] # "closing",
         \A s \in Sockets : Names(s) = {} /\ state[s] = "allocated" => state'[s] = "allocated"
  PROVE  FdsIInv'
<1>1. \A s \in Sockets : Names(s)' = Names(s)
  BY DEF Names
<1> QED
  BY <1>1 DEF FdsIInv, FdsTypeOK, NamedAlive, CountsExact

\* A descriptor counts for u now and for w no more.
CountMoves(u, w) ==
    /\ socket_refcount' \in [Sockets -> Int]
    /\ \A x \in Sockets :
        /\ x = u /\ x # w => socket_refcount'[x] = socket_refcount[x] + 1
        /\ x # u /\ x = w => socket_refcount'[x] = socket_refcount[x] - 1
        /\ (x = u <=> x = w) => socket_refcount'[x] = socket_refcount[x]

\* One descriptor names another socket than before, and both counts follow.
LEMMA FdsMove ==
  ASSUME FdsIInv, NEW f \in Fds, NEW u \in Sockets \cup {NoSocket}, NEW w, w = fd_socket[f],
         fd_socket' = [fd_socket EXCEPT ![f] = u],
         CountMoves(u, w),
         u \in Sockets => /\ sock_tpcb'[u] # NoPcb /\ state'[u] # "unallocated" /\ state'[u] # "closing"
                          /\ socket_refcount[u] = Cardinality(Names(u)),
         \A x \in Sockets : Names(x) \ {f} # {} =>
             sock_tpcb'[x] # NoPcb /\ state'[x] # "unallocated" /\ state'[x] # "closing",
         \A x \in Sockets : x # u /\ Names(x) = {} /\ state[x] = "allocated" => state'[x] = "allocated"
  PROVE  FdsIInv'
<1>1. /\ FdsTypeOK /\ NamedAlive /\ CountsExact /\ w \in Sockets \cup {NoSocket}
  BY DEF FdsIInv, FdsTypeOK
<1>2. FdsTypeOK'
  <2>1. fd_socket' \in [Fds -> Sockets \cup {NoSocket}]
    BY <1>1 DEF FdsTypeOK
  <2>2. socket_refcount' \in [Sockets -> Int]
    BY DEF CountMoves
  <2> QED
    BY <2>1, <2>2 DEF FdsTypeOK
<1>3. fd_socket'[f] = u /\ \A g \in Fds : g # f => fd_socket'[g] = fd_socket[g]
  BY <1>1 DEF FdsTypeOK
<1>4. ASSUME NEW x \in Sockets
      PROVE  /\ Names(x)' # {} => sock_tpcb'[x] # NoPcb /\ state'[x] # "unallocated" /\ state'[x] # "closing"
             /\ \/ socket_refcount'[x] = Cardinality(Names(x)')
                \/ socket_refcount'[x] = -1 /\ Names(x)' = {} /\ state'[x] = "allocated"
  <2>1. /\ IsFiniteSet(Names(x)) /\ Cardinality(Names(x)) \in Nat
        /\ Cardinality(Names(x)) = 0 <=> Names(x) = {}
        /\ socket_refcount[x] \in Int
        /\ \/ socket_refcount[x] = Cardinality(Names(x))
           \/ socket_refcount[x] = -1 /\ Names(x) = {} /\ state[x] = "allocated"
    BY <1>1, NamesCounted DEF FdsTypeOK, CountsExact
  <2>2. CASE x = u /\ x = w
    <3>1. Names(x)' = Names(x)
      BY <1>3, <2>2 DEF Names
    <3>2. socket_refcount'[x] = socket_refcount[x]
      BY <2>1, <2>2 DEF CountMoves
    <3> QED
      BY <2>2, <3>1, <3>2
  <2>3. CASE x = u /\ x # w
    <3>1. f \notin Names(x) /\ Names(x)' = Names(x) \cup {f}
      BY <1>3, <2>3 DEF Names
    <3>2. Cardinality(Names(x) \cup {f}) = Cardinality(Names(x)) + 1
      BY <2>1, <3>1, FS_AddElement
    <3>3. socket_refcount'[x] = socket_refcount[x] + 1
      BY <2>1, <2>3 DEF CountMoves
    <3> QED
      BY <2>3, <3>1, <3>2, <3>3
  <2>4. CASE x # u /\ x = w
    <3>1. f \in Names(x) /\ Names(x)' = Names(x) \ {f}
      BY <1>3, <2>4 DEF Names
    <3>2. Cardinality(Names(x) \ {f}) = Cardinality(Names(x)) - 1
      BY <2>1, <3>1, FS_RemoveElement
    <3>3. socket_refcount'[x] = socket_refcount[x] - 1 /\ socket_refcount[x] = Cardinality(Names(x))
      BY <2>1, <2>4, <3>1 DEF CountMoves
    <3> QED
      BY <3>1, <3>2, <3>3
  <2>5. CASE x # u /\ x # w
    <3>1. Names(x)' = Names(x) /\ Names(x) \ {f} = Names(x)
      BY <1>3, <2>5 DEF Names
    <3>2. socket_refcount'[x] = socket_refcount[x]
      BY <2>1, <2>5 DEF CountMoves
    <3> QED
      BY <2>1, <2>5, <3>1, <3>2
  <2> QED
    BY <2>2, <2>3, <2>4, <2>5
<1> QED
  BY <1>2, <1>4 DEF FdsIInv, NamedAlive, CountsExact

\* What a descriptor in use names.
LEMMA NamedSocket ==
  ASSUME SocketsIInv, NEW f \in Fds \ FreeFds
  PROVE  /\ fd_socket[f] \in Sockets /\ f \in Names(fd_socket[f])
         /\ sock_tpcb[fd_socket[f]] # NoPcb
         /\ state[fd_socket[f]] # "unallocated" /\ state[fd_socket[f]] # "closing"
         /\ socket_refcount[fd_socket[f]] = Cardinality(Names(fd_socket[f]))
<1>1. fd_socket[f] \in Sockets /\ f \in Names(fd_socket[f])
  BY DEF SocketsIInv, FdsIInv, FdsTypeOK, FreeFds, Names
<1> QED
  BY <1>1 DEF SocketsIInv, FdsIInv, NamedAlive, CountsExact

\* A slot nobody has is not counted.
LEMMA FreeUncounted ==
  ASSUME SocketsIInv, NEW s \in Sockets, state[s] = "unallocated"
  PROVE  Names(s) = {} /\ Cardinality(Names(s)) = 0 /\ socket_refcount[s] = 0
  BY NamesCounted DEF SocketsIInv, FdsIInv, NamedAlive, CountsExact

LEMMA AllNamedAlive ==
  ASSUME SocketsIInv, NEW s \in Sockets, Names(s) # {}
  PROVE  sock_tpcb[s] # NoPcb /\ state[s] # "unallocated" /\ state[s] # "closing"
  BY DEF SocketsIInv, FdsIInv, NamedAlive

-----------------------------------------------------------------------------
(* Sockets: every step.                                                    *)

\* How far a step may change a slot that has descriptors without counting them.
Quiet(s) ==
    \/ state'[s] = state[s] /\ sock_tpcb'[s] = sock_tpcb[s]
    \/ /\ state[s] # "allocated" /\ sock_tpcb'[s] = sock_tpcb[s]
       /\ state'[s] # "unallocated" /\ state'[s] # "closing"
    \/ state[s] = "closing"

LEMMA QuietInv ==
  ASSUME SocketsIInv, UNCHANGED <<fd_socket, socket_refcount>>, \A s \in Sockets : Quiet(s)
  PROVE  FdsIInv'
<1>1. FdsIInv
  BY DEF SocketsIInv
<1>2. \A s \in Sockets : Names(s) # {} =>
        sock_tpcb'[s] # NoPcb /\ state'[s] # "unallocated" /\ state'[s] # "closing"
  BY AllNamedAlive DEF Quiet
<1>3. \A s \in Sockets : Names(s) = {} /\ state[s] = "allocated" => state'[s] = "allocated"
  BY DEF Quiet
<1> QED
  BY <1>1, <1>2, <1>3, FdsStay

LEMMA QuietSlot ==
  ASSUME TcpTypeOK, NEW s, NEW st, state' = [state EXCEPT ![s] = st], UNCHANGED sock_tpcb,
         s \in Sockets => state[s] # "allocated", st # "unallocated", st # "closing"
  PROVE  \A t \in Sockets : Quiet(t)
  BY DEF Quiet, TcpTypeOK

LEMMA LwipQuiet ==
  ASSUME SocketsIInv, Lwip
  PROVE  UNCHANGED socket_refcount /\ \A s \in Sockets : Quiet(s)
<1>1. TcpIInv /\ TcpTypeOK /\ \A q \in Pcbs : PcbExact(q)
  BY TcpParts DEF SocketsIInv
<1>2. ASSUME NEW p \in Pcbs, Connected(p)
      PROVE  UNCHANGED socket_refcount /\ \A s \in Sockets : Quiet(s)
  <2>1. state[conn[p].arg] = "connecting" /\ UNCHANGED <<socket_refcount, sock_tpcb>>
        /\ state' = [state EXCEPT ![conn[p].arg] = "connected"]
    BY <1>1, <1>2, CallbackSocket DEF Connected, Of
  <2> QED
    BY <1>1, <2>1, QuietSlot
<1>3. ASSUME NEW p \in Pcbs, Failed(p)
      PROVE  UNCHANGED socket_refcount /\ \A s \in Sockets : Quiet(s)
  <2>1. UNCHANGED <<socket_refcount, sock_tpcb>> /\ conn[p].cbs # "none"
        /\ conn[p].st \in {"synsent", "open", "finwait", "lastack"} /\ conn[p] \in Conns
    BY <1>1, <1>3, CallbackSocket DEF Failed
  <2>2. CASE conn[p].arg = NoSocket
    <3>1. UNCHANGED state
      BY <1>3, <2>2 DEF Failed
    <3> QED
      BY <2>1, <3>1 DEF Quiet
  <2>3. CASE conn[p].arg # NoSocket
    <3>1. state' = [state EXCEPT ![conn[p].arg] = "error"]
      BY <1>3, <2>3 DEF Failed
    <3>2. state[conn[p].arg] # "allocated"
      BY <1>1, <2>1, <2>3 DEF PcbExact, Of, Conns
    <3> QED
      BY <1>1, <2>1, <3>1, <3>2, QuietSlot
  <2> QED
    BY <2>2, <2>3
<1>4. ASSUME NEW p \in Pcbs, PeerClosed(p)
      PROVE  UNCHANGED socket_refcount /\ \A s \in Sockets : Quiet(s)
  <2>1. state[conn[p].arg] = "connected" /\ UNCHANGED <<socket_refcount, sock_tpcb>>
        /\ state' = [state EXCEPT ![conn[p].arg] = "closed_by_peer"]
    BY <1>4 DEF PeerClosed
  <2> QED
    BY <1>1, <2>1, QuietSlot
<1>5. ASSUME NEW p \in Pcbs, PeerClosedToo(p)
      PROVE  UNCHANGED socket_refcount /\ \A s \in Sockets : Quiet(s)
  BY <1>1, <1>5 DEF PeerClosedToo, Quiet, TcpTypeOK
<1>6. ASSUME UNCHANGED <<state, sock_tpcb, socket_refcount>>
      PROVE  UNCHANGED socket_refcount /\ \A s \in Sockets : Quiet(s)
  BY <1>6 DEF Quiet
<1>7. ASSUME NEW p \in Pcbs,
             \/ Sent(p) \/ Finished(p) \/ PendingLost(p) \/ DroppedUnaccepted(p)
             \/ \E n \in 1 .. BufSize : Received(p, n)
             \/ \E q \in Pcbs : Incoming(p, q)
      PROVE  UNCHANGED <<state, sock_tpcb, socket_refcount>>
  BY <1>7 DEF Sent, Finished, PendingLost, DroppedUnaccepted, Received, Incoming
<1> QED
  BY <1>2, <1>3, <1>4, <1>5, <1>6, <1>7 DEF Lwip

LEMMA LwipSocketsInv ==
  ASSUME SocketsIInv, Lwip, UNCHANGED fd_socket
  PROVE  SocketsIInv' \/ Stopped'
<1>1. TcpIInv /\ FdsIInv'
  BY LwipQuiet, QuietInv DEF SocketsIInv
<1>2. CASE TcpIInv'
  BY <1>1, <1>2 DEF SocketsIInv
<1>3. CASE /\ caller' = Aborted /\ \E p \in Pcbs : conn[p].st = "lastack" /\ conn[p].unacked
           /\ UNCHANGED <<state, sock_tpcb, socket_refcount, rx, accept_queue, conn>>
  <2>1. /\ TcpTypeOK' /\ \A p \in Pcbs : PcbExact(p)'
        /\ \A s \in Sockets : SocketExact(s)' /\ RingExact(rx[s])'
    BY <1>1, <1>3, TcpParts DEF TcpTypeOK, PcbExact, Of, SocketExact, Fresh
  <2> QED
    BY <1>1, <1>3, <2>1 DEF Stopped, TablesIInv
<1> QED
  BY <1>1, <1>2, <1>3, LwipInv

\* A descriptor is given to the slot that has been taken.
LEMMA NewNameInv ==
  ASSUME SocketsIInv, NEW s \in Sockets, state[s] = "unallocated",
         NEW f \in Fds, fd_socket[f] = NoSocket,
         fd_socket' = [fd_socket EXCEPT ![f] = s],
         socket_refcount' = [socket_refcount EXCEPT ![s] = @ + 1],
         sock_tpcb'[s] # NoPcb, state'[s] # "unallocated", state'[s] # "closing",
         \A t \in Sockets : t # s => state'[t] = state[t] /\ sock_tpcb'[t] = sock_tpcb[t]
  PROVE  FdsIInv'
<1>1. FdsIInv /\ FdsTypeOK
  BY DEF SocketsIInv, FdsIInv
<1>2. CountMoves(s, NoSocket)
  BY <1>1, NoSocketIsNone DEF FdsTypeOK, CountMoves
<1>3. Names(s) = {} /\ socket_refcount[s] = Cardinality(Names(s))
  BY FreeUncounted
<1>4. \A x \in Sockets : Names(x) \ {f} # {} =>
        sock_tpcb'[x] # NoPcb /\ state'[x] # "unallocated" /\ state'[x] # "closing"
  BY <1>3, AllNamedAlive
<1>5. \A x \in Sockets : x # s /\ Names(x) = {} /\ state[x] = "allocated" => state'[x] = "allocated"
  OBVIOUS
<1> QED
  BY <1>1, <1>2, <1>3, <1>4, <1>5, FdsMove

LEMMA SysSocketInv == ASSUME SocketsIInv, SysSocket PROVE SocketsIInv'
<1>1. TcpIInv /\ TcpTypeOK /\ FdsIInv /\ FdsTypeOK
  BY TcpParts DEF SocketsIInv, FdsIInv
<1>2. ASSUME NEW p \in Pcbs, Create(p), fd_socket' = [fd_socket EXCEPT ![FirstFreeFd] = FirstFree],
             FreeFds # {}
      PROVE  SocketsIInv'
  <2>1. PICK s \in Sockets : s = FirstFree /\ state[s] = "unallocated"
    BY <1>2, FirstFreeSlot DEF Create
  <2>2. PICK f \in Fds : f = FirstFreeFd /\ fd_socket[f] = NoSocket
    BY <1>2, FirstFreeFdFree
  <2>3. /\ state' = [state EXCEPT ![s] = "allocated"] /\ sock_tpcb' = [sock_tpcb EXCEPT ![s] = p]
        /\ socket_refcount' = [socket_refcount EXCEPT ![s] = @ + 1]
        /\ fd_socket' = [fd_socket EXCEPT ![f] = s]
    BY <1>2, <2>1, <2>2 DEF Create
  <2>4. /\ sock_tpcb'[s] # NoPcb /\ state'[s] = "allocated"
        /\ \A t \in Sockets : t # s => state'[t] = state[t] /\ sock_tpcb'[t] = sock_tpcb[t]
    BY <1>1, <2>3, TcpSocketsAssumption DEF TcpTypeOK
  <2>5. FdsIInv'
    BY <2>1, <2>2, <2>3, <2>4, NewNameInv
  <2>6. TcpIInv'
    BY <1>1, <1>2, CreateInv
  <2> QED
    BY <2>5, <2>6 DEF SocketsIInv
<1>3. ASSUME CreateFail, UNCHANGED fd_socket PROVE SocketsIInv'
  <2>1. PICK s \in Sockets : s = FirstFree /\ state[s] = "unallocated"
    BY <1>3, FirstFreeSlot DEF CreateFail
  <2>2. /\ state' = [state EXCEPT ![s] = "allocated"] /\ UNCHANGED sock_tpcb
        /\ socket_refcount' = [socket_refcount EXCEPT ![s] = @ - 1]
    BY <1>3, <2>1 DEF CreateFail
  <2>3. Names(s) = {} /\ socket_refcount[s] = 0
    BY <2>1, FreeUncounted
  <2>4. state'[s] = "allocated" /\ socket_refcount'[s] = -1
    BY <1>1, <2>2, <2>3 DEF TcpTypeOK, FdsTypeOK
  <2>5. \A t \in Sockets : t # s => state'[t] = state[t] /\ socket_refcount'[t] = socket_refcount[t]
    BY <1>1, <2>2 DEF TcpTypeOK, FdsTypeOK
  <2>6. \A t \in Sockets : Names(t)' = Names(t)
    BY <1>3 DEF Names
  <2>7. FdsTypeOK'
    BY <1>1, <1>3, <2>2 DEF FdsTypeOK
  <2>8. CountsExact'
    BY <1>1, <2>3, <2>4, <2>5, <2>6 DEF FdsIInv, CountsExact
  <2>9. NamedAlive'
    BY <1>1, <2>2, <2>3, <2>5, <2>6 DEF FdsIInv, NamedAlive
  <2>10. TcpIInv'
    BY <1>1, <1>3, CreateFailInv
  <2> QED
    BY <2>7, <2>8, <2>9, <2>10 DEF SocketsIInv, FdsIInv
<1> QED
  BY <1>2, <1>3 DEF SysSocket

\* A name less: the slot is closed with its last one.
LEMMA LostNameInv ==
  ASSUME SocketsIInv, NEW f \in Fds, NEW w \in Sockets \cup {NoSocket}, w = fd_socket[f],
         NEW u \in Sockets \cup {NoSocket}, u # w,
         u \in Sockets => \E g \in Fds : fd_socket[g] = u,
         fd_socket' = [fd_socket EXCEPT ![f] = u],
         CountMoves(u, w),
         \A t \in Sockets : t # w => state'[t] = state[t] /\ sock_tpcb'[t] = sock_tpcb[t],
         w \in Sockets /\ socket_refcount[w] # 1 => state'[w] = state[w] /\ sock_tpcb'[w] = sock_tpcb[w]
  PROVE  FdsIInv'
<1>1. FdsIInv /\ CountsExact
  BY DEF SocketsIInv, FdsIInv
<1>2. u \in Sockets => /\ sock_tpcb'[u] # NoPcb /\ state'[u] # "unallocated" /\ state'[u] # "closing"
                       /\ socket_refcount[u] = Cardinality(Names(u))
  <2> SUFFICES ASSUME u \in Sockets
               PROVE  /\ sock_tpcb'[u] # NoPcb /\ state'[u] # "unallocated" /\ state'[u] # "closing"
                      /\ socket_refcount[u] = Cardinality(Names(u))
    OBVIOUS
  <2>1. Names(u) # {}
    BY DEF Names
  <2> QED
    BY <1>1, <2>1, AllNamedAlive DEF CountsExact
<1>3. ASSUME NEW x \in Sockets, Names(x) \ {f} # {}
      PROVE  sock_tpcb'[x] # NoPcb /\ state'[x] # "unallocated" /\ state'[x] # "closing"
  <2>1. state'[x] = state[x] /\ sock_tpcb'[x] = sock_tpcb[x]
    <3>1. CASE x # w
      BY <3>1
    <3>2. CASE x = w
      <4>1. f \in Names(x) /\ IsFiniteSet(Names(x)) /\ IsFiniteSet(Names(x) \ {f})
        BY <3>2, NamesCounted, FS_RemoveElement DEF Names
      <4>2. Cardinality(Names(x) \ {f}) = Cardinality(Names(x)) - 1
        BY <4>1, FS_RemoveElement
      <4>3. Cardinality(Names(x) \ {f}) # 0
        BY <1>3, <4>1, FS_EmptySet
      <4>4. Cardinality(Names(x)) # 1
        BY <4>2, <4>3
      <4>5. socket_refcount[x] = Cardinality(Names(x))
        BY <1>1, <4>1 DEF CountsExact
      <4> QED
        BY <3>2, <4>4, <4>5
    <3> QED
      BY <3>1, <3>2
  <2> QED
    BY <1>3, <2>1, AllNamedAlive
<1>4. ASSUME NEW x \in Sockets, x # u, Names(x) = {}, state[x] = "allocated" PROVE state'[x] = "allocated"
  <2>1. x # w
    BY <1>4 DEF Names
  <2> QED
    BY <1>4, <2>1
<1> QED
  BY <1>1, <1>2, <1>3, <1>4, FdsMove

LEMMA SysCloseInv ==
  ASSUME SocketsIInv, NEW f \in Fds \ FreeFds, caller.op = "idle", SysClose(f)
  PROVE  SocketsIInv'
<1>1. PICK s \in Sockets : s = fd_socket[f]
  BY NamedSocket
<1>2. /\ socket_refcount' = [socket_refcount EXCEPT ![s] = @ - 1]
      /\ IF socket_refcount[s] = 1 THEN CloseInt(s) ELSE UNCHANGED <<state, sock_tpcb, rx, conn>>
      /\ UNCHANGED <<accept_queue, caller>>
      /\ fd_socket' = [fd_socket EXCEPT ![f] = NoSocket]
  BY <1>1 DEF SysClose, Close
<1>3. TcpIInv /\ FdsTypeOK
  BY DEF SocketsIInv, FdsIInv
<1>4. /\ TcpIInv'
      /\ \A t \in Sockets : t # s => state'[t] = state[t] /\ sock_tpcb'[t] = sock_tpcb[t]
      /\ socket_refcount[s] # 1 => state'[s] = state[s] /\ sock_tpcb'[s] = sock_tpcb[s]
  <2>1. CASE socket_refcount[s] = 1
    BY <1>2, <1>3, <2>1, CloseIntInv
  <2>2. CASE socket_refcount[s] # 1
    <3>1. CallerExact'
      BY <1>2, <1>3, <2>2, TcpParts, CallerStays
    <3> QED
      BY <1>2, <1>3, <2>2, <3>1, CallerOnlyInv
  <2> QED
    BY <2>1, <2>2
<1>5. CountMoves(NoSocket, s)
  BY <1>2, <1>3, NoSocketIsNone DEF FdsTypeOK, CountMoves
<1>6. FdsIInv'
  BY ZenonT(30), <1>1, <1>2, <1>4, <1>5, NoSocketIsNone, LostNameInv
<1> QED
  BY <1>4, <1>6 DEF SocketsIInv

LEMMA SocketDup3Inv ==
  ASSUME SocketsIInv, NEW old \in Fds \ FreeFds, NEW new \in Fds \ {old}, caller.op = "idle",
         Dup3(old, new)
  PROVE  SocketsIInv'
<1>1. PICK s \in Sockets : s = fd_socket[old]
  BY NamedSocket
<1>2. TcpIInv /\ FdsIInv /\ FdsTypeOK /\ CountsExact
  BY DEF SocketsIInv, FdsIInv
<1>3. PICK t \in Sockets \cup {NoSocket} : t = fd_socket[new]
  BY <1>2 DEF FdsTypeOK
<1>4. /\ CountMoves(s, t)
      /\ fd_socket' = [fd_socket EXCEPT ![new] = s]
      /\ IF t # NoSocket /\ socket_refcount[t] = 1 THEN CloseInt(t)
         ELSE UNCHANGED <<state, sock_tpcb, rx, conn>>
      /\ UNCHANGED <<accept_queue, caller>>
  <2>1. socket_refcount' = [u \in Sockets |-> socket_refcount[u]
                               + (IF u = s THEN 1 ELSE 0) - (IF u = t THEN 1 ELSE 0)]
    BY <1>1, <1>3 DEF Dup3
  <2>2. CountMoves(s, t)
    BY <1>2, <2>1 DEF FdsTypeOK, CountMoves
  <2> QED
    BY <1>1, <1>3, <2>2 DEF Dup3
<1>5. /\ TcpIInv'
      /\ \A u \in Sockets : u # t => state'[u] = state[u] /\ sock_tpcb'[u] = sock_tpcb[u]
      /\ t \in Sockets /\ socket_refcount[t] # 1 => state'[t] = state[t] /\ sock_tpcb'[t] = sock_tpcb[t]
  <2>1. CASE t # NoSocket /\ socket_refcount[t] = 1
    BY <1>2, <1>4, <2>1, CloseIntInv
  <2>2. CASE ~(t # NoSocket /\ socket_refcount[t] = 1)
    <3>1. CallerExact'
      BY <1>2, <1>4, <2>2, TcpParts, CallerStays
    <3> QED
      BY <1>2, <1>4, <2>2, <3>1, NoSocketIsNone, CallerOnlyInv
  <2> QED
    BY <2>1, <2>2
<1>6. CASE t # s
  <2>1. \E g \in Fds : fd_socket[g] = s
    BY <1>1
  <2>2. FdsIInv'
    BY <1>3, <1>4, <1>5, <1>6, <2>1, LostNameInv
  <2> QED
    BY <1>5, <2>2 DEF SocketsIInv
<1>7. CASE t = s
  <2>1. {old, new} \subseteq Names(s) /\ old # new
    BY <1>1, <1>3, <1>7 DEF Names
  <2>2. socket_refcount[s] # 1
    <3>1. IsFiniteSet(Names(s)) /\ IsFiniteSet(Names(s) \ {old}) /\ Names(s) \ {old} # {}
      BY <2>1, NamesCounted, FS_RemoveElement
    <3>2. Cardinality(Names(s) \ {old}) = Cardinality(Names(s)) - 1 /\ Cardinality(Names(s) \ {old}) # 0
      BY <2>1, <3>1, FS_RemoveElement, FS_EmptySet
    <3>3. socket_refcount[s] = Cardinality(Names(s))
      BY <1>2, <2>1 DEF CountsExact
    <3> QED
      BY <3>2, <3>3
  <2>3. /\ fd_socket' = fd_socket /\ socket_refcount' = socket_refcount
    <3>1. fd_socket' = fd_socket
      BY <1>2, <1>3, <1>4, <1>7 DEF FdsTypeOK
    <3>2. socket_refcount' \in [Sockets -> Int] /\ socket_refcount \in [Sockets -> Int]
      BY <1>2, <1>4 DEF FdsTypeOK, CountMoves
    <3>3. \A x \in Sockets : socket_refcount'[x] = socket_refcount[x]
      BY <1>4, <1>7 DEF CountMoves
    <3> QED
      BY <3>1, <3>2, <3>3
  <2>4. \A u \in Sockets : Quiet(u)
    BY <1>5, <1>7, <2>2 DEF Quiet
  <2>5. FdsIInv'
    BY <2>3, <2>4, QuietInv
  <2> QED
    BY <1>5, <2>5 DEF SocketsIInv
<1> QED
  BY <1>6, <1>7

\* tcp_socket_accept takes a slot, and a descriptor if there is one for it.
LEMMA TakeFdsInv ==
  ASSUME SocketsIInv, NEW ls \in Sockets, accept_queue[ls] # <<>>, Take(ls, FreeFds # {}), AcceptedFd(ls)
  PROVE  FdsIInv'
<1>1. TcpIInv /\ TcpTypeOK /\ QueuesExact /\ FdsTypeOK
  BY TcpParts DEF SocketsIInv, FdsIInv
<1>2. CASE FreeSlots = {}
  <2>1. UNCHANGED <<state, sock_tpcb, socket_refcount, fd_socket>>
    BY <1>2 DEF Take, AcceptedFd
  <2> QED
    BY <2>1, QuietInv DEF Quiet
<1>3. CASE FreeSlots # {}
  <2>1. PICK s \in Sockets : s = FirstFree /\ state[s] = "unallocated"
    BY <1>3, FirstFreeSlot
  <2>2. PICK q : q = Head(accept_queue[ls])
    OBVIOUS
  <2>3. q \in Pcbs /\ q # NoPcb
    <3>1. accept_queue[ls] \in Seq(Pcbs)
      BY <1>1 DEF TcpTypeOK
    <3> QED
      BY <2>2, <3>1, TcpSocketsAssumption
  <2>4. /\ state' = [state EXCEPT ![s] = IF FreeFds # {} THEN "connected" ELSE "closing"]
        /\ sock_tpcb' = [sock_tpcb EXCEPT ![s] = q]
        /\ socket_refcount' = [socket_refcount EXCEPT ![s] = IF FreeFds # {} THEN @ + 1 ELSE @]
    BY <1>3, <2>1, <2>2 DEF Take
  <2>5. /\ \A t \in Sockets : t # s => state'[t] = state[t] /\ sock_tpcb'[t] = sock_tpcb[t]
        /\ sock_tpcb'[s] = q
        /\ state'[s] = IF FreeFds # {} THEN "connected" ELSE "closing"
    BY <1>1, <2>4 DEF TcpTypeOK
  <2>6. CASE FreeFds # {}
    <3>1. PICK f \in Fds : f = FirstFreeFd /\ fd_socket[f] = NoSocket
      BY <2>6, FirstFreeFdFree
    <3>2. fd_socket' = [fd_socket EXCEPT ![f] = s]
      BY <1>3, <2>1, <2>6, <3>1 DEF AcceptedFd
    <3>3. socket_refcount' = [socket_refcount EXCEPT ![s] = @ + 1] /\ state'[s] = "connected"
      BY <2>4, <2>5, <2>6
    <3> QED
      BY <2>1, <2>3, <2>5, <3>1, <3>2, <3>3, NewNameInv
  <2>7. CASE FreeFds = {}
    <3>1. UNCHANGED fd_socket
      BY <2>7 DEF AcceptedFd
    <3>2. UNCHANGED socket_refcount
      BY <1>1, <2>4, <2>7 DEF FdsTypeOK
    <3>3. Names(s) = {}
      BY <2>1, FreeUncounted
    <3>4. \A t \in Sockets : Names(t) # {} =>
            sock_tpcb'[t] # NoPcb /\ state'[t] # "unallocated" /\ state'[t] # "closing"
      BY <2>5, <3>3, AllNamedAlive
    <3>5. \A t \in Sockets : Names(t) = {} /\ state[t] = "allocated" => state'[t] = "allocated"
      BY <2>1, <2>5
    <3> QED
      BY <3>1, <3>2, <3>4, <3>5, FdsStay DEF SocketsIInv
  <2> QED
    BY <2>6, <2>7
<1> QED
  BY <1>2, <1>3

LEMMA SysAcceptInv ==
  ASSUME SocketsIInv, NEW f \in Fds \ FreeFds, NEW nonblock \in BOOLEAN,
         Accept(fd_socket[f], FreeFds # {}, nonblock), AcceptedFd(fd_socket[f])
  PROVE  SocketsIInv'
<1>1. PICK ls \in Sockets : ls = fd_socket[f]
  BY NamedSocket
<1>2. PICK hasFd \in BOOLEAN : hasFd = (FreeFds # {})
  OBVIOUS
<1>3. TcpIInv'
  <2>1. Accept(ls, hasFd, nonblock) /\ TcpIInv
    BY <1>1, <1>2 DEF SocketsIInv
  <2> QED
    BY <2>1, AcceptInv
<1>4. FdsIInv'
  <2>1. CASE accept_queue[ls] # <<>>
    <3>1. Take(ls, FreeFds # {}) /\ AcceptedFd(ls)
      BY <1>1, <2>1 DEF Accept
    <3> QED
      BY <2>1, <3>1, TakeFdsInv
  <2>2. CASE accept_queue[ls] = <<>>
    <3>1. UNCHANGED <<state, sock_tpcb, socket_refcount, fd_socket>>
      BY <1>1, <2>2 DEF Accept, AcceptedFd
    <3> QED
      BY <3>1, QuietInv DEF Quiet
  <2> QED
    BY <2>1, <2>2
<1> QED
  BY <1>3, <1>4 DEF SocketsIInv

LEMMA AcceptResumesInv ==
  ASSUME SocketsIInv, AcceptResume(FreeFds # {}), AcceptedFd(caller.s) PROVE SocketsIInv'
<1>1. TcpIInv
  BY DEF SocketsIInv
<1>2. PICK ls \in Sockets : ls = caller.s
  BY <1>1, TcpParts DEF AcceptResume, CallerExact
<1>3. PICK hasFd \in BOOLEAN : hasFd = (FreeFds # {})
  OBVIOUS
<1>4. TcpIInv'
  <2>1. AcceptResume(hasFd)
    BY <1>3
  <2> QED
    BY <1>1, <2>1, AcceptResumeInv
<1>5. FdsIInv'
  <2>1. CASE accept_queue[ls] # <<>>
    <3>1. Take(ls, FreeFds # {}) /\ AcceptedFd(ls)
      BY <1>2, <2>1 DEF AcceptResume
    <3> QED
      BY <2>1, <3>1, TakeFdsInv
  <2>2. CASE accept_queue[ls] = <<>>
    <3>1. UNCHANGED <<state, sock_tpcb, socket_refcount, fd_socket>>
      BY <1>2, <2>2 DEF AcceptResume, AcceptedFd
    <3> QED
      BY <3>1, QuietInv DEF Quiet
  <2> QED
    BY <2>1, <2>2
<1> QED
  BY <1>4, <1>5 DEF SocketsIInv

\* The calls that leave the descriptors alone.
LEMMA SysOtherInv ==
  ASSUME SocketsIInv, NEW f \in Fds \ FreeFds, SysOther(f) PROVE SocketsIInv'
<1>1. PICK s \in Sockets : s = fd_socket[f]
  BY NamedSocket
<1>2. /\ TcpIInv /\ TcpTypeOK /\ FdsIInv /\ sock_tpcb[s] # NoPcb /\ Names(s) # {}
      /\ UNCHANGED fd_socket
  BY <1>1, NamedSocket, TcpParts DEF SocketsIInv, SysOther
<1>3. ASSUME NEW st, state' = [state EXCEPT ![s] = st], st # "unallocated", st # "closing",
             UNCHANGED <<sock_tpcb, socket_refcount>>
      PROVE  FdsIInv'
  <2>1. state'[s] = st /\ \A t \in Sockets : t # s => state'[t] = state[t]
    BY <1>2, <1>3 DEF TcpTypeOK
  <2>2. \A t \in Sockets : Names(t) # {} =>
          sock_tpcb'[t] # NoPcb /\ state'[t] # "unallocated" /\ state'[t] # "closing"
    BY <1>2, <1>3, <2>1, AllNamedAlive
  <2>3. \A t \in Sockets : Names(t) = {} /\ state[t] = "allocated" => state'[t] = "allocated"
    BY <1>2, <2>1
  <2> QED
    BY <1>2, <1>3, <2>2, <2>3, FdsStay
<1>4. ASSUME UNCHANGED <<state, sock_tpcb, socket_refcount>> PROVE FdsIInv'
  BY <1>2, <1>4, QuietInv DEF Quiet
<1>5. CASE Bind(s)
  <2>1. state' = [state EXCEPT ![s] = "bound"] /\ UNCHANGED <<sock_tpcb, socket_refcount>>
    BY <1>5 DEF Bind
  <2> QED
    BY <1>2, <1>3, <1>5, <2>1, BindInv DEF SocketsIInv
<1>6. CASE state[s] \in {"allocated", "bound"} /\ Listen(s)
  <2>1. state' = [state EXCEPT ![s] = "listening"] /\ UNCHANGED <<sock_tpcb, socket_refcount>>
    BY <1>6 DEF Listen
  <2> QED
    BY <1>2, <1>3, <1>6, <2>1, ListenInv DEF SocketsIInv
<1>7. ASSUME NEW b \in BOOLEAN, NEW c \in BOOLEAN, Connect(s, b, c) PROVE SocketsIInv'
  <2>1. state' = [state EXCEPT ![s] = "connecting"] /\ UNCHANGED <<sock_tpcb, socket_refcount>>
    BY <1>7 DEF Connect
  <2> QED
    BY <1>2, <1>3, <1>7, <2>1, ConnectInv DEF SocketsIInv
<1>8. ASSUME NEW b \in BOOLEAN, NEW c \in BOOLEAN, Write(s, b, c) PROVE SocketsIInv'
  <2>1. UNCHANGED <<state, sock_tpcb, socket_refcount>>
    BY <1>8 DEF Write
  <2> QED
    BY <1>2, <1>4, <1>8, <2>1, WriteInv DEF SocketsIInv
<1>9. ASSUME NEW n \in 1 .. BufSize, NEW b \in BOOLEAN, Recv(s, n, b) PROVE SocketsIInv'
  <2>1. UNCHANGED <<state, sock_tpcb, socket_refcount>>
    BY <1>9 DEF Recv
  <2> QED
    BY <1>2, <1>4, <1>9, <2>1, RecvInv DEF SocketsIInv
<1> QED
  BY <1>1, <1>5, <1>6, <1>7, <1>8, <1>9 DEF SysOther

LEMMA SocketSyscallInv == ASSUME SocketsIInv, Syscall PROVE SocketsIInv'
<1>1. caller.op = "idle"
  BY DEF Syscall
<1>2. CASE SysSocket
  BY <1>2, SysSocketInv
<1>3. ASSUME NEW f \in Fds \ FreeFds, SysClose(f) PROVE SocketsIInv'
  BY <1>1, <1>3, SysCloseInv
<1>4. ASSUME NEW f \in Fds \ FreeFds, SysOther(f) PROVE SocketsIInv'
  BY <1>4, SysOtherInv
<1>5. ASSUME NEW f \in Fds \ FreeFds, NEW new \in Fds \ {f}, Dup3(f, new) PROVE SocketsIInv'
  BY <1>1, <1>5, SocketDup3Inv
<1>6. ASSUME NEW f \in Fds \ FreeFds, NEW b \in BOOLEAN,
             Accept(fd_socket[f], FreeFds # {}, b), AcceptedFd(fd_socket[f])
      PROVE  SocketsIInv'
  BY <1>6, SysAcceptInv
<1> QED
  BY <1>2, <1>3, <1>4, <1>5, <1>6 DEF Syscall

LEMMA ResumeInv == ASSUME SocketsIInv, Resume PROVE SocketsIInv'
<1>1. TcpIInv
  BY DEF SocketsIInv
<1>2. ASSUME UNCHANGED <<state, sock_tpcb, socket_refcount, fd_socket>> PROVE FdsIInv'
  BY <1>2, QuietInv DEF Quiet
<1>3. CASE AcceptResume(FreeFds # {}) /\ AcceptedFd(caller.s)
  BY <1>3, AcceptResumesInv
<1>4. CASE UNCHANGED fd_socket /\ ConnectResume
  <2>1. UNCHANGED <<state, sock_tpcb, socket_refcount, fd_socket>>
    BY <1>4 DEF ConnectResume
  <2> QED
    BY <1>1, <1>2, <1>4, <2>1, ConnectResumeInv DEF SocketsIInv
<1>5. ASSUME UNCHANGED fd_socket, NEW b \in BOOLEAN, WriteResume(b) PROVE SocketsIInv'
  <2>1. UNCHANGED <<state, sock_tpcb, socket_refcount, fd_socket>>
    BY <1>5 DEF WriteResume
  <2> QED
    BY <1>1, <1>2, <1>5, <2>1, WriteResumeInv DEF SocketsIInv
<1>6. ASSUME UNCHANGED fd_socket, NEW n \in 1 .. BufSize, RecvResume(n) PROVE SocketsIInv'
  <2>1. UNCHANGED <<state, sock_tpcb, socket_refcount, fd_socket>>
    BY <1>6 DEF RecvResume
  <2> QED
    BY <1>1, <1>2, <1>6, <2>1, RecvResumeInv DEF SocketsIInv
<1> QED
  BY <1>3, <1>4, <1>5, <1>6 DEF Resume

LEMMA RunningInv == ASSUME SocketsIInv, [Next]_vars PROVE SocketsIInv' \/ Stopped'
<1>1. CASE Next
  BY <1>1, SocketSyscallInv, ResumeInv, LwipSocketsInv DEF Next
<1>2. CASE UNCHANGED vars
  <2>1. UNCHANGED <<fd_socket, state, sock_tpcb, socket_refcount, rx, accept_queue, caller, conn>>
    BY <1>2 DEF vars, tcpVars
  <2>2. FdsIInv'
    BY <2>1, QuietInv DEF Quiet
  <2>3. CallerExact'
    BY <2>1, TcpParts, CallerStays DEF SocketsIInv
  <2>4. TcpIInv'
    BY <2>1, <2>3, CallerOnlyInv DEF SocketsIInv
  <2> QED
    BY <2>2, <2>4 DEF SocketsIInv
<1> QED
  BY <1>1, <1>2

\* Nothing runs after the program has stopped.
LEMMA StoppedStays == ASSUME Stopped, [Next]_vars PROVE Stopped'
<1>1. caller.op = "aborted"
  BY DEF Stopped, Aborted, Idle
<1>2. ~Next
  BY <1>1 DEF Next, Syscall, Resume, AcceptResume, ConnectResume, WriteResume, RecvResume, Lwip
<1>3. UNCHANGED <<fd_socket, state, sock_tpcb, socket_refcount, rx, accept_queue, caller, conn>>
  BY <1>2 DEF vars, tcpVars
<1>4. TcpTypeOK' /\ \A p \in Pcbs : PcbExact(p)'
  BY <1>3 DEF Stopped, TablesIInv, TcpTypeOK, PcbExact, Of
<1>5. \A s \in Sockets : SocketExact(s)' /\ RingExact(rx[s])'
  BY <1>3 DEF Stopped, TablesIInv, SocketExact, Fresh
<1>6. FdsIInv'
  BY <1>3 DEF Stopped, TablesIInv, FdsIInv, FdsTypeOK, NamedAlive, CountsExact, Names
<1> QED
  BY <1>3, <1>4, <1>5, <1>6 DEF Stopped, TablesIInv

LEMMA NextSocketsIInv ==
  ASSUME SocketsIInv \/ Stopped, [Next]_vars PROVE SocketsIInv' \/ Stopped'
  BY RunningInv, StoppedStays

LEMMA InitSocketsIInv == ASSUME Init PROVE SocketsIInv
<1>1. /\ state = [s \in Sockets |-> "unallocated"] /\ sock_tpcb = [s \in Sockets |-> NoPcb]
      /\ socket_refcount = [s \in Sockets |-> 0] /\ rx = [s \in Sockets |-> EmptyRing]
      /\ accept_queue = [s \in Sockets |-> <<>>] /\ caller = Idle /\ conn = [p \in Pcbs |-> FreePcb]
      /\ fd_socket = [f \in Fds |-> NoSocket]
  BY DEF Init, TcpInit
<1>2. TcpTypeOK
  BY <1>1, RingTyped, FreePcbTyped DEF TcpTypeOK, States
<1>3. \A p \in Pcbs : PcbExact(p)
  BY <1>1, NoSocketIsNone DEF PcbExact
<1>4. \A s \in Sockets : SocketExact(s) /\ RingExact(rx[s])
  BY <1>1, RingTyped DEF SocketExact, Fresh
<1>5. QueuesExact
  BY <1>1 DEF QueuesExact
<1>6. CallerExact
  BY <1>1, NoSocketIsNone DEF CallerExact, ConnectAndAcceptWake, Callers, Idle
<1>7. \A s \in Sockets : Names(s) = {}
  BY <1>1, NoSocketIsNone DEF Names
<1>8. FdsIInv
  <2>1. FdsTypeOK
    <3>1. socket_refcount \in [Sockets -> Int]
      BY <1>1
    <3>2. fd_socket \in [Fds -> Sockets \cup {NoSocket}]
      BY <1>1
    <3> QED
      BY <3>1, <3>2 DEF FdsTypeOK
  <2>2. NamedAlive
    BY <1>7 DEF NamedAlive
  <2>3. CountsExact
    <3> SUFFICES ASSUME NEW s \in Sockets
                 PROVE  socket_refcount[s] = Cardinality(Names(s))
      BY DEF CountsExact
    <3>1. socket_refcount[s] = 0
      BY <1>1
    <3>2. Cardinality({}) = 0
      BY FS_EmptySet
    <3>3. Names(s) = {}
      BY <1>7
    <3> QED
      BY <3>1, <3>2, <3>3
  <2> QED
    BY <2>1, <2>2, <2>3 DEF FdsIInv
<1> QED
  BY <1>2, <1>3, <1>4, <1>5, <1>6, <1>8 DEF SocketsIInv, TcpIInv

\* What the invariant says in the words of SocketFds.
LEMMA SocketsIInvImplies ==
  ASSUME SocketsIInv \/ Stopped
  PROVE  /\ FdsOwnSockets /\ UnallocatedClean /\ CallbacksReachTheirSocket
         /\ StreamInOrder /\ NothingSkipped /\ ConnectAndAcceptWake
<1>0. TablesIInv
  BY TcpParts DEF SocketsIInv, TablesIInv, Stopped
<1>1. /\ TcpTypeOK /\ FdsIInv
      /\ \A p \in Pcbs : PcbExact(p) /\ conn[p] \in Conns
      /\ \A s \in Sockets : SocketExact(s) /\ RingExact(rx[s])
  BY <1>0 DEF TablesIInv, TcpTypeOK
<1>2. FdsOwnSockets
  <2> SUFFICES ASSUME NEW s \in Sockets
               PROVE  /\ socket_refcount[s] = Cardinality(Names(s))
                         \/ (socket_refcount[s] = -1 /\ Cardinality(Names(s)) = 0 /\ state[s] = "allocated")
                      /\ Cardinality(Names(s)) > 0 => state[s] \notin {"unallocated", "closing"}
    BY DEF FdsOwnSockets, Names
  <2>1. /\ Cardinality(Names(s)) \in Nat /\ (Cardinality(Names(s)) = 0 <=> Names(s) = {})
    BY <1>1, NamesCounted
  <2> QED
    BY <1>1, <2>1 DEF FdsIInv, CountsExact, NamedAlive
<1>3. UnallocatedClean
  BY <1>1 DEF UnallocatedClean, SocketExact, Fresh
<1>4. CallbacksReachTheirSocket
  <2>1. ASSUME NEW p \in Pcbs, MayCallBack(p)
        PROVE  LET s == conn[p].arg IN
               IF conn[p].st = "lastack" THEN s = NoSocket
               ELSE /\ s \in Sockets /\ sock_tpcb[s] = p
                    /\ state[s] = CASE conn[p].st = "synsent" -> "connecting"
                                    [] conn[p].st = "open"    -> "connected"
                                    [] OTHER                  -> "closing"
    <3>1. conn[p].st \in {"synsent", "open", "finwait", "lastack"} /\ conn[p].cbs # "none"
      BY <2>1 DEF MayCallBack
    <3>2. CASE conn[p].st = "lastack"
      BY <1>1, <3>2 DEF PcbExact
    <3>3. CASE conn[p].st = "synsent"
      BY <1>1, <3>3 DEF PcbExact, Of
    <3>4. CASE conn[p].st = "open"
      BY <1>1, <3>1, <3>4 DEF PcbExact, Of
    <3>5. CASE conn[p].st = "finwait"
      BY <1>1, <3>5 DEF PcbExact, Of
    <3> QED
      BY <3>1, <3>2, <3>3, <3>4, <3>5
  <2>2. caller.op = "aborted" => \E p \in Pcbs : conn[p].st = "lastack" /\ conn[p].unacked
    <3>1. SocketsIInv => caller.op # "aborted"
      BY DEF SocketsIInv, TcpIInv, CallerExact, Callers
    <3> QED
      BY <3>1 DEF Stopped
  <2> QED
    BY <2>1, <2>2 DEF CallbacksReachTheirSocket
<1>5. StreamInOrder
  BY <1>1, StreamIsExact DEF TcpTypeOK
<1>6. NothingSkipped
  <2> SUFFICES ASSUME NEW s \in Sockets, state[s] = "connected", conn[sock_tpcb[s]].st = "open"
               PROVE  Whole(rx[s], conn[sock_tpcb[s]])
    BY DEF NothingSkipped, Whole
  <2>1. conn[sock_tpcb[s]] # FreePcb
    BY NoSocketIsNone
  <2> QED
    BY <1>1, <2>1 DEF SocketExact
<1>7. ConnectAndAcceptWake
  <2>1. CASE SocketsIInv
    BY <2>1 DEF SocketsIInv, TcpIInv, CallerExact
  <2>2. CASE Stopped
    BY <2>2 DEF Stopped, Aborted, Idle, ConnectAndAcceptWake
  <2> QED
    BY <2>1, <2>2
<1> QED
  BY <1>2, <1>3, <1>4, <1>5, <1>6, <1>7

-----------------------------------------------------------------------------
(* The three parts, of which one moves.                                    *)

everything == <<part, vars, fileVars, coreVars>>

OnlyItsPart ==
    /\ part' = part
    /\ part = "sockets" => [Next]_vars
    /\ part = "files" => [Files!Next]_fileVars
    /\ part = "core" => [Core!Next]_coreVars

LEMMA StepMovesItsPart == [NextAll]_everything => OnlyItsPart
<1>1. CASE NextAll
  BY <1>1 DEF NextAll, OnlyItsPart
<1>2. CASE UNCHANGED everything
  <2>1. part' = part /\ UNCHANGED vars /\ UNCHANGED fileVars /\ UNCHANGED coreVars
    BY <1>2 DEF everything
  <2> QED
    BY <2>1 DEF OnlyItsPart
<1> QED
  BY <1>1, <1>2

SocketsPart == part = "sockets" => SocketsIInv \/ Stopped
FilesPart == part = "files" => FilesIInv
CorePart == part = "core" => CoreIInv

LEMMA SocketsPartHolds == SpecAll => []SocketsPart
<1>1. InitAll => SocketsPart
  BY InitSocketsIInv DEF InitAll, SocketsPart
<1>2. SocketsPart /\ [NextAll]_everything => SocketsPart'
  BY StepMovesItsPart, NextSocketsIInv DEF OnlyItsPart, SocketsPart
<1> QED
  BY <1>1, <1>2, PTL DEF SpecAll, everything

LEMMA FilesPartHolds == SpecAll => []FilesPart
<1>1. InitAll => FilesPart
  BY InitFilesIInv DEF InitAll, FilesPart
<1>2. FilesPart /\ [NextAll]_everything => FilesPart'
  BY StepMovesItsPart, NextFilesIInv DEF OnlyItsPart, FilesPart
<1> QED
  BY <1>1, <1>2, PTL DEF SpecAll, everything

\* The socket table with its rings and accept queues (socket_t of tcp.c), lwIP's
\* pcbs, and fd_socket (sock.c) with the counts of tcp.c keep their types.
THEOREM SocketsTyped == SpecAll => [](part = "sockets" => TcpTypeOK /\ FdsTypeOK)
<1>1. SocketsPart => (part = "sockets" => TcpTypeOK /\ FdsTypeOK)
  BY TcpParts DEF SocketsPart, SocketsIInv, Stopped, TablesIInv, FdsIInv
<1> QED
  BY <1>1, SocketsPartHolds, PTL

\* socket_refcount (tcp.c) counts the descriptors that name a socket (sock.c)
\* through sys_socket, whichever of its steps fails, sys_accept, sys_dup3 and
\* sock_close, and a slot given back is as the next tcp_socket_init expects it.
THEOREM SlotsStayAccounted == SpecAll => []SlotsAccounted
<1>1. SocketsPart => SlotsAccounted
  BY SocketsIInvImplies DEF SocketsPart, SlotsAccounted
<1> QED
  BY <1>1, SocketsPartHolds, PTL

\* tcp_arg (tcp.c): up to the peer's close the socket a callback gets is the one
\* that has the pcb, in the state the callback takes it to be in, also after a
\* close, an abort or an accept has put another connection in the slot.  After it
\* the callbacks get NULL, and the one assertion that fails is that of
\* socket_sent_callback, for data the peer acknowledges late.
THEOREM CallbacksReachTheirs == SpecAll => []CallbacksReachSocket
<1>1. SocketsPart => CallbacksReachSocket
  BY SocketsIInvImplies DEF SocketsPart, CallbacksReachSocket
<1> QED
  BY <1>1, SocketsPartHolds, PTL

\* socket_recv_callback and tcp_socket_recv (tcp.c): whatever rx_head and however
\* the copies wrap, the ring holds the next bytes of the stream, and the bytes read
\* and the bytes waiting are all that lwIP has received but those it dropped while
\* the connection waited for accept.
THEOREM StreamStaysExact == SpecAll => []StreamExact
<1>1. SocketsPart => StreamExact
  BY SocketsIInvImplies DEF SocketsPart, StreamExact
<1> QED
  BY <1>1, SocketsPartHolds, PTL

\* tcp_socket_connect and tcp_socket_accept (tcp.c) sleep only while what they
\* wait for has not happened: no callback changes it and leaves them asleep.
THEOREM CallersStayAwake == SpecAll => []CallersWake
<1>1. SocketsPart => CallersWake
  BY SocketsIInvImplies DEF SocketsPart, CallersWake
<1> QED
  BY <1>1, SocketsPartHolds, PTL

\* posix_fd_allocate and posix_fd_deallocate (fd.c) with sys_openat, file_close
\* (file.c) and sys_dup3 (io.c): whichever command of a call fails, a descriptor that is handed
\* out is clean, one in use names the server's descriptor of its own file, and
\* the buffers of the call are back.
THEOREM FdsNameTheirFiles == SpecAll => []FdsNameFiles
<1>1. FilesPart => FdsNameFiles
  BY BuffersBack DEF FilesPart, FilesIInv, FdsNameFiles
<1> QED
  BY <1>1, FilesPartHolds, PTL

\* file_read and file_write (file.c): a transfer of several chunks of
\* FS_BUFFER_SIZE moves file_ptr by the bytes it moved, and they are those of the
\* file from the old file_ptr on.
THEOREM TransfersExact == SpecAll => []TransferExact
<1>1. FilesPart => TransferExact
  BY DEF FilesPart, FilesIInv, TransferExact
<1> QED
  BY <1>1, FilesPartHolds, PTL

\* sys_openat and file_close (file.c) and the close inside sys_dup3 (io.c): a
\* descriptor of the server that no descriptor names any more, without dup3 having
\* handed it on, was left so by a truncation or a close that failed.
THEOREM OnlyFailureLosesServerFd == SpecAll => ServerFdLostByFailure
<1>1. FilesPart /\ [NextAll]_everything => [part = "files" => Files!OrphansComeFromFailure]_<<part, fileVars>>
  BY StepMovesItsPart, OrphanStep DEF OnlyItsPart, FilesPart
<1> QED
  BY <1>1, FilesPartHolds, PTL DEF SpecAll, everything, ServerFdLostByFailure

\* sys_brk and sys_mmap (mem.c): with an area that ends on a page boundary no
\* sequence of calls gives a byte away twice, or one outside the area.
THEOREM HandedOutOnce == ASSUME PagedArea PROVE SpecAll => []MemoryHandedOutOnce
<1>1. InitAll => CorePart
  BY InitCoreIInv DEF InitAll, CorePart
<1>2. CorePart /\ [NextAll]_everything => CorePart'
  BY StepMovesItsPart, NextCoreIInv DEF OnlyItsPart, CorePart
<1>3. CorePart => MemoryHandedOutOnce
  BY CoreIInvImplies DEF CorePart, MemoryHandedOutOnce
<1> QED
  BY <1>1, <1>2, <1>3, PTL DEF SpecAll, everything
=============================================================================
