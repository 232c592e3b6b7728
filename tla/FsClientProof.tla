--------------------------- MODULE FsClientProof ---------------------------
(***************************************************************************)
(* What the proofs about both file servers rest on: how the client helpers *)
(* change the two queues, and how many requests places that share no       *)
(* request id can hold.                                                    *)
(***************************************************************************)
EXTENDS FsClient, FiniteSetTheorems, SequenceTheorems, TLAPS

LEMMA ClientParameters ==
    /\ NIds \in Nat /\ NIds > 0 /\ Capacity \in Nat /\ NIds <= Capacity
    /\ "none" \notin Types /\ "none" \notin Statuses
BY FsClientAssumption

\* Between two helpers nothing is read ahead; a completed id is still used.
ClientInv ==
    /\ \A id \in Ids : complete[id] => used[id]
    /\ read <= Len(cmplQ)
    /\ cpc # "consume" => read = 0

\* Completions belong to different requests, which the client still uses, and it
\* knows the status of exactly those it has read.
CompletionsKnown ==
    /\ \A i \in 1 .. Len(cmplQ) :
        used[cmplQ[i].id] /\ (complete[cmplQ[i].id] <=> i <= read)
    /\ \A i, j \in 1 .. Len(cmplQ) : cmplQ[i].id = cmplQ[j].id => i = j

\* What the shared queues hold names ids of the client.
LEMMA ClientEntries ==
  ASSUME ClientTypeOK
  PROVE  /\ Len(cmdQ) \in Nat /\ Len(cmplQ) \in Nat /\ read \in Nat
         /\ \A i \in 1 .. Len(cmdQ) : /\ cmdQ[i] \in [id : Ids, type : Types]
                                      /\ cmdQ[i].id \in Ids /\ cmdQ[i].type \in Types
         /\ \A i \in 1 .. Len(cmplQ) : /\ cmplQ[i] \in [id : Ids, status : Statuses]
                                       /\ cmplQ[i].id \in Ids /\ cmplQ[i].status \in Statuses
<1>1. /\ cmdQ \in Seq([id : Ids, type : Types])
      /\ cmplQ \in Seq([id : Ids, status : Statuses])
      /\ read \in Nat
  BY DEF ClientTypeOK
<1>2. /\ Len(cmdQ) \in Nat /\ Len(cmplQ) \in Nat
      /\ \A i \in 1 .. Len(cmdQ) : cmdQ[i] \in [id : Ids, type : Types]
      /\ \A i \in 1 .. Len(cmplQ) : cmplQ[i] \in [id : Ids, status : Statuses]
  BY <1>1, LenProperties, ElementOfSeq
<1> QED
  BY <1>1, <1>2

-----------------------------------------------------------------------------
(* Counting.                                                               *)

\* As many values as positions, when no value occurs twice.
LEMMA DistinctCount ==
  ASSUME NEW D, IsFiniteSet(D), NEW f, \A x, y \in D : f[x] = f[y] => x = y
  PROVE  /\ IsFiniteSet({f[x] : x \in D})
         /\ Cardinality({f[x] : x \in D}) = Cardinality(D)
<1> DEFINE T == {f[x] : x \in D}
           g == [x \in D |-> f[x]]
<1>1. g \in Bijection(D, T)
  BY DEF Bijection, Injection, Surjection, IsInjective
<1>2. ExistsBijection(D, T)
  BY <1>1 DEF ExistsBijection
<1> QED
  BY <1>2, FS_Bijection

\* A queue whose entries carry different ids has as many of them as entries.
IdsOf(q) == {q[i].id : i \in 1 .. Len(q)}

LEMMA IdsCount ==
  ASSUME NEW q, Len(q) \in Nat,
         \A i, j \in 1 .. Len(q) : q[i].id = q[j].id => i = j
  PROVE  IsFiniteSet(IdsOf(q)) /\ Cardinality(IdsOf(q)) = Len(q)
<1> DEFINE D == 1 .. Len(q)
           f == [i \in D |-> q[i].id]
<1>1. IsFiniteSet(D) /\ Cardinality(D) = Len(q)
  <2>1. /\ IsFiniteSet(1 .. Len(q))
        /\ Cardinality(1 .. Len(q)) = IF 1 > Len(q) THEN 0 ELSE Len(q) - 1 + 1
    BY 1 \in Int, Len(q) \in Int, FS_Interval
  <2> QED
    BY <2>1
<1>2. \A x, y \in D : f[x] = f[y] => x = y
  OBVIOUS
<1>3. {f[x] : x \in D} = IdsOf(q)
  BY DEF IdsOf
<1> HIDE DEF f
<1> QED
  BY <1>1, <1>2, <1>3, DistinctCount

\* There are NIds ids for the places that share none.
LEMMA IdsFinite == IsFiniteSet(Ids) /\ Cardinality(Ids) = NIds
BY FS_Interval, ClientParameters DEF Ids

LEMMA DisjointCount ==
  ASSUME NEW A, NEW B, A \subseteq Ids, B \subseteq Ids, A \cap B = {}
  PROVE  /\ IsFiniteSet(A) /\ IsFiniteSet(B) /\ Cardinality(A \cup B) <= NIds
         /\ Cardinality(A \cup B) = Cardinality(A) + Cardinality(B)
         /\ Cardinality(A) \in Nat /\ Cardinality(B) \in Nat
<1>1. IsFiniteSet(A) /\ IsFiniteSet(B)
  BY IdsFinite, FS_Subset
<1>2. Cardinality(A) \in Nat /\ Cardinality(B) \in Nat
  BY <1>1, FS_CardinalityType
<1>3. Cardinality(A \cup B) = Cardinality(A) + Cardinality(B)
  <2>1. Cardinality(A \cup B) = Cardinality(A) + Cardinality(B) - Cardinality(A \cap B)
    BY <1>1, FS_Union
  <2>2. Cardinality(A \cap B) = 0
    BY FS_EmptySet
  <2> QED
    BY <1>2, <2>1, <2>2
<1>4. Cardinality(A \cup B) <= NIds
  BY IdsFinite, FS_Subset
<1> QED
  BY <1>1, <1>2, <1>3, <1>4

\* A set of places no two of which differ has at most one.
LEMMA AtMostOne ==
  ASSUME NEW S, \A x, y \in S : x = y
  PROVE  IsFiniteSet(S) /\ Cardinality(S) <= 1
<1>1. CASE S = {}
  BY <1>1, FS_EmptySet
<1>2. CASE S # {}
  <2>1. PICK x : S = {x}
    BY <1>2
  <2>2. IsFiniteSet({x}) /\ Cardinality({x}) = 1
    BY FS_Singleton
  <2> QED
    BY <2>1, <2>2
<1> QED
  BY <1>1, <1>2

-----------------------------------------------------------------------------
(* The client helpers.                                                     *)

\* fs_command_issue puts the command of a free id behind the queue.
LEMMA IssueFacts ==
  ASSUME ClientTypeOK, ClientInv, NEW type \in Types, ClientIssue(type)
  PROVE  \E id \in Ids :
           /\ ~used[id] /\ ~complete[id]
           /\ used' = [used EXCEPT ![id] = TRUE]
           /\ command' = [command EXCEPT ![id] = type]
           /\ cpc = "idle" /\ cpc' = "notify"
           /\ Len(cmdQ') = Len(cmdQ) + 1 /\ Len(cmdQ) # Capacity
           /\ cmdQ'[Len(cmdQ) + 1] = [id |-> id, type |-> type]
           /\ \A i \in 1 .. Len(cmdQ) : cmdQ'[i] = cmdQ[i]
           /\ \A j \in Ids : Outstanding(j)' <=> Outstanding(j) \/ j = id
           /\ ClientTypeOK' /\ ClientInv'
           /\ UNCHANGED <<complete, completion, read, cliNtfn, cmplQ, srvNtfn>>
<1>1. PICK id \in Ids :
      /\ ~used[id]
      /\ used' = [used EXCEPT ![id] = TRUE]
      /\ cmdQ' = Append(cmdQ, [id |-> id, type |-> type])
      /\ command' = [command EXCEPT ![id] = type]
      /\ cpc = "idle" /\ cpc' = "notify" /\ Len(cmdQ) # Capacity
      /\ UNCHANGED <<complete, completion, read, cliNtfn, cmplQ, srvNtfn>>
  BY DEF ClientIssue, FirstFree, FreeIds
<1> DEFINE m == [id |-> id, type |-> type]
           S == [id : Ids, type : Types]
<1>2. cmdQ \in Seq(S) /\ m \in S /\ cmdQ' = Append(cmdQ, m)
  BY <1>1 DEF ClientTypeOK
<1> HIDE DEF m, S
<1>3. /\ Len(cmdQ') = Len(cmdQ) + 1 /\ cmdQ'[Len(cmdQ) + 1] = m /\ cmdQ' \in Seq(S)
      /\ \A i \in 1 .. Len(cmdQ) : cmdQ'[i] = cmdQ[i]
  BY <1>2, AppendProperties
<1>4. ClientTypeOK'
  BY <1>1, <1>3 DEF ClientTypeOK, S
<1>5. ClientInv'
  BY <1>1 DEF ClientTypeOK, ClientInv
<1>6. ~complete[id]
  BY <1>1 DEF ClientInv
<1>7. \A j \in Ids : Outstanding(j)' <=> Outstanding(j) \/ j = id
  BY <1>1, <1>6 DEF Outstanding, ClientTypeOK
<1> QED
  BY <1>1, <1>3, <1>4, <1>5, <1>6, <1>7 DEF m

\* A helper that is not running has read nothing of the queue: every completion
\* in it is of a request that is still outstanding.
LEMMA ProcessFacts ==
  ASSUME ClientTypeOK, ClientInv, CompletionsKnown, ClientProcess
  PROVE  /\ \A i \in 1 .. Len(cmplQ) : cmplQ[i].id \in Ids /\ Outstanding(cmplQ[i].id)
         /\ \A id \in Ids :
              \/ /\ \A i \in 1 .. Len(cmplQ) : cmplQ[i].id # id
                 /\ complete'[id] = complete[id] /\ completion'[id] = completion[id]
              \/ \E i \in 1 .. Len(cmplQ) :
                   /\ cmplQ[i].id = id
                   /\ complete'[id] /\ completion'[id] = cmplQ[i].status
         /\ complete' \in [Ids -> BOOLEAN]
         /\ completion' \in [Ids -> Statuses \cup {"none"}]
         /\ read' = Len(cmplQ) /\ read = 0
<1>1. cmplQ \in Seq([id : Ids, status : Statuses])
  BY DEF ClientTypeOK
<1>2. \A i \in 1 .. Len(cmplQ) : cmplQ[i] \in [id : Ids, status : Statuses]
  BY <1>1, ElementOfSeq
<1>3. Range(cmplQ) = {cmplQ[i] : i \in 1 .. Len(cmplQ)}
  BY <1>1, RangeEquality
<1>4. \A i \in 1 .. Len(cmplQ) : cmplQ[i].id \in Ids /\ Outstanding(cmplQ[i].id)
  BY <1>1, <1>2, LenProperties DEF CompletionsKnown, ClientInv, ClientProcess, ProcessMessages, Outstanding
<1> DEFINE answered == {m.id : m \in Range(cmplQ)}
           StatusOf(id) == (CHOOSE m \in Range(cmplQ) : m.id = id).status
<1>5. /\ complete' = [id \in Ids |-> complete[id] \/ id \in answered]
      /\ completion' = [id \in Ids |-> IF id \in answered THEN StatusOf(id)
                                       ELSE completion[id]]
  BY DEF ClientProcess, ProcessMessages
<1>6. \A i \in 1 .. Len(cmplQ) : StatusOf(cmplQ[i].id) = cmplQ[i].status
  <2> SUFFICES ASSUME NEW i \in 1 .. Len(cmplQ)
               PROVE  StatusOf(cmplQ[i].id) = cmplQ[i].status
    OBVIOUS
  <2>1. \A m \in Range(cmplQ) : m.id = cmplQ[i].id => m = cmplQ[i]
    BY <1>3 DEF CompletionsKnown
  <2>2. cmplQ[i] \in Range(cmplQ)
    BY <1>3
  <2> QED
    BY <2>1, <2>2
<1>7. \A id : id \in answered <=> \E i \in 1 .. Len(cmplQ) : cmplQ[i].id = id
  BY <1>3
<1> HIDE DEF answered, StatusOf
<1>8. ASSUME NEW id \in Ids
      PROVE
        \/ /\ \A i \in 1 .. Len(cmplQ) : cmplQ[i].id # id
           /\ complete'[id] = complete[id] /\ completion'[id] = completion[id]
        \/ \E i \in 1 .. Len(cmplQ) :
             /\ cmplQ[i].id = id
             /\ complete'[id] /\ completion'[id] = cmplQ[i].status
  <2>1. CASE id \in answered
    <3>1. PICK i \in 1 .. Len(cmplQ) : cmplQ[i].id = id
      BY <1>7, <2>1
    <3>2. complete'[id] /\ completion'[id] = cmplQ[i].status
      BY <1>5, <1>6, <2>1, <3>1
    <3> QED
      BY <3>1, <3>2
  <2>2. CASE id \notin answered
    <3>1. complete'[id] = complete[id]
      BY <1>5, <2>2 DEF ClientTypeOK
    <3>2. completion'[id] = completion[id]
      BY <1>5, <2>2
    <3> QED
      BY <1>7, <2>2, <3>1, <3>2
  <2> QED
    BY <2>1, <2>2
<1>9. complete' \in [Ids -> BOOLEAN]
  BY <1>5 DEF ClientTypeOK
<1>10. completion' \in [Ids -> Statuses \cup {"none"}]
  <2>1. \A id \in Ids : completion'[id] \in Statuses \cup {"none"}
    BY <1>2, <1>8 DEF ClientTypeOK
  <2>2. completion' = [id \in Ids |-> completion'[id]]
    BY <1>5
  <2> QED
    BY <2>1, <2>2
<1>11. read' = Len(cmplQ) /\ read = 0
  BY DEF ClientProcess, ProcessMessages, ClientInv
<1> QED
  BY <1>4, <1>8, <1>9, <1>10, <1>11

\* Publishing the consumption removes exactly the completions that were read.
LEMMA ConsumeFacts ==
  ASSUME ClientTypeOK, ClientInv, CompletionsKnown, ClientConsume
  PROVE  /\ Len(cmplQ') = Len(cmplQ) - read
         /\ \A i \in 1 .. Len(cmplQ) - read :
              i + read \in 1 .. Len(cmplQ) /\ i + read > read /\ cmplQ'[i] = cmplQ[i + read]
         /\ \A i \in 1 .. Len(cmplQ) :
              i > read => i - read \in 1 .. Len(cmplQ') /\ cmplQ'[i - read] = cmplQ[i]
         /\ ClientTypeOK' /\ ClientInv' /\ CompletionsKnown'
         /\ cpc = "consume" /\ cpc' = "idle" /\ read' = 0
         /\ UNCHANGED <<used, complete, completion, command, cliNtfn, cmdQ, srvNtfn>>
<1>0. PICK n, r : n = Len(cmplQ) /\ r = read
  OBVIOUS
<1>1. /\ n \in Nat /\ r \in Nat /\ r <= n
      /\ cmplQ' = SubSeq(cmplQ, r + 1, n)
      /\ cpc = "consume" /\ cpc' = "idle" /\ read' = 0
      /\ UNCHANGED <<used, complete, completion, command, cliNtfn, cmdQ, srvNtfn>>
  BY <1>0, ClientEntries DEF ClientInv, ClientConsume, metaVars
<1> DEFINE S == [id : Ids, status : Statuses]
<1>2. cmplQ \in Seq(S) /\ r + 1 \in Int /\ n \in Int
  BY <1>1 DEF ClientTypeOK
<1> HIDE DEF S
<1>3. /\ cmplQ' \in Seq(S)
      /\ Len(cmplQ') = n - r
      /\ \A i \in 1 .. n - r : cmplQ'[i] = cmplQ[i + r]
  <2>1. \A i \in r + 1 .. n : cmplQ[i] \in S
    BY <1>0, <1>1, <1>2, ElementOfSeq
  <2>2. /\ SubSeq(cmplQ, r + 1, n) \in Seq(S)
        /\ Len(SubSeq(cmplQ, r + 1, n)) = n - r
        /\ \A i \in 1 .. n - r : SubSeq(cmplQ, r + 1, n)[i] = cmplQ[i + r]
    BY <1>0, <1>1, <1>2, <2>1, SubSeqProperties
  <2> QED
    BY <1>1, <2>2
<1>4. /\ \A i \in 1 .. n - r : i + r \in 1 .. n /\ i + r > r
      /\ \A i \in 1 .. n : i > r => i - r \in 1 .. n - r /\ (i - r) + r = i
      /\ \A i \in 1 .. n - r : ~ (i <= 0)
      /\ \A i, j \in 1 .. n - r : i + r = j + r => i = j
  BY <1>1
<1>5. \A i \in 1 .. n : i > r => cmplQ'[i - r] = cmplQ[i]
  BY <1>3, <1>4
<1>6. ClientTypeOK'
  BY <1>1, <1>3 DEF ClientTypeOK, S
<1>7. ClientInv'
  BY <1>1, <1>3 DEF ClientInv
<1>8. CompletionsKnown'
  <2>1. ASSUME NEW i \in 1 .. n - r
        PROVE  used[cmplQ'[i].id] /\ ~complete[cmplQ'[i].id]
    <3>1. i + r \in 1 .. n /\ ~ (i + r <= r) /\ cmplQ'[i] = cmplQ[i + r]
      BY <1>1, <1>3, <1>4
    <3> QED
      BY <1>0, <3>1 DEF CompletionsKnown
  <2>2. ASSUME NEW i \in 1 .. n - r, NEW j \in 1 .. n - r, cmplQ'[i].id = cmplQ'[j].id
        PROVE  i = j
    <3>1. i + r = j + r
      BY <1>0, <1>3, <1>4, <2>2 DEF CompletionsKnown
    <3> QED
      BY <1>4, <3>1
  <2> QED
    BY <1>1, <1>3, <1>4, <2>1, <2>2 DEF CompletionsKnown
<1> QED
  BY <1>0, <1>1, <1>3, <1>4, <1>5, <1>6, <1>7, <1>8

\* fs_request_free gives back an id no completion names any more.
LEMMA FreeFacts ==
  ASSUME ClientTypeOK, ClientInv, CompletionsKnown, NEW id \in Ids, ClientFree(id)
  PROVE  /\ used[id] /\ complete[id] /\ ~used'[id]
         /\ \A j \in Ids : j # id =>
              /\ used'[j] = used[j] /\ complete'[j] = complete[j]
              /\ completion'[j] = completion[j] /\ command'[j] = command[j]
         /\ \A j \in Ids : (Outstanding(j)' <=> Outstanding(j)) /\ (Outstanding(j) => j # id)
         /\ ClientTypeOK' /\ ClientInv' /\ CompletionsKnown'
         /\ UNCHANGED <<cpc, read, cliNtfn, cmdQ, cmplQ, srvNtfn>>
<1>1. /\ cpc = "idle" /\ used[id] /\ complete[id]
      /\ used' = [used EXCEPT ![id] = FALSE]
      /\ complete' = [complete EXCEPT ![id] = FALSE]
      /\ completion' = [completion EXCEPT ![id] = "none"]
      /\ command' = [command EXCEPT ![id] = "none"]
      /\ UNCHANGED <<cpc, read, cliNtfn, cmdQ, cmplQ, srvNtfn>>
  BY DEF ClientFree, sharedVars
<1>2. /\ ~used'[id] /\ ~complete'[id]
      /\ \A j \in Ids : j # id =>
           /\ used'[j] = used[j] /\ complete'[j] = complete[j]
           /\ completion'[j] = completion[j] /\ command'[j] = command[j]
  BY <1>1 DEF ClientTypeOK
<1>3. ClientTypeOK'
  BY <1>1 DEF ClientTypeOK
<1>4. ClientInv'
  BY <1>1, <1>2 DEF ClientInv
<1>5. \A j \in Ids : (Outstanding(j)' <=> Outstanding(j)) /\ (Outstanding(j) => j # id)
  BY <1>1, <1>2 DEF Outstanding
<1>6. CompletionsKnown'
  <2>1. \A i \in 1 .. Len(cmplQ) : cmplQ[i].id \in Ids /\ ~ (i <= read)
    BY <1>1, ClientEntries DEF ClientInv
  <2>2. \A i \in 1 .. Len(cmplQ) : cmplQ[i].id # id
    BY <1>1, <2>1 DEF CompletionsKnown
  <2> QED
    BY <1>1, <1>2, <2>1, <2>2 DEF CompletionsKnown
<1> QED
  BY <1>1, <1>2, <1>3, <1>4, <1>5, <1>6

=============================================================================
