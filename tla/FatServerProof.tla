--------------------------- MODULE FatServerProof ---------------------------
(***************************************************************************)
(* Proofs about FatServer, for any number of request ids, workers and      *)
(* block requests and any capacity of the queues.  A request id travels    *)
(* from the command queue to a pool slot, to an unpublished reply and to a *)
(* published completion while client, event loop and block virtualiser     *)
(* interleave; IInv says what each place may rely on, what the sizes read  *)
(* once per notification still mean, and which wake-ups are on their way.  *)
(***************************************************************************)
EXTENDS MCFsServers, FsClientProof

Held(w) == pool[w].stat = "INUSE"

\* The commands counted but not copied are still in the queue, behind those
\* dequeued, and each has its space among the completions.
SizeInv ==
    /\ dequeued + cmdSize <= Len(cmdQ)
    /\ ~sized /\ spc # "consume" => dequeued = 0
    /\ ~sized /\ spc # "size" => cmdSize = 0
    /\ spc \in {"size", "consume", "produce", "tell", "blk", "wait"} => ~sized
    /\ sized => cmdSize + cmplSize <= Capacity

\* Where the loop stands says which workers can be found ready or finished and
\* what is left to publish.
LoopInv ==
    /\ \A w \in Workers : thread[w] # "not_active" => Held(w)
    /\ \A w \in Workers : Held(w) /\ thread[w] = "not_active" =>
        spc = "run" /\ result[w] \in Statuses
    /\ spc \in {"consume", "produce", "tell", "blk", "wait"} =>
        ~popped /\ \A w \in Workers : thread[w] # "ready"
    /\ spc \in {"pop", "size"} /\ ~popped => \A w \in Workers : thread[w] # "ready"
    /\ spc \in {"tell", "blk", "wait"} => unpub = <<>>
    /\ spc = "wait" => ~blkPushed

\* Queued commands, those copied but not consumed included, belong to different
\* requests that the client waits for.
CommandsHeld ==
    /\ \A i \in 1 .. Len(cmdQ) :
        Outstanding(cmdQ[i].id) /\ command[cmdQ[i].id] = cmdQ[i].type
    /\ \A i, j \in 1 .. Len(cmdQ) : cmdQ[i].id = cmdQ[j].id => i = j

\* So do the requests in the pool, none of which is a command not yet copied.
WorkersHeld ==
    /\ \A w \in Workers : Held(w) => Outstanding(pool[w].id)
    /\ \A v, w \in Workers : Held(v) /\ Held(w) /\ pool[v].id = pool[w].id => v = w
    /\ \A w \in Workers, i \in 1 .. Len(cmdQ) :
        Held(w) /\ pool[w].id = cmdQ[i].id => i <= dequeued

\* So do the replies that are written but not published.
RepliesHeld ==
    /\ \A i \in 1 .. Len(unpub) : Outstanding(unpub[i].id)
    /\ \A i, j \in 1 .. Len(unpub) : unpub[i].id = unpub[j].id => i = j
    /\ \A i \in 1 .. Len(unpub), w \in Workers : Held(w) => unpub[i].id # pool[w].id
    /\ \A i \in 1 .. Len(unpub), j \in 1 .. Len(cmdQ) :
        unpub[i].id = cmdQ[j].id => j <= dequeued

\* A published completion has left every other place.
CompletionsHeld ==
    /\ CompletionsKnown
    /\ \A i \in 1 .. Len(cmplQ), j \in 1 .. Len(cmdQ) : cmplQ[i].id # cmdQ[j].id
    /\ \A i \in 1 .. Len(cmplQ), w \in Workers : Held(w) => cmplQ[i].id # pool[w].id
    /\ \A i \in 1 .. Len(cmplQ), j \in 1 .. Len(unpub) : cmplQ[i].id # unpub[j].id

InCommands(id) == \E i \in 1 .. Len(cmdQ) : i > dequeued /\ cmdQ[i].id = id
InPool(id) == \E w \in Workers : Held(w) /\ pool[w].id = id
InReplies(id) == \E i \in 1 .. Len(unpub) : unpub[i].id = id
InCompletions(id) == \E i \in 1 .. Len(cmplQ) : i > read /\ cmplQ[i].id = id

\* A valid request that the client waits for is somewhere.
ValidHeld ==
    \A id \in Ids : Outstanding(id) /\ command[id] = "valid" =>
        InCommands(id) \/ InPool(id) \/ InReplies(id) \/ InCompletions(id)

\* A command the loop does not know of has its notification on the way.
Announced == "client" \in srvNtfn \/ cpc = "notify"
NtfnInv ==
    \/ Announced
    \/ /\ spc = "size" => Len(cmdQ) = cmdSize
       /\ sized => Len(cmdQ) = dequeued + cmdSize
       /\ spc = "consume" => FreeHandles = {} \/ Len(cmdQ) = dequeued
       /\ spc \in {"produce", "tell", "blk", "wait"} => FreeHandles = {} \/ cmdQ = <<>>

\* The block requests on their way are those of the blocked workers, one each.
BlkInv ==
    /\ \A i, j \in 1 .. Len(blkQ) : blkQ[i] = blkQ[j] => i = j
    /\ \A i, j \in 1 .. Len(blkResp) : blkResp[i] = blkResp[j] => i = j
    /\ \A i \in 1 .. Len(blkQ), j \in 1 .. Len(blkResp) : blkQ[i] # blkResp[j]
    /\ \A i \in 1 .. Len(blkQ) : blkQ[i] \notin blkBusy
    /\ \A i \in 1 .. Len(blkResp) : blkResp[i] \notin blkBusy
    /\ \A w \in Workers : thread[w] = "blocked" <=>
        \/ \E i \in 1 .. Len(blkQ) : blkQ[i] = w
        \/ w \in blkBusy
        \/ \E i \in 1 .. Len(blkResp) : blkResp[i] = w

IInv ==
    /\ TypeOK
    /\ ClientInv /\ SizeInv /\ LoopInv
    /\ CommandsHeld /\ WorkersHeld /\ RepliesHeld /\ CompletionsHeld /\ ValidHeld
    /\ NtfnInv /\ BlkInv


-----------------------------------------------------------------------------
(* The parameters, and what the operators on ids and sequences yield.      *)

LEMMA Parameters ==
    /\ NIds \in Nat /\ NIds > 0 /\ Capacity \in Nat /\ NIds <= Capacity
    /\ "none" \notin Types /\ "none" \notin Statuses
    /\ NWorkers \in Nat /\ NWorkers > 0 /\ MaxBlk \in Nat
    /\ Types \subseteq {"valid", "invalid"}
BY FsClientAssumption, FatServerAssumption

\* What the queues and the pool hold names ids of the client.
LEMMA Entries ==
  ASSUME TypeOK
  PROVE  /\ Len(cmdQ) \in Nat /\ Len(cmplQ) \in Nat /\ Len(unpub) \in Nat
         /\ \A i \in 1 .. Len(cmdQ) : cmdQ[i].id \in Ids /\ cmdQ[i].type \in Types
         /\ \A i \in 1 .. Len(unpub) : unpub[i].id \in Ids /\ unpub[i].status \in Statuses
         /\ \A i \in 1 .. Len(cmplQ) : cmplQ[i].id \in Ids /\ cmplQ[i].status \in Statuses
         /\ \A w \in Workers : pool[w].id \in Ids
         /\ dequeued \in Nat /\ cmdSize \in Nat /\ cmplSize \in Nat /\ read \in Nat
<1>1. /\ cmdQ \in Seq([id : Ids, type : Types])
      /\ cmplQ \in Seq([id : Ids, status : Statuses])
      /\ unpub \in Seq([id : Ids, status : Statuses])
  BY DEF TypeOK, ClientTypeOK
<1>2. /\ Len(cmdQ) \in Nat /\ Len(cmplQ) \in Nat /\ Len(unpub) \in Nat
      /\ \A i \in 1 .. Len(cmdQ) : cmdQ[i] \in [id : Ids, type : Types]
      /\ \A i \in 1 .. Len(unpub) : unpub[i] \in [id : Ids, status : Statuses]
      /\ \A i \in 1 .. Len(cmplQ) : cmplQ[i] \in [id : Ids, status : Statuses]
  BY <1>1, LenProperties, ElementOfSeq
<1>3. /\ \A w \in Workers : pool[w].id \in Ids
      /\ dequeued \in Nat /\ cmdSize \in Nat /\ cmplSize \in Nat /\ read \in Nat
  BY DEF TypeOK, ClientTypeOK
<1> QED
  BY <1>2, <1>3

\* The client's part of the invariant, as the lemmas about its helpers ask for it.
LEMMA ClientPart == ASSUME IInv PROVE ClientTypeOK /\ ClientInv /\ CompletionsKnown
BY DEF IInv, TypeOK, CompletionsHeld

-----------------------------------------------------------------------------

LEMMA InitIInv == ASSUME Init PROVE IInv
<1> USE Parameters DEF Init, ClientInit
<1>1. ClientTypeOK
  BY EmptySeq DEF ClientTypeOK
<1>2. TypeOK
  <2>1. pool \in [Workers -> [id : Ids, stat : {"FREE", "INUSE"}]]
    BY DEF Ids
  <2>2. /\ thread \in [Workers -> {"not_active", "ready", "blocked"}]
        /\ result \in [Workers -> Statuses \cup {"none"}]
        /\ blkLeft \in [Workers -> 0 .. MaxBlk]
    OBVIOUS
  <2> QED
    BY <1>1, <2>1, <2>2, EmptySeq DEF TypeOK
<1>3. ClientInv /\ SizeInv /\ LoopInv
  BY DEF ClientInv, SizeInv, LoopInv, Held
<1>4. CommandsHeld /\ WorkersHeld /\ RepliesHeld /\ CompletionsHeld
  BY DEF CommandsHeld, WorkersHeld, RepliesHeld, CompletionsHeld, CompletionsKnown, Held
<1>5. ValidHeld /\ NtfnInv /\ BlkInv
  BY DEF ValidHeld, NtfnInv, BlkInv, Outstanding
<1> QED
  BY <1>1, <1>2, <1>3, <1>4, <1>5 DEF IInv

-----------------------------------------------------------------------------
(* The client's steps.                                                     *)

LEMMA IssueIInv ==
  ASSUME IInv, NEW type \in Types, ClientIssue(type), UNCHANGED serverVars
  PROVE  IInv'
<1>0. PICK n : n = Len(cmdQ)
  OBVIOUS
<1>1. /\ cmdQ \in Seq([id : Ids, type : Types]) /\ n \in Nat
      /\ cmplQ \in Seq([id : Ids, status : Statuses])
      /\ unpub \in Seq([id : Ids, status : Statuses])
  BY <1>0, LenProperties DEF IInv, TypeOK, ClientTypeOK
<1>2. PICK id \in Ids : 
      /\ ~used[id]
      /\ used' = [used EXCEPT ![id] = TRUE]
      /\ cmdQ' = Append(cmdQ, [id |-> id, type |-> type])
      /\ command' = [command EXCEPT ![id] = type]
      /\ cpc = "idle" /\ cpc' = "notify"
      /\ UNCHANGED <<complete, completion, read, cliNtfn, cmplQ, srvNtfn, serverVars>>
  BY DEF ClientIssue, FirstFree, FreeIds
<1> DEFINE m == [id |-> id, type |-> type]
<1>3. m \in [id : Ids, type : Types] /\ ~complete[id] /\ m.id = id /\ m.type = type
  BY <1>2 DEF IInv, ClientInv
<1> HIDE DEF m
<1>4. /\ Len(cmdQ') = n + 1 /\ cmdQ'[n + 1] = m
      /\ \A i \in 1 .. n : cmdQ'[i] = cmdQ[i] /\ cmdQ[i] \in [id : Ids, type : Types]
      /\ cmdQ' \in Seq([id : Ids, type : Types])
  <2> DEFINE S == [id : Ids, type : Types]
  <2> HIDE DEF S
  <2>1. cmdQ \in Seq(S) /\ m \in S /\ cmdQ' = Append(cmdQ, m)
    BY <1>1, <1>2, <1>3 DEF m, S
  <2>2. /\ Len(cmdQ') = n + 1 /\ cmdQ'[n + 1] = m /\ cmdQ' \in Seq(S)
        /\ \A i \in 1 .. n : cmdQ'[i] = cmdQ[i] /\ cmdQ[i] \in S
    BY <1>0, <2>1, AppendProperties, ElementOfSeq
  <2> QED
    BY <2>2 DEF S
<1> USE DEF serverVars, loopVars, workerVars, blkVars
<1>5. TypeOK'
  <2>1. ClientTypeOK'
    BY <1>2, <1>4 DEF IInv, TypeOK, ClientTypeOK
  <2> QED
    BY <1>2, <2>1 DEF IInv, TypeOK
<1>6. ClientInv' /\ SizeInv' /\ LoopInv'
  <2>1. ClientInv'
    BY <1>2 DEF IInv, TypeOK, ClientTypeOK, ClientInv
  <2>2. SizeInv'
    BY <1>0, <1>1, <1>2, <1>4 DEF IInv, TypeOK, SizeInv
  <2>3. LoopInv'
    BY <1>2 DEF IInv, LoopInv, Held
  <2> QED
    BY <2>1, <2>2, <2>3
<1>7. \A j \in Ids : Outstanding(j)' <=> Outstanding(j) \/ j = id
  BY <1>2, <1>3 DEF Outstanding, IInv, TypeOK, ClientTypeOK
<1>8. CommandsHeld'
  <2>1. \A i \in 1 .. n : cmdQ[i].id \in Ids /\ cmdQ[i].id # id
    BY <1>0, <1>2, <1>4 DEF IInv, CommandsHeld, Outstanding
  <2>2. ASSUME NEW i \in 1 .. n + 1
        PROVE  Outstanding(cmdQ[i].id)' /\ (command[cmdQ[i].id] = cmdQ[i].type)'
    <3>1. CASE i = n + 1
      BY <1>1, <1>2, <1>3, <1>4, <3>1 DEF Outstanding, IInv, TypeOK, ClientTypeOK
    <3>2. CASE i \in 1 .. n
      BY <1>0, <1>1, <1>2, <1>4, <2>1, <3>2 DEF Outstanding, IInv, CommandsHeld, TypeOK, ClientTypeOK
    <3> QED
      BY <1>1, <3>1, <3>2
  <2>3. \A i, j \in 1 .. n + 1 : (cmdQ[i].id = cmdQ[j].id)' => i = j
    <3>1. \A i, j \in 1 .. n : (cmdQ[i].id = cmdQ[j].id)' => i = j
      BY <1>0, <1>4 DEF IInv, CommandsHeld
    <3>2. \A i \in 1 .. n : cmdQ'[i].id # id /\ cmdQ'[n + 1].id = id
      BY <1>3, <1>4, <2>1
    <3>3. \A i \in 1 .. n + 1 : i \in 1 .. n \/ i = n + 1
      BY <1>1
    <3> QED
      BY <3>1, <3>2, <3>3
  <2> QED
    BY <1>4, <2>2, <2>3 DEF CommandsHeld
<1>9. WorkersHeld' /\ RepliesHeld' /\ CompletionsHeld'
  <2>1. \A j \in Ids : used[j] => used'[j] /\ j # id
    BY <1>2 DEF IInv, TypeOK, ClientTypeOK
  <2>2. WorkersHeld'
    BY <1>0, <1>1, <1>2, <1>3, <1>4, <1>7 DEF IInv, WorkersHeld, Held, TypeOK, Outstanding
  <2>3. RepliesHeld'
    BY <1>0, <1>1, <1>2, <1>3, <1>4, <1>7, ElementOfSeq DEF IInv, RepliesHeld, Held, Outstanding
  <2>4. CompletionsHeld'
    BY <1>0, <1>1, <1>2, <1>3, <1>4, <2>1, ElementOfSeq DEF IInv, CompletionsHeld, CompletionsKnown, Held
  <2> QED
    BY <2>2, <2>3, <2>4
<1>10. ValidHeld'
  <2> SUFFICES ASSUME NEW j \in Ids, Outstanding(j)', (command[j] = "valid")'
               PROVE  (InCommands(j) \/ InPool(j) \/ InReplies(j) \/ InCompletions(j))'
    BY DEF ValidHeld
  <2>1. CASE j = id
    <3>1. n + 1 \in 1 .. Len(cmdQ') /\ n + 1 > dequeued' /\ cmdQ'[n + 1].id = id
      BY <1>0, <1>1, <1>2, <1>3, <1>4 DEF IInv, SizeInv, TypeOK
    <3> QED
      BY <2>1, <3>1 DEF InCommands
  <2>2. CASE j # id
    <3>1. Outstanding(j) /\ command[j] = "valid"
      BY <1>2, <1>7, <2>2 DEF IInv, TypeOK, ClientTypeOK
    <3>2. InCommands(j) => InCommands(j)'
      BY <1>0, <1>1, <1>2, <1>4 DEF InCommands
    <3>3. /\ InPool(j) => InPool(j)'
          /\ InReplies(j) => InReplies(j)'
          /\ InCompletions(j) => InCompletions(j)'
      BY <1>2 DEF InPool, InReplies, InCompletions, Held
    <3> QED
      BY <3>1, <3>2, <3>3 DEF IInv, ValidHeld
  <2> QED
    BY <2>1, <2>2
<1>11. NtfnInv' /\ BlkInv'
  BY <1>2 DEF IInv, NtfnInv, Announced, BlkInv
<1> QED
  BY <1>5, <1>6, <1>8, <1>9, <1>10, <1>11 DEF IInv

\* A notification leaves everything that is held where it is.
LEMMA FailsIInv == ASSUME IInv, ClientFails, UNCHANGED serverVars PROVE IInv'
<1> USE DEF ClientFails, metaVars, sharedVars, serverVars, loopVars, workerVars, blkVars
<1>1. TypeOK'
  BY DEF IInv, TypeOK, ClientTypeOK
<1>2. ClientInv' /\ SizeInv' /\ LoopInv'
  BY DEF IInv, ClientInv, SizeInv, LoopInv, Held
<1>3. CommandsHeld' /\ WorkersHeld' /\ RepliesHeld' /\ CompletionsHeld'
  BY DEF IInv, CommandsHeld, WorkersHeld, RepliesHeld, CompletionsHeld, CompletionsKnown, Held, Outstanding
<1>4. ValidHeld'
  BY DEF IInv, ValidHeld, InCommands, InPool, InReplies, InCompletions, Held, Outstanding
<1>5. NtfnInv' /\ BlkInv'
  BY DEF IInv, NtfnInv, Announced, BlkInv, FreeHandles, FreeHandle
<1> QED
  BY <1>1, <1>2, <1>3, <1>4, <1>5 DEF IInv
LEMMA NotifyIInv == ASSUME IInv, ClientNotify, UNCHANGED serverVars PROVE IInv'
<1> USE DEF ClientNotify, metaVars, serverVars, loopVars, workerVars, blkVars
<1>1. TypeOK'
  BY DEF IInv, TypeOK, ClientTypeOK
<1>2. ClientInv' /\ SizeInv' /\ LoopInv'
  BY DEF IInv, ClientInv, SizeInv, LoopInv, Held
<1>3. CommandsHeld' /\ WorkersHeld' /\ RepliesHeld' /\ CompletionsHeld'
  BY DEF IInv, CommandsHeld, WorkersHeld, RepliesHeld, CompletionsHeld, CompletionsKnown, Held, Outstanding
<1>4. ValidHeld'
  BY DEF IInv, ValidHeld, InCommands, InPool, InReplies, InCompletions, Held, Outstanding
<1>5. NtfnInv' /\ BlkInv'
  BY DEF IInv, NtfnInv, Announced, BlkInv, FreeHandles, FreeHandle
<1> QED
  BY <1>1, <1>2, <1>3, <1>4, <1>5 DEF IInv

LEMMA ProcessIInv == ASSUME IInv, ClientProcess, UNCHANGED serverVars PROVE IInv'
<1>0. PICK n : n = Len(cmplQ)
  OBVIOUS
<1>1. /\ \A i \in 1 .. n : cmplQ[i].id \in Ids /\ Outstanding(cmplQ[i].id)
      /\ \A id \in Ids :
           \/ (\A i \in 1 .. n : cmplQ[i].id # id) /\ complete'[id] = complete[id]
           \/ (\E i \in 1 .. n : cmplQ[i].id = id) /\ complete'[id]
      /\ complete' \in [Ids -> BOOLEAN] /\ completion' \in [Ids -> Statuses \cup {"none"}]
      /\ read' = n /\ read = 0
  BY <1>0, ClientPart, ProcessFacts
<1>2. /\ cpc = "idle" /\ cpc' = "consume"
      /\ UNCHANGED <<used, command, cmdQ, cmplQ, srvNtfn, serverVars>> /\ cliNtfn' = FALSE
  BY DEF ClientProcess, ProcessMessages
<1>3. cmplQ \in Seq([id : Ids, status : Statuses]) /\ n \in Nat
  BY <1>0, LenProperties DEF IInv, TypeOK, ClientTypeOK
<1> USE DEF serverVars, loopVars, workerVars, blkVars
<1>4. TypeOK'
  <2>1. ClientTypeOK'
    BY <1>1, <1>2, <1>3 DEF IInv, TypeOK, ClientTypeOK
  <2> QED
    BY <1>2, <2>1 DEF IInv, TypeOK
<1>5. ClientInv'
  BY <1>0, <1>1, <1>2, <1>3 DEF IInv, TypeOK, ClientTypeOK, ClientInv, Outstanding
<1>6. SizeInv' /\ LoopInv'
  BY <1>2 DEF IInv, SizeInv, LoopInv, Held
<1>7. \A id \in Ids : Outstanding(id)' <=> Outstanding(id) /\ \A i \in 1 .. n : cmplQ[i].id # id
  BY <1>1, <1>2 DEF Outstanding
<1>8. CommandsHeld'
  <2>1. \A j \in 1 .. Len(cmdQ) : Outstanding(cmdQ[j].id)'
    BY <1>0, <1>2, <1>7, Entries DEF IInv, CommandsHeld, CompletionsHeld, CompletionsKnown
  <2> QED
    BY <1>2, <2>1 DEF IInv, CommandsHeld
<1>9. WorkersHeld'
  BY <1>0, <1>2, <1>7, Entries DEF IInv, WorkersHeld, CompletionsHeld, CompletionsKnown, Held
<1>10. RepliesHeld'
  BY <1>0, <1>2, <1>7, Entries DEF IInv, RepliesHeld, CompletionsHeld, CompletionsKnown, Held
<1>11. CompletionsHeld'
  BY <1>0, <1>1, <1>2 DEF IInv, CompletionsHeld, CompletionsKnown, Held, Outstanding
<1>12. ValidHeld'
  <2> SUFFICES ASSUME NEW id \in Ids, Outstanding(id)', command[id] = "valid"
               PROVE  (InCommands(id) \/ InPool(id) \/ InReplies(id) \/ InCompletions(id))'
    BY <1>2 DEF ValidHeld
  <2>1. ~ InCompletions(id) /\ Outstanding(id)
    BY <1>0, <1>7 DEF InCompletions
  <2>2. InCommands(id) \/ InPool(id) \/ InReplies(id)
    BY <2>1 DEF IInv, ValidHeld
  <2> QED
    BY <1>2, <2>2 DEF InCommands, InPool, InReplies, Held
<1>13. NtfnInv' /\ BlkInv'
  BY <1>2 DEF IInv, NtfnInv, Announced, BlkInv, FreeHandles, FreeHandle
<1> QED
  BY <1>4, <1>5, <1>6, <1>8, <1>9, <1>10, <1>11, <1>12, <1>13 DEF IInv

LEMMA ConsumeIInv == ASSUME IInv, ClientConsume, UNCHANGED serverVars PROVE IInv'
<1>0. PICK n, r : n = Len(cmplQ) /\ r = read
  OBVIOUS
<1>1. /\ cmplQ \in Seq([id : Ids, status : Statuses]) /\ n \in Nat /\ r \in Nat /\ r <= n
      /\ cmplQ' = SubSeq(cmplQ, r + 1, n)
      /\ cpc = "consume" /\ cpc' = "idle" /\ read' = 0
      /\ UNCHANGED <<used, complete, completion, command, cliNtfn, cmdQ, srvNtfn, serverVars>>
  BY <1>0, LenProperties DEF IInv, TypeOK, ClientTypeOK, ClientInv, ClientConsume, metaVars
<1>2. /\ cmplQ' \in Seq([id : Ids, status : Statuses])
      /\ Len(cmplQ') = n - r
      /\ \A i \in 1 .. n - r : i + r \in 1 .. n /\ cmplQ'[i] = cmplQ[i + r]
  <2> DEFINE S == [id : Ids, status : Statuses]
  <2> HIDE DEF S
  <2>1. cmplQ \in Seq(S) /\ r + 1 \in 1 .. n + 1 /\ n \in r .. n
    BY <1>1 DEF S
  <2>2. /\ SubSeq(cmplQ, r + 1, n) \in Seq(S)
        /\ Len(SubSeq(cmplQ, r + 1, n)) = n - r
        /\ \A i \in 1 .. n - r : SubSeq(cmplQ, r + 1, n)[i] = cmplQ[i + r]
    BY <1>0, <1>1, <2>1, SubSeqProperties
  <2> QED
    BY <1>1, <2>2 DEF S
<1> USE DEF serverVars, loopVars, workerVars, blkVars
<1>3. TypeOK'
  BY <1>1, <1>2 DEF IInv, TypeOK, ClientTypeOK
<1>4. ClientInv'
  BY <1>1, <1>2 DEF IInv, ClientInv
<1>5. SizeInv' /\ LoopInv'
  BY <1>1 DEF IInv, SizeInv, LoopInv, Held
<1>6. CommandsHeld' /\ WorkersHeld' /\ RepliesHeld'
  BY <1>1 DEF IInv, CommandsHeld, WorkersHeld, RepliesHeld, Held, Outstanding
<1>7. CompletionsHeld'
  <2>1. \A i \in 1 .. n - r : (used[cmplQ[i].id] /\ (complete[cmplQ[i].id] <=> i <= read))'
    BY SMTT(30), <1>0, <1>1, <1>2 DEF IInv, CompletionsHeld, CompletionsKnown
  <2>2. \A i, j \in 1 .. n - r : (cmplQ[i].id = cmplQ[j].id)' => i = j
    BY SMTT(30), <1>0, <1>1, <1>2 DEF IInv, CompletionsHeld, CompletionsKnown
  <2>3. \A i \in 1 .. n - r, j \in 1 .. Len(cmdQ) : (cmplQ[i].id # cmdQ[j].id)'
    BY SMTT(30), <1>0, <1>1, <1>2 DEF IInv, CompletionsHeld, CompletionsKnown
  <2>4. \A i \in 1 .. n - r, w \in Workers : (Held(w) => cmplQ[i].id # pool[w].id)'
    BY SMTT(30), <1>0, <1>1, <1>2 DEF IInv, CompletionsHeld, CompletionsKnown, Held
  <2>5. \A i \in 1 .. n - r, j \in 1 .. Len(unpub) : (cmplQ[i].id # unpub[j].id)'
    BY SMTT(30), <1>0, <1>1, <1>2 DEF IInv, CompletionsHeld, CompletionsKnown
  <2> QED
    BY <1>1, <1>2, <2>1, <2>2, <2>3, <2>4, <2>5 DEF CompletionsHeld, CompletionsKnown
<1>8. ValidHeld'
  <2>1. \A id \in Ids : InCompletions(id) => InCompletions(id)'
    <3> SUFFICES ASSUME NEW id \in Ids, NEW i \in 1 .. n, i > r, cmplQ[i].id = id
                 PROVE  InCompletions(id)'
      BY <1>0 DEF InCompletions
    <3>1. i - r \in 1 .. Len(cmplQ') /\ i - r > read' /\ cmplQ'[i - r] = cmplQ[i]
      BY <1>1, <1>2
    <3> QED
      BY <3>1 DEF InCompletions
  <2>2. \A id \in Ids :
          /\ InCommands(id) => InCommands(id)'
          /\ InPool(id) => InPool(id)'
          /\ InReplies(id) => InReplies(id)'
          /\ Outstanding(id)' => Outstanding(id)
    BY <1>1 DEF InCommands, InPool, InReplies, Held, Outstanding
  <2>3. command' = command
    BY <1>1
  <2> QED
    BY <2>1, <2>2, <2>3 DEF IInv, ValidHeld
<1>9. NtfnInv' /\ BlkInv'
  BY <1>1 DEF IInv, NtfnInv, Announced, BlkInv, FreeHandles, FreeHandle
<1> QED
  BY <1>3, <1>4, <1>5, <1>6, <1>7, <1>8, <1>9 DEF IInv

\* The id given back was in no place: it is complete, and its completion consumed.
LEMMA FreeIInv ==
  ASSUME IInv, NEW id \in Ids, ClientFree(id), UNCHANGED serverVars
  PROVE  IInv'
<1>1. /\ cpc = "idle" /\ used[id] /\ complete[id]
      /\ used' = [used EXCEPT ![id] = FALSE]
      /\ complete' = [complete EXCEPT ![id] = FALSE]
      /\ completion' = [completion EXCEPT ![id] = "none"]
      /\ command' = [command EXCEPT ![id] = "none"]
      /\ UNCHANGED <<cpc, read, cliNtfn, cmdQ, cmplQ, srvNtfn, serverVars>>
  BY DEF ClientFree, sharedVars
<1> USE DEF serverVars, loopVars, workerVars, blkVars
<1>2. TypeOK'
  BY <1>1 DEF IInv, TypeOK, ClientTypeOK
<1>3. ClientInv'
  BY <1>1 DEF IInv, TypeOK, ClientTypeOK, ClientInv
<1>4. SizeInv' /\ LoopInv'
  BY <1>1 DEF IInv, SizeInv, LoopInv, Held
<1>5. \A j \in Ids : (Outstanding(j)' <=> Outstanding(j)) /\ (Outstanding(j) => j # id)
  BY <1>1 DEF Outstanding, IInv, TypeOK, ClientTypeOK
<1>6. \A j \in Ids : Outstanding(j) => command'[j] = command[j]
  BY <1>1, <1>5 DEF IInv, TypeOK, ClientTypeOK
<1>7. CommandsHeld'
  BY <1>1, <1>5, <1>6, Entries DEF IInv, CommandsHeld
<1>8. WorkersHeld'
  BY <1>1, <1>5 DEF IInv, WorkersHeld, Held, TypeOK
<1>9. RepliesHeld'
  BY <1>1, <1>5, Entries DEF IInv, RepliesHeld, Held
<1>10. CompletionsHeld'
  <2>1. \A i \in 1 .. Len(cmplQ) : cmplQ[i].id \in Ids /\ cmplQ[i].id # id
    <3>1. \A i \in 1 .. Len(cmplQ) : cmplQ[i].id \in Ids /\ ~ (i <= read)
      BY <1>1, Entries DEF IInv, ClientInv
    <3> QED
      BY <1>1, <3>1 DEF IInv, CompletionsHeld, CompletionsKnown
  <2>2. CompletionsKnown'
    BY <1>1, <2>1 DEF IInv, CompletionsHeld, CompletionsKnown, TypeOK, ClientTypeOK
  <2> QED
    BY <1>1, <2>2 DEF IInv, CompletionsHeld, Held
<1>11. ValidHeld'
  BY <1>1, <1>5, <1>6
     DEF IInv, ValidHeld, InCommands, InPool, InReplies, InCompletions, Held
<1>12. NtfnInv' /\ BlkInv'
  BY <1>1 DEF IInv, NtfnInv, Announced, BlkInv, FreeHandles, FreeHandle
<1> QED
  BY <1>2, <1>3, <1>4, <1>7, <1>8, <1>9, <1>10, <1>11, <1>12 DEF IInv

LEMMA ClientIInv == ASSUME IInv, Client PROVE IInv'
BY IssueIInv, FailsIInv, NotifyIInv, ProcessIInv, ConsumeIInv, FreeIInv DEF Client, ClientStep

-----------------------------------------------------------------------------
(* The loop of notified(), before and after the worker cothreads run.      *)

LEMMA NotifiedIInv == ASSUME IInv, NEW ch, Notified(ch) PROVE IInv'
<1>1. /\ spc = "wait" /\ spc' = "drain" /\ popped' = TRUE /\ sized' = FALSE
      /\ srvNtfn' = srvNtfn \ {ch}
      /\ UNCHANGED <<used, complete, completion, command, cpc, read, cliNtfn, cmdQ, cmplQ,
                     cmdSize, cmplSize, dequeued, unpub, pool, thread, result, blkLeft,
                     blkPushed, blkQ, blkBusy, blkResp, blkNtfn>>
  BY DEF Notified, clientVars, metaVars, workerVars, blkVars
<1>2. TypeOK'
  BY <1>1 DEF IInv, TypeOK, ClientTypeOK
<1>3. ClientInv'
  BY <1>1 DEF IInv, ClientInv
<1>4. SizeInv' /\ LoopInv'
  BY <1>1 DEF IInv, TypeOK, SizeInv, LoopInv, Held
<1>5. CommandsHeld' /\ WorkersHeld' /\ RepliesHeld' /\ CompletionsHeld'
  BY <1>1 DEF IInv, CommandsHeld, WorkersHeld, RepliesHeld, CompletionsHeld, CompletionsKnown, Held, Outstanding
<1>6. ValidHeld'
  BY <1>1 DEF IInv, ValidHeld, InCommands, InPool, InReplies, InCompletions, Held, Outstanding
<1>7. NtfnInv' /\ BlkInv'
  BY <1>1 DEF IInv, NtfnInv, BlkInv
<1> QED
  BY <1>2, <1>3, <1>4, <1>5, <1>6, <1>7 DEF IInv

\* The steps of the loop that move no request, worker or block request: they
\* leave what is held as it was.
LEMMA LoopStep ==
  ASSUME IInv,
         UNCHANGED <<used, complete, command, read, cmdQ, cmplQ, dequeued, unpub, pool>>
  PROVE  /\ CommandsHeld' /\ WorkersHeld' /\ RepliesHeld' /\ CompletionsHeld'
         /\ ValidHeld'
<1>1. CommandsHeld' /\ WorkersHeld' /\ RepliesHeld' /\ CompletionsHeld'
  BY DEF IInv, CommandsHeld, WorkersHeld, RepliesHeld, CompletionsHeld, CompletionsKnown, Held, Outstanding
<1>2. ValidHeld'
  BY DEF IInv, ValidHeld, InCommands, InPool, InReplies, InCompletions, Held, Outstanding
<1> QED
  BY <1>1, <1>2

\* The workers signalled were blocked on the responses dequeued.
LEMMA DrainIInv == ASSUME IInv, Drain PROVE IInv'
<1>1. /\ spc = "drain" /\ spc' = "run" /\ blkResp' = <<>>
      /\ thread' = [w \in Workers |-> IF w \in Range(blkResp) THEN "ready" ELSE thread[w]]
      /\ UNCHANGED <<used, complete, completion, command, cpc, read, cliNtfn, cmdQ, cmplQ, srvNtfn,
                     popped, sized, cmdSize, cmplSize, dequeued, unpub, pool, result, blkLeft,
                     blkPushed, blkQ, blkBusy, blkNtfn>>
  BY DEF Drain, clientVars, metaVars, sharedVars, loopVars
<1>2. blkResp \in Seq(Workers)
  BY DEF IInv, TypeOK
<1>3. \A w \in Workers : w \in Range(blkResp) <=> \E i \in 1 .. Len(blkResp) : blkResp[i] = w
  BY <1>2, RangeEquality
<1>4. \A w \in Workers : \/ /\ \A i \in 1 .. Len(blkResp) : blkResp[i] # w
                            /\ thread'[w] = thread[w]
                         \/ /\ thread'[w] = "ready" /\ thread[w] = "blocked"
                            /\ \E i \in 1 .. Len(blkResp) : blkResp[i] = w
  BY <1>1, <1>3 DEF IInv, BlkInv
<1>5. TypeOK'
  <2>1. thread' \in [Workers -> {"not_active", "ready", "blocked"}]
    BY <1>1 DEF IInv, TypeOK
  <2>2. blkResp' \in Seq(Workers)
    BY <1>1, EmptySeq
  <2> QED
    BY <1>1, <2>1, <2>2 DEF IInv, TypeOK, ClientTypeOK
<1>6. ClientInv' /\ SizeInv'
  BY <1>1 DEF IInv, ClientInv, SizeInv
<1>7. LoopInv'
  BY <1>1, <1>4 DEF IInv, LoopInv, Held
<1>8. /\ CommandsHeld' /\ WorkersHeld' /\ RepliesHeld' /\ CompletionsHeld'
      /\ ValidHeld'
  BY <1>1, LoopStep
<1>9. NtfnInv'
  BY <1>1 DEF IInv, NtfnInv, Announced
<1>10. BlkInv'
  <2>1. Len(blkResp') = 0
    BY <1>1, EmptySeq
  <2>2. ASSUME NEW w \in Workers
        PROVE  thread'[w] = "blocked" <=> (\E i \in 1 .. Len(blkQ) : blkQ[i] = w) \/ w \in blkBusy
    BY <1>2, <1>4, ElementOfSeq DEF IInv, BlkInv
  <2> QED
    BY <1>1, <2>1, <2>2 DEF IInv, BlkInv
<1> QED
  BY <1>5, <1>6, <1>7, <1>8, <1>9, <1>10 DEF IInv

LEMMA WorkerDiskIInv == ASSUME IInv, NEW w \in Workers, WorkerDisk(w) PROVE IInv'
<1>0. PICK n : n = Len(blkQ)
  OBVIOUS
<1>1. /\ spc = "run" /\ thread[w] = "ready" /\ blkLeft[w] > 0
      /\ blkLeft' = [blkLeft EXCEPT ![w] = blkLeft[w] - 1]
      /\ blkQ' = Append(blkQ, w) /\ blkPushed' = TRUE
      /\ thread' = [thread EXCEPT ![w] = "blocked"]
      /\ UNCHANGED <<used, complete, completion, command, cpc, read, cliNtfn, cmdQ, cmplQ, srvNtfn,
                     spc, popped, sized, cmdSize, cmplSize, dequeued, unpub, pool, result,
                     blkBusy, blkResp, blkNtfn>>
  BY DEF WorkerDisk, Enqueue, clientVars, metaVars, sharedVars, loopVars
<1>2. blkQ \in Seq(Workers) /\ n \in Nat
  BY <1>0, LenProperties DEF IInv, TypeOK
<1>3. /\ blkQ' \in Seq(Workers) /\ Len(blkQ') = n + 1 /\ blkQ'[n + 1] = w
      /\ \A i \in 1 .. n : blkQ'[i] = blkQ[i]
  BY <1>0, <1>1, <1>2, AppendProperties
<1>4. /\ thread' \in [Workers -> {"not_active", "ready", "blocked"}]
      /\ \A v \in Workers : thread'[v] = IF v = w THEN "blocked" ELSE thread[v]
  BY <1>1 DEF IInv, TypeOK
<1>5. TypeOK'
  <2>1. blkLeft' \in [Workers -> 0 .. MaxBlk]
    BY <1>1, Parameters DEF IInv, TypeOK
  <2> QED
    BY <1>1, <1>3, <1>4, <2>1 DEF IInv, TypeOK, ClientTypeOK
<1>6. ClientInv' /\ SizeInv'
  BY <1>1 DEF IInv, ClientInv, SizeInv
<1>7. LoopInv'
  BY <1>1, <1>4 DEF IInv, LoopInv, Held
<1>8. /\ CommandsHeld' /\ WorkersHeld' /\ RepliesHeld' /\ CompletionsHeld'
      /\ ValidHeld'
  BY <1>1, LoopStep
<1>9. NtfnInv'
  BY <1>1 DEF IInv, NtfnInv, Announced
<1>10. BlkInv'
  <2>1. \A i \in 1 .. n : blkQ[i] # w
    BY <1>0, <1>1 DEF IInv, BlkInv
  <2>2. w \notin blkBusy /\ \A j \in 1 .. Len(blkResp) : blkResp[j] # w
    BY <1>1 DEF IInv, BlkInv
  <2>3. \A i \in 1 .. n + 1 : i \in 1 .. n \/ i = n + 1
    BY <1>2
  <2>4. /\ \A i, j \in 1 .. n + 1 : blkQ'[i] = blkQ'[j] => i = j
        /\ \A i \in 1 .. n + 1, j \in 1 .. Len(blkResp) : blkQ'[i] # blkResp[j]
        /\ \A i \in 1 .. n + 1 : blkQ'[i] \notin blkBusy
    BY <1>0, <1>3, <2>1, <2>2, <2>3 DEF IInv, BlkInv
  <2>5. \A v \in Workers : thread'[v] = "blocked" <=>
          \/ \E i \in 1 .. n + 1 : blkQ'[i] = v
          \/ v \in blkBusy
          \/ \E i \in 1 .. Len(blkResp) : blkResp[i] = v
    BY <1>0, <1>2, <1>3, <1>4, <2>1, <2>2, <2>3 DEF IInv, BlkInv
  <2> QED
    BY <1>1, <1>3, <2>4, <2>5 DEF IInv, BlkInv
<1> QED
  BY <1>5, <1>6, <1>7, <1>8, <1>9, <1>10 DEF IInv

LEMMA WorkerReturnIInv ==
  ASSUME IInv, NEW w \in Workers, NEW s \in Statuses, WorkerReturn(w, s)
  PROVE  IInv'
<1>1. /\ spc = "run" /\ thread[w] = "ready"
      /\ thread' = [thread EXCEPT ![w] = "not_active"]
      /\ result' = [result EXCEPT ![w] = s]
      /\ blkLeft' = [blkLeft EXCEPT ![w] = 0]
      /\ UNCHANGED <<used, complete, completion, command, cpc, read, cliNtfn, cmdQ, cmplQ, srvNtfn,
                     spc, popped, sized, cmdSize, cmplSize, dequeued, unpub, pool,
                     blkPushed, blkQ, blkBusy, blkResp, blkNtfn>>
  BY DEF WorkerReturn, clientVars, metaVars, sharedVars, loopVars, blkVars
<1>2. /\ thread' \in [Workers -> {"not_active", "ready", "blocked"}]
      /\ \A v \in Workers : thread'[v] = IF v = w THEN "not_active" ELSE thread[v]
      /\ result' \in [Workers -> Statuses \cup {"none"}]
      /\ \A v \in Workers : result'[v] = IF v = w THEN s ELSE result[v]
      /\ blkLeft' \in [Workers -> 0 .. MaxBlk]
  BY <1>1, Parameters DEF IInv, TypeOK
<1>3. TypeOK'
  BY <1>1, <1>2 DEF IInv, TypeOK, ClientTypeOK
<1>4. ClientInv' /\ SizeInv'
  BY <1>1 DEF IInv, ClientInv, SizeInv
<1>5. LoopInv'
  BY <1>1, <1>2 DEF IInv, LoopInv, Held
<1>6. /\ CommandsHeld' /\ WorkersHeld' /\ RepliesHeld' /\ CompletionsHeld'
      /\ ValidHeld'
  BY <1>1, LoopStep
<1>7. NtfnInv'
  BY <1>1 DEF IInv, NtfnInv, Announced
<1>8. BlkInv'
  BY SMTT(30), <1>1, <1>2 DEF IInv, BlkInv
<1> QED
  BY <1>3, <1>4, <1>5, <1>6, <1>7, <1>8 DEF IInv

LEMMA ReadCommandSizeIInv == ASSUME IInv, ReadCommandSize PROVE IInv'
<1>1. /\ spc = "pop" /\ spc' = "size" /\ ~sized /\ FreeHandles # {} /\ cmdSize' = Len(cmdQ)
      /\ UNCHANGED <<used, complete, completion, command, cpc, read, cliNtfn, cmdQ, cmplQ, srvNtfn,
                     popped, sized, cmplSize, dequeued, unpub, pool, thread, result, blkLeft,
                     blkPushed, blkQ, blkBusy, blkResp, blkNtfn>>
  BY DEF ReadCommandSize, clientVars, metaVars, sharedVars, workerVars, blkVars
<1>2. TypeOK'
  BY <1>1, Entries DEF IInv, TypeOK, ClientTypeOK
<1>3. ClientInv' /\ SizeInv' /\ LoopInv'
  BY <1>1, Entries DEF IInv, ClientInv, SizeInv, LoopInv, Held
<1>4. /\ CommandsHeld' /\ WorkersHeld' /\ RepliesHeld' /\ CompletionsHeld'
      /\ ValidHeld'
  BY <1>1, LoopStep
<1>5. NtfnInv' /\ BlkInv'
  BY <1>1 DEF IInv, NtfnInv, Announced, BlkInv
<1> QED
  BY <1>2, <1>3, <1>4, <1>5 DEF IInv

LEMMA CommandsAndCompletions ==
  ASSUME IInv
  PROVE  Len(cmdQ) + Len(cmplQ) <= NIds
<1>1. Cardinality(IdsOf(cmdQ)) = Len(cmdQ) /\ Cardinality(IdsOf(cmplQ)) = Len(cmplQ)
  BY IdsCount, Entries DEF IInv, CommandsHeld, CompletionsHeld, CompletionsKnown
<1>2. IdsOf(cmdQ) \subseteq Ids /\ IdsOf(cmplQ) \subseteq Ids
  BY Entries DEF IInv, IdsOf
<1>3. IdsOf(cmdQ) \cap IdsOf(cmplQ) = {}
  BY DEF IInv, CompletionsHeld, CompletionsKnown, IdsOf
<1>4. /\ Cardinality(IdsOf(cmdQ) \cup IdsOf(cmplQ)) <= NIds
      /\ Cardinality(IdsOf(cmdQ) \cup IdsOf(cmplQ))
           = Cardinality(IdsOf(cmdQ)) + Cardinality(IdsOf(cmplQ))
  BY <1>2, <1>3, DisjointCount
<1> QED
  BY <1>1, <1>4

LEMMA ReadCompletionSizeIInv == ASSUME IInv, ReadCompletionSize PROVE IInv'
<1>1. /\ spc = "size" /\ spc' = "pop" /\ sized' = TRUE /\ cmplSize' = Len(cmplQ)
      /\ UNCHANGED <<used, complete, completion, command, cpc, read, cliNtfn, cmdQ, cmplQ, srvNtfn,
                     popped, cmdSize, dequeued, unpub, pool, thread, result, blkLeft,
                     blkPushed, blkQ, blkBusy, blkResp, blkNtfn>>
  BY DEF ReadCompletionSize, clientVars, metaVars, sharedVars, workerVars, blkVars
<1>2. TypeOK'
  BY <1>1, Entries DEF IInv, TypeOK, ClientTypeOK
<1>3. ClientInv' /\ LoopInv'
  BY <1>1 DEF IInv, ClientInv, LoopInv, Held
<1>4. SizeInv'
  BY <1>1, CommandsAndCompletions, Entries, Parameters DEF IInv, SizeInv
<1>5. /\ CommandsHeld' /\ WorkersHeld' /\ RepliesHeld' /\ CompletionsHeld'
      /\ ValidHeld'
  BY <1>1, LoopStep
<1>6. NtfnInv' /\ BlkInv'
  <2>1. NtfnInv'
    BY <1>1, Entries DEF IInv, NtfnInv, Announced, SizeInv
  <2> QED
    BY <1>1, <2>1 DEF IInv, BlkInv
<1> QED
  BY <1>2, <1>3, <1>4, <1>5, <1>6 DEF IInv

\* What Collect writes behind the tail: one reply for each finished worker.
LEMMA CollectFacts ==
  ASSUME IInv, Collect
  PROVE  /\ unpub' \in Seq([id : Ids, status : Statuses])
         /\ \E k \in Nat : \E order \in [1 .. k -> Finished] :
              /\ \A i, j \in 1 .. k : order[i] = order[j] => i = j
              /\ \A w \in Finished : \E i \in 1 .. k : order[i] = w
              /\ Len(unpub') = Len(unpub) + k
              /\ \A i \in 1 .. Len(unpub) : unpub'[i] = unpub[i]
              /\ \A i \in 1 .. k : unpub'[Len(unpub) + i] = Reply(order[i])
<1>1. IsFiniteSet(Finished)
  <2>1. IsFiniteSet(Workers)
    BY FS_Interval, Parameters DEF Workers
  <2> QED
    BY <2>1, FS_Subset DEF Finished
<1>2. PICK k : k = Cardinality(Finished)
  OBVIOUS
<1>3. k \in Nat
  BY <1>1, <1>2, FS_CardinalityType
<1>4. PICK order \in [1 .. k -> Finished] :
        /\ \A i, j \in 1 .. k : i < j => order[i] < order[j]
        /\ unpub' = unpub \o [i \in 1 .. k |-> Reply(order[i])]
  BY <1>2 DEF Collect, CollectWith
<1> DEFINE S == [id : Ids, status : Statuses]
           new == [i \in 1 .. k |-> Reply(order[i])]
<1>5. Finished \subseteq Workers /\ Workers \subseteq Nat
  BY DEF Finished, Workers
<1>6. \A i, j \in 1 .. k : order[i] = order[j] => i = j
  <2>1. \A i, j \in 1 .. k : i # j => i < j \/ j < i
    BY <1>3
  <2>2. \A i \in 1 .. k : order[i] \in Nat
    BY <1>5
  <2> QED
    BY <1>4, <2>1, <2>2
<1>7. \A w \in Finished : \E i \in 1 .. k : order[i] = w
  <2>1. order \in Injection(1 .. k, Finished)
    BY <1>6 DEF Injection, IsInjective
  <2>2. Cardinality(1 .. k) = k
    BY <1>3, FS_Interval
  <2>3. order \in Surjection(1 .. k, Finished)
    BY <1>1, <1>2, <2>1, <2>2, FS_Injection
  <2> QED
    BY <2>3 DEF Surjection
<1>8. \A i \in 1 .. k : Reply(order[i]) \in S
  BY <1>5 DEF Reply, Finished, IInv, TypeOK, LoopInv, Held
<1> HIDE DEF S
<1>9. new \in Seq(S) /\ Len(new) = k
  <2>1. new \in [1 .. k -> S]
    BY <1>8
  <2> QED
    BY <1>3, <2>1
<1>10. unpub \in Seq(S)
  BY DEF IInv, TypeOK, S
<1> HIDE DEF new
<1>11. /\ unpub' \in Seq(S) /\ Len(unpub') = Len(unpub) + k
       /\ \A i \in 1 .. Len(unpub) + k :
            unpub'[i] = IF i <= Len(unpub) THEN unpub[i] ELSE new[i - Len(unpub)]
  BY ZenonT(60), <1>4, <1>9, <1>10, ConcatProperties DEF new
<1>12. \A i \in 1 .. k : /\ Len(unpub) + i \in 1 .. Len(unpub) + k
                         /\ ~ (Len(unpub) + i <= Len(unpub))
                         /\ Len(unpub) + i - Len(unpub) = i
  BY <1>3, <1>10, LenProperties
<1>13. \A i \in 1 .. Len(unpub) : i \in 1 .. Len(unpub) + k /\ i <= Len(unpub)
  BY <1>3, <1>10, LenProperties
<1>14. \A i \in 1 .. Len(unpub) : unpub'[i] = unpub[i]
  BY <1>11, <1>13
<1>15. \A i \in 1 .. k : unpub'[Len(unpub) + i] = new[i]
  BY <1>11, <1>12
<1>16. \A i \in 1 .. k : unpub'[Len(unpub) + i] = Reply(order[i])
  BY <1>15 DEF new
<1> QED
  BY <1>3, <1>6, <1>7, <1>11, <1>14, <1>16 DEF S

\* Each finished worker's request moves from the pool to the replies.
LEMMA CollectIInv == ASSUME IInv, Collect PROVE IInv'
<1>0. PICK n : n = Len(unpub)
  OBVIOUS
<1>1. /\ spc = "run" /\ spc' = "pop" /\ popped' = FALSE
      /\ \A w \in Workers : thread[w] # "ready"
      /\ pool' = [w \in Workers |-> IF w \in Finished THEN [pool[w] EXCEPT !.stat = "FREE"]
                                    ELSE pool[w]]
      /\ UNCHANGED <<used, complete, completion, command, cpc, read, cliNtfn, cmdQ, cmplQ, srvNtfn,
                     sized, cmdSize, cmplSize, dequeued, thread, result, blkLeft,
                     blkPushed, blkQ, blkBusy, blkResp, blkNtfn>>
  BY DEF Collect, CollectWith, clientVars, metaVars, sharedVars, blkVars
<1>2. PICK k \in Nat : \E order \in [1 .. k -> Finished] :
        /\ \A i, j \in 1 .. k : order[i] = order[j] => i = j
        /\ \A w \in Finished : \E i \in 1 .. k : order[i] = w
        /\ Len(unpub') = n + k
        /\ \A i \in 1 .. n : unpub'[i] = unpub[i]
        /\ \A i \in 1 .. k : unpub'[n + i] = Reply(order[i])
  BY <1>0, CollectFacts
<1>3. PICK order \in [1 .. k -> Finished] :
        /\ \A i, j \in 1 .. k : order[i] = order[j] => i = j
        /\ \A w \in Finished : \E i \in 1 .. k : order[i] = w
        /\ Len(unpub') = n + k
        /\ \A i \in 1 .. n : unpub'[i] = unpub[i]
        /\ \A i \in 1 .. k : unpub'[n + i] = Reply(order[i])
  BY <1>2
<1>5. n \in Nat /\ unpub' \in Seq([id : Ids, status : Statuses])
  BY <1>0, CollectFacts, Entries DEF IInv
<1>4. \A i \in 1 .. k : unpub'[n + i].id = pool[order[i]].id
  <2> SUFFICES ASSUME NEW i \in 1 .. k PROVE unpub'[n + i].id = pool[order[i]].id
    OBVIOUS
  <2>1. unpub'[n + i] = Reply(order[i])
    BY <1>3
  <2> QED
    BY <2>1 DEF Reply
\* A reply is an earlier one, or that of a worker whose slot is free now.
<1>6. \A i \in 1 .. n + k :
        \/ i \in 1 .. n /\ unpub'[i] = unpub[i]
        \/ \E j \in 1 .. k : i = n + j /\ unpub'[i].id = pool[order[j]].id
  <2> SUFFICES ASSUME NEW i \in 1 .. n + k, i \notin 1 .. n
               PROVE  \E j \in 1 .. k : i = n + j /\ unpub'[i].id = pool[order[j]].id
    BY <1>3
  <2>1. PICK j \in 1 .. k : i = n + j
    <3>1. i - n \in 1 .. k /\ i = n + (i - n)
      BY <1>2, <1>5
    <3> QED
      BY <3>1
  <2> QED
    BY <1>4, <2>1
<1>7. \A j \in 1 .. k : order[j] \in Workers /\ Held(order[j]) /\ thread[order[j]] = "not_active"
  BY DEF Finished, Held
<1>8. /\ pool' \in [Workers -> [id : Ids, stat : {"FREE", "INUSE"}]]
      /\ \A w \in Workers : pool'[w].id = pool[w].id
      /\ \A w \in Workers : Held(w)' <=> Held(w) /\ thread[w] # "not_active"
      /\ \A w \in Workers, j \in 1 .. k : Held(w)' => order[j] # w
  <2>1. pool \in [Workers -> [id : Ids, stat : {"FREE", "INUSE"}]]
    BY DEF IInv, TypeOK
  <2>2. \A w \in Workers : pool'[w] \in [id : Ids, stat : {"FREE", "INUSE"}]
    BY <1>1, <2>1
  <2>3. \A w \in Workers : pool'[w].id = pool[w].id
    BY <1>1, <2>1
  <2>4. \A w \in Workers : Held(w)' <=> Held(w) /\ thread[w] # "not_active"
    BY <1>1, <2>1 DEF Held, Finished
  <2>5. \A w \in Workers, j \in 1 .. k : Held(w)' => order[j] # w
    BY <1>7, <2>4
  <2> QED
    BY <1>1, <2>2, <2>3, <2>4, <2>5
<1>9. TypeOK'
  BY <1>1, <1>5, <1>8 DEF IInv, TypeOK, ClientTypeOK
<1>10. ClientInv' /\ SizeInv'
  BY <1>1 DEF IInv, ClientInv, SizeInv
<1>11. LoopInv'
  BY <1>1, <1>8 DEF IInv, LoopInv
<1>12. CommandsHeld'
  BY <1>1 DEF IInv, CommandsHeld, Outstanding
<1>13. WorkersHeld'
  BY <1>1, <1>8 DEF IInv, WorkersHeld, Outstanding
<1>14. RepliesHeld'
  <2>1. \A i \in 1 .. n + k : Outstanding(unpub'[i].id)
    BY <1>0, <1>6, <1>7 DEF IInv, RepliesHeld, WorkersHeld
  <2>2. \A i, j \in 1 .. n + k : unpub'[i].id = unpub'[j].id => i = j
    <3> SUFFICES ASSUME NEW i \in 1 .. n + k, NEW j \in 1 .. n + k, unpub'[i].id = unpub'[j].id
                 PROVE  i = j
      OBVIOUS
    <3>1. CASE i \in 1 .. n /\ j \in 1 .. n
      BY <1>0, <1>3, <3>1 DEF IInv, RepliesHeld
    <3>2. CASE i \in 1 .. n /\ j \notin 1 .. n
      <4>1. PICK b \in 1 .. k : unpub'[j].id = pool[order[b]].id
        BY <1>6, <3>2
      <4> QED
        BY <1>0, <1>3, <1>7, <3>2, <4>1 DEF IInv, RepliesHeld
    <3>3. CASE i \notin 1 .. n /\ j \in 1 .. n
      <4>1. PICK a \in 1 .. k : unpub'[i].id = pool[order[a]].id
        BY <1>6, <3>3
      <4>2. unpub'[j].id # pool[order[a]].id
        BY <1>0, <1>3, <1>7, <3>3 DEF IInv, RepliesHeld
      <4> QED
        BY <4>1, <4>2
    <3>4. CASE i \notin 1 .. n /\ j \notin 1 .. n
      <4>1. PICK a \in 1 .. k, b \in 1 .. k :
              /\ i = n + a /\ unpub'[i].id = pool[order[a]].id
              /\ j = n + b /\ unpub'[j].id = pool[order[b]].id
        BY <1>6, <3>4
      <4>2. order[a] = order[b]
        BY <1>7, <4>1 DEF IInv, WorkersHeld
      <4> QED
        BY <1>3, <4>1, <4>2
    <3> QED
      BY <3>1, <3>2, <3>3, <3>4
  <2>3. \A i \in 1 .. n + k, w \in Workers : Held(w)' => unpub'[i].id # pool[w].id
    <3> SUFFICES ASSUME NEW i \in 1 .. n + k, NEW w \in Workers, Held(w)'
                 PROVE  unpub'[i].id # pool[w].id
      OBVIOUS
    <3>1. Held(w)
      BY <1>8
    <3>2. CASE i \in 1 .. n
      BY <1>0, <1>3, <3>1, <3>2 DEF IInv, RepliesHeld
    <3>3. CASE i \notin 1 .. n
      <4>1. PICK a \in 1 .. k : unpub'[i].id = pool[order[a]].id
        BY <1>6, <3>3
      <4>2. order[a] # w
        BY <1>8
      <4> QED
        BY <1>7, <3>1, <4>1, <4>2 DEF IInv, WorkersHeld
    <3> QED
      BY <3>2, <3>3
  <2>4. \A i \in 1 .. n + k, j \in 1 .. Len(cmdQ) : unpub'[i].id = cmdQ[j].id => j <= dequeued
    <3>1. \A i \in 1 .. n, j \in 1 .. Len(cmdQ) : unpub[i].id = cmdQ[j].id => j <= dequeued
      BY <1>0 DEF IInv, RepliesHeld
    <3>2. \A a \in 1 .. k, j \in 1 .. Len(cmdQ) :
            pool[order[a]].id = cmdQ[j].id => j <= dequeued
      BY <1>7 DEF IInv, WorkersHeld
    <3> QED
      BY <1>6, <3>1, <3>2
  <2> QED
    BY <1>1, <1>3, <1>8, <2>1, <2>2, <2>3, <2>4 DEF RepliesHeld, Outstanding
<1>15. CompletionsHeld'
  <2>1. \A i \in 1 .. Len(cmplQ), w \in Workers : Held(w)' => cmplQ[i].id # pool[w].id
    BY <1>8 DEF IInv, CompletionsHeld, CompletionsKnown
  <2>2. \A i \in 1 .. Len(cmplQ), j \in 1 .. n + k : cmplQ[i].id # unpub'[j].id
    <3>1. \A i \in 1 .. Len(cmplQ), j \in 1 .. n : cmplQ[i].id # unpub[j].id
      BY <1>0 DEF IInv, CompletionsHeld, CompletionsKnown
    <3>2. \A i \in 1 .. Len(cmplQ), a \in 1 .. k : cmplQ[i].id # pool[order[a]].id
      BY <1>7 DEF IInv, CompletionsHeld, CompletionsKnown
    <3> QED
      BY <1>6, <3>1, <3>2
  <2> QED
    BY <1>1, <1>3, <1>8, <2>1, <2>2 DEF IInv, CompletionsHeld, CompletionsKnown
<1>16. ValidHeld'
  <2>1. \A id \in Ids : InReplies(id) => InReplies(id)'
    <3>1. \A i \in 1 .. n : i \in 1 .. n + k
      BY <1>2, <1>5
    <3> QED
      BY <1>0, <1>3, <3>1 DEF InReplies
  <2>2. \A id \in Ids : InPool(id) => InPool(id)' \/ InReplies(id)'
    <3> SUFFICES ASSUME NEW id \in Ids, NEW w \in Workers, Held(w), pool[w].id = id, ~ InPool(id)'
                 PROVE  InReplies(id)'
      BY DEF InPool
    <3>1. w \in Finished
      BY <1>8 DEF InPool, Finished, Held
    <3>2. PICK j \in 1 .. k : order[j] = w
      BY <1>3, <3>1
    <3>3. n + j \in 1 .. n + k /\ unpub'[n + j].id = id
      <4>1. n + j \in 1 .. n + k
        BY <1>2, <1>5
      <4>2. unpub'[n + j].id = pool[order[j]].id
        BY <1>4
      <4> QED
        BY <3>2, <4>1, <4>2
    <3> QED
      BY <1>3, <3>3 DEF InReplies
  <2>3. \A id \in Ids : /\ InCommands(id) => InCommands(id)'
                        /\ InCompletions(id) => InCompletions(id)'
                        /\ Outstanding(id)' => Outstanding(id)
    BY <1>1 DEF InCommands, InCompletions, Outstanding
  <2>4. command' = command
    BY <1>1
  <2> QED
    BY <2>1, <2>2, <2>3, <2>4 DEF IInv, ValidHeld
<1>17. NtfnInv' /\ BlkInv'
  BY <1>1 DEF IInv, NtfnInv, Announced, BlkInv
<1> QED
  BY <1>9, <1>10, <1>11, <1>12, <1>13, <1>14, <1>15, <1>16, <1>17 DEF IInv

\* The request of the command copied moves from the queue to the pool.
LEMMA PopCommandIInv == ASSUME IInv, NEW w \in Workers, PopCommand(w) PROVE IInv'
<1>0. PICK p : p = dequeued + 1
  OBVIOUS
<1>1. /\ spc = "pop" /\ sized /\ cmdSize > 0 /\ cmplSize # Capacity
      /\ thread[w] = "not_active" /\ cmdQ[p].type = "valid"
      /\ pool' = [pool EXCEPT ![w] = [id |-> cmdQ[p].id, stat |-> "INUSE"]]
      /\ thread' = [thread EXCEPT ![w] = "ready"]
      /\ blkLeft' = [blkLeft EXCEPT ![w] = MaxBlk]
      /\ popped' = TRUE
      /\ dequeued' = p /\ cmdSize' = cmdSize - 1 /\ cmplSize' = cmplSize + 1
      /\ UNCHANGED <<used, complete, completion, command, cpc, read, cliNtfn, cmdQ, cmplQ, srvNtfn,
                     spc, sized, unpub, result, blkPushed, blkQ, blkBusy, blkResp, blkNtfn>>
  BY <1>0 DEF PopCommand, CanPop, FreeHandle, clientVars, metaVars, sharedVars, blkVars
<1>2. /\ dequeued \in Nat /\ cmdSize \in Nat /\ cmplSize \in Nat /\ Len(cmdQ) \in Nat
      /\ dequeued + cmdSize <= Len(cmdQ)
      /\ p \in 1 .. Len(cmdQ) /\ ~ (p <= dequeued) /\ cmdQ[p].id \in Ids
  <2>1. /\ dequeued \in Nat /\ cmdSize \in Nat /\ cmplSize \in Nat /\ Len(cmdQ) \in Nat
        /\ dequeued + cmdSize <= Len(cmdQ)
    BY Entries DEF IInv, SizeInv
  <2>2. p \in 1 .. Len(cmdQ) /\ ~ (p <= dequeued)
    BY <1>0, <1>1, <2>1
  <2> QED
    BY <2>1, <2>2, Entries DEF IInv
<1>3. /\ thread' \in [Workers -> {"not_active", "ready", "blocked"}]
      /\ \A v \in Workers : thread'[v] = IF v = w THEN "ready" ELSE thread[v]
      /\ pool' \in [Workers -> [id : Ids, stat : {"FREE", "INUSE"}]]
      /\ pool'[w].id = cmdQ[p].id
      /\ \A v \in Workers : v # w => pool'[v] = pool[v]
      /\ \A v \in Workers : Held(v)' <=> Held(v) \/ v = w
      /\ ~ Held(w)
  BY <1>1, <1>2 DEF IInv, TypeOK, LoopInv, Held
<1>4. TypeOK'
  <2>1. blkLeft' \in [Workers -> 0 .. MaxBlk]
    BY <1>1, Parameters DEF IInv, TypeOK
  <2>2. dequeued' \in Nat /\ cmdSize' \in Nat /\ cmplSize' \in Nat
    BY <1>0, <1>1, <1>2
  <2> QED
    BY <1>1, <1>3, <2>1, <2>2 DEF IInv, TypeOK, ClientTypeOK
<1>5. ClientInv'
  BY <1>1 DEF IInv, ClientInv
<1>6. SizeInv'
  BY <1>0, <1>1, <1>2, Parameters DEF IInv, SizeInv
<1>7. LoopInv'
  BY <1>1, <1>3 DEF IInv, LoopInv
<1>8. CommandsHeld'
  BY <1>1 DEF IInv, CommandsHeld, Outstanding
<1>9. WorkersHeld'
  <2>1. \A v \in Workers : Held(v) => pool[v].id # cmdQ[p].id
    BY <1>2 DEF IInv, WorkersHeld
  <2>2. \A v \in Workers : Held(v)' => Outstanding(pool'[v].id)
    BY <1>2, <1>3 DEF IInv, WorkersHeld, CommandsHeld
  <2>3. \A u, v \in Workers : Held(u)' /\ Held(v)' /\ pool'[u].id = pool'[v].id => u = v
    BY <1>3, <2>1 DEF IInv, WorkersHeld
  <2>4. \A v \in Workers, i \in 1 .. Len(cmdQ) :
          Held(v)' /\ pool'[v].id = cmdQ[i].id => i <= p
    BY <1>0, <1>2, <1>3 DEF IInv, WorkersHeld, CommandsHeld
  <2> QED
    BY <1>1, <2>2, <2>3, <2>4 DEF WorkersHeld, Outstanding
<1>10. RepliesHeld'
  <2>1. \A i \in 1 .. Len(unpub) : unpub[i].id # cmdQ[p].id
    BY <1>2 DEF IInv, RepliesHeld
  <2>2. \A i \in 1 .. Len(unpub), v \in Workers : Held(v)' => unpub[i].id # pool'[v].id
    BY <1>3, <2>1 DEF IInv, RepliesHeld
  <2>3. \A i \in 1 .. Len(unpub), j \in 1 .. Len(cmdQ) : unpub[i].id = cmdQ[j].id => j <= p
    BY <1>0, <1>2 DEF IInv, RepliesHeld
  <2> QED
    BY <1>1, <2>2, <2>3 DEF IInv, RepliesHeld, Outstanding
<1>11. CompletionsHeld'
  <2>1. \A i \in 1 .. Len(cmplQ), v \in Workers : Held(v)' => cmplQ[i].id # pool'[v].id
    BY <1>2, <1>3 DEF IInv, CompletionsHeld, CompletionsKnown
  <2> QED
    BY <1>1, <2>1 DEF IInv, CompletionsHeld, CompletionsKnown
<1>12. ValidHeld'
  <2>1. \A id \in Ids : InPool(id) => InPool(id)'
    BY <1>3 DEF InPool
  <2>2. \A id \in Ids : InCommands(id) => InCommands(id)' \/ InPool(id)'
    <3> SUFFICES ASSUME NEW id \in Ids, NEW i \in 1 .. Len(cmdQ), i > dequeued, cmdQ[i].id = id
                 PROVE  InCommands(id)' \/ InPool(id)'
      BY DEF InCommands
    <3>1. CASE i = p
      BY <1>3, <3>1 DEF InPool
    <3>2. CASE i # p
      <4>1. i > p
        BY <1>0, <1>2, <3>2
      <4> QED
        BY <1>1, <4>1 DEF InCommands
    <3> QED
      BY <3>1, <3>2
  <2>3. \A id \in Ids : /\ InReplies(id) => InReplies(id)'
                        /\ InCompletions(id) => InCompletions(id)'
                        /\ Outstanding(id)' => Outstanding(id)
    BY <1>1 DEF InReplies, InCompletions, Outstanding
  <2>4. command' = command
    BY <1>1
  <2> QED
    BY <2>1, <2>2, <2>3, <2>4 DEF IInv, ValidHeld
<1>13. NtfnInv'
  BY <1>0, <1>1, <1>2 DEF IInv, NtfnInv, Announced, SizeInv
<1>14. BlkInv'
  <2>1. \A v \in Workers : thread'[v] = "blocked" <=> thread[v] = "blocked"
    BY <1>1, <1>3
  <2>2. UNCHANGED <<blkQ, blkBusy, blkResp>> /\ BlkInv
    BY <1>1 DEF IInv
  <2> QED
    BY <2>1, <2>2 DEF BlkInv
<1> QED
  BY <1>4, <1>5, <1>6, <1>7, <1>8, <1>9, <1>10, <1>11, <1>12, <1>13, <1>14 DEF IInv

\* A command of an unknown type leaves the queue for nowhere: it is not valid.
LEMMA PopInvalidIInv == ASSUME IInv, PopInvalid PROVE IInv'
<1>0. PICK p : p = dequeued + 1
  OBVIOUS
<1>1. /\ spc = "pop" /\ sized /\ cmdSize > 0 /\ cmdQ[p].type = "invalid"
      /\ dequeued' = p /\ cmdSize' = cmdSize - 1
      /\ UNCHANGED <<used, complete, completion, command, cpc, read, cliNtfn, cmdQ, cmplQ, srvNtfn,
                     spc, popped, sized, cmplSize, unpub, pool, thread, result, blkLeft,
                     blkPushed, blkQ, blkBusy, blkResp, blkNtfn>>
  BY <1>0 DEF PopInvalid, CanPop, clientVars, metaVars, sharedVars, workerVars, blkVars
<1>2. /\ dequeued \in Nat /\ cmdSize \in Nat /\ cmplSize \in Nat /\ Len(cmdQ) \in Nat
      /\ dequeued + cmdSize <= Len(cmdQ)
  BY Entries DEF IInv, SizeInv
<1>3. TypeOK'
  BY SMTT(30), <1>0, <1>1, <1>2 DEF IInv, TypeOK, ClientTypeOK
<1>4. ClientInv' /\ LoopInv'
  BY <1>1 DEF IInv, ClientInv, LoopInv, Held
<1>5. SizeInv'
  BY <1>0, <1>1, <1>2, Parameters DEF IInv, SizeInv
<1>6. CommandsHeld' /\ CompletionsHeld'
  BY <1>1 DEF IInv, CommandsHeld, CompletionsHeld, CompletionsKnown, Held, Outstanding
<1>7. WorkersHeld'
  BY <1>0, <1>1, <1>2 DEF IInv, WorkersHeld, Held, Outstanding
<1>8. RepliesHeld'
  BY <1>0, <1>1, <1>2 DEF IInv, RepliesHeld, Held, Outstanding
<1>9. ValidHeld'
  <2>1. \A id \in Ids : InCommands(id) /\ command[id] = "valid" => InCommands(id)'
    <3> SUFFICES ASSUME NEW id \in Ids, command[id] = "valid",
                        NEW i \in 1 .. Len(cmdQ), i > dequeued, cmdQ[i].id = id
                 PROVE  InCommands(id)'
      BY DEF InCommands
    <3>1. i # p
      BY <1>1 DEF IInv, CommandsHeld
    <3>2. i > p
      BY <1>0, <1>2, <3>1
    <3> QED
      BY <1>1, <3>2 DEF InCommands
  <2>2. \A id \in Ids : /\ InPool(id) => InPool(id)'
                        /\ InReplies(id) => InReplies(id)'
                        /\ InCompletions(id) => InCompletions(id)'
                        /\ Outstanding(id)' => Outstanding(id)
    BY <1>1 DEF InPool, InReplies, InCompletions, Outstanding, Held
  <2>3. command' = command
    BY <1>1
  <2> QED
    BY <2>1, <2>2, <2>3 DEF IInv, ValidHeld
<1>10. NtfnInv'
  BY <1>0, <1>1, <1>2 DEF IInv, NtfnInv, Announced, SizeInv
<1>11. BlkInv'
  BY <1>1 DEF IInv, BlkInv
<1> QED
  BY <1>3, <1>4, <1>5, <1>6, <1>7, <1>8, <1>9, <1>10, <1>11 DEF IInv

\* The loop stops for want of a handle or of a command: with as many spaces as
\* commands counted, it never stops for want of space.
LEMMA PopDoneIInv == ASSUME IInv, PopDone PROVE IInv'
<1>1. /\ spc = "pop" /\ (sized \/ FreeHandles = {}) /\ ~CanPop
      /\ \/ popped /\ spc' = "drain" /\ UNCHANGED <<sized, cmdSize, cmplSize>>
         \/ ~popped /\ spc' = "consume" /\ sized' = FALSE /\ cmdSize' = 0 /\ cmplSize' = 0
      /\ UNCHANGED <<used, complete, completion, command, cpc, read, cliNtfn, cmdQ, cmplQ, srvNtfn,
                     popped, dequeued, unpub, pool, thread, result, blkLeft,
                     blkPushed, blkQ, blkBusy, blkResp, blkNtfn>>
  BY DEF PopDone, IInv, TypeOK, clientVars, metaVars, sharedVars, workerVars, blkVars
<1>2. TypeOK'
  <2>1. ClientTypeOK'
    BY <1>1 DEF IInv, TypeOK, ClientTypeOK
  <2>2. sized' \in BOOLEAN /\ cmdSize' \in Nat /\ cmplSize' \in Nat
    <3>1. sized \in BOOLEAN /\ cmdSize \in Nat /\ cmplSize \in Nat
      BY DEF IInv, TypeOK
    <3>2. CASE sized' = sized /\ cmdSize' = cmdSize /\ cmplSize' = cmplSize
      BY <3>1, <3>2
    <3>3. CASE sized' = FALSE /\ cmdSize' = 0 /\ cmplSize' = 0
      BY <3>3
    <3> QED
      BY <1>1, <3>2, <3>3
  <2> QED
    BY <1>1, <2>1, <2>2 DEF IInv, TypeOK
<1>3. ClientInv'
  BY <1>1 DEF IInv, ClientInv
<1>4. SizeInv'
  BY <1>1, Entries DEF IInv, SizeInv
<1>5. LoopInv'
  BY <1>1 DEF IInv, LoopInv, Held
<1>6. /\ CommandsHeld' /\ WorkersHeld' /\ RepliesHeld' /\ CompletionsHeld'
      /\ ValidHeld'
  BY <1>1, LoopStep
<1>7. sized /\ FreeHandles # {} => cmdSize = 0
  <2>1. /\ cmdSize \in Nat /\ cmplSize \in Nat /\ Capacity \in Nat
        /\ sized => cmdSize + cmplSize <= Capacity
    BY Entries, Parameters DEF IInv, SizeInv
  <2>2. sized /\ FreeHandles # {} => ~ (cmdSize > 0) \/ cmplSize = Capacity
    BY <1>1 DEF CanPop
  <2> QED
    BY <2>1, <2>2
<1>8. NtfnInv'
  <2>1. FreeHandles' = FreeHandles /\ Announced' = Announced
    BY <1>1 DEF FreeHandles, FreeHandle, Announced
  <2>2. sized => FreeHandles = {} \/ Len(cmdQ) = dequeued \/ Announced
    BY <1>7, Entries DEF IInv, NtfnInv
  <2> QED
    BY <1>1, <2>1, <2>2 DEF IInv, NtfnInv
<1>9. BlkInv'
  BY <1>1 DEF IInv, BlkInv
<1> QED
  BY <1>2, <1>3, <1>4, <1>5, <1>6, <1>8, <1>9 DEF IInv

\* Only commands that were dequeued leave the queue.
LEMMA ConsumptionIInv == ASSUME IInv, PublishConsumption PROVE IInv'
<1>0. PICK n, d : n = Len(cmdQ) /\ d = dequeued
  OBVIOUS
<1>1. /\ spc = "consume" /\ spc' = "produce" /\ dequeued' = 0
      /\ cmdQ' = SubSeq(cmdQ, d + 1, n)
      /\ UNCHANGED <<used, complete, completion, command, cpc, read, cliNtfn, cmplQ, srvNtfn,
                     popped, sized, cmdSize, cmplSize, unpub, pool, thread, result, blkLeft,
                     blkPushed, blkQ, blkBusy, blkResp, blkNtfn>>
  BY <1>0 DEF PublishConsumption, Consume, clientVars, metaVars, workerVars, blkVars
<1>2. /\ n \in Nat /\ d \in Nat /\ d <= n
      /\ cmdSize = 0 /\ ~sized
      /\ cmdQ \in Seq([id : Ids, type : Types])
  BY <1>0, <1>1, Entries DEF IInv, SizeInv, TypeOK, ClientTypeOK
<1>3. /\ cmdQ' \in Seq([id : Ids, type : Types])
      /\ Len(cmdQ') = n - d
      /\ \A i \in 1 .. n - d : i + d \in 1 .. n /\ i + d > d /\ cmdQ'[i] = cmdQ[i + d]
  <2> DEFINE S == [id : Ids, type : Types]
  <2> HIDE DEF S
  <2>1. cmdQ \in Seq(S) /\ d + 1 \in 1 .. n + 1 /\ n \in d .. n
    BY <1>2 DEF S
  <2>2. /\ SubSeq(cmdQ, d + 1, n) \in Seq(S)
        /\ Len(SubSeq(cmdQ, d + 1, n)) = n - d
        /\ \A i \in 1 .. n - d : SubSeq(cmdQ, d + 1, n)[i] = cmdQ[i + d]
    BY <1>0, <1>2, <2>1, SubSeqProperties
  <2>3. \A i \in 1 .. n - d : i + d \in 1 .. n /\ i + d > d
    BY <1>2
  <2> QED
    BY <1>1, <2>2, <2>3 DEF S
<1>4. TypeOK'
  BY <1>1, <1>3 DEF IInv, TypeOK, ClientTypeOK
<1>5. ClientInv' /\ LoopInv'
  BY <1>1 DEF IInv, ClientInv, LoopInv, Held
<1>6. SizeInv'
  BY <1>1, <1>2, <1>3 DEF SizeInv
<1>7. CommandsHeld'
  <2>1. \A i \in 1 .. n - d :
          Outstanding(cmdQ'[i].id) /\ command[cmdQ'[i].id] = cmdQ'[i].type
    BY <1>0, <1>3 DEF IInv, CommandsHeld
  <2>2. \A i, j \in 1 .. n - d : cmdQ'[i].id = cmdQ'[j].id => i = j
    <3> SUFFICES ASSUME NEW i \in 1 .. n - d, NEW j \in 1 .. n - d, cmdQ'[i].id = cmdQ'[j].id
                 PROVE  i = j
      OBVIOUS
    <3>1. i + d = j + d
      BY <1>0, <1>3 DEF IInv, CommandsHeld
    <3> QED
      BY <1>2, <3>1
  <2> QED
    BY <1>1, <1>3, <2>1, <2>2 DEF CommandsHeld, Outstanding
<1>8. WorkersHeld'
  <2>1. \A w \in Workers, i \in 1 .. n - d : Held(w) => pool[w].id # cmdQ'[i].id
    <3> SUFFICES ASSUME NEW w \in Workers, NEW i \in 1 .. n - d, Held(w), pool[w].id = cmdQ'[i].id
                 PROVE  FALSE
      OBVIOUS
    <3>1. i + d <= d
      BY <1>0, <1>3 DEF IInv, WorkersHeld
    <3> QED
      BY <1>2, <1>3, <3>1
  <2> QED
    BY <1>1, <1>3, <2>1 DEF IInv, WorkersHeld, Held, Outstanding
<1>9. RepliesHeld'
  <2>1. \A j \in 1 .. Len(unpub), i \in 1 .. n - d : unpub[j].id # cmdQ'[i].id
    <3> SUFFICES ASSUME NEW j \in 1 .. Len(unpub), NEW i \in 1 .. n - d, unpub[j].id = cmdQ'[i].id
                 PROVE  FALSE
      OBVIOUS
    <3>1. i + d <= d
      BY <1>0, <1>3 DEF IInv, RepliesHeld
    <3> QED
      BY <1>2, <1>3, <3>1
  <2> QED
    BY <1>1, <1>3, <2>1 DEF IInv, RepliesHeld, Held, Outstanding
<1>10. CompletionsHeld'
  <2>1. \A j \in 1 .. Len(cmplQ), i \in 1 .. n - d : cmplQ[j].id # cmdQ'[i].id
    BY <1>0, <1>3 DEF IInv, CompletionsHeld, CompletionsKnown
  <2> QED
    BY <1>1, <1>3, <2>1 DEF IInv, CompletionsHeld, CompletionsKnown, Held
<1>11. ValidHeld'
  <2>1. \A id \in Ids : InCommands(id) => InCommands(id)'
    <3> SUFFICES ASSUME NEW id \in Ids, NEW i \in 1 .. n, i > d, cmdQ[i].id = id
                 PROVE  InCommands(id)'
      BY <1>0 DEF InCommands
    <3>1. i - d \in 1 .. n - d /\ (i - d) + d = i /\ i - d > 0
      BY <1>2
    <3>2. cmdQ'[i - d].id = id
      BY <1>3, <3>1
    <3> QED
      BY <1>1, <1>3, <3>1, <3>2 DEF InCommands
  <2>2. \A id \in Ids : /\ InPool(id) => InPool(id)'
                        /\ InReplies(id) => InReplies(id)'
                        /\ InCompletions(id) => InCompletions(id)'
                        /\ Outstanding(id)' => Outstanding(id)
    BY <1>1 DEF InPool, InReplies, InCompletions, Outstanding, Held
  <2>3. command' = command
    BY <1>1
  <2> QED
    BY <2>1, <2>2, <2>3 DEF IInv, ValidHeld
<1>12. NtfnInv'
  <2>1. FreeHandles' = FreeHandles /\ Announced' = Announced
    BY <1>1 DEF FreeHandles, FreeHandle, Announced
  <2>2. n = d => cmdQ' = <<>>
    BY <1>2, <1>3, EmptySeq
  <2>3. Announced \/ FreeHandles = {} \/ n = d
    BY <1>0, <1>1 DEF IInv, NtfnInv
  <2> QED
    BY <1>1, <1>2, <2>1, <2>2, <2>3 DEF NtfnInv
<1>13. BlkInv'
  BY <1>1 DEF IInv, BlkInv
<1> QED
  BY <1>4, <1>5, <1>6, <1>7, <1>8, <1>9, <1>10, <1>11, <1>12, <1>13 DEF IInv

\* When replies are published their commands have left the queue.
LEMMA ProductionIInv == ASSUME IInv, PublishProduction PROVE IInv'
<1>0. PICK n, k : n = Len(cmplQ) /\ k = Len(unpub)
  OBVIOUS
<1>1. /\ spc = "produce" /\ spc' \in {"tell", "blk"}
      /\ cmplQ' = cmplQ \o unpub /\ unpub' = <<>>
      /\ UNCHANGED <<used, complete, completion, command, cpc, read, cliNtfn, cmdQ, srvNtfn,
                     popped, sized, cmdSize, cmplSize, dequeued, pool, thread, result, blkLeft,
                     blkPushed, blkQ, blkBusy, blkResp, blkNtfn>>
  BY DEF PublishProduction, clientVars, metaVars, workerVars, blkVars
<1>2. /\ n \in Nat /\ k \in Nat /\ read \in Nat /\ read <= n
      /\ dequeued = 0 /\ ~sized /\ cmdSize = 0
  BY <1>0, <1>1, Entries DEF IInv, SizeInv, ClientInv
<1>3. /\ cmplQ' \in Seq([id : Ids, status : Statuses])
      /\ Len(cmplQ') = n + k
      /\ \A i \in 1 .. n : cmplQ'[i] = cmplQ[i] /\ i \in 1 .. n + k
      /\ \A i \in 1 .. k : cmplQ'[n + i] = unpub[i] /\ n + i \in 1 .. n + k
      /\ \A i \in 1 .. n + k : i \in 1 .. n \/ \E j \in 1 .. k : i = n + j
  <2> DEFINE S == [id : Ids, status : Statuses]
  <2>1. cmplQ \in Seq(S) /\ unpub \in Seq(S)
    BY DEF IInv, TypeOK, ClientTypeOK
  <2> HIDE DEF S
  <2>2. /\ cmplQ' \in Seq(S) /\ Len(cmplQ') = n + k
        /\ \A i \in 1 .. n + k : cmplQ'[i] = IF i <= n THEN cmplQ[i] ELSE unpub[i - n]
    BY <1>0, <1>1, <2>1, ConcatProperties
  <2>3. /\ \A i \in 1 .. n : i <= n /\ i \in 1 .. n + k
        /\ \A i \in 1 .. k : ~ (n + i <= n) /\ n + i \in 1 .. n + k /\ (n + i) - n = i
        /\ \A i \in 1 .. n + k : i \in 1 .. n \/ (i - n \in 1 .. k /\ i = n + (i - n))
    BY <1>2
  <2>4. \A i \in 1 .. n + k : i \in 1 .. n \/ \E j \in 1 .. k : i = n + j
    BY <2>3
  <2>5. \A i \in 1 .. n : cmplQ'[i] = cmplQ[i] /\ i \in 1 .. n + k
    BY <2>2, <2>3
  <2>6. \A i \in 1 .. k : cmplQ'[n + i] = unpub[i] /\ n + i \in 1 .. n + k
    BY <2>2, <2>3
  <2> QED
    BY <2>2, <2>4, <2>5, <2>6 DEF S
<1>4. TypeOK'
  <2>1. unpub' \in Seq([id : Ids, status : Statuses])
    BY <1>1, EmptySeq
  <2> QED
    BY <1>1, <1>3, <2>1 DEF IInv, TypeOK, ClientTypeOK
<1>5. ClientInv'
  BY <1>1, <1>2, <1>3 DEF IInv, ClientInv
<1>6. SizeInv'
  BY <1>1, <1>2, Entries DEF IInv, SizeInv
<1>7. LoopInv'
  BY <1>1 DEF IInv, LoopInv, Held
<1>8. CommandsHeld' /\ WorkersHeld'
  BY <1>1 DEF IInv, CommandsHeld, WorkersHeld, Held, Outstanding
<1>9. RepliesHeld'
  BY <1>1, EmptySeq DEF RepliesHeld
<1>10. CompletionsHeld'
  <2>1. /\ \A i \in 1 .. n : used[cmplQ[i].id] /\ (complete[cmplQ[i].id] <=> i <= read)
        /\ \A i, j \in 1 .. n : cmplQ[i].id = cmplQ[j].id => i = j
        /\ \A i \in 1 .. n, j \in 1 .. Len(cmdQ) : cmplQ[i].id # cmdQ[j].id
        /\ \A i \in 1 .. n, w \in Workers : Held(w) => cmplQ[i].id # pool[w].id
        /\ \A i \in 1 .. n, j \in 1 .. k : cmplQ[i].id # unpub[j].id
    BY <1>0 DEF IInv, CompletionsHeld, CompletionsKnown
  <2>2. /\ \A i \in 1 .. k : used[unpub[i].id] /\ ~complete[unpub[i].id]
        /\ \A i, j \in 1 .. k : unpub[i].id = unpub[j].id => i = j
        /\ \A i \in 1 .. k, w \in Workers : Held(w) => unpub[i].id # pool[w].id
        /\ \A i \in 1 .. k, j \in 1 .. Len(cmdQ) : unpub[i].id = cmdQ[j].id => j <= 0
    BY <1>0, <1>2 DEF IInv, RepliesHeld, Outstanding
  <2>3. \A i \in 1 .. k, j \in 1 .. Len(cmdQ) : unpub[i].id # cmdQ[j].id
    BY <2>2, Entries DEF IInv
  <2>4. \A i \in 1 .. n + k : used[cmplQ'[i].id] /\ (complete[cmplQ'[i].id] <=> i <= read)
    <3>1. \A j \in 1 .. k : ~ (n + j <= read)
      BY <1>2
    <3> QED
      BY <1>3, <2>1, <2>2, <3>1
  <2>5. \A i, j \in 1 .. n + k : cmplQ'[i].id = cmplQ'[j].id => i = j
    <3> SUFFICES ASSUME NEW i \in 1 .. n + k, NEW j \in 1 .. n + k, cmplQ'[i].id = cmplQ'[j].id
                 PROVE  i = j
      OBVIOUS
    <3>1. CASE i \in 1 .. n /\ j \in 1 .. n
      BY <1>3, <2>1, <3>1
    <3>2. CASE i \in 1 .. n /\ j \notin 1 .. n
      BY <1>3, <2>1, <3>2
    <3>3. CASE i \notin 1 .. n /\ j \in 1 .. n
      BY <1>3, <2>1, <3>3
    <3>4. CASE i \notin 1 .. n /\ j \notin 1 .. n
      BY <1>3, <2>2, <3>4
    <3> QED
      BY <3>1, <3>2, <3>3, <3>4
  <2>6. \A i \in 1 .. n + k, j \in 1 .. Len(cmdQ) : cmplQ'[i].id # cmdQ[j].id
    <3> SUFFICES ASSUME NEW i \in 1 .. n + k, NEW j \in 1 .. Len(cmdQ)
                 PROVE  cmplQ'[i].id # cmdQ[j].id
      OBVIOUS
    <3>1. CASE i \in 1 .. n
      BY <1>3, <2>1, <3>1
    <3>2. CASE i \notin 1 .. n
      <4>1. PICK l \in 1 .. k : i = n + l
        BY <1>3, <3>2
      <4> QED
        BY <1>3, <2>3, <4>1
    <3> QED
      BY <3>1, <3>2
  <2>7. \A i \in 1 .. n + k, w \in Workers : Held(w) => cmplQ'[i].id # pool[w].id
    BY <1>3, <2>1, <2>2
  <2>8. Len(unpub') = 0
    BY <1>1, EmptySeq
  <2> QED
    BY <1>1, <1>3, <2>4, <2>5, <2>6, <2>7, <2>8 DEF CompletionsHeld, CompletionsKnown, Held
<1>11. ValidHeld'
  <2>1. \A id \in Ids : InCompletions(id) => InCompletions(id)'
    BY <1>0, <1>1, <1>3 DEF InCompletions
  <2>2. \A id \in Ids : InReplies(id) => InCompletions(id)'
    <3>1. \A j \in 1 .. k : n + j > read
      BY <1>2
    <3> SUFFICES ASSUME NEW id \in Ids, NEW j \in 1 .. k, unpub[j].id = id
                 PROVE  InCompletions(id)'
      BY <1>0 DEF InReplies
    <3>2. n + j \in 1 .. Len(cmplQ') /\ n + j > read' /\ cmplQ'[n + j].id = id
      BY <1>1, <1>3, <3>1
    <3> QED
      BY <3>2 DEF InCompletions
  <2>3. \A id \in Ids : /\ InCommands(id) => InCommands(id)'
                        /\ InPool(id) => InPool(id)'
                        /\ Outstanding(id)' => Outstanding(id)
    BY <1>1 DEF InCommands, InPool, Outstanding, Held
  <2>4. command' = command
    BY <1>1
  <2> QED
    BY <2>1, <2>2, <2>3, <2>4 DEF IInv, ValidHeld
<1>12. NtfnInv'
  <2>1. FreeHandles' = FreeHandles /\ Announced' = Announced
    BY <1>1 DEF FreeHandles, FreeHandle, Announced
  <2> QED
    BY <1>1, <1>2, <2>1 DEF IInv, NtfnInv
<1>13. BlkInv'
  BY <1>1 DEF IInv, BlkInv
<1> QED
  BY <1>4, <1>5, <1>6, <1>7, <1>8, <1>9, <1>10, <1>11, <1>12, <1>13 DEF IInv

LEMMA NotifyClientIInv == ASSUME IInv, NotifyClient PROVE IInv'
<1>1. /\ spc = "tell" /\ spc' = "blk" /\ cliNtfn' = TRUE
      /\ UNCHANGED <<used, complete, completion, command, cpc, read, cmdQ, cmplQ, srvNtfn,
                     popped, sized, cmdSize, cmplSize, dequeued, unpub, pool, thread, result,
                     blkLeft, blkPushed, blkQ, blkBusy, blkResp, blkNtfn>>
  BY DEF NotifyClient, metaVars, sharedVars, loopVars, workerVars, blkVars
<1>2. TypeOK'
  BY <1>1 DEF IInv, TypeOK, ClientTypeOK
<1>3. ClientInv' /\ SizeInv' /\ LoopInv'
  BY <1>1 DEF IInv, ClientInv, SizeInv, LoopInv, Held
<1>4. /\ CommandsHeld' /\ WorkersHeld' /\ RepliesHeld' /\ CompletionsHeld'
      /\ ValidHeld'
  BY <1>1, LoopStep
<1>5. NtfnInv' /\ BlkInv'
  BY <1>1 DEF IInv, NtfnInv, Announced, BlkInv, FreeHandles, FreeHandle
<1> QED
  BY <1>2, <1>3, <1>4, <1>5 DEF IInv

LEMMA NotifyBlkIInv == ASSUME IInv, NotifyBlk PROVE IInv'
<1>1. /\ spc = "blk" /\ spc' = "wait" /\ blkPushed' = FALSE /\ blkNtfn' \in BOOLEAN
      /\ UNCHANGED <<used, complete, completion, command, cpc, read, cliNtfn, cmdQ, cmplQ, srvNtfn,
                     popped, sized, cmdSize, cmplSize, dequeued, unpub, pool, thread, result,
                     blkLeft, blkQ, blkBusy, blkResp>>
  BY DEF NotifyBlk, IInv, TypeOK, clientVars, metaVars, sharedVars, loopVars, workerVars
<1>2. TypeOK'
  BY <1>1 DEF IInv, TypeOK, ClientTypeOK
<1>3. ClientInv' /\ SizeInv' /\ LoopInv'
  BY <1>1 DEF IInv, ClientInv, SizeInv, LoopInv, Held
<1>4. /\ CommandsHeld' /\ WorkersHeld' /\ RepliesHeld' /\ CompletionsHeld'
      /\ ValidHeld'
  BY <1>1, LoopStep
<1>5. NtfnInv' /\ BlkInv'
  BY <1>1 DEF IInv, NtfnInv, Announced, BlkInv, FreeHandles, FreeHandle
<1> QED
  BY <1>2, <1>3, <1>4, <1>5 DEF IInv

-----------------------------------------------------------------------------
(* The block virtualiser.                                                  *)

LEMMA BlkTakeIInv == ASSUME IInv, BlkTake PROVE IInv'
<1>1. /\ blkNtfn' = FALSE /\ blkQ' = <<>>
      /\ blkBusy' = blkBusy \cup Range(blkQ)
      /\ UNCHANGED <<used, complete, completion, command, cpc, read, cliNtfn, cmdQ, cmplQ, srvNtfn,
                     spc, popped, sized, cmdSize, cmplSize, dequeued, unpub, pool, thread, result,
                     blkLeft, blkPushed, blkResp>>
  BY DEF BlkTake, clientVars, metaVars, sharedVars, loopVars, workerVars
<1>2. blkQ \in Seq(Workers)
  BY DEF IInv, TypeOK
<1>3. Range(blkQ) = {blkQ[i] : i \in 1 .. Len(blkQ)} /\ Range(blkQ) \subseteq Workers
  BY <1>2, RangeEquality, RangeOfSeq
<1>4. blkQ' \in Seq(Workers) /\ Len(blkQ') = 0
  BY <1>1, EmptySeq
<1>5. TypeOK'
  BY <1>1, <1>3, <1>4 DEF IInv, TypeOK, ClientTypeOK
<1>6. ClientInv' /\ SizeInv' /\ LoopInv'
  BY <1>1 DEF IInv, ClientInv, SizeInv, LoopInv, Held
<1>7. /\ CommandsHeld' /\ WorkersHeld' /\ RepliesHeld' /\ CompletionsHeld'
      /\ ValidHeld'
  BY <1>1, LoopStep
<1>8. NtfnInv'
  BY <1>1 DEF IInv, NtfnInv, Announced, FreeHandles, FreeHandle
<1>9. BlkInv'
  <2>1. \A i \in 1 .. Len(blkResp) : blkResp[i] \notin blkBusy'
    BY <1>1, <1>3 DEF IInv, BlkInv
  <2>2. \A w \in Workers : w \in blkBusy' <=> w \in blkBusy \/ \E i \in 1 .. Len(blkQ) : blkQ[i] = w
    BY <1>1, <1>3
  <2> QED
    BY <1>1, <1>4, <2>1, <2>2 DEF IInv, BlkInv
<1> QED
  BY <1>5, <1>6, <1>7, <1>8, <1>9 DEF IInv

LEMMA BlkAnswerIInv == ASSUME IInv, NEW w \in Workers, BlkAnswer(w) PROVE IInv'
<1>0. PICK n : n = Len(blkResp)
  OBVIOUS
<1>1. /\ w \in blkBusy /\ blkBusy' = blkBusy \ {w}
      /\ blkResp' = Append(blkResp, w) /\ srvNtfn' = srvNtfn \cup {"blk"}
      /\ UNCHANGED <<used, complete, completion, command, cpc, read, cliNtfn, cmdQ, cmplQ,
                     spc, popped, sized, cmdSize, cmplSize, dequeued, unpub, pool, thread, result,
                     blkLeft, blkPushed, blkQ, blkNtfn>>
  BY DEF BlkAnswer, clientVars, metaVars, loopVars, workerVars
<1>2. blkResp \in Seq(Workers) /\ n \in Nat
  BY <1>0, LenProperties DEF IInv, TypeOK
<1>3. /\ blkResp' \in Seq(Workers) /\ Len(blkResp') = n + 1 /\ blkResp'[n + 1] = w
      /\ \A i \in 1 .. n : blkResp'[i] = blkResp[i]
      /\ \A i \in 1 .. n + 1 : i \in 1 .. n \/ i = n + 1
      /\ n + 1 \in 1 .. n + 1 /\ \A i \in 1 .. n : i \in 1 .. n + 1
  BY <1>0, <1>1, <1>2, AppendProperties
<1>4. TypeOK'
  BY <1>1, <1>3 DEF IInv, TypeOK, ClientTypeOK
<1>5. ClientInv' /\ SizeInv' /\ LoopInv'
  BY <1>1 DEF IInv, ClientInv, SizeInv, LoopInv, Held
<1>6. /\ CommandsHeld' /\ WorkersHeld' /\ RepliesHeld' /\ CompletionsHeld'
      /\ ValidHeld'
  BY <1>1, LoopStep
<1>7. NtfnInv'
  BY <1>1 DEF IInv, NtfnInv, Announced, FreeHandles, FreeHandle
<1>8. BlkInv'
  <2>1. /\ \A i \in 1 .. n : blkResp[i] # w /\ blkResp[i] \notin blkBusy
        /\ \A i \in 1 .. Len(blkQ) : blkQ[i] # w /\ blkQ[i] \notin blkBusy
    BY <1>0, <1>1 DEF IInv, BlkInv
  <2>2. /\ \A i, j \in 1 .. n + 1 : blkResp'[i] = blkResp'[j] => i = j
        /\ \A i \in 1 .. Len(blkQ), j \in 1 .. n + 1 : blkQ[i] # blkResp'[j]
        /\ \A i \in 1 .. n + 1 : blkResp'[i] \notin blkBusy'
    BY <1>0, <1>1, <1>3, <2>1 DEF IInv, BlkInv
  <2>3. \A v \in Workers : (\E i \in 1 .. n + 1 : blkResp'[i] = v) <=>
                           v = w \/ \E i \in 1 .. n : blkResp[i] = v
    BY <1>3
  <2>4. \A v \in Workers : thread[v] = "blocked" <=>
          \/ \E i \in 1 .. Len(blkQ) : blkQ[i] = v
          \/ v \in blkBusy'
          \/ \E i \in 1 .. n + 1 : blkResp'[i] = v
    BY <1>0, <1>1, <2>3 DEF IInv, BlkInv
  <2> QED
    BY <1>1, <1>3, <2>1, <2>2, <2>4 DEF IInv, BlkInv
<1> QED
  BY <1>4, <1>5, <1>6, <1>7, <1>8 DEF IInv

-----------------------------------------------------------------------------

LEMMA StutterIInv == ASSUME IInv, UNCHANGED vars PROVE IInv'
<1>1. UNCHANGED <<used, complete, completion, command, cpc, read, cliNtfn, cmdQ, cmplQ, srvNtfn,
                  spc, popped, sized, cmdSize, cmplSize, dequeued, unpub, pool, thread, result,
                  blkLeft, blkPushed, blkQ, blkBusy, blkResp, blkNtfn>>
  BY DEF vars, clientVars, metaVars, sharedVars, serverVars, loopVars, workerVars, blkVars
<1>2. TypeOK'
  BY <1>1 DEF IInv, TypeOK, ClientTypeOK
<1>3. ClientInv' /\ SizeInv' /\ LoopInv'
  BY <1>1 DEF IInv, ClientInv, SizeInv, LoopInv, Held
<1>4. /\ CommandsHeld' /\ WorkersHeld' /\ RepliesHeld' /\ CompletionsHeld'
      /\ ValidHeld'
  BY <1>1, LoopStep
<1>5. NtfnInv' /\ BlkInv'
  BY <1>1 DEF IInv, NtfnInv, Announced, BlkInv, FreeHandles, FreeHandle
<1> QED
  BY <1>2, <1>3, <1>4, <1>5 DEF IInv

LEMMA NextIInv == ASSUME IInv, [Next]_vars PROVE IInv'
<1>1. ASSUME Server PROVE IInv'
  BY <1>1, NotifiedIInv, DrainIInv, WorkerDiskIInv, WorkerReturnIInv, CollectIInv,
     ReadCommandSizeIInv, ReadCompletionSizeIInv, PopCommandIInv, PopInvalidIInv, PopDoneIInv,
     ConsumptionIInv, ProductionIInv, NotifyClientIInv, NotifyBlkIInv DEF Server
<1>2. ASSUME Blk PROVE IInv'
  BY <1>2, BlkTakeIInv, BlkAnswerIInv DEF Blk
<1> QED
  BY <1>1, <1>2, ClientIInv, StutterIInv DEF Next

\* The invariant on which the theorems below rest holds throughout.
THEOREM ServerInvariance == Spec => []IInv
<1>1. Init => IInv
  BY InitIInv
<1>2. IInv /\ [Next]_vars => IInv'
  BY NextIInv
<1> QED
  BY <1>1, <1>2, PTL DEF Spec

\* The state of client, loop and workers keeps its ranges, for any bounds.
THEOREM ServerTypeCorrect == Spec => []TypeOK
<1>1. IInv => TypeOK
  BY DEF IInv
<1> QED
  BY <1>1, ServerInvariance, PTL

-----------------------------------------------------------------------------
(* Where a request is.                                                     *)

LEMMA IInvHeldOnce == ASSUME IInv PROVE EachRequestHeldOnce
<1> SUFFICES ASSUME NEW id \in Ids
             PROVE  /\ Holders(id) # {} => Outstanding(id)
                    /\ Outstanding(id) /\ command[id] = "valid" => Holders(id) # {}
                    /\ Cardinality(Holders(id)) <= 1
  BY DEF EachRequestHeldOnce
<1> DEFINE C == {j \in 1 .. Len(cmdQ) : j > dequeued /\ cmdQ[j].id = id}
           P == {v \in Workers : pool[v].stat = "INUSE" /\ pool[v].id = id}
           R == {j \in 1 .. Len(unpub) : unpub[j].id = id}
           M == {j \in 1 .. Len(cmplQ) : j > read /\ cmplQ[j].id = id}
<1>1. Holders(id) = {<<"command", i>> : i \in C} \cup {<<"pool", w>> : w \in P}
                    \cup {<<"reply", i>> : i \in R} \cup {<<"completion", i>> : i \in M}
  BY DEF Holders
<1>2. /\ C # {} => Outstanding(id)
      /\ P # {} => Outstanding(id)
      /\ R # {} => Outstanding(id)
      /\ M # {} => Outstanding(id)
  <2>1. C # {} => Outstanding(id)
    BY DEF IInv, CommandsHeld
  <2>2. P # {} => Outstanding(id)
    BY DEF IInv, WorkersHeld, Held
  <2>3. R # {} => Outstanding(id)
    BY DEF IInv, RepliesHeld
  <2>4. M # {} => Outstanding(id)
    BY Entries DEF IInv, CompletionsHeld, CompletionsKnown, Outstanding
  <2> QED
    BY <2>1, <2>2, <2>3, <2>4
<1>3. Outstanding(id) /\ command[id] = "valid" => C # {} \/ P # {} \/ R # {} \/ M # {}
  BY DEF IInv, ValidHeld, InCommands, InPool, InReplies, InCompletions, Held
<1>4. /\ \A i, j \in C : i = j
      /\ \A v, w \in P : v = w
      /\ \A i, j \in R : i = j
      /\ \A i, j \in M : i = j
  BY DEF IInv, CommandsHeld, WorkersHeld, RepliesHeld, CompletionsHeld, CompletionsKnown, Held
<1>5. /\ C = {} \/ P = {}
      /\ C = {} \/ R = {}
      /\ C = {} \/ M = {}
      /\ P = {} \/ R = {}
      /\ P = {} \/ M = {}
      /\ R = {} \/ M = {}
  <2>1. C = {} \/ P = {}
    BY Entries DEF IInv, WorkersHeld, Held
  <2>2. C = {} \/ R = {}
    BY Entries DEF IInv, RepliesHeld
  <2>3. (C = {} \/ M = {}) /\ (P = {} \/ M = {}) /\ (R = {} \/ M = {})
    BY DEF IInv, CompletionsHeld, CompletionsKnown, Held
  <2>4. P = {} \/ R = {}
    BY DEF IInv, RepliesHeld, Held
  <2> QED
    BY <2>1, <2>2, <2>3, <2>4
<1> HIDE DEF C, P, R, M
<1>6. Holders(id) # {} => Outstanding(id)
  BY <1>1, <1>2
<1>7. Outstanding(id) /\ command[id] = "valid" => Holders(id) # {}
  BY <1>1, <1>3
<1>8. \A x, y \in Holders(id) : x = y
  BY <1>1, <1>4, <1>5
<1> QED
  BY <1>6, <1>7, <1>8, AtMostOne

\* Each request is in exactly one place, whatever the interleaving of client,
\* event loop and disk: none is lost, answered twice or answered late.
THEOREM RequestHeldOnce == Spec => []EachRequestHeldOnce
BY IInvHeldOnce, ServerInvariance, PTL

-----------------------------------------------------------------------------
(* Room in the queues.                                                     *)

LEMMA IInvCommandRoom == ASSUME IInv PROVE CommandQueueHasRoom
<1> SUFFICES ASSUME NEW f \in Ids, ~used[f]
             PROVE  Len(cmdQ) < Capacity
  BY DEF CommandQueueHasRoom, FreeIds
<1>1. Cardinality(IdsOf(cmdQ)) = Len(cmdQ)
  BY IdsCount, Entries DEF IInv, CommandsHeld
<1>2. IdsOf(cmdQ) \subseteq Ids /\ f \notin IdsOf(cmdQ)
  BY Entries DEF IInv, CommandsHeld, Outstanding, IdsOf
<1>3. /\ Cardinality(IdsOf(cmdQ) \cup {f}) <= NIds
      /\ Cardinality(IdsOf(cmdQ) \cup {f}) = Cardinality(IdsOf(cmdQ)) + Cardinality({f})
  BY <1>2, DisjointCount
<1>4. Cardinality({f}) = 1
  BY FS_Singleton
<1> QED
  BY <1>1, <1>3, <1>4, Entries, Parameters DEF IInv

LEMMA IInvCompletionRoom == ASSUME IInv PROVE CompletionSpaceReserved
<1> DEFINE W == {w \in Workers : pool[w].stat = "INUSE"}
           P == {pool[w].id : w \in W}
           A == IdsOf(cmplQ)
           B == IdsOf(unpub)
<1>1. Cardinality(A) = Len(cmplQ) /\ Cardinality(B) = Len(unpub)
  BY IdsCount, Entries DEF IInv, CompletionsHeld, CompletionsKnown, RepliesHeld
<1>2. Cardinality(P) = Cardinality(W)
  <2>1. IsFiniteSet(W)
    <3>1. IsFiniteSet(Workers)
      BY FS_Interval, Parameters DEF Workers
    <3> QED
      BY <3>1, FS_Subset
  <2> DEFINE f == [w \in W |-> pool[w].id]
  <2>2. \A v, w \in W : f[v] = f[w] => v = w
    BY DEF IInv, WorkersHeld, Held
  <2>3. P = {f[w] : w \in W}
    OBVIOUS
  <2> HIDE DEF f, W, P
  <2>4. Cardinality({f[w] : w \in W}) = Cardinality(W)
    BY <2>1, <2>2, DistinctCount
  <2> QED
    BY <2>3, <2>4
<1>3. A \subseteq Ids /\ B \subseteq Ids /\ P \subseteq Ids
  BY Entries DEF IInv, IdsOf
<1>4. A \cap B = {} /\ A \cap P = {} /\ B \cap P = {}
  BY DEF IInv, CompletionsHeld, CompletionsKnown, RepliesHeld, Held, IdsOf
<1> HIDE DEF A, B, P
<1>5. /\ Cardinality(A \cup B) = Cardinality(A) + Cardinality(B)
      /\ A \cup B \subseteq Ids /\ (A \cup B) \cap P = {}
  BY <1>3, <1>4, DisjointCount
<1>6. /\ Cardinality((A \cup B) \cup P) <= NIds
      /\ Cardinality((A \cup B) \cup P) = Cardinality(A \cup B) + Cardinality(P)
      /\ Cardinality(P) \in Nat
  BY <1>3, <1>5, DisjointCount
<1>7. Len(cmplQ) + Len(unpub) + Cardinality(W) <= NIds
  BY <1>1, <1>2, <1>5, <1>6
<1> QED
  BY <1>1, <1>2, <1>6, <1>7, Entries, Parameters DEF CompletionSpaceReserved, IInv

\* A command always finds room when the client has a free id, and a reply when
\* its handler returns: neither assert of the helpers and the loop can fire.
THEOREM FatQueuesHaveRoom == Spec => [](CommandQueueHasRoom /\ CompletionSpaceReserved)
BY IInvCommandRoom, IInvCompletionRoom, ServerInvariance, PTL

-----------------------------------------------------------------------------
(* Waiting.                                                                *)

LEMMA IInvBlkRequests == ASSUME IInv PROVE BlkRequestPerBlockedWorker
<1> SUFFICES ASSUME NEW w \in Workers
             PROVE  Cardinality({i \in DOMAIN blkQ : blkQ[i] = w})
                  + Cardinality({i \in DOMAIN blkResp : blkResp[i] = w})
                  + Cardinality(blkBusy \cap {w}) = IF thread[w] = "blocked" THEN 1 ELSE 0
  BY DEF BlkRequestPerBlockedWorker
<1> DEFINE Q == {i \in DOMAIN blkQ : blkQ[i] = w}
           R == {i \in DOMAIN blkResp : blkResp[i] = w}
           B == blkBusy \cap {w}
<1>1. DOMAIN blkQ = 1 .. Len(blkQ) /\ DOMAIN blkResp = 1 .. Len(blkResp)
  BY LenProperties DEF IInv, TypeOK
<1>2. /\ \A x, y \in Q : x = y
      /\ \A x, y \in R : x = y
      /\ \A x, y \in B : x = y
      /\ Q = {} \/ R = {}
      /\ Q = {} \/ B = {}
      /\ R = {} \/ B = {}
      /\ thread[w] = "blocked" <=> Q # {} \/ R # {} \/ B # {}
  BY <1>1 DEF IInv, BlkInv
<1> HIDE DEF Q, R, B
<1>3. ASSUME NEW S, \A x, y \in S : x = y
      PROVE  Cardinality(S) = IF S = {} THEN 0 ELSE 1
  <2>1. CASE S = {}
    BY <2>1, FS_EmptySet
  <2>2. CASE S # {}
    <3>1. PICK x : S = {x}
      BY <1>3, <2>2
    <3> QED
      BY <2>2, <3>1, FS_Singleton
  <2> QED
    BY <2>1, <2>2
<1>4. /\ Cardinality(Q) = IF Q = {} THEN 0 ELSE 1
      /\ Cardinality(R) = IF R = {} THEN 0 ELSE 1
      /\ Cardinality(B) = IF B = {} THEN 0 ELSE 1
  BY <1>2, <1>3
<1>5. Cardinality(Q) + Cardinality(R) + Cardinality(B) = IF thread[w] = "blocked" THEN 1 ELSE 0
  BY <1>2, <1>4
<1> QED
  BY <1>5 DEF Q, R, B

LEMMA IInvWaits == ASSUME IInv PROVE WaitsOnlyForDiskOrClient
<1> SUFFICES ASSUME spc = "wait"
             PROVE  /\ unpub = <<>> /\ ~blkPushed
                    /\ \A w \in Workers :
                         \/ thread[w] = "blocked" /\ pool[w].stat = "INUSE"
                         \/ thread[w] = "not_active" /\ pool[w].stat = "FREE"
                    /\ FreeHandles # {} /\ srvNtfn = {} /\ cpc # "notify" => cmdQ = <<>>
  BY DEF WaitsOnlyForDiskOrClient
<1>1. unpub = <<>> /\ ~blkPushed
  BY DEF IInv, LoopInv
<1>2. \A w \in Workers : \/ thread[w] = "blocked" /\ pool[w].stat = "INUSE"
                         \/ thread[w] = "not_active" /\ pool[w].stat = "FREE"
  BY DEF IInv, TypeOK, LoopInv, Held
<1>3. FreeHandles # {} /\ srvNtfn = {} /\ cpc # "notify" => cmdQ = <<>>
  BY DEF IInv, NtfnInv, Announced
<1> QED
  BY <1>1, <1>2, <1>3

\* When notified() returns every worker is free or blocked, each blocked one has
\* one block request on its way, and a free one leaves no command it knows of.
THEOREM WaitsForDiskOrClient ==
  Spec => [](WaitsOnlyForDiskOrClient /\ BlkRequestPerBlockedWorker)
BY IInvBlkRequests, IInvWaits, ServerInvariance, PTL

-----------------------------------------------------------------------------
(* The server keeps the promise of FsService.                              *)

\* The two places of an executed request hold one reply to it at most.
LEMMA ReplyUnique ==
  ASSUME IInv, NEW id \in Ids, NEW x \in ReplyOf(id), NEW y \in ReplyOf(id)
  PROVE  x = y
<1> DEFINE A == {[id |-> id, status |-> result[w]] : w \in {v \in Finished : pool[v].id = id}}
           U == {i \in 1 .. Len(unpub) : unpub[i].id = id}
           C == {i \in 1 .. Len(cmplQ) : cmplQ[i].id = id}
<1>1. ReplyOf(id) = A \cup {unpub[i] : i \in U} \cup {cmplQ[i] : i \in C}
  <2>1. /\ unpub \in Seq([id : Ids, status : Statuses])
        /\ cmplQ \in Seq([id : Ids, status : Statuses])
    BY DEF IInv, TypeOK, ClientTypeOK
  <2>2. /\ Range(unpub) = {unpub[i] : i \in 1 .. Len(unpub)}
        /\ Range(cmplQ) = {cmplQ[i] : i \in 1 .. Len(cmplQ)}
    BY <2>1, RangeEquality
  <2> QED
    BY <2>2 DEF ReplyOf
<1>2. \A v, w \in {u \in Finished : pool[u].id = id} : v = w
  BY DEF Finished, IInv, WorkersHeld, Held
<1>3. \A i, j \in U : i = j
  BY DEF IInv, RepliesHeld
<1>4. \A i, j \in C : i = j
  BY DEF IInv, CompletionsHeld, CompletionsKnown
<1>5. (A = {} \/ U = {}) /\ (A = {} \/ C = {}) /\ (U = {} \/ C = {})
  BY DEF Finished, IInv, RepliesHeld, CompletionsHeld, CompletionsKnown, Held
<1>6. \A a, b \in A : a = b
  BY <1>2
<1> HIDE DEF A, U, C
<1> QED
  BY <1>1, <1>3, <1>4, <1>5, <1>6

\* So the status the mapping chooses is that of any reply there is.
LEMMA StageExecuted ==
  ASSUME IInv, NEW id \in Ids, Outstanding(id), NEW m \in ReplyOf(id)
  PROVE  Stage(id) = [at |-> "executed", status |-> m.status]
<1>1. (CHOOSE x \in ReplyOf(id) : TRUE) = m
  BY ReplyUnique
<1> QED
  BY <1>1 DEF Stage, Outstanding

\* A request keeps its stage when the client's records of it and its replies stay.
LEMMA StageKept ==
  ASSUME NEW id \in Ids, ReplyOf(id)' = ReplyOf(id),
         used'[id] = used[id], complete'[id] = complete[id], completion'[id] = completion[id]
  PROVE  Stage(id)' = Stage(id)
BY DEF Stage

\* Stages of requests that are not outstanding do not depend on replies.
LEMMA StageKeptSettled ==
  ASSUME NEW id \in Ids, ~used[id] \/ complete[id],
         used'[id] = used[id], complete'[id] = complete[id], completion'[id] = completion[id]
  PROVE  Stage(id)' = Stage(id)
BY DEF Stage

Req == [id \in Ids |-> Stage(id)]

LEMMA ReqKept ==
  ASSUME \A id \in Ids : Stage(id)' = Stage(id)
  PROVE  Req' = Req
BY DEF Req

\* The replies of the two queues, by position.
LEMMA Replies ==
  ASSUME TypeOK, NEW id
  PROVE  ReplyOf(id) =
           {[id |-> id, status |-> result[w]] : w \in {v \in Finished : pool[v].id = id}}
           \cup {unpub[i] : i \in {j \in 1 .. Len(unpub) : unpub[j].id = id}}
           \cup {cmplQ[i] : i \in {j \in 1 .. Len(cmplQ) : cmplQ[j].id = id}}
<1>1. /\ unpub \in Seq([id : Ids, status : Statuses])
      /\ cmplQ \in Seq([id : Ids, status : Statuses])
  BY DEF TypeOK, ClientTypeOK
<1>2. /\ Range(unpub) = {unpub[i] : i \in 1 .. Len(unpub)}
      /\ Range(cmplQ) = {cmplQ[i] : i \in 1 .. Len(cmplQ)}
  BY <1>1, RangeEquality
<1> QED
  BY <1>2 DEF ReplyOf

LEMMA InitReq == ASSUME Init PROVE Service!Init
BY DEF Init, ClientInit, Service!Init, Service!Idle, Stage

LEMMA IssueReq ==
  ASSUME IInv, NEW type \in Types, ClientIssue(type), UNCHANGED serverVars
  PROVE  Service!Next
<1>1. PICK id \in Ids :
        /\ ~used[id] /\ used' = [used EXCEPT ![id] = TRUE]
        /\ UNCHANGED <<complete, completion, unpub, cmplQ, pool, thread, result>>
  BY DEF ClientIssue, FirstFree, FreeIds, serverVars, loopVars, workerVars
<1>2. ReplyOf(id) = {}
  <2>1. /\ \A w \in Finished : pool[w].id # id
        /\ \A i \in 1 .. Len(unpub) : unpub[i].id # id
        /\ \A i \in 1 .. Len(cmplQ) : cmplQ[i].id # id
    BY <1>1 DEF IInv, WorkersHeld, RepliesHeld, CompletionsHeld, CompletionsKnown, Finished, Held, Outstanding
  <2>2. TypeOK
    BY DEF IInv
  <2> QED
    BY <2>1, <2>2, Replies
<1>3. \A j \in Ids : ReplyOf(j)' = ReplyOf(j)
  BY <1>1 DEF ReplyOf, Finished
<1>4. ~complete'[id] /\ used'[id]
  BY <1>1 DEF IInv, ClientInv, TypeOK, ClientTypeOK
<1>5. Stage(id) = [at |-> "free"] /\ Stage(id)' = [at |-> "pending"]
  BY <1>1, <1>2, <1>3, <1>4 DEF Stage
<1>6. \A j \in Ids : j # id => Stage(j)' = Stage(j)
  <2>1. \A j \in Ids : j # id => used'[j] = used[j]
    BY <1>1 DEF IInv, TypeOK, ClientTypeOK
  <2> QED
    BY <1>1, <1>3, <2>1, StageKept
<1>7. Service!Issue(id)
  BY <1>5, <1>6 DEF Service!Issue, Service!Idle, Service!Pending
<1> QED
  BY <1>7 DEF Service!Next

LEMMA ProcessReq ==
  ASSUME IInv, ClientProcess, UNCHANGED serverVars
  PROVE  Service!Next
<1> DEFINE S == {id \in Ids : \E i \in 1 .. Len(cmplQ) : cmplQ[i].id = id}
<1>1. UNCHANGED <<used, unpub, cmplQ, pool, thread, result>>
  BY DEF ClientProcess, ProcessMessages, serverVars, loopVars, workerVars
<1>2. \A id \in Ids : ReplyOf(id)' = ReplyOf(id)
  BY <1>1 DEF ReplyOf, Finished
<1>3. ASSUME NEW id \in S
      PROVE  \E s : Stage(id) = [at |-> "executed", status |-> s]
                    /\ Stage(id)' = [at |-> "complete", status |-> s]
  <2>1. PICK i \in 1 .. Len(cmplQ) :
          /\ cmplQ[i].id = id
          /\ complete'[id] /\ completion'[id] = cmplQ[i].status
    BY ClientPart, ProcessFacts
  <2>2. Outstanding(id) /\ used'[id]
    BY <1>1, <2>1, ClientPart, ProcessFacts DEF Outstanding
  <2>3. cmplQ[i] \in ReplyOf(id)
    <3>1. TypeOK
      BY DEF IInv
    <3> QED
      BY <2>1, <3>1, Replies
  <2>4. Stage(id) = [at |-> "executed", status |-> cmplQ[i].status]
    BY <2>2, <2>3, StageExecuted
  <2>5. Stage(id)' = [at |-> "complete", status |-> cmplQ[i].status]
    BY <2>1, <2>2 DEF Stage
  <2> QED
    BY <2>4, <2>5
<1>4. ASSUME NEW id \in Ids \ S
      PROVE  Stage(id)' = Stage(id)
  <2>1. complete'[id] = complete[id] /\ completion'[id] = completion[id]
    BY ClientPart, ProcessFacts
  <2> QED
    BY <1>1, <1>2, <2>1, StageKept
<1>5. \A id \in S : Stage(id).at = "executed"
  BY <1>3
<1>6. \A id \in S : Stage(id)' = [at |-> "complete", status |-> Stage(id).status]
  BY <1>3
<1> HIDE DEF S
<1>7. S \in SUBSET Ids
  BY DEF S
<1>8. Service!Deliver(S)
  BY <1>4, <1>5, <1>6, <1>7 DEF Service!Deliver, Service!Complete
<1> QED
  BY <1>7, <1>8 DEF Service!Next

LEMMA FreeReq ==
  ASSUME IInv, NEW id \in Ids, ClientFree(id), UNCHANGED serverVars
  PROVE  Service!Next
<1>1. /\ used[id] /\ complete[id]
      /\ used' = [used EXCEPT ![id] = FALSE]
      /\ complete' = [complete EXCEPT ![id] = FALSE]
      /\ completion' = [completion EXCEPT ![id] = "none"]
      /\ UNCHANGED <<unpub, cmplQ, pool, thread, result>>
  BY DEF ClientFree, sharedVars, serverVars, loopVars, workerVars
<1>2. /\ ~used'[id]
      /\ \A j \in Ids : j # id =>
           used'[j] = used[j] /\ complete'[j] = complete[j] /\ completion'[j] = completion[j]
  BY <1>1 DEF IInv, TypeOK, ClientTypeOK
<1>3. \A j \in Ids : ReplyOf(j)' = ReplyOf(j)
  BY <1>1 DEF ReplyOf, Finished
<1>4. Stage(id).at = "complete" /\ Stage(id)' = [at |-> "free"]
  BY <1>1, <1>2 DEF Stage
<1>5. \A j \in Ids : j # id => Stage(j)' = Stage(j)
  BY <1>2, <1>3, StageKept
<1>6. Service!Release(id)
  BY <1>4, <1>5 DEF Service!Release, Service!Idle
<1> QED
  BY <1>6 DEF Service!Next

\* Consuming completions that were read: their requests are complete.
LEMMA ConsumeReq == ASSUME IInv, ClientConsume, UNCHANGED serverVars PROVE Req' = Req
<1>0. PICK n, r : n = Len(cmplQ) /\ r = read
  OBVIOUS
<1>1. /\ cmplQ' = SubSeq(cmplQ, r + 1, n) /\ n \in Nat /\ r \in Nat /\ r <= n
      /\ UNCHANGED <<used, complete, completion, unpub, pool, thread, result>>
  BY <1>0, Entries
     DEF ClientConsume, metaVars, serverVars, loopVars, workerVars, IInv, ClientInv
<1>2. IInv'
  BY ConsumeIInv
<1>3. /\ Len(cmplQ') = n - r
      /\ \A i \in 1 .. n - r : cmplQ'[i] = cmplQ[i + r] /\ i + r \in 1 .. n
      /\ \A i \in 1 .. n : i > r => i - r \in 1 .. n - r /\ cmplQ'[i - r] = cmplQ[i]
  <2> DEFINE S == [id : Ids, status : Statuses]
  <2>1. cmplQ \in Seq(S) /\ r + 1 \in Int /\ n \in Int
    BY <1>1 DEF IInv, TypeOK, ClientTypeOK
  <2> HIDE DEF S
  <2>2. /\ Len(SubSeq(cmplQ, r + 1, n)) = n - r
        /\ \A i \in 1 .. n - r : SubSeq(cmplQ, r + 1, n)[i] = cmplQ[i + r]
    BY <1>0, <1>1, <2>1, SubSeqProperties, ElementOfSeq
  <2>3. /\ \A i \in 1 .. n - r : i + r \in 1 .. n
        /\ \A i \in 1 .. n : i > r => i - r \in 1 .. n - r /\ (i - r) + r = i
    BY <1>1
  <2>4. \A i \in 1 .. n : i > r => cmplQ'[i - r] = cmplQ[i]
    BY <1>1, <2>2, <2>3
  <2> QED
    BY <1>1, <2>2, <2>3, <2>4
<1>4. ASSUME NEW id \in Ids PROVE Stage(id)' = Stage(id)
  <2>1. CASE complete[id]
    BY <1>1, <2>1, StageKeptSettled
  <2>2. CASE ~complete[id]
    <3>1. \A i \in 1 .. n : cmplQ[i].id = id => i > r
      BY <1>0, <1>1, <2>2 DEF IInv, CompletionsHeld, CompletionsKnown
    <3>2. /\ Range(cmplQ) = {cmplQ[i] : i \in 1 .. n}
          /\ Range(cmplQ)' = {cmplQ'[i] : i \in 1 .. n - r}
      <4>1. /\ cmplQ \in Seq([id : Ids, status : Statuses])
            /\ cmplQ' \in Seq([id : Ids, status : Statuses])
        BY <1>2 DEF IInv, TypeOK, ClientTypeOK
      <4> QED
        BY <1>0, <1>3, <4>1, RangeEquality
    <3>3. {m \in Range(cmplQ) : m.id = id} = {m \in Range(cmplQ') : m.id = id}
      BY <1>3, <3>1, <3>2
    <3>4. ReplyOf(id)' = ReplyOf(id)
      BY <1>1, <3>3 DEF ReplyOf, Finished
    <3> QED
      BY <1>1, <3>4, StageKept
  <2> QED
    BY <2>1, <2>2
<1> QED
  BY <1>4, ReqKept

\* A handler that returns executes its request: it was in the pool and nowhere
\* else, so there was no reply to it yet.
LEMMA ReturnReq ==
  ASSUME IInv, NEW w \in Workers, NEW s \in Statuses, WorkerReturn(w, s)
  PROVE  Service!Next
<1>0. PICK id \in Ids : id = pool[w].id
  BY Entries DEF IInv
<1>1. /\ thread[w] = "ready" /\ Held(w) /\ Outstanding(id)
      /\ thread' = [thread EXCEPT ![w] = "not_active"]
      /\ result' = [result EXCEPT ![w] = s]
      /\ UNCHANGED <<used, complete, completion, unpub, cmplQ, pool>>
  BY <1>0 DEF WorkerReturn, IInv, LoopInv, WorkersHeld, clientVars, metaVars, sharedVars, loopVars
<1>2. /\ Finished' = Finished \cup {w} /\ w \notin Finished
      /\ result'[w] = s /\ \A v \in Workers : v # w => result'[v] = result[v]
  BY <1>1 DEF Finished, Held, IInv, TypeOK
<1>3. /\ \A v \in Finished : v \in Workers /\ pool[v].id # id
      /\ \A i \in 1 .. Len(unpub) : unpub[i].id # id
      /\ \A i \in 1 .. Len(cmplQ) : cmplQ[i].id # id
  BY <1>0, <1>1, <1>2 DEF IInv, WorkersHeld, RepliesHeld, CompletionsHeld, CompletionsKnown, Finished, Held
<1>4. \A m \in Range(unpub) \cup Range(cmplQ) : m.id # id
  <2>1. /\ unpub \in Seq([id : Ids, status : Statuses])
        /\ cmplQ \in Seq([id : Ids, status : Statuses])
    BY DEF IInv, TypeOK, ClientTypeOK
  <2> QED
    BY <1>3, <2>1, RangeEquality
<1>5. ReplyOf(id) = {} /\ ReplyOf(id)' = {[id |-> id, status |-> s]}
  <2>1. {v \in Finished : pool[v].id = id} = {} /\ {v \in Finished' : pool'[v].id = id} = {w}
    BY <1>0, <1>1, <1>2, <1>3
  <2>2. /\ Range(unpub)' = Range(unpub) /\ Range(cmplQ)' = Range(cmplQ)
    BY <1>1
  <2>3. {m \in Range(unpub) \cup Range(cmplQ) : m.id = id} = {}
    BY <1>4
  <2>4. ReplyOf(id) = {}
    BY <2>1, <2>3 DEF ReplyOf
  <2>5. ReplyOf(id)' = {[id |-> id, status |-> result'[v]] : v \in {w}}
    BY <2>1, <2>2, <2>3 DEF ReplyOf
  <2> QED
    BY <1>2, <2>4, <2>5
<1>6. ASSUME NEW j \in Ids, j # id PROVE ReplyOf(j)' = ReplyOf(j)
  <2>1. {v \in Finished' : pool'[v].id = j} = {v \in Finished : pool[v].id = j}
    BY <1>0, <1>1, <1>2, <1>6
  <2>2. \A v \in {u \in Finished : pool[u].id = j} : result'[v] = result[v]
    BY <1>2, <1>3
  <2>3. /\ Range(unpub)' = Range(unpub) /\ Range(cmplQ)' = Range(cmplQ)
    BY <1>1
  <2> QED
    BY <2>1, <2>2, <2>3 DEF ReplyOf
<1>7. Stage(id) = [at |-> "pending"]
  BY <1>1, <1>5 DEF Stage, Outstanding
<1>8. Stage(id)' = [at |-> "executed", status |-> s]
  <2>1. (CHOOSE x \in {[id |-> id, status |-> s]} : TRUE) = [id |-> id, status |-> s]
    OBVIOUS
  <2>2. ReplyOf(id)' # {} /\ (CHOOSE x \in ReplyOf(id)' : TRUE).status = s
    BY <1>5, <2>1
  <2>3. used'[id] /\ ~complete'[id]
    BY <1>1 DEF Outstanding
  <2>4. Stage(id)' = [at |-> "executed", status |-> (CHOOSE x \in ReplyOf(id)' : TRUE).status]
    BY <2>2, <2>3 DEF Stage
  <2> QED
    BY <2>2, <2>4
<1>9. \A j \in Ids : j # id => Stage(j)' = Stage(j)
  BY <1>1, <1>6, StageKept
<1>10. Service!Execute(id, s)
  BY <1>1, <1>7, <1>8, <1>9 DEF Service!Execute, Service!Pending, Service!Executed
<1> QED
  BY <1>1, <1>10 DEF Service!Next

\* Writing the replies behind the tail moves them, and adds none.
LEMMA CollectReq == ASSUME IInv, Collect PROVE Req' = Req
<1>0. PICK n : n = Len(unpub)
  OBVIOUS
<1>1. /\ spc' = "pop"
      /\ UNCHANGED <<used, complete, completion, cmplQ, thread, result>>
  BY DEF Collect, CollectWith, clientVars, metaVars, sharedVars
<1>2. IInv'
  BY CollectIInv
<1>3. PICK k \in Nat : \E order \in [1 .. k -> Finished] :
        /\ \A w \in Finished : \E i \in 1 .. k : order[i] = w
        /\ Len(unpub') = n + k
        /\ \A i \in 1 .. n : unpub'[i] = unpub[i]
        /\ \A i \in 1 .. k : unpub'[n + i] = Reply(order[i])
  BY <1>0, CollectFacts
<1>4. PICK order \in [1 .. k -> Finished] :
        /\ \A w \in Finished : \E i \in 1 .. k : order[i] = w
        /\ Len(unpub') = n + k
        /\ \A i \in 1 .. n : unpub'[i] = unpub[i]
        /\ \A i \in 1 .. k : unpub'[n + i] = Reply(order[i])
  BY <1>3
<1>5. n \in Nat
  BY <1>0, Entries DEF IInv
<1>6. Finished' = {}
  BY <1>1, <1>2 DEF Finished, IInv, LoopInv, Held
<1>7. Range(unpub) = {unpub[i] : i \in 1 .. n} /\ Range(unpub)' = {unpub'[i] : i \in 1 .. n + k}
  <2>1. /\ unpub \in Seq([id : Ids, status : Statuses])
        /\ unpub' \in Seq([id : Ids, status : Statuses])
    BY <1>2 DEF IInv, TypeOK
  <2>2. /\ Range(unpub) = {unpub[i] : i \in 1 .. Len(unpub)}
        /\ Range(unpub') = {unpub'[i] : i \in 1 .. Len(unpub')}
    BY <2>1, RangeEquality
  <2> QED
    BY <1>0, <1>4, <2>2
<1>8. Range(unpub)' = Range(unpub) \cup {Reply(w) : w \in Finished}
  <2>1. /\ \A i \in 1 .. n + k : i \in 1 .. n \/ \E j \in 1 .. k : i = n + j
        /\ \A i \in 1 .. n : i \in 1 .. n + k
        /\ \A j \in 1 .. k : n + j \in 1 .. n + k
    <3>1. \A i \in 1 .. n + k : i \in 1 .. n \/ (i - n \in 1 .. k /\ i = n + (i - n))
      BY <1>3, <1>5
    <3>2. /\ \A i \in 1 .. n : i \in 1 .. n + k
          /\ \A j \in 1 .. k : n + j \in 1 .. n + k
      BY <1>3, <1>5
    <3> QED
      BY <3>1, <3>2
  <2>2. \A m : m \in Range(unpub)' => m \in Range(unpub) \/ \E w \in Finished : m = Reply(w)
    <3> SUFFICES ASSUME NEW i \in 1 .. n + k
                 PROVE  unpub'[i] \in Range(unpub) \/ \E w \in Finished : unpub'[i] = Reply(w)
      BY <1>7
    <3>1. CASE i \in 1 .. n
      BY <1>4, <1>7, <3>1
    <3>2. CASE i \notin 1 .. n
      <4>1. PICK j \in 1 .. k : i = n + j
        BY <2>1, <3>2
      <4>2. order[j] \in Finished /\ unpub'[i] = Reply(order[j])
        BY <1>4, <4>1
      <4> QED
        BY <4>2
    <3> QED
      BY <3>1, <3>2
  <2>3. \A m \in Range(unpub) : m \in Range(unpub)'
    BY <1>4, <1>7, <2>1
  <2>4. \A w \in Finished : Reply(w) \in Range(unpub)'
    BY <1>4, <1>7, <2>1
  <2> QED
    BY <2>2, <2>3, <2>4
<1>9. ASSUME NEW id \in Ids PROVE ReplyOf(id)' = ReplyOf(id)
  <2>1. ReplyOf(id)' = {m \in Range(unpub)' \cup Range(cmplQ) : m.id = id}
    BY <1>1, <1>6 DEF ReplyOf
  <2>2. {[id |-> id, status |-> result[w]] : w \in {v \in Finished : pool[v].id = id}}
          = {m \in {Reply(w) : w \in Finished} : m.id = id}
    BY DEF Reply
  <2> QED
    BY <1>8, <2>1, <2>2 DEF ReplyOf
<1>10. \A id \in Ids : Stage(id)' = Stage(id)
  BY <1>1, <1>9, StageKept
<1> QED
  BY <1>10, ReqKept

\* The slot that a command takes held no finished request.
LEMMA PopReq == ASSUME IInv, NEW w \in Workers, PopCommand(w) PROVE Req' = Req
<1>1. /\ spc = "pop" /\ spc' = "pop"
      /\ UNCHANGED <<used, complete, completion, unpub, cmplQ>>
  BY DEF PopCommand, clientVars, metaVars, sharedVars
<1>2. Finished = {} /\ Finished' = {}
  <2>1. IInv'
    BY PopCommandIInv
  <2> QED
    BY <1>1, <2>1 DEF IInv, LoopInv, Finished, Held
<1>3. \A id \in Ids : ReplyOf(id)' = ReplyOf(id)
  BY <1>1, <1>2 DEF ReplyOf
<1>4. \A id \in Ids : Stage(id)' = Stage(id)
  BY <1>1, <1>3, StageKept
<1> QED
  BY <1>4, ReqKept

\* Publishing replies moves them from one queue to the other.
LEMMA ProductionReq == ASSUME IInv, PublishProduction PROVE Req' = Req
<1>1. /\ cmplQ' = cmplQ \o unpub /\ unpub' = <<>>
      /\ UNCHANGED <<used, complete, completion, pool, thread, result>>
  BY DEF PublishProduction, clientVars, metaVars, workerVars
<1>2. Range(unpub)' \cup Range(cmplQ)' = Range(unpub) \cup Range(cmplQ)
  <2> DEFINE S == [id : Ids, status : Statuses]
  <2>1. cmplQ \in Seq(S) /\ unpub \in Seq(S)
    BY DEF IInv, TypeOK, ClientTypeOK
  <2> HIDE DEF S
  <2>2. Range(cmplQ \o unpub) = Range(cmplQ) \cup Range(unpub)
    BY <2>1, RangeConcatenation
  <2>3. Range(<<>>) = {}
    BY DEF Range
  <2> QED
    BY <1>1, <2>2, <2>3
<1>3. \A id \in Ids : ReplyOf(id)' = ReplyOf(id)
  BY <1>1, <1>2 DEF ReplyOf, Finished
<1>4. \A id \in Ids : Stage(id)' = Stage(id)
  BY <1>1, <1>3, StageKept
<1> QED
  BY <1>4, ReqKept

\* Every other step leaves the client's records and the replies alone.
LEMMA OtherReq ==
  ASSUME UNCHANGED <<used, complete, completion, unpub, cmplQ, pool, result>>,
         Finished' = Finished
  PROVE  Req' = Req
<1>1. \A id \in Ids : ReplyOf(id)' = ReplyOf(id)
  BY DEF ReplyOf
<1>2. \A id \in Ids : Stage(id)' = Stage(id)
  BY <1>1, StageKept
<1> QED
  BY <1>2, ReqKept

\* Signalling a blocked worker, or blocking one, finishes none.
LEMMA ThreadReq ==
  ASSUME UNCHANGED <<used, complete, completion, unpub, cmplQ, pool, result>>,
         \A w \in Workers : thread'[w] = "not_active" <=> thread[w] = "not_active"
  PROVE  Req' = Req
<1>1. Finished' = Finished
  BY DEF Finished
<1> QED
  BY <1>1, OtherReq

LEMMA ServerReq == ASSUME IInv, Server PROVE Service!Next \/ Req' = Req
<1> USE DEF clientVars, metaVars, sharedVars, loopVars, workerVars, blkVars
<1>1. ASSUME NEW ch, Notified(ch) PROVE Req' = Req
  BY <1>1, ThreadReq DEF Notified
<1>2. ASSUME Drain PROVE Req' = Req
  <2>1. \A w \in Workers : w \in Range(blkResp) => thread[w] = "blocked"
    <3>1. blkResp \in Seq(Workers)
      BY DEF IInv, TypeOK
    <3> QED
      BY <3>1, RangeEquality DEF IInv, BlkInv
  <2>2. \A w \in Workers : thread'[w] = "not_active" <=> thread[w] = "not_active"
    BY <1>2, <2>1 DEF Drain
  <2> QED
    BY <1>2, <2>2, ThreadReq DEF Drain
<1>3. ASSUME NEW w \in Workers, WorkerDisk(w) PROVE Req' = Req
  <2>1. \A v \in Workers : thread'[v] = "not_active" <=> thread[v] = "not_active"
    BY <1>3 DEF WorkerDisk, Enqueue, IInv, TypeOK
  <2> QED
    BY <1>3, <2>1, ThreadReq DEF WorkerDisk, Enqueue
<1>4. ASSUME ReadCommandSize \/ ReadCompletionSize PROVE Req' = Req
  BY <1>4, ThreadReq DEF ReadCommandSize, ReadCompletionSize
<1>5. ASSUME PopInvalid \/ PopDone PROVE Req' = Req
  BY <1>5, ThreadReq DEF PopInvalid, PopDone
<1>6. ASSUME PublishConsumption PROVE Req' = Req
  BY <1>6, ThreadReq DEF PublishConsumption, Consume
<1>7. ASSUME NotifyClient \/ NotifyBlk PROVE Req' = Req
  BY <1>7, ThreadReq DEF NotifyClient, NotifyBlk
<1> QED
  BY <1>1, <1>2, <1>3, <1>4, <1>5, <1>6, <1>7, ReturnReq, CollectReq, PopReq, ProductionReq
     DEF Server

LEMMA ClientReq == ASSUME IInv, Client PROVE Service!Next \/ Req' = Req
<1>1. ASSUME ClientNotify, UNCHANGED serverVars PROVE Req' = Req
  BY <1>1, ThreadReq DEF ClientNotify, metaVars, serverVars, loopVars, workerVars
<1>2. ASSUME ClientFails, UNCHANGED serverVars PROVE Req' = Req
  BY <1>2, ThreadReq
     DEF ClientFails, metaVars, sharedVars, serverVars, loopVars, workerVars
<1> QED
  BY <1>1, <1>2, IssueReq, ProcessReq, FreeReq, ConsumeReq DEF Client, ClientStep

LEMMA BlkReq == ASSUME Blk PROVE Req' = Req
BY ThreadReq DEF Blk, BlkTake, BlkAnswer, clientVars, metaVars, sharedVars, loopVars, workerVars

LEMMA NextReq == ASSUME IInv, [Next]_vars PROVE Service!Next \/ Req' = Req
<1>1. ASSUME UNCHANGED vars PROVE Req' = Req
  BY <1>1, ThreadReq
     DEF vars, clientVars, metaVars, sharedVars, serverVars, loopVars, workerVars
<1> QED
  BY <1>1, ServerReq, ClientReq, BlkReq DEF Next

\* Every step of client, event loop and disk is a step of FsService or leaves
\* every request at its stage: a request is executed once, and its client learns
\* the status that its own handler set.
THEOREM ServerImplementsService == Spec => ImplementsService
<1>1. Init => Service!Init
  BY InitReq
<1>2. IInv /\ [Next]_vars => [Service!Next]_Req
  BY NextReq
<1> QED
  BY <1>1, <1>2, ServerInvariance, PTL DEF Spec, ImplementsService, Service!Spec, Req
-----------------------------------------------------------------------------
(* The composition of MCFsServers: a client with either file server behind *)
(* its queues.  Each server's invariant is that of its own proof; a        *)
(* behaviour never leaves the server it picked.                            *)

\* The parameters the NFS server is instantiated with satisfy its assumptions.
LEMMA NfsParameters ==
    /\ NIds \in Nat \ {0} /\ Capacity \in Nat \ {0} /\ NIds <= Capacity
    /\ {"initialise", "async", "sync", "deinitialise"} # {}
    /\ "none" \notin {"initialise", "async", "sync", "deinitialise"}
    /\ {"ok", "error"} # {} /\ "none" \notin {"ok", "error"}
BY FsClientAssumption

LEMMA NfsAnswering == Nfs!Answering
BY DEF Nfs!Answering, Nfs!NfsServerAssumption, Nfs!Classes

\* The server that was picked is in a state its own proof describes.
AllInv ==
    /\ part \in {"fat", "nfs"}
    /\ part = "fat" => IInv
    /\ part = "nfs" => Nfs!IInv

LEMMA InitAllInv == ASSUME InitAll PROVE AllInv
<1>1. IInv
  BY InitIInv DEF InitAll
<1>2. Nfs!IInv
  BY NfsParameters, NfsAnswering, Nfs!InitIInv DEF InitAll, Nfs!Answering
<1> QED
  BY <1>1, <1>2 DEF InitAll, AllInv

\* What a step of the composition is for the server that takes it.
LEMMA StepOfOne ==
  ASSUME AllInv, [NextAll]_allVars
  PROVE  /\ part' = part
         /\ part = "fat" => [Next]_vars
         /\ part = "nfs" => [Nfs!Next]_Nfs!vars
<1>1. CASE OfFat(Next)
  BY <1>1 DEF OfFat
<1>2. CASE OfNfs(Nfs!Next)
  BY <1>2 DEF OfNfs
<1>3. CASE UNCHANGED allVars
  <2>1. UNCHANGED <<part, vars, nfsVars>>
    BY <1>3 DEF allVars
  <2>2. UNCHANGED Nfs!vars
    BY <2>1 DEF vars, clientVars, metaVars, sharedVars, nfsVars, Nfs!vars, Nfs!clientVars,
                Nfs!metaVars, Nfs!sharedVars, Nfs!serverVars, Nfs!loopVars, Nfs!poolVars,
                Nfs!netVars
  <2> QED
    BY <2>1, <2>2
<1> QED
  BY <1>1, <1>2, <1>3 DEF NextAll

LEMMA NextAllInv == ASSUME AllInv, [NextAll]_allVars PROVE AllInv'
<1>1. CASE part = "fat"
  <2>1. IInv'
    BY <1>1, StepOfOne, NextIInv DEF AllInv
  <2> QED
    BY <1>1, <2>1, StepOfOne DEF AllInv
<1>2. CASE part = "nfs"
  <2>1. Nfs!IInv /\ [Nfs!Next]_Nfs!vars
    BY <1>2, StepOfOne DEF AllInv
  <2>2. Nfs!IInv'
    BY <2>1, NfsParameters, NfsAnswering, Nfs!NextIInv
  <2> QED
    BY <1>2, <2>2, StepOfOne DEF AllInv
<1> QED
  BY <1>1, <1>2 DEF AllInv

\* The invariant holds whichever server is behind the queues.
THEOREM ServersInvariance == SpecAll => []AllInv
<1>1. InitAll => AllInv
  BY InitAllInv
<1>2. AllInv /\ [NextAll]_allVars => AllInv'
  BY NextAllInv
<1> QED
  BY <1>1, <1>2, PTL DEF SpecAll

-----------------------------------------------------------------------------

\* A request that the client waits for is in one place, with either server: not
\* lost, not answered twice, not answered after its id was given away again.
THEOREM EitherHoldsRequestsOnce == SpecAll => []RequestsHeldOnce
<1>1. AllInv => RequestsHeldOnce
  <2>1. ASSUME IInv PROVE TypeOK /\ EachRequestHeldOnce
    BY <2>1, IInvHeldOnce DEF IInv
  <2>2. ASSUME Nfs!IInv PROVE Nfs!TypeOK /\ Nfs!EachRequestHeldOnce
    BY <2>2, NfsParameters, Nfs!IInvHeldOnce DEF Nfs!IInv
  <2> QED
    BY <2>1, <2>2 DEF AllInv, RequestsHeldOnce
<1> QED
  BY <1>1, ServersInvariance, PTL

\* Replies find room with either server (the space event.c reserves, the assert
\* of reply), and so do the client's commands with FAT (the assert of
\* fs_command_issue).  With NFS that assert can fail, but only for commands that
\* process_commands has handled and not consumed yet.
THEOREM ServersLeaveRoom == SpecAll => []RoomInQueues
<1>1. AllInv => RoomInQueues
  <2>1. ASSUME Nfs!IInv PROVE Nfs!UnhandledCommandsLeaveRoom /\ Nfs!ReplyHasRoom
    BY <2>1, NfsParameters, Nfs!IInvUnhandledRoom, Nfs!IInvReplyRoom
  <2> QED
    BY <2>1, IInvCommandRoom, IInvCompletionRoom DEF AllInv, RoomInQueues
<1> QED
  BY <1>1, ServersInvariance, PTL

\* The FAT event loop sleeps only when there is nothing it could do, and every
\* blocked worker has one block request to wake it.
THEOREM FatSleepsSafely == SpecAll => []ServerWaitsForDiskOrClient
<1>1. AllInv => ServerWaitsForDiskOrClient
  BY IInvWaits, IInvBlkRequests DEF AllInv, ServerWaitsForDiskOrClient
<1> QED
  BY <1>1, ServersInvariance, PTL

\* The NFS server's continuations are free or in use, none lost and none shared.
THEOREM NfsPoolSafe == SpecAll => []ContinuationsAccounted
<1>1. AllInv => ContinuationsAccounted
  <2>1. ASSUME Nfs!IInv PROVE Nfs!ContinuationsConserved /\ Nfs!ContinuationsExclusive
    BY <2>1, NfsParameters, Nfs!IInvConserved, Nfs!IInvExclusive
  <2> QED
    BY <2>1 DEF AllInv, ContinuationsAccounted
<1> QED
  BY <1>1, ServersInvariance, PTL

-----------------------------------------------------------------------------
(* The promise of FsService, kept by whichever server was picked.          *)

\* The refinement mapping of EitherImplementsService.
AllReq == [id \in Ids |-> IF part = "fat" THEN Stage(id) ELSE Nfs!Stage(id)]

LEMMA AllReqIsReq ==
    /\ part = "fat" => AllReq = Req
    /\ part = "nfs" => AllReq = Nfs!Req
BY DEF AllReq, Req, Nfs!Req, Nfs!Ids, Ids

\* A step of a server's own mapping is one of the composition's.
LEMMA FatStep ==
  ASSUME part = "fat", part' = "fat", Statuses \subseteq {"ok", "error"}, Service!Next
  PROVE  Promise!Next
<1>1. AllReq = Req /\ AllReq' = Req'
  BY DEF AllReq, Req
<1>2. \A id \in Ids : Service!Issue(id) => Promise!Issue(id)
  BY <1>1 DEF Service!Issue, Service!Idle, Service!Pending, Promise!Issue, Promise!Idle,
              Promise!Pending, AllReq, Req
<1>3. \A id \in Ids, s \in Statuses : Service!Execute(id, s) => Promise!Execute(id, s)
  BY <1>1 DEF Service!Execute, Service!Executed, Service!Pending, Promise!Execute,
              Promise!Executed, Promise!Pending, AllReq, Req
<1>4. \A S \in SUBSET Ids : Service!Deliver(S) => Promise!Deliver(S)
  BY <1>1 DEF Service!Deliver, Service!Complete, Promise!Deliver, Promise!Complete, AllReq, Req
<1>5. \A id \in Ids : Service!Release(id) => Promise!Release(id)
  BY <1>1 DEF Service!Release, Service!Idle, Promise!Release, Promise!Idle, AllReq, Req
<1> QED
  BY <1>2, <1>3, <1>4, <1>5 DEF Service!Next, Promise!Next

LEMMA NfsStep ==
  ASSUME part = "nfs", part' = "nfs", Nfs!Promise!Next
  PROVE  Promise!Next
<1>1. AllReq = Nfs!Req /\ AllReq' = Nfs!Req' /\ Nfs!Ids = Ids
  BY DEF AllReq, Nfs!Req, Nfs!Ids, Ids
<1>2. \A id \in Ids : Nfs!Promise!Issue(id) => Promise!Issue(id)
  BY <1>1 DEF Nfs!Promise!Issue, Nfs!Promise!Idle, Nfs!Promise!Pending, Promise!Issue,
              Promise!Idle, Promise!Pending, AllReq, Nfs!Req
<1>3. \A id \in Ids, s \in {"ok", "error"} :
        Nfs!Promise!Execute(id, s) => Promise!Execute(id, s)
  BY <1>1 DEF Nfs!Promise!Execute, Nfs!Promise!Executed, Nfs!Promise!Pending, Promise!Execute,
              Promise!Executed, Promise!Pending, AllReq, Nfs!Req
<1>4. \A S \in SUBSET Ids : Nfs!Promise!Deliver(S) => Promise!Deliver(S)
  BY <1>1 DEF Nfs!Promise!Deliver, Nfs!Promise!Complete, Promise!Deliver, Promise!Complete,
              AllReq, Nfs!Req
<1>5. \A id \in Ids : Nfs!Promise!Release(id) => Promise!Release(id)
  BY <1>1 DEF Nfs!Promise!Release, Nfs!Promise!Idle, Promise!Release, Promise!Idle, AllReq, Nfs!Req
<1> QED
  BY <1>1, <1>2, <1>3, <1>4, <1>5 DEF Nfs!Promise!Next, Promise!Next

\* Each request is executed once, whichever server is asked, and its client
\* learns the status that its own handler or callback set.
THEOREM EitherKeepsPromise ==
  ASSUME Statuses \subseteq {"ok", "error"}
  PROVE  SpecAll => EitherImplementsService
<1>1. InitAll => Promise!Init
  <2>1. Init => Service!Init
    BY InitReq
  <2>2. Nfs!Init => Nfs!Promise!Init
    BY NfsParameters, Nfs!InitReq
  <2> QED
    BY <2>1, <2>2 DEF InitAll, Service!Init, Nfs!Promise!Init, Promise!Init, Service!Idle,
                      Nfs!Promise!Idle, Promise!Idle, Nfs!Ids, Ids
<1>2. AllInv /\ [NextAll]_allVars => [Promise!Next]_AllReq
  <2> SUFFICES ASSUME AllInv, [NextAll]_allVars
               PROVE  Promise!Next \/ AllReq' = AllReq
    OBVIOUS
  <2>1. CASE part = "fat"
    <3>1. part' = "fat" /\ IInv /\ [Next]_vars
      BY <2>1, StepOfOne DEF AllInv
    <3>2. Service!Next \/ Req' = Req
      BY <3>1, NextReq
    <3>3. AllReq = Req /\ AllReq' = Req'
      BY <2>1, <3>1 DEF AllReq, Req
    <3> QED
      BY <2>1, <3>1, <3>2, <3>3, FatStep
  <2>2. CASE part = "nfs"
    <3>1. part' = "nfs" /\ Nfs!IInv /\ [Nfs!Next]_Nfs!vars
      BY <2>2, StepOfOne DEF AllInv
    <3>2. Nfs!Promise!Next \/ Nfs!Req' = Nfs!Req
      BY <3>1, NfsParameters, NfsAnswering, Nfs!NextReq
    <3>3. AllReq = Nfs!Req /\ AllReq' = Nfs!Req'
      BY <2>2, <3>1 DEF AllReq, Nfs!Req, Nfs!Ids, Ids
    <3> QED
      BY <2>2, <3>1, <3>2, <3>3, NfsStep
  <2> QED
    BY <2>1, <2>2 DEF AllInv
<1> QED
  BY <1>1, <1>2, ServersInvariance, PTL DEF SpecAll, EitherImplementsService, Promise!Spec, AllReq

=============================================================================
