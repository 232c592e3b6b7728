--------------------------- MODULE NfsServerProof ---------------------------
(***************************************************************************)
(* Proofs about NfsServer, for any number of request ids and any capacity  *)
(* of the queues and the continuation pool: libnfs keeps operations for as *)
(* long as it likes and answers them in any order, while process_commands  *)
(* works through commands it consumes only at the end.  dir_remove, whose  *)
(* request is not answered through its own continuation, is excluded by    *)
(* the theorems' hypothesis: with it the properties fail.                  *)
(***************************************************************************)
EXTENDS NfsServer, FsClientProof

Answering == NfsServerAssumption /\ "rmdir" \notin Types

Running == inFlight \cup arrived

\* What process_commands counted is still there, and outside its loop nothing is
\* counted.
LoopInv ==
    /\ Len(cmdQ) <= Capacity
    /\ toConsume <= Len(cmdQ)
    /\ spc # "process" => done = 0
    /\ spc \notin {"space", "process"} => toConsume = 0

\* The commands not yet processed belong to different requests that the client
\* waits for.  Those processed but not consumed may be answered already, and
\* their ids in use again further back in the queue.
CommandsHeld ==
    /\ \A i \in 1 .. Len(cmdQ) :
        i > done => Outstanding(cmdQ[i].id) /\ command[cmdQ[i].id] = cmdQ[i].type
    /\ \A i, j \in 1 .. Len(cmdQ) :
        i > done /\ j > done /\ cmdQ[i].id = cmdQ[j].id => i = j

\* So do the operations libnfs holds, each with a continuation of its own.
OperationsHeld ==
    /\ inFlight \cap arrived = {}
    /\ \A op \in Running : op.class # "rmdir" /\ Outstanding(requestId[op.cont])
    /\ \A o, p \in Running :
        o.cont = p.cont \/ requestId[o.cont] = requestId[p.cont] => o = p
    /\ \A op \in Running, i \in 1 .. Len(cmdQ) : i > done => cmdQ[i].id # requestId[op.cont]

\* A published completion has left every other place.
CompletionsHeld ==
    /\ CompletionsKnown
    /\ \A i \in 1 .. Len(cmplQ), j \in 1 .. Len(cmdQ) : j > done => cmplQ[i].id # cmdQ[j].id
    /\ \A i \in 1 .. Len(cmplQ), op \in Running : cmplQ[i].id # requestId[op.cont]

InCommands(id) == \E i \in 1 .. Len(cmdQ) : i > done /\ cmdQ[i].id = id
InOperations(id) == \E op \in Running : requestId[op.cont] = id
InCompletions(id) == \E i \in 1 .. Len(cmplQ) : i > read /\ cmplQ[i].id = id

\* A request that the client waits for is somewhere, unless deinitialise lost it.
SomewhereHeld ==
    \A id \in Ids : Outstanding(id) /\ command[id] # "deinitialise" =>
        InCommands(id) \/ InOperations(id) \/ InCompletions(id)

\* A continuation is free or libnfs holds it.
PoolInv ==
    /\ \A i, j \in 1 .. Len(freeConts) : freeConts[i] = freeConts[j] => i = j
    /\ \A op \in Running, i \in 1 .. Len(freeConts) : freeConts[i] # op.cont
    /\ \A c \in PoolEntries : \/ \E i \in 1 .. Len(freeConts) : freeConts[i] = c
                        \/ \E op \in Running : op.cont = c

IInv ==
    /\ TypeOK
    /\ ClientInv /\ LoopInv
    /\ CommandsHeld /\ OperationsHeld /\ CompletionsHeld /\ SomewhereHeld
    /\ PoolInv

LEMMA Parameters == Capacity \in Nat /\ Capacity > 0 /\ NIds \in Nat /\ 0 \in Ids
BY ClientParameters DEF Ids

\* What TypeOK says of the entries of the queues and of the running operations.
LEMMA Entries ==
  ASSUME TypeOK
  PROVE  /\ ClientTypeOK
         /\ Len(cmdQ) \in Nat /\ Len(cmplQ) \in Nat /\ Len(freeConts) \in Nat
         /\ read \in Nat /\ toConsume \in Nat /\ done \in Nat /\ done <= toConsume
         /\ \A i \in 1 .. Len(cmdQ) : cmdQ[i].id \in Ids /\ cmdQ[i].type \in Types
         /\ \A i \in 1 .. Len(cmplQ) : cmplQ[i].id \in Ids /\ cmplQ[i].status \in Statuses
         /\ \A i \in 1 .. Len(freeConts) : freeConts[i] \in PoolEntries
         /\ \A op \in Running : /\ op.cont \in PoolEntries /\ requestId[op.cont] \in Ids
                                /\ op = [cont |-> op.cont, class |-> op.class]
<1>1. ClientTypeOK
  BY DEF TypeOK
<1>2. /\ toConsume \in Nat /\ done \in Nat /\ done <= toConsume
  BY Parameters DEF TypeOK
<1>3. Len(freeConts) \in Nat /\ \A i \in 1 .. Len(freeConts) : freeConts[i] \in PoolEntries
  <2>1. freeConts \in Seq(PoolEntries)
    BY DEF TypeOK
  <2> QED
    BY <2>1, LenProperties, ElementOfSeq
<1>4. \A op \in Running : /\ op.cont \in PoolEntries /\ requestId[op.cont] \in Ids
                          /\ op = [cont |-> op.cont, class |-> op.class]
  BY DEF TypeOK, Running, Ops
<1> QED
  BY <1>1, <1>2, <1>3, <1>4, ClientEntries

-----------------------------------------------------------------------------

LEMMA InitIInv == ASSUME NfsServerAssumption, Init PROVE IInv
<1>1. /\ used = [id \in Ids |-> FALSE] /\ complete = [id \in Ids |-> FALSE]
      /\ completion = [id \in Ids |-> "none"] /\ command = [id \in Ids |-> "none"]
      /\ cpc = "idle" /\ read = 0 /\ cmdQ = <<>> /\ cmplQ = <<>> /\ srvNtfn = {}
      /\ cliNtfn = FALSE /\ spc = "wait" /\ ready = FALSE /\ ctx = FALSE
      /\ toConsume = 0 /\ done = 0 /\ freeConts = [i \in 1 .. Capacity |-> i]
      /\ requestId = [c \in PoolEntries |-> 0] /\ inFlight = {} /\ arrived = {}
      /\ telling = FALSE /\ clientUp = FALSE
  BY DEF Init, ClientInit
<1>2. /\ Len(cmdQ) = 0 /\ Len(cmplQ) = 0
      /\ cmdQ \in Seq([id : Ids, type : Types]) /\ cmplQ \in Seq([id : Ids, status : Statuses])
  BY <1>1
<1>3. freeConts \in Seq(PoolEntries) /\ Len(freeConts) = Capacity
  BY <1>1, Parameters DEF PoolEntries
<1>4. TypeOK
  <2>1. ClientTypeOK
    BY <1>1, <1>2 DEF ClientTypeOK
  <2>2. toConsume \in 0 .. Capacity /\ done \in 0 .. toConsume
    BY <1>1, Parameters
  <2>3. requestId \in [PoolEntries -> Ids]
    BY <1>1, Parameters
  <2> QED
    BY <1>1, <1>3, <2>1, <2>2, <2>3 DEF TypeOK
<1>5. ClientInv /\ LoopInv
  BY <1>1, <1>2, Parameters DEF ClientInv, LoopInv
<1>6. CommandsHeld /\ OperationsHeld /\ CompletionsHeld
  BY <1>1, <1>2 DEF CommandsHeld, OperationsHeld, CompletionsHeld, CompletionsKnown, Running
<1>7. SomewhereHeld
  BY <1>1 DEF SomewhereHeld, Outstanding
<1>8. PoolInv
  BY <1>1, <1>3 DEF PoolInv, Running, PoolEntries
<1> QED
  BY <1>4, <1>5, <1>6, <1>7, <1>8 DEF IInv

-----------------------------------------------------------------------------
(* The client.                                                             *)

LEMMA SendsIInv ==
  ASSUME IInv, NEW type \in Types, ClientIssue(type), UNCHANGED serverVars
  PROVE  IInv'
<1>0. PICK n : n = Len(cmdQ)
  OBVIOUS
<1>1. PICK id \in Ids :
      /\ ~used[id] /\ ~complete[id]
      /\ used' = [used EXCEPT ![id] = TRUE] /\ command' = [command EXCEPT ![id] = type]
      /\ Len(cmdQ') = n + 1 /\ n # Capacity
      /\ cmdQ'[n + 1] = [id |-> id, type |-> type]
      /\ \A i \in 1 .. n : cmdQ'[i] = cmdQ[i]
      /\ \A j \in Ids : Outstanding(j)' <=> Outstanding(j) \/ j = id
      /\ ClientTypeOK' /\ ClientInv'
      /\ UNCHANGED <<complete, completion, read, cliNtfn, cmplQ, srvNtfn>>
  BY <1>0, IssueFacts DEF IInv, TypeOK
<1>2. /\ UNCHANGED <<spc, ready, toConsume, done, ctx, freeConts, requestId, inFlight, arrived,
                     telling, clientUp>>
      /\ Running' = Running
  BY DEF serverVars, loopVars, poolVars, netVars, Running
<1>3. /\ n \in Nat /\ done \in Nat /\ done <= n /\ toConsume \in Nat /\ toConsume <= n
      /\ n <= Capacity /\ Capacity \in Nat
  BY <1>0, Entries, Parameters DEF IInv, LoopInv
<1>4. \A i \in 1 .. n + 1 : i \in 1 .. n \/ (i = n + 1 /\ i > done)
  BY <1>3
<1>5. /\ \A i \in 1 .. n : i > done => cmdQ[i].id # id /\ cmdQ[i].id \in Ids
      /\ \A op \in Running : requestId[op.cont] # id /\ requestId[op.cont] \in Ids
      /\ \A i \in 1 .. Len(cmplQ) : cmplQ[i].id # id /\ cmplQ[i].id \in Ids
      /\ command'[id] = type /\ \A j \in Ids : j # id => command'[j] = command[j]
  BY <1>0, <1>1, Entries
  DEF IInv, TypeOK, ClientTypeOK, CommandsHeld, OperationsHeld, CompletionsHeld, CompletionsKnown, Outstanding
<1>6. TypeOK'
  BY <1>1, <1>2 DEF IInv, TypeOK
<1>7. LoopInv'
  BY <1>0, <1>1, <1>2, <1>3 DEF IInv, LoopInv
<1>8. CommandsHeld'
  <2>1. \A i \in 1 .. n + 1 :
          i > done => Outstanding(cmdQ[i].id)' /\ command'[cmdQ'[i].id] = cmdQ'[i].type
    BY <1>0, <1>1, <1>4, <1>5 DEF IInv, CommandsHeld
  <2>2. \A i, j \in 1 .. n + 1 :
          i > done /\ j > done /\ cmdQ'[i].id = cmdQ'[j].id => i = j
    BY <1>0, <1>1, <1>4, <1>5 DEF IInv, CommandsHeld
  <2> QED
    BY <1>1, <1>2, <2>1, <2>2 DEF CommandsHeld
<1>9. OperationsHeld'
  <2>1. \A op \in Running, i \in 1 .. n + 1 : i > done => cmdQ'[i].id # requestId[op.cont]
    BY <1>0, <1>1, <1>4, <1>5 DEF IInv, OperationsHeld
  <2>2. \A op \in Running : Outstanding(requestId[op.cont])'
    BY <1>1, <1>2, <1>5 DEF IInv, OperationsHeld
  <2> QED
    BY <1>1, <1>2, <2>1, <2>2 DEF IInv, OperationsHeld
<1>10. CompletionsHeld'
  <2>1. CompletionsKnown'
    BY <1>1, <1>5 DEF IInv, CompletionsHeld, CompletionsKnown, TypeOK, ClientTypeOK
  <2>2. \A i \in 1 .. Len(cmplQ), j \in 1 .. n + 1 : j > done => cmplQ[i].id # cmdQ'[j].id
    BY <1>0, <1>1, <1>4, <1>5 DEF IInv, CompletionsHeld
  <2> QED
    BY <1>1, <1>2, <2>1, <2>2 DEF IInv, CompletionsHeld
<1>11. SomewhereHeld'
  <2>1. \A j \in Ids : InCommands(j) => InCommands(j)'
    BY <1>0, <1>1, <1>2, <1>3 DEF InCommands
  <2>2. InCommands(id)'
    BY <1>1, <1>2, <1>3 DEF InCommands
  <2>3. \A j \in Ids : /\ InOperations(j) => InOperations(j)'
                       /\ InCompletions(j) => InCompletions(j)'
    BY <1>1, <1>2 DEF InOperations, InCompletions
  <2> QED
    BY <1>1, <1>5, <2>1, <2>2, <2>3 DEF IInv, SomewhereHeld
<1>12. PoolInv'
  BY <1>2 DEF IInv, PoolInv
<1> QED
  BY <1>1, <1>6, <1>7, <1>8, <1>9, <1>10, <1>11, <1>12 DEF IInv

LEMMA ProcessIInv ==
  ASSUME IInv, ClientLearns
  PROVE  IInv'
<1>0. PICK n : n = Len(cmplQ)
  OBVIOUS
<1>1. /\ \A i \in 1 .. n : cmplQ[i].id \in Ids /\ Outstanding(cmplQ[i].id)
      /\ \A id \in Ids :
           \/ (\A i \in 1 .. n : cmplQ[i].id # id) /\ complete'[id] = complete[id]
           \/ (\E i \in 1 .. n : cmplQ[i].id = id) /\ complete'[id]
      /\ complete' \in [Ids -> BOOLEAN] /\ completion' \in [Ids -> Statuses \cup {"none"}]
      /\ read' = n /\ read = 0
  BY <1>0, ProcessFacts DEF IInv, TypeOK, CompletionsHeld, ClientLearns
<1>2. /\ cpc = "idle" /\ cpc' = "consume" /\ cliNtfn' = FALSE /\ clientUp' \in BOOLEAN
      /\ UNCHANGED <<used, command, cmdQ, cmplQ, srvNtfn, spc, ready, toConsume, done, ctx,
                     freeConts, requestId, inFlight, arrived, telling>>
      /\ Running' = Running
  BY DEF ClientLearns, ClientProcess, ProcessMessages, loopVars, poolVars, netVars, Running,
         IInv, TypeOK
<1>3. n \in Nat /\ cmplQ \in Seq([id : Ids, status : Statuses])
  BY <1>0, Entries DEF IInv, ClientTypeOK
<1>4. TypeOK'
  <2>1. ClientTypeOK'
    BY <1>1, <1>2, <1>3 DEF IInv, TypeOK, ClientTypeOK
  <2> QED
    BY <1>2, <2>1 DEF IInv, TypeOK
<1>5. ClientInv'
  BY <1>0, <1>1, <1>2, <1>3 DEF IInv, TypeOK, ClientTypeOK, ClientInv, Outstanding
<1>6. LoopInv' /\ PoolInv'
  BY <1>2 DEF IInv, LoopInv, PoolInv
<1>7. \A id \in Ids : Outstanding(id)' <=> Outstanding(id) /\ \A i \in 1 .. n : cmplQ[i].id # id
  BY <1>1, <1>2 DEF Outstanding
<1>8. CommandsHeld'
  <2>1. \A j \in 1 .. Len(cmdQ) : j > done => Outstanding(cmdQ[j].id)'
    BY <1>0, <1>2, <1>7, Entries DEF IInv, CommandsHeld, CompletionsHeld
  <2> QED
    BY <1>2, <2>1 DEF IInv, CommandsHeld
<1>9. OperationsHeld'
  <2>1. \A op \in Running : Outstanding(requestId[op.cont])'
    BY <1>0, <1>2, <1>7, Entries DEF IInv, OperationsHeld, CompletionsHeld
  <2> QED
    BY <1>2, <2>1 DEF IInv, OperationsHeld
<1>10. CompletionsHeld'
  <2>1. CompletionsKnown'
    BY <1>0, <1>1, <1>2 DEF IInv, CompletionsHeld, CompletionsKnown, Outstanding
  <2> QED
    BY <1>2, <2>1 DEF IInv, CompletionsHeld
<1>11. SomewhereHeld'
  <2>1. \A id \in Ids : /\ InCommands(id) => InCommands(id)'
                        /\ InOperations(id) => InOperations(id)'
    BY <1>2 DEF InCommands, InOperations
  <2>2. \A id \in Ids : Outstanding(id)' => Outstanding(id) /\ ~ InCompletions(id)
    BY <1>0, <1>7 DEF InCompletions
  <2> QED
    BY <1>2, <2>1, <2>2 DEF IInv, SomewhereHeld
<1> QED
  BY <1>4, <1>5, <1>6, <1>8, <1>9, <1>10, <1>11 DEF IInv

LEMMA FailsIInv == ASSUME IInv, ClientFails, UNCHANGED serverVars PROVE IInv'
<1>1. /\ cpc = "idle" /\ cpc' = "failed"
      /\ UNCHANGED <<used, complete, completion, command, read, cliNtfn, cmdQ, cmplQ, srvNtfn,
                     spc, ready, toConsume, done, ctx, freeConts, requestId, inFlight, arrived,
                     telling, clientUp>>
      /\ Running' = Running
  BY DEF ClientFails, metaVars, sharedVars, serverVars, loopVars, poolVars, netVars, Running
<1>2. TypeOK'
  BY <1>1 DEF IInv, TypeOK, ClientTypeOK
<1>3. ClientInv' /\ LoopInv' /\ PoolInv'
  BY <1>1 DEF IInv, ClientInv, LoopInv, PoolInv
<1>4. CommandsHeld' /\ OperationsHeld' /\ CompletionsHeld'
  BY <1>1 DEF IInv, CommandsHeld, OperationsHeld, CompletionsHeld, CompletionsKnown, Outstanding
<1>5. SomewhereHeld'
  BY <1>1 DEF IInv, SomewhereHeld, InCommands, InOperations, InCompletions, Outstanding
<1> QED
  BY <1>2, <1>3, <1>4, <1>5 DEF IInv

LEMMA NotifyIInv == ASSUME IInv, ClientNotify, UNCHANGED serverVars PROVE IInv'
<1>1. /\ cpc = "notify" /\ cpc' = "idle" /\ srvNtfn' = srvNtfn \cup {"client"}
      /\ UNCHANGED <<used, complete, completion, command, read, cliNtfn, cmdQ, cmplQ, spc, ready,
                     toConsume, done, ctx, freeConts, requestId, inFlight, arrived, telling,
                     clientUp>>
      /\ Running' = Running
  BY DEF ClientNotify, metaVars, serverVars, loopVars, poolVars, netVars, Running
<1>2. TypeOK'
  BY <1>1 DEF IInv, TypeOK, ClientTypeOK
<1>3. ClientInv' /\ LoopInv' /\ PoolInv'
  BY <1>1 DEF IInv, ClientInv, LoopInv, PoolInv
<1>4. CommandsHeld' /\ OperationsHeld' /\ CompletionsHeld'
  BY <1>1 DEF IInv, CommandsHeld, OperationsHeld, CompletionsHeld, CompletionsKnown, Outstanding
<1>5. SomewhereHeld'
  BY <1>1 DEF IInv, SomewhereHeld, InCommands, InOperations, InCompletions, Outstanding
<1> QED
  BY <1>2, <1>3, <1>4, <1>5 DEF IInv

LEMMA ConsumeIInv == ASSUME IInv, ClientConsume, UNCHANGED serverVars PROVE IInv'
<1>0. PICK n, r : n = Len(cmplQ) /\ r = read
  OBVIOUS
<1>1. /\ Len(cmplQ') = n - r
      /\ \A i \in 1 .. n - r :
           i + r \in 1 .. n /\ i + r > r /\ cmplQ'[i] = cmplQ[i + r]
      /\ \A i \in 1 .. n : i > r => i - r \in 1 .. n - r /\ cmplQ'[i - r] = cmplQ[i]
      /\ ClientTypeOK' /\ ClientInv' /\ CompletionsKnown' /\ read' = 0
      /\ UNCHANGED <<used, complete, completion, command, cliNtfn, cmdQ, srvNtfn>>
  BY <1>0, ConsumeFacts DEF IInv, TypeOK, CompletionsHeld
<1>2. /\ UNCHANGED <<spc, ready, toConsume, done, ctx, freeConts, requestId, inFlight, arrived,
                     telling, clientUp>>
      /\ Running' = Running
  BY DEF serverVars, loopVars, poolVars, netVars, Running
<1>3. TypeOK'
  BY <1>1, <1>2 DEF IInv, TypeOK
<1>4. LoopInv' /\ PoolInv' /\ CommandsHeld' /\ OperationsHeld'
  BY <1>1, <1>2 DEF IInv, LoopInv, PoolInv, CommandsHeld, OperationsHeld, Outstanding
<1>5. CompletionsHeld'
  <2>1. \A i \in 1 .. n - r, j \in 1 .. Len(cmdQ) : j > done => cmplQ'[i].id # cmdQ[j].id
    BY <1>0, <1>1 DEF IInv, CompletionsHeld
  <2>2. \A i \in 1 .. n - r, op \in Running : cmplQ'[i].id # requestId[op.cont]
    BY <1>0, <1>1 DEF IInv, CompletionsHeld
  <2> QED
    BY <1>1, <1>2, <2>1, <2>2 DEF CompletionsHeld
<1>6. SomewhereHeld'
  <2>1. \A id \in Ids : InCompletions(id) => InCompletions(id)'
    <3>1. \A i \in 1 .. n : i > r => i - r > 0
      BY <1>1
    <3> QED
      BY <1>0, <1>1, <3>1 DEF InCompletions
  <2>2. \A id \in Ids : /\ InCommands(id) => InCommands(id)'
                        /\ InOperations(id) => InOperations(id)'
                        /\ Outstanding(id)' <=> Outstanding(id)
    BY <1>1, <1>2 DEF InCommands, InOperations, Outstanding
  <2> QED
    BY <1>1, <2>1, <2>2 DEF IInv, SomewhereHeld
<1> QED
  BY <1>1, <1>3, <1>4, <1>5, <1>6 DEF IInv

LEMMA FreeIInv ==
  ASSUME IInv, NEW id \in Ids, ClientFree(id), UNCHANGED serverVars
  PROVE  IInv'
<1>0. ClientTypeOK /\ ClientInv /\ CompletionsKnown
  BY DEF IInv, TypeOK, CompletionsHeld
<1>1. /\ \A j \in Ids : (Outstanding(j)' <=> Outstanding(j))
      /\ \A j \in Ids : Outstanding(j) => command'[j] = command[j]
      /\ ClientTypeOK' /\ ClientInv' /\ CompletionsKnown'
      /\ UNCHANGED <<cpc, read, cliNtfn, cmdQ, cmplQ, srvNtfn>>
  BY <1>0, FreeFacts
<1>2. /\ UNCHANGED <<spc, ready, toConsume, done, ctx, freeConts, requestId, inFlight, arrived,
                     telling, clientUp>>
      /\ Running' = Running
  BY DEF serverVars, loopVars, poolVars, netVars, Running
<1>3. TypeOK'
  BY <1>1, <1>2 DEF IInv, TypeOK
<1>4. LoopInv' /\ PoolInv'
  BY <1>1, <1>2 DEF IInv, LoopInv, PoolInv
<1>5. CommandsHeld'
  <2>1. \A i \in 1 .. Len(cmdQ) :
          i > done => Outstanding(cmdQ[i].id)' /\ command'[cmdQ[i].id] = cmdQ[i].type
    BY <1>1, Entries DEF IInv, CommandsHeld
  <2> QED
    BY <1>1, <1>2, <2>1 DEF IInv, CommandsHeld
<1>6. OperationsHeld'
  <2>1. \A op \in Running : Outstanding(requestId[op.cont])'
    BY <1>1, <1>2, Entries DEF IInv, OperationsHeld
  <2> QED
    BY <1>1, <1>2, <2>1 DEF IInv, OperationsHeld
<1>7. CompletionsHeld'
  BY <1>1, <1>2 DEF IInv, CompletionsHeld
<1>8. SomewhereHeld'
  BY <1>1, <1>2 DEF IInv, SomewhereHeld, InCommands, InOperations, InCompletions
<1> QED
  BY <1>1, <1>3, <1>4, <1>5, <1>6, <1>7, <1>8 DEF IInv

-----------------------------------------------------------------------------
(* reply.                                                                  *)

\* A reply moves a request that is not answered yet to the end of the completions.
LEMMA ReplyFacts ==
  ASSUME IInv, NEW id \in Ids, NEW status \in Statuses, Reply(id, status), Outstanding(id),
         \A i \in 1 .. Len(cmplQ) : cmplQ[i].id # id,
         UNCHANGED <<used, complete, completion, command, cpc, read, cliNtfn, cmdQ>>
  PROVE  /\ Len(cmplQ') = Len(cmplQ) + 1 /\ Len(cmplQ) < Capacity
         /\ cmplQ'[Len(cmplQ) + 1] = [id |-> id, status |-> status]
         /\ \A i \in 1 .. Len(cmplQ) : cmplQ'[i] = cmplQ[i]
         /\ \A i \in 1 .. Len(cmplQ') : cmplQ'[i].id = id
                                        \/ \E k \in 1 .. Len(cmplQ) : cmplQ'[i] = cmplQ[k]
         /\ InCompletions(id)' /\ \A j \in Ids : InCompletions(j) => InCompletions(j)'
         /\ ClientTypeOK' /\ ClientInv' /\ CompletionsKnown' /\ ~telling /\ telling' = TRUE
<1>0. PICK n : n = Len(cmplQ)
  OBVIOUS
<1>1. /\ cmplQ' = Append(cmplQ, [id |-> id, status |-> status])
      /\ n < Capacity /\ ~telling /\ telling' = TRUE
  BY <1>0 DEF Reply
<1> DEFINE m == [id |-> id, status |-> status]
           S == [id : Ids, status : Statuses]
<1>2. cmplQ \in Seq(S) /\ m \in S /\ cmplQ' = Append(cmplQ, m)
  BY <1>1 DEF IInv, TypeOK, ClientTypeOK
<1>3. m.id = id
  OBVIOUS
<1> HIDE DEF m, S
<1>4. /\ Len(cmplQ') = n + 1 /\ cmplQ'[n + 1] = m /\ cmplQ' \in Seq(S)
      /\ \A i \in 1 .. n : cmplQ'[i] = cmplQ[i]
  BY <1>0, <1>2, AppendProperties
<1>5. n \in Nat /\ read \in Nat /\ read <= n /\ (cpc # "consume" => read = 0)
  BY <1>0, Entries DEF IInv, ClientInv
<1>6. \A i \in 1 .. n + 1 : i \in 1 .. n \/ (i = n + 1 /\ i > read)
  BY <1>5
<1>7. ClientTypeOK'
  BY <1>4 DEF IInv, TypeOK, ClientTypeOK, S
<1>8. ClientInv'
  BY <1>4, <1>5 DEF IInv, ClientInv
<1>9. CompletionsKnown'
  <2>1. ASSUME NEW i \in 1 .. n + 1
        PROVE  used[cmplQ'[i].id] /\ (complete[cmplQ'[i].id] <=> i <= read)
    <3>1. CASE i \in 1 .. n
      BY <1>0, <1>4, <3>1 DEF IInv, CompletionsHeld, CompletionsKnown
    <3>2. CASE i = n + 1 /\ ~ (i <= read)
      BY <1>3, <1>4, <3>2 DEF Outstanding
    <3> QED
      BY <1>5, <1>6, <3>1, <3>2
  <2>2. ASSUME NEW i \in 1 .. n + 1, NEW j \in 1 .. n + 1, cmplQ'[i].id = cmplQ'[j].id
        PROVE  i = j
    BY <1>0, <1>3, <1>4, <1>6, <2>2 DEF IInv, CompletionsHeld, CompletionsKnown
  <2> QED
    BY <1>4, <2>1, <2>2 DEF CompletionsKnown
<1>10. InCompletions(id)' /\ \A j \in Ids : InCompletions(j) => InCompletions(j)'
  <2>1. n + 1 \in 1 .. n + 1 /\ n + 1 > read /\ \A i \in 1 .. n : i \in 1 .. n + 1
    BY <1>5
  <2>2. InCompletions(id)'
    BY <1>3, <1>4, <2>1 DEF InCompletions
  <2>3. \A j \in Ids : InCompletions(j) => InCompletions(j)'
    BY <1>0, <1>4, <2>1 DEF InCompletions
  <2> QED
    BY <2>2, <2>3
<1>11. \A i \in 1 .. n + 1 : cmplQ'[i].id = id \/ \E k \in 1 .. n : cmplQ'[i] = cmplQ[k]
  BY <1>3, <1>4, <1>6
<1> QED
  BY <1>0, <1>1, <1>4, <1>7, <1>8, <1>9, <1>10, <1>11 DEF m

\* A callback's reply: the operation goes, its continuation becomes free.
LEMMA CallbackIInv ==
  ASSUME IInv, NEW op \in arrived, NEW s \in Statuses, Callback(op, s)
  PROVE  IInv'
<1>0. PICK id, c, k : id = requestId[op.cont] /\ c = op.cont /\ k = Len(freeConts)
  OBVIOUS
<1>1. /\ spc = "service" /\ arrived' = arrived \ {op} /\ freeConts' = <<c>> \o freeConts
      /\ Reply(id, s)
      /\ UNCHANGED <<used, complete, completion, command, cpc, read, cliNtfn, cmdQ, srvNtfn, spc,
                     ready, toConsume, done, ctx, requestId, inFlight, clientUp>>
  BY <1>0 DEF Callback, CallbackWith, clientVars, metaVars, loopVars
<1>2. /\ op \in Running /\ id \in Ids /\ c \in PoolEntries /\ k \in Nat /\ Outstanding(id)
      /\ \A i \in 1 .. Len(cmplQ) : cmplQ[i].id # id
      /\ \A o \in Running : o.cont = c \/ requestId[o.cont] = id => o = op
  <2>1. op \in Running
    BY DEF Running
  <2> QED
    BY <1>0, <2>1, Entries DEF IInv, OperationsHeld, CompletionsHeld
<1>3. /\ \A i \in 1 .. Len(cmplQ') : cmplQ'[i].id = id
                                     \/ \E j \in 1 .. Len(cmplQ) : cmplQ'[i] = cmplQ[j]
      /\ InCompletions(id)' /\ \A j \in Ids : InCompletions(j) => InCompletions(j)'
      /\ ClientTypeOK' /\ ClientInv' /\ CompletionsKnown' /\ telling' = TRUE
  BY <1>1, <1>2, ReplyFacts
<1>4. Running' = Running \ {op}
  BY <1>1 DEF IInv, OperationsHeld, Running
<1>5. /\ freeConts' \in Seq(PoolEntries) /\ Len(freeConts') = k + 1 /\ freeConts'[1] = c
      /\ \A i \in 1 .. k + 1 : i = 1 \/ (i - 1 \in 1 .. k /\ freeConts'[i] = freeConts[i - 1])
      /\ \A i \in 1 .. k : i + 1 \in 1 .. k + 1 /\ freeConts'[i + 1] = freeConts[i]
  <2>1. freeConts \in Seq(PoolEntries) /\ <<c>> \in Seq(PoolEntries) /\ Len(<<c>>) = 1 /\ <<c>>[1] = c
    BY <1>2 DEF IInv, TypeOK
  <2>2. /\ <<c>> \o freeConts \in Seq(PoolEntries) /\ Len(<<c>> \o freeConts) = 1 + k
        /\ \A i \in 1 .. 1 + k :
             (<<c>> \o freeConts)[i] = IF i <= 1 THEN <<c>>[i] ELSE freeConts[i - 1]
    BY <1>0, <2>1, ConcatProperties
  <2>3. /\ 1 \in 1 .. 1 + k
        /\ \A i \in 1 .. k + 1 : i \in 1 .. 1 + k /\ (i = 1 \/ (i - 1 \in 1 .. k /\ ~ (i <= 1)))
        /\ \A i \in 1 .. k : i + 1 \in 1 .. 1 + k /\ ~ (i + 1 <= 1) /\ (i + 1) - 1 = i
    BY <1>2
  <2> QED
    BY <1>1, <1>2, <2>1, <2>2, <2>3
<1>6. TypeOK'
  <2>1. arrived' \subseteq Ops /\ inFlight' \subseteq Ops
    BY <1>1 DEF IInv, TypeOK
  <2> QED
    BY <1>1, <1>3, <1>5, <2>1 DEF IInv, TypeOK
<1>7. LoopInv'
  BY <1>1 DEF IInv, LoopInv
<1>8. CommandsHeld'
  BY <1>1 DEF IInv, CommandsHeld, Outstanding
<1>9. OperationsHeld'
  BY <1>1, <1>4 DEF IInv, OperationsHeld, Outstanding
<1>10. CompletionsHeld'
  <2>1. \A i \in 1 .. Len(cmplQ'), j \in 1 .. Len(cmdQ) : j > done => cmplQ'[i].id # cmdQ[j].id
    BY <1>0, <1>2, <1>3 DEF IInv, CompletionsHeld, OperationsHeld
  <2>2. \A i \in 1 .. Len(cmplQ'), o \in Running' : cmplQ'[i].id # requestId[o.cont]
    BY <1>2, <1>3, <1>4 DEF IInv, CompletionsHeld
  <2> QED
    BY <1>1, <1>3, <2>1, <2>2 DEF CompletionsHeld
<1>11. SomewhereHeld'
  <2>1. \A j \in Ids : /\ InCommands(j) => InCommands(j)'
                       /\ InOperations(j) => InOperations(j)' \/ j = id
                       /\ Outstanding(j)' <=> Outstanding(j)
    BY <1>0, <1>1, <1>4 DEF InCommands, InOperations, Outstanding
  <2> QED
    BY <1>1, <1>3, <2>1 DEF IInv, SomewhereHeld
<1>12. PoolInv'
  <2>1. \A i, j \in 1 .. k + 1 : freeConts'[i] = freeConts'[j] => i = j
    <3>1. \A i \in 1 .. k : freeConts[i] # c
      BY <1>0, <1>2 DEF IInv, PoolInv
    <3>2. \A i, j \in 1 .. k + 1 : i - 1 = j - 1 => i = j
      BY <1>2
    <3> QED
      BY <1>0, <1>5, <3>1, <3>2 DEF IInv, PoolInv
  <2>2. \A o \in Running', i \in 1 .. k + 1 : freeConts'[i] # o.cont
    <3>1. \A o \in Running' : o \in Running /\ o.cont # c
      BY <1>2, <1>4
    <3>2. \A o \in Running, i \in 1 .. k : freeConts[i] # o.cont
      BY <1>0 DEF IInv, PoolInv
    <3> QED
      BY <1>5, <3>1, <3>2
  <2>3. \A d \in PoolEntries : \/ \E i \in 1 .. k + 1 : freeConts'[i] = d
                         \/ \E o \in Running' : o.cont = d
    <3>1. 1 \in 1 .. k + 1
      BY <1>2
    <3> QED
      BY <1>0, <1>4, <1>5, <3>1 DEF IInv, PoolInv
  <2> QED
    BY <1>5, <2>1, <2>2, <2>3 DEF PoolInv
<1> QED
  BY <1>3, <1>6, <1>7, <1>8, <1>9, <1>10, <1>11, <1>12 DEF IInv

-----------------------------------------------------------------------------
(* process_commands.                                                       *)

\* Where the loop stands when it turns to a command.
LEMMA ProcessingFacts ==
  ASSUME IInv, NEW class, Processing(class)
  PROVE  /\ spc = "process" /\ ~telling /\ done' = done + 1
         /\ done \in Nat /\ done + 1 \in 1 .. Len(cmdQ) /\ done + 1 <= toConsume
         /\ done + 1 > done /\ toConsume \in 0 .. Capacity
         /\ \A i \in 1 .. Len(cmdQ) : i > done <=> i > done + 1 \/ i = done + 1
         /\ Cmd.id \in Ids /\ Outstanding(Cmd.id) /\ Cmd = cmdQ[done + 1] /\ class \in Types
         /\ command[Cmd.id] = class
         /\ \A i \in 1 .. Len(cmdQ) : i > done + 1 => cmdQ[i].id # Cmd.id
         /\ \A op \in Running : requestId[op.cont] # Cmd.id
         /\ \A i \in 1 .. Len(cmplQ) : cmplQ[i].id # Cmd.id
<1>1. /\ spc = "process" /\ ~telling /\ done < toConsume /\ done' = done + 1
      /\ cmdQ[done + 1].type = class /\ Cmd = cmdQ[done + 1]
  BY DEF Processing, Cmd
<1>2. /\ done \in Nat /\ Len(cmdQ) \in Nat /\ toConsume \in Nat /\ toConsume <= Len(cmdQ)
      /\ toConsume \in 0 .. Capacity
  BY Entries DEF IInv, LoopInv, TypeOK
<1>3. /\ done + 1 \in 1 .. Len(cmdQ) /\ done + 1 <= toConsume /\ done + 1 > done
      /\ \A i \in 1 .. Len(cmdQ) : /\ i > done <=> i > done + 1 \/ i = done + 1
                                   /\ i > done + 1 => i # done + 1 /\ i > done
  BY <1>1, <1>2
<1>4. Cmd.id \in Ids /\ Outstanding(Cmd.id) /\ class \in Types /\ command[Cmd.id] = class
  BY <1>1, <1>3, Entries DEF IInv, CommandsHeld
<1>5. \A i \in 1 .. Len(cmdQ) : i > done + 1 => cmdQ[i].id # Cmd.id
  BY <1>1, <1>3 DEF IInv, CommandsHeld
<1>6. /\ \A op \in Running : requestId[op.cont] # Cmd.id
      /\ \A i \in 1 .. Len(cmplQ) : cmplQ[i].id # Cmd.id
  BY <1>1, <1>3 DEF IInv, OperationsHeld, CompletionsHeld
<1> QED
  BY <1>1, <1>2, <1>3, <1>4, <1>5, <1>6

\* Everything but the pool, the running operations and the request itself, when
\* the loop has dealt with a command.
LEMMA ProcessedIInv ==
  ASSUME IInv, NEW class, Processing(class),
         UNCHANGED <<used, complete, completion, command, cpc, read, cliNtfn, cmdQ, srvNtfn, spc,
                     toConsume>>
  PROVE  /\ LoopInv' /\ CommandsHeld'
         /\ done' \in 0 .. toConsume' /\ toConsume' \in 0 .. Capacity
         /\ \A id \in Ids : /\ InCommands(id) => InCommands(id)' \/ id = Cmd.id
                            /\ Outstanding(id)' <=> Outstanding(id)
<1>1. /\ spc = "process" /\ done' = done + 1 /\ done \in Nat /\ done + 1 <= toConsume
      /\ toConsume \in 0 .. Capacity /\ Capacity \in Nat /\ Cmd = cmdQ[done + 1]
      /\ \A i \in 1 .. Len(cmdQ) : i > done <=> i > done + 1 \/ i = done + 1
  BY ProcessingFacts, Parameters
<1>2. done' \in 0 .. toConsume'
  BY <1>1
<1>3. LoopInv'
  BY <1>1 DEF IInv, LoopInv
<1>4. CommandsHeld'
  BY <1>1 DEF IInv, CommandsHeld, Outstanding
<1>5. \A id \in Ids : /\ InCommands(id) => InCommands(id)' \/ id = Cmd.id
                      /\ Outstanding(id)' <=> Outstanding(id)
  BY <1>1 DEF InCommands, Outstanding
<1> QED
  BY <1>1, <1>2, <1>3, <1>4, <1>5

\* A command that is answered at once, whatever a continuation that stays free
\* has written to it.
LEMMA AnsweredIInv ==
  ASSUME IInv, NEW class, Processing(class), NEW s \in Statuses, Reply(Cmd.id, s),
         ctx' \in BOOLEAN,
         \/ requestId' = requestId
         \/ /\ freeConts # <<>>
            /\ requestId' = [requestId EXCEPT ![Head(freeConts)] = Cmd.id],
         UNCHANGED <<clientVars, cmdQ, srvNtfn, spc, ready, toConsume, freeConts, netVars, clientUp>>
  PROVE  IInv'
<1>0. PICK id : id = Cmd.id
  OBVIOUS
<1>1. /\ UNCHANGED <<used, complete, completion, command, cpc, read, cliNtfn, cmdQ, srvNtfn, spc,
                     ready, toConsume, freeConts, inFlight, arrived, clientUp>>
      /\ Running' = Running
  BY DEF clientVars, metaVars, netVars, Running
<1>2. /\ id \in Ids /\ Outstanding(id) /\ done' = done + 1 /\ done + 1 > done
      /\ \A i \in 1 .. Len(cmdQ) : i > done + 1 => i > done /\ cmdQ[i].id # id
      /\ \A op \in Running : requestId[op.cont] # id
      /\ \A i \in 1 .. Len(cmplQ) : cmplQ[i].id # id
  BY <1>0, ProcessingFacts
<1>3. /\ LoopInv' /\ CommandsHeld'
      /\ done' \in 0 .. toConsume' /\ toConsume' \in 0 .. Capacity
      /\ \A j \in Ids : /\ InCommands(j) => InCommands(j)' \/ j = id
                        /\ Outstanding(j)' <=> Outstanding(j)
  BY <1>0, <1>1, ProcessedIInv
<1>4. /\ \A i \in 1 .. Len(cmplQ') : cmplQ'[i].id = id
                                     \/ \E j \in 1 .. Len(cmplQ) : cmplQ'[i] = cmplQ[j]
      /\ InCompletions(id)' /\ \A j \in Ids : InCompletions(j) => InCompletions(j)'
      /\ ClientTypeOK' /\ ClientInv' /\ CompletionsKnown' /\ telling' = TRUE
  BY <1>0, <1>1, <1>2, ReplyFacts
<1>5. /\ requestId' \in [PoolEntries -> Ids]
      /\ \A op \in Running : requestId'[op.cont] = requestId[op.cont]
  <2>1. CASE requestId' = requestId
    BY <2>1 DEF IInv, TypeOK
  <2>2. CASE /\ freeConts # <<>>
             /\ requestId' = [requestId EXCEPT ![Head(freeConts)] = Cmd.id]
    <3>1. Len(freeConts) > 0 /\ Head(freeConts) = freeConts[1] /\ 1 \in 1 .. Len(freeConts)
      <4>1. freeConts \in Seq(PoolEntries) /\ freeConts # <<>>
        BY <2>2 DEF IInv, TypeOK
      <4>2. Len(freeConts) \in Nat /\ Len(freeConts) # 0 /\ Head(freeConts) = freeConts[1]
        BY <4>1, EmptySeq, LenProperties
      <4> QED
        BY <4>2
    <3>2. freeConts[1] \in PoolEntries /\ \A op \in Running : op.cont # freeConts[1]
      BY <3>1, Entries DEF IInv, PoolInv
    <3> QED
      BY <1>0, <1>2, <2>2, <3>1, <3>2, Entries DEF IInv, TypeOK
  <2> QED
    BY <2>1, <2>2
<1>6. TypeOK'
  BY <1>1, <1>3, <1>4, <1>5 DEF IInv, TypeOK
<1>7. OperationsHeld'
  <2>1. \A op \in Running : Outstanding(requestId[op.cont])'
    BY <1>1, <1>5 DEF IInv, OperationsHeld, Outstanding
  <2>2. \A op \in Running, i \in 1 .. Len(cmdQ) :
          i > done + 1 => cmdQ[i].id # requestId'[op.cont]
    BY <1>2, <1>5 DEF IInv, OperationsHeld
  <2>3. \A o, p \in Running :
          o.cont = p.cont \/ requestId'[o.cont] = requestId'[p.cont] => o = p
    BY <1>5 DEF IInv, OperationsHeld
  <2> QED
    BY <1>1, <1>2, <2>1, <2>2, <2>3 DEF IInv, OperationsHeld
<1>8. CompletionsHeld'
  <2>1. \A i \in 1 .. Len(cmplQ'), j \in 1 .. Len(cmdQ) :
          j > done + 1 => cmplQ'[i].id # cmdQ[j].id
    BY <1>2, <1>4 DEF IInv, CompletionsHeld
  <2>2. \A i \in 1 .. Len(cmplQ'), op \in Running : cmplQ'[i].id # requestId'[op.cont]
    BY <1>2, <1>4, <1>5 DEF IInv, CompletionsHeld
  <2> QED
    BY <1>1, <1>2, <1>4, <2>1, <2>2 DEF CompletionsHeld
<1>9. SomewhereHeld'
  <2>1. \A j \in Ids : InOperations(j) => InOperations(j)'
    BY <1>1, <1>5 DEF InOperations
  <2> QED
    BY <1>1, <1>3, <1>4, <2>1 DEF IInv, SomewhereHeld
<1>10. PoolInv'
  BY <1>1 DEF IInv, PoolInv
<1> QED
  BY <1>3, <1>4, <1>6, <1>7, <1>8, <1>9, <1>10 DEF IInv

\* A handler that starts a libnfs operation: the head of the free list carries it.
LEMMA StartIInv ==
  ASSUME IInv, NEW class \in Types, class \in Classes, class # "rmdir",
         Processing(class), Start(class), ctx' \in BOOLEAN
  PROVE  IInv'
<1>0. PICK id, c, k, new : /\ id = Cmd.id /\ c = Head(freeConts) /\ k = Len(freeConts)
                           /\ new = [cont |-> Head(freeConts), class |-> class]
  OBVIOUS
<1>1. /\ freeConts # <<>> /\ freeConts' = Tail(freeConts)
      /\ requestId' = [requestId EXCEPT ![c] = id] /\ inFlight' = inFlight \cup {new}
      /\ UNCHANGED <<used, complete, completion, command, cpc, read, cliNtfn, cmdQ, cmplQ, srvNtfn,
                     spc, ready, toConsume, arrived, telling, clientUp>>
  BY <1>0 DEF Start, clientVars, metaVars, sharedVars
<1>2. /\ id \in Ids /\ Outstanding(id) /\ done' = done + 1 /\ done + 1 > done
      /\ \A i \in 1 .. Len(cmdQ) : i > done + 1 => i > done /\ cmdQ[i].id # id
      /\ \A op \in Running : requestId[op.cont] # id
      /\ \A i \in 1 .. Len(cmplQ) : cmplQ[i].id # id
  BY <1>0, ProcessingFacts
<1>3. /\ LoopInv' /\ CommandsHeld'
      /\ done' \in 0 .. toConsume' /\ toConsume' \in 0 .. Capacity
      /\ \A j \in Ids : /\ InCommands(j) => InCommands(j)' \/ j = id
                        /\ Outstanding(j)' <=> Outstanding(j)
  BY <1>0, <1>1, ProcessedIInv
<1>4. /\ k \in Nat /\ 1 \in 1 .. k /\ c = freeConts[1] /\ freeConts' \in Seq(PoolEntries)
      /\ Len(freeConts') = k - 1
      /\ \A i \in 1 .. k - 1 : i + 1 \in 1 .. k /\ i + 1 # 1 /\ freeConts'[i] = freeConts[i + 1]
      /\ \A i \in 1 .. k : i = 1 \/ (i - 1 \in 1 .. k - 1 /\ freeConts'[i - 1] = freeConts[i])
      /\ \A i, j \in 1 .. k - 1 : i + 1 = j + 1 => i = j
  <2>1. freeConts \in Seq(PoolEntries) /\ freeConts # <<>>
    BY <1>1 DEF IInv, TypeOK
  <2>2. k \in Nat /\ k # 0 /\ c = freeConts[1]
    BY <1>0, <2>1, EmptySeq, LenProperties
  <2>3. /\ Tail(freeConts) \in Seq(PoolEntries) /\ Len(Tail(freeConts)) = k - 1
        /\ \A i \in 1 .. Len(Tail(freeConts)) : Tail(freeConts)[i] = freeConts[i + 1]
    BY <1>0, <2>1, HeadTailProperties
  <2>4. /\ \A i \in 1 .. k - 1 : i + 1 \in 1 .. k /\ i + 1 # 1
        /\ \A i \in 1 .. k : i = 1 \/ (i - 1 \in 1 .. k - 1 /\ (i - 1) + 1 = i)
        /\ \A i, j \in 1 .. k - 1 : i + 1 = j + 1 => i = j
        /\ 1 \in 1 .. k
    BY <2>2
  <2> QED
    BY <1>1, <2>2, <2>3, <2>4
<1>5. /\ c \in PoolEntries /\ \A op \in Running : op.cont # c
      /\ \A i \in 1 .. k : i # 1 => freeConts[i] # c
  BY <1>0, <1>4, Entries DEF IInv, PoolInv
<1>6. /\ new \in Ops /\ new.cont = c /\ new.class = class /\ new \notin Running
  BY <1>0, <1>5 DEF Ops
<1>7. Running' = Running \cup {new}
  BY <1>1 DEF Running
<1>8. /\ requestId' \in [PoolEntries -> Ids] /\ requestId'[c] = id
      /\ \A op \in Running : requestId'[op.cont] = requestId[op.cont]
  BY <1>1, <1>2, <1>5, Entries DEF IInv, TypeOK
<1>9. TypeOK'
  <2>1. ClientTypeOK'
    BY <1>1 DEF IInv, TypeOK, ClientTypeOK
  <2>2. inFlight' \subseteq Ops /\ arrived' \subseteq Ops
    BY <1>1, <1>6 DEF IInv, TypeOK
  <2> QED
    BY <1>1, <1>3, <1>4, <1>8, <2>1, <2>2 DEF IInv, TypeOK
<1>10. ClientInv'
  BY <1>1 DEF IInv, ClientInv
<1>11. OperationsHeld'
  <2>1. inFlight' \cap arrived' = {}
    BY <1>1, <1>6 DEF IInv, OperationsHeld, Running
  <2>2. \A op \in Running' : op.class # "rmdir" /\ Outstanding(requestId[op.cont])'
    BY <1>1, <1>2, <1>6, <1>7, <1>8 DEF IInv, OperationsHeld, Outstanding
  <2>3. \A o, p \in Running' :
          o.cont = p.cont \/ requestId'[o.cont] = requestId'[p.cont] => o = p
    BY <1>2, <1>5, <1>6, <1>7, <1>8 DEF IInv, OperationsHeld
  <2>4. \A op \in Running', i \in 1 .. Len(cmdQ) :
          i > done + 1 => cmdQ[i].id # requestId'[op.cont]
    BY <1>2, <1>6, <1>7, <1>8 DEF IInv, OperationsHeld
  <2> QED
    BY <1>1, <1>2, <2>1, <2>2, <2>3, <2>4 DEF OperationsHeld
<1>12. CompletionsHeld'
  <2>1. CompletionsKnown'
    BY <1>1 DEF IInv, CompletionsHeld, CompletionsKnown
  <2>2. \A i \in 1 .. Len(cmplQ), j \in 1 .. Len(cmdQ) :
          j > done + 1 => cmplQ[i].id # cmdQ[j].id
    BY <1>2 DEF IInv, CompletionsHeld
  <2>3. \A i \in 1 .. Len(cmplQ), op \in Running' : cmplQ[i].id # requestId'[op.cont]
    BY <1>2, <1>6, <1>7, <1>8 DEF IInv, CompletionsHeld
  <2> QED
    BY <1>1, <1>2, <2>1, <2>2, <2>3 DEF CompletionsHeld
<1>13. SomewhereHeld'
  <2>1. \A j \in Ids : InOperations(j) => InOperations(j)'
    BY <1>7, <1>8 DEF InOperations
  <2>2. InOperations(id)'
    BY <1>6, <1>7, <1>8 DEF InOperations
  <2>3. \A j \in Ids : InCompletions(j) => InCompletions(j)'
    BY <1>1 DEF InCompletions
  <2> QED
    BY <1>1, <1>3, <2>1, <2>2, <2>3 DEF IInv, SomewhereHeld
<1>14. PoolInv'
  <2>1. \A i, j \in 1 .. k - 1 : freeConts'[i] = freeConts'[j] => i = j
    BY <1>0, <1>4 DEF IInv, PoolInv
  <2>2. \A op \in Running', i \in 1 .. k - 1 : freeConts'[i] # op.cont
    <3>1. \A op \in Running, i \in 1 .. k : freeConts[i] # op.cont
      BY <1>0 DEF IInv, PoolInv
    <3>2. \A i \in 1 .. k - 1 : freeConts'[i] # c
      BY <1>4, <1>5
    <3> QED
      BY <1>4, <1>6, <1>7, <3>1, <3>2
  <2>3. \A d \in PoolEntries : \/ \E i \in 1 .. k - 1 : freeConts'[i] = d
                         \/ \E op \in Running' : op.cont = d
    <3> SUFFICES ASSUME NEW d \in PoolEntries
                 PROVE  \/ \E i \in 1 .. k - 1 : freeConts'[i] = d
                        \/ \E op \in Running' : op.cont = d
      OBVIOUS
    <3>1. CASE \E op \in Running : op.cont = d
      BY <1>7, <3>1
    <3>2. CASE \E i \in 1 .. k : freeConts[i] = d
      <4>1. PICK i \in 1 .. k : freeConts[i] = d
        BY <3>2
      <4>2. CASE i = 1
        BY <1>4, <1>6, <1>7, <4>1, <4>2
      <4>3. CASE i # 1
        BY <1>4, <4>1, <4>3
      <4> QED
        BY <4>2, <4>3
    <3> QED
      BY <1>0, <3>1, <3>2 DEF IInv, PoolInv
  <2> QED
    BY <1>4, <2>1, <2>2, <2>3 DEF PoolInv
<1> QED
  BY <1>3, <1>9, <1>10, <1>11, <1>12, <1>13, <1>14 DEF IInv

\* The consumption of all commands processed is published.
LEMMA ConsumptionIInv == ASSUME IInv, PublishConsumption PROVE IInv'
<1>0. PICK n, d : n = Len(cmdQ) /\ d = done
  OBVIOUS
<1>1. /\ spc = "process" /\ d = toConsume /\ cmdQ' = SubSeq(cmdQ, d + 1, n)
      /\ spc' = "wait" /\ toConsume' = 0 /\ done' = 0
      /\ UNCHANGED <<used, complete, completion, command, cpc, read, cliNtfn, cmplQ, srvNtfn,
                     ready, ctx, freeConts, requestId, inFlight, arrived, telling, clientUp>>
      /\ Running' = Running
  BY <1>0 DEF PublishConsumption, clientVars, metaVars, poolVars, netVars, Running
<1>2. /\ n \in Nat /\ d \in Nat /\ d <= n /\ n <= Capacity /\ Capacity \in Nat
  BY <1>0, <1>1, Entries, Parameters DEF IInv, LoopInv
<1> DEFINE S == [id : Ids, type : Types]
<1>3. cmdQ \in Seq(S) /\ d + 1 \in Int /\ n \in Int
  BY <1>2 DEF IInv, TypeOK, ClientTypeOK
<1> HIDE DEF S
<1>4. /\ cmdQ' \in Seq(S) /\ Len(cmdQ') = n - d
      /\ \A i \in 1 .. n - d : i + d \in 1 .. n /\ i + d > d /\ cmdQ'[i] = cmdQ[i + d]
      /\ \A i \in 1 .. n : i > d => i - d \in 1 .. n - d /\ i - d > 0 /\ cmdQ'[i - d] = cmdQ[i]
      /\ \A i, j \in 1 .. n - d : i + d = j + d => i = j
  <2>1. \A i \in d + 1 .. n : cmdQ[i] \in S
    <3>1. \A i \in d + 1 .. n : i \in 1 .. n
      BY <1>2
    <3> QED
      BY <1>0, <1>3, <3>1, ElementOfSeq
  <2>2. /\ SubSeq(cmdQ, d + 1, n) \in Seq(S)
        /\ Len(SubSeq(cmdQ, d + 1, n)) = n - d
        /\ \A i \in 1 .. n - d : SubSeq(cmdQ, d + 1, n)[i] = cmdQ[i + d]
    BY SMTT(30), <1>2, <1>3, <2>1, SubSeqProperties
  <2>3. /\ \A i \in 1 .. n - d : i + d \in 1 .. n /\ i + d > d
        /\ \A i \in 1 .. n : i > d => i - d \in 1 .. n - d /\ i - d > 0 /\ (i - d) + d = i
        /\ \A i, j \in 1 .. n - d : i + d = j + d => i = j
    BY <1>2
  <2> QED
    BY <1>1, <2>2, <2>3
<1>5. TypeOK'
  <2>1. ClientTypeOK'
    BY <1>1, <1>4 DEF IInv, TypeOK, ClientTypeOK, S
  <2>2. toConsume' \in 0 .. Capacity /\ done' \in 0 .. toConsume'
    BY <1>1, <1>2
  <2> QED
    BY <1>1, <2>1, <2>2 DEF IInv, TypeOK
<1>6. ClientInv'
  BY <1>1 DEF IInv, ClientInv
<1>7. LoopInv'
  BY <1>1, <1>2, <1>4 DEF LoopInv
<1>8. CommandsHeld'
  <2>1. \A i \in 1 .. n - d : Outstanding(cmdQ[i].id)' /\ command'[cmdQ'[i].id] = cmdQ'[i].type
    BY SMTT(30), <1>0, <1>1, <1>4 DEF IInv, CommandsHeld, Outstanding
  <2>2. \A i, j \in 1 .. n - d : cmdQ'[i].id = cmdQ'[j].id => i = j
    BY <1>0, <1>4 DEF IInv, CommandsHeld
  <2> QED
    BY <1>1, <1>4, <2>1, <2>2 DEF CommandsHeld
<1>9. OperationsHeld'
  <2>1. \A op \in Running, i \in 1 .. n - d : cmdQ'[i].id # requestId[op.cont]
    BY <1>0, <1>4 DEF IInv, OperationsHeld
  <2> QED
    BY <1>1, <1>4, <2>1 DEF IInv, OperationsHeld, Outstanding
<1>10. CompletionsHeld'
  <2>1. CompletionsKnown'
    BY <1>1 DEF IInv, CompletionsHeld, CompletionsKnown
  <2>2. \A i \in 1 .. Len(cmplQ), j \in 1 .. n - d : cmplQ[i].id # cmdQ'[j].id
    BY <1>0, <1>4 DEF IInv, CompletionsHeld
  <2> QED
    BY <1>1, <1>4, <2>1, <2>2 DEF IInv, CompletionsHeld
<1>11. SomewhereHeld'
  <2>1. \A id \in Ids : InCommands(id) => InCommands(id)'
    <3> SUFFICES ASSUME NEW id \in Ids, NEW i \in 1 .. n, i > d, cmdQ[i].id = id
                 PROVE  \E j \in 1 .. n - d : j > 0 /\ cmdQ'[j].id = id
      BY <1>0, <1>1, <1>4 DEF InCommands
    <3> QED
      BY <1>4
  <2>2. \A id \in Ids : /\ InOperations(id) => InOperations(id)'
                        /\ InCompletions(id) => InCompletions(id)'
                        /\ Outstanding(id)' <=> Outstanding(id)
    BY <1>1 DEF InOperations, InCompletions, Outstanding
  <2> QED
    BY <1>1, <2>1, <2>2 DEF IInv, SomewhereHeld
<1>12. PoolInv'
  BY <1>1 DEF IInv, PoolInv
<1> QED
  BY <1>5, <1>6, <1>7, <1>8, <1>9, <1>10, <1>11, <1>12 DEF IInv

-----------------------------------------------------------------------------
(* Counting the requests in their places.                                  *)

\* The completions and the commands that are not processed belong to different
\* requests, of which there are no more than completion slots.
LEMMA CompletionsFit == ASSUME IInv PROVE Len(cmplQ) <= Capacity
<1>1. IsFiniteSet(IdsOf(cmplQ)) /\ Cardinality(IdsOf(cmplQ)) = Len(cmplQ)
  BY IdsCount, Entries DEF IInv, CompletionsHeld, CompletionsKnown
<1>2. IdsOf(cmplQ) \subseteq Ids
  BY Entries DEF IInv, IdsOf
<1>3. Cardinality(IdsOf(cmplQ)) <= NIds
  BY <1>2, IdsFinite, FS_Subset
<1> QED
  BY <1>1, <1>3, ClientParameters, Entries DEF IInv

-----------------------------------------------------------------------------
(* The steps that move the loop, the network and the notifications.        *)

\* What the steps that touch no request preserve.
LEMMA QuietIInv ==
  ASSUME IInv,
         UNCHANGED <<used, complete, completion, command, cpc, read, cmdQ, cmplQ, done, freeConts,
                     requestId>>,
         Running' = Running, inFlight' \cap arrived' = {}
  PROVE  /\ ClientInv' /\ CommandsHeld' /\ OperationsHeld' /\ CompletionsHeld'
         /\ SomewhereHeld' /\ PoolInv'
<1>1. ClientInv' /\ PoolInv'
  BY DEF IInv, ClientInv, PoolInv
<1>2. CommandsHeld' /\ OperationsHeld' /\ CompletionsHeld'
  BY DEF IInv, CommandsHeld, OperationsHeld, CompletionsHeld, CompletionsKnown, Outstanding
<1>3. SomewhereHeld'
  BY DEF IInv, SomewhereHeld, InCommands, InOperations, InCompletions, Outstanding
<1> QED
  BY <1>1, <1>2, <1>3

LEMMA NotifiedIInv ==
  ASSUME IInv, NEW ch \in {"client", "timer", "net"}, Notified(ch)
  PROVE  IInv'
<1>1. /\ spc = "wait" /\ srvNtfn' = srvNtfn \ {ch}
      /\ spc' \in {"wait", "service", "count"}
      /\ UNCHANGED <<used, complete, completion, command, cpc, read, cliNtfn, cmdQ, cmplQ,
                     toConsume, done, ctx, freeConts, requestId, inFlight, arrived, telling,
                     clientUp>>
      /\ Running' = Running
  BY DEF Notified, clientVars, metaVars, poolVars, netVars, Running
<1>2. ready' \in BOOLEAN
  <2>1. ready' \in IF ch = "client" THEN {ready} ELSE {ready, TRUE}
    BY DEF Notified
  <2>2. ready \in BOOLEAN
    BY DEF IInv, TypeOK
  <2>3. CASE ch = "client"
    BY <2>1, <2>2, <2>3
  <2>4. CASE ch # "client"
    BY <2>1, <2>2, <2>4
  <2> QED
    BY <2>3, <2>4
<1>3. TypeOK'
  BY <1>1, <1>2 DEF IInv, TypeOK, ClientTypeOK
<1>4. LoopInv'
  BY <1>1 DEF IInv, LoopInv
<1>5. inFlight' \cap arrived' = {}
  BY <1>1 DEF IInv, OperationsHeld
<1> QED
  BY <1>1, <1>3, <1>4, <1>5, QuietIInv DEF IInv

LEMMA NotifyClientIInv == ASSUME IInv, NotifyClient PROVE IInv'
<1>1. /\ telling' = FALSE /\ cliNtfn' = TRUE
      /\ UNCHANGED <<used, complete, completion, command, cpc, read, cmdQ, cmplQ, srvNtfn, spc,
                     ready, toConsume, done, ctx, freeConts, requestId, inFlight, arrived, clientUp>>
      /\ Running' = Running
  BY DEF NotifyClient, metaVars, sharedVars, loopVars, poolVars, netVars, Running
<1>2. TypeOK'
  BY <1>1 DEF IInv, TypeOK, ClientTypeOK
<1>3. LoopInv' /\ inFlight' \cap arrived' = {}
  BY <1>1 DEF IInv, LoopInv, OperationsHeld
<1> QED
  BY <1>1, <1>2, <1>3, QuietIInv DEF IInv

LEMMA ServicedIInv == ASSUME IInv, Serviced PROVE IInv'
<1>1. /\ spc = "service" /\ spc' \in {"count", "wait"}
      /\ UNCHANGED <<used, complete, completion, command, cpc, read, cliNtfn, cmdQ, cmplQ, srvNtfn,
                     ready, toConsume, done, ctx, freeConts, requestId, inFlight, arrived,
                     telling, clientUp>>
      /\ Running' = Running
  BY DEF Serviced, clientVars, metaVars, sharedVars, poolVars, netVars, Running
<1>2. TypeOK'
  BY <1>1 DEF IInv, TypeOK, ClientTypeOK
<1>3. LoopInv' /\ inFlight' \cap arrived' = {}
  BY <1>1 DEF IInv, LoopInv, OperationsHeld
<1> QED
  BY <1>1, <1>2, <1>3, QuietIInv DEF IInv

LEMMA CountCommandsIInv == ASSUME IInv, CountCommands PROVE IInv'
<1>1. /\ spc = "count" /\ spc' = "space" /\ toConsume' = Len(cmdQ)
      /\ UNCHANGED <<used, complete, completion, command, cpc, read, cliNtfn, cmdQ, cmplQ, srvNtfn,
                     ready, done, ctx, freeConts, requestId, inFlight, arrived, telling, clientUp>>
      /\ Running' = Running
  BY DEF CountCommands, clientVars, metaVars, sharedVars, poolVars, netVars, Running
<1>2. done = 0 /\ Len(cmdQ) \in Nat /\ Len(cmdQ) <= Capacity /\ Capacity \in Nat
  BY <1>1, Entries, Parameters DEF IInv, LoopInv
<1>3. TypeOK'
  <2>1. toConsume' \in 0 .. Capacity /\ done' \in 0 .. toConsume'
    BY <1>1, <1>2
  <2> QED
    BY <1>1, <2>1 DEF IInv, TypeOK, ClientTypeOK
<1>4. LoopInv' /\ inFlight' \cap arrived' = {}
  BY <1>1, <1>2 DEF IInv, LoopInv, OperationsHeld
<1> QED
  BY <1>1, <1>3, <1>4, QuietIInv DEF IInv

LEMMA CountSpaceIInv == ASSUME IInv, CountSpace PROVE IInv'
<1>1. /\ spc = "space" /\ spc' = "process" /\ done' = 0
      /\ toConsume' = IF Capacity - Len(cmplQ) < toConsume THEN Capacity - Len(cmplQ) ELSE toConsume
      /\ UNCHANGED <<used, complete, completion, command, cpc, read, cliNtfn, cmdQ, cmplQ, srvNtfn,
                     ready, ctx, freeConts, requestId, inFlight, arrived, telling, clientUp>>
      /\ Running' = Running
  BY DEF CountSpace, clientVars, metaVars, sharedVars, poolVars, netVars, Running
<1>2. done = 0 /\ toConsume \in Nat /\ toConsume <= Len(cmdQ) /\ Len(cmdQ) <= Capacity
  BY <1>1, Entries DEF IInv, LoopInv
<1>3. Len(cmplQ) \in Nat /\ Len(cmplQ) <= Capacity /\ Capacity \in Nat /\ Len(cmdQ) \in Nat
  BY CompletionsFit, Entries, Parameters DEF IInv
<1>4. toConsume' \in Nat /\ toConsume' <= Len(cmdQ)
  BY <1>1, <1>2, <1>3
<1>5. TypeOK'
  <2>1. toConsume' \in 0 .. Capacity /\ done' \in 0 .. toConsume'
    BY <1>1, <1>2, <1>3, <1>4
  <2> QED
    BY <1>1, <2>1 DEF IInv, TypeOK, ClientTypeOK
<1>6. LoopInv' /\ inFlight' \cap arrived' = {}
  BY <1>1, <1>4 DEF IInv, LoopInv, OperationsHeld
<1>7. UNCHANGED done
  BY <1>1, <1>2
<1> QED
  BY <1>1, <1>5, <1>6, <1>7, QuietIInv DEF IInv

LEMMA AnswerIInv == ASSUME IInv, NEW op, Answer(op) PROVE IInv'
<1>1. /\ op \in inFlight /\ inFlight' = inFlight \ {op} /\ arrived' = arrived \cup {op}
      /\ UNCHANGED <<used, complete, completion, command, cpc, read, cliNtfn, cmdQ, cmplQ, srvNtfn,
                     spc, ready, toConsume, done, ctx, freeConts, requestId, telling, clientUp>>
  BY DEF Answer, clientVars, metaVars, sharedVars, loopVars, poolVars
<1>2. Running' = Running
  BY <1>1 DEF Running
<1>3. TypeOK'
  BY <1>1 DEF IInv, TypeOK, ClientTypeOK
<1>4. LoopInv' /\ inFlight' \cap arrived' = {}
  BY <1>1 DEF IInv, LoopInv, OperationsHeld
<1> QED
  BY <1>1, <1>2, <1>3, <1>4, QuietIInv DEF IInv

\* handle_deinitialise answers nothing: its request is in no place any more.
LEMMA DeinitialiseIInv == ASSUME IInv, ProcessDeinitialise PROVE IInv'
<1>0. PICK id : id = Cmd.id
  OBVIOUS
<1>1. /\ Processing("deinitialise")
      /\ UNCHANGED <<used, complete, completion, command, cpc, read, cliNtfn, cmdQ, cmplQ, srvNtfn,
                     spc, ready, toConsume, ctx, freeConts, requestId, inFlight, arrived,
                     telling, clientUp>>
      /\ Running' = Running
  BY DEF ProcessDeinitialise, clientVars, metaVars, sharedVars, poolVars, netVars, Running
<1>2. /\ id \in Ids /\ done' = done + 1 /\ done + 1 > done /\ command[id] = "deinitialise"
      /\ \A i \in 1 .. Len(cmdQ) : i > done + 1 => i > done
  BY <1>0, <1>1, ProcessingFacts
<1>3. /\ LoopInv' /\ CommandsHeld'
      /\ done' \in 0 .. toConsume' /\ toConsume' \in 0 .. Capacity
      /\ \A j \in Ids : /\ InCommands(j) => InCommands(j)' \/ j = id
                        /\ Outstanding(j)' <=> Outstanding(j)
  BY <1>0, <1>1, ProcessedIInv
<1>4. TypeOK'
  <2>1. ClientTypeOK'
    BY <1>1 DEF IInv, TypeOK, ClientTypeOK
  <2> QED
    BY <1>1, <1>3, <2>1 DEF IInv, TypeOK
<1>5. ClientInv' /\ PoolInv'
  BY <1>1 DEF IInv, ClientInv, PoolInv
<1>6. OperationsHeld' /\ CompletionsHeld'
  BY <1>1, <1>2 DEF IInv, OperationsHeld, CompletionsHeld, CompletionsKnown, Outstanding
<1>7. SomewhereHeld'
  <2>1. \A j \in Ids : /\ InOperations(j) => InOperations(j)'
                       /\ InCompletions(j) => InCompletions(j)'
    BY <1>1 DEF InOperations, InCompletions
  <2> QED
    BY <1>1, <1>2, <1>3, <2>1 DEF IInv, SomewhereHeld
<1> QED
  BY <1>3, <1>4, <1>5, <1>6, <1>7 DEF IInv

LEMMA ProcessIInvs == ASSUME Answering, IInv, Process PROVE IInv'
<1>1. /\ \A class : Processing(class) => class \in Types
      /\ Types \subseteq Classes /\ "ok" \in Statuses /\ "error" \in Statuses
      /\ "rmdir" \notin Types
  BY ProcessingFacts DEF Answering, NfsServerAssumption
<1>2. ASSUME NEW class, Processing(class), ctx' \in BOOLEAN, Refuse("error")
      PROVE  IInv'
  <2>1. /\ Reply(Cmd.id, "error")
        /\ \/ requestId' = requestId
           \/ /\ freeConts # <<>>
              /\ requestId' = [requestId EXCEPT ![Head(freeConts)] = Cmd.id]
        /\ UNCHANGED <<clientVars, cmdQ, srvNtfn, spc, ready, toConsume, freeConts, netVars,
                       clientUp>>
    BY <1>2 DEF Refuse
  <2> QED
    BY <1>1, <1>2, <2>1, AnsweredIInv
<1>3. ASSUME NEW s \in Statuses, NEW class, Processing(class), Reply(Cmd.id, s),
             UNCHANGED <<ctx, clientVars, cmdQ, srvNtfn, spc, ready, toConsume, poolVars, netVars,
                         clientUp>>
      PROVE  IInv'
  <2>1. /\ requestId' = requestId /\ ctx' \in BOOLEAN
        /\ UNCHANGED <<clientVars, cmdQ, srvNtfn, spc, ready, toConsume, freeConts, netVars,
                       clientUp>>
    BY <1>3 DEF poolVars, IInv, TypeOK
  <2> QED
    BY <1>3, <2>1, AnsweredIInv
<1>4. CASE ProcessInitialise
  <2>1. Processing("initialise") /\ ctx' \in BOOLEAN
    BY <1>4 DEF ProcessInitialise
  <2>2. CASE Start("initialise")
    BY <1>1, <2>1, <2>2, StartIInv DEF Classes
  <2>3. CASE Refuse("error")
    BY <1>2, <2>1, <2>3
  <2> QED
    BY <1>4, <2>2, <2>3 DEF ProcessInitialise
<1>5. ASSUME NEW class \in {"async", "rmdir"}, ProcessAsync(class)
      PROVE  IInv'
  <2>1. Processing(class) /\ ctx' \in BOOLEAN /\ class \in Types /\ class \in Classes
        /\ class # "rmdir"
    BY <1>1, <1>5 DEF ProcessAsync, IInv, TypeOK
  <2>2. CASE Start(class)
    BY <2>1, <2>2, StartIInv
  <2>3. CASE Refuse("error")
    BY <1>2, <2>1, <2>3
  <2> QED
    BY <1>5, <2>2, <2>3 DEF ProcessAsync
<1>6. CASE ProcessSync
  BY <1>3, <1>6 DEF ProcessSync
<1> QED
  BY <1>4, <1>5, <1>6, DeinitialiseIInv, CountCommandsIInv, CountSpaceIInv, ConsumptionIInv DEF Process

LEMMA NextIInv == ASSUME Answering, IInv, [Next]_vars PROVE IInv'
<1>1. CASE ClientSends
  BY <1>1, SendsIInv DEF ClientSends
<1>2. CASE ClientLearns
  BY <1>2, ProcessIInv
<1>3. CASE ClientRest
  BY <1>3, FailsIInv, NotifyIInv, ConsumeIInv, FreeIInv DEF ClientRest
<1>4. CASE Service
  <2>1. ASSUME NEW op \in arrived, NEW s \in Statuses, RmdirCallback(op, s)
        PROVE  FALSE
    <3>1. op \in Running /\ op.class = "rmdir"
      BY <2>1 DEF RmdirCallback, Running
    <3> QED
      BY <3>1 DEF IInv, OperationsHeld
  <2> QED
    BY <1>4, <2>1, CallbackIInv, ServicedIInv DEF Service
<1>5. CASE Process
  BY <1>5, ProcessIInvs
<1>6. CASE NotifyClient \/ \E ch \in {"client", "timer", "net"} : Notified(ch)
  BY <1>6, NotifyClientIInv, NotifiedIInv
<1>7. CASE \E op \in inFlight : Answer(op)
  BY <1>7, AnswerIInv
<1>8. CASE UNCHANGED vars
  <2>1. UNCHANGED <<used, complete, completion, command, cpc, read, cliNtfn, cmdQ, cmplQ, srvNtfn,
                    spc, ready, toConsume, done, ctx, freeConts, requestId, inFlight, arrived,
                    telling, clientUp>>
    BY <1>8 DEF vars, clientVars, metaVars, sharedVars, serverVars, loopVars, poolVars, netVars
  <2>2. TypeOK'
    BY <2>1 DEF IInv, TypeOK, ClientTypeOK
  <2>3. LoopInv' /\ inFlight' \cap arrived' = {} /\ Running' = Running
    BY <2>1 DEF IInv, LoopInv, OperationsHeld, Running
  <2> QED
    BY <2>1, <2>2, <2>3, QuietIInv DEF IInv
<1> QED
  BY <1>1, <1>2, <1>3, <1>4, <1>5, <1>6, <1>7, <1>8 DEF Next, Server

\* The invariant on which the theorems below rest holds throughout.
THEOREM NfsServerInvariance == ASSUME Answering PROVE Spec => []IInv
<1>1. Init => IInv
  BY InitIInv DEF Answering
<1>2. IInv /\ [Next]_vars => IInv'
  BY NextIInv
<1> QED
  BY <1>1, <1>2, PTL DEF Spec

\* The state of client, loop and pool keeps its ranges, for any bounds.
THEOREM NfsServerTypeCorrect == ASSUME Answering PROVE Spec => []TypeOK
<1>1. IInv => TypeOK
  BY DEF IInv
<1> QED
  BY <1>1, NfsServerInvariance, PTL

-----------------------------------------------------------------------------
(* Where a request is.                                                     *)

LEMMA IInvHeldOnce == ASSUME IInv PROVE EachRequestHeldOnce
<1> SUFFICES ASSUME NEW id \in Ids
             PROVE  /\ Holders(id) # {} => Outstanding(id)
                    /\ Outstanding(id) /\ command[id] # "deinitialise" => Holders(id) # {}
                    /\ Cardinality(Holders(id)) <= 1
  BY DEF EachRequestHeldOnce
<1> DEFINE C == {j \in 1 .. Len(cmdQ) : j > done /\ cmdQ[j].id = id}
           P == {o \in inFlight \cup arrived : requestId[o.cont] = id}
           M == {j \in 1 .. Len(cmplQ) : j > read /\ cmplQ[j].id = id}
<1>1. Holders(id) = {<<"command", i>> : i \in C} \cup {<<"operation", op>> : op \in P}
                    \cup {<<"completion", i>> : i \in M}
  BY DEF Holders
<1>2. /\ C # {} => Outstanding(id)
      /\ P # {} => Outstanding(id)
      /\ M # {} => Outstanding(id)
  <2>1. C # {} => Outstanding(id)
    BY DEF IInv, CommandsHeld
  <2>2. P # {} => Outstanding(id)
    BY DEF IInv, OperationsHeld, Running
  <2>3. M # {} => Outstanding(id)
    BY Entries DEF IInv, CompletionsHeld, CompletionsKnown, Outstanding
  <2> QED
    BY <2>1, <2>2, <2>3
<1>3. Outstanding(id) /\ command[id] # "deinitialise" => C # {} \/ P # {} \/ M # {}
  BY DEF IInv, SomewhereHeld, InCommands, InOperations, InCompletions, Running
<1>4. /\ \A i, j \in C : i = j
      /\ \A o, p \in P : o = p
      /\ \A i, j \in M : i = j
  BY DEF IInv, CommandsHeld, OperationsHeld, CompletionsHeld, CompletionsKnown, Running
<1>5. (C = {} \/ P = {}) /\ (C = {} \/ M = {}) /\ (P = {} \/ M = {})
  BY DEF IInv, OperationsHeld, CompletionsHeld, Running
<1> HIDE DEF C, P, M
<1>6. /\ Holders(id) # {} => Outstanding(id)
      /\ Outstanding(id) /\ command[id] # "deinitialise" => Holders(id) # {}
  BY <1>1, <1>2, <1>3
<1>7. \A x, y \in Holders(id) : x = y
  BY <1>1, <1>4, <1>5
<1> QED
  BY <1>6, <1>7, AtMostOne

\* Each request is in exactly one place, whatever libnfs keeps and for how long:
\* a command that process_commands has not reached, an operation, or a
\* completion that its client has not read.  Only deinitialise drops its own.
THEOREM NfsRequestHeldOnce == ASSUME Answering PROVE Spec => []EachRequestHeldOnce
BY IInvHeldOnce, NfsServerInvariance, PTL

-----------------------------------------------------------------------------
(* Room.                                                                   *)

LEMMA OperationsFinite ==
  ASSUME IInv
  PROVE  IsFiniteSet(Running) /\ Cardinality(Running) \in Nat
<1> DEFINE f == [op \in Running |-> op.cont]
<1>1. IsFiniteSet(PoolEntries)
  BY FS_Interval, Parameters DEF PoolEntries
<1>2. f \in Injection(Running, PoolEntries)
  BY Entries DEF IInv, OperationsHeld, Injection, IsInjective
<1>3. IsFiniteSet(Running)
  BY <1>1, <1>2, FS_Injection
<1> QED
  BY <1>3, FS_CardinalityType

LEMMA IInvReplyRoom == ASSUME IInv PROVE ReplyHasRoom
<1> DEFINE A == IdsOf(cmplQ)
           P == {requestId[op.cont] : op \in Running}
           D == done + 1 .. toConsume
           B == {cmdQ[i].id : i \in D}
<1>1. /\ Len(cmplQ) \in Nat /\ done \in Nat /\ toConsume \in Nat /\ done <= toConsume
      /\ toConsume <= Len(cmdQ) /\ Len(cmdQ) \in Nat /\ NIds <= Capacity /\ NIds \in Nat
      /\ Capacity \in Nat
  BY Entries, ClientParameters DEF IInv, LoopInv
<1>2. Cardinality(A) = Len(cmplQ)
  BY IdsCount, Entries DEF IInv, CompletionsHeld, CompletionsKnown
<1>3. Cardinality(P) = Cardinality(Running) /\ Cardinality(Running) \in Nat
  <2>1. IsFiniteSet(Running) /\ Cardinality(Running) \in Nat
    BY OperationsFinite
  <2> DEFINE f == [op \in Running |-> requestId[op.cont]]
  <2>2. \A o, p \in Running : f[o] = f[p] => o = p
    BY DEF IInv, OperationsHeld
  <2>3. P = {f[op] : op \in Running}
    OBVIOUS
  <2> HIDE DEF f, P
  <2>4. Cardinality({f[op] : op \in Running}) = Cardinality(Running)
    BY <2>1, <2>2, DistinctCount
  <2> QED
    BY <2>1, <2>3, <2>4
<1>4. Cardinality(B) = toConsume - done
  <2>1. IsFiniteSet(D) /\ Cardinality(D) = toConsume - done
    <3>1. /\ IsFiniteSet(done + 1 .. toConsume)
          /\ Cardinality(done + 1 .. toConsume)
               = IF done + 1 > toConsume THEN 0 ELSE toConsume - (done + 1) + 1
      BY <1>1, done + 1 \in Int, toConsume \in Int, FS_Interval
    <3> QED
      BY <1>1, <3>1
  <2>2. \A i \in D : i \in 1 .. Len(cmdQ) /\ i > done
    BY <1>1
  <2> DEFINE f == [i \in D |-> cmdQ[i].id]
  <2>3. \A i, j \in D : f[i] = f[j] => i = j
    BY <2>2 DEF IInv, CommandsHeld
  <2>4. B = {f[i] : i \in D}
    OBVIOUS
  <2> HIDE DEF f, B, D
  <2>5. Cardinality({f[i] : i \in D}) = Cardinality(D)
    BY <2>1, <2>3, DistinctCount
  <2> QED
    BY <2>1, <2>4, <2>5
<1>5. \A i \in D : i \in 1 .. Len(cmdQ) /\ i > done
  BY <1>1
<1>6. A \subseteq Ids /\ B \subseteq Ids /\ P \subseteq Ids
  BY <1>5, Entries DEF IInv, IdsOf
<1>7. A \cap P = {} /\ A \cap B = {} /\ P \cap B = {}
  BY <1>5 DEF IInv, OperationsHeld, CompletionsHeld, IdsOf
<1> HIDE DEF A, B, D, P
<1>8. /\ Cardinality(A \cup P) = Cardinality(A) + Cardinality(P)
      /\ A \cup P \subseteq Ids /\ (A \cup P) \cap B = {}
  BY <1>6, <1>7, DisjointCount
<1>9. /\ Cardinality((A \cup P) \cup B) <= NIds
      /\ Cardinality((A \cup P) \cup B) = Cardinality(A \cup P) + Cardinality(B)
  BY <1>6, <1>8, DisjointCount
<1>10. Len(cmplQ) + Cardinality(Running) + toConsume - done <= NIds
  BY <1>1, <1>2, <1>3, <1>4, <1>8, <1>9
<1> QED
  BY <1>1, <1>3, <1>10 DEF ReplyHasRoom, Running

\* The assert of reply holds for the commands counted and for every operation
\* an earlier call of process_commands has started, which it does not count.
THEOREM RoomForReplies == ASSUME Answering PROVE Spec => []ReplyHasRoom
BY IInvReplyRoom, NfsServerInvariance, PTL

\* The commands not handled belong to different requests, all of them in use.
LEMMA IInvUnhandledRoom == ASSUME IInv PROVE UnhandledCommandsLeaveRoom
<1> SUFFICES ASSUME FreeIds # {} PROVE Len(cmdQ) - done < Capacity
  BY DEF UnhandledCommandsLeaveRoom
<1> DEFINE D == done + 1 .. Len(cmdQ)
           f == [i \in D |-> cmdQ[i].id]
           B == {f[i] : i \in D}
<1>1. /\ done \in Nat /\ Len(cmdQ) \in Nat /\ done <= Len(cmdQ)
      /\ NIds \in Nat /\ NIds <= Capacity /\ Capacity \in Nat
  BY Entries, ClientParameters DEF IInv, LoopInv
<1>2. PICK id \in Ids : ~used[id]
  BY DEF FreeIds
<1>3. \A i \in D : i \in 1 .. Len(cmdQ) /\ i > done
  BY <1>1
<1>4. IsFiniteSet(D) /\ Cardinality(D) = Len(cmdQ) - done
  <2>1. /\ IsFiniteSet(done + 1 .. Len(cmdQ))
        /\ Cardinality(done + 1 .. Len(cmdQ))
             = IF done + 1 > Len(cmdQ) THEN 0 ELSE Len(cmdQ) - (done + 1) + 1
    BY <1>1, done + 1 \in Int, Len(cmdQ) \in Int, FS_Interval
  <2> QED
    BY <1>1, <2>1
<1>5. B \subseteq Ids \ {id}
  BY <1>2, <1>3, Entries DEF IInv, CommandsHeld, Outstanding
<1>6. \A i, j \in D : f[i] = f[j] => i = j
  BY <1>3 DEF IInv, CommandsHeld
<1> HIDE DEF D, f
<1>7. Cardinality(B) = Len(cmdQ) - done
  BY <1>4, <1>6, DistinctCount
<1>8. IsFiniteSet(Ids \ {id}) /\ Cardinality(Ids \ {id}) = NIds - 1
  BY IdsFinite, FS_RemoveElement
<1>9. Cardinality(B) <= NIds - 1
  BY <1>5, <1>8, FS_Subset
<1> QED
  BY <1>1, <1>7, <1>9

-----------------------------------------------------------------------------
(* The continuation pool.                                                  *)

LEMMA IInvConserved == ASSUME IInv PROVE ContinuationsConserved
<1> DEFINE D == 1 .. Len(freeConts)
           F == {freeConts[i] : i \in D}
           P == {op.cont : op \in Running}
<1>1. Len(freeConts) \in Nat
  BY Entries DEF IInv
<1>2. IsFiniteSet(F) /\ Cardinality(F) = Len(freeConts)
  <2>1. IsFiniteSet(D) /\ Cardinality(D) = Len(freeConts)
    <3>1. /\ IsFiniteSet(1 .. Len(freeConts))
          /\ Cardinality(1 .. Len(freeConts))
               = IF 1 > Len(freeConts) THEN 0 ELSE Len(freeConts) - 1 + 1
      BY <1>1, 1 \in Int, Len(freeConts) \in Int, FS_Interval
    <3> QED
      BY <1>1, <3>1
  <2>2. \A i, j \in D : freeConts[i] = freeConts[j] => i = j
    BY DEF IInv, PoolInv
  <2> HIDE DEF D
  <2> QED
    BY <2>1, <2>2, DistinctCount
<1>3. IsFiniteSet(P) /\ Cardinality(P) = Cardinality(Running)
  <2>1. IsFiniteSet(Running)
    BY OperationsFinite
  <2> DEFINE f == [op \in Running |-> op.cont]
  <2>2. \A o, p \in Running : f[o] = f[p] => o = p
    BY DEF IInv, OperationsHeld
  <2>3. P = {f[op] : op \in Running}
    OBVIOUS
  <2> HIDE DEF f, P
  <2>4. IsFiniteSet({f[op] : op \in Running}) /\ Cardinality({f[op] : op \in Running}) = Cardinality(Running)
    BY <2>1, <2>2, DistinctCount
  <2> QED
    BY <2>3, <2>4
<1>4. F \cap P = {} /\ F \cup P = PoolEntries
  BY Entries DEF IInv, PoolInv
<1>5. Cardinality(PoolEntries) = Capacity
  BY FS_Interval, Parameters DEF PoolEntries
<1> HIDE DEF F, P
<1>6. Cardinality(F \cup P) = Cardinality(F) + Cardinality(P) - Cardinality(F \cap P)
  BY <1>2, <1>3, FS_Union
<1>7. Cardinality(F \cap P) = 0
  BY <1>4, FS_EmptySet
<1>8. Cardinality(Running) \in Nat
  BY OperationsFinite
<1>9. Len(freeConts) + Cardinality(Running) = Capacity
  <2>1. Cardinality(F \cup P) = Capacity
    BY <1>4, <1>5
  <2>2. Capacity = Len(freeConts) + Cardinality(Running) - 0
    BY <1>2, <1>3, <1>6, <1>7, <2>1
  <2> QED
    BY <1>1, <1>8, <2>2
<1> QED
  BY <1>9 DEF ContinuationsConserved, Running

LEMMA IInvExclusive == ASSUME IInv PROVE ContinuationsExclusive
<1>1. freeConts \in Seq(PoolEntries)
  BY DEF IInv, TypeOK
<1>2. /\ DOMAIN freeConts = 1 .. Len(freeConts)
      /\ Range(freeConts) = {freeConts[i] : i \in 1 .. Len(freeConts)}
  BY <1>1, LenProperties, RangeEquality
<1> QED
  BY <1>2 DEF ContinuationsExclusive, IInv, PoolInv, OperationsHeld, Running

\* libnfs answers in any order and as late as it likes, and yet no continuation
\* is lost, free twice or carrying two operations, so continuation_alloc finds
\* one whenever fewer than Capacity operations are running.
THEOREM PoolAccounted ==
  ASSUME Answering
  PROVE  Spec => [](ContinuationsConserved /\ ContinuationsExclusive)
BY IInvConserved, IInvExclusive, NfsServerInvariance, PTL

\* The asserts after continuation_alloc cannot fire: the command the handler works
\* on is a request of its own, so fewer than Capacity operations are running.
THEOREM AllocationSucceeds == ASSUME Answering PROVE Spec => []ContinuationAvailable
<1>1. ASSUME IInv, spc = "process", done < toConsume
      PROVE  freeConts # <<>>
  <2>1. /\ Len(cmplQ) + Cardinality(Running) + toConsume - done <= Capacity
        /\ Len(freeConts) + Cardinality(Running) = Capacity
    BY <1>1, IInvReplyRoom, IInvConserved DEF ReplyHasRoom, ContinuationsConserved, Running
  <2>2. /\ Len(cmplQ) \in Nat /\ Len(freeConts) \in Nat /\ toConsume \in Nat /\ done \in Nat
        /\ Cardinality(Running) \in Nat /\ Capacity \in Nat
    BY <1>1, Entries, Parameters, OperationsFinite DEF IInv
  <2>3. Len(freeConts) > 0
    BY <1>1, <2>1, <2>2
  <2> QED
    BY <2>3
<1>2. IInv => ContinuationAvailable
  BY <1>1 DEF ContinuationAvailable
<1> QED
  BY <1>2, NfsServerInvariance, PTL

-----------------------------------------------------------------------------
(* The server keeps the promise of FsService.                              *)

RepliesTo(id) == {cmplQ[i] : i \in {j \in 1 .. Len(cmplQ) : cmplQ[j].id = id}}
Req == [id \in Ids |-> Stage(id)]

LEMMA OnlyChoice == ASSUME NEW x PROVE (CHOOSE m \in {x} : TRUE) = x
OBVIOUS

LEMMA StageDef ==
  ASSUME IInv, NEW id \in Ids
  PROVE  Stage(id) = IF ~used[id] THEN [at |-> "free"]
                     ELSE IF complete[id] THEN [at |-> "complete", status |-> completion[id]]
                     ELSE IF RepliesTo(id) = {} THEN [at |-> "pending"]
                     ELSE [at |-> "executed", status |-> (CHOOSE m \in RepliesTo(id) : TRUE).status]
<1>1. cmplQ \in Seq([id : Ids, status : Statuses])
  BY DEF IInv, TypeOK, ClientTypeOK
<1>2. {m \in Range(cmplQ) : m.id = id} = RepliesTo(id)
  BY <1>1, RangeEquality DEF RepliesTo
<1> QED
  BY <1>2 DEF Stage

\* A completion of a request decides its stage: there is no other.
LEMMA StageExecuted ==
  ASSUME IInv, NEW i \in 1 .. Len(cmplQ), ~complete[cmplQ[i].id]
  PROVE  Stage(cmplQ[i].id) = [at |-> "executed", status |-> cmplQ[i].status]
<1>0. PICK id \in Ids : id = cmplQ[i].id
  BY Entries DEF IInv
<1>1. RepliesTo(id) = {cmplQ[i]}
  BY <1>0 DEF RepliesTo, IInv, CompletionsHeld, CompletionsKnown
<1>2. (CHOOSE m \in {cmplQ[i]} : TRUE) = cmplQ[i]
  BY OnlyChoice
<1>3. used[id] /\ ~complete[id]
  BY <1>0 DEF IInv, CompletionsHeld, CompletionsKnown
<1> QED
  BY <1>0, <1>1, <1>2, <1>3, StageDef

\* A request keeps its stage when the client's records of it stay and, if they
\* matter, its replies.
LEMMA StageKept ==
  ASSUME IInv, IInv', NEW id \in Ids,
         used'[id] = used[id], complete'[id] = complete[id], completion'[id] = completion[id],
         ~used[id] \/ complete[id] \/ RepliesTo(id)' = RepliesTo(id)
  PROVE  Stage(id)' = Stage(id)
<1>1. Stage(id)' = IF ~used'[id] THEN [at |-> "free"]
                   ELSE IF complete'[id] THEN [at |-> "complete", status |-> completion'[id]]
                   ELSE IF RepliesTo(id)' = {} THEN [at |-> "pending"]
                   ELSE [at |-> "executed", status |-> (CHOOSE m \in RepliesTo(id)' : TRUE).status]
  <2>1. cmplQ' \in Seq([id : Ids, status : Statuses])
    BY DEF IInv, TypeOK, ClientTypeOK
  <2>2. Range(cmplQ') = {cmplQ'[i] : i \in 1 .. Len(cmplQ')}
    BY <2>1, RangeEquality
  <2>3. {m \in Range(cmplQ') : m.id = id} = RepliesTo(id)'
    BY <2>2 DEF RepliesTo
  <2> QED
    BY <2>3 DEF Stage
<1> QED
  BY <1>1, StageDef

LEMMA ReqKept ==
  ASSUME \A id \in Ids : Stage(id)' = Stage(id)
  PROVE  Req' = Req
BY DEF Req

LEMMA InitReq == ASSUME Init PROVE Promise!Init
BY DEF Init, ClientInit, Promise!Init, Promise!Idle, Stage

\* A reply executes its request: there was none before.
LEMMA ReplyReq ==
  ASSUME IInv, IInv', NEW id \in Ids, NEW status \in Statuses, Reply(id, status), Outstanding(id),
         \A i \in 1 .. Len(cmplQ) : cmplQ[i].id # id,
         UNCHANGED <<used, complete, completion, command, cpc, read, cliNtfn, cmdQ>>
  PROVE  Promise!Next
<1>0. PICK n : n = Len(cmplQ) /\ n \in Nat
  BY Entries DEF IInv
<1>1. /\ Len(cmplQ') = n + 1 /\ cmplQ'[n + 1] = [id |-> id, status |-> status]
      /\ \A i \in 1 .. n : cmplQ'[i] = cmplQ[i]
  BY <1>0, ReplyFacts
<1>2. \A i \in 1 .. n + 1 : i \in 1 .. n \/ i = n + 1
  BY <1>0
<1>3. n + 1 \in 1 .. n + 1 /\ \A i \in 1 .. n : i \in 1 .. n + 1
  BY <1>0
<1>4. RepliesTo(id) = {} /\ RepliesTo(id)' = {[id |-> id, status |-> status]}
  <2>1. RepliesTo(id) = {}
    BY DEF RepliesTo
  <2>2. \A i \in 1 .. n + 1 : cmplQ'[i].id = id <=> i = n + 1
    BY <1>0, <1>1, <1>2
  <2>3. {i \in 1 .. n + 1 : cmplQ'[i].id = id} = {n + 1}
    BY <1>3, <2>2
  <2>4. RepliesTo(id)' = {cmplQ'[i] : i \in {n + 1}}
    BY <1>1, <2>3 DEF RepliesTo
  <2> QED
    BY <1>1, <2>1, <2>4
<1>5. ASSUME NEW j \in Ids, j # id PROVE Stage(j)' = Stage(j)
  <2>1. {i \in 1 .. n + 1 : cmplQ'[i].id = j} = {i \in 1 .. n : cmplQ[i].id = j}
    BY <1>1, <1>2, <1>3, <1>5
  <2>2. RepliesTo(j)' = RepliesTo(j)
    BY <1>0, <1>1, <2>1 DEF RepliesTo
  <2> QED
    BY <2>2, StageKept
<1>6. Stage(id) = [at |-> "pending"]
  BY <1>4, StageDef DEF Outstanding
<1>7. Stage(id)' = [at |-> "executed", status |-> status]
  <2>1. {m \in Range(cmplQ') : m.id = id} = RepliesTo(id)'
    <3>1. cmplQ' \in Seq([id : Ids, status : Statuses])
      BY DEF IInv, TypeOK, ClientTypeOK
    <3>2. Range(cmplQ') = {cmplQ'[i] : i \in 1 .. Len(cmplQ')}
      BY <3>1, RangeEquality
    <3> QED
      BY <3>2 DEF RepliesTo
  <2>2. (CHOOSE m \in {[id |-> id, status |-> status]} : TRUE).status = status
    <3>1. (CHOOSE m \in {[id |-> id, status |-> status]} : TRUE) = [id |-> id, status |-> status]
      BY OnlyChoice
    <3> QED
      BY <3>1
  <2>3. used'[id] /\ ~complete'[id]
    BY DEF Outstanding
  <2>4. Stage(id)' = [at |-> "executed",
                      status |-> (CHOOSE m \in {m \in Range(cmplQ') : m.id = id} : TRUE).status]
    BY <1>4, <2>1, <2>3 DEF Stage
  <2> QED
    BY <1>4, <2>1, <2>2, <2>4
<1>8. Promise!Execute(id, status)
  BY <1>5, <1>6, <1>7 DEF Promise!Execute, Promise!Pending, Promise!Executed
<1> QED
  BY <1>8 DEF Promise!Next

LEMMA IssueReq ==
  ASSUME IInv, IInv', NEW type \in Types, ClientIssue(type)
  PROVE  Promise!Next
<1>1. PICK id \in Ids :
        /\ ~used[id] /\ ~complete[id] /\ used' = [used EXCEPT ![id] = TRUE]
        /\ UNCHANGED <<complete, completion, cmplQ>>
  BY IssueFacts DEF IInv, TypeOK
<1>2. \A j \in Ids : RepliesTo(j)' = RepliesTo(j)
  BY <1>1 DEF RepliesTo
<1>3. RepliesTo(id) = {}
  BY <1>1 DEF RepliesTo, IInv, CompletionsHeld, CompletionsKnown
<1>4. used'[id] /\ ~complete'[id] /\ \A j \in Ids : j # id => used'[j] = used[j]
  BY <1>1 DEF IInv, TypeOK, ClientTypeOK
<1>5. Stage(id) = [at |-> "free"]
  BY <1>1 DEF Stage
<1>6. Stage(id)' = [at |-> "pending"]
  <2>1. {m \in Range(cmplQ) : m.id = id} = {}
    <3>1. cmplQ \in Seq([id : Ids, status : Statuses])
      BY DEF IInv, TypeOK, ClientTypeOK
    <3> QED
      BY <1>3, <3>1, RangeEquality DEF RepliesTo
  <2> QED
    BY <1>1, <1>4, <2>1 DEF Stage
<1>7. \A j \in Ids : j # id => Stage(j)' = Stage(j)
  BY <1>1, <1>2, <1>4, StageKept
<1>8. Promise!Issue(id)
  BY <1>5, <1>6, <1>7 DEF Promise!Issue, Promise!Idle, Promise!Pending
<1> QED
  BY <1>8 DEF Promise!Next

LEMMA ProcessReq ==
  ASSUME IInv, IInv', ClientProcess
  PROVE  Promise!Next
<1> DEFINE S == {id \in Ids : \E i \in 1 .. Len(cmplQ) : cmplQ[i].id = id}
<1>1. UNCHANGED <<used, cmplQ>>
  BY DEF ClientProcess, ProcessMessages
<1>2. ClientTypeOK /\ ClientInv /\ CompletionsKnown
  BY DEF IInv, TypeOK, CompletionsHeld
<1>3. ASSUME NEW id \in S
      PROVE  \E s : Stage(id) = [at |-> "executed", status |-> s]
                    /\ Stage(id)' = [at |-> "complete", status |-> s]
  <2>1. PICK i \in 1 .. Len(cmplQ) :
          /\ cmplQ[i].id = id
          /\ complete'[id] /\ completion'[id] = cmplQ[i].status
    BY <1>2, ProcessFacts
  <2>2. Outstanding(id) /\ used'[id]
    BY <1>1, <1>2, <2>1, ProcessFacts DEF Outstanding
  <2>3. Stage(id) = [at |-> "executed", status |-> cmplQ[i].status]
    BY <2>1, <2>2, StageExecuted DEF Outstanding
  <2>4. Stage(id)' = [at |-> "complete", status |-> cmplQ[i].status]
    BY <2>1, <2>2 DEF Stage
  <2> QED
    BY <2>3, <2>4
<1>4. ASSUME NEW id \in Ids \ S
      PROVE  Stage(id)' = Stage(id)
  <2>1. complete'[id] = complete[id] /\ completion'[id] = completion[id]
    BY <1>2, ProcessFacts
  <2>2. RepliesTo(id)' = RepliesTo(id)
    BY <1>1 DEF RepliesTo
  <2> QED
    BY <1>1, <2>1, <2>2, StageKept
<1>5. \A id \in S : Stage(id).at = "executed"
  BY <1>3
<1>6. \A id \in S : Stage(id)' = [at |-> "complete", status |-> Stage(id).status]
  BY <1>3
<1> HIDE DEF S
<1>7. S \in SUBSET Ids
  BY DEF S
<1>8. Promise!Deliver(S)
  BY <1>4, <1>5, <1>6, <1>7 DEF Promise!Deliver, Promise!Complete
<1> QED
  BY <1>7, <1>8 DEF Promise!Next

LEMMA FreeReq ==
  ASSUME IInv, IInv', NEW id \in Ids, ClientFree(id)
  PROVE  Promise!Next
<1>1. /\ used[id] /\ complete[id] /\ ~used'[id] /\ UNCHANGED cmplQ
      /\ \A j \in Ids : j # id =>
           used'[j] = used[j] /\ complete'[j] = complete[j] /\ completion'[j] = completion[j]
  BY FreeFacts DEF IInv, TypeOK, CompletionsHeld
<1>2. Stage(id).at = "complete" /\ Stage(id)' = [at |-> "free"]
  BY <1>1 DEF Stage
<1>3. \A j \in Ids : RepliesTo(j)' = RepliesTo(j)
  BY <1>1 DEF RepliesTo
<1>4. \A j \in Ids : j # id => Stage(j)' = Stage(j)
  BY <1>1, <1>3, StageKept
<1>5. Promise!Release(id)
  BY <1>2, <1>4 DEF Promise!Release, Promise!Idle
<1> QED
  BY <1>5 DEF Promise!Next

\* Consuming completions that were read: their requests are complete.
LEMMA ConsumeReq == ASSUME IInv, IInv', ClientConsume PROVE Req' = Req
<1>0. PICK n, r : n = Len(cmplQ) /\ r = read
  OBVIOUS
<1>1. /\ Len(cmplQ') = n - r
      /\ \A i \in 1 .. n - r : i + r \in 1 .. n /\ cmplQ'[i] = cmplQ[i + r]
      /\ \A i \in 1 .. n : i > r => i - r \in 1 .. n - r /\ cmplQ'[i - r] = cmplQ[i]
      /\ UNCHANGED <<used, complete, completion>>
  BY <1>0, ConsumeFacts DEF IInv, TypeOK, CompletionsHeld
<1>2. ASSUME NEW id \in Ids PROVE Stage(id)' = Stage(id)
  <2>1. CASE complete[id]
    BY <1>1, <2>1, StageKept
  <2>2. CASE ~complete[id]
    <3>1. \A i \in 1 .. n : cmplQ[i].id = id => i > r
      BY <1>0, <2>2, Entries DEF IInv, CompletionsHeld, CompletionsKnown
    <3>2. RepliesTo(id)' = RepliesTo(id)
      BY <1>0, <1>1, <3>1 DEF RepliesTo
    <3> QED
      BY <1>1, <3>2, StageKept
  <2> QED
    BY <2>1, <2>2
<1> QED
  BY <1>2, ReqKept

\* The steps that neither reply nor touch the client's records.
LEMMA OtherReq ==
  ASSUME UNCHANGED <<used, complete, completion, cmplQ>>
  PROVE  Req' = Req
BY DEF Req, Stage

LEMMA CallbackReq ==
  ASSUME IInv, IInv', NEW op \in arrived, NEW s \in Statuses, Callback(op, s)
  PROVE  Promise!Next
<1>0. PICK id : id = requestId[op.cont]
  OBVIOUS
<1>1. /\ Reply(id, s)
      /\ UNCHANGED <<used, complete, completion, command, cpc, read, cliNtfn, cmdQ>>
  BY <1>0 DEF Callback, CallbackWith, clientVars, metaVars
<1>2. id \in Ids /\ Outstanding(id) /\ \A i \in 1 .. Len(cmplQ) : cmplQ[i].id # id
  <2>1. op \in Running
    BY DEF Running
  <2> QED
    BY <1>0, <2>1, Entries DEF IInv, OperationsHeld, CompletionsHeld
<1> QED
  BY <1>1, <1>2, ReplyReq

LEMMA AnsweredReq ==
  ASSUME IInv, IInv', NEW class, Processing(class), NEW s \in Statuses, Reply(Cmd.id, s),
         UNCHANGED <<clientVars, cmdQ>>
  PROVE  Promise!Next
<1>0. PICK id : id = Cmd.id
  OBVIOUS
<1>1. id \in Ids /\ Outstanding(id) /\ \A i \in 1 .. Len(cmplQ) : cmplQ[i].id # id
  BY <1>0, ProcessingFacts
<1>2. UNCHANGED <<used, complete, completion, command, cpc, read, cliNtfn, cmdQ>>
  BY DEF clientVars, metaVars
<1> QED
  BY <1>0, <1>1, <1>2, ReplyReq

LEMMA LoopReq == ASSUME Answering, IInv, IInv', Process PROVE Promise!Next \/ Req' = Req
<1> USE DEF clientVars, metaVars, sharedVars
<1>1. "error" \in Statuses
  BY DEF Answering, NfsServerAssumption
<1>2. ASSUME NEW class, Processing(class), Refuse("error") PROVE Promise!Next
  BY <1>1, <1>2, AnsweredReq DEF Refuse
<1>3. ASSUME NEW class, Start(class) PROVE Req' = Req
  BY <1>3, OtherReq DEF Start
<1>4. CASE ProcessInitialise
  BY <1>2, <1>3, <1>4 DEF ProcessInitialise
<1>5. CASE \E class \in {"async", "rmdir"} : ProcessAsync(class)
  BY <1>2, <1>3, <1>5 DEF ProcessAsync
<1>6. CASE ProcessSync
  BY <1>6, AnsweredReq DEF ProcessSync
<1>7. CASE CountCommands \/ CountSpace \/ ProcessDeinitialise \/ PublishConsumption
  BY <1>7, OtherReq DEF CountCommands, CountSpace, ProcessDeinitialise, PublishConsumption
<1> QED
  BY <1>4, <1>5, <1>6, <1>7 DEF Process

LEMMA NextReq == ASSUME Answering, IInv, [Next]_vars PROVE Promise!Next \/ Req' = Req
<1> USE DEF clientVars, metaVars, sharedVars
<1>0. IInv'
  BY NextIInv
<1>1. CASE ClientSends
  BY <1>0, <1>1, IssueReq DEF ClientSends
<1>2. CASE ClientLearns
  BY <1>0, <1>2, ProcessReq DEF ClientLearns
<1>3. CASE ClientRest
  BY <1>0, <1>3, ConsumeReq, FreeReq, OtherReq DEF ClientRest, ClientFails, ClientNotify
<1>4. CASE Service
  <2>1. ASSUME NEW op \in arrived, NEW s \in Statuses, RmdirCallback(op, s)
        PROVE  FALSE
    <3>1. op \in Running /\ op.class = "rmdir"
      BY <2>1 DEF RmdirCallback, Running
    <3> QED
      BY <3>1 DEF IInv, OperationsHeld
  <2>2. CASE Serviced
    BY <2>2, OtherReq DEF Serviced
  <2> QED
    BY <1>0, <1>4, <2>1, <2>2, CallbackReq DEF Service
<1>5. CASE Process
  BY <1>0, <1>5, LoopReq
<1>6. CASE NotifyClient \/ \E ch \in {"client", "timer", "net"} : Notified(ch)
  BY <1>6, OtherReq DEF NotifyClient, Notified
<1>7. CASE \E op \in inFlight : Answer(op)
  BY <1>7, OtherReq DEF Answer
<1>8. CASE UNCHANGED vars
  BY <1>8, OtherReq DEF vars
<1> QED
  BY <1>1, <1>2, <1>3, <1>4, <1>5, <1>6, <1>7, <1>8 DEF Next, Server

\* Every step of client, event loop, pool and network is a step of FsService or
\* leaves every request at its stage: libnfs may answer in any order, and still a
\* request is executed once and its client learns the status that its own
\* handler or callback set.
THEOREM NfsServerImplementsService == ASSUME Answering PROVE Spec => ImplementsService
<1>1. Init => Promise!Init
  BY InitReq
<1>2. IInv /\ [Next]_vars => [Promise!Next]_Req
  BY NextReq
<1> QED
  BY <1>1, <1>2, NfsServerInvariance, PTL DEF Spec, ImplementsService, Promise!Spec, Req

-----------------------------------------------------------------------------
(* With dir_remove requests are no longer accounted for and continuations  *)
(* get lost; but none is ever used twice.                                  *)

\* A continuation is at most once in one place: at a position of the free list,
\* or with one operation, that is in flight or has arrived.
PlacedOnce ==
    /\ freeConts \in Seq(PoolEntries)
    /\ inFlight \cap arrived = {}
    /\ \A i, j \in 1 .. Len(freeConts) : freeConts[i] = freeConts[j] => i = j
    /\ \A op \in Running : op.cont \in PoolEntries
    /\ \A op \in Running, i \in 1 .. Len(freeConts) : freeConts[i] # op.cont
    /\ \A o, p \in Running : o.cont = p.cont => o = p

LEMMA InitPlacedOnce == ASSUME Init PROVE PlacedOnce
BY Parameters DEF Init, PlacedOnce, PoolEntries, Running

\* continuation_alloc hands the head of the free list to one operation.
LEMMA StartPlacedOnce == ASSUME PlacedOnce, NEW class, Start(class) PROVE PlacedOnce'
<1> DEFINE c == freeConts[1]
           k == Len(freeConts)
           op == [cont |-> c, class |-> class]
<1>1. /\ freeConts \in Seq(PoolEntries) /\ freeConts # <<>>
      /\ freeConts' = Tail(freeConts) /\ inFlight' = inFlight \cup {op} /\ arrived' = arrived
  BY DEF Start, PlacedOnce
<1>2. /\ k \in Nat /\ k > 0 /\ c \in PoolEntries
      /\ freeConts' \in Seq(PoolEntries) /\ Len(freeConts') = k - 1
      /\ \A i \in 1 .. k - 1 : i + 1 \in 1 .. k /\ freeConts'[i] = freeConts[i + 1]
  BY <1>1, LenProperties, ElementOfSeq
<1>3. op.cont = c /\ Running' = Running \cup {op}
  BY <1>1 DEF Running
<1>4. \A p \in Running : p.cont # c
  BY <1>2 DEF PlacedOnce
<1> HIDE DEF c, k, op
<1>5. inFlight' \cap arrived' = {}
  BY <1>1, <1>3, <1>4 DEF PlacedOnce, Running
<1>6. \A i, j \in 1 .. k - 1 : freeConts'[i] = freeConts'[j] => i = j
  BY <1>2 DEF PlacedOnce, k
<1>7. \A p \in Running' : p.cont \in PoolEntries
  BY <1>2, <1>3 DEF PlacedOnce
<1>8. \A p \in Running', i \in 1 .. k - 1 : freeConts'[i] # p.cont
  <2>1. \A i \in 1 .. k - 1 : freeConts'[i] # c
    <3>1. \A i \in 1 .. k - 1 : freeConts[i + 1] # freeConts[1]
      BY <1>2 DEF PlacedOnce, k
    <3> QED
      BY <1>2, <3>1 DEF c
  <2>2. \A p \in Running, i \in 1 .. k - 1 : freeConts'[i] # p.cont
    BY <1>2 DEF PlacedOnce, k
  <2> QED
    BY <1>3, <2>1, <2>2
<1>9. \A o, p \in Running' : o.cont = p.cont => o = p
  BY <1>3, <1>4 DEF PlacedOnce
<1> QED
  BY <1>2, <1>5, <1>6, <1>7, <1>8, <1>9 DEF PlacedOnce

\* A callback puts the continuation of its operation back; dir_remove_cb does not.
LEMMA CallbackPlacedOnce ==
  ASSUME PlacedOnce, NEW op \in arrived, NEW s, Callback(op, s) PROVE PlacedOnce'
<1> DEFINE c == op.cont
           k == Len(freeConts)
<1>1. /\ freeConts \in Seq(PoolEntries) /\ freeConts' = <<c>> \o freeConts
      /\ inFlight' = inFlight /\ arrived' = arrived \ {op} /\ op \in Running
  BY DEF Callback, CallbackWith, PlacedOnce, Running
<1>2. c \in PoolEntries
  BY <1>1 DEF PlacedOnce
<1>3. /\ k \in Nat /\ freeConts' \in Seq(PoolEntries) /\ Len(freeConts') = k + 1
      /\ freeConts'[1] = c /\ \A i \in 2 .. k + 1 : i - 1 \in 1 .. k /\ freeConts'[i] = freeConts[i - 1]
  BY <1>1, <1>2, LenProperties
<1>4. Running' = Running \ {op}
  BY <1>1 DEF Running, PlacedOnce
<1>5. \A i \in 1 .. k : freeConts[i] # c
  BY <1>1 DEF PlacedOnce
<1>6. \A p \in Running' : p.cont # c
  BY <1>1, <1>4 DEF PlacedOnce
<1>7. \A i \in 2 .. k + 1 : freeConts'[i] # c
  BY <1>3, <1>5
<1>8. \A p \in Running, i \in 2 .. k + 1 : freeConts'[i] # p.cont
  BY <1>3 DEF PlacedOnce
<1>9. \A i, j \in 2 .. k + 1 : freeConts'[i] = freeConts'[j] => i = j
  <2>1. \A i, j \in 2 .. k + 1 : freeConts[i - 1] = freeConts[j - 1] => i - 1 = j - 1
    BY <1>3 DEF PlacedOnce
  <2>2. \A i, j \in 2 .. k + 1 : i - 1 = j - 1 => i = j
    BY <1>3
  <2>3. \A i \in 2 .. k + 1 : freeConts'[i] = freeConts[i - 1]
    BY <1>3
  <2> QED
    BY <2>1, <2>2, <2>3
<1> HIDE DEF c, k
<1>10. \A i, j \in 1 .. k + 1 : freeConts'[i] = freeConts'[j] => i = j
  <2>1. \A i \in 1 .. k + 1 : i = 1 \/ i \in 2 .. k + 1
    BY <1>3
  <2> QED
    BY <1>3, <1>7, <1>9, <2>1
<1>11. \A p \in Running', i \in 1 .. k + 1 : freeConts'[i] # p.cont
  <2>1. \A i \in 1 .. k + 1 : i = 1 \/ i \in 2 .. k + 1
    BY <1>3
  <2> QED
    BY <1>3, <1>4, <1>6, <1>8, <2>1
<1>12. inFlight' \cap arrived' = {} /\ \A p \in Running' : p.cont \in PoolEntries
  BY <1>1, <1>4 DEF PlacedOnce
<1>13. \A o, p \in Running' : o.cont = p.cont => o = p
  BY <1>4 DEF PlacedOnce
<1> QED
  BY <1>3, <1>10, <1>11, <1>12, <1>13 DEF PlacedOnce

LEMMA NextPlacedOnce == ASSUME PlacedOnce, [Next]_vars PROVE PlacedOnce'
<1> DEFINE Kept == UNCHANGED <<freeConts, inFlight, arrived>>
<1> USE DEF clientVars, metaVars, sharedVars, serverVars, poolVars, netVars
<1>1. ASSUME Kept PROVE PlacedOnce'
  BY <1>1 DEF PlacedOnce, Running
<1>2. ASSUME NEW status, Refuse(status) PROVE Kept
  BY <1>2 DEF Refuse
<1>3. CASE ClientSends \/ ClientLearns \/ ClientRest \/ UNCHANGED vars
  BY <1>1, <1>3 DEF ClientSends, ClientLearns, ClientRest, vars
<1>4. CASE NotifyClient \/ \E ch \in {"client", "timer", "net"} : Notified(ch)
  BY <1>1, <1>4 DEF NotifyClient, Notified
<1>5. CASE Service
  <2>1. ASSUME NEW op \in arrived, NEW s \in Statuses, RmdirCallback(op, s) PROVE PlacedOnce'
    <3>1. inFlight' = inFlight /\ arrived' = arrived \ {op} /\ freeConts' = freeConts
      BY <2>1 DEF RmdirCallback
    <3> QED
      BY <3>1 DEF PlacedOnce, Running
  <2>2. CASE Serviced
    BY <1>1, <2>2 DEF Serviced
  <2> QED
    BY <1>5, <2>1, <2>2, CallbackPlacedOnce DEF Service
<1>6. CASE Process
  <2>1. CASE ProcessInitialise
    BY <1>1, <1>2, <2>1, StartPlacedOnce DEF ProcessInitialise
  <2>2. CASE \E class \in {"async", "rmdir"} : ProcessAsync(class)
    BY <1>1, <1>2, <2>2, StartPlacedOnce DEF ProcessAsync
  <2>3. CASE ProcessSync \/ ProcessDeinitialise
    BY <1>1, <2>3 DEF ProcessSync, ProcessDeinitialise
  <2>4. CASE CountCommands \/ CountSpace \/ PublishConsumption
    BY <1>1, <2>4 DEF CountCommands, CountSpace, PublishConsumption
  <2> QED
    BY <1>6, <2>1, <2>2, <2>3, <2>4 DEF Process
<1>7. CASE \E op \in inFlight : Answer(op)
  <2>1. PICK op \in inFlight : Answer(op)
    BY <1>7
  <2>2. /\ inFlight' = inFlight \ {op} /\ arrived' = arrived \cup {op}
        /\ freeConts' = freeConts /\ Running' = Running
    BY <2>1 DEF Answer, Running
  <2> QED
    BY <2>2 DEF PlacedOnce
<1> QED
  BY <1>3, <1>4, <1>5, <1>6, <1>7 DEF Next, Server

\* Whatever the clients send, dir_remove and deinitialise included, a continuation
\* is never free twice, never free while libnfs holds it, and never shared by two
\* operations: the assert on next_free in continuation_free cannot fire.
THEOREM PoolExclusive == Spec => []ContinuationsExclusive
<1>1. ASSUME PlacedOnce PROVE ContinuationsExclusive
  <2>1. /\ DOMAIN freeConts = 1 .. Len(freeConts)
        /\ Range(freeConts) = {freeConts[i] : i \in 1 .. Len(freeConts)}
    BY <1>1, LenProperties, RangeEquality DEF PlacedOnce
  <2> QED
    BY <1>1, <2>1 DEF ContinuationsExclusive, PlacedOnce, Running
<1>2. PlacedOnce => ContinuationsExclusive
  BY <1>1
<1> QED
  BY <1>2, InitPlacedOnce, NextPlacedOnce, PTL DEF Spec

=============================================================================
