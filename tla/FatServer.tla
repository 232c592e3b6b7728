----------------------------- MODULE FatServer -----------------------------
(***************************************************************************)
(* The FAT file system server as its event loop sees it: the client's      *)
(* request ids and the two fs queues (lib/fs/helpers/helpers.c), the loop  *)
(* `notified' with its pool of worker cothreads (components/fs/fat/        *)
(* event.c), and the block requests the workers wait for                   *)
(* (components/fs/fat/io.c).                                               *)
(*                                                                         *)
(* Client, server and block virtualiser are three protection domains that  *)
(* run concurrently and share only the queues and the notification bits;   *)
(* every access of the server to shared memory is an action of its own.    *)
(* Inside the server, cothreads are cooperative: a worker runs from one    *)
(* wait_for_blk_resp to the next.  What a handler computes is abstracted   *)
(* to the number of block requests it waits for and its final status.      *)
(***************************************************************************)
EXTENDS FsClient

CONSTANTS
    NWorkers,   \* FAT_WORKER_THREAD_NUM
    MaxBlk      \* most block requests one handler waits for (model bound)

ASSUME FatServerAssumption ==
    /\ NWorkers \in Nat \ {0}
    /\ MaxBlk \in Nat
    /\ Types \subseteq {"valid", "invalid"}

Workers == 1 .. NWorkers

VARIABLES
    spc,        \* where the server stands in notified()
    popped,     \* new_request_popped
    sized,      \* queue_size_init
    cmdSize,    \* command_queue_size
    cmplSize,   \* completion_queue_size
    dequeued,   \* fs_request_dequeued
    unpub,      \* responses written beyond the tail: fs_response_enqueued of them
    pool,       \* request_pool[w]: request id and stat
    thread,     \* cothread state of worker w
    result,     \* request_pool[w].shared_data.status
    blkLeft,    \* block requests the handler of w may still issue
    blkPushed,  \* blk_request_pushed
    blkQ,       \* block request queue (handles), oldest first
    blkBusy,    \* requests the virtualiser took out of blkQ
    blkResp,    \* block response queue (handles), oldest first
    blkNtfn     \* a notification is pending at the virtualiser

loopVars   == <<popped, sized, cmdSize, cmplSize, dequeued, unpub>>
workerVars == <<pool, thread, result, blkLeft>>
blkVars    == <<blkQ, blkBusy, blkResp, blkNtfn>>
serverVars == <<spc, loopVars, workerVars, blkPushed, blkVars>>
vars == <<clientVars, sharedVars, serverVars>>

-----------------------------------------------------------------------------
(* What the handles and queues say.                                        *)

FreeHandle(w) == thread[w] = "not_active"
FreeHandles == {w \in Workers : FreeHandle(w)}

\* Workers whose handler returned and whose reply is not written yet.
Finished == {w \in Workers : thread[w] = "not_active" /\ pool[w].stat = "INUSE"}

Reply(w) == [id |-> pool[w].id, status |-> result[w]]

Init ==
    /\ ClientInit
    /\ spc = "wait"
    /\ popped = FALSE /\ sized = FALSE
    /\ cmdSize = 0 /\ cmplSize = 0 /\ dequeued = 0 /\ unpub = <<>>
    /\ pool = [w \in Workers |-> [id |-> 0, stat |-> "FREE"]]
    /\ thread = [w \in Workers |-> "not_active"]
    /\ result = [w \in Workers |-> "none"]
    /\ blkLeft = [w \in Workers |-> 0]
    /\ blkPushed = FALSE
    /\ blkQ = <<>> /\ blkBusy = {} /\ blkResp = <<>> /\ blkNtfn = FALSE

-----------------------------------------------------------------------------
(* The server: one call of notified() per pending channel.                 *)

Notified(ch) ==
    /\ spc = "wait"
    /\ ch \in srvNtfn
    /\ srvNtfn' = srvNtfn \ {ch}
    /\ popped' = TRUE /\ sized' = FALSE
    /\ spc' = "drain"
    /\ UNCHANGED <<clientVars, cmdQ, cmplQ, cmdSize, cmplSize, dequeued, unpub,
                   workerVars, blkPushed, blkVars>>

\* Dequeue the block responses counted by blk_queue_length_resp and signal the
\* worker each belongs to.  Responses that arrive later wait for the next round.
Drain ==
    /\ spc = "drain"
    /\ blkResp' = <<>>
    /\ thread' = [w \in Workers |-> IF w \in Range(blkResp) THEN "ready"
                                    ELSE thread[w]]
    /\ spc' = "run"
    /\ UNCHANGED <<clientVars, sharedVars, loopVars, pool, result,
                   blkLeft, blkPushed, blkQ, blkBusy, blkNtfn>>

\* blk_enqueue_req, blk_request_pushed and wait_for_blk_resp.
Enqueue(w, pushed) ==
    /\ spc = "run"
    /\ thread[w] = "ready"
    /\ blkLeft[w] > 0
    /\ blkLeft' = [blkLeft EXCEPT ![w] = @ - 1]
    /\ blkQ' = Append(blkQ, w)
    /\ blkPushed' = pushed
    /\ thread' = [thread EXCEPT ![w] = "blocked"]
    /\ UNCHANGED <<clientVars, sharedVars, spc, loopVars, pool, result,
                   blkBusy, blkResp, blkNtfn>>

\* Seeded fault: a disk function forgets to set blk_request_pushed.
WorkerDiskSilent(w) == Enqueue(w, blkPushed)

\* During microkit_cothread_yield: the handler of w reaches disk_read,
\* disk_write or CTRL_SYNC, enqueues a block request and waits for its sem.
WorkerDisk(w) == Enqueue(w, TRUE)

\* During microkit_cothread_yield: the handler of w sets args->status and
\* returns; its handle is free again but its reply is still in the pool.
WorkerReturn(w, s) ==
    /\ spc = "run"
    /\ thread[w] = "ready"
    /\ thread' = [thread EXCEPT ![w] = "not_active"]
    /\ result' = [result EXCEPT ![w] = s]
    /\ blkLeft' = [blkLeft EXCEPT ![w] = 0]
    /\ UNCHANGED <<clientVars, sharedVars, spc, loopVars, pool,
                   blkPushed, blkVars>>

CollectWith(newPool) ==
    /\ spc = "run"
    /\ \A w \in Workers : thread[w] # "ready"
    /\ \E order \in [1 .. Cardinality(Finished) -> Finished] :
        /\ \A i, j \in DOMAIN order : i < j => order[i] < order[j]
        /\ unpub' = unpub \o [i \in DOMAIN order |-> Reply(order[i])]
    /\ pool' = newPool
    /\ popped' = FALSE
    /\ spc' = "pop"
    /\ UNCHANGED <<clientVars, sharedVars, sized, cmdSize, cmplSize,
                   dequeued, thread, result, blkLeft, blkPushed, blkVars>>

\* Seeded fault: the slot of a finished worker stays INUSE.
CollectKeeps == CollectWith(pool)

\* The for loop over request_pool, entered when no worker is ready: write the
\* replies of finished workers behind the tail, in pool order, and free them.
Collect ==
    CollectWith([w \in Workers |-> IF w \in Finished THEN [pool[w] EXCEPT !.stat = "FREE"]
                                   ELSE pool[w]])

\* The sizes are read once per notification, when a handle is free: first the
\* length of the command queue ...
ReadCommandSize ==
    /\ spc = "pop"
    /\ ~sized /\ FreeHandles # {}
    /\ cmdSize' = Len(cmdQ)
    /\ spc' = "size"
    /\ UNCHANGED <<clientVars, sharedVars, popped, sized, cmplSize,
                   dequeued, unpub, workerVars, blkPushed, blkVars>>

\* ... then the length of the completion queue (published entries only).
ReadCompletionSize ==
    /\ spc = "size"
    /\ cmplSize' = Len(cmplQ)
    /\ sized' = TRUE
    /\ spc' = "pop"
    /\ UNCHANGED <<clientVars, sharedVars, popped, cmdSize, dequeued,
                   unpub, workerVars, blkPushed, blkVars>>

CanPop == sized /\ FreeHandles # {} /\ cmdSize > 0 /\ cmplSize # Capacity

\* Copy the next command, set up the pool slot of a free handle and spawn it.
PopCommand(w) ==
    /\ spc = "pop"
    /\ CanPop /\ FreeHandle(w)
    /\ cmdQ[dequeued + 1].type = "valid"
    /\ pool' = [pool EXCEPT ![w] = [id |-> cmdQ[dequeued + 1].id, stat |-> "INUSE"]]
    /\ thread' = [thread EXCEPT ![w] = "ready"]
    /\ blkLeft' = [blkLeft EXCEPT ![w] = MaxBlk]
    /\ popped' = TRUE
    /\ dequeued' = dequeued + 1
    /\ cmdSize' = cmdSize - 1
    /\ cmplSize' = cmplSize + 1
    /\ UNCHANGED <<clientVars, sharedVars, spc, sized, unpub, result,
                   blkPushed, blkVars>>

\* A command whose type is >= FS_NUM_COMMANDS is dequeued and forgotten.
PopInvalid ==
    /\ spc = "pop"
    /\ CanPop
    /\ cmdQ[dequeued + 1].type = "invalid"
    /\ dequeued' = dequeued + 1
    /\ cmdSize' = cmdSize - 1
    /\ UNCHANGED <<clientVars, sharedVars, spc, popped, sized, cmplSize,
                   unpub, workerVars, blkPushed, blkVars>>

\* Seeded fault: the outer loop does not run again after a pop.
PopDoneOnce ==
    /\ spc = "pop"
    /\ sized \/ FreeHandles = {}
    /\ ~CanPop
    /\ spc' = "consume"
    /\ sized' = FALSE /\ cmdSize' = 0 /\ cmplSize' = 0
    /\ UNCHANGED <<clientVars, sharedVars, popped, dequeued, unpub,
                   workerVars, blkPushed, blkVars>>

\* The break of the inner loop; the outer loop runs again after any pop.
PopDone ==
    /\ spc = "pop"
    /\ sized \/ FreeHandles = {}
    /\ ~CanPop
    /\ IF popped
       THEN /\ spc' = "drain"
            /\ UNCHANGED <<sized, cmdSize, cmplSize>>
       ELSE /\ spc' = "consume"     \* the loop's locals are not read again
            /\ sized' = FALSE /\ cmdSize' = 0 /\ cmplSize' = 0
    /\ UNCHANGED <<clientVars, sharedVars, popped, dequeued, unpub,
                   workerVars, blkPushed, blkVars>>

Consume(n) ==
    /\ spc = "consume"
    /\ cmdQ' = SubSeq(cmdQ, n + 1, Len(cmdQ))
    /\ dequeued' = 0
    /\ spc' = "produce"
    /\ UNCHANGED <<clientVars, cmplQ, srvNtfn, popped, sized, cmdSize, cmplSize,
                   unpub, workerVars, blkPushed, blkVars>>

\* Seeded fault: one command fewer than dequeued is consumed.
PublishConsumptionShort == Consume(IF dequeued > 0 THEN dequeued - 1 ELSE 0)

\* fs_queue_publish_consumption on the command queue.
PublishConsumption == Consume(dequeued)

\* fs_queue_publish_production on the completion queue.
PublishProduction ==
    /\ spc = "produce"
    /\ cmplQ' = cmplQ \o unpub
    /\ unpub' = <<>>
    /\ spc' = IF unpub # <<>> THEN "tell" ELSE "blk"
    /\ UNCHANGED <<clientVars, cmdQ, srvNtfn, popped, sized, cmdSize, cmplSize,
                   dequeued, workerVars, blkPushed, blkVars>>

NotifyClient ==
    /\ spc = "tell"
    /\ cliNtfn' = TRUE
    /\ spc' = "blk"
    /\ UNCHANGED <<metaVars, cpc, read, sharedVars, loopVars, workerVars, blkPushed, blkVars>>

\* Notify the block virtualiser if any worker pushed a request, and return.
NotifyBlk ==
    /\ spc = "blk"
    /\ blkNtfn' = (blkNtfn \/ blkPushed)
    /\ blkPushed' = FALSE
    /\ spc' = "wait"
    /\ UNCHANGED <<clientVars, sharedVars, loopVars, workerVars,
                   blkQ, blkBusy, blkResp>>

-----------------------------------------------------------------------------
(* The block virtualiser (sDDF, external): on a notification it takes every*)
(* request; it answers them in any order, each with a notification.        *)

BlkTake ==
    /\ blkNtfn
    /\ blkNtfn' = FALSE
    /\ blkBusy' = blkBusy \cup Range(blkQ)
    /\ blkQ' = <<>>
    /\ UNCHANGED <<clientVars, sharedVars, spc, loopVars, workerVars,
                   blkPushed, blkResp>>

BlkAnswer(w) ==
    /\ w \in blkBusy
    /\ blkBusy' = blkBusy \ {w}
    /\ blkResp' = Append(blkResp, w)
    /\ srvNtfn' = srvNtfn \cup {"blk"}
    /\ UNCHANGED <<clientVars, cmdQ, cmplQ, spc, loopVars, workerVars,
                   blkPushed, blkQ, blkNtfn>>

-----------------------------------------------------------------------------

Client == ClientStep /\ UNCHANGED serverVars

Server ==
    \/ \E ch \in {"client", "blk"} : Notified(ch)
    \/ Drain
    \/ \E w \in Workers : WorkerDisk(w)
    \/ \E w \in Workers, s \in Statuses : WorkerReturn(w, s)
    \/ Collect
    \/ ReadCommandSize \/ ReadCompletionSize
    \/ \E w \in Workers : PopCommand(w)
    \/ PopInvalid \/ PopDone
    \/ PublishConsumption \/ PublishProduction \/ NotifyClient \/ NotifyBlk

Blk == BlkTake \/ \E w \in Workers : BlkAnswer(w)

Next == Client \/ Server \/ Blk

Spec == Init /\ [][Next]_vars

\* Microkit runs a notified protection domain and does not starve any; a
\* client in the middle of a helper finishes it and handles its notifications;
\* the virtualiser answers every request.  Issuing and freeing are up to the
\* application and are not fair.
Fairness ==
    /\ WF_vars(Server)
    /\ WF_vars(ClientNotify /\ UNCHANGED serverVars)
    /\ WF_vars(ClientConsume /\ UNCHANGED serverVars)
    /\ WF_vars(cliNtfn /\ ClientProcess /\ UNCHANGED serverVars)
    /\ WF_vars(BlkTake)
    /\ \A w \in Workers : WF_vars(BlkAnswer(w))

FairSpec == Spec /\ Fairness

-----------------------------------------------------------------------------

\* The state of client, loop and workers keeps its ranges; the sizes read by
\* notified() never go below zero.
TypeOK ==
    /\ ClientTypeOK
    /\ unpub \in Seq([id : Ids, status : Statuses])
    /\ srvNtfn \subseteq {"client", "blk"}
    /\ spc \in {"wait", "drain", "run", "pop", "size", "consume", "produce", "tell", "blk"}
    /\ popped \in BOOLEAN /\ sized \in BOOLEAN
    /\ cmdSize \in Nat /\ cmplSize \in Nat /\ dequeued \in Nat
    /\ pool \in [Workers -> [id : Ids, stat : {"FREE", "INUSE"}]]
    /\ thread \in [Workers -> {"not_active", "ready", "blocked"}]
    /\ result \in [Workers -> Statuses \cup {"none"}]
    /\ blkLeft \in [Workers -> 0 .. MaxBlk]
    /\ blkPushed \in BOOLEAN /\ blkNtfn \in BOOLEAN
    /\ blkQ \in Seq(Workers) /\ blkBusy \subseteq Workers /\ blkResp \in Seq(Workers)

-----------------------------------------------------------------------------
(* Safety.                                                                 *)

\* Every place that holds the request id between ClientIssue and ClientProcess.
Holders(id) ==
    {<<"command", i>> : i \in {j \in 1 .. Len(cmdQ) : j > dequeued /\ cmdQ[j].id = id}}
    \cup {<<"pool", w>> : w \in {v \in Workers : pool[v].stat = "INUSE" /\ pool[v].id = id}}
    \cup {<<"reply", i>> : i \in {j \in 1 .. Len(unpub) : unpub[j].id = id}}
    \cup {<<"completion", i>> : i \in {j \in 1 .. Len(cmplQ) : j > read /\ cmplQ[j].id = id}}

\* A request that the client waits for is in exactly one place - a queued
\* command, a pool slot of event.c's request_pool, an unpublished reply or a
\* published completion - and a request it does not wait for is nowhere: none
\* is lost, answered twice, or answered after its id was given back.  Only a
\* request of an unknown type is dropped.
EachRequestHeldOnce ==
    \A id \in Ids :
        /\ Holders(id) # {} => Outstanding(id)
        /\ Outstanding(id) /\ command[id] = "valid" => Holders(id) # {}
        /\ Cardinality(Holders(id)) <= 1

\* event.c dequeues a command only with "a space in completion queue" reserved
\* for it: published and unpublished replies and the requests still with
\* workers, those of earlier notifications included, fit in the queue.
CompletionSpaceReserved ==
    Len(cmplQ) + Len(unpub) + Cardinality({w \in Workers : pool[w].stat = "INUSE"})
        <= Capacity

\* A worker that waits on its semaphore has exactly one block request on its
\* way, and no other worker has one.  The asserts on blk_enqueue_req rest on
\* this with num_buffers >= FAT_WORKER_THREAD_NUM, and so does routing the
\* response by pool index in notified().
BlkRequestPerBlockedWorker ==
    \A w \in Workers :
        Cardinality({i \in DOMAIN blkQ : blkQ[i] = w})
      + Cardinality({i \in DOMAIN blkResp : blkResp[i] = w})
      + Cardinality(blkBusy \cap {w}) = IF thread[w] = "blocked" THEN 1 ELSE 0

\* The comment above notified(): the server waits "if and only if all of working
\* threads are either free(no tasks assigned to them, no pending replies) or
\* blocked in diskio", and if any is free "the fs_command_queue must also be
\* empty" - unless the client has published a command and its notification is
\* still on the way.
WaitsOnlyForDiskOrClient ==
    spc = "wait" =>
        /\ unpub = <<>> /\ ~blkPushed
        /\ \A w \in Workers : \/ thread[w] = "blocked" /\ pool[w].stat = "INUSE"
                              \/ thread[w] = "not_active" /\ pool[w].stat = "FREE"
        /\ FreeHandles # {} /\ srvNtfn = {} /\ cpc # "notify" => cmdQ = <<>>

-----------------------------------------------------------------------------
(* Liveness and refinement.                                                *)

\* Every request of a known command type is completed: no wakeup is lost
\* between the client, notified() and the block virtualiser, although the queue
\* sizes are read once per notification, and whatever is dropped in between.
ValidRequestCompletes ==
    \A id \in Ids : Outstanding(id) /\ command[id] = "valid" ~> complete[id]

\* How the promise of FsService reads off the server's state: a request is
\* executed once its handler returned, wherever the reply is by then.
ReplyOf(id) ==
    {[id |-> id, status |-> result[w]] : w \in {v \in Finished : pool[v].id = id}}
    \cup {m \in Range(unpub) \cup Range(cmplQ) : m.id = id}

Stage(id) ==
    IF ~used[id] THEN [at |-> "free"]
    ELSE IF complete[id] THEN [at |-> "complete", status |-> completion[id]]
    ELSE IF ReplyOf(id) = {} THEN [at |-> "pending"]
    ELSE [at |-> "executed", status |-> (CHOOSE m \in ReplyOf(id) : TRUE).status]

Service == INSTANCE FsService WITH req <- [id \in Ids |-> Stage(id)]

\* The event loop implements FsService: each request is executed once and the
\* client learns exactly the status its own handler set (fill_client_response).
ImplementsService == Service!Spec
=============================================================================
