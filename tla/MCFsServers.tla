---------------------------- MODULE MCFsServers ----------------------------
(* The client helpers with either file server behind the two shared queues: a    *)
(* behaviour picks the server.  Both keep the same promise, FsService.           *)
EXTENDS FatServer

VARIABLES
  part,                                                   \* "fat" or "nfs"
  nfsSpc, ready, ctx, toConsume, done, freeConts, requestId, inFlight, arrived, telling, clientUp

nfsVars == <<nfsSpc, ready, ctx, toConsume, done, freeConts, requestId, inFlight, arrived, telling, clientUp>>

Nfs == INSTANCE NfsServerProof WITH
  Types <- {"initialise", "async", "sync", "deinitialise"}, Statuses <- {"ok", "error"}, spc <- nfsSpc

ASSUME Nfs!NfsServerAssumption

AnyType == {"valid", "invalid"}
OneStatus == {"ok"}

InitAll == part \in {"fat", "nfs"} /\ Init /\ Nfs!Init

\* A step of one server, or of its client, leaves the other server alone.
OfFat(A) == part = "fat" /\ A /\ UNCHANGED <<part, nfsVars>>
OfNfs(A) == part = "nfs" /\ A /\ UNCHANGED <<part, serverVars>>

NextAll == OfFat(Next) \/ OfNfs(Nfs!Next)
allVars == <<part, vars, nfsVars>>

SpecAll == InitAll /\ [][NextAll]_allVars

\* The fairness of FatServer and of NfsServer.
FairSpecAll ==
  /\ SpecAll
  /\ WF_allVars(OfFat(Server))
  /\ WF_allVars(OfFat(ClientNotify /\ UNCHANGED serverVars))
  /\ WF_allVars(OfFat(ClientConsume /\ UNCHANGED serverVars))
  /\ WF_allVars(OfFat(cliNtfn /\ ClientProcess /\ UNCHANGED serverVars))
  /\ WF_allVars(OfFat(BlkTake))
  /\ \A w \in Workers : WF_allVars(OfFat(BlkAnswer(w)))
  /\ WF_allVars(OfNfs(ClientNotify /\ UNCHANGED nfsVars))
  /\ WF_allVars(OfNfs(ClientConsume /\ UNCHANGED nfsVars))
  /\ WF_allVars(OfNfs(cliNtfn /\ Nfs!ClientLearns))
  /\ WF_allVars(OfNfs(Nfs!Service \/ Nfs!Process \/ Nfs!NotifyClient))
  /\ SF_allVars(OfNfs(Nfs!Notified("timer") /\ ready'))
  /\ \A c \in Nfs!PoolEntries : WF_allVars(OfNfs(\E op \in inFlight : op.cont = c /\ Nfs!Answer(op)))

-----------------------------------------------------------------------------

\* Each request a client waits for is in one place, with every variable in its
\* range (FatServer, NfsServer).
RequestsHeldOnce ==
  IF part = "fat" THEN TypeOK /\ EachRequestHeldOnce ELSE Nfs!TypeOK /\ Nfs!EachRequestHeldOnce

\* Replies find room in the completion queue (the space event.c reserves, the
\* assert of the NFS server's reply).  Commands do behind FAT, which publishes
\* their consumption before the completions (the assert of fs_command_issue).
\* Behind NFS that assert can fail: only the commands not handled leave room, and
\* those handled, perhaps answered, fill the queue until process_commands ends.
RoomInQueues ==
  IF part = "fat" THEN CommandQueueHasRoom /\ CompletionSpaceReserved
  ELSE Nfs!UnhandledCommandsLeaveRoom /\ Nfs!ReplyHasRoom

\* The FAT server waits only when it has nothing to do, with one block request on
\* its way for each worker that is blocked.
ServerWaitsForDiskOrClient == part = "fat" => WaitsOnlyForDiskOrClient /\ BlkRequestPerBlockedWorker

\* The NFS server loses no continuation and gives none away twice.
ContinuationsAccounted == part = "nfs" => Nfs!ContinuationsConserved /\ Nfs!ContinuationsExclusive

\* Commands no server answers, or none for sure: FAT drops a type that is no
\* command, NFS a deinitialise, and a rmdir (not sent here) is answered under the
\* id of another request (run nfs_server_rmdir).
Unanswered == {"invalid", "deinitialise", "rmdir"}

\* Every other request is completed - no wake-up is lost between client, server
\* and disk or network - unless an assert stops the client first.
OtherRequestsComplete ==
  \A id \in Ids :
    Outstanding(id) /\ command[id] \notin Unanswered ~> complete[id] \/ cpc = "failed"

Promise == INSTANCE FsService WITH
  req <- [id \in Ids |-> IF part = "fat" THEN Stage(id) ELSE Nfs!Stage(id)], Statuses <- {"ok", "error"}

\* Either server implements FsService: each request is executed once and its
\* client learns the status its own handler or callback set.
EitherImplementsService == Promise!Spec
=============================================================================
