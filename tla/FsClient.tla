------------------------------ MODULE FsClient ------------------------------
(***************************************************************************)
(* The client side of the file system protocol, lib/fs/helpers/helpers.c,  *)
(* as one client thread runs it, and the two queues it shares with a       *)
(* server (include/lions/fs/protocol.h).  A queue is the sequence of its   *)
(* published entries, oldest first.  FatServer and NfsServer extend this   *)
(* module; the actions here say nothing of the server's own variables.     *)
(***************************************************************************)
EXTENDS Integers, Sequences, SequencesExt, FiniteSets

CONSTANTS
    NIds,       \* ids 0..NIds-1; helpers.c has FS_QUEUE_CAPACITY of them
    Capacity,   \* FS_QUEUE_CAPACITY
    Types,      \* classes of command types the client sends
    Statuses    \* completion statuses the model tells apart

ASSUME FsClientAssumption ==
    /\ NIds \in Nat \ {0}
    /\ Capacity \in Nat \ {0}
    /\ NIds <= Capacity
    /\ Types # {} /\ "none" \notin Types
    /\ Statuses # {} /\ "none" \notin Statuses

Ids == 0 .. NIds - 1

VARIABLES
    used,       \* request_metadata[id].used
    complete,   \* request_metadata[id].complete
    completion, \* request_metadata[id].completion.status, "none" when freed
    command,    \* request_metadata[id].command.type, "none" when freed
    cpc,        \* where the client stands in the helper it runs
    read,       \* to_consume of the fs_process_completions that runs
    cmdQ,       \* published entries of the command queue
    cmplQ,      \* published entries of the completion queue
    srvNtfn,    \* channels with a notification pending at the server
    cliNtfn     \* a notification is pending at the client

metaVars == <<used, complete, completion, command>>
clientVars == <<metaVars, cpc, read, cliNtfn>>
sharedVars == <<cmdQ, cmplQ, srvNtfn>>

FreeIds == {id \in Ids : ~used[id]}
\* What the scan of fs_request_allocate finds in the table; with no id free it
\* runs on behind it (ClientFails).
FirstFree(id) == id \in FreeIds /\ \A j \in FreeIds : id <= j

\* A request the client waits for.
Outstanding(id) == used[id] /\ ~complete[id]

ClientInit ==
    /\ used = [id \in Ids |-> FALSE]
    /\ complete = [id \in Ids |-> FALSE]
    /\ completion = [id \in Ids |-> "none"]
    /\ command = [id \in Ids |-> "none"]
    /\ cpc = "idle" /\ read = 0
    /\ cmdQ = <<>> /\ cmplQ = <<>>
    /\ srvNtfn = {} /\ cliNtfn = FALSE

\* fs_request_allocate takes the first unused id; fs_command_issue asserts
\* that the command queue is not full, writes the message and publishes it.
ClientIssue(type) ==
    /\ cpc = "idle"
    /\ Len(cmdQ) # Capacity
    /\ \E id \in Ids :
        /\ FirstFree(id)
        /\ used' = [used EXCEPT ![id] = TRUE]
        /\ cmdQ' = Append(cmdQ, [id |-> id, type |-> type])
        /\ command' = [command EXCEPT ![id] = type]
    /\ cpc' = "notify"
    /\ UNCHANGED <<complete, completion, read, cliNtfn, cmplQ, srvNtfn>>

\* The client stops.  With no id free the scan of fs_request_allocate, up to
\* NUM_BUFFERS, leaves request_metadata: what lies there reads as used, so that
\* it returns 1 and nothing changes, or makes an id that the first assert of
\* fs_command_issue refuses.  With an id free, its assert on the queue may fail.
ClientFails ==
    /\ cpc = "idle"
    /\ FreeIds = {} \/ Len(cmdQ) = Capacity
    /\ cpc' = "failed"
    /\ UNCHANGED <<metaVars, read, cliNtfn, sharedVars>>

\* microkit_notify at the end of fs_command_issue.
ClientNotify ==
    /\ cpc = "notify"
    /\ cpc' = "idle"
    /\ srvNtfn' = srvNtfn \cup {"client"}
    /\ UNCHANGED <<metaVars, read, cliNtfn, cmdQ, cmplQ>>

ProcessMessages(msgs) ==
    /\ cpc = "idle"
    /\ cliNtfn \/ cmplQ # <<>>
    /\ LET answered == {m.id : m \in msgs}
           StatusOf(id) == (CHOOSE m \in msgs : m.id = id).status
       IN  /\ complete' = [id \in Ids |-> complete[id] \/ id \in answered]
           /\ completion' = [id \in Ids |-> IF id \in answered THEN StatusOf(id)
                                            ELSE completion[id]]
    /\ read' = Len(cmplQ)
    /\ cpc' = "consume"
    /\ cliNtfn' = FALSE
    /\ UNCHANGED <<used, command, cmdQ, cmplQ, srvNtfn>>

\* Seeded fault: every iteration reads the entry at the head.
ClientProcessHead == ProcessMessages({m \in Range(cmplQ) : m = cmplQ[1]})

\* The client runs fs_process_completions, on a notification of the server or
\* of any other channel: it reads every published completion ...
ClientProcess == ProcessMessages(Range(cmplQ))

\* ... and publishes the consumption of exactly those it read.
ClientConsume ==
    /\ cpc = "consume"
    /\ cmplQ' = SubSeq(cmplQ, read + 1, Len(cmplQ))
    /\ read' = 0
    /\ cpc' = "idle"
    /\ UNCHANGED <<metaVars, cliNtfn, cmdQ, srvNtfn>>

\* fs_command_complete and fs_request_free, once the request is complete.
ClientFree(id) ==
    /\ cpc = "idle"
    /\ used[id] /\ complete[id]
    /\ used' = [used EXCEPT ![id] = FALSE]
    /\ complete' = [complete EXCEPT ![id] = FALSE]
    /\ completion' = [completion EXCEPT ![id] = "none"]
    /\ command' = [command EXCEPT ![id] = "none"]
    /\ UNCHANGED <<cpc, read, cliNtfn, sharedVars>>

ClientStep ==
    \/ \E type \in Types : ClientIssue(type)
    \/ ClientFails \/ ClientNotify \/ ClientProcess \/ ClientConsume
    \/ \E id \in Ids : ClientFree(id)

\* The client's metadata and the queue entries keep their ranges.
ClientTypeOK ==
    /\ used \in [Ids -> BOOLEAN] /\ complete \in [Ids -> BOOLEAN]
    /\ completion \in [Ids -> Statuses \cup {"none"}]
    /\ command \in [Ids -> Types \cup {"none"}]
    /\ cpc \in {"idle", "notify", "consume", "failed"}
    /\ read \in Nat
    /\ cmdQ \in Seq([id : Ids, type : Types]) /\ cmplQ \in Seq([id : Ids, status : Statuses])
    /\ cliNtfn \in BOOLEAN

\* The assert of fs_command_issue: a client that still has a free id finds room
\* in the command queue.  It needs the server to publish the consumption of a
\* command before the completion that lets the client reuse its id.
CommandQueueHasRoom ==
    cpc = "idle" /\ FreeIds # {} => Len(cmdQ) < Capacity
=============================================================================
