----------------------------- MODULE NfsServer -----------------------------
(***************************************************************************)
(* The NFS server of components/fs/nfs as its event loop sees it: notified *)
(* (nfs.c), process_commands, the continuation pool and the path every     *)
(* handler and its callback in op.c take through them.  libnfs and the     *)
(* network are external: an operation that libnfs accepted is answered     *)
(* once, some time later, and nfs_service then runs its callback.          *)
(*                                                                         *)
(* Handlers fall into classes by what they do to requests and the pool:    *)
(*   initialise    handle_initialise                                       *)
(*   async         every handler that starts a libnfs operation            *)
(*   rmdir         handle_dir_remove, whose callback differs               *)
(*   sync          the dir_* handlers that reply at once, and a type that  *)
(*                 is no command, which process_commands answers itself    *)
(*   deinitialise  handle_deinitialise                                     *)
(* What the handlers do to the descriptor table is in NfsFiles.            *)
(***************************************************************************)
EXTENDS FsClient

Classes == {"initialise", "async", "rmdir", "sync", "deinitialise"}

NfsServerAssumption ==
    /\ Types \subseteq Classes
    /\ {"ok", "error"} \subseteq Statuses

PoolEntries == 1 .. Capacity      \* continuation_pool has FS_QUEUE_CAPACITY entries

VARIABLES
    spc,        \* where the server stands in notified()
    ready,      \* network_ready
    ctx,        \* nfs # NULL
    toConsume,  \* to_consume of process_commands
    done,       \* its loop counter
    freeConts,  \* the free list from first_free_cont on
    requestId,  \* continuation_pool[c].request_id
    inFlight,   \* operations libnfs holds: private_data (a continuation) and class
    arrived,    \* those whose answer reached the socket
    telling,    \* reply() published a completion and is about to notify
    clientUp    \* client: an initialise request of its succeeded

poolVars == <<freeConts, requestId>>
netVars == <<inFlight, arrived>>
loopVars == <<spc, ready, toConsume, done>>
serverVars == <<loopVars, ctx, poolVars, netVars, telling, clientUp>>
vars == <<clientVars, sharedVars, serverVars>>

Init ==
    /\ ClientInit
    /\ spc = "wait" /\ ready = FALSE /\ ctx = FALSE
    /\ toConsume = 0 /\ done = 0
    /\ freeConts = [i \in 1 .. Capacity |-> i]
    /\ requestId = [c \in PoolEntries |-> 0]
    /\ inFlight = {} /\ arrived = {}
    /\ telling = FALSE /\ clientUp = FALSE

-----------------------------------------------------------------------------
(* The client initialises first: libnfs takes no NULL context.             *)

ClientSends ==
    /\ \E type \in Types : ClientIssue(type) /\ (type # "initialise" => clientUp)
    /\ UNCHANGED serverVars

ClientLearns ==
    /\ ClientProcess
    /\ clientUp' = (clientUp \/ \E id \in Ids : /\ command[id] = "initialise"
                                                /\ completion'[id] = "ok")
    /\ UNCHANGED <<loopVars, ctx, poolVars, netVars, telling>>

ClientRest ==
    /\ ClientFails \/ ClientNotify \/ ClientConsume \/ \E id \in Ids : ClientFree(id)
    /\ UNCHANGED serverVars

-----------------------------------------------------------------------------
(* reply: assert room, write and publish one completion, notify.           *)

Reply(id, status) ==
    /\ ~telling
    /\ Len(cmplQ) < Capacity
    /\ cmplQ' = Append(cmplQ, [id |-> id, status |-> status])
    /\ telling' = TRUE

NotifyClient ==
    /\ telling
    /\ telling' = FALSE
    /\ cliNtfn' = TRUE
    /\ UNCHANGED <<metaVars, cpc, read, sharedVars, loopVars, ctx, poolVars, netVars, clientUp>>

-----------------------------------------------------------------------------
(* notified.                                                               *)

\* The timer and the network notify at any time.  Both run lwIP, which may find
\* DHCP finished; the timer, with a context, nfs_service.  Every channel ends
\* with process_commands once there is a network.
Notified(ch) ==
    /\ spc = "wait"
    /\ ch \in srvNtfn \cup {"timer", "net"}
    /\ srvNtfn' = srvNtfn \ {ch}
    /\ ready' \in IF ch = "client" THEN {ready} ELSE {ready, TRUE}
    /\ spc' = IF ch = "timer" /\ ctx THEN "service"
              ELSE IF ready' THEN "count" ELSE "wait"
    /\ UNCHANGED <<clientVars, cmdQ, cmplQ, toConsume, done, ctx, poolVars, netVars,
                   telling, clientUp>>

CallbackWith(op, status, free) ==
    /\ spc = "service"
    /\ op \in arrived /\ op.class # "rmdir"
    /\ arrived' = arrived \ {op}
    /\ freeConts' = free
    /\ Reply(requestId[op.cont], status)
    /\ UNCHANGED <<clientVars, cmdQ, srvNtfn, loopVars, ctx, requestId, inFlight, clientUp>>

\* Seeded fault: a callback forgets continuation_free.
CallbackKeeps(op, status) == CallbackWith(op, status, freeConts)

\* Every answer but dir_remove_cb's: reply to the request of the continuation
\* it was started with, and free that one.
Callback(op, status) == CallbackWith(op, status, <<op.cont>> \o freeConts)

\* dir_remove_cb takes a new continuation instead of its private_data, reads
\* the id that is left in it, and frees it again.  (With none free it reads
\* through NULL; the model does not go there.)
RmdirCallback(op, status) ==
    /\ spc = "service"
    /\ op \in arrived /\ op.class = "rmdir"
    /\ freeConts # <<>>
    /\ arrived' = arrived \ {op}
    /\ Reply(requestId[Head(freeConts)], status)
    /\ UNCHANGED <<clientVars, cmdQ, srvNtfn, loopVars, ctx, poolVars, inFlight, clientUp>>

\* nfs_service returns when the socket has no more to read.
Serviced ==
    /\ spc = "service" /\ ~telling
    /\ arrived = {}
    /\ spc' = IF ready THEN "count" ELSE "wait"
    /\ UNCHANGED <<clientVars, sharedVars, ready, toConsume, done, ctx, poolVars, netVars,
                   telling, clientUp>>

-----------------------------------------------------------------------------
(* process_commands.                                                       *)

\* to_consume is the smaller of two lengths, read one after the other; in
\* between, the client may take completions out of their queue.
CountCommands ==
    /\ spc = "count"
    /\ toConsume' = Len(cmdQ)
    /\ spc' = "space"
    /\ UNCHANGED <<clientVars, sharedVars, ready, done, ctx, poolVars, netVars, telling, clientUp>>

CountSpace ==
    /\ spc = "space"
    /\ LET space == Capacity - Len(cmplQ)
       IN  toConsume' = IF space < toConsume THEN space ELSE toConsume
    /\ done' = 0
    /\ spc' = "process"
    /\ UNCHANGED <<clientVars, sharedVars, ready, ctx, poolVars, netVars, telling, clientUp>>

\* The command the loop is at.
Cmd == cmdQ[done + 1]
Processing(class) ==
    /\ spc = "process" /\ ~telling
    /\ done < toConsume
    /\ Cmd.type = class
    /\ done' = done + 1

\* Seeded fault: continuation_alloc leaves the continuation at the head of the
\* free list.
StartKeepsHead(class) ==
    /\ freeConts # <<>>
    /\ requestId' = [requestId EXCEPT ![Head(freeConts)] = Cmd.id]
    /\ inFlight' = inFlight \cup {[cont |-> Head(freeConts), class |-> class]}
    /\ UNCHANGED <<clientVars, sharedVars, spc, ready, toConsume, freeConts, arrived,
                   telling, clientUp>>

\* A handler takes a continuation for the request and starts a libnfs operation.
Start(class) ==
    /\ freeConts # <<>>
    /\ freeConts' = Tail(freeConts)
    /\ requestId' = [requestId EXCEPT ![Head(freeConts)] = Cmd.id]
    /\ inFlight' = inFlight \cup {[cont |-> Head(freeConts), class |-> class]}
    /\ UNCHANGED <<clientVars, sharedVars, spc, ready, toConsume, arrived,
                   telling, clientUp>>

\* Its early returns reply at once, whether they come before the continuation
\* or, when libnfs refuses the operation, free it again.
Refuse(status) ==
    /\ Reply(Cmd.id, status)
    /\ requestId' \in {requestId} \cup
                      (IF freeConts = <<>> THEN {}
                       ELSE {[requestId EXCEPT ![Head(freeConts)] = Cmd.id]})
    /\ UNCHANGED <<clientVars, cmdQ, srvNtfn, spc, ready, toConsume, freeConts, netVars, clientUp>>

\* handle_initialise makes the context before it starts the mount, and keeps it
\* whatever becomes of the mount: a second initialise is refused.
ProcessInitialise ==
    /\ Processing("initialise")
    /\ \/ ~ctx /\ ctx' = TRUE /\ Start("initialise")
       \/ ctx' = TRUE /\ Refuse("error")
       \/ ~ctx /\ ctx' = FALSE /\ Refuse("error")

ProcessAsync(class) ==
    /\ Processing(class)
    /\ UNCHANGED ctx
    /\ Start(class) \/ Refuse("error")

ProcessSync ==
    /\ Processing("sync")
    /\ UNCHANGED <<ctx, clientVars, cmdQ, srvNtfn, spc, ready, toConsume, poolVars, netVars, clientUp>>
    /\ \E s \in Statuses : Reply(Cmd.id, s)

\* handle_deinitialise is empty.
ProcessDeinitialise ==
    /\ Processing("deinitialise")
    /\ UNCHANGED <<ctx, clientVars, sharedVars, spc, ready, toConsume, poolVars, netVars,
                   telling, clientUp>>

\* Only after the loop the commands are consumed.
PublishConsumption ==
    /\ spc = "process" /\ ~telling
    /\ done = toConsume
    /\ cmdQ' = SubSeq(cmdQ, done + 1, Len(cmdQ))
    /\ spc' = "wait"
    /\ toConsume' = 0 /\ done' = 0
    /\ UNCHANGED <<clientVars, cmplQ, srvNtfn, ready, ctx, poolVars, netVars, telling, clientUp>>

-----------------------------------------------------------------------------
(* The network answers an operation that is in flight.                     *)

Answer(op) ==
    /\ op \in inFlight
    /\ inFlight' = inFlight \ {op}
    /\ arrived' = arrived \cup {op}
    /\ UNCHANGED <<clientVars, sharedVars, loopVars, ctx, poolVars, telling, clientUp>>

-----------------------------------------------------------------------------

Service ==
    \/ \E op \in arrived, s \in Statuses : Callback(op, s) \/ RmdirCallback(op, s)
    \/ Serviced

Process ==
    \/ CountCommands \/ CountSpace
    \/ ProcessInitialise
    \/ \E class \in {"async", "rmdir"} : ProcessAsync(class)
    \/ ProcessSync \/ ProcessDeinitialise
    \/ PublishConsumption

Server ==
    \/ \E ch \in {"client", "timer", "net"} : Notified(ch)
    \/ Service \/ Process \/ NotifyClient

Next == ClientSends \/ ClientLearns \/ ClientRest \/ Server \/ \E op \in inFlight : Answer(op)

Spec == Init /\ [][Next]_vars

\* A client in the middle of a helper finishes it and handles notifications, and
\* the server finishes what it is at.  The timer is re-armed by every timer
\* notification, DHCP succeeds in the end and the NFS server, to which libnfs
\* reconnects for ever, answers every operation.
Fairness ==
    /\ WF_vars(ClientNotify /\ UNCHANGED serverVars)
    /\ WF_vars(ClientConsume /\ UNCHANGED serverVars)
    /\ WF_vars(cliNtfn /\ ClientLearns)
    /\ WF_vars(Service \/ Process \/ NotifyClient)
    /\ SF_vars(Notified("timer") /\ ready')
    /\ \A c \in PoolEntries : WF_vars(\E op \in inFlight : op.cont = c /\ Answer(op))

FairSpec == Spec /\ Fairness

-----------------------------------------------------------------------------

Ops == [cont : PoolEntries, class : Classes]

\* The state of the loop and the continuation pool keeps its ranges.
TypeOK ==
    /\ ClientTypeOK
    /\ srvNtfn \subseteq {"client"}
    /\ spc \in {"wait", "service", "count", "space", "process"}
    /\ ready \in BOOLEAN /\ ctx \in BOOLEAN /\ telling \in BOOLEAN /\ clientUp \in BOOLEAN
    /\ toConsume \in 0 .. Capacity /\ done \in 0 .. toConsume
    /\ freeConts \in Seq(PoolEntries)
    /\ requestId \in [PoolEntries -> Ids]
    /\ inFlight \subseteq Ops /\ arrived \subseteq Ops

\* Every place that holds the request between ClientIssue and ClientProcess.
Holders(id) ==
    {<<"command", i>> : i \in {j \in 1 .. Len(cmdQ) : j > done /\ cmdQ[j].id = id}}
    \cup {<<"operation", op>> : op \in {o \in inFlight \cup arrived : requestId[o.cont] = id}}
    \cup {<<"completion", i>> : i \in {j \in 1 .. Len(cmplQ) : j > read /\ cmplQ[j].id = id}}

\* A request that the client waits for is in exactly one place - a queued
\* command, a libnfs operation whose continuation names it, or a published
\* completion - and any other request is nowhere.  Only handle_deinitialise
\* drops its request without an answer.
EachRequestHeldOnce ==
    \A id \in Ids :
        /\ Holders(id) # {} => Outstanding(id)
        /\ Outstanding(id) /\ command[id] # "deinitialise" => Holders(id) # {}
        /\ Cardinality(Holders(id)) <= 1

\* As far as the assert of fs_command_issue holds with this server: the commands
\* it has not handled leave room for one more while the client has a free id.
\* Those it has handled stay in the queue until process_commands ends, although
\* it answers them before: while done > 0 the queue can be full (ClientFails).
UnhandledCommandsLeaveRoom ==
    FreeIds # {} => Len(cmdQ) - done < Capacity

\* The assert of reply: operations that were started by earlier calls of
\* process_commands, which it does not count, still find room for their replies.
ReplyHasRoom ==
    Len(cmplQ) + Cardinality(inFlight \cup arrived) + toConsume - done <= Capacity

\* Continuations are free or carry one operation, and none is lost: the pool
\* never runs dry (the asserts after continuation_alloc).
ContinuationsConserved ==
    Len(freeConts) + Cardinality(inFlight \cup arrived) = Capacity

\* No continuation is on the free list twice or while libnfs holds it (the
\* assert on next_free in continuation_free), and no two operations share one.
ContinuationsExclusive ==
    /\ \A i, j \in DOMAIN freeConts : i # j => freeConts[i] # freeConts[j]
    /\ \A op \in inFlight \cup arrived :
        /\ op.cont \notin Range(freeConts)
        /\ \A other \in inFlight \cup arrived : other.cont = op.cont => other = op

\* assert(cont != NULL) after continuation_alloc: a handler that gets as far
\* finds a free continuation.
ContinuationAvailable ==
    spc = "process" /\ done < toConsume /\ Cmd.type \in {"async", "rmdir"} => freeConts # <<>>

-----------------------------------------------------------------------------
(* The promise of FsService: a request is executed when its reply is out.  *)

Stage(id) ==
    LET replies == {m \in Range(cmplQ) : m.id = id} IN
    IF ~used[id] THEN [at |-> "free"]
    ELSE IF complete[id] THEN [at |-> "complete", status |-> completion[id]]
    ELSE IF replies = {} THEN [at |-> "pending"]
    ELSE [at |-> "executed", status |-> (CHOOSE m \in replies : TRUE).status]

Promise == INSTANCE FsService WITH req <- [id \in Ids |-> Stage(id)]

\* The NFS server implements FsService: each request is executed once and its
\* client learns the status its own handler or callback set.
ImplementsService == Promise!Spec
=============================================================================
