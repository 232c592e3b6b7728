----------------------------- MODULE FsService -----------------------------
(***************************************************************************)
(* What a LionsOS file system promises its client, whatever server (FAT or *)
(* NFS) stands behind the two shared queues of include/lions/fs/protocol.h.*)
(* A client owns a fixed set of request ids.  It issues a request under a  *)
(* free id; the server executes it once and fixes a status; the client     *)
(* learns exactly that status, and only then may it reuse the id.          *)
(***************************************************************************)
EXTENDS FiniteSets

CONSTANTS
    Ids,        \* request ids the client allocates from
    Statuses    \* outcomes the model tells apart

VARIABLE req    \* req[id] : where the request with that id stands

Idle == [at |-> "free"]
Pending == [at |-> "pending"]
Executed(s) == [at |-> "executed", status |-> s]
Complete(s) == [at |-> "complete", status |-> s]

Init == req = [id \in Ids |-> Idle]

\* The client takes a free id and puts a command in the command queue.
Issue(id) ==
    /\ req[id] = Idle
    /\ req' = [req EXCEPT ![id] = Pending]

\* The server runs the command to its end; the outcome no longer changes.
Execute(id, s) ==
    /\ req[id] = Pending
    /\ req' = [req EXCEPT ![id] = Executed(s)]

\* The client processes a batch of completion messages.
Deliver(S) ==
    /\ \A id \in S : req[id].at = "executed"
    /\ req' = [id \in Ids |-> IF id \in S THEN Complete(req[id].status)
                                          ELSE req[id]]

\* The client has read the completion and gives the id back.
Release(id) ==
    /\ req[id].at = "complete"
    /\ req' = [req EXCEPT ![id] = Idle]

Next ==
    \/ \E id \in Ids : Issue(id)
    \/ \E id \in Ids, s \in Statuses : Execute(id, s)
    \/ \E S \in SUBSET Ids : Deliver(S)
    \/ \E id \in Ids : Release(id)

Spec == Init /\ [][Next]_req
=============================================================================
