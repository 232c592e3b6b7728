------------------------------ MODULE NfsFiles ------------------------------
(***************************************************************************)
(* What the handlers and callbacks of components/fs/nfs/op.c do to the     *)
(* descriptor table lib/fs/server/fd.c while libnfs works on other         *)
(* operations.  The server is one thread: a handler, and later its         *)
(* callback, runs to its end.  Between the two, libnfs holds the operation *)
(* and the continuation remembers its descriptor (data[0]) and, for a      *)
(* close, its handle (data[1]).                                            *)
(*                                                                         *)
(* libnfs is external: it may refuse an operation, answers an accepted one *)
(* once with success or failure, hands out a handle that is not in use     *)
(* when it opens, and frees a handle when it closes it successfully.       *)
(***************************************************************************)
EXTENDS Integers, FiniteSets

CONSTANTS
    Conts,      \* entries of continuation_pool
    Slots,      \* indices of oftable
    Handles,    \* struct nfsfh and struct nfsdir objects
    NoHandle,   \* NULL
    MaxGen      \* bound on the generations the model reaches

ASSUME NfsFilesAssumption ==
    /\ IsFiniteSet(Conts)
    /\ NoHandle \notin Handles
    /\ MaxGen \in Nat

Kinds == {"file", "dir"}
Open(k) == IF k = "file" THEN "open_file" ELSE "open_dir"
States == {"free", "allocated", "open_file", "open_dir", "busy_file"}
Fds == Slots \X (0 .. MaxGen + 1)
NoFd == <<NoHandle, 0>>

VARIABLES
    ofState,    \* oftable[i].state
    ofHandle,   \* oftable[i].handle
    ofBusy,     \* oftable[i].busy_count
    ofGen,      \* oftable[i].generation
    op,         \* op[c]: what libnfs does for continuation c
    cfd,        \* continuation_pool[c].data[0]
    chandle,    \* the handle libnfs was given for c; data[1] of a close
    live        \* handles libnfs has open

ofVars == <<ofState, ofHandle, ofBusy, ofGen>>
contVars == <<op, cfd, chandle>>
handleVars == <<ofVars, contVars, live>>

HandlesInit ==
    /\ ofState = [i \in Slots |-> "free"]
    /\ ofHandle = [i \in Slots |-> NoHandle]
    /\ ofBusy = [i \in Slots |-> 0]
    /\ ofGen = [i \in Slots |-> 0]
    /\ op = [c \in Conts |-> "none"]
    /\ cfd = [c \in Conts |-> NoFd]
    /\ chandle = [c \in Conts |-> NoHandle]
    /\ live = {}

-----------------------------------------------------------------------------
(* fd_to_of, continuation_alloc and continuation_free.                     *)

Resolves(fd) == fd[2] >= ofGen[fd[1]]

StartOp(c, what, fd, h) ==
    /\ op[c] = "none"
    /\ op' = [op EXCEPT ![c] = what]
    /\ cfd' = [cfd EXCEPT ![c] = fd]
    /\ chandle' = [chandle EXCEPT ![c] = h]

Finish(c) ==
    /\ op' = [op EXCEPT ![c] = "none"]
    /\ cfd' = [cfd EXCEPT ![c] = NoFd]
    /\ chandle' = [chandle EXCEPT ![c] = NoHandle]

\* of_free on an allocated slot; on any other it fails, which nobody checks.
FdFree(fd) ==
    IF Resolves(fd) /\ ofState[fd[1]] = "allocated"
    THEN /\ ofState' = [ofState EXCEPT ![fd[1]] = "free"]
         /\ ofGen' = [ofGen EXCEPT ![fd[1]] = @ + 1]
    ELSE UNCHANGED <<ofState, ofGen>>

\* of_set_file or of_set_dir, likewise.
FdSet(fd, k, h) ==
    IF Resolves(fd) /\ ofState[fd[1]] = "allocated"
    THEN /\ ofState' = [ofState EXCEPT ![fd[1]] = Open(k)]
         /\ ofHandle' = [ofHandle EXCEPT ![fd[1]] = h]
    ELSE UNCHANGED <<ofState, ofHandle>>

-----------------------------------------------------------------------------
(* Opening: the slot is allocated before libnfs is asked.                  *)

OpenStart(c, k) ==
    \E i \in Slots :
        /\ ofState[i] = "free"
        /\ ofState' = [ofState EXCEPT ![i] = "allocated"]
        /\ StartOp(c, Open(k), <<i, ofGen[i]>>, NoHandle)
        /\ UNCHANGED <<ofHandle, ofBusy, ofGen, live>>

\* libnfs refuses: fd_alloc and fd_free leave the slot one generation older.
OpenRefused ==
    \E i \in Slots :
        /\ ofState[i] = "free"
        /\ ofGen[i] < MaxGen
        /\ ofGen' = [ofGen EXCEPT ![i] = @ + 1]
        /\ UNCHANGED <<ofState, ofHandle, ofBusy, contVars, live>>

\* file_open_cb and dir_open_cb.
OpenDone(c, k) ==
    /\ op[c] = Open(k)
    /\ \E h \in Handles \ live :
        /\ live' = live \cup {h}
        /\ FdSet(cfd[c], k, h)
    /\ Finish(c)
    /\ UNCHANGED <<ofBusy, ofGen>>

OpenFail(c, k) ==
    /\ op[c] = Open(k)
    /\ ofGen[cfd[c][1]] < MaxGen
    /\ FdFree(cfd[c])
    /\ Finish(c)
    /\ UNCHANGED <<ofHandle, ofBusy, live>>

-----------------------------------------------------------------------------
(* Size, read, write, sync and truncate bracket the operation in           *)
(* fd_begin_op_file and fd_end_op; if libnfs refuses, both run at once and *)
(* nothing changes.  The directory handlers run both in one go as well.    *)

\* Seeded fault: of_begin_op_file does not count a second operation.
OpStartUncounted(c) ==
    \E fd \in Fds :
        /\ Resolves(fd) /\ ofState[fd[1]] \in {"open_file", "busy_file"}
        /\ ofState' = [ofState EXCEPT ![fd[1]] = "busy_file"]
        /\ ofBusy' = [ofBusy EXCEPT ![fd[1]] = 1]
        /\ StartOp(c, "op", fd, ofHandle[fd[1]])
        /\ UNCHANGED <<ofHandle, ofGen, live>>

OpStart(c) ==
    \E fd \in Fds :
        /\ Resolves(fd) /\ ofState[fd[1]] \in {"open_file", "busy_file"}
        /\ ofState' = [ofState EXCEPT ![fd[1]] = "busy_file"]
        /\ ofBusy' = [ofBusy EXCEPT ![fd[1]] = IF ofState[fd[1]] = "open_file" THEN 1
                                               ELSE @ + 1]
        /\ StartOp(c, "op", fd, ofHandle[fd[1]])
        /\ UNCHANGED <<ofHandle, ofGen, live>>

\* The callbacks assert that the descriptor resolves to a busy slot.
OpDone(c) ==
    /\ op[c] = "op"
    /\ Resolves(cfd[c]) /\ ofState[cfd[c][1]] = "busy_file"
    /\ ofBusy' = [ofBusy EXCEPT ![cfd[c][1]] = @ - 1]
    /\ ofState' = [ofState EXCEPT ![cfd[c][1]] = IF ofBusy[cfd[c][1]] = 1 THEN "open_file" ELSE @]
    /\ Finish(c)
    /\ UNCHANGED <<ofHandle, ofGen, live>>

-----------------------------------------------------------------------------
(* Closing.  fd_unset refuses a busy slot; if libnfs refuses, fd_set_file  *)
(* puts the handle back at once.                                           *)

FileClose(c) ==
    \E fd \in Fds :
        /\ Resolves(fd) /\ ofState[fd[1]] = "open_file"
        /\ ofState' = [ofState EXCEPT ![fd[1]] = "allocated"]
        /\ ofHandle' = [ofHandle EXCEPT ![fd[1]] = NoHandle]
        /\ ofBusy' = [ofBusy EXCEPT ![fd[1]] = 0]
        /\ StartOp(c, "close", fd, ofHandle[fd[1]])
        /\ UNCHANGED <<ofGen, live>>

FileCloseDone(c) ==
    /\ op[c] = "close"
    /\ ofGen[cfd[c][1]] < MaxGen
    /\ live' = live \ {chandle[c]}
    /\ FdFree(cfd[c])
    /\ Finish(c)
    /\ UNCHANGED <<ofHandle, ofBusy>>

FileCloseFail(c) ==
    /\ op[c] = "close"
    /\ FdSet(cfd[c], "file", chandle[c])
    /\ Finish(c)
    /\ UNCHANGED <<ofBusy, ofGen, live>>

\* handle_dir_close: nfs_closedir needs no answer.
DirClose ==
    \E fd \in Fds :
        /\ Resolves(fd) /\ ofState[fd[1]] = "open_dir"
        /\ ofGen[fd[1]] < MaxGen
        /\ live' = live \ {ofHandle[fd[1]]}
        /\ ofState' = [ofState EXCEPT ![fd[1]] = "free"]
        /\ ofGen' = [ofGen EXCEPT ![fd[1]] = @ + 1]
        /\ ofHandle' = [ofHandle EXCEPT ![fd[1]] = NoHandle]
        /\ ofBusy' = [ofBusy EXCEPT ![fd[1]] = 0]
        /\ UNCHANGED contVars

-----------------------------------------------------------------------------

HandlesNext ==
    \/ \E c \in Conts, k \in Kinds : OpenStart(c, k) \/ OpenDone(c, k) \/ OpenFail(c, k)
    \/ OpenRefused \/ DirClose
    \/ \E c \in Conts : \/ OpStart(c) \/ OpDone(c)
                        \/ FileClose(c) \/ FileCloseDone(c) \/ FileCloseFail(c)

HandlesSpec == HandlesInit /\ [][HandlesNext]_handleVars

-----------------------------------------------------------------------------
(* Properties.                                                             *)

\* The table and the continuations keep their ranges.
HandlesTypeOK ==
    /\ ofState \in [Slots -> States]
    /\ ofHandle \in [Slots -> Handles \cup {NoHandle}]
    /\ ofBusy \in [Slots -> Nat]
    /\ ofGen \in [Slots -> 0 .. MaxGen]
    /\ op \in [Conts -> {"none", "open_file", "open_dir", "op", "close"}]
    /\ cfd \in [Conts -> Fds \cup {NoFd}]
    /\ chandle \in [Conts -> Handles \cup {NoHandle}]
    /\ live \subseteq Handles

Operating(i) == {c \in Conts : op[c] = "op" /\ cfd[c][1] = i}
Installed(i) == ofState[i] \in {"open_file", "open_dir", "busy_file"}

\* busy_count of a slot is the number of operations libnfs has on it, and the
\* slot is busy exactly while there is one: the asserts of fd_end_op hold in
\* every callback, whatever was closed and opened since the handler ran.
BusyCountExact ==
    \A i \in Slots :
        /\ ofBusy[i] = Cardinality(Operating(i))
        /\ ofState[i] = "busy_file" <=> Operating(i) # {}
        /\ \A c \in Operating(i) : Resolves(cfd[c])

\* libnfs never works on a handle that was closed, or that is being closed: the
\* handle of an operation is open and still named by its slot.
UsesOpenHandle ==
    /\ \A c \in Conts : op[c] = "op" =>
        /\ chandle[c] \in live
        /\ ofHandle[cfd[c][1]] = chandle[c]
        /\ \A d \in Conts : op[d] = "close" => chandle[d] # chandle[c]
    /\ \A i \in Slots : Installed(i) => ofHandle[i] \in live
    /\ \A i, j \in Slots : Installed(i) /\ Installed(j) /\ ofHandle[i] = ofHandle[j] => i = j

\* A slot is allocated exactly while one open or close is on its way, and that
\* one's descriptor still reaches it: no slot is lost, none has two owners, and
\* the results of fd_free and fd_set_file, which op.c ignores, are success.
AllocatedSlotHasOwner ==
    \A i \in Slots :
        LET owners == {c \in Conts : op[c] \in {"open_file", "open_dir", "close"} /\ cfd[c][1] = i}
        IN  /\ Cardinality(owners) = IF ofState[i] = "allocated" THEN 1 ELSE 0
            /\ \A c \in owners : Resolves(cfd[c])

\* Every handle that libnfs has open can still be closed: a slot names it or a
\* close carries it.
HandlesNotLeaked ==
    \A h \in live : \/ \E i \in Slots : Installed(i) /\ ofHandle[i] = h
                    \/ \E c \in Conts : op[c] = "close" /\ chandle[c] = h

\* Slots, handles and busy counts agree with what libnfs holds.
HandlesAccounted ==
    HandlesTypeOK /\ BusyCountExact /\ UsesOpenHandle /\ AllocatedSlotHasOwner /\ HandlesNotLeaked
=============================================================================
