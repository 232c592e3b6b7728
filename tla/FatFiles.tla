------------------------------ MODULE FatFiles ------------------------------
(***************************************************************************)
(* The open-file bookkeeping of the FAT server while several worker        *)
(* cothreads run its handlers: the descriptor table of lib/fs/server/fd.c, *)
(* the pools of FIL and DIR objects and the mount flag of                  *)
(* components/fs/fat/op.c, and of FatFs (dep/ff15/ff.c) the registration,  *)
(* the mount id and the validity of an open object.                        *)
(*                                                                         *)
(* A handler gives up the processor only inside a FatFs call that reaches  *)
(* the disk, so an action is the code from one such call to the next.  A   *)
(* FatFs call fails at any time with a disk error.  FF_FS_LOCK does not    *)
(* bound the open objects: the root directory takes no lock entry and      *)
(* readers of one file share one.                                          *)
(*                                                                         *)
(* A descriptor, index + generation * MAX_OPEN_FILES in the code, is the   *)
(* pair of the two; MAX_OPEN_FILES divides 2^64, so the split is exact.    *)
(***************************************************************************)
EXTENDS Integers, FiniteSets

CONSTANTS
    Workers,    \* the worker cothreads
    Slots,      \* indices of oftable
    Files,      \* the FIL objects files[]
    Dirs,       \* the DIR objects dirs[]
    NoObj,      \* the null handle
    MaxGen,     \* bound on the generations the model reaches
    MaxFsid,    \* bound on the mounts the model reaches
    AnyFd       \* TRUE: clients also send descriptors they were never given

ASSUME FatFilesAssumption ==
    /\ IsFiniteSet(Workers)
    /\ Files \cap Dirs = {}
    /\ NoObj \notin Files \cup Dirs
    /\ MaxGen \in Nat /\ MaxFsid \in Nat
    /\ AnyFd \in BOOLEAN

Objs == Files \cup Dirs
Kinds == {"file", "dir"}
Pool(k) == IF k = "file" THEN Files ELSE Dirs
Open(k) == IF k = "file" THEN "open_file" ELSE "open_dir"
Busy(k) == IF k = "file" THEN "busy_file" ELSE "busy_dir"
States == {"free", "allocated", "open_file", "open_dir", "busy_file", "busy_dir"}
Fds == Slots \X (0 .. MaxGen + 1)

VARIABLES
    fsInitialised, \* fs_initialised
    registered,    \* FatFs[0] points to fatfs
    typed,         \* fatfs.fs_type # 0
    fsid,          \* Fsid: mounts so far; fatfs.id while typed
    used,          \* file_used[] and dir_used[]
    objId,         \* obj.id of an object, 0 while obj.fs is null
    ofState,       \* oftable[i].state
    ofHandle,      \* oftable[i].handle
    ofBusy,        \* oftable[i].busy_count
    ofGen,         \* oftable[i].generation
    pc,            \* the FatFs call in which a worker is suspended
    wfd,           \* the fd of the request a worker serves
    wobj,          \* the FIL or DIR the worker's handler holds
    issued,        \* history: every fd an open returned
    lost           \* history: slots a failed handle_dir_close left allocated

mountVars  == <<fsInitialised, registered, typed, fsid>>
objVars    == <<used, objId>>
ofVars     == <<ofState, ofHandle, ofBusy, ofGen>>
workerVars == <<pc, wfd, wobj>>
vars == <<mountVars, objVars, ofVars, workerVars, issued, lost>>

NoFd == <<NoObj, 0>>

Init ==
    /\ fsInitialised = FALSE /\ registered = FALSE /\ typed = FALSE /\ fsid = 0
    /\ used = [o \in Objs |-> FALSE]
    /\ objId = [o \in Objs |-> 0]
    /\ ofState = [i \in Slots |-> "free"]
    /\ ofHandle = [i \in Slots |-> NoObj]
    /\ ofBusy = [i \in Slots |-> 0]
    /\ ofGen = [i \in Slots |-> 0]
    /\ pc = [w \in Workers |-> "idle"]
    /\ wfd = [w \in Workers |-> NoFd]
    /\ wobj = [w \in Workers |-> NoObj]
    /\ issued = {} /\ lost = {}

-----------------------------------------------------------------------------
(* Helpers.                                                                *)

\* validate(): the object was opened under the mount that is in force.
Valid(o) == typed /\ objId[o] = fsid

\* Seeded fault: fd_to_of does not compare generations.
ResolvesAny(fd) == fd[1] \in Slots

\* fd_to_of returns a slot: only generations below the slot's are refused.
Resolves(fd) == fd[2] >= ofGen[fd[1]]

\* Descriptors a client sends.
InputFds == IF AnyFd THEN Fds ELSE issued

\* fd_begin_op_file or fd_begin_op_dir succeeds.
Accepts(fd, k) == Resolves(fd) /\ ofState[fd[1]] \in {Open(k), Busy(k)}

\* mount_volume reaches its end: the object is valid under a new mount id.
Mounted == /\ fsid < MaxFsid
           /\ typed' = TRUE
           /\ fsid' = fsid + 1

Suspend(w, p, fd, o) ==
    /\ pc[w] = "idle"
    /\ pc' = [pc EXCEPT ![w] = p]
    /\ wfd' = [wfd EXCEPT ![w] = fd]
    /\ wobj' = [wobj EXCEPT ![w] = o]

Return(w) ==
    /\ pc' = [pc EXCEPT ![w] = "idle"]
    /\ wfd' = [wfd EXCEPT ![w] = NoFd]
    /\ wobj' = [wobj EXCEPT ![w] = NoObj]

-----------------------------------------------------------------------------
(* Mounting.                                                               *)

\* handle_initialise up to mount_volume: f_mount drops the old registration
\* and registers fatfs, invalid.  A second one returns an error at once.
Initialise(w) ==
    /\ ~fsInitialised
    /\ Suspend(w, "initialise", NoFd, NoObj)
    /\ fsInitialised' = TRUE
    /\ registered' = TRUE
    /\ typed' = FALSE
    /\ UNCHANGED <<fsid, objVars, ofVars, issued, lost>>

InitialiseDone(w) ==
    /\ pc[w] = "initialise"
    /\ Mounted
    /\ Return(w)
    /\ UNCHANGED <<fsInitialised, registered, objVars, ofVars, issued, lost>>

InitialiseFail(w) ==
    /\ pc[w] = "initialise"
    /\ fsInitialised' = FALSE
    /\ Return(w)
    /\ UNCHANGED <<registered, typed, fsid, objVars, ofVars, issued, lost>>

\* handle_deinitialise: f_unmount reaches no disk.
Deinitialise(w) ==
    /\ pc[w] = "idle"
    /\ fsInitialised
    /\ fsInitialised' = FALSE
    /\ registered' = FALSE
    /\ typed' = (typed /\ ~registered)
    /\ UNCHANGED <<fsid, objVars, ofVars, workerVars, issued, lost>>

\* stat, rename, remove, mkdir and rmdir keep no state here, but the first
\* FatFs call that finds the volume registered and invalid mounts it.
PathOp(w) ==
    /\ registered /\ ~typed
    /\ Suspend(w, "path", NoFd, NoObj)
    /\ UNCHANGED <<mountVars, objVars, ofVars, issued, lost>>

PathOpDone(w) ==
    /\ pc[w] = "path"
    /\ Mounted
    /\ Return(w)
    /\ UNCHANGED <<fsInitialised, registered, objVars, ofVars, issued, lost>>

PathOpFail(w) ==
    /\ pc[w] = "path"
    /\ Return(w)
    /\ UNCHANGED <<mountVars, objVars, ofVars, issued, lost>>

-----------------------------------------------------------------------------
(* handle_file_open and handle_dir_open.  A bad path, an exhausted pool or *)
(* an unregistered volume is an early return that changes nothing.         *)

OpenStart(w, k) ==
    /\ registered
    /\ \E o \in Pool(k) :
        /\ ~used[o]
        /\ used' = [used EXCEPT ![o] = TRUE]
        /\ Suspend(w, IF typed THEN "open" ELSE "mount", NoFd, o)
    /\ UNCHANGED <<mountVars, objId, ofVars, issued, lost>>

OpenMounted(w) ==
    /\ pc[w] = "mount"
    /\ Mounted
    /\ pc' = [pc EXCEPT ![w] = "open"]
    /\ UNCHANGED <<fsInitialised, registered, objVars, ofVars, wfd, wobj, issued, lost>>

\* f_open or f_opendir fails: file_free or dir_free.
OpenFail(w) ==
    /\ pc[w] \in {"mount", "open"}
    /\ used' = [used EXCEPT ![wobj[w]] = FALSE]
    /\ objId' = [objId EXCEPT ![wobj[w]] = 0]
    /\ Return(w)
    /\ UNCHANGED <<mountVars, ofVars, issued, lost>>

\* It succeeds: fd_alloc, assert(!err), fd_set_file or fd_set_dir.
OpenDone(w, k) ==
    /\ pc[w] = "open"
    /\ wobj[w] \in Pool(k)
    /\ objId' = [objId EXCEPT ![wobj[w]] = fsid]
    /\ \E i \in Slots :
        /\ ofState[i] = "free"
        /\ ofState' = [ofState EXCEPT ![i] = Open(k)]
        /\ ofHandle' = [ofHandle EXCEPT ![i] = wobj[w]]
        /\ issued' = issued \cup {<<i, ofGen[i]>>}
    /\ Return(w)
    /\ UNCHANGED <<mountVars, used, ofBusy, ofGen, lost>>

-----------------------------------------------------------------------------
(* Handlers that bracket FatFs calls with fd_begin_op and fd_end_op: read, *)
(* write, truncate, sync, size; readdir, seek, rewind, tell.               *)

\* Seeded fault: of_begin_op_file does not count a second operation.
OpStartUncounted(w, k) ==
    \E fd \in InputFds :
        /\ Accepts(fd, k)
        /\ Suspend(w, "op", fd, ofHandle[fd[1]])
        /\ ofState' = [ofState EXCEPT ![fd[1]] = Busy(k)]
        /\ ofBusy' = [ofBusy EXCEPT ![fd[1]] = 1]
        /\ UNCHANGED <<mountVars, objVars, ofHandle, ofGen, issued, lost>>

OpStart(w, k) ==
    \E fd \in InputFds :
        /\ Accepts(fd, k)
        /\ Suspend(w, "op", fd, ofHandle[fd[1]])
        /\ ofState' = [ofState EXCEPT ![fd[1]] = Busy(k)]
        /\ ofBusy' = [ofBusy EXCEPT ![fd[1]] = IF ofState[fd[1]] = Open(k) THEN 1
                                               ELSE @ + 1]
        /\ UNCHANGED <<mountVars, objVars, ofHandle, ofGen, issued, lost>>

EndWith(w, k, left, state) ==
    LET i == wfd[w][1] IN
    /\ pc[w] = "op"
    /\ Resolves(wfd[w])
    /\ ofState[i] = Busy(k)
    /\ ofBusy' = [ofBusy EXCEPT ![i] = left]
    /\ ofState' = [ofState EXCEPT ![i] = state]
    /\ Return(w)
    /\ UNCHANGED <<mountVars, objVars, ofHandle, ofGen, issued, lost>>

\* Seeded fault: an error path runs fd_end_op twice.
OpEndTwice(w, k) ==
    LET n == ofBusy[wfd[w][1]] IN EndWith(w, k, n - 2, IF n <= 2 THEN Open(k) ELSE Busy(k))

\* fd_end_op: asserts that fd resolves and that its slot is busy.
OpEnd(w, k) ==
    LET n == ofBusy[wfd[w][1]]
    IN  EndWith(w, k, n - 1, IF n = 1 THEN Open(k) ELSE Busy(k))

-----------------------------------------------------------------------------
(* Closing.  fd_begin_op and fd_end_op in a row fetch the object; fd_unset *)
(* fails on a busy slot (OUTSTANDING_OPERATIONS), which changes nothing.   *)

\* Seeded fault: of_unset takes a busy slot as well.
FileCloseBusy(w) ==
    \E fd \in InputFds :
        /\ Accepts(fd, "file")
        /\ ofGen[fd[1]] < MaxGen
        /\ Suspend(w, "close", fd, ofHandle[fd[1]])
        /\ ofState' = [ofState EXCEPT ![fd[1]] = "allocated"]
        /\ ofHandle' = [ofHandle EXCEPT ![fd[1]] = NoObj]
        /\ UNCHANGED <<mountVars, objVars, ofBusy, ofGen, issued, lost>>

\* handle_file_close up to f_close, which flushes the file to the disk.
FileClose(w) ==
    \E fd \in InputFds :
        /\ Accepts(fd, "file") /\ ofState[fd[1]] = "open_file"
        /\ ofGen[fd[1]] < MaxGen
        /\ Suspend(w, "close", fd, ofHandle[fd[1]])
        /\ ofState' = [ofState EXCEPT ![fd[1]] = "allocated"]
        /\ ofHandle' = [ofHandle EXCEPT ![fd[1]] = NoObj]
        /\ ofBusy' = [ofBusy EXCEPT ![fd[1]] = 0]
        /\ UNCHANGED <<mountVars, objVars, ofGen, issued, lost>>

\* Seeded fault: of_free forgets the generation.
FileCloseSameGeneration(w) ==
    /\ pc[w] = "close"
    /\ Valid(wobj[w])
    /\ used' = [used EXCEPT ![wobj[w]] = FALSE]
    /\ objId' = [objId EXCEPT ![wobj[w]] = 0]
    /\ ofState' = [ofState EXCEPT ![wfd[w][1]] = "free"]
    /\ Return(w)
    /\ UNCHANGED <<mountVars, ofHandle, ofBusy, ofGen, issued, lost>>

\* f_close succeeds, which takes a valid object: file_free and fd_free.
FileCloseDone(w) ==
    LET fd == wfd[w] IN
    /\ pc[w] = "close"
    /\ Valid(wobj[w])
    /\ used' = [used EXCEPT ![wobj[w]] = FALSE]
    /\ objId' = [objId EXCEPT ![wobj[w]] = 0]
    /\ IF Resolves(fd) /\ ofState[fd[1]] = "allocated"
       THEN /\ ofState' = [ofState EXCEPT ![fd[1]] = "free"]
            /\ ofGen' = [ofGen EXCEPT ![fd[1]] = @ + 1]
       ELSE UNCHANGED <<ofState, ofGen>>
    /\ Return(w)
    /\ UNCHANGED <<mountVars, ofHandle, ofBusy, issued, lost>>

\* Seeded faults: a failed f_close frees the FIL although the descriptor keeps
\* it; a failed f_close leaves the slot allocated, as handle_dir_close does.
FileCloseFailFrees(w) ==
    /\ pc[w] = "close"
    /\ used' = [used EXCEPT ![wobj[w]] = FALSE]
    /\ ofState' = [ofState EXCEPT ![wfd[w][1]] = "open_file"]
    /\ ofHandle' = [ofHandle EXCEPT ![wfd[w][1]] = wobj[w]]
    /\ Return(w)
    /\ UNCHANGED <<mountVars, objId, ofBusy, ofGen, issued, lost>>
FileCloseFailKeeps(w) ==
    /\ pc[w] = "close"
    /\ Return(w)
    /\ UNCHANGED <<mountVars, objVars, ofVars, issued, lost>>

\* f_close fails: the descriptor gets its file back.
FileCloseFail(w) ==
    LET fd == wfd[w] IN
    /\ pc[w] = "close"
    /\ IF Resolves(fd) /\ ofState[fd[1]] = "allocated"
       THEN /\ ofState' = [ofState EXCEPT ![fd[1]] = "open_file"]
            /\ ofHandle' = [ofHandle EXCEPT ![fd[1]] = wobj[w]]
       ELSE UNCHANGED <<ofState, ofHandle>>
    /\ Return(w)
    /\ UNCHANGED <<mountVars, objVars, ofBusy, ofGen, issued, lost>>

\* handle_dir_close reaches no disk.  It frees fd and object only when the
\* object is valid; otherwise the slot stays allocated and the DIR used.
DirClose(w) ==
    /\ pc[w] = "idle"
    /\ \E fd \in InputFds :
        LET o == ofHandle[fd[1]] IN
        /\ Accepts(fd, "dir") /\ ofState[fd[1]] = "open_dir"
        /\ ofGen[fd[1]] < MaxGen
        /\ ofHandle' = [ofHandle EXCEPT ![fd[1]] = NoObj]
        /\ ofBusy' = [ofBusy EXCEPT ![fd[1]] = 0]
        /\ IF Valid(o)
           THEN /\ ofState' = [ofState EXCEPT ![fd[1]] = "free"]
                /\ ofGen' = [ofGen EXCEPT ![fd[1]] = @ + 1]
                /\ used' = [used EXCEPT ![o] = FALSE]
                /\ objId' = [objId EXCEPT ![o] = 0]
                /\ UNCHANGED lost
           ELSE /\ ofState' = [ofState EXCEPT ![fd[1]] = "allocated"]
                /\ lost' = lost \cup {fd[1]}
                /\ UNCHANGED <<ofGen, used, objId>>
    /\ UNCHANGED <<mountVars, workerVars, issued>>

-----------------------------------------------------------------------------

WorkerNext(w) ==
    \/ Initialise(w) \/ InitialiseDone(w) \/ InitialiseFail(w)
    \/ Deinitialise(w)
    \/ PathOp(w) \/ PathOpDone(w) \/ PathOpFail(w)
    \/ \E k \in Kinds : OpenStart(w, k) \/ OpenDone(w, k)
    \/ OpenMounted(w) \/ OpenFail(w)
    \/ \E k \in Kinds : OpStart(w, k) \/ OpEnd(w, k)
    \/ FileClose(w) \/ FileCloseDone(w) \/ FileCloseFail(w)
    \/ DirClose(w)

Next == \E w \in Workers : WorkerNext(w)

Spec == Init /\ [][Next]_vars

-----------------------------------------------------------------------------
(* Properties.                                                             *)

\* The variables of fd.c and op.c keep their ranges.
TypeOK ==
    /\ fsInitialised \in BOOLEAN /\ registered \in BOOLEAN /\ typed \in BOOLEAN
    /\ fsid \in Nat
    /\ used \in [Objs -> BOOLEAN]
    /\ objId \in [Objs -> Nat]
    /\ ofState \in [Slots -> States]
    /\ ofHandle \in [Slots -> Objs \cup {NoObj}]
    /\ ofBusy \in [Slots -> Nat]
    /\ ofGen \in [Slots -> 0 .. MaxGen]
    /\ pc \in [Workers -> {"idle", "initialise", "path", "mount", "open", "op", "close"}]
    /\ wfd \in [Workers -> Fds \cup {NoFd}]
    /\ wobj \in [Workers -> Objs \cup {NoObj}]
    /\ issued \subseteq Fds /\ lost \subseteq Slots

\* Workers between fd_begin_op and fd_end_op on slot i.
Operating(i) == {w \in Workers : pc[w] = "op" /\ wfd[w][1] = i}

\* busy_count of a slot is the number of handlers operating on it, and the
\* slot is busy exactly then: close sees every outstanding operation.
BusyCountExact ==
    \A i \in Slots :
        /\ ofBusy[i] = Cardinality(Operating(i))
        /\ ofState[i] \in {"busy_file", "busy_dir"} <=> Operating(i) # {}

\* Whatever other handlers, closes and remounts run while a handler waits for
\* the disk, its descriptor stays valid and its slot busy (the two asserts of
\* fd_end_op), and it holds the object the descriptor names, which its pool has
\* not given to anybody else.
NoUseAfterClose ==
    \A w \in Workers : pc[w] = "op" =>
        /\ Resolves(wfd[w])
        /\ ofState[wfd[w][1]] \in {"busy_file", "busy_dir"}
        /\ ofHandle[wfd[w][1]] = wobj[w]
        /\ wobj[w] \in Objs /\ used[wobj[w]]

Installed(i) == ofState[i] \in {"open_file", "open_dir", "busy_file", "busy_dir"}
Holds(w) == pc[w] \in {"mount", "open", "close"}

\* No FIL or DIR has two owners: it is installed in at most one slot, or held
\* by at most one handler that opens or closes it, and its pool marks it used.
\* The asserts of file_free and dir_free follow.
OneOwner ==
    /\ \A i \in Slots : Installed(i) => used[ofHandle[i]]
    /\ \A w \in Workers : Holds(w) => used[wobj[w]]
    /\ \A i, j \in Slots :
        Installed(i) /\ Installed(j) /\ i # j => ofHandle[i] # ofHandle[j]
    /\ \A w, v \in Workers : Holds(w) /\ Holds(v) /\ w # v => wobj[w] # wobj[v]
    /\ \A i \in Slots, w \in Workers : Installed(i) /\ Holds(w) => ofHandle[i] # wobj[w]

NoFileLost ==
    \A o \in Files : used[o] =>
        \/ \E i \in Slots : Installed(i) /\ ofHandle[i] = o
        \/ \E w \in Workers : Holds(w) /\ wobj[w] = o
NoSlotLost ==
    \A i \in Slots : ofState[i] = "allocated" =>
        i \in lost \/ \E w \in Workers : pc[w] = "close" /\ wfd[w][1] = i

\* No FIL and no slot leaks: a used FIL is installed in a slot or held by a
\* handler, and a slot left without an object belongs to the close that took
\* its FIL.  Excepted are the slots of directories: handle_dir_close gives
\* nothing back when f_closedir fails, so that slot stays lost for ever.
FilesNotLeaked == NoFileLost /\ NoSlotLost

\* The state of a slot says what its handle is: a file operation never gets a
\* DIR and a directory operation never a FIL, through reuse of the slot.
HandleKind ==
    \A i \in Slots :
        /\ ofState[i] \in {"open_file", "busy_file"} => ofHandle[i] \in Files
        /\ ofState[i] \in {"open_dir", "busy_dir"} => ofHandle[i] \in Dirs

\* A descriptor from an earlier open is refused once its slot was reused: among
\* the descriptors ever returned, the slot accepts that of its last open only.
StaleFdRefused ==
    \A fd \in issued : Accepts(fd, "file") \/ Accepts(fd, "dir") => fd[2] = ofGen[fd[1]]

\* Every successful open returns a descriptor no earlier open returned, so a
\* client that still holds a closed descriptor cannot reach another's file.
OpenReturnsFreshFd ==
    [][\A w \in Workers :
        pc[w] = "open" /\ pc'[w] = "idle" /\ used'[wobj[w]] => issued' # issued]_vars

\* op.c asserts that fd_alloc succeeds after every successful f_open and
\* f_opendir: a free slot is left for each handler inside one.
OpenFindsSlot ==
    (\E w \in Workers : pc[w] = "open") => \E i \in Slots : ofState[i] = "free"
=============================================================================
