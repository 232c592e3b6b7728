------------------------------ MODULE FileFds ------------------------------
(***************************************************************************)
(* The file system calls of the C library (lib/libc/posix/file.c) and the  *)
(* descriptor table they use (fd.c, close and dup3 of io.c), for one       *)
(* thread.  A call is a sequence of blocking commands to the file server,  *)
(* any of which may fail; each command is one step.  The server is         *)
(* external: a tree of paths, and descriptors of its own.                  *)
(*                                                                         *)
(* A path is a sequence of names from the root.                            *)
(***************************************************************************)
EXTENDS Integers, FiniteSets, SequencesExt

CONSTANTS
    Fds,        \* descriptors that are not the console's
    ServerFds,
    NoServerFd, \* -1 in fs_server_fd_map
    Paths,      \* paths below the root
    Chunk,      \* FS_BUFFER_SIZE
    Buffers,    \* buffers of the shared region
    MaxSize,    \* bound on the size of a file and on file_ptr
    Lengths,    \* lengths of transfers (model bound)
    Offsets     \* offsets of lseek (model bound)

FileFdsAssumption ==
    /\ Fds \subseteq Nat /\ NoServerFd \notin ServerFds
    /\ Chunk \in Nat \ {0} /\ Buffers \in Nat /\ MaxSize \in Nat
    /\ Lengths \subseteq Nat \ {0} /\ Offsets \subseteq Int

VARIABLES
    fd_table,           \* which descriptors are active, for a directory or not, and file_ptr
    fs_server_fd_map,
    fd_path,
    free_buffers,       \* how many buffers are not used
    call,               \* the call in progress, before its next command
    server,             \* what each of the server's descriptors has open
    tree,               \* what is at each path
    shared              \* history: server descriptors that dup3 has handed on

vars == <<fd_table, fs_server_fd_map, fd_path, free_buffers, call, server, tree, shared>>

Root == <<>>
Closed == [active |-> FALSE, dir |-> FALSE, ptr |-> 0]
Idle == [op |-> "none"]
Nothing == [kind |-> "none", bytes |-> <<>>]
NotOpen == [open |-> FALSE, path |-> Root, dir |-> FALSE]

Init ==
    /\ fd_table = [f \in Fds |-> Closed]
    /\ fs_server_fd_map = [f \in Fds |-> NoServerFd]
    /\ fd_path = [f \in Fds |-> Root]
    /\ free_buffers = Buffers
    /\ call = Idle
    /\ server = [s \in ServerFds |-> NotOpen]
    /\ tree = [p \in Paths \cup {Root} |-> IF p = Root THEN [Nothing EXCEPT !.kind = "dir"] ELSE Nothing]
    /\ shared = {}

Active == {f \in Fds : fd_table[f].active}
SmallerOf(a, b) == IF a < b THEN a ELSE b

\* resolve_path: an absolute path, or one below the path of a descriptor.  A
\* descriptor that is not active, or that dup3 has made, has the empty path.
Resolve(base, rel) == IF rel = <<".">> THEN base ELSE base \o rel
Bases == {Root} \cup {fd_path[f] : f \in Fds}

\* A call starts only when the thread is in none.
Starts == call = Idle
Returns == call' = Idle

-----------------------------------------------------------------------------
(* openat.                                                                 *)

\* posix_fd_allocate.
FirstFree == CHOOSE f \in Fds \ Active : \A g \in Fds \ Active : f <= g

\* The command after the one at pc, for these flags.
AfterOpen(c, pc) ==
    CASE pc = "start" /\ c.excl               -> "excl"
      [] pc \in {"start", "excl"} /\ c.wr /\ ~c.dir -> "isdir"
      [] OTHER                                -> "open"

\* sys_openat up to its first command.
Open(path, flags) ==
    /\ Starts
    /\ IF free_buffers = 0 \/ Fds = Active
       THEN /\ Returns
            /\ UNCHANGED <<fd_table, free_buffers>>
       ELSE LET c == [op |-> "openat", fd |-> FirstFree, path |-> path, excl |-> flags.excl,
                      wr |-> flags.wr, dir |-> flags.dir, trunc |-> flags.trunc,
                      create |-> flags.create, pc |-> "start", s |-> NoServerFd]
            IN  /\ call' = [c EXCEPT !.pc = AfterOpen(c, "start")]
                /\ fd_table' = [fd_table EXCEPT ![FirstFree] = [Closed EXCEPT !.active = TRUE]]
                /\ free_buffers' = free_buffers - 1
    /\ UNCHANGED <<fs_server_fd_map, fd_path, server, tree, shared>>

\* openat gives up before the server has opened anything.
OpenGivesUp ==
    /\ fd_table' = [fd_table EXCEPT ![call.fd] = Closed]
    /\ free_buffers' = free_buffers + 1
    /\ Returns

\* fstat_int on the path: it needs two more buffers, and "/" is never asked for.
StatFinds(path) == path = Root \/ (free_buffers >= 2 /\ tree[path].kind # "none")

\* O_CREAT | O_EXCL on a path that exists.  A stat that fails lets openat go on.
OpenExcl(fails) ==
    /\ call.op = "openat" /\ call.pc = "excl"
    /\ IF ~fails /\ StatFinds(call.path) THEN OpenGivesUp
       ELSE /\ call' = [call EXCEPT !.pc = AfterOpen(call, "excl")]
            /\ UNCHANGED <<fd_table, free_buffers>>
    /\ UNCHANGED <<fs_server_fd_map, fd_path, server, tree, shared>>

\* Opening a directory for writing.
OpenIsDir(fails) ==
    /\ call.op = "openat" /\ call.pc = "isdir"
    /\ IF ~fails /\ StatFinds(call.path) /\ tree[call.path].kind = "dir" THEN OpenGivesUp
       ELSE /\ call' = [call EXCEPT !.pc = "open"]
            /\ UNCHANGED <<fd_table, free_buffers>>
    /\ UNCHANGED <<fs_server_fd_map, fd_path, server, tree, shared>>

HasParent(path) == tree[SubSeq(path, 1, Len(path) - 1)].kind = "dir"

\* The path can be opened as what was asked for, or be created.
CanOpen(path, dir, create) ==
    \/ tree[path].kind = (IF dir THEN "dir" ELSE "file")
    \/ ~dir /\ create /\ tree[path].kind = "none" /\ HasParent(path)

\* The descriptor openat returns.
Install(s) ==
    /\ fd_table' = [fd_table EXCEPT ![call.fd] = [active |-> TRUE, dir |-> call.dir, ptr |-> 0]]
    /\ fs_server_fd_map' = [fs_server_fd_map EXCEPT ![call.fd] = s]
    /\ fd_path' = [fd_path EXCEPT ![call.fd] = call.path]
    /\ Returns

\* FS_CMD_FILE_OPEN or FS_CMD_DIR_OPEN.
OpenFails ==
    /\ call.op = "openat" /\ call.pc = "open"
    /\ OpenGivesUp
    /\ UNCHANGED <<fs_server_fd_map, fd_path, server, tree, shared>>

OpenSucceeds(s) ==
    /\ call.op = "openat" /\ call.pc = "open"
    /\ ~server[s].open /\ CanOpen(call.path, call.dir, call.create)
    /\ server' = [server EXCEPT ![s] = [open |-> TRUE, path |-> call.path, dir |-> call.dir]]
    /\ tree' = IF call.dir THEN tree ELSE [tree EXCEPT ![call.path].kind = "file"]
    /\ free_buffers' = free_buffers + 1
    /\ IF call.trunc /\ ~call.dir
       THEN /\ call' = [call EXCEPT !.pc = "trunc", !.s = s]
            /\ UNCHANGED <<fd_table, fs_server_fd_map, fd_path>>
       ELSE Install(s)
    /\ UNCHANGED shared

\* FS_CMD_FILE_TRUNCATE.  If it fails nobody closes the server's descriptor.
OpenTruncates(fails) ==
    /\ call.op = "openat" /\ call.pc = "trunc"
    /\ IF fails
       THEN /\ fd_table' = [fd_table EXCEPT ![call.fd] = Closed]
            /\ Returns
            /\ UNCHANGED <<fs_server_fd_map, fd_path, tree>>
       ELSE /\ tree' = [tree EXCEPT ![server[call.s].path].bytes = <<>>]
            /\ Install(call.s)
    /\ UNCHANGED <<free_buffers, server, shared>>

-----------------------------------------------------------------------------
(* read and write.                                                         *)

\* The bytes behind a descriptor, and whether the server would take it.
ServerFile(f) == server[fs_server_fd_map[f]]
Serves(f) == fs_server_fd_map[f] \in ServerFds /\ ServerFile(f).open /\ ~ServerFile(f).dir
Bytes(f) == tree[ServerFile(f).path].bytes
Byte(b, i) == IF i \in DOMAIN b THEN b[i] ELSE 0

\* b with data at an offset; what lies between the end and the offset is 0.
Overwrite(b, offset, data) ==
    LET end == offset + Len(data)
    IN  [i \in 1 .. (IF end > Len(b) THEN end ELSE Len(b)) |->
            IF i \in offset + 1 .. end THEN data[i - offset] ELSE Byte(b, i)]

\* sys_read, sys_write up to the first command.
Transfer(op, f, n) ==
    /\ Starts /\ f \in Active
    /\ IF free_buffers = 0 THEN Returns /\ UNCHANGED free_buffers
       ELSE /\ call' = [op |-> op, fd |-> f, len |-> n, done |-> 0, data |-> <<>>]
            /\ free_buffers' = free_buffers - 1
    /\ UNCHANGED <<fd_table, fs_server_fd_map, fd_path, server, tree, shared>>

\* Seeded fault: a read moves file_ptr by what was asked for.
MovedAll(k, data) ==
    LET asked == SmallerOf(call.len, Chunk)
        f     == call.fd
    IN  IF k < asked \/ call.len = asked
        THEN /\ free_buffers' = free_buffers + 1
             /\ fd_table' = [fd_table EXCEPT ![f].ptr = @ + call.done + asked]
             /\ call' = [op |-> "done", fd |-> f, from |-> fd_table[f].ptr, data |-> data]
        ELSE /\ call' = [call EXCEPT !.len = @ - asked, !.done = @ + k, !.data = data]
             /\ UNCHANGED <<free_buffers, fd_table>>

\* One FS_CMD_FILE_READ or FS_CMD_FILE_WRITE moved k bytes: the loop goes on
\* while a whole chunk was moved and there is more.
Moved(k, data) ==
    LET asked == SmallerOf(call.len, Chunk)
        done  == call.done + k
        f     == call.fd
    IN  IF k < asked \/ call.len = asked
        THEN /\ free_buffers' = free_buffers + 1
             /\ fd_table' = [fd_table EXCEPT ![f].ptr = @ + done]
             /\ call' = [op |-> "done", fd |-> f, from |-> fd_table[f].ptr, data |-> data]
        ELSE /\ call' = [call EXCEPT !.len = @ - asked, !.done = done, !.data = data]
             /\ UNCHANGED <<free_buffers, fd_table>>

\* The i-th byte a call writes is i.
WriteChunk(k) ==
    LET f == call.fd IN
    /\ call.op = "write" /\ Serves(f) /\ k \in 0 .. SmallerOf(call.len, Chunk)
    /\ fd_table[f].ptr >= 0 /\ fd_table[f].ptr + call.done + k <= MaxSize
    /\ LET data == [i \in 1 .. k |-> call.done + i] IN
       /\ tree' = [tree EXCEPT ![ServerFile(f).path].bytes =
                      Overwrite(@, fd_table[f].ptr + call.done, data)]
       /\ Moved(k, call.data \o data)
    /\ UNCHANGED <<fs_server_fd_map, fd_path, server, shared>>

ReadChunk(k) ==
    LET f     == call.fd
        start == fd_table[f].ptr + call.done
    IN  /\ call.op = "read" /\ Serves(f) /\ k \in 0 .. SmallerOf(call.len, Chunk)
        /\ fd_table[f].ptr >= 0 /\ (k > 0 => start + k <= Len(Bytes(f)))
        /\ Moved(k, call.data \o SubSeq(Bytes(f), start + 1, start + k))
        /\ UNCHANGED <<fs_server_fd_map, fd_path, server, tree, shared>>

\* The call returns to the application.
TransferReturns ==
    /\ call.op = "done" /\ Returns
    /\ UNCHANGED <<fd_table, fs_server_fd_map, fd_path, free_buffers, server, tree, shared>>

\* The command fails: what earlier chunks moved is not reported.
TransferFails ==
    /\ call.op \in {"read", "write"}
    /\ free_buffers' = free_buffers + 1
    /\ Returns
    /\ UNCHANGED <<fd_table, fs_server_fd_map, fd_path, server, tree, shared>>

-----------------------------------------------------------------------------
(* The other calls.                                                        *)

\* sys_lseek.  Only SEEK_SET and SEEK_CUR refuse a negative result.
SeekTo(f, new) ==
    /\ Starts /\ f \in Active /\ new <= MaxSize
    /\ fd_table' = [fd_table EXCEPT ![f].ptr = new]
    /\ Returns
    /\ UNCHANGED <<fs_server_fd_map, fd_path, free_buffers, server, tree, shared>>

Seek(f, offset, whence) ==
    CASE whence = "set" -> offset >= 0 /\ SeekTo(f, offset)
      [] whence = "cur" -> fd_table[f].ptr + offset >= 0 /\ SeekTo(f, fd_table[f].ptr + offset)
      [] whence = "end" -> Serves(f) /\ SeekTo(f, Len(Bytes(f)) + offset)

\* file_close: the server closes what it has under the number.
ServerAfterClose(f) ==
    IF fs_server_fd_map[f] \notin ServerFds THEN server
    ELSE IF ServerFile(f).open /\ ServerFile(f).dir = fd_table[f].dir
         THEN [server EXCEPT ![fs_server_fd_map[f]] = NotOpen] ELSE server

\* Seeded fault: the descriptor goes and its entry in the map stays.
CloseUnmapped(f, fails) ==
    /\ Starts /\ f \in Active
    /\ server' = IF fails THEN server ELSE ServerAfterClose(f)
    /\ fd_table' = [fd_table EXCEPT ![f] = Closed]
    /\ fd_path' = [fd_path EXCEPT ![f] = Root]
    /\ Returns
    /\ UNCHANGED <<fs_server_fd_map, free_buffers, tree, shared>>

\* sys_close; the descriptor goes even if the command fails.
Close(f, fails) ==
    /\ Starts /\ f \in Active
    /\ server' = IF fails THEN server ELSE ServerAfterClose(f)
    /\ fd_table' = [fd_table EXCEPT ![f] = Closed]
    /\ fs_server_fd_map' = [fs_server_fd_map EXCEPT ![f] = NoServerFd]
    /\ fd_path' = [fd_path EXCEPT ![f] = Root]
    /\ Returns
    /\ UNCHANGED <<free_buffers, tree, shared>>

\* Seeded fault: the map is copied the wrong way round.
Dup3Backwards(old, new, fails) ==
    /\ Starts /\ old \in Active /\ new # old
    /\ fails => new \in Active
    /\ server' = IF new \in Active /\ ~fails THEN ServerAfterClose(new) ELSE server
    /\ fd_table' = [fd_table EXCEPT ![new] = fd_table[old]]
    /\ fs_server_fd_map' = [fs_server_fd_map EXCEPT ![old] = fs_server_fd_map[new]]
    /\ fd_path' = [fd_path EXCEPT ![new] = Root]
    /\ shared' = shared \cup {fs_server_fd_map[new]}
    /\ Returns
    /\ UNCHANGED <<free_buffers, tree>>

\* sys_dup3 and file_dup3: what the new descriptor named is closed, and it gets
\* the same server descriptor, its own file_ptr and no path.  Whether the close
\* failed is not looked at.
Dup3(old, new, fails) ==
    /\ Starts /\ old \in Active /\ new # old
    /\ fails => new \in Active
    /\ server' = IF new \in Active /\ ~fails THEN ServerAfterClose(new) ELSE server
    /\ fd_table' = [fd_table EXCEPT ![new] = fd_table[old]]
    /\ fs_server_fd_map' = [fs_server_fd_map EXCEPT ![new] = fs_server_fd_map[old]]
    /\ fd_path' = [fd_path EXCEPT ![new] = Root]
    /\ shared' = shared \cup {fs_server_fd_map[old]}
    /\ Returns
    /\ UNCHANGED <<free_buffers, tree>>

Empty(path) == \A q \in Paths : (tree[q].kind # "none" /\ IsPrefix(path, q)) => q = path
InUse(path) == \E s \in ServerFds : server[s].open /\ server[s].path = path

\* sys_mkdirat.
MakeDir(path) ==
    /\ Starts /\ path # Root /\ free_buffers > 0
    /\ HasParent(path) /\ tree[path].kind = "none"
    /\ tree' = [tree EXCEPT ![path].kind = "dir"]
    /\ Returns
    /\ UNCHANGED <<fd_table, fs_server_fd_map, fd_path, free_buffers, server, shared>>

\* sys_unlinkat, with or without AT_REMOVEDIR.  The server refuses a file that is
\* open and a directory that is not empty.
Unlink(path, dir) ==
    /\ Starts /\ path # Root /\ free_buffers > 0
    /\ tree[path].kind = (IF dir THEN "dir" ELSE "file")
    /\ Empty(path) /\ ~InUse(path)
    /\ tree' = [tree EXCEPT ![path] = Nothing]
    /\ Returns
    /\ UNCHANGED <<fd_table, fs_server_fd_map, fd_path, free_buffers, server, shared>>

Command ==
    \/ \E b \in BOOLEAN : OpenExcl(b) \/ OpenIsDir(b) \/ OpenTruncates(b)
    \/ OpenFails \/ TransferFails \/ TransferReturns
    \/ \E s \in ServerFds : OpenSucceeds(s)
    \/ \E k \in 0 .. Chunk : ReadChunk(k) \/ WriteChunk(k)

\* The flags that lead to different commands.
ReadOnly == [dir |-> FALSE, wr |-> FALSE, create |-> FALSE, excl |-> FALSE, trunc |-> FALSE]
Creating == [ReadOnly EXCEPT !.wr = TRUE, !.create = TRUE]
OpenFlags == {ReadOnly, [ReadOnly EXCEPT !.dir = TRUE],
              [Creating EXCEPT !.trunc = TRUE], [Creating EXCEPT !.excl = TRUE]}

Syscall ==
    \/ \E base \in Bases, rel \in Paths \cup {<<".">>}, flags \in OpenFlags :
         LET path == Resolve(base, rel) IN
         /\ path \in Paths \cup {Root} /\ Open(path, flags)
    \/ \E f \in Fds :
         \/ \E n \in Lengths : Transfer("read", f, n) \/ Transfer("write", f, n)
         \/ \E o \in Offsets, w \in {"set", "cur", "end"} : Seek(f, o, w)
         \/ \E b \in BOOLEAN : Close(f, b) \/ \E g \in Fds : Dup3(f, g, b)
    \/ \E p \in Paths : MakeDir(p) \/ (\E d \in BOOLEAN : Unlink(p, d))

Next == Syscall \/ Command

Spec == Init /\ [][Next]_vars

-----------------------------------------------------------------------------
(* Properties.                                                             *)

Opened == {f \in Active : call.op = "openat" => call.fd # f}

\* openat asserts that a descriptor it has just allocated names nothing on the
\* server: "failure here means we haven't cleaned up properly".
FreeFdIsClean ==
    \A f \in Fds \ Opened : fs_server_fd_map[f] = NoServerFd /\ fd_path[f] = Root

\* A descriptor names the server's descriptor of the file it was opened for, and
\* no other names the same one, unless dup3 has handed that one on.
DescriptorKeepsItsFile ==
    \A f \in Opened : fs_server_fd_map[f] \notin shared =>
        /\ ServerFile(f) = [open |-> TRUE, path |-> fd_path[f], dir |-> fd_table[f].dir]
        /\ \A g \in Opened \ {f} : fs_server_fd_map[g] # fs_server_fd_map[f]

\* Every way out of a call gives its buffers of the shared region back.
BuffersComeBack == call = Idle => free_buffers = Buffers

\* A read or write in several chunks is one transfer: the bytes are those of the
\* file from the old file_ptr on, in order, and file_ptr moves past them, however
\* short the server cuts a chunk.
TransferExact ==
    call.op = "done" =>
        LET end == call.from + Len(call.data) IN
        /\ fd_table[call.fd].ptr = end
        /\ call.data = SubSeq(Bytes(call.fd), call.from + 1, end)

Orphan(s) ==
    /\ server[s].open
    /\ \A f \in Active : fs_server_fd_map[f] # s
    /\ call.op = "openat" => call.s # s

\* The server has a descriptor open that nobody can close only after a truncation
\* in openat, a close, or the close that dup3 makes and does not check, that
\* failed, if dup3 has not handed it on.
OrphansComeFromFailure ==
    \A s \in ServerFds \ shared : (~Orphan(s) /\ Orphan(s)') =>
        \/ OpenTruncates(TRUE)
        \/ \E f \in Fds : Close(f, TRUE) \/ (\E g \in Fds : Dup3(f, g, TRUE))
=============================================================================
