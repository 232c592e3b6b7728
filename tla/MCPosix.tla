------------------------------ MODULE MCPosix ------------------------------
(* The C library's sockets, files and memory on small instances, one at a time:  *)
(* a behaviour picks a part and only that one moves.                             *)
EXTENDS SocketFds, TLC

CONSTANTS
  ServerFds, NoServerFd, Paths, Chunk, Buffers, MaxSize, Lengths, Offsets,  \* FileFds
  WordSize, Page, Area, Size, MaxLength                                     \* MoreCore

VARIABLES
  part,                                                                     \* the part that moves
  fd_table, fs_server_fd_map, fd_path, free_buffers, call, server, tree, shared, \* FileFds
  base, top, mappings                                                       \* MoreCore

fileVars == <<fd_table, fs_server_fd_map, fd_path, free_buffers, call, server, tree, shared>>
coreVars == <<base, top, mappings>>

Files == INSTANCE FileFds
Core == INSTANCE MoreCore

ASSUME FilesAssumption == Files!FileFdsAssumption
ASSUME CoreAssumption == Core!MoreCoreAssumption

InitAll == part \in {"sockets", "files", "core"} /\ Init /\ Files!Init /\ Core!Init

NextAll ==
  /\ UNCHANGED part
  /\ \/ part = "sockets" /\ Next /\ UNCHANGED <<fileVars, coreVars>>
     \/ part = "files" /\ Files!Next /\ UNCHANGED <<vars, coreVars>>
     \/ part = "core" /\ Core!Next /\ UNCHANGED <<vars, fileVars>>

SpecAll == InitAll /\ [][NextAll]_<<part, vars, fileVars, coreVars>>

\* A directory and a file in it, moved in two chunks of a byte.
DirAndFile == {<<"d">>, <<"d", "a">>}

Symmetry == Permutations(Pcbs) \cup Permutations(ServerFds)

-----------------------------------------------------------------------------
(* The properties of the parts, which their modules state.                 *)

\* SocketFds: dup3, close, accept and a failed creation keep descriptors, counts
\* and slots of the socket table together, and a slot comes back clean.
SlotsAccounted == part = "sockets" => (FdsOwnSockets /\ UnallocatedClean)

\* TcpSockets: lwIP's callbacks act on the socket that has their pcb.
CallbacksReachSocket == part = "sockets" => CallbacksReachTheirSocket

\* TcpSockets: the ring holds the next bytes of the stream and skips none.
StreamExact == part = "sockets" => (StreamInOrder /\ NothingSkipped)

\* TcpSockets: no callback leaves connect or accept asleep.
CallersWake == part = "sockets" => ConnectAndAcceptWake

\* FileFds: a free descriptor is clean and one in use names its own file, and
\* buffers come back whichever command fails.
FdsNameFiles == part = "files" =>
  (Files!FreeFdIsClean /\ Files!DescriptorKeepsItsFile /\ Files!BuffersComeBack)

\* FileFds: a transfer in chunks moves file_ptr by the bytes it moved.
TransferExact == part = "files" => Files!TransferExact

\* FileFds: only a failed truncation or close, the one in dup3 included, leaves the
\* server a descriptor nobody can close.
ServerFdLostByFailure == [][part = "files" => Files!OrphansComeFromFailure]_<<part, fileVars>>

\* MoreCore: brk and mmap give each byte away once when the area is made of pages.
MemoryHandedOutOnce == part = "core" => Core!MemoryHandedOutOnce
=============================================================================
