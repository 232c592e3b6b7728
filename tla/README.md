# A TLA+ development for EaglesOS

EaglesOS is a set of seL4 Microkit components: protection domains (PDs) that
share memory, signal each other with notifications and call each other with
protected procedure calls.  This directory holds TLA+ models of the components
that carry its own logic and of FatFs as its FAT server uses it, TLC
configurations that check them on small instances, and TLAPS proofs.
`PROJECT.json` lists components, runs, hazards, theorems, and for every
definition that models code the lines it stands for.

    tlc -workers 2 -config FatFiles.cfg MCFatFiles     one run
    tlapm FatFilesProof.tla                            one module of proofs

## The system

The code falls into a file system part, a firewall part, a C library and glue.

| Component | State it keeps | Operations | Correct when |
| --- | --- | --- | --- |
| fs protocol (`include/lions/fs/protocol.h`) | a command and a completion queue in shared memory | produce, consume, publish either | entries are read once, in order, and never overwritten |
| fs client helpers (`lib/fs/helpers`) | request ids with command, completion, flags; buffers of the share | allocate, issue, process completions, complete, free | a completion reaches the request of its id, and an id is reused only after that |
| FAT server loop (`components/fs/fat/event.c`, `io.c`) | `request_pool`, worker cothreads, semaphores, block queue | `notified`, spawn, wait for disk, answer; sector transfers | each request runs once and is answered, the reply finds room, no wake-up is lost |
| FAT handlers (`fat/op.c`, `lib/fs/server/fd.c`) | `oftable`, FIL and DIR pools, mount flag | one handler for each command | descriptors, objects and counts agree although handlers wait in the middle |
| FatFs (`dep/ff15/ff.c`) | sector window, FAT, directory tables, FIL and DIR objects, `Files[]` | the `f_*` functions the handlers call | the disk holds what the calls made of it, whichever access fails |
| NFS server (`components/fs/nfs`) | continuation pool, `oftable`, `nfs`, `network_ready` | `notified`, `process_commands`, handlers, libnfs callbacks | as for FAT; every continuation comes back |
| packet filters (`include/lions/firewall/filter.h`, `examples/firewall/filters`) | rules, id bitmap, connection instances | filter a packet; add and remove a rule, set the default | rule ids are exact, the most specific rule applies, connections follow their rule |
| router (`examples/firewall/routing`) | routing table, packets that wait for an address, notification flags | `notified`, `route`, `process_arp_waiting`, protected calls | longest matches decide; packets wait only for an answer that comes |
| ARP requester (`examples/firewall/arp/arp_requester.c`, `arp.h`) | the cache the router reads, request and response queues, tick count | requests, replies, retries, flush | every client is told what became of its request |
| ARP responder, ICMP module, network virtualisers | rings of buffers, flags | pass a buffer on, tell its reader | no buffer is left where nobody looks |
| posix layer (`lib/libc/posix`) | descriptors with their file, socket and flags; the break and the mappings | the libc calls | a descriptor reaches its own file or socket, transfers are exact, memory is given away once |
| TCP sockets (`lib/sock/tcp.c`) | sockets with receive ring and accept queue | create to close; lwIP's callbacks | callbacks reach their socket, the stream has no gap, sleepers wake |
| MicroPython, WAMR, framebuffer, VMM, examples | bindings and demonstrations | | not modelled |

How they interact: clients and file servers share two queues and a notification
bit each way; the FAT server and the block virtualiser share two more queues;
the handlers call FatFs, which waits for the disk inside their cothread; the NFS
server calls libnfs, which calls it back.  In the firewall a packet's buffer goes
from the receive virtualiser to a filter, to the router, and from there to a
transmit virtualiser, the webserver or back; filters read each other's instance
tables, the router reads the requester's cache, and the webserver changes rules
and routes by protected calls.  The C library turns calls into commands for the
file server and into calls of lwIP, whose callbacks run while a call waits.

What is hard: PDs run concurrently on shared queues that are read once and used
later; handlers of the FAT server wait for the disk between two looks at shared
tables; any disk access may be the one that fails; libnfs answers late, in any
order or with failure; the filters preempt each other (equal priorities are
time-sliced), the ARP requester preempts the router; timers, late replies and a
cache flush meet in one table; and every pool and queue has an edge.  The
hazards list in `PROJECT.json` names each of these at its line, with the
properties that watch it.

## The modules

    FsService                     what a file server promises
       ^        ^   (refinement)
    FatServer  NfsServer          event loops, both EXTEND FsClient
    FatFiles   NfsFiles           descriptor tables under suspended handlers
    FatDisk  FatDir  FatFile      FatFs: window, directories, data of a file
    FileFds  MoreCore             the C library's files and memory
    SocketFds EXTENDS TcpSockets  its sockets
    FwFilter                      the filters of one protocol
    FwBuffers                     a buffer's way through an interface
    FwRoutes                      the routing table
    WaitingPackets  <--  PacketQueue   (refinement)
       ^ used by
    FwRouter EXTENDS ArpRequester

    FatFilesProof  FwFilterProof  FwRouterProof
                                  theorems about the module of that name;
                                  FwFilterProof ends with FwBuffers,
                                  FatFilesProof with FatDisk, and FwRouterProof
                                  (theorems about MCFwRouter) with FwRoutes and
                                  PacketQueue
    FileTablesProof               theorems about NfsFiles and FatDir
    PosixProof                    theorems about MCPosix, which has the three
                                  modules of the C library as parts
    NfsServerProof  FatServerProof
                                  theorems about the servers, both EXTEND
                                  FsClientProof (lemmas on client and queues);
                                  the second ends with MCFsServers, from both

In every module an action is the code from one point at which others may
intervene to the next.

* **FsClient** is `helpers.c` as one thread runs it, and the two queues.  The
  queue is the sequence of its published entries.  `ClientProcess` reads a range
  counted before and `ClientConsume` publishes its consumption later, so the
  server may append in between.  `ClientFails` stops the client where it asserts:
  a command queue without room, or the id that the scan of the request table finds
  behind its end.
* **FatServer** is `notified()` of `event.c`.  Each access to shared memory
  (reading a queue's length, publishing consumption, publishing production, each
  notification) is a step; `spc` says which comes next.  A worker runs from one
  `wait_for_blk_resp` to the next (`WorkerDisk`, `WorkerReturn`).  The block
  virtualiser is external: it answers every request, in any order.
* **FatFiles** has one variable for each field of `oftable`, of the pools and of
  the mount state; `pc[w]` names the FatFs call in which a handler is suspended.
  FatFs is represented by what the handlers can tell: registration, mount id and
  the validity of an object, the lazy mount in any first call, and failure at any
  point.  A descriptor is the pair of slot and generation.
* **FatDisk** is `fs->win` with `sync_window`, `move_window` and `sync_fs` on top
  of `disk_read` and `disk_write`, which move blocks of several sectors and so
  read before they write part of one.  A worker gives up the processor in each
  wait and nowhere else.  A sector holds one of two stamps and a change takes the
  other, so a change that is lost shows.  `Next` lets operations of several workers
  overlap, `OneByOne` is what happens when clients wait for each completion.
* **FatDir** keeps a directory as slots in a chain of clusters, a name as one slot
  or as a run of long-name slots before it, and `Files[]`.  An operation is one
  step that may end, through a failing disk, between its parts or inside a
  registration or removal; what that leaves is counted in `stubs` (long entries
  without their short one), and a step that would act on a tree two directories
  share (`crossed`) is the last.  So is one whose `dir_clear` fails after a new
  cluster was linked to the table (`uncleared`): the cluster keeps what it held,
  names of an earlier directory or a file's bytes, in the slots not yet cleared.
* **FatFile** passes a volume from step to step as a record: FIL with its sector
  buffer, cluster chain, free count.  The parameter `left` of a call says how many
  disk accesses succeed before one fails, so every access of every call fails in
  some behaviour.  The entry is patched in the window (`entry`) and reaches the
  disk (`stored`) with `sync_fs` or the next access to the FAT.
* **NfsServer** is `notified()`, `process_commands` and the path of each class of
  handler with its callback through the continuation pool; **NfsFiles** is what
  they do to `oftable`.  libnfs refuses, or accepts and answers once.
* **FileFds** is `file.c` over `fd_table`, `fs_server_fd_map` and the paths of
  directories: each blocking command is a step, which may fail or move less than
  asked.  **SocketFds** is `sock.c`, and **TcpSockets** is `tcp.c` with a step for
  each part of a call between two waits and one for each lwIP callback; a pcb is
  represented by its state, the callbacks set and the argument they get, and the
  bytes of a connection are numbered; those that come before `accept` are dropped
  and counted (`lost`), and a failed assertion ends the behaviour (`Aborted`).  **MoreCore** is `mem.c` with addresses
  that wrap at the word size.
* **FwFilter** has a variable for each table of a filter.  A filter reads its
  neighbours' instances one entry per step, against the size of that moment,
  while `fw_filter_remove_instances` of the neighbour moves entries: the copy of
  an instance is not atomic, so a reader sees any mixture of the old and new
  fields (`RemoveCopy`).
* **FwBuffers** writes each component of an interface as a script: queues it
  drains in turn, then readers it tells, at any rate or if they asked for it.
  Handlers interleave at every queue operation.  `system` names the components a
  behaviour looks at in detail and those that pass a buffer on in one step.  The
  ICMP module's notification is deferred, one for each interface it has sent to,
  and Microkit keeps the last (`TellLast`): `overwritten` is set when that was
  another interface's.
* **FwRoutes** is the routing table with the calls that change it, and what
  `route()` makes of a destination.
* **PacketQueue** has the link fields, counters and heads of `packet_queue.c`.
  Links a list does not maintain keep stale contents, as in the code.
* **ArpRequester** and **FwRouter** are the two `notified()` functions on one
  interface.  The router's look-up of a cache entry, its tests and its choice are
  three steps, because the requester (priority 98) preempts the router (97);
  neither router nor webserver runs while the requester is ready (`Blocked`), and
  filters and webserver run only while the router waits.  The router's queue of
  packets is used through the actions of WaitingPackets, which PacketQueue is
  shown to implement.  A response that finds the router's queue full is gone
  (`discarded`), as nobody looks at the result of `fw_enqueue`.

Definitions under "Seeded fault" are variants of the definition they stand
before, as a plausible slip would leave it.  No next-state relation uses them;
they are there to show that each property fails when the code is wrong in that
way.

## The runs

Parts that share nothing are checked in one run: its `MC*` module has a variable
`part`, a behaviour picks one part and only that one moves, and each property
speaks of its part.

| Run | Question | Bounds |
| --- | --- | --- |
| `fs_servers` | Either server behind the same client: is every request in exactly one place, is there room for replies behind both and for commands behind FAT (behind NFS: as far as the commands it has not handled go), does the FAT server wait only with nothing to do (the comment above `notified()`), does every continuation come back, is every request completed but those no server answers, unless an assert stops the client, and does either implement FsService, status included? | 2 ids, queues and pool of 2, 2 workers, 1 block request for each handler; every class of NFS command but rmdir, which has a run of its own |
| `fat_files` | Can handlers that wait for the disk share, lose or reuse a FIL, a slot or a descriptor? Part disk: is no change of a sector lost and does the second FAT follow, one operation at a time? | 3 handlers, 2 slots, 2 FILs, 2 DIRs, generation 2, 2 mounts; clients send any descriptor; 2 workers, sectors of two FATs, a table, FSInfo and data in blocks of two, any request fails |
| `fat_files_full` (violation) | Does an open that FatFs accepted find a slot? | 1 of each |
| `file_systems` | Part dir: does a look-up find what registrations and removals left, do tables share nothing, do locks keep the entries of open files? File: is its content what the calls made it, does its entry reach the disk, are other files left alone? Handles: late and failing callbacks of libnfs against closes and reuse of slots. Server: the command whose continuation gets lost, among others: none is free twice. | two directories, three names, two clusters of three slots; two clusters of two sectors of two bytes, one failing access; 3 continuations, 2 slots, 3 handles, generation 2 |
| `fat_disk_workers` (violation) | Is no change lost with two workers? | the same disk without failures |
| `fat_dir_open` (violation) | Does a directory stay while it is open? | as part dir |
| `nfs_server_rmdir` (violation) | Does a handler find a continuation? | 2 ids, pool of 2 |
| `posix` | Part sockets: descriptors, slots, callbacks up to a failing assertion, stream and sleepers. Files: does a descriptor name its own file, and a transfer move what it says? Core: is a byte handed out once? | 2 sockets, 3 pcbs, backlog and ring of 2, 3 bytes; a directory and a file, transfers of two one-byte chunks, 2 server descriptors; four pages |
| `memory` (violation) | The last for an area that does not begin on a page. | 4 pages from the middle of one |
| `fw_filter` | Rules, ids, connections and look-ups of two filters that preempt each other. Part buffers: is a buffer ever left in a queue whose reader will not come? | 1-bit addresses, 2 ports, 2 overlapping rules, 3 rule ids, 2 instances; 9 systems of 2 or 3 components, a receive buffer, a reply and an ICMP buffer |
| `fw_router` | Has every packet that waits a request under way or a response that was discarded, and is no wake-up lost? Part pool: do three kinds of lists over one pool of nodes behave as a queue for each next hop? Part routes: do longest matches alone decide, whatever the history of the table? | 2 next hops, 3 packets, 2 nodes, 2 cache entries, queues of 2, 1 retry, flush every 2 ticks, 1 reply nobody asked for; 3 hops and 3 nodes in the pool; 2-bit addresses, 3 routes, 3 look-ups |
| `fw_router_stuck` (violation) | The first with a cache smaller than the number of next hops. | 1 cache entry |

Why the bounds are enough.  A queue of two entries fills, wraps and is found full
between the two reads of its length; two workers finish out of order.  In
`fat_files` three handlers are an operation, a close and an open on the same
slot, and two generations let a slot be closed and opened again under a stale
descriptor.  The handles of `file_systems` add one so that a reopened slot has a
new one.  The disk of `fat_files` has a block with the FAT and its copy, one with
a table and FSInfo, so a write of one reads the other, and one with a sector
alone, which is written at once.  The directories of `file_systems` hold a name that
needs several slots across a cluster border, a collision of numbered names, and
a move between parents.  Its file crosses sector and cluster borders and outgrows
the disk.  In `posix` the ring is smaller than the stream, so it wraps and
refuses; a connection is accepted while another waits.  In `fw_filter` the two
rules overlap without one being inside the other, so specificity, ties and the
order of the table all matter, and three ids wrap around.  Every queue of
FwBuffers has both its ends in detail in some system; a buffer that has gone
round finds the components it passed still in the handler that passed it on, so
one receive buffer meets every step of its reader and writer.  The routes nest,
tie in length without clashing, lead to each other and to the firewall itself.
The pool has one root with two children, and three roots, so a root leaves at the
head, in the middle and at the end.  In `fw_router` the pool is smaller than the
packets, a second packet joins a first, retries end in `unreachable` with the
reply arriving later, and repeated replies fill the queue of responses, so the
next one is discarded.

Bounds of the models, named where they are declared: `MaxBlk` (block requests of
a handler), `MaxGen` (generations; the code's are 64 bits wide), `MaxFsid`
(mounts), `MaxFaults` and `MaxAccess` (failing accesses, accesses of a call),
`MaxStubs`, `MaxSize`, `Lengths`, `Offsets` (files), `MaxBytes` (a connection),
`MaxLength` (a mapping), `MaxExtra` (replies without a question).

`CHECK_DEADLOCK FALSE` is set where a system may really stop: with every
generation, mount, fault or byte of the bound used up, a table full and a
filter's neighbour gone, where an assert has stopped the client or the program, on
a volume that needs repair, or when no application issues and an unanswered
request holds its id.  `fw_router` checks it.

### Fairness

Used only by `fs_servers`.  Weak fairness of the server and of a client
in the middle of a helper: Microkit runs a PD that was notified, and none of
them waits inside a handler for anything but the disk.  Weak fairness of the
block virtualiser and of the answers to NFS operations: external promises (sDDF
answers each request; libnfs reconnects for ever).  Issuing and freeing requests
is up to the application and is not fair.  Strong fairness of the NFS server's
timer notification: it is re-armed by each timer notification, and a
notification that is pending when the PD waits is delivered with the next batch;
the step is fair in the form in which DHCP has succeeded, since before that the
code promises nothing.

Elsewhere a lost wake-up is a safety property: `NoLostWakeup`, `NothingStranded`,
`CallersWake` and `ServerWaitsForDiskOrClient` say that whoever has something to
do will be run.

### Assumptions on the environment

One application thread calls the C library; it listens only on sockets it has
created and bound, and goes on using only what it was given.  A pcb that lwIP has
freed while the library still refers to it is not given to another connection
while it does.  A file server refuses to remove a file that is open and may fail
any command; FatFs itself is called on one volume.  FatDir and FatFile run one
operation at a time, since FatDisk shows that two already lose sectors.  The data
of a freed cluster is forgotten.  The webserver's pool of pbufs is never empty.

## What the checks found

Six runs show the code doing other than an assertion or comment of it says:

* `fat_files_full`: FILs and DIRs are pools of `MAX_OPEN_FILES` each over one
  table of the same size, so `assert(!err)` after `fd_alloc` (`fat/op.c:174`)
  fails for an open that FatFs accepted.
* `fat_disk_workers`: up to four workers run FatFs at once without a lock
  (`FF_FS_REENTRANT` is 0); one replaces the window another has changed while it
  waited (`ff.c:1085`), and the change is lost.
* `fat_dir_open`: `f_opendir` locks a directory under a key that `f_unlink` never
  asks for (`ff.c:4647`, `:4994`), so a directory is removed while it is open.
* `nfs_server_rmdir`: `dir_remove_cb` allocates a continuation instead of using
  its own, so each directory removal loses one and the assert after
  `continuation_alloc` fails in the end.
* `memory`: `sys_mmap` rounds the new top down after its check (`mem.c:56`), so in
  an area that does not begin on a page a mapping may begin below the break.
* `fw_router_stuck`: with a full ARP cache a request goes out without an entry;
  nobody is told of its reply, and packets to that next hop wait for ever, the
  later ones because "ARP request already enqueued" (`routing.c:310`).

Behaviour that breaks what one would promise, modelled as the code has it.  The
properties state the exception, and without it TLC violates them:

* `RoomInQueues`, `OtherRequestsComplete`: the NFS server publishes its replies
  before it consumes the commands they answer (`nfs/op.c:116`), so a client that
  is quick to issue again finds the command queue full and its assert in
  `fs_command_issue` stops it.  With every id in use `fs_request_allocate` scans on
  behind `request_metadata` (`helpers.c:34`); what it finds there is no id, and the
  next assert stops the client too.  The FAT server drops commands of unknown type
  without a completion (`event.c:254`), where the protocol has a status for them;
  the NFS server never answers deinitialise (`nfs/op.c:203`).
* `FilesNotLeaked`: `handle_dir_close` gives neither slot nor DIR back when
  `f_closedir` fails (`fat/op.c:703`), unlike `handle_file_close`.
* `DirectoriesExact`: `dir_next` links a new cluster to the table and then clears it;
  when `dir_clear` fails the cluster stays linked (`ff.c:1784`-`1788`), and the
  directory ends in whatever it held.
* `ContentExact`: `f_sync` clears `FA_MODIFIED` although `sync_fs` has failed
  (`ff.c:4205`-`4206`), so a later `f_sync` or `f_close` succeeds without trying
  again, and first cluster and size wait in the window until something moves it.
* `NothingStranded`: the ICMP module defers a notification for each interface it
  has written to (`icmp_module.c:239`-`241`), of which Microkit keeps the last, so
  the buffer of the first waits for another event.
* `WaitingHasRequest`: a response for which the router's queue has no room is
  discarded (`arp_requester.c:97`, `:161`, `:222`), and the packets that wait for it
  stay until a repeated reply brings another one, since they keep later ones from
  asking.
* `CallbacksReachSocket`: after the peer's close the argument of the callbacks is
  NULL but `socket_sent_callback` stays set (`tcp.c:160`-`162`, `:176`), so data that
  is acknowledged late fails its assert (`tcp.c:194`).
* `StreamExact`: a new connection has no receive callback before `accept`
  (`tcp.c:493`, `:557`), so lwIP drops what the peer sends until then.
* `ServerFdLostByFailure`: `dup3` ignores the result of the close it makes
  (`io.c:280`-`282`), and `file_close` forgets the server's descriptor whether or
  not the server has closed it (`file.c:254`).

Read while modelling, modelled as the code has it unless said otherwise, and
without a property of their own:

* FAT and NFS servers: a client with more ids than queue entries could make the
  loop write over unread replies (`event.c:238`, `:266`); `fd_to_of` refuses only
  generations below the slot's (`fd.c:151`); `handle_rename` copies the old path twice (`nfs/op.c:580`);
  the end of a directory becomes a plain error in the FAT server (`fat/op.c:614`).
* C library: `recv` does not stop waiting when the peer closes (`tcp.c:427`) and a
  socket is readable although `recv` would fail (`:456`); a pcb is lost on close
  (`:342`), `accept` may return one that was freed (`:542`), and one is used after
  the wait in which it was freed (`:401`, `:444`); a failed connect leaves its
  socket connecting (`:295`); `dup3` onto the console calls a close that is not
  set (`io.c:281`); `lseek` from the end may become negative (`file.c:566`);
  `O_EXCL` is not looked at when `stat` fails for another reason (`file.c:434`),
  and a directory descriptor is used without asking whether it is open (`:62`); a
  write that fails after a first chunk reports nothing of that chunk (`:154`).
* Firewall: an ARP entry that is given up between the router's test and its use
  is taken for a valid one (`routing.c:282`-`327`).  A direct route to a single
  host forwards nothing to it, because every address is the broadcast address of
  a subnet of one (`routing.c:262`; `RouteExact` states it).  Route ids shift on
  deletion, so an old list may delete another route.  The transmit
  virtualiser's driver queue has 512 entries, and the buffers of two interfaces
  and its clients are more (`firewall_network_virt_tx.c:76`, `:106`).
* MicroPython: `mp_vfs_fs_file_open` frees its path buffer twice when the size of
  the file cannot be had (`vfs_fs_file.c`), and an exhausted directory iterator
  that is asked again closes descriptor 0 (`vfs_fs.c`).

## What is proved

TLC checks the instances above; the theorems hold for every value of the
constants their assumptions allow.  In each case an invariant `IInv` that is
inductive was first checked by TLC on a small instance, then proved: a lemma for
each action (`...IInv`), with a step for each group of conjuncts the action can
disturb, `NextIInv` that puts them together, and the theorems that follow from
it.  The lemma `Least` (a set of numbers that is not empty has a least element,
from the well-foundedness of Nat) gives the first free slot that the code's scans
find, and stands for induction where a search is a recursive function.

**Descriptors over FatFs** (`FatFilesProof`, any finite number of workers, any
slots, FILs, DIRs and bounds): every property of `fat_files`, `HandleKinds` (a
file slot holds a FIL, a directory slot a DIR) besides.  `FilesNotLeaked` holds
but for the slots in `lost`, those of directories whose close failed.  None is inductive alone.
`BusyCountExact` needs to know that a handler that comes back from the disk finds
its slot still busy and its descriptor still resolving; that holds because
`fd_unset` refuses a busy slot, so it needs `BusyCountExact` itself.  `IInv` has
the type invariant, what a suspended handler may rely on (`OpInv`, `CloseInv`,
`HoldInv`), that descriptors carry at most the current generation (`IssuedInv`)
and the four properties that support each other.  `FreshFds` uses in addition
that a free slot's generation was never issued.

**The window and its disk** (end of `FatFilesProof`, any number of workers, any
sectors and size of a block; `DiskAssumption` says that the areas of a volume do
not overlap): `DiskExact`, as long as one operation runs at a time (`OneByOne`),
for with two it is false, as `fat_disk_workers` shows.  The property speaks of
moments when nothing is under way.  `DiskIInv` says what holds in between: which
sector each phase of `sync_window` and its callers writes (`PhaseExact`); that a
block which was read is what the disk holds and one that is to be written differs
in its own sector only, which is why a write that fails or is one part of a block
harms no neighbour (`RegionExact`); that FSInfo too is on the disk when the window
is clean (`CleanExact`), or moving the window would lose it; and that between the
two writes of a FAT sector its copy is the only one behind (`CopiesExact`).
`AfterSyncHolds` is the heart: after `sync_window` everything is on the disk but
what was given up (`Synced`), so the window may be replaced.

**Descriptors over libnfs** (`FileTablesProof`, any finite pool of continuations,
any slots and handles): `HandlesTypeOK`, and the parts of `HandlesAccounted`, which
the run checks, each as a theorem and together (`NfsHandles`).  A callback finds what
others left since its handler ran; `IInv` says what it may rely on: the slot of a
running operation is busy and names the handle the operation was started with, an
allocated slot is owned by one open or close, and the handle a close carries is
named by nothing else.

**Directories and locks of FatFs** (end of `FileTablesProof`, any clusters and slots
in each, any short and long names and numbered forms, any numbers of files,
directories, locks and cut-short registrations): `DirectoriesExact` and
`OpenEntriesLocked`.  `FatDirAssumption` says that the slots of a name fit in a
cluster (15 long slots, so 195 characters, in the smallest cluster of one 512-byte
sector; FatDir stretches a table by one cluster at a time) and that fewer objects
can be open than the count 256 that stands for a writer (the server opens at most
48).  The inductive invariant `DirInv` gives each directory the chain of its
clusters: `Laid` says that it is one along the FAT and shares no cluster;
`Tidy` that no used slot is behind an unused one, only long names are in long slots,
and a full run of long slots belongs to the short slot behind it, but for those of
`stubs`; `Good` that each entry of
the history is held by slots and each short slot is one of its entries; `OneEach`
and `OneName` that no short name and no directory is entered twice, until a rename
is cut short.  `LocksOK` counts the users of each lock.  A change is then of one
kind: slots written into a free run (`RegisterGood`), slots marked from the first
on and perhaps not to the last (`RemoveGood`), a cluster linked behind a chain
(`StretchLaid`), a chain given up (`DropGood`).  Each operation is a sequence of
them on a volume that is good after every one, which is why the disk may fail
between any two.  The exception is a stretch whose `dir_clear` fails: the volume is
then good but for the slots of one cluster (`UnclearedInv`, by `Wiped`, the volume
in which it is clear), so chains are still apart and the entries of open files
still where they were.  The two halves need each other: an entry stays where its lock
says only because `chk_share` refuses what has a lock, and the locks have the
entries' places as keys.

**The file servers' loops** (`FatServerProof`, any number of ids and workers, any
block requests; `NfsServerProof`, any number of ids).  A request id travels from
the command queue to a pool slot or operation, to an unpublished reply, to a
published completion, while client, loop and disk or network interleave.  `IInv`
says of each place what its ids are (used, of the client's type, with the
status of their handler), that no two places share one, what the lengths read
once per notification still mean (entries counted are still there: only the loop
takes them, and the client only adds), how much room they stand for, and which
wake-ups are on their way.  The queues have room because ids that are in
different places are different, so the places together hold at most as many as
the client owns (in the NFS server a handled command may stay in the queue while its
id is issued again, so there the count covers the commands not handled,
`UnhandledCommandsLeaveRoom`); `FsClientProof` has this count.  It needs `NIds <= Capacity`,
which `FsClientAssumption` states because `helpers.c` declares
`FS_QUEUE_CAPACITY` ids.  Proved of both servers: one place for each request,
room for replies, types; of the FAT server room for commands and what it waits
for; of the
NFS server that continuations are neither lost nor shared and, with it, that each
handler finds one (`AllocationSucceeds`).  Both implement FsService: each step of
client, loop, pool, disk or network is a step of FsService under the mapping or
leaves every request at its stage, so a request is executed once and its client
learns the status that its own handler set.  All theorems on the NFS server but
one assume that clients send no `rmdir` (`Answering`), each of which loses a
continuation, as `nfs_server_rmdir` shows; `deinitialise` drops its request, which
then is in no place.  `PoolExclusive` needs no such hypothesis: continuations may
get lost, but the invariant `PlacedOnce` says that none is in two places.

**Either server behind the client** (the end of `FatServerProof`, about the module
that `fs_servers` checks): `RequestsHeldOnce`, `RoomInQueues`,
`ServerWaitsForDiskOrClient`, `ContinuationsAccounted` and the refinement
`EitherImplementsService`.  MCFsServers instantiates the NFS server through
NfsServerProof, so its lemmas carry over; the invariant (`AllInv`) is that of the
server the behaviour picked.

**Memory** (`PosixProof`, any word size, page size and area that ends on a page
boundary, lengths whose rounding does not wrap): `HandedOutOnce`.  `mmap` compares
the rounded length with what is left and then rounds the new top down once more;
this keeps the top above the break only because it never leaves a page boundary,
so `CoreIInv` adds `PageAligned`.  The run `memory` shows that the hypothesis on
the area is needed.

**Files of the C library** (`PosixProof`, any finite set of descriptors,
any set of the server's, any paths, chunk, lengths and number of buffers): the three
properties of FileFds that `posix` checks as invariants and
`ServerFdLostByFailure`.  Between two commands of `sys_openat` the truth is spread
over the tables and the call: the library's descriptor is active but names
nothing, and only the call knows what the server has opened for it.  `FilesIInv`
therefore has `OpenUnderWay` (what the call holds is open at the server, at the
call's path, and no descriptor names it yet), `OpenedNamed`, `BuffersExact` (the
buffer a call has for its path or data is the only one missing) and
`MoveUnderWay` (what a transfer has moved so far is the piece of the file behind
the old `file_ptr`), whose step needs lemmas on pieces of sequences and on
`Overwrite`.

**Sockets** (`PosixProof`, any numbers of sockets and backlog, any finite set of
descriptors, any pcbs, any size of the ring): the four properties of TcpSockets
and SocketFds, and the types.  None is inductive alone, as each table trusts the
others.  `PcbExact` says for every state of a pcb which socket its argument names
and in which state that socket is, `SocketExact` the same from the slot's side
and that a free slot is fresh, `QueuesExact` that the accept queues hold different
pcbs, `RingExact` that the cells between head and tail are the next bytes of the
stream behind those that were lost before `accept` (by cases on where the two copies
wrap), and `CallerExact` what a sleeping
call may rely on.  For the descriptors `NamedAlive` says that a socket somebody
names has a pcb, which is why closing the last one may use it, and `CountsExact`
counts the names; a count of -1 is left by a `sys_socket` that finds no pcb.

`StepMovesItsPart` puts the three together: a step of MCPosix moves one part as
that part's module allows.

**Router and ARP requester** (`FwRouterProof`, any finite sets of next hops and
packets, any numbers of nodes, cache entries, retries and ticks):
`RouterConsistent`, `NoLostWakeup` and `WaitingHasRequest`.  `IInv` says that two
entries of the cache are for two addresses (`OneEntry`); that the router has asked
at most once for each next hop it has packets for (`AskedOnce`), so its queue of
requests is no longer than the number of next hops; who may run, and therefore that no request is in the queue
while the router reads answers (`Turns`); that a packet is with the filters, with
`route()` or in the pool (`Apart`); and that the pool has a node while the router
decides (`NodesSuffice`), which survives the requester's steps in between because
they make no settled entry pending.  `Dimensions` assumes that the request queue
has room for each next hop; of the response queue nothing is assumed.
`WaitingHasRequest` assumes besides that the cache has an entry for every
next hop (`CacheSuffices`), for then `fw_arp_table_add_entry` finds a free one by
counting; `fw_router_stuck` shows what happens otherwise.

**Routing table** (in `FwRouterProof`, any width of an address, interfaces, next
hops, capacity and number of look-ups; no hypothesis besides
`FwRoutesAssumption`): `RouteExact` and `OtherRoutesStay`.  `RoutesIInv` says that
routes are of the subnets they name and that no two are of one subnet, which is
what the calls refuse; so of two longest matches there is only one (`BestMatch`),
wherever it is in the table.  `MatchFacts` shows by a least counterexample that
the scan of `fw_routing_find_route` ends with it, and `WalkWays`, `WayWalked` and
`WalkStays` that the look-ups of `find_route` follow one way.  For an address whose
way does not lead through the changed subnet every look-up gives the same match
before and after (`SameMatch`, `SameWay`).

**Waiting packets** (end of `FwRouterProof`, any numbers of nodes, next hops and
packets; no hypothesis besides `PacketQueueAssumption`): `PoolImplementsQueue`, that
PacketQueue implements WaitingPackets.  `PoolIInv` says that there are three kinds
of sequences of nodes, linked as the code walks them: `RootList`, linked both ways
between `head` and `tail`; `ChainLists`, one for each root, which share no node and
hold all that are in use; and `FreeList`, with those that are not, as many as
`size` leaves.  `ListWalked` turns a walk along the links into the sequence.  The
three operations keep the shape (`ChildShape`, `PushShape`, `ReleaseShape`): a
release takes a root out of the middle of its list (`ReleaseRoots`), and its
chain, from the last child to the first, becomes the start of the free list
(`ReleaseFree`), though both orders are kept in the same `next` fields.  Each is
then a step of the queues (`ChildWaits`, `PushWaits`, `ReleaseLeaves`).

**Packet filters** (`FwFilterProof`, any finite set of filters, any width of an
address, any rules, packets and capacities; no hypothesis besides
`FwFilterAssumption`): all five properties of FwFilter.  `RuleIdsExact` carries
the weight, for the rule a removal looks up exists only because ids and rules
agree (`RuleOfFacts`), and an id is free only because each rule has its own
(`IdIsFree`, by counting).  That no two rules clash (`TableExact`) makes the choice
of `fw_filter_find_action` unique: of two rules neither of which is more specific
both name the packet's nets and ports, so they clash (`TieClashes`); a stored rule
has its host bits masked away, which changes no later comparison because masking
twice is masking once (`MaskFacts`).  `RemovalUnderWay` says how far a removal has
got: no instance behind its place has the rule that goes, so none is left when
the rule goes.  `LookupUnderWay` says what a lookup still has ahead of it: unless
a removal raced it, a connection that was there all the time is in a table, and at
a place, that it has not read; other filters only append meanwhile
(`OthersWatched`).

**Buffers** (end of `FwFilterProof`, any buffers, any sets of components looked at
and passing on; no hypothesis besides `FwBuffersAssumption`): `NothingStranded`.
By itself it is not inductive, for it says nothing of a reader that is in the
middle of asking.  `BuffersIInv` adds where a handler is (`HandlerExact`); that a
reader of an sDDF queue which has asked for no notification comes to the queue by
itself, because its channel is signalled or the drain is still before it
(`DeafReaderComes`); that a queue with a buffer has a reader that comes, or a
writer that has yet to tell it (`FilledIsSeen`); and that a reader which has asked
and looks again finds what came in between or is told of it (`LookIsSafe`).  What
the code contributes is in its scripts, gone through one by one: whatever a drain
writes to, a later step of the same handler tells of (`ScriptsExact`), and every
queue is drained by the handler that its notification starts
(`EveryQueueIsRead`).

Only model-checked:

* Liveness (`OtherRequestsComplete`) and whatever uses ENABLED: beyond the prover.
* FatFile (`ContentExact`, `OthersIntact`), whose loops along a chain are recursive
  functions: what they leave after any number of turns needs induction over each
  loop, with the state of the FIL and its buffer at every turn.

## What is not modelled, and why

* The contents of packets, MAC addresses, path buffers and most of a file's bytes:
  no property here depends on them.
* In FatFs: the boot sector and FSInfo when a volume is mounted, formatting,
  labels, the order in which `f_readdir` returns names, code pages
  (`ffunicode.c`, tables), time stamps.  exFAT is compiled in
  (`ffconf.h:240`), but the volumes modelled are FAT ones: what `ff.c` does on an
  exFAT volume instead, with its bitmap and entry sets, is left out.  A call's search for
  a free cluster counts as one disk access.
* libnfs, lwIP, sDDF and Microkit, except as the code uses them.
* The layout of queue entries and their free-running 64-bit indices: the client
  owns no more ids than a queue has entries, so the difference of two indices
  never exceeds the capacity (`RoomInQueues`, and behind NFS the assert that stops
  the client).
* The responses the requester sends to the webserver, and its transmit ring,
  which is assumed to have a free buffer; ICMP requests between components.
* `readv`, `writev`, `ppoll`, the console and the clock of the C library.
* Bindings, runtimes, demonstrations, build and test scripts.

## Plan

1. Mounting (`find_volume`, `mount_volume`) and `f_readdir`'s cursor against
   concurrent removals; MicroPython's file objects over FsService.
2. **FdTable**: what a descriptor table promises, as an abstract specification
   that FatFiles and NfsFiles implement.
3. A liveness run of FwRouter: a packet that waits leaves, with the timer, the
   requester and the router fair.
4. Proofs: FatFile, with an invariant for each of its loops, shown by a least
   counterexample as in FatDir.
