------------------------------ MODULE FatDisk ------------------------------
(* How sectors travel between FatFs and the disk: the access window of a volume  *)
(* (fs->win, dep/ff15/ff.c) on top of disk_read and disk_write of the FAT server *)
(* (components/fs/fat/io.c), which move whole blocks of the block protocol and   *)
(* so read before they write part of one.                                        *)
(*                                                                               *)
(* A worker cothread gives up the processor in each wait for the disk and        *)
(* nowhere else.  The device serves outstanding requests in any order, and other *)
(* workers may run between a request's service and the resumption of its worker. *)
(* The contents of a sector are a stamp, 0 or 1; a step that changes a sector    *)
(* changes it to the other.                                                      *)
EXTENDS Integers, FiniteSets

CONSTANTS
  Workers,
  Fat,        \* sectors of the first FAT
  FatSize,    \* distance to their copies in the second FAT
  Tables,     \* sectors of directory tables
  FsInfo,     \* the FSInfo sector
  FileData,   \* sectors of files, never in the window
  PerBlock,   \* sectors in a block of the block protocol
  Outcomes    \* of a block request: "ok" and, if the disk fails, "error"

\* The window is invalid: (LBA_t)0 - 1.
NoSect == -1

Meta == Fat \cup Tables
Copies == {s + FatSize : s \in Fat}
Sectors == Meta \cup Copies \cup {FsInfo} \cup FileData
Stamped(v) == 1 - v
Block(s) == {t \in Sectors : t \div PerBlock = s \div PerBlock}

FatDiskAssumption ==
  /\ Workers # {} /\ Outcomes \subseteq {"ok", "error"}
  /\ Fat \cup Tables \cup {FsInfo} \cup FileData \subseteq Nat
  /\ FatSize \in Nat /\ PerBlock \in Nat \ {0}
  /\ Fat \cap Tables = {} /\ FsInfo \notin Meta /\ FileData \cap (Meta \cup {FsInfo}) = {}
  /\ Copies \cap (Meta \cup {FsInfo} \cup FileData) = {}

VARIABLES
  disk,      \* the contents of each sector
  win,       \* fs->win
  winsect,   \* fs->winsect
  wflag,     \* fs->wflag
  pc,        \* the disk access in which a worker waits
  target,    \* the sector the worker's operation is about
  req,       \* the block request of a worker
  truth,     \* history: the contents each sector was given last
  forgotten  \* history: sectors whose write failed and will not be tried again

winVars == <<win, winsect, wflag>>
history == <<truth, forgotten>>
vars == <<disk, winVars, pc, target, req, history>>

\* A block request: what, for which sector, the worker's region of the transfer
\* area, and how far it got.
Request(kind, sect, region) == [kind |-> kind, sect |-> sect, region |-> region, state |-> "queued"]
NoRequest == [kind |-> "none", sect |-> NoSect, region |-> <<>>, state |-> "none"]

Init ==
  /\ disk = [s \in Sectors |-> 0] /\ truth = disk
  /\ win = 0 /\ winsect = NoSect /\ wflag = FALSE
  /\ pc = [w \in Workers |-> "idle"]
  /\ target = [w \in Workers |-> NoSect]
  /\ req = [w \in Workers |-> NoRequest]
  /\ forgotten = {}

-----------------------------------------------------------------------------
(* disk_read, disk_write.                                                  *)

\* A whole block is written at once; for a part of one disk_write reads the block
\* first and looks at the caller's buffer only after that.
WriteRequest(s, v) ==
  IF Block(s) = {s} THEN Request("write", s, [t \in {s} |-> v]) ELSE Request("fetch", s, <<>>)

ReadRequest(s) == Request("read", s, <<>>)

\* The device serves a request; one that fails leaves the disk as it was.
Serve(w) ==
  /\ req[w].state = "queued"
  /\ \E outcome \in Outcomes :
       /\ req' = [req EXCEPT ![w].state = outcome,
                             ![w].region = IF req[w].kind = "write" THEN @
                                           ELSE [t \in Block(req[w].sect) |-> disk[t]]]
       /\ disk' = IF outcome = "ok" /\ req[w].kind = "write"
                  THEN [t \in Sectors |-> IF t \in DOMAIN req[w].region THEN req[w].region[t] ELSE disk[t]]
                  ELSE disk
  /\ UNCHANGED <<winVars, pc, target, history>>

\* The buffer a worker writes from: the window, or the sector buffer of its file.
Buffer(w) == IF pc[w] = "data" THEN Stamped(truth[target[w]]) ELSE win

Patched(w) == [req[w].region EXCEPT ![req[w].sect] = Buffer(w)]

\* disk_write resumes with the block it read: the sector goes in, the block out.
WriteBack(w) ==
  /\ req[w].kind = "fetch" /\ req[w].state = "ok"
  /\ req' = [req EXCEPT ![w] = Request("write", @.sect, Patched(w))]
  /\ UNCHANGED <<disk, winVars, pc, target, history>>

\* disk_read or disk_write returns to FatFs.
Returns(w, p, outcome) ==
  /\ pc[w] = p /\ req[w].state = outcome
  /\ (outcome = "ok") => (req[w].kind # "fetch")

-----------------------------------------------------------------------------
(* move_window and what follows it.                                        *)

Wait(w, p, s, r) ==
  /\ pc' = [pc EXCEPT ![w] = p]
  /\ target' = [target EXCEPT ![w] = s]
  /\ req' = [req EXCEPT ![w] = r]

Done(w) == Wait(w, "idle", NoSect, NoRequest)

\* The caller changes the sector in the window, as put_fat and the directory
\* functions do, and marks it dirty.
Put(s) ==
  /\ win' = Stamped(truth[s]) /\ wflag' = TRUE
  /\ truth' = [truth EXCEPT ![s] = win']

\* Seeded fault: a dirty window is not written back before it moves.
MoveWindowDirty(w, s) ==
  /\ pc[w] = "idle"
  /\ IF winsect = s THEN /\ Put(s)
                         /\ UNCHANGED <<disk, winsect, pc, target, req, forgotten>>
     ELSE /\ Wait(w, "fill", s, ReadRequest(s))
          /\ UNCHANGED <<disk, winVars, history>>

\* move_window: nothing to do for the sector in the window, else sync_window and
\* then the read.
MoveWindow(w, s) ==
  /\ pc[w] = "idle"
  /\ IF winsect = s THEN /\ Put(s)
                         /\ UNCHANGED <<disk, winsect, pc, target, req, forgotten>>
     ELSE /\ IF wflag THEN Wait(w, "flush", s, WriteRequest(winsect, win))
             ELSE Wait(w, "fill", s, ReadRequest(s))
          /\ UNCHANGED <<disk, winVars, history>>

\* What sync_window's caller does next: read the sector it moves to, write FSInfo
\* (sync_fs) or clear a table (dir_clear) in the window itself.
AfterSync(w) ==
  CASE target[w] = FsInfo ->
         /\ win' = Stamped(truth[FsInfo]) /\ winsect' = FsInfo
         /\ truth' = [truth EXCEPT ![FsInfo] = win']
         /\ Wait(w, "info", FsInfo, WriteRequest(FsInfo, win'))
    [] target[w] \in Tables /\ pc[w] \in {"clear", "clearMirror"} ->
         /\ win' = 0 /\ winsect' = target[w]
         /\ truth' = [truth EXCEPT ![target[w]] = 0]
         /\ Wait(w, "wipe", target[w], WriteRequest(target[w], 0))
    [] OTHER ->
         /\ Wait(w, "fill", target[w], ReadRequest(target[w]))
         /\ UNCHANGED <<win, winsect, truth>>

\* sync_window after its write: the window is clean, and a sector of the first FAT
\* goes to the second one too.
Flushed(w) ==
  /\ \E p \in {"flush", "clear"} : Returns(w, p, "ok")
  /\ wflag' = FALSE
  /\ IF winsect \in Fat
     THEN /\ Wait(w, IF pc[w] = "clear" THEN "clearMirror" ELSE "mirror", target[w], WriteRequest(winsect + FatSize, win))
          /\ UNCHANGED <<win, winsect, truth>>
     ELSE AfterSync(w)
  /\ UNCHANGED <<disk, forgotten>>

FlushFails(w) ==
  /\ \E p \in {"flush", "clear"} : Returns(w, p, "error")
  /\ Done(w)
  /\ UNCHANGED <<disk, winVars, history>>

\* The result of the second write is not looked at.
Mirrored(w) ==
  /\ \E p \in {"mirror", "clearMirror"} : \E outcome \in {"ok", "error"} :
       /\ Returns(w, p, outcome)
       /\ forgotten' = IF outcome = "ok" THEN forgotten \ {req[w].sect} ELSE forgotten \cup {req[w].sect}
  /\ AfterSync(w)
  /\ UNCHANGED <<disk, wflag>>

\* disk_read copied the sector to the window; the caller goes on at once.
Filled(w) ==
  /\ Returns(w, "fill", "ok")
  /\ winsect' = target[w]
  /\ \/ Put(target[w])
     \/ /\ win' = req[w].region[target[w]]
        /\ UNCHANGED <<wflag, truth>>
  /\ Done(w)
  /\ UNCHANGED <<disk, forgotten>>

\* A failed read invalidates the window; disk_read has copied what the region held.
FillFails(w) ==
  /\ Returns(w, "fill", "error")
  /\ win' = req[w].region[target[w]]
  /\ winsect' = NoSect
  /\ Done(w)
  /\ UNCHANGED <<disk, wflag, history>>

\* dir_clear and sync_fs begin with sync_window.  The latter writes FSInfo only
\* when the number of free clusters changed, which any step may have caused.
SyncFirst(w, p, s) ==
  /\ pc[w] = "idle"
  /\ IF wflag
     THEN /\ Wait(w, p, s, WriteRequest(winsect, win))
          /\ UNCHANGED <<winVars, truth>>
     ELSE /\ CASE p = "flush" -> /\ win' = Stamped(truth[FsInfo]) /\ winsect' = FsInfo
                                 /\ truth' = [truth EXCEPT ![FsInfo] = win']
                                 /\ Wait(w, "info", FsInfo, WriteRequest(FsInfo, win'))
               [] p = "clear" -> /\ win' = 0 /\ winsect' = s
                                 /\ truth' = [truth EXCEPT ![s] = 0]
                                 /\ Wait(w, "wipe", s, WriteRequest(s, 0))
          /\ UNCHANGED wflag
  /\ UNCHANGED <<disk, forgotten>>

\* The window was written past wflag.  sync_fs ignores a failure; dir_clear's
\* caller gives the table up.
Direct(w) ==
  /\ \E p \in {"info", "wipe"}, outcome \in {"ok", "error"} :
       /\ Returns(w, p, outcome)
       /\ forgotten' = IF outcome = "ok" THEN forgotten \ {req[w].sect} ELSE forgotten \cup {req[w].sect}
  /\ Done(w)
  /\ UNCHANGED <<disk, winVars, truth>>

-----------------------------------------------------------------------------
(* File data goes from the FIL's own sector buffer.                        *)

WriteData(w, s) ==
  /\ pc[w] = "idle"
  /\ Wait(w, "data", s, WriteRequest(s, Stamped(truth[s])))
  /\ \A v \in Workers : target[v] # s
  /\ UNCHANGED <<disk, winVars, history>>

DataWritten(w) ==
  /\ \E outcome \in {"ok", "error"} :
       /\ Returns(w, "data", outcome)
       /\ truth' = IF outcome = "ok" THEN [truth EXCEPT ![target[w]] = Stamped(@)] ELSE truth
  /\ Done(w)
  /\ UNCHANGED <<disk, winVars, forgotten>>

Start(w) ==
  \/ \E s \in Meta : MoveWindow(w, s)
  \/ SyncFirst(w, "flush", FsInfo)
  \/ \E s \in Tables : SyncFirst(w, "clear", s)
  \/ \E s \in FileData : WriteData(w, s)

Proceed(w) ==
  \/ Serve(w) \/ WriteBack(w)
  \/ Flushed(w) \/ FlushFails(w) \/ Mirrored(w)
  \/ Filled(w) \/ FillFails(w) \/ Direct(w) \/ DataWritten(w)

Next == \E w \in Workers : Start(w) \/ Proceed(w)

Idle == \A w \in Workers : pc[w] = "idle"

\* Clients that wait for each completion have one operation under way.
OneByOne == \E w \in Workers : (Idle /\ Start(w)) \/ Proceed(w)

Spec == Init /\ [][Next]_vars

-----------------------------------------------------------------------------
\* What the volume holds in a sector: the window counts before the disk.
Seen(s) == IF winsect = s THEN win ELSE disk[s]

\* No change to a sector is lost, whatever fails, unless its failure was ignored,
\* and a write changes its own sector only.
NoUpdateLost ==
  Idle => \A s \in Meta \cup {FsInfo} \cup FileData : s \in forgotten \/ Seen(s) = truth[s]

\* The second FAT has what the first has, where its own write succeeded.
MirrorFollows ==
  Idle => \A s \in Fat : s + FatSize \in forgotten \/ disk[s + FatSize] = disk[s]

\* "win[] status (b0:dirty)" (dep/ff15/ff.h:143): a window that is not dirty is on
\* the disk.
CleanWindowIsOnDisk ==
  (Idle /\ ~wflag /\ winsect \in Meta \ forgotten) => (disk[winsect] = win)
=============================================================================
