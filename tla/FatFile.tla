------------------------------ MODULE FatFile -------------------------------
(* The data of one file of a FAT volume: the FIL object with its sector buffer,  *)
(* the cluster chain, f_lseek, f_read, f_write, f_sync, f_truncate and f_close   *)
(* of dep/ff15/ff.c, called in the order in which the handlers of                *)
(* components/fs/fat/op.c call them.  Other files take clusters and give them    *)
(* back between two calls.                                                       *)
(*                                                                               *)
(* A call makes a number of disk accesses, of which any may fail: the parameter  *)
(* left says how many succeed before one does.  A write writes one byte value.   *)
(* A volume is passed from step to step as a record v with the outcome so far.   *)
EXTENDS Integers, FiniteSets, Sequences, SequencesExt

CONSTANTS
  SS,          \* bytes of a sector
  CSize,       \* sectors of a cluster
  Clusters,    \* of the data area, 2 .. n
  Byte,        \* what a client writes
  Offsets, Lengths,  \* what a client asks for
  MaxAccess,   \* more disk accesses than any call makes
  MaxFaults    \* disk accesses that fail

Eoc == 0 - 1
NoSector == <<0, 0>>
Garbage == 0      \* what is in a cluster before it is written, and other files' data
Unknown == 0      \* a byte no write has set
Bcs == SS * CSize
Lesser(a, b) == IF a < b THEN a ELSE b
Closed == [open |-> FALSE]

VARIABLES
  disk,    \* the sectors of each cluster
  fat,     \* the FAT entry of each cluster: 0 free, Eoc, or the next cluster
  last,    \* fs->last_clst
  free,    \* fs->free_clst
  fil,     \* the FIL object, or Closed
  entry,   \* the directory entry as FatFs reads it: first cluster and size
  stored,  \* what the disk has of the entry, older than entry if the window is dirty
  others,  \* the clusters of other files
  want,    \* history: the bytes of the file, Unknown where a seek has stretched it
  misread, \* history: a read has returned something else
  faults,  \* how many disk accesses have failed
  stray,   \* history: a failed truncation left a dirty buffer of a cluster it freed
  late     \* history: f_sync failed, cleared FA_MODIFIED, and the window is still dirty

vars == <<disk, fat, last, free, fil, entry, stored, others, want, misread, faults, stray, late>>

Fill(b) == [i \in 1 .. SS |-> b]
Blank == [k \in 0 .. CSize - 1 |-> Fill(Garbage)]

Init ==
  /\ disk = [c \in Clusters |-> Blank]
  /\ fat = [c \in Clusters |-> 0]
  /\ last = 0 /\ free = Cardinality(Clusters)
  /\ fil = Closed /\ entry = [sclust |-> 0, size |-> 0] /\ stored = entry
  /\ others = {} /\ want = <<>> /\ misread = FALSE /\ faults = 0 /\ stray = FALSE /\ late = FALSE

-----------------------------------------------------------------------------
(* A call at work.                                                         *)

Volume(left) ==
  [disk |-> disk, fat |-> fat, last |-> last, free |-> free, f |-> fil, entry |-> entry, stored |-> stored,
   left |-> left, res |-> "ok", cl |-> 0, at |-> 0, out |-> <<>>]

\* One disk access that makes w of v.
Access(v, w) ==
  IF v.res # "ok" THEN v
  ELSE IF v.left = 0 THEN [v EXCEPT !.res = "error"]
  ELSE [w EXCEPT !.left = v.left - 1]

\* An access to the FAT goes through the window, which is written back first if it
\* holds the entry.
Moved(v) == IF v.stored = v.entry THEN v ELSE Access(v, [v EXCEPT !.stored = v.entry])
FatAccess(v, w) == Access(Moved(v), [w EXCEPT !.stored = v.entry])

\* ABORT: the object refuses every later call but f_sync and f_close.
Aborted(v) == IF v.res = "error" THEN [v EXCEPT !.f.err = TRUE] ELSE v

Unused(v) == {c \in Clusters : v.fat[c] = 0}

\* The first unused cluster after c, cyclically.
FirstAfter(v, c) ==
  LET distance(n) == (n - c - 1) % Cardinality(Clusters)
  IN CHOOSE n \in Unused(v) : \A m \in Unused(v) : distance(n) <= distance(m)

\* Where create_chain looks: right behind c, then from the suggested cluster on.
NextFree(v, c) ==
  LET behind == IF c + 1 \in Clusters THEN c + 1 ELSE 2
      suggested == IF v.last # 0 THEN v.last ELSE IF c = 0 THEN 1 ELSE c
  IN IF c # 0 /\ v.fat[behind] = 0 THEN behind ELSE FirstAfter(v, suggested)

Linked(v, c, n) == IF c = 0 THEN v ELSE FatAccess(v, [v EXCEPT !.fat[c] = n])
Taken(v, n) == IF v.res = "ok" THEN [v EXCEPT !.cl = n, !.last = n, !.free = @ - 1] ELSE v

\* A new cluster n is marked as the end, then linked to c.
Stretch(v, c, n) == Taken(Linked(FatAccess(v, [v EXCEPT !.fat[n] = Eoc]), c, n), n)

After(v, c) ==
  IF v.res # "ok" THEN v
  ELSE IF c # 0 /\ v.fat[c] # Eoc THEN [v EXCEPT !.cl = v.fat[c]]
  ELSE IF v.free = 0 \/ Unused(v) = {} THEN [v EXCEPT !.cl = 0]
  ELSE Stretch(v, c, NextFree(v, c))

\* create_chain: v.cl becomes the cluster after c (a first one if c = 0), which is
\* allocated if there is none yet, or 0 if the disk is full.
CreateChain(v, c) == After(IF c = 0 THEN v ELSE FatAccess(v, v), c)

\* Nobody may count on what was in a cluster that is freed.
Freed(v, c) ==
  FatAccess(v, [v EXCEPT !.fat[c] = 0, !.disk[c] = Blank, !.free = Lesser(@ + 1, Cardinality(Clusters))])

\* The loop along the chain from c on: each link is read before it is freed.
FreeFrom(v, c) ==
  LET step(at) ==
        IF at.vol.res # "ok" \/ at.next \notin Clusters THEN at
        ELSE [vol |-> Freed(FatAccess(at.vol, at.vol), at.next), next |-> at.vol.fat[at.next]]
      after[i \in 0 .. Cardinality(Clusters)] == IF i = 0 THEN [vol |-> v, next |-> c] ELSE step(after[i - 1])
  IN after[Cardinality(Clusters)].vol

\* Seeded fault: the end of the chain that stays is not marked.
RemoveChainUnmarked(v, c, before) == FreeFrom(v, c)

\* remove_chain from c on, before which the chain ends.
RemoveChain(v, c, before) ==
  FreeFrom(IF before = 0 THEN v ELSE FatAccess(v, [v EXCEPT !.fat[before] = Eoc]), c)

\* Write back the buffer if it is dirty.
Flush(v) ==
  IF v.f.dirty THEN Access(v, [v EXCEPT !.disk[v.f.sect[1]][v.f.sect[2]] = v.f.buf, !.f.dirty = FALSE])
  ELSE v

Load(v, s) == Access(v, [v EXCEPT !.f.buf = v.disk[s[1]][s[2]]])

SectorInCluster(f) == (f.fptr \div SS) % CSize
Position(f) == <<f.clust, SectorInCluster(f)>>
AtSector(f) == f.fptr % SS = 0
AtCluster(f) == AtSector(f) /\ SectorInCluster(f) = 0

\* Whole sectors that n bytes from the position on fill in the cluster at hand.
Spanned(f, n) == SectorInCluster(f) .. SectorInCluster(f) + Lesser(n \div SS, CSize - SectorInCluster(f)) - 1

FirstCluster(v) == IF v.f.sclust # 0 THEN [v EXCEPT !.cl = v.f.sclust] ELSE CreateChain(v, 0)

-----------------------------------------------------------------------------
(* f_lseek                                                                 *)

\* A position behind the end stretches the file.
Stretched(v, fptr) == IF fptr > v.f.objsize THEN [v EXCEPT !.f.objsize = fptr, !.f.modified = TRUE] ELSE v

\* The next cluster on the way, which write mode allocates.
NextCluster(v) ==
  IF v.f.write THEN CreateChain(Stretched(v, v.f.fptr), v.f.clust)
  ELSE FatAccess(v, [v EXCEPT !.cl = v.fat[v.f.clust]])

\* The loop along the chain, for rest bytes beyond the cluster at hand; it stops
\* where the disk is full.
Enter(v, rest) ==
  IF v.res # "ok" \/ v.cl = 0 THEN [vol |-> v, rest |-> 0]
  ELSE [vol |-> [v EXCEPT !.f.clust = v.cl], rest |-> rest]
Along(v, rest) ==
  LET step(at) ==
        IF at.rest <= Bcs THEN at ELSE Enter(NextCluster([at.vol EXCEPT !.f.fptr = @ + Bcs]), at.rest - Bcs)
      after[i \in 0 .. rest \div Bcs] == IF i = 0 THEN [vol |-> v, rest |-> rest] ELSE step(after[i - 1])
      reached == after[rest \div Bcs]
  IN [reached.vol EXCEPT !.f.fptr = @ + reached.rest]

FromFirst(v, ofs) ==
  IF v.res # "ok" THEN v
  ELSE IF v.cl = 0 THEN [v EXCEPT !.f.sclust = 0, !.f.clust = 0]
  ELSE Along([v EXCEPT !.f.sclust = v.cl, !.f.clust = v.cl], ofs)

\* From the cluster at hand if ofs is in it or behind it, else from the first one.
ToCluster(v, ofs, here) ==
  IF v.f.fptr > 0 /\ (ofs - 1) \div Bcs >= here
  THEN Along([v EXCEPT !.f.fptr = here * Bcs], ofs - here * Bcs)
  ELSE FromFirst(FirstCluster([v EXCEPT !.f.fptr = 0]), ofs)

\* The buffer must hold the sector a position inside it belongs to.
Holds(v, s) == IF v.res = "ok" THEN [v EXCEPT !.f.sect = s] ELSE v
Buffered(v) ==
  IF AtSector(v.f) \/ Position(v.f) = v.f.sect THEN v
  ELSE Holds(Load(Flush(v), Position(v.f)), Position(v.f))

Settled(v) == Aborted(IF v.res = "ok" THEN Buffered(Stretched(v, v.f.fptr)) ELSE v)

SeekTo(v, ofs) ==
  Settled(IF ofs = 0 THEN [v EXCEPT !.f.fptr = 0] ELSE ToCluster(v, ofs, (v.f.fptr - 1) \div Bcs))

LSeek(v, ofs) ==
  IF v.f.err THEN [v EXCEPT !.res = "error"]
  ELSE SeekTo(v, IF v.f.write THEN ofs ELSE Lesser(ofs, v.f.objsize))

-----------------------------------------------------------------------------
(* f_write                                                                 *)

\* On a cluster boundary the next cluster of the chain, which may be a new one.
OnCluster(v) ==
  IF v.res # "ok" THEN v
  ELSE IF v.cl = 0 THEN [v EXCEPT !.res = "full"]
  ELSE [v EXCEPT !.f.clust = v.cl, !.f.sclust = IF @ = 0 THEN v.cl ELSE @]

WriteCluster(v) ==
  IF ~AtCluster(v.f) THEN v
  ELSE OnCluster(IF v.f.fptr > 0 THEN CreateChain(v, v.f.clust) ELSE FirstCluster(v))

Cleaned(v) == IF v.res = "ok" /\ AtSector(v.f) THEN Flush(v) ELSE v

Advance(v, n) == [v EXCEPT !.f.fptr = @ + n, !.f.objsize = IF v.f.fptr + n > @ THEN v.f.fptr + n ELSE @]

\* The buffer follows its sector.
Refreshed(v, span, b) ==
  IF v.f.sect[1] = v.f.clust /\ v.f.sect[2] \in span THEN [v EXCEPT !.f.buf = Fill(b), !.f.dirty = FALSE] ELSE v

\* Whole sectors go to the disk directly, and to the buffer if it holds one.
DirectDone(v, span, b) ==
  IF v.res # "ok" THEN v ELSE Advance(Refreshed(v, span, b), Cardinality(span) * SS)
WriteDirect(v, span, b) ==
  DirectDone(Access(v, [v EXCEPT !.disk[v.f.clust] = [i \in DOMAIN @ |-> IF i \in span THEN Fill(b) ELSE @[i]]]), span, b)

\* The rest goes to the buffer, which is loaded first if the file has bytes there.
Patch(v, at, m, b) ==
  IF v.res # "ok" THEN v
  ELSE Advance([v EXCEPT !.f.sect = Position(v.f), !.f.dirty = TRUE,
                         !.f.buf = [i \in 1 .. SS |-> IF i \in at + 1 .. at + m THEN b ELSE @[i]]], m)
WriteBuffer(v, n, b) ==
  Patch(IF AtSector(v.f) /\ v.f.sect # Position(v.f) /\ v.f.fptr < v.f.objsize THEN Load(v, Position(v.f)) ELSE v,
        v.f.fptr % SS, Lesser(n, SS - (v.f.fptr % SS)), b)

WritePart(v, n, b) ==
  IF v.res # "ok" THEN v
  ELSE IF AtSector(v.f) /\ n >= SS THEN WriteDirect(v, Spanned(v.f, n), b)
  ELSE WriteBuffer(v, n, b)

\* The loop until the position is end; every turn moves it or fails.
WriteTo(v, end, b) ==
  LET step(w) ==
        IF w.f.fptr = end \/ w.res # "ok" THEN w
        ELSE WritePart(Cleaned(WriteCluster(w)), end - w.f.fptr, b)
      after[i \in 0 .. end - v.f.fptr] == IF i = 0 THEN v ELSE step(after[i - 1])
  IN after[end - v.f.fptr]

WriteEnds(v) == IF v.res = "error" THEN Aborted(v) ELSE [v EXCEPT !.f.modified = TRUE]

Write(v, n, b) ==
  IF v.f.err \/ ~v.f.write THEN [v EXCEPT !.res = "error"] ELSE WriteEnds(WriteTo(v, v.f.fptr + n, b))

-----------------------------------------------------------------------------
(* f_read                                                                  *)

ReadCluster(v) ==
  IF ~AtCluster(v.f) THEN v
  ELSE IF v.f.fptr = 0 THEN [v EXCEPT !.f.clust = v.f.sclust]
  ELSE FatAccess(v, [v EXCEPT !.f.clust = v.fat[v.f.clust]])

Got(v, bytes) == [v EXCEPT !.out = @ \o bytes, !.f.fptr = @ + Len(bytes)]

\* A sector of the disk, or the buffer where that is newer.
Newest(v, s) == IF v.f.dirty /\ v.f.sect = s THEN v.f.buf ELSE v.disk[s[1]][s[2]]

ReadDirect(v, span) ==
  IF v.res # "ok" THEN v
  ELSE Got(v, FlattenSeq([i \in 1 .. Cardinality(span) |-> Newest(v, <<v.f.clust, SectorInCluster(v.f) + i - 1>>)]))

ReadBuffer(v, at, n) ==
  IF v.res # "ok" THEN v ELSE Got(v, SubSeq(v.f.buf, at + 1, at + Lesser(n, SS - at)))

ReadPart(v, n) ==
  IF v.res # "ok" THEN v
  ELSE IF AtSector(v.f) /\ n >= SS THEN ReadDirect(Access(v, v), Spanned(v.f, n))
  ELSE ReadBuffer(IF AtSector(v.f) /\ v.f.sect # Position(v.f) THEN Holds(Load(Flush(v), Position(v.f)), Position(v.f)) ELSE v,
                  v.f.fptr % SS, n)

ReadTo(v, end) ==
  LET step(w) == IF w.f.fptr = end \/ w.res # "ok" THEN w ELSE ReadPart(ReadCluster(w), end - w.f.fptr)
      after[i \in 0 .. end - v.f.fptr] == IF i = 0 THEN v ELSE step(after[i - 1])
  IN after[end - v.f.fptr]

Read(v, n) ==
  IF v.f.err THEN [v EXCEPT !.res = "error"]
  ELSE Aborted(ReadTo(v, v.f.fptr + Lesser(n, v.f.objsize - v.f.fptr)))

-----------------------------------------------------------------------------
(* f_truncate, f_sync                                                      *)

CutBehind(v) == IF v.res = "ok" /\ v.cl # Eoc THEN RemoveChain(v, v.cl, v.f.clust) ELSE v

Cut(v) ==
  IF v.f.fptr = 0 THEN [RemoveChain(v, v.f.sclust, 0) EXCEPT !.f.sclust = 0]
  ELSE CutBehind(FatAccess(v, [v EXCEPT !.cl = v.fat[v.f.clust]]))

\* The size is set whatever the removal returned, the buffer flushed only if it
\* succeeded.
Shorten(v) == Aborted(IF v.res = "ok" THEN Flush(v) ELSE v)

Truncate(v) ==
  IF v.f.err \/ ~v.f.write THEN [v EXCEPT !.res = "error"]
  ELSE IF v.f.fptr >= v.f.objsize THEN v
  ELSE Shorten([Cut(v) EXCEPT !.f.objsize = v.f.fptr, !.f.modified = TRUE])

\* The entry is patched in the window, which sync_fs writes before it flushes the disk.
Stored(v) == Access(v, [v EXCEPT !.entry = [sclust |-> v.f.sclust, size |-> v.f.objsize]])
Flushed(v) == Access(v, v)
SyncFs(v) == Flushed(Access(v, [v EXCEPT !.stored = v.entry]))

\* FA_MODIFIED is cleared whatever sync_fs returns.
Unmodified(v) == IF v.res = "ok" THEN [v EXCEPT !.f.modified = FALSE] ELSE v

\* Seeded fault: the entry is stored and the buffer kept.
SyncKept(v) == IF v.f.modified THEN SyncFs(Unmodified(Stored(v))) ELSE v

Sync(v) == IF v.f.modified THEN SyncFs(Unmodified(Stored(Flush(v)))) ELSE v

-----------------------------------------------------------------------------
(* The handlers' calls and the other files.                                *)

\* handle_file_write, handle_file_read, handle_file_truncate: seek, then work.
Reached(v) == [v EXCEPT !.at = v.f.fptr]
WriteThere(v, n, b) == IF v.res = "ok" THEN Write(v, n, b) ELSE v
WriteAt(v, ofs, n, b) == WriteThere(Reached(LSeek(v, ofs)), n, b)

ReadThere(v, n) == IF v.res = "ok" THEN Read(v, n) ELSE v
ReadAt(v, ofs, n) == ReadThere(Reached(LSeek(v, ofs)), n)

TruncateThere(v) == IF v.res = "ok" THEN Truncate(v) ELSE v
TruncateAt(v, len) == TruncateThere(LSeek(v, len))

\* handle_file_close: f_close goes on when f_sync succeeds.
CloseSynced(v) == IF v.res = "ok" THEN [v EXCEPT !.f = Closed] ELSE v
Close(v) == CloseSynced(Sync(v))

\* How a call may end: with no fault, or with one at each of its disk accesses.
Endings(Call(_)) ==
  UNION {{v} \cup {Call(Volume(left)) : left \in IF faults < MaxFaults THEN 0 .. MaxAccess - v.left - 1 ELSE {}}
         : v \in {Call(Volume(MaxAccess))}}

Commit(v) ==
  /\ disk' = v.disk /\ fat' = v.fat /\ last' = v.last /\ free' = v.free
  /\ fil' = v.f /\ entry' = v.entry /\ stored' = v.stored
  /\ late' = (v.stored # v.entry /\ (late \/ (v.res = "error" /\ fil.modified /\ ~v.f.modified)))
  /\ faults' = IF v.left = 0 THEN faults + 1 ELSE faults

\* The promise, cut or stretched to a size, and with bytes written into it.
Sized(size) == [i \in 1 .. size |-> IF i <= Len(want) THEN want[i] ELSE Unknown]
Written(w, from, to, b) == [i \in DOMAIN w |-> IF i \in from + 1 .. to THEN b ELSE w[i]]

\* f_open of an existing file.
Open(write) ==
  /\ ~fil.open
  /\ fil' = [open |-> TRUE, write |-> write, err |-> FALSE, dirty |-> FALSE, modified |-> FALSE, fptr |-> 0,
             objsize |-> entry.size, sclust |-> entry.sclust, clust |-> 0, sect |-> NoSector, buf |-> Fill(Garbage)]
  /\ UNCHANGED <<disk, fat, last, free, entry, stored, others, want, misread, faults, stray, late>>

\* A write that fails promises nothing of its bytes.
FileWrite(v, b) ==
  /\ Commit(v)
  /\ want' = Written(Sized(v.f.objsize), v.at, v.f.fptr, IF v.res = "error" THEN Unknown ELSE b)
  /\ UNCHANGED <<others, misread, stray>>

FileRead(v) ==
  /\ Commit(v)
  /\ want' = Sized(v.f.objsize)
  /\ misread' = (misread \/ \E i \in 1 .. Len(v.out) : Sized(v.f.objsize)[v.at + i] \notin {Unknown, v.out[i]})
  /\ UNCHANGED <<others, stray>>

FileTruncate(v) ==
  /\ Commit(v)
  /\ want' = Sized(v.f.objsize)
  /\ stray' = (stray \/ (v.f.err /\ v.f.dirty /\ v.fat[v.f.sect[1]] = 0))
  /\ UNCHANGED <<others, misread>>

FileSync(v) == Commit(v) /\ UNCHANGED <<others, want, misread, stray>>

\* What a failed call has added to the file may be gone with its object.
FileClose(v) ==
  /\ Commit(v)
  /\ want' = IF ~v.f.open /\ fil.err THEN Sized(v.entry.size) ELSE want
  /\ UNCHANGED <<others, misread, stray>>

\* Another file takes a cluster and fills it, or gives one back.
Take ==
  LET v == CreateChain(Volume(MaxAccess), 0) IN
  /\ v.cl # 0
  /\ Commit([v EXCEPT !.disk[v.cl] = Blank])
  /\ others' = others \cup {v.cl}
  /\ UNCHANGED <<want, misread, stray>>

Give(c) ==
  /\ c \in others
  /\ Commit(RemoveChain(Volume(MaxAccess), c, 0))
  /\ others' = others \ {c}
  /\ UNCHANGED <<want, misread, stray>>

Call ==
  \/ \E ofs \in Offsets, n \in Lengths :
       \/ \E b \in Byte : \E v \in Endings(LAMBDA v : WriteAt(v, ofs, n, b)) : FileWrite(v, b)
       \/ \E v \in Endings(LAMBDA v : ReadAt(v, ofs, n)) : FileRead(v)
  \/ \E len \in Offsets : \E v \in Endings(LAMBDA v : TruncateAt(v, len)) : FileTruncate(v)
  \/ \E v \in Endings(Sync) : FileSync(v)
  \/ \E v \in Endings(Close) : FileClose(v)

Next ==
  \/ \E write \in BOOLEAN : Open(write)
  \/ fil.open /\ Call
  \/ Take
  \/ \E c \in others : Give(c)

Spec == Init /\ [][Next]_vars

-----------------------------------------------------------------------------
(* Properties.                                                             *)

ChainFrom(c) ==
  LET walk[i \in 1 .. Cardinality(Clusters)] ==
        IF i = 1 THEN c ELSE IF walk[i - 1] \in Clusters THEN fat[walk[i - 1]] ELSE Eoc
  IN [i \in {i \in DOMAIN walk : walk[i] \in Clusters} |-> walk[i]]

First == IF fil.open THEN fil.sclust ELSE entry.sclust
Size == IF fil.open THEN fil.objsize ELSE entry.size
Chain == IF First = 0 THEN <<>> ELSE ChainFrom(First)
ChainClusters == {Chain[i] : i \in 1 .. Len(Chain)}

\* The i-th byte of the file: in its buffer if that is newer than the disk.
ByteAt(i) ==
  LET s == <<Chain[1 + (i - 1) \div Bcs], ((i - 1) \div SS) % CSize>>
      held == fil.open /\ fil.sect = s
  IN (IF held /\ fil.dirty THEN fil.buf ELSE disk[s[1]][s[2]])[1 + ((i - 1) % SS)]

\* The chain reaches as far as the size says, and the bytes along it (the disk's,
\* or the dirty buffer's) are those the completed writes put there, whatever disk
\* access of whatever call failed (f_write, f_lseek, f_truncate, f_sync).
ContentExact ==
  /\ Len(want) = Size /\ Size <= Bcs * Len(Chain)
  /\ \A i \in 1 .. Size : want[i] \in {Unknown, ByteAt(i)}

\* A file that is closed, or synchronised since it was last changed, has its first
\* cluster and size on the disk, unless f_sync has failed in sync_fs: it has cleared
\* FA_MODIFIED all the same, so later calls of f_sync and f_close succeed without
\* another attempt, and the entry waits in the window for the next access to the FAT.
EntryStored ==
  (~fil.open \/ ~(fil.modified \/ fil.err)) => late \/ stored = [sclust |-> First, size |-> Size]

\* No read has returned anything but what the writes before it put there (f_read
\* with the sector buffer between it and the disk).
NothingMisread == ~misread

\* The chain is allocated and ends; clusters of other files are neither in it nor
\* written to (create_chain, remove_chain, a buffer written back late), unless a
\* truncation failed and left a dirty buffer of what it had freed.
OthersIntact ==
  /\ \A c \in ChainClusters : fat[c] # 0
  /\ ChainClusters \cap others = {}
  /\ \A c \in others : fat[c] = Eoc
  /\ ~stray => \A c \in others : disk[c] = Blank

\* fs->free_clst, which create_chain trusts before it searches, is never less
\* than the free clusters there are.
FreeCountNotLow == free >= Cardinality({c \in Clusters : fat[c] = 0})
=============================================================================
