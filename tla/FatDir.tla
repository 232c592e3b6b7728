------------------------------- MODULE FatDir -------------------------------
(* Directories of a FAT volume as FatFs keeps them (dep/ff15/ff.c): tables of    *)
(* slots in cluster chains, a name in one slot or in a run of long-name slots    *)
(* before it, look-up, registration and removal of names, the functions f_open,  *)
(* f_mkdir, f_unlink, f_rename, f_opendir and f_closedir that use     *)
(* them, and the table Files[] of open objects (FF_FS_LOCK).                     *)
(*                                                                               *)
(* One operation runs at a time (FatDisk shows what several do to the window).   *)
(* The disk may fail between the parts of an operation and inside a removal, a   *)
(* registration or a stretch.  Files have no contents here.  A short name is an  *)
(* 8.3 name that needs no long entry; a long name is one whose 8.3 form loses    *)
(* something and is numbered.  The checksum that ties long slots to the short    *)
(* one is the short name itself.                                                 *)
EXTENDS Integers, FiniteSets, Sequences, SequencesExt

CONSTANTS
  Short,       \* short names
  Long,        \* long names
  Alias,       \* gen_numname: the numbered short names of a long one, in order
  Parts,       \* slots of a long name beyond the short one
  Clusters,    \* of the data area; the least is the root's
  PerCluster,  \* slots in a cluster
  FileIds,     \* identities of files
  MaxLocks,    \* FF_FS_LOCK
  MaxFiles,    \* FIL objects
  MaxDirs,     \* DIR objects
  MaxStubs     \* registrations the disk may cut short

\* A long name and its short form fit in a cluster, and fewer objects are open than
\* the count that stands for a writer.
ASSUME FatDirAssumption ==
  /\ IsFiniteSet(Clusters) /\ Clusters # {} /\ Clusters \subseteq Nat \ {0}
  /\ Parts \in Nat \ {0} /\ PerCluster \in Nat /\ Parts < PerCluster
  /\ Short \cap Long = {}
  /\ \A l \in Long : DOMAIN Alias[l] \subseteq Nat /\ \A i \in DOMAIN Alias[l] : Alias[l][i] \notin Long
  /\ MaxLocks \in Nat /\ MaxFiles \in 0 .. 255 /\ MaxDirs \in 0 .. 255

Names == Short \cup Long
Least(S) == CHOOSE x \in S : \A y \in S : x <= y
Root == Least(Clusters)
NoFile == 0
Eoc == 0 - 1

VARIABLES
  table,    \* the slots of each cluster
  fat,      \* the FAT entry of each cluster: 0 free, Eoc, or the next cluster
  locks,    \* Files[]: the count of a lock entry, by its key <<cluster, position>>
  files,    \* open FIL objects: key of their entry, file, whether for writing
  dirs,     \* open DIR objects: the cluster of each
  tree,     \* history: what the operations promised: directory, names, object
  stubs,    \* history: names whose registration or removal was cut short
  crossed,  \* history: a directory was moved below itself, or a rename cut short
  uncleared \* history: the cluster that a directory got without its being cleared, or 0

dirVars == <<table, fat, locks, files, dirs, tree, stubs, crossed, uncleared>>

Vol == [table |-> table, fat |-> fat]

End     == [kind |-> "end"]
Deleted == [kind |-> "deleted"]
Lfn(name, ord, sfn) == [kind |-> "lfn", name |-> name, ord |-> ord, sfn |-> sfn]
Sfn(sfn, obj) == [kind |-> "sfn", sfn |-> sfn, obj |-> obj]
Dot(dots, clu) == [kind |-> "dot", sfn |-> dots, obj |-> <<"dir", clu>>]
Free(slot) == slot.kind \in {"end", "deleted"}
Clear == [i \in 1 .. PerCluster |-> End]

DirInit ==
  /\ table = [c \in Clusters |-> Clear]
  /\ fat = [c \in Clusters |-> IF c = Root THEN Eoc ELSE 0]
  /\ locks = [k \in {} |-> 0]
  /\ files = {} /\ dirs = {} /\ tree = {} /\ stubs = {} /\ crossed = FALSE /\ uncleared = 0

-----------------------------------------------------------------------------
(* The table of a directory.                                               *)

\* The clusters from c on, in the order in which the FAT links them.
Chain(v, c) ==
  LET walk[i \in 1 .. Cardinality(Clusters)] ==
        IF i = 1 THEN c ELSE IF walk[i - 1] \in Clusters THEN v.fat[walk[i - 1]] ELSE Eoc
  IN [i \in {i \in DOMAIN walk : walk[i] \in Clusters} |-> walk[i]]

\* dir_sdi: the cluster and the index in it of the p-th slot of the chain s.
Cell(s, p) == <<s[1 + ((p - 1) \div PerCluster)], 1 + ((p - 1) % PerCluster)>>

DirSlots(v, d) ==
  LET s == Chain(v, d)
  IN [p \in 1 .. Len(s) * PerCluster |-> v.table[Cell(s, p)[1]][Cell(s, p)[2]]]

\* The write of slots through the window, from position pos on.
StoreAll(v, d, pos, slots) ==
  LET s == Chain(v, d)
      At(c, j) == {i \in DOMAIN slots : Cell(s, pos + i - 1) = <<c, j>>}
  IN [v EXCEPT !.table = [c \in Clusters |-> [j \in 1 .. PerCluster |->
        IF At(c, j) = {} THEN v.table[c][j] ELSE slots[CHOOSE i \in At(c, j) : TRUE]]]]

Store(v, d, pos, slot) == StoreAll(v, d, pos, <<slot>>)

\* The positions a scan reaches: it stops at the first slot that was never used.
Reached(S) == {p \in 1 .. Len(S) : \A q \in 1 .. p : S[q].kind # "end"}

\* dp->blk_ofs: where the long name before the short slot p starts, else p.
Top(S, p) ==
  LET starts == {q \in 1 .. p - 1 : /\ S[q].kind = "lfn" /\ S[q].ord = Parts
                                    /\ \A r \in q .. p - 1 : S[r].kind = "lfn"}
  IN IF starts = {} THEN p ELSE CHOOSE q \in starts : \A r \in starts : r <= q

LongMatch(S, p, name) ==
  /\ p > Parts
  /\ \A i \in 1 .. Parts : S[p - i] = Lfn(name, i, S[p].sfn)

Matches(S, p, name) ==
  /\ S[p].kind = "sfn"
  /\ \/ LongMatch(S, p, name)
     \/ name \in Short /\ S[p].sfn = name

\* dir_find: the position of the short slot, 0 if there is none.
Find(v, d, name) ==
  LET S == DirSlots(v, d)
      found == {p \in Reached(S) : Matches(S, p, name)}
  IN IF found = {} THEN 0 ELSE Least(found)

\* The directory a path's parent leads to, 0 if it leads to none (follow_path).
Child(v, d, name) ==
  LET p == Find(v, d, name) IN
  IF p # 0 /\ DirSlots(v, d)[p].obj[1] = "dir" THEN DirSlots(v, d)[p].obj[2] ELSE 0

Follow(v, d, path) ==
  LET reached[i \in 0 .. Len(path)] ==
        IF i = 0 THEN d ELSE IF reached[i - 1] = 0 THEN 0 ELSE Child(v, reached[i - 1], path[i])
  IN reached[Len(path)]

\* Where a path leads: its name, the directory of its parent, and the position of
\* its entry there, 0 if it has none.  Nowhere if the parent is not there.
Where(path) ==
  {[name |-> Last(path), dir |-> d, pos |-> Find(Vol, d, Last(path))]
     : d \in {Follow(Vol, Root, Front(path))} \ {0}}

Object(v, d, p) == DirSlots(v, d)[p].obj

\* DIR_READ_FILE finds something: dot entries and long slots do not count.
Entries(S) == {p \in Reached(S) : S[p].kind = "sfn"}

-----------------------------------------------------------------------------
(* Clusters.                                                               *)

Unused(v) == {c \in Clusters : v.fat[c] = 0}

ClustersOf(v, c) == {Chain(v, c)[i] : i \in 1 .. Len(Chain(v, c))}

RemoveChain(v, c) == [v EXCEPT !.fat = [x \in Clusters |-> IF x \in ClustersOf(v, c) THEN 0 ELSE v.fat[x]]]

\* create_chain and dir_clear of a cluster.
NewCluster(v, c) == [v EXCEPT !.fat[c] = Eoc, !.table[c] = Clear]

\* dir_next with stretch: create_chain links the new cluster, then dir_clear clears it.
Stretch(v, d) ==
  LET c == Least(Unused(v))
      last == Last(Chain(v, d))
  IN [NewCluster(v, c) EXCEPT !.fat[last] = c]

\* What an unused cluster may hold: what a directory left there, or a file's data,
\* which may read as names.
Leftovers(v, c) ==
  {v.table[c]} \cup {[i \in 1 .. PerCluster |-> Sfn(name, <<"file", NoFile>>)] : name \in Short}

\* The disk fails in dir_clear, which has cleared k slots: the cluster stays linked.
HalfCleared(v, d, k, held) ==
  LET c == Least(Unused(v))
  IN [vol |-> [Stretch(v, d) EXCEPT !.table[c] = [i \in 1 .. PerCluster |-> IF i <= k THEN End ELSE held[i]]],
      new |-> c]

-----------------------------------------------------------------------------
(* dir_alloc, dir_register, dir_remove.                                    *)

Runs(v, d, n) ==
  LET S == DirSlots(v, d)
  IN {p \in 1 .. Len(S) - n + 1 : \A q \in p .. p + n - 1 : Free(S[q])}

\* dir_alloc: the volume, stretched if need be, and the first of n free slots in
\* sequence, 0 if there is no room.
Alloc(v, d, n) ==
  IF Runs(v, d, n) # {} THEN [vol |-> v, pos |-> Least(Runs(v, d, n))]
  ELSE IF Unused(v) = {} THEN [vol |-> v, pos |-> 0]
  ELSE [vol |-> Stretch(v, d), pos |-> Least(Runs(Stretch(v, d), d, n))]

\* Short names in use, however their entries are named.
Sfns(v, d) == {DirSlots(v, d)[p].sfn : p \in Entries(DirSlots(v, d))}

\* The short name of a new entry: the name, or the first numbered one not in use.
Numbered(v, d, name) ==
  IF name \in Short THEN {name}
  ELSE LET unused == {i \in DOMAIN Alias[name] : Alias[name][i] \notin Sfns(v, d)}
       IN IF unused = {} THEN {} ELSE {Alias[name][Least(unused)]}

NewSlots(name, sfn, obj) ==
  (IF name \in Long THEN [i \in 1 .. Parts |-> Lfn(name, Parts + 1 - i, sfn)] ELSE <<>>)
    \o <<Sfn(sfn, obj)>>

\* dir_register and the fields its caller sets in the same window: the possible
\* results, with the number of slots that were written before the disk failed.
Register(v, d, name, obj) ==
  UNION {LET slots == NewSlots(name, sfn, obj)
             a == Alloc(v, d, Len(slots))
         IN IF a.pos = 0 THEN {}
            ELSE {[vol |-> StoreAll(a.vol, d, a.pos, SubSeq(slots, 1, k)), sfn |-> sfn,
                   begun |-> k > 0, done |-> k = Len(slots), pos |-> a.pos + Len(slots) - 1] : k \in 0 .. Len(slots)}
         : sfn \in Numbered(v, d, name)}

\* dir_register where dir_alloc has to stretch the directory and cannot clear it.
RegisterUncleared(v, d, name) ==
  IF Unused(v) = {} \/ Numbered(v, d, name) = {} \/ Runs(v, d, IF name \in Long THEN Parts + 1 ELSE 1) # {} THEN {}
  ELSE {HalfCleared(v, d, k, held) : k \in 0 .. PerCluster - 1, held \in Leftovers(v, Least(Unused(v)))}

\* Seeded fault: only the short slot is marked.
RemoveEntryShort(v, d, p) == {[vol |-> Store(v, d, p, Deleted), begun |-> TRUE, done |-> TRUE]}

\* dir_remove marks the slots of the entry at p from its first on.
RemoveEntry(v, d, p) ==
  LET top == Top(DirSlots(v, d), p)
  IN {[vol |-> StoreAll(v, d, top, [i \in 1 .. k |-> Deleted]),
       begun |-> k > 0, done |-> k = p - top + 1] : k \in 0 .. p - top + 1}

-----------------------------------------------------------------------------
(* Open objects.                                                           *)

\* chk_share for a reading open: nobody has the entry open for writing.
NotWritten(d, p) == \A k \in DOMAIN locks : k = <<d, p>> => locks[k] # 256

\* Seeded fault: a change is refused for what is open for writing only.
NotSharedByWriter(d, p) == NotWritten(d, p)

\* chk_share for a change (acc > 0): the entry is in nobody's use.
NotShared(d, p) == <<d, p>> \notin DOMAIN locks

CanLock(key) == key \in DOMAIN locks \/ Cardinality(DOMAIN locks) < MaxLocks

\* inc_share
Locked(key, write) ==
  [k \in DOMAIN locks \cup {key} |->
     IF k # key THEN locks[k] ELSE IF write THEN 256 ELSE IF key \in DOMAIN locks THEN locks[key] + 1 ELSE 1]

\* dec_share
Unlocked(key) ==
  IF locks[key] \in {1, 256} THEN [k \in DOMAIN locks \ {key} |-> locks[k]]
  ELSE [locks EXCEPT ![key] = @ - 1]

-----------------------------------------------------------------------------
(* The operations.                                                         *)

Commit(v) == table' = v.table /\ fat' = v.fat

\* What the entry (d, p) is called in the history.
Named(d, p) == {e \in tree : e.dir = d /\ e.sfn = DirSlots(Vol, d)[p].sfn}

\* The handlers give every open a FIL object of its own.
FreshFil == Least((1 .. MaxFiles) \ {f.n : f \in files})

\* f_open of an existing file.
OpenFile(at, write) ==
  /\ at.pos # 0 /\ Cardinality(files) < MaxFiles
  /\ Object(Vol, at.dir, at.pos)[1] = "file"
  /\ CanLock(<<at.dir, at.pos>>)
  /\ IF write THEN NotShared(at.dir, at.pos) ELSE NotWritten(at.dir, at.pos)
  /\ locks' = Locked(<<at.dir, at.pos>>, write)
  /\ files' = files \cup {[key |-> <<at.dir, at.pos>>, obj |-> Object(Vol, at.dir, at.pos), write |-> write,
                           n |-> FreshFil]}
  /\ UNCHANGED <<table, fat, dirs, tree, stubs, crossed, uncleared>>

\* What a registration adds to the history.
Entry(at, r, obj) == [dir |-> at.dir, name |-> at.name, sfn |-> r.sfn, obj |-> obj]
StubsAfter(at, r) == IF r.begun /\ ~r.done THEN stubs \cup {<<at.dir, at.name>>} ELSE stubs

\* f_open of a file that does not exist yet; it stays open for writing.
CreateFile(at, id) ==
  /\ at.pos = 0
  /\ Cardinality(files) < MaxFiles /\ Cardinality(DOMAIN locks) < MaxLocks
  /\ \E r \in Register(Vol, at.dir, at.name, <<"file", id>>) :
       /\ Commit(r.vol)
       /\ stubs' = StubsAfter(at, r) /\ Cardinality(stubs') <= MaxStubs
       /\ IF r.done
          THEN /\ tree' = tree \cup {Entry(at, r, <<"file", id>>)}
               /\ locks' = Locked(<<at.dir, r.pos>>, TRUE)
               /\ files' = files \cup {[key |-> <<at.dir, r.pos>>, obj |-> <<"file", id>>, write |-> TRUE, n |-> FreshFil]}
          ELSE UNCHANGED <<tree, locks, files>>
  /\ UNCHANGED <<dirs, crossed, uncleared>>

\* f_close
CloseFile(f) ==
  /\ files' = files \ {f}
  /\ locks' = Unlocked(f.key)
  /\ UNCHANGED <<table, fat, dirs, tree, stubs, crossed, uncleared>>

\* f_mkdir: a cluster with the two dot entries, then its name.  If that fails the
\* cluster is given back, unless the disk fails there too.
DotsOf(d, c) == [Clear EXCEPT ![1] = Dot(".", c), ![2] = Dot("..", IF d = Root THEN 0 ELSE d)]

WithDots(d, c) == [NewCluster(Vol, c) EXCEPT !.table[c] = DotsOf(d, c)]

MkDir(at) ==
  /\ at.pos = 0 /\ Unused(Vol) # {}
  /\ \E c \in {Least(Unused(Vol))} : \E made \in {WithDots(at.dir, c)} :
     \E results \in {Register(made, at.dir, at.name, <<"dir", c>>)} :
       \/ /\ results = {}
          /\ Commit([made EXCEPT !.fat[c] = 0])
          /\ UNCHANGED <<tree, stubs>>
       \/ \E r \in results :
            /\ stubs' = StubsAfter(at, r) /\ Cardinality(stubs') <= MaxStubs
            /\ IF r.done
               THEN Commit(r.vol) /\ tree' = tree \cup {Entry(at, r, <<"dir", c>>)}
               ELSE /\ Commit([r.vol EXCEPT !.fat[c] = 0]) \/ Commit(r.vol)
                    /\ UNCHANGED tree
  /\ UNCHANGED <<locks, files, dirs, crossed, uncleared>>

\* A removal the disk cut short leaves an entry that only its short name finds.
Shortened(es) == {[e EXCEPT !.name = e.sfn] : e \in es}

TreeWithout(d, p, x) ==
  (tree \ Named(d, p)) \cup (IF x.done THEN {} ELSE IF x.begun THEN Shortened(Named(d, p)) ELSE Named(d, p))

\* f_unlink of a file or an empty directory, whose clusters stay allocated when
\* the disk fails after the removal of its name.
Unlink(at) ==
  /\ at.pos # 0 /\ NotShared(at.dir, at.pos)
  /\ \E obj \in {Object(Vol, at.dir, at.pos)} :
       /\ (obj[1] = "dir") => (Entries(DirSlots(Vol, obj[2])) = {})
       /\ \E x \in RemoveEntry(Vol, at.dir, at.pos) :
            /\ \/ x.done /\ obj[1] = "dir" /\ Commit(RemoveChain(x.vol, obj[2]))
               \/ Commit(x.vol)
            /\ tree' = TreeWithout(at.dir, at.pos, x)
  /\ UNCHANGED <<locks, files, dirs, stubs, crossed, uncleared>>

\* The two dots of a directory that moves to another one.
Redirected(v, obj, d, e) ==
  IF obj[1] = "dir" /\ d # e THEN Store(v, obj[2], 2, Dot("..", IF e = Root THEN 0 ELSE e)) ELSE v

\* The path leads through the directory c.
LeadsThrough(path, c) == \E i \in 1 .. Len(path) - 1 : Follow(Vol, Root, SubSeq(path, 1, i)) = c

\* f_rename: the new name is registered for the object, then the old one removed.
\* The new name may be found only where it is the old entry itself.
Rename(from, to, new) ==
  /\ NotShared(from.dir, from.pos)
  /\ to.pos = 0 \/ (to.dir = from.dir /\ to.pos = from.pos)
  /\ \E obj \in {Object(Vol, from.dir, from.pos)} : \E r \in Register(Vol, to.dir, to.name, obj) :
       /\ stubs' = StubsAfter(to, r) /\ Cardinality(stubs') <= MaxStubs
       /\ IF ~r.done
          THEN Commit(r.vol) /\ UNCHANGED <<tree, crossed>>
          ELSE \E x \in RemoveEntry(Redirected(r.vol, obj, from.dir, to.dir), from.dir, from.pos) :
                 /\ Commit(x.vol)
                 /\ tree' = TreeWithout(from.dir, from.pos, x) \cup {Entry(to, r, obj)}
                 /\ crossed' = (crossed \/ ~x.done \/ (obj[1] = "dir" /\ LeadsThrough(new, obj[2])))
  /\ UNCHANGED <<locks, files, dirs, uncleared>>

\* A stretch that fails in dir_clear ends f_open, f_mkdir or f_rename.  Nothing is
\* undone but what f_mkdir has allocated itself.
EndsUncleared(halves) ==
  /\ \E h \in halves : Commit(h.vol) /\ uncleared' = h.new
  /\ UNCHANGED <<locks, files, dirs, tree, stubs, crossed>>

MkDirUncleared(at) ==
  LET c == Least(Unused(Vol))
  IN IF Unused(Vol) = {} THEN {}
     ELSE UNION {{h, [h EXCEPT !.vol.fat[c] = 0]} : h \in RegisterUncleared(WithDots(at.dir, c), at.dir, at.name)}

CreateUncleared(at) ==
  /\ at.pos = 0
  /\ EndsUncleared(MkDirUncleared(at) \cup
       IF Cardinality(files) < MaxFiles /\ Cardinality(DOMAIN locks) < MaxLocks
       THEN RegisterUncleared(Vol, at.dir, at.name) ELSE {})

RenameUncleared(from, to) ==
  /\ NotShared(from.dir, from.pos)
  /\ to.pos = 0 \/ (to.dir = from.dir /\ to.pos = from.pos)
  /\ EndsUncleared(RegisterUncleared(Vol, to.dir, to.name))

\* f_opendir: the root takes no lock; another directory takes one for its own
\* first slot.
OpenDir(c) ==
  /\ Cardinality(dirs) < MaxDirs
  /\ (c # Root) => CanLock(<<c, 0>>)
  /\ locks' = IF c = Root THEN locks ELSE Locked(<<c, 0>>, FALSE)
  /\ dirs' = dirs \cup {<<c, Least((1 .. MaxDirs) \ {x[2] : x \in dirs})>>}
  /\ UNCHANGED <<table, fat, files, tree, stubs, crossed, uncleared>>

\* f_closedir
CloseDir(x) ==
  /\ dirs' = dirs \ {x}
  /\ locks' = IF x[1] = Root THEN locks ELSE Unlocked(<<x[1], 0>>)
  /\ UNCHANGED <<table, fat, files, tree, stubs, crossed, uncleared>>

Paths == {<<n>> : n \in Names} \cup (Names \X Names)

\* A volume that needs repair is left alone.
DirNext ==
  /\ ~crossed /\ uncleared = 0
  /\ \/ \E path \in Paths : \E at \in Where(path) :
          \/ \E write \in BOOLEAN : OpenFile(at, write)
          \/ \E id \in FileIds : (\A e \in tree : e.obj # <<"file", id>>) /\ CreateFile(at, id)
          \/ MkDir(at)
          \/ CreateUncleared(at)
          \/ Unlink(at)
          \/ at.pos # 0 /\ \E new \in Paths : \E to \in Where(new) : Rename(at, to, new) \/ RenameUncleared(at, to)
     \/ \E f \in files : CloseFile(f)
     \/ \E path \in Paths \cup {<<>>} : \E c \in {Follow(Vol, Root, path)} \ {0} : OpenDir(c)
     \/ \E x \in dirs : CloseDir(x)

DirSpec == DirInit /\ [][DirNext]_dirVars

-----------------------------------------------------------------------------
(* Properties.                                                             *)

Directories == {Root} \cup {e.obj[2] : e \in {x \in tree : x.obj[1] = "dir"}}

\* A name is found in a directory exactly when an operation has put it there, and
\* leads to the object it was given (dir_find, dir_register, dir_remove), but for a
\* name whose registration was cut short: its long slots may adopt another entry.
FindExact ==
  \A d \in Directories, name \in Names :
    LET p == Find(Vol, d, name)
        es == {e \in tree : e.dir = d /\ name \in {e.name, e.sfn}}
    IN \/ <<d, name>> \in stubs
       \/ IF es = {} THEN p = 0 ELSE p # 0 /\ \E e \in es : Object(Vol, d, p) = e.obj

\* No name stands behind the first slot that was never used, where every scan
\* stops (dir_alloc, dir_next with its stretch).
NothingBehindEnd ==
  \A d \in Directories :
    LET S == DirSlots(Vol, d) IN \A p \in 1 .. Len(S) : S[p].kind = "sfn" => p \in Reached(S)

\* No two entries of a directory have one short name (dir_register numbers them), unless
\* a rename to the same short name was cut short.
ShortNamesUnique ==
  crossed \/ \A d \in Directories :
    LET S == DirSlots(Vol, d) IN \A p, q \in Entries(S) : S[p].sfn = S[q].sfn => p = q

\* The entry of an open file stays where the file's lock says it is (chk_share).
OpenEntryStays ==
  \A f \in files : LET S == DirSlots(Vol, f.key[1]) IN
    /\ f.key[1] \in Directories /\ f.key[2] \in 1 .. Len(S)
    /\ S[f.key[2]].kind = "sfn" /\ S[f.key[2]].obj = f.obj

\* A lock counts the open objects of its key, or is a single writer's.
LocksExact ==
  \A k \in DOMAIN locks :
    LET users == {f \in files : f.key = k} \cup {x \in dirs : k = <<x[1], 0>>}
    IN IF locks[k] = 256 THEN \E f \in files : f.write /\ users = {f}
       ELSE locks[k] = Cardinality(users) /\ \A f \in files : f.key = k => ~f.write

\* The table of a directory a name leads to is allocated and no other one's, until
\* a rename is cut short or moves a directory below itself.
TablesApart ==
  crossed \/ \A d, e \in Directories :
    /\ \A c \in ClustersOf(Vol, d) : fat[c] # 0
    /\ d # e => ClustersOf(Vol, d) \cap ClustersOf(Vol, e) = {}

\* dir_find finds what dir_register and dir_remove left, and directories share no
\* cluster, wherever the disk fails but in the dir_clear of a stretch: then the
\* directories are still apart, and one of them ends in whatever its new cluster
\* held before, which may be names (dir_next).
DirectoriesExact ==
  TablesApart /\ (uncleared # 0 \/ (FindExact /\ NothingBehindEnd /\ ShortNamesUnique))

\* chk_share and its locks keep the entries of open files in place.
OpenEntriesLocked == OpenEntryStays /\ LocksExact

\* f_opendir locks "the sub directory" (ff.c:4644) and f_unlink asks chk_share
\* "if it is an open object" (ff.c:4994): an open directory is not removed.
OpenDirStays == \A x \in dirs : x[1] \in Directories
=============================================================================
