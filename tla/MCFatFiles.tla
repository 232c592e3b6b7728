----------------------------- MODULE MCFatFiles -----------------------------
(* FatFiles, whose sets are fully symmetric, and the disk below FatFs on small *)
(* instances: a behaviour picks a part and only that one moves.              *)
EXTENDS FatFiles, TLC

CONSTANTS
    Threads,                                                          \* FatDisk's Workers
    Fat, FatSize, Tables, FsInfo, FileData, PerBlock, Outcomes

VARIABLES
    part,                                                             \* the part that moves
    disk, win, winsect, wflag, access, target, req, truth, forgotten  \* FatDisk

diskVars == <<disk, win, winsect, wflag, access, target, req, truth, forgotten>>

Disk == INSTANCE FatDisk WITH Workers <- Threads, pc <- access

ASSUME DiskAssumption == Disk!FatDiskAssumption

InitAll == part \in {"files", "disk"} /\ Init /\ Disk!Init

\* The disk is as sound as FatFs promises while one operation runs at a time.
NextAll ==
    /\ UNCHANGED part
    /\ \/ part = "files" /\ Next /\ UNCHANGED diskVars
       \/ part = "disk" /\ Disk!OneByOne /\ UNCHANGED vars

SpecAll == InitAll /\ [][NextAll]_<<part, vars, diskVars>>

\* FatDisk: sync_window and move_window lose no change of a sector, the second
\* FAT follows the first, and a clean window the disk.
DiskExact ==
    part = "disk" => Disk!NoUpdateLost /\ Disk!MirrorFollows /\ Disk!CleanWindowIsOnDisk

Symmetry == Permutations(Workers) \cup Permutations(Slots)
            \cup Permutations(Files) \cup Permutations(Dirs)
=============================================================================
