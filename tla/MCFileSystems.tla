--------------------------- MODULE MCFileSystems ---------------------------
(* The parts of the two file systems on small instances, one at a time: a        *)
(* behaviour picks a part and only that one moves.                               *)
EXTENDS NfsServer, NfsFiles, FatDir

CONSTANTS SS, CSize, Byte, Offsets, Lengths, MaxAccess, MaxFaults \* FatFile, whose clusters are FatDir's

VARIABLES
  part,                                                         \* the part that moves
  cells, fileFat, last, free, fil, entry, stored, others, want, misread, faults, stray, late \* FatFile

fileVars == <<cells, fileFat, last, free, fil, entry, stored, others, want, misread, faults, stray, late>>

\* Two long names share their short forms, and the first is a short name too.
AliasOf == [l \in Long |-> <<"b1", "b2">>]

File == INSTANCE FatFile WITH disk <- cells, fat <- fileFat

ASSUME NfsServerAssumption

InitAll ==
  /\ part \in {"dir", "file", "handles", "server"}
  /\ DirInit /\ File!Init /\ HandlesInit /\ Init

NextAll ==
  /\ UNCHANGED part
  /\ \/ /\ part = "dir" /\ DirNext
        /\ UNCHANGED <<fileVars, handleVars, vars>>
     \/ /\ part = "file" /\ File!Next
        /\ UNCHANGED <<dirVars, handleVars, vars>>
     \/ /\ part = "handles" /\ HandlesNext
        /\ UNCHANGED <<dirVars, fileVars, vars>>
     \/ /\ part = "server" /\ Next
        /\ UNCHANGED <<dirVars, fileVars, handleVars>>

SpecAll == InitAll /\ [][NextAll]_<<part, dirVars, fileVars, handleVars, vars>>

-----------------------------------------------------------------------------
(* The properties of the parts, which their modules state.                 *)

\* FatFile: a file is what f_write, f_lseek and f_truncate made of it, f_read returns
\* that, and what f_sync or f_close has stored is on the disk, but for an f_sync that
\* failed in sync_fs, which no later one makes up for.
ContentExact == File!ContentExact /\ File!NothingMisread /\ File!EntryStored

\* FatFile: create_chain and remove_chain keep files apart and count free clusters.
OthersIntact == File!OthersIntact /\ File!FreeCountNotLow
=============================================================================
