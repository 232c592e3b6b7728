------------------------------ MODULE MoreCore ------------------------------
(* The memory of the C library (lib/libc/posix/mem.c): one static area whose     *)
(* bottom the program extends with brk and from whose top it takes anonymous     *)
(* mappings.  Addresses are words of WordSize values, so that the differences of *)
(* the code wrap as they do.                                                     *)
EXTENDS Integers

CONSTANTS
  WordSize,   \* 2^64 in the program
  Page,       \* PAGE_SIZE
  Area, Size, \* the arguments of libc_init_mem
  MaxLength   \* the longest mapping muslc asks for (it refuses PTRDIFF_MAX)

MoreCoreAssumption ==
  /\ {WordSize, Page, Area, Size, MaxLength} \subseteq Nat \ {0}
  /\ Area + Size < WordSize
  /\ WordSize % Page = 0

VARIABLES
  base,    \* morecore_base, the break
  top,     \* morecore_top
  mappings \* what mmap returned, with the length asked for: the program's view

vars == <<base, top, mappings>>

Word(x) == x % WordSize
Down(x) == x - (x % Page)

Init == base = Area /\ top = Word(Area + Size) /\ mappings = {}

\* sys_brk: the new break is the caller's if it lies between area and top.
Brk(newbrk) ==
  /\ base' = IF newbrk <= top /\ newbrk >= Area THEN newbrk ELSE base
  /\ UNCHANGED <<top, mappings>>

Rounded(length) == Down(Word(length + Page - 1))

\* Seeded fault: the length is compared with the whole area, whatever the break.
FitsArea(length) == length <= Word(top - Area)

Fits(length) == length <= Word(top - base)

\* sys_mmap of anonymous memory.  An empty mapping is refused, and so is one that
\* does not fit; neither changes anything.
MMap(length) ==
  /\ length > 0 /\ Fits(Rounded(length))
  /\ top' = Down(Word(top - Rounded(length)))
  /\ mappings' = mappings \cup {[at |-> top', length |-> length]}
  /\ UNCHANGED base

Next ==
  \/ \E newbrk \in 0 .. WordSize - 1 : Brk(newbrk)
  \/ \E length \in 1 .. MaxLength : MMap(length)

Spec == Init /\ [][Next]_vars

-----------------------------------------------------------------------------
Cells(m) == m.at .. m.at + m.length - 1

\* "Check that we don't try and allocate more than exists" (mem.c:51): what mmap
\* gives away lies in the area, above the break, and in no other mapping.
MemoryHandedOutOnce ==
  \A m \in mappings :
    /\ Cells(m) \subseteq base .. Area + Size - 1
    /\ \A n \in mappings \ {m} : Cells(m) \cap Cells(n) = {}
=============================================================================
