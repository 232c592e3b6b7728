-------------------------- MODULE FileTablesProof --------------------------
(***************************************************************************)
(* Proofs about the tables behind the two file systems: the descriptors of *)
(* the NFS server (NfsFiles) and the directories and locks of FatFs        *)
(* (FatDir), for every size of a table, pool or volume.                    *)
(***************************************************************************)
EXTENDS NfsFiles, FatDir, FiniteSetTheorems, SequenceTheorems, WellFoundedInduction, TLAPS

-----------------------------------------------------------------------------
(* NfsFiles.  What a callback finds is decided by what the other handlers  *)
(* and callbacks did since its handler ran; IInv says what it may rely on: *)
(* which continuation owns an allocated slot, that only one does, and that *)
(* the handle a close carries is named by nothing else.                    *)

\* Continuations of an open or a close: they own their slot.
Owns(c) == op[c] \in {"open_file", "open_dir", "close"}

\* An operation libnfs works on: its slot is busy and names its handle.
OpInv ==
    \A c \in Conts : op[c] = "op" =>
        /\ cfd[c] \in Fds /\ Resolves(cfd[c])
        /\ ofState[cfd[c][1]] = "busy_file"
        /\ ofHandle[cfd[c][1]] = chandle[c]

\* An open or a close owns an allocated slot, which no other one owns, and every
\* allocated slot has its owner.
OwnInv ==
    /\ \A c \in Conts : Owns(c) =>
        /\ cfd[c] \in Fds /\ Resolves(cfd[c])
        /\ ofState[cfd[c][1]] = "allocated"
    /\ \A c, d \in Conts : Owns(c) /\ Owns(d) /\ cfd[c][1] = cfd[d][1] => c = d
    /\ \A i \in Slots : ofState[i] = "allocated" =>
        \E c \in Conts : Owns(c) /\ cfd[c][1] = i

\* The handle a close carries is open and named by nothing else.
CloseInv ==
    /\ \A c \in Conts : op[c] = "close" =>
        /\ chandle[c] \in live
        /\ \A i \in Slots : Installed(i) => ofHandle[i] # chandle[c]
    /\ \A c, d \in Conts :
        op[c] = "close" /\ op[d] = "close" /\ chandle[c] = chandle[d] => c = d

\* The slots name open handles, each of them once.
SlotInv ==
    /\ \A i \in Slots : Installed(i) => ofHandle[i] \in live
    /\ \A i, j \in Slots : Installed(i) /\ Installed(j) /\ ofHandle[i] = ofHandle[j] => i = j

CountInv ==
    \A i \in Slots :
        /\ ofBusy[i] = Cardinality(Operating(i))
        /\ ofState[i] = "busy_file" <=> Operating(i) # {}

IInv == HandlesTypeOK /\ OpInv /\ OwnInv /\ CloseInv /\ SlotInv /\ CountInv /\ HandlesNotLeaked

USE NfsFilesAssumption

LEMMA InitIInv == ASSUME HandlesInit PROVE IInv
<1> USE DEF HandlesInit
<1>1. HandlesTypeOK
  <2>1. ofState \in [Slots -> States] /\ ofHandle \in [Slots -> Handles \cup {NoHandle}]
    BY DEF States
  <2>2. ofBusy \in [Slots -> Nat] /\ ofGen \in [Slots -> 0 .. MaxGen]
    OBVIOUS
  <2>3. /\ op \in [Conts -> {"none", "open_file", "open_dir", "op", "close"}]
        /\ cfd \in [Conts -> Fds \cup {NoFd}]
        /\ chandle \in [Conts -> Handles \cup {NoHandle}]
        /\ live \subseteq Handles
    OBVIOUS
  <2> QED
    BY <2>1, <2>2, <2>3 DEF HandlesTypeOK
<1>2. OpInv /\ OwnInv /\ CloseInv
  BY DEF OpInv, OwnInv, CloseInv, Owns
<1>3. SlotInv /\ HandlesNotLeaked
  BY DEF SlotInv, HandlesNotLeaked, Installed
<1>4. CountInv
  <2>1. \A i \in Slots : Operating(i) = {}
    BY DEF Operating
  <2> QED
    BY <2>1, FS_EmptySet DEF CountInv
<1> QED
  BY <1>1, <1>2, <1>3, <1>4 DEF IInv

LEMMA OperatingFinite == ASSUME NEW i PROVE IsFiniteSet(Operating(i))
BY FS_Subset DEF Operating

\* A step that neither enters nor leaves an operation, and leaves busy slots
\* busy, keeps the counts.
LEMMA CountKept ==
  ASSUME IInv, NEW c \in Conts, op[c] # "op",
         \E p, f : /\ p # "op" /\ op' = [op EXCEPT ![c] = p]
                   /\ cfd' = [cfd EXCEPT ![c] = f],
         \A i \in Slots : /\ ofBusy'[i] = ofBusy[i]
                          /\ ofState'[i] = "busy_file" <=> ofState[i] = "busy_file"
  PROVE  CountInv'
<1>1. \A i \in Slots : Operating(i)' = Operating(i)
  BY DEF Operating, IInv, HandlesTypeOK
<1> QED
  BY <1>1 DEF IInv, CountInv

-----------------------------------------------------------------------------
(* Opening.                                                                *)

LEMMA OpenStartIInv ==
  ASSUME IInv, NEW c \in Conts, NEW k \in Kinds, OpenStart(c, k)
  PROVE  IInv'
<1>1. PICK s \in Slots, p \in {"open_file", "open_dir"}, fd \in Fds :
        /\ ofState[s] = "free"
        /\ fd[1] = s /\ fd[2] = ofGen[s]
        /\ ofState' = [ofState EXCEPT ![s] = "allocated"]
        /\ op[c] = "none"
        /\ op' = [op EXCEPT ![c] = p]
        /\ cfd' = [cfd EXCEPT ![c] = fd]
        /\ chandle' = [chandle EXCEPT ![c] = NoHandle]
        /\ UNCHANGED <<ofHandle, ofBusy, ofGen, live>>
  <2>1. PICK s \in Slots :
          /\ ofState[s] = "free"
          /\ ofState' = [ofState EXCEPT ![s] = "allocated"]
          /\ StartOp(c, Open(k), <<s, ofGen[s]>>, NoHandle)
          /\ UNCHANGED <<ofHandle, ofBusy, ofGen, live>>
    BY DEF OpenStart
  <2>2. <<s, ofGen[s]>> \in Fds
    BY DEF IInv, HandlesTypeOK, Fds
  <2>3. Open(k) \in {"open_file", "open_dir"}
    BY DEF Open
  <2> QED
    BY <2>1, <2>2, <2>3 DEF StartOp
<1>2. HandlesTypeOK'
  <2>1. ofState' \in [Slots -> States]
    BY <1>1 DEF IInv, HandlesTypeOK, States
  <2>2. cfd' \in [Conts -> Fds \cup {NoFd}]
    BY <1>1 DEF IInv, HandlesTypeOK
  <2> QED
    BY <1>1, <2>1, <2>2 DEF IInv, HandlesTypeOK
<1>3. OpInv'
  BY <1>1 DEF IInv, HandlesTypeOK, OpInv, Resolves
<1>4. OwnInv'
  <2>1. ofGen[s] \in Nat /\ fd[2] >= ofGen[s]
    BY <1>1 DEF IInv, HandlesTypeOK
  <2>2. \A d \in Conts : Owns(d) => cfd[d][1] # s
    BY <1>1 DEF IInv, OwnInv
  <2> QED
    BY <1>1, <2>1, <2>2 DEF IInv, HandlesTypeOK, OwnInv, Owns, Resolves
<1>5. CloseInv' /\ SlotInv'
  BY <1>1 DEF IInv, HandlesTypeOK, CloseInv, SlotInv, Installed
<1>6. CountInv'
  BY <1>1, CountKept DEF IInv, HandlesTypeOK
<1>7. HandlesNotLeaked'
  BY <1>1 DEF IInv, HandlesTypeOK, HandlesNotLeaked, Installed
<1> QED
  BY <1>2, <1>3, <1>4, <1>5, <1>6, <1>7 DEF IInv

LEMMA OpenRefusedIInv ==
  ASSUME IInv, OpenRefused
  PROVE  IInv'
<1>1. PICK s \in Slots :
        /\ ofState[s] = "free" /\ ofGen[s] < MaxGen
        /\ ofGen' = [ofGen EXCEPT ![s] = ofGen[s] + 1]
        /\ UNCHANGED <<ofState, ofHandle, ofBusy, op, cfd, chandle, live>>
  BY DEF OpenRefused, contVars
<1>2. HandlesTypeOK'
  <2>1. ofGen' \in [Slots -> 0 .. MaxGen]
    BY <1>1 DEF IInv, HandlesTypeOK
  <2> QED
    BY <1>1, <2>1 DEF IInv, HandlesTypeOK
<1>3. OpInv' /\ OwnInv'
  BY <1>1 DEF IInv, HandlesTypeOK, OpInv, OwnInv, Owns, Resolves
<1>4. CloseInv' /\ SlotInv' /\ HandlesNotLeaked'
  BY <1>1 DEF IInv, CloseInv, SlotInv, HandlesNotLeaked, Installed
<1>5. CountInv'
  <2>1. \A i \in Slots : Operating(i)' = Operating(i)
    BY <1>1 DEF Operating
  <2> QED
    BY <1>1, <2>1 DEF IInv, CountInv
<1> QED
  BY <1>2, <1>3, <1>4, <1>5 DEF IInv

LEMMA OpenDoneIInv ==
  ASSUME IInv, NEW c \in Conts, NEW k \in Kinds, OpenDone(c, k)
  PROVE  IInv'
<1>0. PICK s, st : s = cfd[c][1] /\ st = Open(k)
  OBVIOUS
<1>1. /\ st \in {"open_file", "open_dir"} /\ op[c] = st
      /\ s \in Slots /\ Resolves(cfd[c]) /\ ofState[s] = "allocated"
  BY <1>0 DEF OpenDone, Open, IInv, OwnInv, Owns, Fds
<1>2. PICK h \in Handles \ live :
        /\ live' = live \cup {h}
        /\ ofState' = [ofState EXCEPT ![s] = st]
        /\ ofHandle' = [ofHandle EXCEPT ![s] = h]
  BY <1>0, <1>1 DEF OpenDone, FdSet
<1>3. /\ op' = [op EXCEPT ![c] = "none"]
      /\ cfd' = [cfd EXCEPT ![c] = NoFd]
      /\ chandle' = [chandle EXCEPT ![c] = NoHandle]
      /\ UNCHANGED <<ofBusy, ofGen>>
  BY DEF OpenDone, Finish
<1>4. HandlesTypeOK'
  <2>1. ofState' \in [Slots -> States] /\ ofHandle' \in [Slots -> Handles \cup {NoHandle}]
    BY <1>1, <1>2 DEF IInv, HandlesTypeOK, States
  <2> QED
    BY <1>2, <1>3, <2>1 DEF IInv, HandlesTypeOK
<1>5. OpInv'
  <2>1. \A d \in Conts : op[d] = "op" => cfd[d][1] # s
    BY <1>1 DEF IInv, OpInv
  <2> QED
    BY <1>2, <1>3, <2>1 DEF IInv, HandlesTypeOK, OpInv, Resolves
<1>6. OwnInv'
  <2>1. \A d \in Conts : d # c /\ Owns(d) => cfd[d][1] # s
    BY <1>0, <1>1 DEF IInv, OwnInv, Owns
  <2> QED
    BY <1>0, <1>1, <1>2, <1>3, <2>1 DEF IInv, HandlesTypeOK, OwnInv, Owns, Resolves
<1>7. CloseInv' /\ SlotInv'
  <2>1. ~Installed(s)
    BY <1>1 DEF Installed
  <2> QED
    BY <1>1, <1>2, <1>3, <2>1 DEF IInv, HandlesTypeOK, CloseInv, SlotInv, Installed
<1>8. CountInv'
  BY <1>1, <1>2, <1>3, CountKept DEF IInv, HandlesTypeOK
<1>9. HandlesNotLeaked'
  BY <1>1, <1>2, <1>3 DEF IInv, HandlesTypeOK, HandlesNotLeaked, Installed
<1> QED
  BY <1>4, <1>5, <1>6, <1>7, <1>8, <1>9 DEF IInv

LEMMA OpenFailIInv ==
  ASSUME IInv, NEW c \in Conts, NEW k \in Kinds, OpenFail(c, k)
  PROVE  IInv'
<1>0. PICK s : s = cfd[c][1]
  OBVIOUS
<1>1. /\ op[c] \in {"open_file", "open_dir"} /\ Owns(c)
      /\ s \in Slots /\ Resolves(cfd[c]) /\ ofState[s] = "allocated" /\ ofGen[s] < MaxGen
  BY <1>0 DEF OpenFail, Open, IInv, OwnInv, Owns, Fds
<1>2. /\ ofState' = [ofState EXCEPT ![s] = "free"]
      /\ ofGen' = [ofGen EXCEPT ![s] = ofGen[s] + 1]
      /\ op' = [op EXCEPT ![c] = "none"]
      /\ cfd' = [cfd EXCEPT ![c] = NoFd]
      /\ chandle' = [chandle EXCEPT ![c] = NoHandle]
      /\ UNCHANGED <<ofHandle, ofBusy, live>>
  BY <1>0, <1>1 DEF OpenFail, FdFree, Finish
<1>3. HandlesTypeOK'
  <2>1. ofState' \in [Slots -> States] /\ ofGen' \in [Slots -> 0 .. MaxGen]
    BY <1>1, <1>2 DEF IInv, HandlesTypeOK, States
  <2> QED
    BY <1>2, <2>1 DEF IInv, HandlesTypeOK
<1>4. OpInv'
  <2>1. \A d \in Conts : op[d] = "op" => cfd[d][1] # s
    BY <1>1 DEF IInv, OpInv
  <2> QED
    BY <1>2, <2>1 DEF IInv, HandlesTypeOK, OpInv, Resolves
<1>5. OwnInv'
  <2>1. \A d \in Conts : d # c /\ Owns(d) => cfd[d][1] # s
    BY <1>0, <1>1 DEF IInv, OwnInv
  <2> QED
    BY <1>0, <1>1, <1>2, <2>1 DEF IInv, HandlesTypeOK, OwnInv, Owns, Resolves
<1>6. CloseInv' /\ SlotInv'
  BY <1>1, <1>2 DEF IInv, HandlesTypeOK, CloseInv, SlotInv, Installed
<1>7. CountInv'
  BY <1>1, <1>2, CountKept DEF IInv, HandlesTypeOK
<1>8. HandlesNotLeaked'
  BY <1>1, <1>2 DEF IInv, HandlesTypeOK, HandlesNotLeaked, Installed
<1> QED
  BY <1>3, <1>4, <1>5, <1>6, <1>7, <1>8 DEF IInv

-----------------------------------------------------------------------------
(* Operating: the count of a slot follows the operations libnfs has on it. *)

LEMMA OpStartIInv ==
  ASSUME IInv, NEW c \in Conts, OpStart(c)
  PROVE  IInv'
<1>1. PICK fd \in Fds :
        /\ Resolves(fd) /\ ofState[fd[1]] \in {"open_file", "busy_file"}
        /\ ofState' = [ofState EXCEPT ![fd[1]] = "busy_file"]
        /\ ofBusy' = [ofBusy EXCEPT ![fd[1]] = IF ofState[fd[1]] = "open_file" THEN 1
                                               ELSE ofBusy[fd[1]] + 1]
        /\ op[c] = "none"
        /\ op' = [op EXCEPT ![c] = "op"]
        /\ cfd' = [cfd EXCEPT ![c] = fd]
        /\ chandle' = [chandle EXCEPT ![c] = ofHandle[fd[1]]]
        /\ UNCHANGED <<ofHandle, ofGen, live>>
  BY DEF OpStart, StartOp, IInv, HandlesTypeOK
<1> DEFINE s == fd[1]
<1>2. s \in Slots
  BY <1>1 DEF Fds
<1>3. HandlesTypeOK'
  <2>1. ofBusy' \in [Slots -> Nat] /\ ofState' \in [Slots -> States]
    BY <1>1, <1>2 DEF IInv, HandlesTypeOK, States
  <2>2. /\ cfd' \in [Conts -> Fds \cup {NoFd}]
        /\ chandle' \in [Conts -> Handles \cup {NoHandle}]
    BY <1>1, <1>2 DEF IInv, HandlesTypeOK
  <2> QED
    BY <1>1, <2>1, <2>2 DEF IInv, HandlesTypeOK
<1>4. OpInv'
  BY <1>1, <1>2 DEF IInv, HandlesTypeOK, OpInv, Resolves, Fds
<1>5. OwnInv'
  BY <1>1, <1>2 DEF IInv, HandlesTypeOK, OwnInv, Owns, Resolves
<1>6. \A i \in Slots : Installed(i)' <=> Installed(i)
  BY <1>1, <1>2 DEF IInv, HandlesTypeOK, Installed
<1>7. CloseInv' /\ SlotInv' /\ HandlesNotLeaked'
  BY <1>1, <1>6 DEF IInv, HandlesTypeOK, CloseInv, SlotInv, HandlesNotLeaked
<1>8. CountInv'
  <2>1. \A i \in Slots \ {s} : Operating(i)' = Operating(i)
    BY <1>1 DEF IInv, HandlesTypeOK, Operating
  <2>2. Operating(s)' = Operating(s) \cup {c} /\ c \notin Operating(s)
    BY <1>1 DEF IInv, HandlesTypeOK, Operating
  <2>3. Cardinality(Operating(s)') = Cardinality(Operating(s)) + 1
    BY <2>2, OperatingFinite, FS_AddElement
  <2>4. ofState[s] = "open_file" => ofBusy[s] = 0
    <3>1. ofState[s] = "open_file" => Operating(s) = {}
      BY <1>2 DEF IInv, CountInv
    <3> QED
      BY <1>2, <3>1, FS_EmptySet DEF IInv, CountInv
  <2>5. ofBusy'[s] = Cardinality(Operating(s)')
    BY <1>1, <1>2, <2>3, <2>4 DEF IInv, HandlesTypeOK, CountInv
  <2>6. ofState'[s] = "busy_file" /\ Operating(s)' # {}
    BY <1>1, <1>2, <2>2 DEF IInv, HandlesTypeOK
  <2>7. \A i \in Slots \ {s} : ofBusy'[i] = ofBusy[i] /\ ofState'[i] = ofState[i]
    BY <1>1, <1>2 DEF IInv, HandlesTypeOK
  <2> QED
    BY <2>1, <2>5, <2>6, <2>7 DEF IInv, CountInv
<1> QED
  BY <1>3, <1>4, <1>5, <1>7, <1>8 DEF IInv

LEMMA OpDoneIInv ==
  ASSUME IInv, NEW c \in Conts, OpDone(c)
  PROVE  IInv'
<1>0. PICK s, n : s = cfd[c][1] /\ n = ofBusy[s]
  OBVIOUS
<1>1. /\ op[c] = "op"
      /\ ofState[s] = "busy_file"
      /\ ofBusy' = [ofBusy EXCEPT ![s] = n - 1]
      /\ ofState' = [ofState EXCEPT ![s] = IF n = 1 THEN "open_file" ELSE ofState[s]]
      /\ op' = [op EXCEPT ![c] = "none"]
      /\ cfd' = [cfd EXCEPT ![c] = NoFd]
      /\ chandle' = [chandle EXCEPT ![c] = NoHandle]
      /\ UNCHANGED <<ofHandle, ofGen, live>>
  BY <1>0 DEF OpDone, Finish
<1>2. s \in Slots
  BY <1>0, <1>1 DEF IInv, OpInv, Fds
<1>4. /\ \A i \in Slots \ {s} : Operating(i)' = Operating(i)
      /\ Operating(s)' = Operating(s) \ {c}
      /\ c \in Operating(s)
  <2>1. \A i \in Slots : \A d \in Conts \ {c} :
          d \in Operating(i)' <=> d \in Operating(i)
    BY <1>1 DEF IInv, HandlesTypeOK, Operating
  <2>2. \A i \in Slots : c \notin Operating(i)' /\ (c \in Operating(i) <=> i = s)
    BY <1>0, <1>1 DEF IInv, HandlesTypeOK, Operating
  <2>3. \A i \in Slots : Operating(i) \subseteq Conts /\ Operating(i)' \subseteq Conts
    BY DEF Operating
  <2> QED
    BY <1>2, <2>1, <2>2, <2>3
<1>5. /\ Cardinality(Operating(s)') = n - 1
      /\ n \in Nat /\ n > 0
  <2>1. n = Cardinality(Operating(s)) /\ n \in Nat
    BY <1>0, <1>2 DEF IInv, CountInv, HandlesTypeOK
  <2>2. n # 0
    BY <1>4, <2>1, OperatingFinite, FS_EmptySet
  <2>3. Cardinality(Operating(s) \ {c}) = n - 1
    BY <1>4, <2>1, OperatingFinite, FS_RemoveElement
  <2> QED
    BY <1>4, <2>1, <2>2, <2>3
<1>6. n = 1 <=> Operating(s)' = {}
  <2>1. IsFiniteSet(Operating(s)')
    BY <1>4, OperatingFinite, FS_Subset
  <2> QED
    BY <1>5, <2>1, FS_EmptySet
<1>7. HandlesTypeOK'
  <2>1. ofBusy' \in [Slots -> Nat] /\ ofState' \in [Slots -> States]
    BY <1>1, <1>2, <1>5 DEF IInv, HandlesTypeOK, States
  <2> QED
    BY <1>1, <2>1 DEF IInv, HandlesTypeOK
<1>8. OpInv'
  <2> SUFFICES ASSUME NEW d \in Conts, op'[d] = "op"
               PROVE  /\ cfd'[d] \in Fds /\ Resolves(cfd[d])'
                      /\ ofState'[cfd'[d][1]] = "busy_file"
                      /\ ofHandle'[cfd'[d][1]] = chandle'[d]
    BY DEF OpInv
  <2>1. d # c /\ op[d] = "op" /\ cfd'[d] = cfd[d] /\ chandle'[d] = chandle[d]
    BY <1>1 DEF IInv, HandlesTypeOK
  <2>2. cfd[d][1] = s => d \in Operating(s)'
    BY <1>4, <2>1 DEF Operating
  <2>3. cfd[d][1] = s => n # 1
    BY <1>6, <2>2
  <2> QED
    BY <1>1, <1>2, <2>1, <2>3 DEF IInv, HandlesTypeOK, OpInv, Resolves
<1>9. OwnInv'
  BY <1>1, <1>2 DEF IInv, HandlesTypeOK, OwnInv, Owns, Resolves
<1>10. \A i \in Slots : Installed(i)' <=> Installed(i)
  BY <1>1, <1>2 DEF IInv, HandlesTypeOK, Installed
<1>11. CloseInv' /\ SlotInv' /\ HandlesNotLeaked'
  BY <1>1, <1>10 DEF IInv, HandlesTypeOK, CloseInv, SlotInv, HandlesNotLeaked
<1>12. CountInv'
  <2>1. /\ ofBusy'[s] = Cardinality(Operating(s)')
        /\ ofState'[s] = "busy_file" <=> Operating(s)' # {}
    BY <1>1, <1>2, <1>5, <1>6 DEF IInv, HandlesTypeOK
  <2>2. \A i \in Slots \ {s} : ofBusy'[i] = ofBusy[i] /\ ofState'[i] = ofState[i]
    BY <1>1, <1>2 DEF IInv, HandlesTypeOK
  <2> QED
    BY <1>4, <2>1, <2>2 DEF IInv, CountInv
<1> QED
  BY <1>7, <1>8, <1>9, <1>11, <1>12 DEF IInv

-----------------------------------------------------------------------------
(* Closing: the handle moves from its slot to the continuation, and from   *)
(* there to libnfs or back to the slot.                                    *)

LEMMA FileCloseIInv ==
  ASSUME IInv, NEW c \in Conts, FileClose(c)
  PROVE  IInv'
<1>1. PICK fd \in Fds :
        /\ Resolves(fd) /\ ofState[fd[1]] = "open_file"
        /\ ofState' = [ofState EXCEPT ![fd[1]] = "allocated"]
        /\ ofHandle' = [ofHandle EXCEPT ![fd[1]] = NoHandle]
        /\ ofBusy' = [ofBusy EXCEPT ![fd[1]] = 0]
        /\ op[c] = "none"
        /\ op' = [op EXCEPT ![c] = "close"]
        /\ cfd' = [cfd EXCEPT ![c] = fd]
        /\ chandle' = [chandle EXCEPT ![c] = ofHandle[fd[1]]]
        /\ UNCHANGED <<ofGen, live>>
  BY DEF FileClose, StartOp
<1>0. PICK s, h : s = fd[1] /\ h = ofHandle[s]
  OBVIOUS
<1>2. s \in Slots /\ ofState[s] = "open_file" /\ Installed(s) /\ h \in live
  BY <1>0, <1>1 DEF Fds, IInv, SlotInv, Installed
<1>3. ofBusy[s] = 0 /\ \A d \in Conts : op[d] = "op" => cfd[d][1] # s
  <2>1. Operating(s) = {}
    BY <1>2 DEF IInv, CountInv
  <2> QED
    BY <1>2, <2>1, FS_EmptySet DEF IInv, CountInv, Operating
<1>4. \A d \in Conts : Owns(d) => cfd[d][1] # s
  BY <1>2 DEF IInv, OwnInv
<1>5. HandlesTypeOK'
  <2>1. /\ ofState' \in [Slots -> States]
        /\ ofHandle' \in [Slots -> Handles \cup {NoHandle}]
        /\ ofBusy' \in [Slots -> Nat]
    BY <1>0, <1>1, <1>2 DEF IInv, HandlesTypeOK, States
  <2>2. /\ cfd' \in [Conts -> Fds \cup {NoFd}]
        /\ chandle' \in [Conts -> Handles \cup {NoHandle}]
    BY <1>0, <1>1, <1>2 DEF IInv, HandlesTypeOK
  <2> QED
    BY <1>1, <2>1, <2>2 DEF IInv, HandlesTypeOK
<1>6. OpInv'
  BY <1>0, <1>1, <1>2, <1>3 DEF IInv, HandlesTypeOK, OpInv, Resolves
<1>7. OwnInv'
  BY <1>0, <1>1, <1>2, <1>4 DEF IInv, HandlesTypeOK, OwnInv, Owns, Resolves
<1>8. /\ ~Installed(s)'
      /\ \A i \in Slots \ {s} : (Installed(i)' <=> Installed(i)) /\ ofHandle'[i] = ofHandle[i]
  BY <1>0, <1>1, <1>2 DEF IInv, HandlesTypeOK, Installed
<1>9. \A i \in Slots \ {s} : Installed(i) => ofHandle[i] # h
  BY <1>0, <1>2 DEF IInv, SlotInv
<1>10. /\ op'[c] = "close" /\ chandle'[c] = h /\ live' = live
       /\ \A d \in Conts \ {c} : op'[d] = op[d] /\ chandle'[d] = chandle[d]
  BY <1>0, <1>1 DEF IInv, HandlesTypeOK
<1>11. \A d \in Conts : op[d] = "close" => chandle[d] # h
  BY <1>0, <1>2 DEF IInv, CloseInv
<1>12. CloseInv'
  BY <1>2, <1>8, <1>9, <1>10, <1>11 DEF IInv, CloseInv
<1>13. SlotInv'
  BY <1>8, <1>10 DEF IInv, SlotInv
<1>14. CountInv'
  BY <1>0, <1>1, <1>2, <1>3, CountKept DEF IInv, HandlesTypeOK
<1>15. HandlesNotLeaked'
  <2> SUFFICES ASSUME NEW g \in live
               PROVE  \/ \E i \in Slots : Installed(i)' /\ ofHandle'[i] = g
                      \/ \E d \in Conts : op'[d] = "close" /\ chandle'[d] = g
    BY <1>10 DEF HandlesNotLeaked
  <2>1. CASE g = h
    BY <2>1, <1>10
  <2>2. CASE \E i \in Slots : Installed(i) /\ ofHandle[i] = g /\ g # h
    BY <2>2, <1>0, <1>8
  <2>3. CASE \E d \in Conts : op[d] = "close" /\ chandle[d] = g
    BY <2>3, <1>1, <1>10
  <2> QED
    BY <2>1, <2>2, <2>3 DEF IInv, HandlesNotLeaked
<1> QED
  BY <1>5, <1>6, <1>7, <1>12, <1>13, <1>14, <1>15 DEF IInv

LEMMA FileCloseDoneIInv ==
  ASSUME IInv, NEW c \in Conts, FileCloseDone(c)
  PROVE  IInv'
<1>0. PICK s, h : s = cfd[c][1] /\ h = chandle[c]
  OBVIOUS
<1>1. /\ op[c] = "close" /\ Owns(c) /\ h \in live
      /\ s \in Slots /\ Resolves(cfd[c]) /\ ofState[s] = "allocated" /\ ofGen[s] < MaxGen
  BY <1>0 DEF FileCloseDone, IInv, OwnInv, CloseInv, Owns, Fds
<1>2. /\ live' = live \ {h}
      /\ ofState' = [ofState EXCEPT ![s] = "free"]
      /\ ofGen' = [ofGen EXCEPT ![s] = ofGen[s] + 1]
      /\ op' = [op EXCEPT ![c] = "none"]
      /\ cfd' = [cfd EXCEPT ![c] = NoFd]
      /\ chandle' = [chandle EXCEPT ![c] = NoHandle]
      /\ UNCHANGED <<ofHandle, ofBusy>>
  BY <1>0, <1>1 DEF FileCloseDone, FdFree, Finish
<1>3. HandlesTypeOK'
  <2>1. ofState' \in [Slots -> States] /\ ofGen' \in [Slots -> 0 .. MaxGen]
    BY <1>1, <1>2 DEF IInv, HandlesTypeOK, States
  <2> QED
    BY <1>2, <2>1 DEF IInv, HandlesTypeOK
<1>4. OpInv'
  <2>1. \A d \in Conts : op[d] = "op" => cfd[d][1] # s
    BY <1>1 DEF IInv, OpInv
  <2> QED
    BY <1>2, <2>1 DEF IInv, HandlesTypeOK, OpInv, Resolves
<1>5. OwnInv'
  <2>1. \A d \in Conts : d # c /\ Owns(d) => cfd[d][1] # s
    BY <1>0, <1>1 DEF IInv, OwnInv
  <2> QED
    BY <1>0, <1>1, <1>2, <2>1 DEF IInv, HandlesTypeOK, OwnInv, Owns, Resolves
<1>6. \A i \in Slots : Installed(i)' <=> Installed(i)
  BY <1>1, <1>2 DEF IInv, HandlesTypeOK, Installed
<1>7. /\ \A i \in Slots : Installed(i) => ofHandle[i] # h
      /\ \A d \in Conts : d # c /\ op[d] = "close" => chandle[d] # h
  BY <1>0, <1>1 DEF IInv, CloseInv
<1>8. CloseInv' /\ SlotInv'
  BY <1>2, <1>6, <1>7 DEF IInv, HandlesTypeOK, CloseInv, SlotInv
<1>9. CountInv'
  BY <1>1, <1>2, CountKept DEF IInv, HandlesTypeOK
<1>10. HandlesNotLeaked'
  BY <1>0, <1>2, <1>6 DEF IInv, HandlesTypeOK, HandlesNotLeaked
<1> QED
  BY <1>3, <1>4, <1>5, <1>8, <1>9, <1>10 DEF IInv

LEMMA FileCloseFailIInv ==
  ASSUME IInv, NEW c \in Conts, FileCloseFail(c)
  PROVE  IInv'
<1>0. PICK s, h : s = cfd[c][1] /\ h = chandle[c]
  OBVIOUS
<1>1. /\ op[c] = "close" /\ Owns(c) /\ h \in live
      /\ s \in Slots /\ Resolves(cfd[c]) /\ ofState[s] = "allocated"
  BY <1>0 DEF FileCloseFail, IInv, OwnInv, CloseInv, Owns, Fds
<1>2. /\ ofState' = [ofState EXCEPT ![s] = "open_file"]
      /\ ofHandle' = [ofHandle EXCEPT ![s] = h]
      /\ op' = [op EXCEPT ![c] = "none"]
      /\ cfd' = [cfd EXCEPT ![c] = NoFd]
      /\ chandle' = [chandle EXCEPT ![c] = NoHandle]
      /\ UNCHANGED <<ofBusy, ofGen, live>>
  BY <1>0, <1>1 DEF FileCloseFail, FdSet, Open, Finish
<1>3. HandlesTypeOK'
  <2>1. ofState' \in [Slots -> States] /\ ofHandle' \in [Slots -> Handles \cup {NoHandle}]
    BY <1>1, <1>2 DEF IInv, HandlesTypeOK, States
  <2> QED
    BY <1>2, <2>1 DEF IInv, HandlesTypeOK
<1>4. OpInv'
  <2>1. \A d \in Conts : op[d] = "op" => cfd[d][1] # s
    BY <1>1 DEF IInv, OpInv
  <2> QED
    BY <1>2, <2>1 DEF IInv, HandlesTypeOK, OpInv, Resolves
<1>5. OwnInv'
  <2>1. \A d \in Conts : d # c /\ Owns(d) => cfd[d][1] # s
    BY <1>0, <1>1 DEF IInv, OwnInv
  <2> QED
    BY <1>0, <1>1, <1>2, <2>1 DEF IInv, HandlesTypeOK, OwnInv, Owns, Resolves
<1>6. /\ Installed(s)' /\ ofHandle'[s] = h /\ ~Installed(s)
      /\ \A i \in Slots \ {s} : (Installed(i)' <=> Installed(i)) /\ ofHandle'[i] = ofHandle[i]
  BY <1>1, <1>2 DEF IInv, HandlesTypeOK, Installed
<1>7. /\ \A i \in Slots : Installed(i) => ofHandle[i] # h
      /\ \A d \in Conts : d # c /\ op[d] = "close" => chandle[d] # h
  BY <1>0, <1>1 DEF IInv, CloseInv
<1>8. CloseInv'
  BY <1>2, <1>6, <1>7 DEF IInv, HandlesTypeOK, CloseInv
<1>9. SlotInv'
  BY <1>1, <1>2, <1>6, <1>7 DEF IInv, SlotInv
<1>10. CountInv'
  BY <1>1, <1>2, CountKept DEF IInv, HandlesTypeOK
<1>11. HandlesNotLeaked'
  BY <1>0, <1>1, <1>2, <1>6 DEF IInv, HandlesTypeOK, HandlesNotLeaked
<1> QED
  BY <1>3, <1>4, <1>5, <1>8, <1>9, <1>10, <1>11 DEF IInv

LEMMA DirCloseIInv ==
  ASSUME IInv, DirClose
  PROVE  IInv'
<1>1. PICK fd \in Fds :
        /\ Resolves(fd) /\ ofState[fd[1]] = "open_dir"
        /\ ofGen[fd[1]] < MaxGen
        /\ live' = live \ {ofHandle[fd[1]]}
        /\ ofState' = [ofState EXCEPT ![fd[1]] = "free"]
        /\ ofGen' = [ofGen EXCEPT ![fd[1]] = ofGen[fd[1]] + 1]
        /\ ofHandle' = [ofHandle EXCEPT ![fd[1]] = NoHandle]
        /\ ofBusy' = [ofBusy EXCEPT ![fd[1]] = 0]
        /\ UNCHANGED <<op, cfd, chandle>>
  BY DEF DirClose, contVars, IInv, HandlesTypeOK
<1>0. PICK s, h : s = fd[1] /\ h = ofHandle[s]
  OBVIOUS
<1>2. /\ s \in Slots /\ ofState[s] = "open_dir" /\ ofGen[s] < MaxGen
      /\ Installed(s) /\ h \in live
  BY <1>0, <1>1 DEF Fds, IInv, SlotInv, Installed
<1>3. /\ live' = live \ {h}
      /\ ofState' = [ofState EXCEPT ![s] = "free"]
      /\ ofGen' = [ofGen EXCEPT ![s] = ofGen[s] + 1]
      /\ ofHandle' = [ofHandle EXCEPT ![s] = NoHandle]
      /\ ofBusy' = [ofBusy EXCEPT ![s] = 0]
      /\ UNCHANGED <<op, cfd, chandle>>
  BY <1>0, <1>1
<1>4. Operating(s) = {} /\ ofBusy[s] = 0
  <2>1. Operating(s) = {}
    BY <1>2 DEF IInv, CountInv
  <2> QED
    BY <1>2, <2>1, FS_EmptySet DEF IInv, CountInv
<1>5. HandlesTypeOK'
  <2>1. /\ ofState' \in [Slots -> States]
        /\ ofHandle' \in [Slots -> Handles \cup {NoHandle}]
        /\ ofBusy' \in [Slots -> Nat]
        /\ ofGen' \in [Slots -> 0 .. MaxGen]
    BY <1>2, <1>3 DEF IInv, HandlesTypeOK, States
  <2> QED
    BY <1>3, <2>1 DEF IInv, HandlesTypeOK
<1>6. OpInv'
  <2>1. \A d \in Conts : op[d] = "op" => cfd[d][1] # s
    BY <1>2 DEF IInv, OpInv
  <2> QED
    BY <1>3, <2>1 DEF IInv, HandlesTypeOK, OpInv, Resolves
<1>7. OwnInv'
  <2>1. \A d \in Conts : Owns(d) => cfd[d][1] # s
    BY <1>2 DEF IInv, OwnInv
  <2> QED
    BY <1>2, <1>3, <2>1 DEF IInv, HandlesTypeOK, OwnInv, Owns, Resolves
<1>8. /\ ~Installed(s)'
      /\ \A i \in Slots \ {s} : (Installed(i)' <=> Installed(i)) /\ ofHandle'[i] = ofHandle[i]
  BY <1>2, <1>3 DEF IInv, HandlesTypeOK, Installed
<1>9. /\ \A i \in Slots \ {s} : Installed(i) => ofHandle[i] # h
      /\ \A d \in Conts : op[d] = "close" => chandle[d] # h
  BY <1>0, <1>2 DEF IInv, SlotInv, CloseInv
<1>10. CloseInv' /\ SlotInv'
  BY <1>3, <1>8, <1>9 DEF IInv, CloseInv, SlotInv
<1>11. CountInv'
  <2>1. \A i \in Slots : Operating(i)' = Operating(i)
    BY <1>3 DEF Operating
  <2>2. \A i \in Slots : /\ ofBusy'[i] = ofBusy[i]
                         /\ ofState'[i] = "busy_file" <=> ofState[i] = "busy_file"
    BY <1>2, <1>3, <1>4 DEF IInv, HandlesTypeOK
  <2> QED
    BY <2>1, <2>2 DEF IInv, CountInv
<1>12. HandlesNotLeaked'
  <2>1. \A i \in Slots : ofHandle[i] # h => i # s
    BY <1>0
  <2> QED
    BY <1>3, <1>8, <2>1 DEF IInv, HandlesNotLeaked
<1> QED
  BY <1>5, <1>6, <1>7, <1>10, <1>11, <1>12 DEF IInv

-----------------------------------------------------------------------------
(* The theorems.                                                           *)

LEMMA NextIInv == ASSUME IInv, [HandlesNext]_handleVars PROVE IInv'
<1>1. ASSUME NEW c \in Conts, NEW k \in Kinds,
             OpenStart(c, k) \/ OpenDone(c, k) \/ OpenFail(c, k)
      PROVE  IInv'
  BY <1>1, OpenStartIInv, OpenDoneIInv, OpenFailIInv
<1>2. CASE OpenRefused
  BY <1>2, OpenRefusedIInv
<1>3. CASE DirClose
  BY <1>3, DirCloseIInv
<1>4. ASSUME NEW c \in Conts, OpStart(c) \/ OpDone(c) PROVE IInv'
  BY <1>4, OpStartIInv, OpDoneIInv
<1>5. ASSUME NEW c \in Conts, FileClose(c) \/ FileCloseDone(c) \/ FileCloseFail(c)
      PROVE  IInv'
  BY <1>5, FileCloseIInv, FileCloseDoneIInv, FileCloseFailIInv
<1>6. CASE UNCHANGED handleVars
  <2>1. UNCHANGED <<ofState, ofHandle, ofBusy, ofGen, op, cfd, chandle, live>>
    BY <1>6 DEF handleVars, ofVars, contVars
  <2>2. HandlesTypeOK' /\ OpInv' /\ OwnInv'
    BY <2>1 DEF IInv, HandlesTypeOK, OpInv, OwnInv, Owns, Resolves
  <2>3. CloseInv' /\ SlotInv' /\ HandlesNotLeaked'
    BY <2>1 DEF IInv, CloseInv, SlotInv, HandlesNotLeaked, Installed
  <2>4. CountInv'
    <3>1. \A i \in Slots : Operating(i)' = Operating(i)
      BY <2>1 DEF Operating
    <3> QED
      BY <2>1, <3>1 DEF IInv, CountInv
  <2> QED
    BY <2>2, <2>3, <2>4 DEF IInv
<1> QED
  BY <1>1, <1>2, <1>3, <1>4, <1>5, <1>6 DEF HandlesNext

\* Every reachable state satisfies the inductive invariant.
THEOREM NfsInvariance == HandlesSpec => []IInv
<1>1. HandlesInit => IInv
  BY InitIInv
<1>2. IInv /\ [HandlesNext]_handleVars => IInv'
  BY NextIInv
<1> QED
  BY <1>1, <1>2, PTL DEF HandlesSpec

\* The variables of fd.c and the continuations keep their ranges; busy_count,
\* unsigned in the code, never runs below zero.
THEOREM NfsTypeCorrect == HandlesSpec => []HandlesTypeOK
<1>1. IInv => HandlesTypeOK
  BY DEF IInv
<1> QED
  BY <1>1, NfsInvariance, PTL

\* The asserts of the callbacks and of fd_end_op (nfs/op.c) hold however many
\* operations, closes and opens run between a handler and its callback.
THEOREM NfsBusyCount == HandlesSpec => []BusyCountExact
<1>1. IInv => BusyCountExact
  BY DEF IInv, CountInv, OpInv, BusyCountExact, Operating
<1> QED
  BY <1>1, NfsInvariance, PTL

\* libnfs never works on a handle that op.c closed or is closing, and no handle
\* is named by two slots.
THEOREM NfsHandleInUse == HandlesSpec => []UsesOpenHandle
<1>1. ASSUME IInv PROVE UsesOpenHandle
  <2>1. ASSUME NEW c \in Conts, op[c] = "op"
        PROVE  /\ chandle[c] \in live
               /\ ofHandle[cfd[c][1]] = chandle[c]
               /\ \A d \in Conts : op[d] = "close" => chandle[d] # chandle[c]
    <3>1. PICK s \in Slots : s = cfd[c][1]
      BY <1>1, <2>1 DEF IInv, OpInv, Fds
    <3>2. Installed(s) /\ ofHandle[s] = chandle[c]
      BY <1>1, <2>1, <3>1 DEF IInv, OpInv, Installed
    <3>3. chandle[c] \in live
      BY <1>1, <3>2 DEF IInv, SlotInv
    <3>4. \A d \in Conts : op[d] = "close" => chandle[d] # chandle[c]
      BY <1>1, <3>2 DEF IInv, CloseInv
    <3> QED
      BY <3>1, <3>2, <3>3, <3>4
  <2>2. SlotInv
    BY <1>1 DEF IInv
  <2> QED
    BY <2>1, <2>2 DEF SlotInv, UsesOpenHandle
<1> QED
  BY <1>1, NfsInvariance, PTL

\* A slot that is allocated and not yet set has exactly one open or close on its
\* way, whose callback still reaches it, for any number of continuations.
THEOREM NfsSlotOwner == HandlesSpec => []AllocatedSlotHasOwner
<1>1. ASSUME IInv PROVE AllocatedSlotHasOwner
  <2> SUFFICES ASSUME NEW i \in Slots
               PROVE  LET owners == {c \in Conts : Owns(c) /\ cfd[c][1] = i}
                      IN  /\ Cardinality(owners) = IF ofState[i] = "allocated" THEN 1 ELSE 0
                          /\ \A c \in owners : Resolves(cfd[c])
    BY DEF AllocatedSlotHasOwner, Owns
  <2> DEFINE owners == {c \in Conts : Owns(c) /\ cfd[c][1] = i}
  <2>1. \A c \in owners : Resolves(cfd[c])
    BY <1>1 DEF IInv, OwnInv
  <2>2. CASE ofState[i] = "allocated"
    <3>1. PICK c \in Conts : Owns(c) /\ cfd[c][1] = i
      BY <1>1, <2>2 DEF IInv, OwnInv
    <3>2. owners = {c}
      BY <1>1, <3>1 DEF IInv, OwnInv
    <3>3. Cardinality(owners) = 1
      BY <3>2, FS_Singleton
    <3> QED
      BY <2>1, <2>2, <3>3
  <2>3. CASE ofState[i] # "allocated"
    <3>1. owners = {}
      BY <1>1, <2>3 DEF IInv, OwnInv
    <3>2. Cardinality(owners) = 0
      BY <3>1, FS_EmptySet
    <3> QED
      BY <2>1, <2>3, <3>2
  <2> QED
    BY <2>2, <2>3
<1> QED
  BY <1>1, NfsInvariance, PTL

\* Every handle that libnfs has open can still be closed through a descriptor or
\* is carried by a close.
THEOREM NfsNoLeak == HandlesSpec => []HandlesNotLeaked
<1>1. IInv => HandlesNotLeaked
  BY DEF IInv
<1> QED
  BY <1>1, NfsInvariance, PTL

\* All of it together: what op.c keeps in oftable, in busy_count and in its
\* continuations agrees with the handles libnfs has open.
THEOREM NfsHandles == HandlesSpec => []HandlesAccounted
<1>1. HandlesTypeOK /\ BusyCountExact /\ UsesOpenHandle /\ AllocatedSlotHasOwner /\ HandlesNotLeaked
        => HandlesAccounted
  BY DEF HandlesAccounted
<1> QED
  BY <1>1, NfsTypeCorrect, NfsBusyCount, NfsHandleInUse, NfsSlotOwner, NfsNoLeak, PTL

-----------------------------------------------------------------------------
(* FatDir.  The inductive invariant DirInv names, for each directory, the  *)
(* chain of its clusters, and says that chains are apart (Laid), that what *)
(* stands in the slots of a table is exactly what the operations promised  *)
(* (Good), that open files stand where their keys say, and that a lock     *)
(* counts the objects open under its key.  After a stretch whose new       *)
(* cluster was not cleared it says this of the volume with that cluster    *)
(* clear.                                                                  *)

HIDE NfsFilesAssumption

LEMMA LeastNat == ASSUME NEW S, S \subseteq Nat, S # {} PROVE \E i \in S : \A j \in S : i <= j
<1>1. PICK x \in S : \A y \in S : <<y, x>> \notin OpToRel(<, Nat)
  BY NatLessThanWellFounded, WFMin
<1>2. \A y \in S : ~(y < x)
  BY <1>1 DEF OpToRel
<1> QED
  BY <1>2

\* What FatDir assumes of its parameters.
LEMMA DirParameters ==
  /\ Clusters \subseteq Nat \ {0} /\ IsFiniteSet(Clusters) /\ Cardinality(Clusters) \in Nat
  /\ Parts \in Nat /\ Parts > 0 /\ PerCluster \in Nat /\ Parts < PerCluster /\ PerCluster > 1
  /\ Root \in Clusters /\ Eoc = 0 - 1 /\ Eoc \notin Clusters /\ 0 \notin Clusters
<1>1. /\ Clusters \subseteq Nat \ {0} /\ IsFiniteSet(Clusters) /\ Clusters # {}
      /\ Parts \in Nat \ {0} /\ PerCluster \in Nat /\ Parts < PerCluster
  BY FatDirAssumption
<1>2. \E i \in Clusters : \A j \in Clusters : i <= j
  BY <1>1, LeastNat
<1>3. Root \in Clusters
  BY <1>2 DEF Root, Least
<1>4. Cardinality(Clusters) \in Nat
  BY <1>1, FS_CardinalityType
<1> QED
  BY <1>1, <1>3, <1>4 DEF Eoc

-----------------------------------------------------------------------------
(* Positions and cells.                                                    *)

LEMMA Divided ==
  ASSUME NEW n \in Nat, n > 0, NEW x \in Nat
  PROVE  /\ x \div n \in Nat /\ x % n \in 0 .. n - 1
         /\ x = n * (x \div n) + (x % n)
<1>1. x \div n \in Int /\ x % n \in Int
  OBVIOUS
<1>2. x % n \in 0 .. n - 1
  OBVIOUS
<1>3. x = n * (x \div n) + (x % n)
  OBVIOUS
<1>4. x \div n >= 0
  BY SMTT(30)
<1> QED
  BY <1>1, <1>2, <1>3, <1>4

LEMMA DividedOnce ==
  ASSUME NEW n \in Nat, n > 0, NEW a \in Nat, NEW b \in 0 .. n - 1
  PROVE  (n * a + b) \div n = a /\ (n * a + b) % n = b
<1> DEFINE x == n * a + b
           q == x \div n
           r == x % n
<1>1. x \in Nat
  OBVIOUS
<1>2. q \in Nat /\ r \in 0 .. n - 1 /\ x = n * q + r
  BY <1>1, Divided
<1> HIDE DEF q, r, x
<1>3. x = n * a + b
  BY DEF x
<1>4. ~(q < a)
  <2> SUFFICES ASSUME q < a PROVE FALSE
    OBVIOUS
  <2>1. PICK t \in Nat : a = q + 1 + t
    <3>1. a - q - 1 \in Nat /\ a = q + 1 + (a - q - 1)
      BY <1>2
    <3> QED
      BY <3>1
  <2>2. n * a = n * q + n + n * t
    BY <2>1, <1>2
  <2>3. n * t \in Nat /\ n * q \in Nat
    BY <2>1, <1>2
  <2> QED
    BY <2>2, <2>3, <1>2, <1>3
<1>5. ~(a < q)
  <2> SUFFICES ASSUME a < q PROVE FALSE
    OBVIOUS
  <2>1. PICK t \in Nat : q = a + 1 + t
    <3>1. q - a - 1 \in Nat /\ q = a + 1 + (q - a - 1)
      BY <1>2
    <3> QED
      BY <3>1
  <2>2. n * q = n * a + n + n * t
    BY <2>1, <1>2
  <2>3. n * t \in Nat /\ n * a \in Nat
    BY <2>1, <1>2
  <2> QED
    BY <2>2, <2>3, <1>2, <1>3
<1>6. q = a
  BY <1>4, <1>5, <1>2
<1>7. r = b
  BY <1>6, <1>2, <1>3
<1> QED
  BY <1>6, <1>7 DEF q, r, x

\* Products grow with their factor.
LEMMA Larger ==
  ASSUME NEW n \in Nat, NEW a \in Nat, NEW b \in Nat, a <= b
  PROVE  n * a <= n * b
<1>1. b - a \in Nat /\ n * (b - a) \in Nat /\ n * b = n * a + n * (b - a)
  OBVIOUS
<1> QED
  BY <1>1

\* The cluster and the place in it of the p-th slot of a chain of m clusters.
ClusterOf(p) == 1 + ((p - 1) \div PerCluster)
PlaceOf(p) == 1 + ((p - 1) % PerCluster)

LEMMA CellFacts ==
  ASSUME NEW m \in Nat, NEW p \in 1 .. m * PerCluster
  PROVE  ClusterOf(p) \in 1 .. m /\ PlaceOf(p) \in 1 .. PerCluster
<1> DEFINE n == PerCluster
           q == (p - 1) \div n
<1>1. n \in Nat /\ n > 0 /\ p - 1 \in Nat
  BY DirParameters
<1>2. q \in Nat /\ (p - 1) % n \in 0 .. n - 1 /\ p - 1 = n * q + ((p - 1) % n)
  BY <1>1, Divided
<1> HIDE DEF q
<1>3. q < m
  <2> SUFFICES ASSUME m <= q PROVE FALSE
    BY <1>2
  <2>1. n * m <= n * q /\ n * m \in Nat /\ n * q \in Nat /\ n * m = m * n
    BY <1>1, <1>2, Larger
  <2> QED
    BY <2>1, <1>1, <1>2
<1> QED
  BY <1>1, <1>2, <1>3 DEF ClusterOf, PlaceOf, q

LEMMA CellOnce ==
  ASSUME NEW p \in Nat, NEW q \in Nat, p > 0, q > 0,
         ClusterOf(p) = ClusterOf(q), PlaceOf(p) = PlaceOf(q)
  PROVE  p = q
<1>1. PerCluster \in Nat /\ PerCluster > 0 /\ p - 1 \in Nat /\ q - 1 \in Nat
  BY DirParameters
<1>2. /\ (p - 1) \div PerCluster \in Nat /\ (q - 1) \div PerCluster \in Nat
      /\ (p - 1) % PerCluster \in Nat /\ (q - 1) % PerCluster \in Nat
      /\ p - 1 = PerCluster * ((p - 1) \div PerCluster) + ((p - 1) % PerCluster)
      /\ q - 1 = PerCluster * ((q - 1) \div PerCluster) + ((q - 1) % PerCluster)
  BY <1>1, Divided
<1>3. (p - 1) \div PerCluster = (q - 1) \div PerCluster /\ (p - 1) % PerCluster = (q - 1) % PerCluster
  BY <1>1, <1>2 DEF ClusterOf, PlaceOf
<1>4. p - 1 = q - 1
  BY <1>2, <1>3
<1> QED
  BY <1>4

\* The slots of the last of m clusters.
LEMMA LastCells ==
  ASSUME NEW m \in Nat, NEW j \in 1 .. PerCluster
  PROVE  ClusterOf(m * PerCluster + j) = m + 1 /\ PlaceOf(m * PerCluster + j) = j
<1>1. PerCluster \in Nat /\ PerCluster > 0 /\ j - 1 \in 0 .. PerCluster - 1
  BY DirParameters
<1>2. (m * PerCluster + j) - 1 = PerCluster * m + (j - 1)
  BY <1>1
<1>3. /\ (PerCluster * m + (j - 1)) \div PerCluster = m
      /\ (PerCluster * m + (j - 1)) % PerCluster = j - 1
  BY <1>1, DividedOnce
<1> QED
  BY <1>2, <1>3 DEF ClusterOf, PlaceOf

-----------------------------------------------------------------------------
(* Chains.                                                                 *)

\* s is the chain of clusters that starts with its first one.
IsChain(v, s) ==
  /\ s \in Seq(Clusters) /\ Len(s) > 0
  /\ \A i \in 1 .. Len(s) - 1 : v.fat[s[i]] = s[i + 1]
  /\ v.fat[s[Len(s)]] = Eoc
  /\ \A i, j \in 1 .. Len(s) : s[i] = s[j] => i = j

LEMMA DirCardinality == ASSUME NEW S PROVE Cardinality(S) = Cardinality(S)
BY DEF Cardinality, Cardinality

LEMMA ChainBounded ==
  ASSUME NEW s \in Seq(Clusters), \A i, j \in 1 .. Len(s) : s[i] = s[j] => i = j
  PROVE  Len(s) <= Cardinality(Clusters)
<1> DEFINE f == [i \in 1 .. Len(s) |-> s[i]]
<1>1. Len(s) \in Nat /\ IsFiniteSet(1 .. Len(s)) /\ Cardinality(1 .. Len(s)) = Len(s)
  <2>1. IsFiniteSet(1 .. Len(s))
    BY FS_Interval
  <2>2. Cardinality(1 .. Len(s)) = Len(s) - 1 + 1
    BY FS_Interval
  <2> QED
    BY <2>1, <2>2
<1>2. f \in Injection(1 .. Len(s), Clusters)
  <2>1. f \in [1 .. Len(s) -> Clusters]
    BY ElementOfSeq
  <2>2. \A i, j \in 1 .. Len(s) : f[i] = f[j] => i = j
    OBVIOUS
  <2> HIDE DEF f
  <2> QED
    BY <2>1, <2>2 DEF Injection, IsInjective
<1>3. Cardinality(1 .. Len(s)) <= Cardinality(Clusters)
  BY <1>1, <1>2, DirParameters, FS_Injection
<1> QED
  BY <1>1, <1>3

\* Chain follows the links from the first cluster to the end.
LEMMA ChainWalked ==
  ASSUME NEW v, NEW s, IsChain(v, s)
  PROVE  Chain(v, s[1]) = s
<1> DEFINE n == Cardinality(Clusters)
           c == s[1]
           IsWalk(f) == f = [i \in 1 .. n |->
             IF i = 1 THEN c ELSE IF f[i - 1] \in Clusters THEN v.fat[f[i - 1]] ELSE Eoc]
           g == [i \in 1 .. n |-> IF i <= Len(s) THEN s[i] ELSE Eoc]
<1>1. /\ n \in Nat /\ Len(s) \in Nat /\ Len(s) > 0 /\ Len(s) <= n
      /\ s \in [1 .. Len(s) -> Clusters] /\ \A i \in 1 .. Len(s) : s[i] \in Clusters
  BY ChainBounded, DirParameters, LenProperties, ElementOfSeq DEF IsChain
<1>2. \A i \in 1 .. n : g[i] = IF i = 1 THEN c ELSE IF g[i - 1] \in Clusters THEN v.fat[g[i - 1]] ELSE Eoc
  <2> SUFFICES ASSUME NEW i \in 1 .. n, i # 1
               PROVE  g[i] = IF g[i - 1] \in Clusters THEN v.fat[g[i - 1]] ELSE Eoc
    <3>1. \A i \in 1 .. n : i = 1 => g[i] = c
      BY <1>1
    <3> HIDE DEF g, c
    <3> QED
      BY <3>1
  <2>1. i - 1 \in 1 .. n /\ (i - 1) + 1 = i
    BY <1>1
  <2>2. CASE i <= Len(s)
    <3>1. i - 1 \in 1 .. Len(s) - 1 /\ i \in 1 .. Len(s)
      BY <1>1, <2>1, <2>2
    <3>2. g[i] = s[i] /\ g[i - 1] = s[i - 1]
      BY <1>1, <2>1, <3>1
    <3> QED
      BY <1>1, <2>1, <3>1, <3>2 DEF IsChain
  <2>3. CASE i - 1 = Len(s)
    <3>1. g[i] = Eoc /\ g[i - 1] = s[Len(s)]
      BY <1>1, <2>1, <2>3
    <3> QED
      BY <1>1, <3>1 DEF IsChain
  <2>4. CASE i - 1 > Len(s)
    <3>1. g[i] = Eoc /\ g[i - 1] = Eoc
      BY <1>1, <2>1, <2>4
    <3> QED
      BY <3>1, DirParameters
  <2> QED
    BY <1>1, <2>2, <2>3, <2>4
<1>3. IsWalk(g)
  <2>1. g = [i \in 1 .. n |-> g[i]]
    OBVIOUS
  <2> HIDE DEF g, n, c
  <2> QED
    BY <1>2, <2>1
<1>4. PICK f : IsWalk(f) /\ Chain(v, c) = [i \in {i \in DOMAIN f : f[i] \in Clusters} |-> f[i]]
  <2> HIDE DEF g
  <2> QED
    BY <1>3, DirCardinality DEF Chain
<1>5. \A i \in 1 .. n : f[i] = IF i = 1 THEN c ELSE IF f[i - 1] \in Clusters THEN v.fat[f[i - 1]] ELSE Eoc
  <2> HIDE DEF n, c
  <2> QED
    BY <1>4
<1>6. \A i \in 1 .. n : f[i] = g[i]
  <2> DEFINE Off == {i \in 1 .. n : f[i] # g[i]}
  <2> HIDE DEF g
  <2> SUFFICES ASSUME Off # {} PROVE FALSE
    OBVIOUS
  <2>1. PICK i \in Off : \A j \in Off : i <= j
    <3> Off \subseteq Nat
      BY <1>1
    <3> HIDE DEF Off
    <3> QED
      BY LeastNat
  <2>2. i \in 1 .. n /\ (i # 1 => i - 1 \in 1 .. n /\ i - 1 \notin Off)
    BY <2>1, <1>1
  <2> QED
    BY <2>1, <2>2, <1>2, <1>5
<1>7. DOMAIN f = 1 .. n
  <2> HIDE DEF n
  <2> QED
    BY <1>4
<1>8. {i \in DOMAIN f : f[i] \in Clusters} = 1 .. Len(s)
  <2>1. \A i \in 1 .. n : f[i] \in Clusters <=> i <= Len(s)
    BY <1>1, <1>6, DirParameters
  <2> QED
    BY <1>1, <1>7, <2>1
<1>9. \A i \in 1 .. Len(s) : f[i] = s[i]
  BY <1>1, <1>6
<1>10. s = [i \in 1 .. Len(s) |-> s[i]]
  BY <1>1
<1>11. [i \in 1 .. Len(s) |-> f[i]] = [i \in 1 .. Len(s) |-> s[i]]
  BY <1>9
<1> HIDE DEF n, c, g, IsWalk
<1>12. Chain(v, c) = [i \in 1 .. Len(s) |-> f[i]]
  BY <1>4, <1>8
<1> QED
  BY <1>10, <1>11, <1>12 DEF c

-----------------------------------------------------------------------------
(* Volumes.                                                                *)

\* The slots of a directory with the chain s, in order.
SlotsOf(v, s) == [p \in 1 .. Len(s) * PerCluster |-> v.table[s[ClusterOf(p)]][PlaceOf(p)]]

\* The slots of one cluster.
OneCluster(slots) == slots = [j \in 1 .. PerCluster |-> slots[j]]

\* A volume in which each directory d of DOMAIN ch has the chain ch[d] to itself.
Laid(v, ch) ==
  /\ v = [table |-> v.table, fat |-> v.fat]
  /\ v.fat \in [Clusters -> Clusters \cup {0, Eoc}]
  /\ v.table = [c \in Clusters |-> [j \in 1 .. PerCluster |-> v.table[c][j]]]
  /\ \A d \in DOMAIN ch : IsChain(v, ch[d]) /\ ch[d][1] = d
  /\ \A d, e \in DOMAIN ch : d # e =>
       \A i \in 1 .. Len(ch[d]), j \in 1 .. Len(ch[e]) : ch[d][i] # ch[e][j]

LEMMA LaidSlots ==
  ASSUME NEW v, NEW ch, Laid(v, ch), NEW d \in DOMAIN ch
  PROVE  /\ Chain(v, d) = ch[d] /\ DirSlots(v, d) = SlotsOf(v, ch[d])
         /\ d \in Clusters /\ Len(ch[d]) \in Nat /\ Len(ch[d]) > 0
         /\ ch[d] \in Seq(Clusters) /\ \A i \in 1 .. Len(ch[d]) : ch[d][i] \in Clusters
         /\ DOMAIN SlotsOf(v, ch[d]) = 1 .. Len(ch[d]) * PerCluster
         /\ Len(ch[d]) * PerCluster \in Nat
<1>1. IsChain(v, ch[d]) /\ ch[d][1] = d
  BY DEF Laid
<1>2. Chain(v, d) = ch[d]
  BY <1>1, ChainWalked
<1>3. DirSlots(v, d) = SlotsOf(v, ch[d])
  BY <1>2 DEF DirSlots, SlotsOf, Cell, ClusterOf, PlaceOf
<1>4. /\ Len(ch[d]) \in Nat /\ Len(ch[d]) > 0 /\ ch[d] \in Seq(Clusters)
      /\ \A i \in 1 .. Len(ch[d]) : ch[d][i] \in Clusters
  BY <1>1, LenProperties, ElementOfSeq DEF IsChain
<1>5. d \in Clusters
  BY <1>1, <1>4
<1> QED
  BY <1>2, <1>3, <1>4, <1>5, DirParameters DEF SlotsOf

\* What an operation leaves alone stays the chain and the slots it was.
LEMMA SameChain ==
  ASSUME NEW v, NEW w, NEW s, IsChain(v, s), \A i \in 1 .. Len(s) : w.fat[s[i]] = v.fat[s[i]]
  PROVE  IsChain(w, s)
<1>1. Len(s) \in Nat /\ Len(s) > 0
  BY LenProperties DEF IsChain
<1>2. \A i \in 1 .. Len(s) - 1 : i \in 1 .. Len(s)
  BY <1>1
<1> QED
  BY <1>1, <1>2 DEF IsChain

LEMMA SameSlots ==
  ASSUME NEW v, NEW w, NEW s, Len(s) \in Nat,
         \A i \in 1 .. Len(s) : w.table[s[i]] = v.table[s[i]]
  PROVE  SlotsOf(w, s) = SlotsOf(v, s)
<1>1. \A p \in 1 .. Len(s) * PerCluster : ClusterOf(p) \in 1 .. Len(s)
  BY CellFacts
<1> QED
  BY <1>1 DEF SlotsOf

\* The write of slots changes those of one directory.
LEMMA StoreLaid ==
  ASSUME NEW v, NEW ch, Laid(v, ch), NEW d \in DOMAIN ch,
         NEW k \in Nat, NEW slots, DOMAIN slots = 1 .. k,
         NEW pos \in Nat, pos > 0, pos + k - 1 <= Len(ch[d]) * PerCluster,
         NEW w, w = StoreAll(v, d, pos, slots)
  PROVE  /\ Laid(w, ch) /\ w.fat = v.fat
         /\ \A p \in 1 .. Len(ch[d]) * PerCluster : SlotsOf(w, ch[d])[p]
              = IF p \in pos .. pos + k - 1 THEN slots[p - pos + 1] ELSE SlotsOf(v, ch[d])[p]
         /\ \A e \in DOMAIN ch : e # d => SlotsOf(w, ch[e]) = SlotsOf(v, ch[e])
<1> DEFINE s == ch[d]
           L == Len(s) * PerCluster
           At(c, j) == {i \in DOMAIN slots : Cell(s, pos + i - 1) = <<c, j>>}
           cell(c, j) == IF At(c, j) = {} THEN v.table[c][j] ELSE slots[CHOOSE i \in At(c, j) : TRUE]
           T == [c \in Clusters |-> [j \in 1 .. PerCluster |-> cell(c, j)]]
<1>1. /\ Chain(v, d) = s /\ Len(s) \in Nat /\ L \in Nat /\ IsChain(v, s)
      /\ \A i \in 1 .. Len(s) : s[i] \in Clusters
  <2>1. Laid(v, ch) /\ d \in DOMAIN ch
    OBVIOUS
  <2>2. IsChain(v, s)
    BY <2>1 DEF Laid
  <2> QED
    BY <2>1, <2>2, LaidSlots
<1>2. w = [v EXCEPT !.table = T]
  BY <1>1 DEF StoreAll
<1>3. w = [table |-> T, fat |-> v.fat] /\ w.table = T /\ w.fat = v.fat
  <2> HIDE DEF T
  <2>1. v = [table |-> v.table, fat |-> v.fat]
    BY DEF Laid
  <2> QED
    BY <1>2, <2>1
<1> HIDE DEF s, L
<1>4. ASSUME NEW p \in 1 .. L
      PROVE  /\ s[ClusterOf(p)] \in Clusters /\ PlaceOf(p) \in 1 .. PerCluster
             /\ At(s[ClusterOf(p)], PlaceOf(p)) = {i \in 1 .. k : pos + i - 1 = p}
  <2>1. ClusterOf(p) \in 1 .. Len(s) /\ PlaceOf(p) \in 1 .. PerCluster
    BY <1>1, CellFacts DEF L
  <2>2. ASSUME NEW i \in 1 .. k
        PROVE  /\ pos + i - 1 \in 1 .. L /\ ClusterOf(pos + i - 1) \in 1 .. Len(s)
    <3>1. pos + i - 1 \in 1 .. L
      BY <1>1 DEF L, s
    <3> QED
      BY <1>1, <3>1, CellFacts DEF L
  <2>3. ASSUME NEW i \in 1 .. k, s[ClusterOf(pos + i - 1)] = s[ClusterOf(p)], PlaceOf(pos + i - 1) = PlaceOf(p)
        PROVE  pos + i - 1 = p
    <3>1. ClusterOf(pos + i - 1) = ClusterOf(p)
      BY <1>1, <2>1, <2>2, <2>3 DEF IsChain
    <3>2. pos + i - 1 \in Nat /\ pos + i - 1 > 0 /\ p \in Nat /\ p > 0
      BY <1>1, <2>2
    <3> QED
      BY <2>3, <3>1, <3>2, CellOnce
  <2>4. At(s[ClusterOf(p)], PlaceOf(p)) = {i \in 1 .. k : pos + i - 1 = p}
    BY <2>3 DEF Cell, ClusterOf, PlaceOf
  <2> QED
    BY <1>1, <2>1, <2>4
<1>5. \A p \in 1 .. L : SlotsOf(w, s)[p] = IF p \in pos .. pos + k - 1 THEN slots[p - pos + 1] ELSE SlotsOf(v, s)[p]
  <2>1. ASSUME NEW p \in 1 .. L
        PROVE  w.table[s[ClusterOf(p)]][PlaceOf(p)]
                 = IF p \in pos .. pos + k - 1 THEN slots[p - pos + 1] ELSE SlotsOf(v, s)[p]
    <3> DEFINE c == s[ClusterOf(p)]
               j == PlaceOf(p)
    <3>1. c \in Clusters /\ j \in 1 .. PerCluster /\ At(c, j) = {i \in 1 .. k : pos + i - 1 = p}
      BY <1>4
    <3> HIDE DEF At, c, j
    <3>2. w.table[c][j] = cell(c, j)
      BY <1>3, <3>1
    <3>3. CASE p \in pos .. pos + k - 1
      <4>1. p - pos + 1 \in 1 .. k /\ At(c, j) = {p - pos + 1}
        BY <3>1, <3>3, <1>1
      <4>2. (CHOOSE i \in At(c, j) : TRUE) = p - pos + 1
        BY <4>1
      <4>3. cell(c, j) = slots[p - pos + 1]
        BY <4>1, <4>2
      <4> QED
        BY <3>2, <3>3, <4>3 DEF c, j
    <3>4. CASE p \notin pos .. pos + k - 1
      <4>1. At(c, j) = {}
        BY <3>1, <3>4, <1>1
      <4>2. SlotsOf(v, s)[p] = v.table[c][j]
        BY DEF SlotsOf, c, j, L
      <4> QED
        BY <3>2, <3>4, <4>1, <4>2 DEF c, j
    <3> QED
      BY <3>3, <3>4
  <2> HIDE DEF T
  <2> QED
    BY <2>1 DEF SlotsOf, L
<1>6. ASSUME NEW c \in Clusters, \A i \in 1 .. Len(s) : s[i] # c PROVE w.table[c] = v.table[c]
  <2>1. \A j \in 1 .. PerCluster : At(c, j) = {}
    <3>1. ASSUME NEW i \in 1 .. k PROVE ClusterOf(pos + i - 1) \in 1 .. Len(s)
      <4>1. pos + i - 1 \in 1 .. L
        BY <1>1 DEF L, s
      <4> QED
        BY <1>1, <4>1, CellFacts DEF L
    <3> QED
      BY <1>6, <3>1 DEF Cell, ClusterOf
  <2>2. w.table[c] = [j \in 1 .. PerCluster |-> cell(c, j)]
    BY <1>3
  <2>3. \A j \in 1 .. PerCluster : cell(c, j) = v.table[c][j]
    BY <2>1
  <2>4. v.table[c] = [j \in 1 .. PerCluster |-> v.table[c][j]]
    BY DEF Laid
  <2> HIDE DEF cell
  <2> QED
    BY <2>2, <2>3, <2>4
<1>7. ASSUME NEW e \in DOMAIN ch, e # d PROVE SlotsOf(w, ch[e]) = SlotsOf(v, ch[e])
  <2>1. \A i \in 1 .. Len(ch[e]) : ch[e][i] \in Clusters /\ \A j \in 1 .. Len(s) : s[j] # ch[e][i]
    <3>1. e \in DOMAIN ch /\ Laid(v, ch)
      BY <1>7
    <3>2. \A i \in 1 .. Len(ch[e]), j \in 1 .. Len(ch[d]) : ch[d][j] # ch[e][i]
      BY <1>7, <3>1 DEF Laid
    <3> QED
      BY <3>1, <3>2, LaidSlots DEF s
  <2>2. Len(ch[e]) \in Nat /\ \A i \in 1 .. Len(ch[e]) : w.table[ch[e][i]] = v.table[ch[e][i]]
    BY <1>6, <2>1, LaidSlots
  <2> QED
    BY <2>2, SameSlots
<1>8. Laid(w, ch)
  <2>1. \A e \in DOMAIN ch : IsChain(w, ch[e]) /\ ch[e][1] = e
    <3>1. \A e \in DOMAIN ch : IsChain(v, ch[e]) /\ ch[e][1] = e
      BY DEF Laid
    <3> QED
      BY <1>3, <3>1, SameChain
  <2>2. w.table = [c \in Clusters |-> [j \in 1 .. PerCluster |-> w.table[c][j]]]
    <3> HIDE DEF cell
    <3>1. \A c \in Clusters, j \in 1 .. PerCluster : w.table[c][j] = cell(c, j)
      BY <1>3
    <3> QED
      BY <1>3, <3>1
  <2>3. w = [table |-> w.table, fat |-> w.fat]
    <3> HIDE DEF T
    <3> QED
      BY <1>3
  <2> HIDE DEF T
  <2> QED
    BY <1>3, <2>1, <2>2, <2>3 DEF Laid
<1> QED
  BY <1>3, <1>5, <1>7, <1>8 DEF s, L

LEMMA LeastUnused ==
  ASSUME NEW v, Unused(v) # {}
  PROVE  Least(Unused(v)) \in Clusters /\ v.fat[Least(Unused(v))] = 0
<1>1. Unused(v) \subseteq Nat
  BY DirParameters DEF Unused
<1>2. \E i \in Unused(v) : \A j \in Unused(v) : i <= j
  BY <1>1, LeastNat
<1>3. Least(Unused(v)) \in Unused(v)
  BY <1>2 DEF Least
<1> QED
  BY <1>3 DEF Unused

\* A cluster that the FAT calls free is in no chain.
LEMMA UnusedApart ==
  ASSUME NEW v, NEW s, IsChain(v, s), NEW i \in 1 .. Len(s)
  PROVE  v.fat[s[i]] # 0
<1>1. Len(s) \in Nat /\ \A j \in 1 .. Len(s) : s[j] \in Clusters
  BY LenProperties, ElementOfSeq DEF IsChain
<1>2. CASE i = Len(s)
  BY <1>2 DEF IsChain, Eoc
<1>3. CASE i # Len(s)
  <2>1. i \in 1 .. Len(s) - 1 /\ i + 1 \in 1 .. Len(s)
    BY <1>1, <1>3
  <2>2. s[i + 1] \in Clusters /\ v.fat[s[i]] = s[i + 1]
    BY <1>1, <2>1 DEF IsChain
  <2> QED
    BY <2>2, DirParameters
<1> QED
  BY <1>2, <1>3

\* A new cluster, clear or with the dots, is a directory of its own.
LEMMA NewLaid ==
  ASSUME NEW v, NEW ch, Laid(v, ch), NEW c \in Clusters, v.fat[c] = 0,
         NEW slots, OneCluster(slots),
         NEW w, w = [NewCluster(v, c) EXCEPT !.table[c] = slots],
         NEW dh, dh = [d \in DOMAIN ch \cup {c} |-> IF d = c THEN <<c>> ELSE ch[d]]
  PROVE  /\ Laid(w, dh) /\ c \notin DOMAIN ch
         /\ SlotsOf(w, dh[c]) = slots
         /\ \A d \in DOMAIN ch : dh[d] = ch[d] /\ SlotsOf(w, dh[d]) = SlotsOf(v, ch[d])
         /\ \A x \in Clusters : w.fat[x] = 0 => v.fat[x] = 0 /\ x # c
<1>0. \A s : IsChain(v, s) /\ (\A i \in 1 .. Len(s) : w.fat[s[i]] = v.fat[s[i]]) => IsChain(w, s)
  BY ZenonT(60), SameChain
<1>1. /\ v = [table |-> v.table, fat |-> v.fat] /\ v.fat \in [Clusters -> Clusters \cup {0, Eoc}]
      /\ v.table = [x \in Clusters |-> [j \in 1 .. PerCluster |-> v.table[x][j]]]
      /\ Eoc # 0
  BY DirParameters DEF Laid
<1>2. w = [table |-> [v.table EXCEPT ![c] = slots], fat |-> [v.fat EXCEPT ![c] = Eoc]]
  BY <1>1 DEF NewCluster
<1>3. /\ w.fat \in [Clusters -> Clusters \cup {0, Eoc}] /\ w.fat[c] = Eoc
      /\ \A x \in Clusters : x # c => w.fat[x] = v.fat[x]
      /\ w.table[c] = slots /\ \A x \in Clusters : x # c => w.table[x] = v.table[x]
      /\ w.table = [x \in Clusters |-> [j \in 1 .. PerCluster |-> w.table[x][j]]]
      /\ w = [table |-> w.table, fat |-> w.fat]
  <2>0. /\ w.fat = [v.fat EXCEPT ![c] = Eoc] /\ w.table = [v.table EXCEPT ![c] = slots]
        /\ DOMAIN v.table = Clusters
    <3>1. DOMAIN v.table = Clusters
      <4>1. v.table = [x \in Clusters |-> [j \in 1 .. PerCluster |-> v.table[x][j]]]
        BY DEF Laid
      <4> DEFINE t(x) == [j \in 1 .. PerCluster |-> v.table[x][j]]
      <4>2. DOMAIN [x \in Clusters |-> t(x)] = Clusters
        OBVIOUS
      <4> QED
        BY <4>1, <4>2
    <3>2. /\ w.table = [table |-> [v.table EXCEPT ![c] = slots], fat |-> [v.fat EXCEPT ![c] = Eoc]].table
          /\ w.fat = [table |-> [v.table EXCEPT ![c] = slots], fat |-> [v.fat EXCEPT ![c] = Eoc]].fat
      BY <1>2
    <3> QED
      BY <3>1, <3>2
  <2>1. /\ w.fat \in [Clusters -> Clusters \cup {0, Eoc}] /\ w.fat[c] = Eoc
        /\ \A x \in Clusters : x # c => w.fat[x] = v.fat[x]
    <3>1. v.fat \in [Clusters -> Clusters \cup {0, Eoc}]
      BY <1>1
    <3> QED
      BY <2>0, <3>1
  <2>2. w.table[c] = slots /\ \A x \in Clusters : x # c => w.table[x] = v.table[x]
    BY <2>0
  <2>3. \A x \in Clusters : w.table[x] = [j \in 1 .. PerCluster |-> w.table[x][j]]
    <3>1. \A x \in Clusters : v.table[x] = [j \in 1 .. PerCluster |-> v.table[x][j]]
      BY DEF Laid
    <3> QED
      BY <2>2, <3>1 DEF OneCluster
  <2>4. w.table = [x \in Clusters |-> w.table[x]]
    BY <2>0
  <2>5. w.table = [x \in Clusters |-> [j \in 1 .. PerCluster |-> w.table[x][j]]]
    BY <2>3, <2>4
  <2>6. w = [table |-> w.table, fat |-> w.fat]
    BY <1>2
  <2> QED
    BY <2>1, <2>2, <2>5, <2>6
<1>4. ASSUME NEW d \in DOMAIN ch
      PROVE  /\ IsChain(v, ch[d]) /\ ch[d][1] = d /\ Len(ch[d]) \in Nat /\ Len(ch[d]) > 0
             /\ \A i \in 1 .. Len(ch[d]) : ch[d][i] \in Clusters /\ ch[d][i] # c
  <2>1. IsChain(v, ch[d]) /\ ch[d][1] = d
    BY <1>4 DEF Laid
  <2>2. /\ Len(ch[d]) \in Nat /\ Len(ch[d]) > 0
        /\ \A i \in 1 .. Len(ch[d]) : ch[d][i] \in Clusters
    BY <1>4, LaidSlots
  <2>3. \A i \in 1 .. Len(ch[d]) : v.fat[ch[d][i]] # 0
    BY <2>1, UnusedApart
  <2> QED
    BY <2>1, <2>2, <2>3
<1>5. c \notin DOMAIN ch
  <2>1. \A d \in DOMAIN ch : d # c
    BY <1>4
  <2> QED
    BY <2>1
<1>6. \A d \in DOMAIN ch : dh[d] = ch[d]
  BY <1>5
<1>7. ASSUME NEW d \in DOMAIN ch
      PROVE  IsChain(w, ch[d]) /\ SlotsOf(w, ch[d]) = SlotsOf(v, ch[d])
  <2>1. \A i \in 1 .. Len(ch[d]) : w.fat[ch[d][i]] = v.fat[ch[d][i]] /\ w.table[ch[d][i]] = v.table[ch[d][i]]
    BY <1>3, <1>4
  <2>2. IsChain(v, ch[d]) /\ Len(ch[d]) \in Nat
    BY <1>4
  <2>3. IsChain(w, ch[d])
    <3>1. \A i \in 1 .. Len(ch[d]) : w.fat[ch[d][i]] = v.fat[ch[d][i]]
      BY <2>1
    <3> HIDE DEF Laid
    <3> QED
      BY <1>0, <2>2, <3>1
  <2>4. SlotsOf(w, ch[d]) = SlotsOf(v, ch[d])
    <3>1. \A i \in 1 .. Len(ch[d]) : w.table[ch[d][i]] = v.table[ch[d][i]]
      BY <2>1
    <3> QED
      BY ZenonT(60), <2>2, <3>1, SameSlots
  <2> QED
    BY <2>3, <2>4
<1>8. dh[c] = <<c>> /\ IsChain(w, <<c>>) /\ DOMAIN dh = DOMAIN ch \cup {c}
  <2>1. <<c>> \in Seq(Clusters) /\ Len(<<c>>) = 1
    OBVIOUS
  <2>2. IsChain(w, <<c>>)
    BY <1>3, <2>1 DEF IsChain
  <2> QED
    BY <2>2
<1>9. SlotsOf(w, <<c>>) = slots
  <2>1. \A p \in 1 .. PerCluster : ClusterOf(p) = 1 /\ PlaceOf(p) = p
    <3>1. \A p \in 1 .. PerCluster : p = 0 * PerCluster + p
      BY DirParameters
    <3> QED
      BY <3>1, LastCells
  <2>2. SlotsOf(w, <<c>>) = [p \in 1 .. PerCluster |-> slots[p]]
    <3>1. SlotsOf(w, <<c>>) = [p \in 1 .. 1 * PerCluster |-> w.table[<<c>>[ClusterOf(p)]][PlaceOf(p)]]
      BY DEF SlotsOf
    <3>2. 1 * PerCluster = PerCluster
      BY DirParameters
    <3>3. \A p \in 1 .. PerCluster : w.table[<<c>>[ClusterOf(p)]][PlaceOf(p)] = slots[p]
      BY <1>3, <2>1
    <3> QED
      BY <3>1, <3>2, <3>3
  <2> QED
    BY <2>2 DEF OneCluster
<1>10. Laid(w, dh)
  <2>1. \A d \in DOMAIN dh : IsChain(w, dh[d]) /\ dh[d][1] = d
    BY <1>4, <1>6, <1>7, <1>8
  <2>2. ASSUME NEW d \in DOMAIN dh, NEW e \in DOMAIN dh, d # e,
               NEW i \in 1 .. Len(dh[d]), NEW j \in 1 .. Len(dh[e])
        PROVE  dh[d][i] # dh[e][j]
    <3>1. CASE d \in DOMAIN ch /\ e \in DOMAIN ch
      <4>1. dh[d] = ch[d] /\ dh[e] = ch[e]
        BY <3>1, <1>6
      <4> QED
        BY <2>2, <3>1, <4>1 DEF Laid
    <3>2. CASE d = c
      <4>1. dh[d] = <<c>> /\ dh[d][i] = c /\ e \in DOMAIN ch /\ dh[e] = ch[e]
        BY <2>2, <3>2, <1>6, <1>8
      <4> QED
        BY <4>1, <1>4
    <3>3. CASE e = c
      <4>1. dh[e] = <<c>> /\ dh[e][j] = c /\ d \in DOMAIN ch /\ dh[d] = ch[d]
        BY <2>2, <3>3, <1>6, <1>8
      <4> QED
        BY <4>1, <1>4
    <3> QED
      BY <3>1, <3>2, <3>3, <1>8
  <2> QED
    BY <1>3, <2>1, <2>2 DEF Laid
<1>11. \A x \in Clusters : w.fat[x] = 0 => v.fat[x] = 0 /\ x # c
  BY <1>1, <1>3
<1> QED
  BY <1>5, <1>6, <1>7, <1>8, <1>9, <1>10, <1>11

LEMMA ClusterMade ==
  ASSUME NEW t, NEW g, NEW c
  PROVE  NewCluster([table |-> t, fat |-> g], c) = [table |-> [t EXCEPT ![c] = Clear], fat |-> [g EXCEPT ![c] = Eoc]]
<1> DEFINE v == [table |-> t, fat |-> g]
           a == [table |-> t, fat |-> [g EXCEPT ![c] = Eoc]]
<1>1. [v EXCEPT !.fat[c] = Eoc] = a
  OBVIOUS
<1>2. [a EXCEPT !.table[c] = Clear] = [table |-> [t EXCEPT ![c] = Clear], fat |-> [g EXCEPT ![c] = Eoc]]
  OBVIOUS
<1>3. NewCluster(v, c) = [[v EXCEPT !.fat[c] = Eoc] EXCEPT !.table[c] = Clear]
  BY DEF NewCluster
<1> HIDE DEF v, a
<1>4. NewCluster(v, c) = [table |-> [t EXCEPT ![c] = Clear], fat |-> [g EXCEPT ![c] = Eoc]]
  BY <1>1, <1>2, <1>3
<1> QED
  BY <1>4 DEF v

\* dir_next adds a clear cluster to a directory that is full.
LEMMA StretchLaid ==
  ASSUME NEW v, NEW ch, Laid(v, ch), NEW d \in DOMAIN ch, Unused(v) # {},
         NEW w, w = Stretch(v, d)
  PROVE  \E dh :
           /\ DOMAIN dh = DOMAIN ch /\ Laid(w, dh)
           /\ Len(dh[d]) = Len(ch[d]) + 1
           /\ SlotsOf(w, dh[d]) = [p \in 1 .. Len(ch[d]) * PerCluster + PerCluster |->
                IF p <= Len(ch[d]) * PerCluster THEN SlotsOf(v, ch[d])[p] ELSE End]
           /\ \A e \in DOMAIN ch : e # d => dh[e] = ch[e] /\ SlotsOf(w, dh[e]) = SlotsOf(v, ch[e])
           /\ \A x \in Clusters : w.fat[x] = 0 => v.fat[x] = 0
<1> DEFINE s == ch[d]
           n == Len(s)
           L == n * PerCluster
<1>0. \A t : IsChain(v, t) /\ (\A i \in 1 .. Len(t) : w.fat[t[i]] = v.fat[t[i]]) => IsChain(w, t)
  BY SameChain
<1>1. PICK c \in Clusters : c = Least(Unused(v)) /\ v.fat[c] = 0
  BY LeastUnused
<1>2. /\ IsChain(v, s) /\ s[1] = d /\ n \in Nat /\ n > 0 /\ L \in Nat /\ Chain(v, d) = s
      /\ s \in Seq(Clusters) /\ \A i \in 1 .. n : s[i] \in Clusters
  <2>1. IsChain(v, s) /\ s[1] = d
    BY DEF Laid
  <2> QED
    BY <2>1, LaidSlots
<1>3. PICK z \in Clusters : z = s[n] /\ Last(Chain(v, d)) = z
  BY <1>2 DEF Last
<1>4. \A i \in 1 .. n : s[i] # c
  BY <1>1, <1>2, UnusedApart
<1>5. /\ v = [table |-> v.table, fat |-> v.fat] /\ v.fat \in [Clusters -> Clusters \cup {0, Eoc}]
      /\ DOMAIN v.table = Clusters
      /\ \A x \in Clusters : v.table[x] = [j \in 1 .. PerCluster |-> v.table[x][j]]
  <2>1. v.table = [x \in Clusters |-> [j \in 1 .. PerCluster |-> v.table[x][j]]]
    BY DEF Laid
  <2> DEFINE t(x) == [j \in 1 .. PerCluster |-> v.table[x][j]]
  <2>2. DOMAIN v.table = Clusters /\ \A x \in Clusters : v.table[x] = t(x)
    <3>1. v.table = [x \in Clusters |-> t(x)]
      BY <2>1
    <3>2. DOMAIN [x \in Clusters |-> t(x)] = Clusters
      OBVIOUS
    <3>3. \A x \in Clusters : [y \in Clusters |-> t(y)][x] = t(x)
      OBVIOUS
    <3> HIDE DEF t
    <3> QED
      BY <3>1, <3>2, <3>3
  <2> QED
    BY <2>2 DEF Laid
<1>6. /\ w.table = [v.table EXCEPT ![c] = Clear]
      /\ w.fat = [v.fat EXCEPT ![c] = Eoc, ![z] = c]
      /\ w = [table |-> w.table, fat |-> w.fat]
  <2>1. NewCluster(v, c) = [table |-> [v.table EXCEPT ![c] = Clear], fat |-> [v.fat EXCEPT ![c] = Eoc]]
    <3>0. NewCluster([table |-> v.table, fat |-> v.fat], c)
            = [table |-> [v.table EXCEPT ![c] = Clear], fat |-> [v.fat EXCEPT ![c] = Eoc]]
      BY ClusterMade
    <3>1. v = [table |-> v.table, fat |-> v.fat]
      BY <1>5
    <3> QED
      BY <3>0, <3>1
  <2>2. w = [NewCluster(v, c) EXCEPT !.fat[z] = c]
    BY <1>1, <1>3 DEF Stretch
  <2>3. w = [table |-> [v.table EXCEPT ![c] = Clear], fat |-> [[v.fat EXCEPT ![c] = Eoc] EXCEPT ![z] = c]]
    BY <2>1, <2>2
  <2> QED
    BY <2>3
<1>7. /\ w.fat \in [Clusters -> Clusters \cup {0, Eoc}] /\ w.fat[c] = Eoc /\ w.fat[z] = c
      /\ \A x \in Clusters : x # c /\ x # z => w.fat[x] = v.fat[x]
  <2>1. c # z
    BY <1>2, <1>3, <1>4
  <2> QED
    BY <1>5, <1>6, <2>1
<1>8. /\ w.table[c] = Clear /\ \A x \in Clusters : x # c => w.table[x] = v.table[x]
      /\ DOMAIN w.table = Clusters
  BY <1>5, <1>6
<1>9. w.table = [x \in Clusters |-> [j \in 1 .. PerCluster |-> w.table[x][j]]]
  <2>1. \A x \in Clusters : w.table[x] = [j \in 1 .. PerCluster |-> w.table[x][j]]
    BY <1>5, <1>8 DEF Clear
  <2>2. w.table = [x \in Clusters |-> w.table[x]]
    BY <1>6, <1>5
  <2> QED
    BY <2>1, <2>2
<1> DEFINE s2 == Append(s, c)
           dh == [e \in DOMAIN ch |-> IF e = d THEN s2 ELSE ch[e]]
<1>10. /\ s2 \in Seq(Clusters) /\ Len(s2) = n + 1 /\ s2[n + 1] = c /\ \A i \in 1 .. n : s2[i] = s[i]
  BY <1>2, AppendProperties
<1>11. IsChain(w, s2) /\ s2[1] = d
  <2> HIDE DEF s2, s, n, L
  <2>1. \A i \in 1 .. n - 1 : w.fat[s[i]] = s[i + 1]
    <3>1. \A i \in 1 .. n - 1 : i \in 1 .. n /\ i # n /\ n \in 1 .. n
      BY <1>2
    <3>2. \A i, j \in 1 .. n : s[i] = s[j] => i = j
      BY <1>2 DEF IsChain, n
    <3>3. \A i \in 1 .. n - 1 : s[i] \in Clusters /\ s[i] # c /\ s[i] # z
      BY <1>2, <1>3, <1>4, <3>1, <3>2
    <3>4. \A i \in 1 .. n - 1 : v.fat[s[i]] = s[i + 1]
      BY <1>2 DEF IsChain, n
    <3> QED
      BY <1>7, <3>3, <3>4
  <2>2. \A i \in 1 .. Len(s2) - 1 : w.fat[s2[i]] = s2[i + 1]
    <3> SUFFICES ASSUME NEW i \in 1 .. n PROVE w.fat[s2[i]] = s2[i + 1]
      BY <1>2, <1>10
    <3>1. CASE i = n
      BY <3>1, <1>2, <1>3, <1>7, <1>10
    <3>2. CASE i # n
      <4>1. i \in 1 .. n - 1 /\ i + 1 \in 1 .. n
        BY <3>2, <1>2
      <4> QED
        BY <4>1, <2>1, <1>10
    <3> QED
      BY <3>1, <3>2
  <2>3. \A i, j \in 1 .. Len(s2) : s2[i] = s2[j] => i = j
    <3>1. \A i \in 1 .. n + 1 : i \in 1 .. n \/ i = n + 1
      BY <1>2
    <3>2. \A i, j \in 1 .. n : s[i] = s[j] => i = j
      BY <1>2 DEF IsChain, n
    <3> QED
      BY <1>4, <1>10, <3>1, <3>2
  <2>4. w.fat[s2[Len(s2)]] = Eoc
    BY <1>7, <1>10
  <2>5. s2[1] = d /\ Len(s2) > 0
    BY <1>2, <1>10
  <2> QED
    BY <2>2, <2>3, <2>4, <2>5, <1>10 DEF IsChain
<1> HIDE DEF s2
<1>12. DOMAIN dh = DOMAIN ch /\ dh[d] = s2 /\ \A e \in DOMAIN ch : e # d => dh[e] = ch[e]
  OBVIOUS
<1>13. ASSUME NEW e \in DOMAIN ch, e # d
       PROVE  /\ IsChain(w, ch[e]) /\ ch[e][1] = e /\ SlotsOf(w, ch[e]) = SlotsOf(v, ch[e])
              /\ Len(ch[e]) \in Nat
              /\ \A i \in 1 .. Len(ch[e]) : ch[e][i] # c /\ \A j \in 1 .. n : ch[e][i] # s[j]
  <2>1. IsChain(v, ch[e]) /\ ch[e][1] = e /\ \A i \in 1 .. Len(ch[e]), j \in 1 .. n : ch[e][i] # s[j]
    BY <1>13 DEF Laid
  <2>2. /\ Len(ch[e]) \in Nat /\ \A i \in 1 .. Len(ch[e]) : ch[e][i] \in Clusters
    BY LaidSlots
  <2>3. \A i \in 1 .. Len(ch[e]) : ch[e][i] # c
    BY <1>1, <2>1, UnusedApart
  <2>4. \A i \in 1 .. Len(ch[e]) : ch[e][i] # z
    BY <1>2, <1>3, <2>1
  <2>5. \A i \in 1 .. Len(ch[e]) : w.fat[ch[e][i]] = v.fat[ch[e][i]]
    BY <1>7, <2>2, <2>3, <2>4
  <2>6. \A i \in 1 .. Len(ch[e]) : w.table[ch[e][i]] = v.table[ch[e][i]]
    BY <1>8, <2>2, <2>3
  <2>7. IsChain(w, ch[e])
    BY <1>0, <2>1, <2>5
  <2>8. SlotsOf(w, ch[e]) = SlotsOf(v, ch[e])
    BY <2>2, <2>6, SameSlots
  <2> QED
    BY <2>1, <2>2, <2>3, <2>7, <2>8
<1>14. SlotsOf(w, s2) = [p \in 1 .. L + PerCluster |-> IF p <= L THEN SlotsOf(v, s)[p] ELSE End]
  <2>1. Len(s2) * PerCluster = L + PerCluster
    <3>1. (n + 1) * PerCluster = n * PerCluster + PerCluster
      BY <1>2, DirParameters
    <3> QED
      BY <1>10, <3>1
  <2>2. ASSUME NEW p \in 1 .. L + PerCluster
        PROVE  w.table[s2[ClusterOf(p)]][PlaceOf(p)] = IF p <= L THEN SlotsOf(v, s)[p] ELSE End
    <3>1. CASE p <= L
      <4>1. p \in 1 .. n * PerCluster
        BY <3>1, <1>2, DirParameters
      <4>2. ClusterOf(p) \in 1 .. n
        BY <4>1, <1>2, CellFacts
      <4>3. s2[ClusterOf(p)] = s[ClusterOf(p)] /\ s[ClusterOf(p)] \in Clusters /\ s[ClusterOf(p)] # c
        BY <4>2, <1>2, <1>4, <1>10
      <4>4. SlotsOf(v, s)[p] = v.table[s[ClusterOf(p)]][PlaceOf(p)]
        BY <4>1 DEF SlotsOf
      <4> QED
        BY <3>1, <4>3, <4>4, <1>8
    <3>2. CASE p > L
      <4>1. PICK j \in 1 .. PerCluster : p = n * PerCluster + j
        <5>1. L \in Nat /\ PerCluster \in Nat /\ n * PerCluster = L
          BY <1>2, DirParameters
        <5> HIDE DEF L
        <5>2. p - L \in 1 .. PerCluster /\ p = L + (p - L)
          BY <3>2, <5>1
        <5> QED
          BY <5>1, <5>2
      <4>2. ClusterOf(p) = n + 1 /\ PlaceOf(p) = j
        BY <4>1, <1>2, LastCells
      <4>3. w.table[s2[ClusterOf(p)]] = Clear
        BY <4>2, <1>8, <1>10
      <4>4. Clear[j] = End
        BY DEF Clear
      <4> QED
        BY <3>2, <4>2, <4>3, <4>4, <1>2
    <3> QED
      BY <3>1, <3>2, <1>2, DirParameters
  <2> QED
    BY <2>1, <2>2 DEF SlotsOf
<1>15. Laid(w, dh)
  <2>1. \A e \in DOMAIN dh : IsChain(w, dh[e]) /\ dh[e][1] = e
    BY <1>11, <1>12, <1>13
  <2>2. ASSUME NEW e \in DOMAIN dh, NEW f \in DOMAIN dh, e # f, NEW i \in 1 .. Len(dh[e]), NEW j \in 1 .. Len(dh[f])
        PROVE  dh[e][i] # dh[f][j]
    <3>0. \A k \in 1 .. n + 1 : k \in 1 .. n \/ k = n + 1
      BY <1>2
    <3>1. CASE e # d /\ f # d
      <4>1. dh[e] = ch[e] /\ dh[f] = ch[f] /\ e \in DOMAIN ch /\ f \in DOMAIN ch
        BY <3>1, <1>12
      <4> QED
        BY <2>2, <4>1 DEF Laid
    <3>2. CASE e = d
      <4>1. dh[e] = s2 /\ dh[f] = ch[f] /\ f \in DOMAIN ch /\ f # d
        BY <2>2, <3>2, <1>12
      <4> QED
        BY <4>1, <1>10, <1>13, <3>0
    <3>3. CASE f = d
      <4>1. dh[f] = s2 /\ dh[e] = ch[e] /\ e \in DOMAIN ch /\ e # d
        BY <2>2, <3>3, <1>12
      <4> QED
        BY <4>1, <1>10, <1>13, <3>0
    <3> QED
      BY <3>1, <3>2, <3>3
  <2> HIDE DEF dh
  <2> QED
    BY <1>6, <1>7, <1>9, <2>1, <2>2 DEF Laid
<1>16. \A x \in Clusters : w.fat[x] = 0 => v.fat[x] = 0
  BY <1>1, <1>7, DirParameters
<1> HIDE DEF dh, s, n, L
<1>17. Len(dh[d]) = Len(ch[d]) + 1
  BY <1>10, <1>12 DEF s, n
<1>18. SlotsOf(w, dh[d]) = [p \in 1 .. Len(ch[d]) * PerCluster + PerCluster |->
         IF p <= Len(ch[d]) * PerCluster THEN SlotsOf(v, ch[d])[p] ELSE End]
  BY <1>12, <1>14 DEF s, n, L
<1>19. \A e \in DOMAIN ch : e # d => dh[e] = ch[e] /\ SlotsOf(w, dh[e]) = SlotsOf(v, ch[e])
  BY <1>12, <1>13
<1>20. DOMAIN dh = DOMAIN ch
  BY <1>12
<1> QED
  BY <1>15, <1>16, <1>17, <1>18, <1>19, <1>20

\* The directories that remain when others, or their clusters, are given up.
LEMMA LessLaid ==
  ASSUME NEW v, NEW ch, Laid(v, ch), NEW D, D \subseteq DOMAIN ch,
         NEW w, w = [table |-> v.table, fat |-> w.fat], w.fat \in [Clusters -> Clusters \cup {0, Eoc}],
         \A d \in D : \A i \in 1 .. Len(ch[d]) : w.fat[ch[d][i]] = v.fat[ch[d][i]],
         NEW dh, dh = [d \in D |-> ch[d]]
  PROVE  /\ DOMAIN dh = D /\ Laid(w, dh)
         /\ \A d \in D : dh[d] = ch[d] /\ SlotsOf(w, dh[d]) = SlotsOf(v, ch[d])
<1>1. DOMAIN dh = D /\ \A d \in D : dh[d] = ch[d]
  OBVIOUS
<1>2. w.table = v.table /\ w = [table |-> w.table, fat |-> w.fat]
  OBVIOUS
<1>3. \A d \in D : IsChain(w, ch[d]) /\ ch[d][1] = d
  <2>1. \A d \in D : IsChain(v, ch[d]) /\ ch[d][1] = d
    BY DEF Laid
  <2> QED
    BY <2>1, SameChain
<1>4. \A d \in D : SlotsOf(w, ch[d]) = SlotsOf(v, ch[d])
  BY <1>2 DEF SlotsOf
<1>5. \A d, e \in D : d # e => \A i \in 1 .. Len(ch[d]), j \in 1 .. Len(ch[e]) : ch[d][i] # ch[e][j]
  BY DEF Laid
<1>6. w.table = [c \in Clusters |-> [j \in 1 .. PerCluster |-> w.table[c][j]]]
  BY <1>2 DEF Laid
<1>7. Laid(w, dh)
  BY <1>1, <1>2, <1>3, <1>5, <1>6 DEF Laid
<1> QED
  BY <1>1, <1>4, <1>7

-----------------------------------------------------------------------------
(* The slots of a directory and its entries.                               *)

\* The slots before p that are all of the long name n of the short name s.
FullRun(S, p, n, s) == p > Parts /\ \A i \in 1 .. Parts : S[p - i] = Lfn(n, i, s)

\* Slots 1 .. L of a directory: no used slot behind an unused one, only long names
\* in long slots, and a full run of long slots belongs to the short slot behind it
\* unless its registration was cut short.
Tidy(S, L, N) ==
  /\ \A p, q \in 1 .. L : p <= q /\ S[p].kind = "end" => S[q].kind = "end"
  /\ \A p \in 1 .. L : S[p].kind = "lfn" => S[p].name \in Long
  /\ \A p \in 1 .. L + 1, n \in Long : \A s :
       FullRun(S, p, n, s) => n \in N \/ (p <= L /\ S[p].kind = "sfn" /\ S[p].sfn = s)

\* The slot p has the entry e of the history, by both its names.
Holds(S, p, e) == S[p] = Sfn(e.sfn, e.obj) /\ (e.name \in Long => FullRun(S, p, e.name, e.sfn))

\* A look-up that stops at the slot p is right to find e there.
Tells(S, p, e, N) ==
  S[p] = Sfn(e.sfn, e.obj) /\ \A n \in Long : FullRun(S, p, n, e.sfn) => n = e.name \/ n \in N

LEMMA SlotKinds ==
  /\ \A n, i, s : Lfn(n, i, s).kind = "lfn" /\ Lfn(n, i, s).name = n
       /\ Lfn(n, i, s).ord = i /\ Lfn(n, i, s).sfn = s
  /\ \A s, o : Sfn(s, o).kind = "sfn" /\ Sfn(s, o).sfn = s /\ Sfn(s, o).obj = o
  /\ \A n, o : Dot(n, o).kind = "dot"
  /\ End.kind = "end" /\ Deleted.kind = "deleted"
BY DEF Lfn, Sfn, Dot, End, Deleted

LEMMA LongSlotOnce ==
  ASSUME NEW n, NEW i, NEW s, NEW m, NEW j, NEW t, Lfn(n, i, s) = Lfn(m, j, t)
  PROVE  n = m /\ i = j /\ s = t
BY DEF Lfn

\* dir_clear's slots behind the last cluster change nothing.
LEMMA LongerTidy ==
  ASSUME NEW S, NEW L \in Nat, NEW N, Tidy(S, L, N), NEW m \in Nat,
         NEW R, \A p \in 1 .. L : R[p] = S[p], \A p \in L + 1 .. L + m : R[p] = End
  PROVE  /\ Tidy(R, L + m, N)
         /\ \A p \in 1 .. L : \A e : Holds(S, p, e) => Holds(R, p, e)
         /\ \A p \in 1 .. L : \A e : Tells(S, p, e, N) => Tells(R, p, e, N)
<1>1. Parts \in Nat /\ Parts > 0
  BY DirParameters
<1>2. \A p \in L + 1 .. L + m : R[p].kind = "end"
  BY SlotKinds
<1>3. ASSUME NEW p \in 1 .. L + m + 1, NEW n, NEW s, FullRun(R, p, n, s)
      PROVE  p \in 1 .. L + 1 /\ FullRun(S, p, n, s)
  <2>1. p > Parts /\ \A i \in 1 .. Parts : R[p - i] = Lfn(n, i, s) /\ R[p - i].kind = "lfn"
    BY <1>3, SlotKinds DEF FullRun
  <2>2. \A i \in 1 .. Parts : p - i \in 1 .. L + m
    BY <1>1, <2>1
  <2>3. \A i \in 1 .. Parts : p - i \in 1 .. L
    <3>1. \A q \in 1 .. L + m : q \in 1 .. L \/ q \in L + 1 .. L + m
      OBVIOUS
    <3> QED
      BY <1>2, <2>1, <2>2, <3>1
  <2>4. p - 1 \in 1 .. L
    BY <1>1, <2>3
  <2> QED
    BY <2>1, <2>3, <2>4 DEF FullRun
<1>4. ASSUME NEW p \in 1 .. L, NEW n, NEW s, FullRun(S, p, n, s) PROVE FullRun(R, p, n, s)
  <2>1. p > Parts /\ \A i \in 1 .. Parts : p - i \in 1 .. L
    BY <1>1, <1>4 DEF FullRun
  <2> QED
    BY <1>4, <2>1 DEF FullRun
<1>5. Tidy(R, L + m, N)
  <2>0. \A p \in 1 .. L + m : p \in 1 .. L \/ p \in L + 1 .. L + m
    OBVIOUS
  <2>1. \A p, q \in 1 .. L + m : p <= q /\ R[p].kind = "end" => R[q].kind = "end"
    BY <1>2, <2>0 DEF Tidy
  <2>2. \A p \in 1 .. L + m : R[p].kind = "lfn" => R[p].name \in Long
    BY <1>2, <2>0 DEF Tidy
  <2>3. ASSUME NEW p \in 1 .. L + m + 1, NEW n \in Long, NEW s, FullRun(R, p, n, s)
        PROVE  n \in N \/ (p <= L + m /\ R[p].kind = "sfn" /\ R[p].sfn = s)
    <3>1. p \in 1 .. L + 1 /\ FullRun(S, p, n, s)
      BY <1>3, <2>3
    <3>2. n \in N \/ (p <= L /\ S[p].kind = "sfn" /\ S[p].sfn = s)
      BY <3>1 DEF Tidy
    <3> QED
      BY <3>1, <3>2
  <2> QED
    BY <2>1, <2>2, <2>3 DEF Tidy
<1>6. \A p \in 1 .. L : \A e : Holds(S, p, e) => Holds(R, p, e)
  BY <1>4 DEF Holds
<1>7. \A p \in 1 .. L : \A e : Tells(S, p, e, N) => Tells(R, p, e, N)
  <2>1. \A p \in 1 .. L : p \in 1 .. L + m + 1
    OBVIOUS
  <2> QED
    BY <1>3, <2>1 DEF Tells
<1> QED
  BY <1>5, <1>6, <1>7

\* dir_register writes the first k slots of an entry to unused ones.
Writes(S, L, N, name, sfn, obj, n, pos, k, R, M) ==
  /\ L \in Nat /\ Tidy(S, L, N)
  /\ Short \cap Long = {} /\ name \in Short \cup Long /\ sfn \notin Long
  /\ n = IF name \in Long THEN Parts + 1 ELSE 1
  /\ pos \in Nat /\ pos > 0 /\ pos + n - 1 <= L
  /\ \A p \in pos .. pos + n - 1 : Free(S[p])
  /\ \A p \in 1 .. pos - 1 : S[p].kind # "end"
  /\ k \in 0 .. n
  /\ \A p \in 1 .. L : R[p] = IF p \in pos .. pos + k - 1 THEN NewSlots(name, sfn, obj)[p - pos + 1] ELSE S[p]
  /\ N \subseteq M /\ (0 < k /\ k < n => name \in M)

LEMMA WrittenTidy ==
  ASSUME NEW S, NEW L, NEW N, NEW name, NEW sfn, NEW obj, NEW n, NEW pos, NEW k, NEW R, NEW M,
         Writes(S, L, N, name, sfn, obj, n, pos, k, R, M)
  PROVE  /\ Tidy(R, L, M)
         /\ \A p \in 1 .. L : \A e : Holds(S, p, e) => Holds(R, p, e)
         /\ \A p \in 1 .. L : \A e : Tells(S, p, e, N) => Tells(R, p, e, M)
         /\ k < n => \A p \in 1 .. L : R[p].kind = "sfn" <=> S[p].kind = "sfn"
         /\ k = n => \A p \in 1 .. L : R[p].kind = "sfn" <=> S[p].kind = "sfn" \/ p = pos + n - 1
         /\ S[pos + n - 1].kind # "sfn"
         /\ \A p \in 1 .. L : S[p].kind \in {"sfn", "dot"} => R[p] = S[p]
         /\ k = n => \A e : e.name = name /\ e.sfn = sfn /\ e.obj = obj =>
              Holds(R, pos + n - 1, e) /\ Tells(R, pos + n - 1, e, M)
<1> USE DEF Writes
<1> DEFINE z == pos + n - 1
<1>1. Parts \in Nat /\ Parts > 0 /\ n \in Nat /\ n > 0 /\ k \in Nat /\ z \in 1 .. L
  BY DirParameters
<1>2. \A p \in pos .. z : S[p].kind \in {"end", "deleted"}
  BY DEF Free
<1>3. \A i \in 1 .. n : NewSlots(name, sfn, obj)[i] = IF i = n THEN Sfn(sfn, obj) ELSE Lfn(name, Parts + 1 - i, sfn)
  <2>1. CASE name \in Long
    <3> DEFINE a == [i \in 1 .. Parts |-> Lfn(name, Parts + 1 - i, sfn)]
               V == {Lfn(name, Parts + 1 - i, sfn) : i \in 1 .. Parts} \cup {Sfn(sfn, obj)}
    <3>1. a \in Seq(V) /\ Len(a) = Parts /\ <<Sfn(sfn, obj)>> \in Seq(V)
      <4>0. Sfn(sfn, obj) \in V
        OBVIOUS
      <4>1. a \in [1 .. Parts -> V]
        OBVIOUS
      <4> HIDE DEF a, V
      <4>2. a \in Seq(V)
        BY <4>1, <1>1, SeqDef
      <4>3. Len(a) = Parts
        BY <4>1, <4>2, <1>1, LenProperties
      <4> QED
        BY <4>0, <4>2, <4>3
    <3>2. NewSlots(name, sfn, obj) = a \o <<Sfn(sfn, obj)>>
      BY <2>1 DEF NewSlots
    <3>3. \A i \in 1 .. Parts : a[i] = Lfn(name, Parts + 1 - i, sfn)
      OBVIOUS
    <3> HIDE DEF a, V
    <3>4. \A i \in 1 .. Parts + 1 : (a \o <<Sfn(sfn, obj)>>)[i]
            = IF i <= Parts THEN a[i] ELSE <<Sfn(sfn, obj)>>[i - Parts]
      BY <3>1, <1>1, ConcatProperties
    <3>5. n = Parts + 1
      BY <2>1
    <3>6. \A i \in 1 .. n : i = n \/ i \in 1 .. Parts
      BY <3>5, <1>1
    <3>7. \A i \in 1 .. Parts : NewSlots(name, sfn, obj)[i] = Lfn(name, Parts + 1 - i, sfn) /\ i # n
      <4>1. \A i \in 1 .. Parts : i \in 1 .. Parts + 1 /\ i <= Parts /\ i # n
        BY <3>5, <1>1
      <4> QED
        BY <3>2, <3>3, <3>4, <4>1
    <3>8. NewSlots(name, sfn, obj)[n] = Sfn(sfn, obj)
      <4>1. n \in 1 .. Parts + 1 /\ ~(n <= Parts) /\ n - Parts = 1
        BY <3>5, <1>1
      <4>2. (a \o <<Sfn(sfn, obj)>>)[n] = <<Sfn(sfn, obj)>>[1]
        BY <3>4, <4>1
      <4> QED
        BY <3>2, <4>2
    <3> QED
      BY <3>6, <3>7, <3>8
  <2>2. CASE name \notin Long
    <3>1. NewSlots(name, sfn, obj) = <<>> \o <<Sfn(sfn, obj)>>
      BY <2>2 DEF NewSlots
    <3> QED
      BY <2>2, <3>1
  <2> QED
    BY <2>1, <2>2
<1>4. /\ \A p \in pos .. pos + k - 1 : R[p] = IF p = z THEN Sfn(sfn, obj) ELSE Lfn(name, Parts + 1 - (p - pos + 1), sfn)
      /\ \A p \in 1 .. L : p \notin pos .. pos + k - 1 => R[p] = S[p]
  <2>1. \A p \in pos .. pos + k - 1 : p \in 1 .. L /\ p - pos + 1 \in 1 .. n /\ (p - pos + 1 = n <=> p = z)
    BY <1>1
  <2> QED
    BY <1>3, <2>1
<1>5. \A p \in pos .. pos + k - 1 : p # z => R[p].kind = "lfn" /\ R[p].name = name /\ name \in Long /\ n = Parts + 1
  <2>1. \A p \in pos .. pos + k - 1 : p # z => n # 1
    BY <1>1
  <2> QED
    BY <1>4, <2>1, SlotKinds
\* A full run is an old one or the new entry's.
<1>6. ASSUME NEW p \in 1 .. L + 1, NEW x \in Long, NEW s, FullRun(R, p, x, s)
      PROVE  \/ FullRun(S, p, x, s)
             \/ x = name /\ 0 < k /\ k < n
             \/ x = name /\ k = n /\ p = z /\ s = sfn
  <2>1. p > Parts /\ \A i \in 1 .. Parts : R[p - i] = Lfn(x, i, s) /\ p - i \in 1 .. L
    BY <1>1, <1>6 DEF FullRun
  <2>2. CASE \A i \in 1 .. Parts : p - i \notin pos .. pos + k - 1
    BY <1>4, <2>1, <2>2 DEF FullRun
  <2>3. ASSUME NEW i \in 1 .. Parts, p - i \in pos .. pos + k - 1
        PROVE  x = name /\ 0 < k /\ (k = n => p = z /\ s = sfn)
    <3>1. R[p - i] = Lfn(x, i, s) /\ R[p - i].kind = "lfn"
      BY <2>1, SlotKinds
    <3>2. p - i # z
      BY <1>4, <2>3, <3>1, SlotKinds
    <3>3. R[p - i] = Lfn(name, Parts + 1 - (p - i - pos + 1), sfn) /\ n = Parts + 1
      BY <1>4, <1>5, <2>3, <3>2
    <3>4. x = name /\ i = Parts + 1 - (p - i - pos + 1) /\ s = sfn
      <4>1. Lfn(x, i, s) = Lfn(name, Parts + 1 - (p - i - pos + 1), sfn)
        BY <3>1, <3>3
      <4> QED
        BY <4>1, LongSlotOnce
    <3>5. k = n => p = z
      BY <3>3, <3>4, <1>1, <2>3
    <3>6. 0 < k
      BY <1>1, <2>3
    <3> QED
      BY <3>4, <3>5, <3>6
  <2>4. k < n \/ k = n
    BY <1>1
  <2> QED
    BY <2>2, <2>3, <2>4
<1>7. ASSUME NEW p \in 1 .. L, NEW x, NEW s, FullRun(S, p, x, s) PROVE FullRun(R, p, x, s)
  <2>1. p > Parts /\ \A i \in 1 .. Parts : p - i \in 1 .. L /\ S[p - i].kind = "lfn"
    <3>1. p > Parts /\ \A i \in 1 .. Parts : S[p - i] = Lfn(x, i, s)
      BY <1>7 DEF FullRun
    <3>2. \A i \in 1 .. Parts : p - i \in 1 .. L
      BY <1>1, <3>1
    <3> QED
      BY <3>1, <3>2, SlotKinds
  <2>2. \A i \in 1 .. Parts : p - i \notin pos .. z
    BY <1>2, <2>1
  <2>3. \A i \in 1 .. Parts : p - i \notin pos .. pos + k - 1
    BY <1>1, <2>2
  <2> QED
    BY <1>4, <1>7, <2>1, <2>3 DEF FullRun
<1>8. \A p \in 1 .. L : S[p].kind \in {"sfn", "dot", "lfn"} => p \notin pos .. z /\ R[p] = S[p]
  <2>1. \A p \in 1 .. L : p \notin pos .. z => p \notin pos .. pos + k - 1
    BY <1>1
  <2> QED
    BY <1>2, <1>4, <2>1
<1>9. /\ k < n => \A p \in 1 .. L : R[p].kind = "sfn" <=> S[p].kind = "sfn"
      /\ k = n => \A p \in 1 .. L : R[p].kind = "sfn" <=> S[p].kind = "sfn" \/ p = z
  <2>1. \A p \in 1 .. L : S[p].kind = "sfn" => R[p].kind = "sfn"
    BY <1>8
  <2>2. \A p \in 1 .. L : R[p].kind = "sfn" => S[p].kind = "sfn" \/ (p = z /\ p \in pos .. pos + k - 1)
    BY <1>4, <1>5
  <2>3. k < n => z \notin pos .. pos + k - 1
    BY <1>1
  <2>4. k = n => z \in pos .. pos + k - 1 /\ R[z].kind = "sfn"
    BY <1>1, <1>4, SlotKinds
  <2> QED
    BY <2>1, <2>2, <2>3, <2>4
<1>10. Tidy(R, L, M)
  <2>1. \A p, q \in 1 .. L : p <= q /\ R[p].kind = "end" => R[q].kind = "end"
    <3> SUFFICES ASSUME NEW p \in 1 .. L, NEW q \in 1 .. L, p <= q, R[p].kind = "end" PROVE R[q].kind = "end"
      OBVIOUS
    <3>1. p \notin pos .. pos + k - 1
      BY <1>4, <1>5, SlotKinds
    <3>2. R[p] = S[p] /\ S[p].kind = "end"
      BY <1>4, <3>1
    <3>3. ~(p < pos)
      BY <3>2
    <3>4. q \notin pos .. pos + k - 1
      BY <3>1, <3>3
    <3> QED
      BY <1>4, <3>2, <3>4 DEF Tidy
  <2>2. \A p \in 1 .. L : R[p].kind = "lfn" => R[p].name \in Long
    <3>1. \A p \in pos .. pos + k - 1 : R[p].kind = "lfn" => R[p].name \in Long
      BY <1>4, <1>5, SlotKinds
    <3>2. \A p \in 1 .. L : S[p].kind = "lfn" => S[p].name \in Long
      BY DEF Tidy
    <3> QED
      BY <1>4, <3>1, <3>2
  <2>3. ASSUME NEW p \in 1 .. L + 1, NEW x \in Long, NEW s, FullRun(R, p, x, s)
        PROVE  x \in M \/ (p <= L /\ R[p].kind = "sfn" /\ R[p].sfn = s)
    <3>1. CASE FullRun(S, p, x, s)
      <4>1. x \in N \/ (p <= L /\ S[p].kind = "sfn" /\ S[p].sfn = s)
        BY <3>1 DEF Tidy
      <4> QED
        BY <4>1, <1>8
    <3>2. CASE x = name /\ k = n /\ p = z /\ s = sfn
      <4>1. z \in pos .. pos + k - 1 /\ z <= L
        BY <3>2, <1>1
      <4> QED
        BY <3>2, <4>1, <1>4, SlotKinds
    <3> QED
      BY <2>3, <1>6, <3>1, <3>2
  <2> QED
    BY <2>1, <2>2, <2>3 DEF Tidy
<1>11. \A p \in 1 .. L : \A e : Holds(S, p, e) => Holds(R, p, e)
  <2> SUFFICES ASSUME NEW p \in 1 .. L, NEW e, Holds(S, p, e) PROVE Holds(R, p, e)
    OBVIOUS
  <2>1. R[p] = S[p]
    BY <1>8, SlotKinds DEF Holds
  <2> QED
    BY <2>1, <1>7 DEF Holds
<1>12. \A p \in 1 .. L : \A e : Tells(S, p, e, N) => Tells(R, p, e, M)
  <2> SUFFICES ASSUME NEW p \in 1 .. L, NEW e, Tells(S, p, e, N) PROVE Tells(R, p, e, M)
    OBVIOUS
  <2>1. R[p] = S[p] /\ p # z /\ p \in 1 .. L + 1
    <3>1. S[p].kind = "sfn"
      BY SlotKinds DEF Tells
    <3>2. p \notin pos .. z
      BY <3>1, <1>8
    <3>3. z \in pos .. z
      BY <1>1
    <3> QED
      BY <3>1, <3>2, <3>3, <1>8
  <2>2. \A x \in Long : FullRun(R, p, x, e.sfn) => x = e.name \/ x \in M
    BY <2>1, <1>6 DEF Tells
  <2> QED
    BY <2>1, <2>2 DEF Tells
<1>13. ASSUME k = n, NEW e, e.name = name, e.sfn = sfn, e.obj = obj
       PROVE  Holds(R, z, e) /\ Tells(R, z, e, M)
  <2>1. R[z] = Sfn(sfn, obj)
    BY <1>1, <1>4, <1>13
  <2>2. ASSUME name \in Long PROVE FullRun(R, z, name, sfn)
    <3>1. z = pos + Parts /\ k = Parts + 1
      BY <1>13, <2>2, <1>1
    <3>2. \A i \in 1 .. Parts : z - i \in pos .. pos + k - 1 /\ z - i # z /\ Parts + 1 - (z - i - pos + 1) = i
      BY <1>1, <3>1
    <3>3. z > Parts
      BY <1>1, <3>1
    <3> HIDE DEF z
    <3> QED
      BY <1>4, <3>2, <3>3 DEF FullRun
  <2>3. ASSUME NEW x \in Long, FullRun(R, z, x, sfn) PROVE x = name \/ x \in M
    <3>1. CASE FullRun(S, z, x, sfn)
      <4>1. z \in pos .. z /\ z \in 1 .. L + 1
        BY <1>1
      <4>2. S[z].kind # "sfn"
        BY <4>1, <1>2
      <4> QED
        BY <3>1, <4>1, <4>2 DEF Tidy
    <3> QED
      BY <2>3, <3>1, <1>1, <1>6
  <2> QED
    BY <2>1, <2>2, <2>3, <1>13 DEF Holds, Tells
<1>14. S[z].kind # "sfn"
  BY <1>1, <1>2
<1> QED
  BY <1>8, <1>9, <1>10, <1>11, <1>12, <1>13, <1>14

LEMMA GreatestNat ==
  ASSUME NEW m \in Nat, NEW S, S \subseteq 0 .. m, S # {}
  PROVE  \E i \in S : \A j \in S : j <= i
<1> DEFINE T == {x \in Nat : m - x \in S}
<1>1. T \subseteq Nat
  OBVIOUS
<1>2. T # {}
  <2>1. PICK y \in S : TRUE
    OBVIOUS
  <2>2. m - y \in Nat /\ m - (m - y) = y
    BY <2>1
  <2>3. m - y \in T
    BY <2>2
  <2> QED
    BY <2>3
<1> HIDE DEF T
<1>3. PICK i \in T : \A j \in T : i <= j
  BY <1>1, <1>2, LeastNat
<1>4. m - i \in S /\ i \in Nat
  BY DEF T
<1>5. ASSUME NEW j \in S PROVE j <= m - i
  <2>1. m - j \in Nat /\ m - (m - j) = j
    BY <1>5
  <2>2. m - j \in T
    BY <2>1 DEF T
  <2> QED
    BY <1>3, <1>4, <2>2
<1> QED
  BY <1>4, <1>5

\* The slots dir_remove marks are the entry's own: long slots up to the short one.
LEMMA TopFacts ==
  ASSUME NEW S, NEW p \in Nat, p > 0
  PROVE  /\ Top(S, p) \in 1 .. p
         /\ \A q \in Top(S, p) .. p - 1 : S[q].kind = "lfn"
         /\ \A n, s : FullRun(S, p, n, s) => Top(S, p) = p - Parts
<1> DEFINE starts == {q \in 1 .. p - 1 : S[q].kind = "lfn" /\ S[q].ord = Parts /\ \A r \in q .. p - 1 : S[r].kind = "lfn"}
           top == Top(S, p)
<1>1. top = IF starts = {} THEN p ELSE CHOOSE q \in starts : \A r \in starts : r <= q
  BY DEF Top
<1>2. starts # {} => top \in starts /\ \A r \in starts : r <= top
  <2> SUFFICES ASSUME starts # {} PROVE top \in starts /\ \A r \in starts : r <= top
    OBVIOUS
  <2>1. starts \subseteq 0 .. p
    OBVIOUS
  <2> HIDE DEF starts
  <2>2. \E q \in starts : \A r \in starts : r <= q
    BY <2>1, GreatestNat
  <2> QED
    BY <1>1, <2>2
<1>3. top \in 1 .. p /\ \A q \in top .. p - 1 : S[q].kind = "lfn"
  BY <1>1, <1>2
<1>4. ASSUME NEW n, NEW s, FullRun(S, p, n, s) PROVE top = p - Parts
  <2>1. /\ Parts \in Nat /\ Parts > 0 /\ p > Parts
        /\ \A i \in 1 .. Parts : S[p - i].kind = "lfn" /\ S[p - i].ord = i
    BY <1>4, DirParameters, SlotKinds DEF FullRun
  <2>2. \A r \in p - Parts .. p - 1 : p - r \in 1 .. Parts /\ p - (p - r) = r
    BY <2>1
  <2>3. \A r \in p - Parts .. p - 1 : S[r].kind = "lfn" /\ S[r].ord = p - r
    BY <2>1, <2>2
  <2>4. p - Parts \in 1 .. p - 1 /\ p - Parts \in p - Parts .. p - 1 /\ p - (p - Parts) = Parts
    BY <2>1
  <2>5. p - Parts \in starts
    BY <2>3, <2>4
  <2>6. top \in starts /\ p - Parts <= top
    BY <1>2, <2>5
  <2>7. top \in p - Parts .. p - 1 /\ S[top].ord = Parts
    BY <2>1, <2>6
  <2>8. p - top = Parts
    BY <2>3, <2>7
  <2> QED
    BY <2>1, <2>7, <2>8
<1> QED
  BY <1>3, <1>4

\* dir_remove marks the first k slots of the entry at p.
LEMMA RemovedTidy ==
  ASSUME NEW S, NEW L \in Nat, NEW N, Tidy(S, L, N),
         NEW p \in 1 .. L, S[p].kind = "sfn", NEW top, top = Top(S, p),
         NEW k \in 1 .. p - top + 1,
         NEW R, \A q \in 1 .. L : R[q] = IF q \in top .. top + k - 1 THEN Deleted ELSE S[q]
  PROVE  /\ Tidy(R, L, N)
         /\ \A q \in 1 .. L : q # p => \A e : Holds(S, q, e) => Holds(R, q, e)
         /\ \A q \in 1 .. L : q # p => \A e : Tells(S, q, e, N) => Tells(R, q, e, N)
         /\ \A q \in 1 .. L : q # p /\ S[q].kind \in {"sfn", "dot"} => R[q] = S[q]
         /\ \A q \in 1 .. L : q # p /\ R[q].kind = "sfn" => S[q].kind = "sfn"
         /\ k = p - top + 1 => R[p].kind # "sfn"
         /\ k < p - top + 1 =>
              /\ R[p] = S[p]
              /\ \A e : S[p] = Sfn(e.sfn, e.obj) =>
                   Tells(R, p, e, N) /\ (e.name \notin Long => Holds(R, p, e))
<1>1. /\ Parts \in Nat /\ Parts > 0 /\ p \in Nat /\ p > 0
      /\ top \in 1 .. p /\ \A q \in top .. p - 1 : S[q].kind = "lfn"
      /\ \A n, s : FullRun(S, p, n, s) => top = p - Parts
  BY DirParameters, TopFacts
<1>2. \A q \in top .. top + k - 1 : q \in 1 .. L /\ q <= p /\ R[q].kind = "deleted"
  BY <1>1, SlotKinds
<1>3. \A q \in 1 .. L : q \notin top .. top + k - 1 => R[q] = S[q]
  OBVIOUS
<1>4. \A q \in 1 .. L : q # p /\ S[q].kind \in {"sfn", "dot"} => R[q] = S[q]
  <2>1. \A q \in top .. top + k - 1 : q # p => q \in top .. p - 1
    BY <1>1
  <2> QED
    BY <1>1, <1>3, <2>1
\* A run that is left was there, and is not the entry's.
<1>5. ASSUME NEW q \in 1 .. L + 1, NEW n, NEW s, FullRun(R, q, n, s)
      PROVE  FullRun(S, q, n, s) /\ q # p
  <2>1. q > Parts /\ \A i \in 1 .. Parts : R[q - i] = Lfn(n, i, s)
    BY <1>5 DEF FullRun
  <2>2. \A i \in 1 .. Parts : q - i \in 1 .. L
    BY <1>1, <2>1
  <2>3. \A i \in 1 .. Parts : q - i \notin top .. top + k - 1
    <3>1. \A i \in 1 .. Parts : R[q - i].kind = "lfn"
      BY <2>1, SlotKinds
    <3> QED
      BY <1>2, <3>1
  <2>4. FullRun(S, q, n, s)
    BY <2>1, <2>2, <2>3, <1>3 DEF FullRun
  <2>5. ASSUME q = p PROVE FALSE
    <3>1. top = p - Parts
      BY <1>1, <2>4, <2>5
    <3>2. Parts \in 1 .. Parts /\ q - Parts = top /\ top \in top .. top + k - 1
      BY <1>1, <2>5, <3>1
    <3> QED
      BY <2>3, <3>2
  <2> QED
    BY <2>4, <2>5
\* The run of another entry is left alone.
<1>6. ASSUME NEW q \in 1 .. L, q # p, S[q].kind = "sfn", NEW n, NEW s, FullRun(S, q, n, s)
      PROVE  FullRun(R, q, n, s)
  <2>1. q > Parts /\ \A i \in 1 .. Parts : S[q - i] = Lfn(n, i, s)
    BY <1>6 DEF FullRun
  <2>2. \A i \in 1 .. Parts : q - i \in 1 .. L /\ S[q - i].kind = "lfn"
    <3>1. \A i \in 1 .. Parts : q - i \in 1 .. L
      BY <1>1, <2>1
    <3> QED
      BY <2>1, <3>1, SlotKinds
  <2>3. ASSUME NEW i \in 1 .. Parts, q - i \in top .. top + k - 1 PROVE FALSE
    <3>1. q - i # p /\ q - i < q /\ q - i <= p
      BY <1>1, <1>2, <1>6, <2>2, <2>3
    <3>2. CASE q < p
      <4>1. q \in top .. p - 1
        BY <1>1, <2>3, <3>1, <3>2
      <4> QED
        BY <1>1, <1>6, <4>1
    <3>3. CASE q > p
      <4>1. q - p \in 1 .. Parts /\ q - (q - p) = p
        BY <3>1, <3>3, <1>1
      <4>2. S[p].kind = "lfn"
        BY <2>2, <4>1
      <4> QED
        BY <4>2
    <3> QED
      BY <1>6, <3>2, <3>3
  <2> QED
    BY <1>3, <2>1, <2>2, <2>3 DEF FullRun
<1>7. Tidy(R, L, N)
  <2>1. \A x, y \in 1 .. L : x <= y /\ R[x].kind = "end" => R[y].kind = "end"
    <3> SUFFICES ASSUME NEW x \in 1 .. L, NEW y \in 1 .. L, x <= y, R[x].kind = "end" PROVE R[y].kind = "end"
      OBVIOUS
    <3>1. R[x] = S[x]
      BY <1>2, <1>3
    <3>2. S[p].kind # "end" /\ ~(x <= p)
      BY <3>1 DEF Tidy
    <3>3. y \notin top .. top + k - 1
      BY <1>2, <3>2
    <3> QED
      BY <1>3, <3>1, <3>3 DEF Tidy
  <2>2. \A x \in 1 .. L : R[x].kind = "lfn" => R[x].name \in Long
    <3>1. \A x \in 1 .. L : S[x].kind = "lfn" => S[x].name \in Long
      BY DEF Tidy
    <3> QED
      BY <1>2, <1>3, <3>1
  <2>3. ASSUME NEW q \in 1 .. L + 1, NEW n \in Long, NEW s, FullRun(R, q, n, s)
        PROVE  n \in N \/ (q <= L /\ R[q].kind = "sfn" /\ R[q].sfn = s)
    <3>1. FullRun(S, q, n, s) /\ q # p
      BY <1>5, <2>3
    <3>2. n \in N \/ (q <= L /\ S[q].kind = "sfn" /\ S[q].sfn = s)
      BY <3>1 DEF Tidy
    <3> QED
      BY <1>4, <3>1, <3>2
  <2> QED
    BY <2>1, <2>2, <2>3 DEF Tidy
<1>8. \A q \in 1 .. L : q # p => \A e : Holds(S, q, e) => Holds(R, q, e)
  <2> SUFFICES ASSUME NEW q \in 1 .. L, q # p, NEW e, Holds(S, q, e) PROVE Holds(R, q, e)
    OBVIOUS
  <2>1. S[q].kind = "sfn"
    BY SlotKinds DEF Holds
  <2> QED
    BY <1>4, <1>6, <2>1 DEF Holds
<1>9. \A q \in 1 .. L : q # p => \A e : Tells(S, q, e, N) => Tells(R, q, e, N)
  <2> SUFFICES ASSUME NEW q \in 1 .. L, q # p, NEW e, Tells(S, q, e, N) PROVE Tells(R, q, e, N)
    OBVIOUS
  <2>1. S[q].kind = "sfn" /\ q \in 1 .. L + 1
    BY SlotKinds DEF Tells
  <2> QED
    BY <1>4, <1>5, <2>1 DEF Tells
<1>10. ASSUME k < p - top + 1
       PROVE  /\ R[p] = S[p]
              /\ \A e : S[p] = Sfn(e.sfn, e.obj) =>
                   Tells(R, p, e, N) /\ (e.name \notin Long => Holds(R, p, e))
  <2>1. R[p] = S[p]
    <3>1. p \notin top .. top + k - 1
      BY <1>1, <1>10
    <3> QED
      BY <1>3, <3>1
  <2>2. p \in 1 .. L + 1
    OBVIOUS
  <2> QED
    BY <2>1, <2>2, <1>5 DEF Tells, Holds
<1>11. k = p - top + 1 => R[p].kind # "sfn"
  <2>1. k = p - top + 1 => p \in top .. top + k - 1
    BY <1>1
  <2> QED
    BY <1>2, <2>1
<1>12. \A q \in 1 .. L : q # p /\ R[q].kind = "sfn" => S[q].kind = "sfn"
  BY <1>2, <1>3
<1> QED
  BY <1>4, <1>7, <1>8, <1>9, <1>10, <1>11, <1>12

\* A new dot entry in the place of an old one.
LEMMA DotTidy ==
  ASSUME NEW S, NEW L \in Nat, NEW N, Tidy(S, L, N), NEW z \in 1 .. L, S[z].kind = "dot",
         NEW R, \A q \in 1 .. L : q # z => R[q] = S[q], R[z].kind = "dot"
  PROVE  /\ Tidy(R, L, N)
         /\ \A q \in 1 .. L : \A e : Holds(S, q, e) => Holds(R, q, e)
         /\ \A q \in 1 .. L : \A e : Tells(S, q, e, N) => Tells(R, q, e, N)
<1>1. ASSUME NEW q \in 1 .. L + 1, NEW n, NEW s PROVE FullRun(R, q, n, s) <=> FullRun(S, q, n, s)
  <2>1. Parts \in Nat /\ Parts > 0
    BY DirParameters
  <2>2. q > Parts => \A i \in 1 .. Parts : q - i \in 1 .. L
    BY <2>1
  <2>3. \A i : R[z] # Lfn(n, i, s) /\ S[z] # Lfn(n, i, s)
    BY SlotKinds
  <2> QED
    BY <2>2, <2>3 DEF FullRun
<1>2. \A x, y \in 1 .. L : x <= y /\ R[x].kind = "end" => R[y].kind = "end"
  BY DEF Tidy
<1>3. \A x \in 1 .. L : R[x].kind = "lfn" => R[x].name \in Long
  BY DEF Tidy
<1>4. ASSUME NEW q \in 1 .. L + 1, NEW n \in Long, NEW s, FullRun(R, q, n, s)
      PROVE  n \in N \/ (q <= L /\ R[q].kind = "sfn" /\ R[q].sfn = s)
  <2>1. n \in N \/ (q <= L /\ S[q].kind = "sfn" /\ S[q].sfn = s)
    BY <1>1, <1>4 DEF Tidy
  <2> QED
    BY <2>1
<1>5. \A q \in 1 .. L : \A e : (Holds(S, q, e) => Holds(R, q, e)) /\ (Tells(S, q, e, N) => Tells(R, q, e, N))
  <2> SUFFICES ASSUME NEW q \in 1 .. L, NEW e, S[q] = Sfn(e.sfn, e.obj)
               PROVE  R[q] = S[q] /\ \A n : FullRun(R, q, n, e.sfn) <=> FullRun(S, q, n, e.sfn)
    BY DEF Holds, Tells
  <2>1. R[q] = S[q] /\ q \in 1 .. L + 1
    BY SlotKinds
  <2> QED
    BY <1>1, <2>1
<1> QED
  BY <1>2, <1>3, <1>4, <1>5 DEF Tidy

-----------------------------------------------------------------------------
(* Volumes and the history of their entries.                               *)

Size(ch, d) == Len(ch[d]) * PerCluster

\* The names of d whose registration was cut short.
StubsOf(N, d) == {n \in Short \cup Long : <<d, n>> \in N}

\* The slots of a directory.
Table(v, ch, d) == SlotsOf(v, ch[d])

\* The short slot x stands at the place p of d.
Stands(v, ch, d, p, x) == d \in DOMAIN ch /\ p \in 1 .. Size(ch, d) /\ Table(v, ch, d)[p] = x /\ x.kind = "sfn"

\* What an entry of the history looks like.
IsEntry(e) ==
  /\ e = [dir |-> e.dir, name |-> e.name, sfn |-> e.sfn, obj |-> e.obj]
  /\ e.name \in Long \/ e.name = e.sfn
  /\ e.sfn \notin Long

\* The entries T of the history are those of the directories of DOMAIN ch.
Good(v, ch, T, N) ==
  /\ Laid(v, ch)
  /\ \A d \in DOMAIN ch :
       /\ Tidy(Table(v, ch, d), Size(ch, d), StubsOf(N, d))
       /\ d # Root => Table(v, ch, d)[1].kind = "dot" /\ Table(v, ch, d)[2].kind = "dot"
       /\ \A p \in 1 .. Size(ch, d) : Table(v, ch, d)[p].kind = "sfn" =>
            \E e \in T : e.dir = d /\ Tells(Table(v, ch, d), p, e, StubsOf(N, d))
  /\ \A e \in T :
       /\ IsEntry(e) /\ e.dir \in DOMAIN ch
       /\ \E p \in 1 .. Size(ch, e.dir) : Holds(Table(v, ch, e.dir), p, e)

LEMMA SlotsLength ==
  ASSUME NEW v, NEW s, Len(s) * PerCluster \in Nat
  PROVE  Len(SlotsOf(v, s)) = Len(s) * PerCluster
<1> DEFINE L == Len(s) * PerCluster
           x(p) == v.table[s[ClusterOf(p)]][PlaceOf(p)]
           f == [p \in 1 .. L |-> x(p)]
           V == {x(p) : p \in 1 .. L}
<1> HIDE DEF L, x
<1>1. L \in Nat
  BY DEF L
<1>2. f \in [1 .. L -> V]
  OBVIOUS
<1> HIDE DEF f, V
<1>3. f \in Seq(V)
  BY <1>1, <1>2, SeqDef
<1>4. Len(f) = L
  BY <1>1, <1>2, <1>3, LenProperties
<1> QED
  BY <1>4 DEF f, SlotsOf, L, x

LEMMA GoodTable ==
  ASSUME NEW v, NEW ch, NEW T, NEW N, Good(v, ch, T, N), NEW d \in DOMAIN ch
  PROVE  /\ DirSlots(v, d) = Table(v, ch, d) /\ Len(Table(v, ch, d)) = Size(ch, d)
         /\ Chain(v, d) = ch[d]
         /\ Size(ch, d) \in Nat /\ Size(ch, d) >= PerCluster /\ Len(ch[d]) \in Nat /\ Len(ch[d]) > 0
         /\ d \in Clusters
         /\ Tidy(Table(v, ch, d), Size(ch, d), StubsOf(N, d))
<1>1. Laid(v, ch)
  BY DEF Good
<1>2. /\ Chain(v, d) = ch[d] /\ DirSlots(v, d) = SlotsOf(v, ch[d])
      /\ d \in Clusters /\ Len(ch[d]) \in Nat /\ Len(ch[d]) > 0 /\ Len(ch[d]) * PerCluster \in Nat
  BY <1>1, LaidSlots
<1>3. Len(SlotsOf(v, ch[d])) = Len(ch[d]) * PerCluster
  BY <1>2, SlotsLength
<1>4. Len(ch[d]) * PerCluster >= PerCluster
  <2>1. PerCluster \in Nat /\ 1 <= Len(ch[d]) /\ PerCluster * 1 = PerCluster /\ PerCluster * Len(ch[d]) = Len(ch[d]) * PerCluster
    BY <1>2, DirParameters
  <2> QED
    BY <2>1, <1>2, Larger
<1>5. Tidy(Table(v, ch, d), Size(ch, d), StubsOf(N, d))
  BY DEF Good
<1> QED
  BY <1>2, <1>3, <1>4, <1>5 DEF Table, Size

\* dir_read finds every short slot.
LEMMA AllReached ==
  ASSUME NEW v, NEW ch, NEW T, NEW N, Good(v, ch, T, N), NEW d \in DOMAIN ch
  PROVE  /\ \A p \in 1 .. Size(ch, d) : Table(v, ch, d)[p].kind = "sfn" => p \in Reached(Table(v, ch, d))
         /\ \A p \in Reached(Table(v, ch, d)) : p \in 1 .. Size(ch, d)
         /\ Entries(DirSlots(v, d)) = {p \in 1 .. Size(ch, d) : Table(v, ch, d)[p].kind = "sfn"}
<1> DEFINE S == Table(v, ch, d)
           L == Size(ch, d)
<1>1. /\ DirSlots(v, d) = S /\ Len(S) = L /\ L \in Nat /\ Tidy(S, L, StubsOf(N, d))
  BY GoodTable
<1> HIDE DEF S, L
<1>2. Reached(S) = {p \in 1 .. L : \A q \in 1 .. p : S[q].kind # "end"}
  BY <1>1 DEF Reached
<1>3. ASSUME NEW p \in 1 .. L, S[p].kind = "sfn" PROVE p \in Reached(S)
  <2>1. ASSUME NEW q \in 1 .. p PROVE S[q].kind # "end"
    <3>1. q \in 1 .. L /\ q <= p
      BY <1>1
    <3> QED
      BY <1>1, <1>3, <3>1 DEF Tidy
  <2> QED
    BY <1>2, <2>1
<1>4. Entries(S) = {p \in 1 .. L : S[p].kind = "sfn"}
  BY <1>2, <1>3 DEF Entries
<1> QED
  BY <1>1, <1>2, <1>3, <1>4 DEF S, L

\* dir_find: the least short slot whose names match.
LEMMA FindFacts ==
  ASSUME NEW v, NEW ch, NEW T, NEW N, Good(v, ch, T, N), NEW d \in DOMAIN ch, NEW name,
         NEW p, p = Find(v, d, name)
  PROVE  /\ p \in 0 .. Size(ch, d)
         /\ p # 0 => /\ Stands(v, ch, d, p, Table(v, ch, d)[p])
                     /\ \/ FullRun(Table(v, ch, d), p, name, Table(v, ch, d)[p].sfn)
                        \/ name \in Short /\ Table(v, ch, d)[p].sfn = name
         /\ p = 0 => \A q \in 1 .. Size(ch, d) : Table(v, ch, d)[q].kind = "sfn" =>
                     /\ ~FullRun(Table(v, ch, d), q, name, Table(v, ch, d)[q].sfn)
                     /\ ~(name \in Short /\ Table(v, ch, d)[q].sfn = name)
<1> DEFINE S == Table(v, ch, d)
           L == Size(ch, d)
           found == {q \in Reached(S) : Matches(S, q, name)}
<1>1. DirSlots(v, d) = S /\ L \in Nat
  BY GoodTable
<1>2. p = IF found = {} THEN 0 ELSE Least(found)
  BY <1>1 DEF Find
<1>3. \A q : Matches(S, q, name) <=>
        S[q].kind = "sfn" /\ (FullRun(S, q, name, S[q].sfn) \/ (name \in Short /\ S[q].sfn = name))
  BY DEF Matches, LongMatch, FullRun
<1>4. found \subseteq 1 .. L
  BY AllReached
<1>5. \A q \in 1 .. L : S[q].kind = "sfn" => q \in Reached(S)
  BY AllReached
<1>6. found # {} => Least(found) \in found
  <2> HIDE DEF found, S, L
  <2> SUFFICES ASSUME found # {} PROVE Least(found) \in found
    OBVIOUS
  <2>0. found \subseteq Nat
    BY <1>1, <1>4
  <2>1. \E i \in found : \A j \in found : i <= j
    BY <2>0, LeastNat
  <2> QED
    BY <2>1 DEF Least
<1>7. p # 0 => p \in found
  BY <1>2, <1>6
<1>8. p = 0 => found = {}
  <2> HIDE DEF found, S, L
  <2> QED
    BY <1>1, <1>2, <1>4, <1>6
<1> HIDE DEF S, L
<1>9. p \in 0 .. L
  BY <1>1, <1>4, <1>7
<1>10. p # 0 => p \in 1 .. L /\ S[p].kind = "sfn" /\ (FullRun(S, p, name, S[p].sfn) \/ (name \in Short /\ S[p].sfn = name))
  BY <1>3, <1>4, <1>7
<1>11. p = 0 => \A q \in 1 .. L : S[q].kind = "sfn" => ~FullRun(S, q, name, S[q].sfn) /\ ~(name \in Short /\ S[q].sfn = name)
  BY <1>3, <1>5, <1>8
<1> QED
  BY <1>9, <1>10, <1>11 DEF S, L, Stands

-----------------------------------------------------------------------------
(* What dir_alloc and dir_register do to a volume.                         *)

\* A stretched directory has the slots it had, and clear ones.
LEMMA StretchGood ==
  ASSUME NEW v, NEW ch, NEW T, NEW N, Good(v, ch, T, N), NEW d \in DOMAIN ch, Unused(v) # {},
         NEW w, w = Stretch(v, d)
  PROVE  \E dh :
           /\ DOMAIN dh = DOMAIN ch /\ Good(w, dh, T, N)
           /\ Size(dh, d) = Size(ch, d) + PerCluster
           /\ \A p \in 1 .. Size(ch, d) : Table(w, dh, d)[p] = Table(v, ch, d)[p]
           /\ \A p \in Size(ch, d) + 1 .. Size(ch, d) + PerCluster : Table(w, dh, d)[p] = End
           /\ \A e, p, x : Stands(w, dh, e, p, x) <=> Stands(v, ch, e, p, x)
<1> DEFINE L == Size(ch, d)
           S == Table(v, ch, d)
<1>1. Laid(v, ch)
  BY DEF Good
<1>2. PICK dh :
        /\ DOMAIN dh = DOMAIN ch /\ Laid(w, dh) /\ Len(dh[d]) = Len(ch[d]) + 1
        /\ SlotsOf(w, dh[d]) = [p \in 1 .. Len(ch[d]) * PerCluster + PerCluster |->
             IF p <= Len(ch[d]) * PerCluster THEN SlotsOf(v, ch[d])[p] ELSE End]
        /\ \A e \in DOMAIN ch : e # d => dh[e] = ch[e] /\ SlotsOf(w, dh[e]) = SlotsOf(v, ch[e])
  BY <1>1, StretchLaid
<1> DEFINE R == Table(w, dh, d)
<1>3. /\ L \in Nat /\ L >= PerCluster /\ Tidy(S, L, StubsOf(N, d)) /\ PerCluster \in Nat /\ PerCluster > 1
      /\ Len(ch[d]) \in Nat
  BY GoodTable, DirParameters
<1>4. Size(dh, d) = L + PerCluster
  <2>1. (Len(ch[d]) + 1) * PerCluster = Len(ch[d]) * PerCluster + PerCluster
    BY <1>3
  <2> QED
    BY <1>2, <2>1 DEF Size
<1>5. /\ \A p \in 1 .. L : R[p] = S[p]
      /\ \A p \in L + 1 .. L + PerCluster : R[p] = End
  <2>1. R = [p \in 1 .. L + PerCluster |-> IF p <= L THEN S[p] ELSE End]
    BY <1>2 DEF Table, Size
  <2>2. \A p \in 1 .. L : p \in 1 .. L + PerCluster /\ p <= L
    BY <1>3
  <2>3. \A p \in L + 1 .. L + PerCluster : p \in 1 .. L + PerCluster /\ ~(p <= L)
    BY <1>3
  <2> HIDE DEF R, S, L
  <2> QED
    BY <2>1, <2>2, <2>3
<1> HIDE DEF R, S, L
<1>6. /\ Tidy(R, L + PerCluster, StubsOf(N, d))
      /\ \A p \in 1 .. L : \A e : Holds(S, p, e) => Holds(R, p, e)
      /\ \A p \in 1 .. L : \A e : Tells(S, p, e, StubsOf(N, d)) => Tells(R, p, e, StubsOf(N, d))
  BY <1>3, <1>5, LongerTidy
<1>7. \A p \in 1 .. L + PerCluster : R[p].kind = "sfn" => p \in 1 .. L
  <2>1. \A p \in 1 .. L + PerCluster : p \in 1 .. L \/ p \in L + 1 .. L + PerCluster
    BY <1>3
  <2> QED
    BY <2>1, <1>5, SlotKinds
<1>8. \A e \in DOMAIN ch : e # d => Table(w, dh, e) = Table(v, ch, e) /\ Size(dh, e) = Size(ch, e)
  BY <1>2 DEF Table, Size
<1>9. \A e, p, x : Stands(w, dh, e, p, x) <=> Stands(v, ch, e, p, x)
  <2>1. \A p, x : Stands(w, dh, d, p, x) <=> Stands(v, ch, d, p, x)
    <3>1. \A p, x : Stands(w, dh, d, p, x) <=> p \in 1 .. L + PerCluster /\ R[p] = x /\ x.kind = "sfn"
      BY <1>2, <1>4 DEF Stands, R
    <3>2. \A p, x : Stands(v, ch, d, p, x) <=> p \in 1 .. L /\ S[p] = x /\ x.kind = "sfn"
      BY DEF Stands, S, L
    <3>3. \A p \in 1 .. L : p \in 1 .. L + PerCluster
      BY <1>3
    <3> QED
      BY <1>5, <1>7, <3>1, <3>2, <3>3
  <2>2. \A e, p, x : e # d => (Stands(w, dh, e, p, x) <=> Stands(v, ch, e, p, x))
    BY <1>2, <1>8 DEF Stands
  <2> QED
    BY <2>1, <2>2
<1>10. Good(w, dh, T, N)
  <2>1. ASSUME NEW e \in DOMAIN dh
        PROVE  /\ Tidy(Table(w, dh, e), Size(dh, e), StubsOf(N, e))
               /\ e # Root => Table(w, dh, e)[1].kind = "dot" /\ Table(w, dh, e)[2].kind = "dot"
               /\ \A p \in 1 .. Size(dh, e) : Table(w, dh, e)[p].kind = "sfn" =>
                    \E f \in T : f.dir = e /\ Tells(Table(w, dh, e), p, f, StubsOf(N, e))
    <3>1. CASE e # d
      BY <3>1, <1>2, <1>8 DEF Good
    <3>2. CASE e = d
      <4>1. Tidy(R, Size(dh, d), StubsOf(N, d))
        BY <1>4, <1>6
      <4>2. d # Root => R[1].kind = "dot" /\ R[2].kind = "dot"
        <5>1. d # Root => S[1].kind = "dot" /\ S[2].kind = "dot"
          BY DEF Good, S
        <5>2. 1 \in 1 .. L /\ 2 \in 1 .. L
          BY <1>3
        <5> QED
          BY <1>5, <5>1, <5>2
      <4>3. ASSUME NEW p \in 1 .. L + PerCluster, R[p].kind = "sfn"
            PROVE  \E f \in T : f.dir = d /\ Tells(R, p, f, StubsOf(N, d))
        <5>1. p \in 1 .. L /\ S[p].kind = "sfn"
          BY <1>5, <1>7, <4>3
        <5>2. PICK f \in T : f.dir = d /\ Tells(S, p, f, StubsOf(N, d))
          BY <5>1 DEF Good, S, L
        <5> QED
          BY <1>6, <5>1, <5>2
      <4> QED
        BY <3>2, <4>1, <4>2, <4>3, <1>4 DEF R
    <3> QED
      BY <3>1, <3>2
  <2>2. ASSUME NEW f \in T
        PROVE  /\ IsEntry(f) /\ f.dir \in DOMAIN dh
               /\ \E p \in 1 .. Size(dh, f.dir) : Holds(Table(w, dh, f.dir), p, f)
    <3>1. /\ IsEntry(f) /\ f.dir \in DOMAIN ch
          /\ \E p \in 1 .. Size(ch, f.dir) : Holds(Table(v, ch, f.dir), p, f)
      BY DEF Good
    <3>2. CASE f.dir # d
      BY <3>1, <3>2, <1>2, <1>8
    <3>3. CASE f.dir = d
      <4>1. PICK p \in 1 .. L : Holds(S, p, f)
        BY <3>1, <3>3 DEF S, L
      <4>2. p \in 1 .. L + PerCluster /\ Holds(R, p, f)
        BY <4>1, <1>3, <1>6
      <4> QED
        BY <3>1, <3>3, <4>2, <1>2, <1>4 DEF R
    <3> QED
      BY <3>2, <3>3
  <2> QED
    BY <1>2, <2>1, <2>2 DEF Good
<1>11. /\ Size(dh, d) = Size(ch, d) + PerCluster
       /\ \A p \in 1 .. Size(ch, d) : Table(w, dh, d)[p] = Table(v, ch, d)[p]
       /\ \A p \in Size(ch, d) + 1 .. Size(ch, d) + PerCluster : Table(w, dh, d)[p] = End
  BY <1>4, <1>5 DEF R, S, L
<1> QED
  BY <1>2, <1>9, <1>10, <1>11

\* dir_alloc: n free slots behind used ones.
LEMMA AllocGood ==
  ASSUME NEW v, NEW ch, NEW T, NEW N, Good(v, ch, T, N), NEW d \in DOMAIN ch,
         NEW n \in 1 .. PerCluster, NEW a, a = Alloc(v, d, n), a.pos # 0
  PROVE  \E dh :
           /\ DOMAIN dh = DOMAIN ch /\ Good(a.vol, dh, T, N)
           /\ \A e, p, x : Stands(a.vol, dh, e, p, x) <=> Stands(v, ch, e, p, x)
           /\ a.pos \in Nat /\ a.pos > 0 /\ a.pos + n - 1 <= Size(dh, d)
           /\ \A p \in a.pos .. a.pos + n - 1 : Free(Table(a.vol, dh, d)[p])
           /\ \A p \in 1 .. a.pos - 1 : Table(a.vol, dh, d)[p].kind # "end"
<1>0. PerCluster \in Nat /\ PerCluster > 1 /\ n \in Nat /\ n > 0
  BY DirParameters
\* The least run of a volume.
<1>1. ASSUME NEW w, NEW dh, Good(w, dh, T, N), d \in DOMAIN dh, Runs(w, d, n) # {},
             NEW z, z = Least(Runs(w, d, n))
      PROVE  /\ z \in Nat /\ z > 0 /\ z + n - 1 <= Size(dh, d)
             /\ \A p \in z .. z + n - 1 : Free(Table(w, dh, d)[p])
             /\ \A p \in 1 .. z - 1 : Table(w, dh, d)[p].kind # "end"
  <2> DEFINE S == Table(w, dh, d)
             L == Size(dh, d)
             runs == Runs(w, d, n)
  <2>1. DirSlots(w, d) = S /\ Len(S) = L /\ L \in Nat /\ Tidy(S, L, StubsOf(N, d))
    BY <1>1, GoodTable
  <2> HIDE DEF S, L
  <2>2. runs = {p \in 1 .. L - n + 1 : \A q \in p .. p + n - 1 : Free(S[q])}
    BY <2>1 DEF Runs
  <2>3. runs \subseteq Nat
    BY <2>1, <2>2, <1>0
  <2>4. z \in runs /\ \A y \in runs : z <= y
    <3> HIDE DEF runs
    <3>1. runs # {}
      BY <1>1 DEF runs
    <3>2. \E i \in runs : \A j \in runs : i <= j
      BY <2>3, <3>1, LeastNat
    <3>3. z = Least(runs)
      BY <1>1 DEF runs
    <3> QED
      BY <3>2, <3>3 DEF Least
  <2>5. z \in 1 .. L - n + 1 /\ \A q \in z .. z + n - 1 : Free(S[q])
    BY <2>2, <2>4
  <2>6. ASSUME NEW p \in 1 .. z - 1, S[p].kind = "end" PROVE FALSE
    <3>1. p \in 1 .. L - n + 1
      BY <2>1, <2>5, <1>0
    <3>2. ASSUME NEW q \in p .. p + n - 1 PROVE Free(S[q])
      <4>1. p \in 1 .. L /\ q \in 1 .. L /\ p <= q
        BY <2>1, <3>1, <1>0
      <4> QED
        BY <2>1, <2>6, <4>1 DEF Tidy, Free
    <3>3. p \in runs
      BY <2>2, <3>1, <3>2
    <3> QED
      BY <2>4, <2>5, <3>3, <2>1, <1>0
  <2> QED
    BY <2>1, <2>5, <2>6, <1>0 DEF S, L
<1>2. CASE Runs(v, d, n) # {}
  <2>1. a.vol = v /\ a.pos = Least(Runs(v, d, n))
    BY <1>2 DEF Alloc
  <2> QED
    BY <1>1, <1>2, <2>1
<1>3. CASE Runs(v, d, n) = {} /\ Unused(v) = {}
  <2>1. a.pos = 0
    BY <1>3 DEF Alloc
  <2> QED
    BY <2>1
<1>4. CASE Runs(v, d, n) = {} /\ Unused(v) # {}
  <2>1. a.vol = Stretch(v, d) /\ a.pos = Least(Runs(Stretch(v, d), d, n))
    BY <1>4 DEF Alloc
  <2>2. PICK dh :
           /\ DOMAIN dh = DOMAIN ch /\ Good(a.vol, dh, T, N)
           /\ Size(dh, d) = Size(ch, d) + PerCluster
           /\ \A p \in Size(ch, d) + 1 .. Size(ch, d) + PerCluster : Table(a.vol, dh, d)[p] = End
           /\ \A e, p, x : Stands(a.vol, dh, e, p, x) <=> Stands(v, ch, e, p, x)
    BY <1>4, <2>1, StretchGood
  <2>3. Runs(a.vol, d, n) # {}
    <3> DEFINE S == Table(a.vol, dh, d)
               L == Size(ch, d)
    <3>1. L \in Nat /\ DirSlots(a.vol, d) = S /\ Len(S) = L + PerCluster
      BY <2>2, GoodTable
    <3> HIDE DEF S, L
    <3>2. L + 1 \in 1 .. (L + PerCluster) - n + 1
      BY <3>1, <1>0
    <3>3. \A q \in L + 1 .. (L + 1) + n - 1 : Free(S[q])
      <4>1. \A q \in L + 1 .. (L + 1) + n - 1 : q \in L + 1 .. L + PerCluster
        BY <3>1, <1>0
      <4> QED
        BY <2>2, <4>1, SlotKinds DEF Free, S, L
    <3>4. L + 1 \in Runs(a.vol, d, n)
      BY <3>1, <3>2, <3>3 DEF Runs
    <3> QED
      BY <3>4
  <2>4. a.pos = Least(Runs(a.vol, d, n)) /\ d \in DOMAIN dh
    BY <2>1, <2>2
  <2>5. /\ a.pos \in Nat /\ a.pos > 0 /\ a.pos + n - 1 <= Size(dh, d)
        /\ \A p \in a.pos .. a.pos + n - 1 : Free(Table(a.vol, dh, d)[p])
        /\ \A p \in 1 .. a.pos - 1 : Table(a.vol, dh, d)[p].kind # "end"
    BY <1>1, <2>2, <2>3, <2>4
  <2> QED
    BY <2>2, <2>5
<1> QED
  BY <1>2, <1>3, <1>4

\* The number of slots of an entry.
SlotCount(name, n) == n = IF name \in Long THEN Parts + 1 ELSE 1

\* The slots of a new entry, and the first of them.
LEMMA NewSlotsFacts ==
  ASSUME NEW name, NEW sfn, NEW obj, NEW n, SlotCount(name, n)
  PROVE  /\ n \in 1 .. PerCluster
         /\ Len(NewSlots(name, sfn, obj)) = n
         /\ \A k \in 0 .. n : /\ DOMAIN SubSeq(NewSlots(name, sfn, obj), 1, k) = 1 .. k
                              /\ \A i \in 1 .. k : SubSeq(NewSlots(name, sfn, obj), 1, k)[i]
                                                     = NewSlots(name, sfn, obj)[i]
<1> SUFFICES ASSUME n = IF name \in Long THEN Parts + 1 ELSE 1
             PROVE  /\ n \in 1 .. PerCluster
                    /\ Len(NewSlots(name, sfn, obj)) = n
                    /\ \A k \in 0 .. n : /\ DOMAIN SubSeq(NewSlots(name, sfn, obj), 1, k) = 1 .. k
                                         /\ \A i \in 1 .. k : SubSeq(NewSlots(name, sfn, obj), 1, k)[i]
                                                                = NewSlots(name, sfn, obj)[i]
  BY DEF SlotCount
<1> DEFINE V == {Lfn(name, Parts + 1 - i, sfn) : i \in 1 .. Parts} \cup {Sfn(sfn, obj)}
           slots == NewSlots(name, sfn, obj)
<1>1. Parts \in Nat /\ Parts > 0 /\ PerCluster \in Nat /\ Parts < PerCluster
  BY DirParameters
<1>2. n \in 1 .. PerCluster
  BY <1>1
<1>3. slots \in Seq(V) /\ Len(slots) = n
  <2>0. Sfn(sfn, obj) \in V
    OBVIOUS
  <2>1. CASE name \in Long
    <3> DEFINE a == [i \in 1 .. Parts |-> Lfn(name, Parts + 1 - i, sfn)]
    <3>1. a \in [1 .. Parts -> V]
      OBVIOUS
    <3> HIDE DEF a, V
    <3>2. a \in Seq(V)
      BY <3>1, <1>1, SeqDef
    <3>3. Len(a) = Parts
      BY <3>1, <3>2, <1>1, LenProperties
    <3>4. slots = a \o <<Sfn(sfn, obj)>>
      BY <2>1 DEF NewSlots, a
    <3>5. <<Sfn(sfn, obj)>> \in Seq(V) /\ Len(<<Sfn(sfn, obj)>>) = 1
      BY <2>0
    <3> HIDE DEF slots
    <3>6. slots \in Seq(V) /\ Len(slots) = Parts + 1
      BY <3>2, <3>3, <3>4, <3>5, ConcatProperties
    <3> QED
      BY <2>1, <3>6
  <2>2. CASE name \notin Long
    <3>1. slots = <<>> \o <<Sfn(sfn, obj)>>
      BY <2>2 DEF NewSlots
    <3>2. slots = <<Sfn(sfn, obj)>>
      BY <3>1
    <3> HIDE DEF slots, V
    <3> QED
      BY <2>0, <2>2, <3>2
  <2> QED
    BY <2>1, <2>2
<1> HIDE DEF slots, V
<1>4. ASSUME NEW k \in 0 .. n
      PROVE  /\ DOMAIN SubSeq(slots, 1, k) = 1 .. k
             /\ \A i \in 1 .. k : SubSeq(slots, 1, k)[i] = slots[i]
  <2>1. k \in 1 - 1 .. Len(slots) /\ 1 \in 1 .. Len(slots) + 1
    BY <1>2, <1>3
  <2>2. /\ SubSeq(slots, 1, k) \in Seq(V) /\ Len(SubSeq(slots, 1, k)) = k
        /\ \A i \in 1 .. k : SubSeq(slots, 1, k)[i] = slots[i]
    <3>1. /\ SubSeq(slots, 1, k) \in Seq(V)
          /\ Len(SubSeq(slots, 1, k)) = IF 1 <= k THEN k - 1 + 1 ELSE 0
      BY <1>3, <2>1, SubSeqProperties
    <3>2. Len(SubSeq(slots, 1, k)) = k
      BY <3>1, <2>1
    <3>3. \A i \in 1 .. k - 1 + 1 : SubSeq(slots, 1, k)[i] = slots[1 + i - 1]
      BY <1>3, <2>1, SubSeqProperties
    <3>4. \A i \in 1 .. k : i \in 1 .. k - 1 + 1 /\ 1 + i - 1 = i
      BY <2>1
    <3> QED
      BY <3>1, <3>2, <3>3, <3>4
  <2> QED
    BY <2>2, LenProperties
<1> QED
  BY <1>2, <1>3, <1>4 DEF slots

\* gen_numname: a short name nobody in the directory has.
LEMMA NumberedFacts ==
  ASSUME NEW v, NEW ch, NEW T, NEW N, Good(v, ch, T, N), NEW d \in DOMAIN ch,
         NEW name \in Short \cup Long, NEW sfn \in Numbered(v, d, name)
  PROVE  /\ Short \cap Long = {} /\ sfn \notin Long
         /\ name \in Long \/ (name \in Short /\ sfn = name)
         /\ name \in Long => \A p \in 1 .. Size(ch, d) : Table(v, ch, d)[p].kind = "sfn" => Table(v, ch, d)[p].sfn # sfn
<1>1. /\ Short \cap Long = {}
      /\ \A l \in Long : DOMAIN Alias[l] \subseteq Nat /\ \A i \in DOMAIN Alias[l] : Alias[l][i] \notin Long
  BY FatDirAssumption
<1>2. CASE name \in Short
  BY <1>1, <1>2 DEF Numbered
<1>3. CASE name \notin Short
  <2> DEFINE unused == {i \in DOMAIN Alias[name] : Alias[name][i] \notin Sfns(v, d)}
  <2>1. unused # {} /\ sfn = Alias[name][Least(unused)]
    BY <1>3 DEF Numbered
  <2>2. unused \subseteq Nat
    BY <1>1, <1>3
  <2>3. Least(unused) \in unused
    <3> HIDE DEF unused
    <3>1. \E i \in unused : \A j \in unused : i <= j
      BY <2>1, <2>2, LeastNat
    <3> QED
      BY <3>1 DEF Least
  <2>4. sfn \notin Long /\ sfn \notin Sfns(v, d)
    BY <2>1, <2>3, <1>1, <1>3
  <2>5. ASSUME NEW p \in 1 .. Size(ch, d), Table(v, ch, d)[p].kind = "sfn" PROVE Table(v, ch, d)[p].sfn # sfn
    <3>1. /\ DirSlots(v, d) = Table(v, ch, d)
          /\ Entries(DirSlots(v, d)) = {q \in 1 .. Size(ch, d) : Table(v, ch, d)[q].kind = "sfn"}
      BY GoodTable, AllReached
    <3>2. Table(v, ch, d)[p].sfn \in Sfns(v, d)
      BY <2>5, <3>1 DEF Sfns
    <3> QED
      BY <2>4, <3>2
  <2> QED
    BY <1>1, <1>3, <2>4, <2>5
<1> QED
  BY <1>2, <1>3

\* The registration r of a name for obj takes the history from T and N to U and M.
Registers(v, ch, T, N, d, name, obj, r, M, e0, U) ==
  /\ Good(v, ch, T, N) /\ d \in DOMAIN ch /\ name \in Short \cup Long
  /\ r \in Register(v, d, name, obj)
  /\ M = IF r.begun /\ ~r.done THEN N \cup {<<d, name>>} ELSE N
  /\ e0 = [dir |-> d, name |-> name, sfn |-> r.sfn, obj |-> obj]
  /\ U = IF r.done THEN T \cup {e0} ELSE T

\* dir_register: the entry, or a part of its long name and a stub.
LEMMA RegisterGood ==
  ASSUME NEW v, NEW ch, NEW T, NEW N, NEW d, NEW name, NEW obj, NEW r, NEW M, NEW e0, NEW U,
         Registers(v, ch, T, N, d, name, obj, r, M, e0, U)
  PROVE  /\ r.sfn \in Numbered(v, d, name) /\ r.pos \in Nat /\ r.pos > 0
         /\ \A x : ~Stands(v, ch, d, r.pos, x)
         /\ r.done \in BOOLEAN /\ r.begun \in BOOLEAN
         /\ \E dh :
              /\ DOMAIN dh = DOMAIN ch /\ Good(r.vol, dh, U, M)
              /\ \A e, p, x : Stands(r.vol, dh, e, p, x) <=>
                   \/ Stands(v, ch, e, p, x)
                   \/ r.done /\ e = d /\ p = r.pos /\ x = Sfn(r.sfn, obj)
              /\ r.done => /\ Stands(r.vol, dh, d, r.pos, Sfn(r.sfn, obj))
                           /\ Holds(Table(r.vol, dh, d), r.pos, e0)
                           /\ Tells(Table(r.vol, dh, d), r.pos, e0, StubsOf(M, d))
<1> SUFFICES ASSUME Good(v, ch, T, N), d \in DOMAIN ch, name \in Short \cup Long,
                    r \in Register(v, d, name, obj),
                    M = IF r.begun /\ ~r.done THEN N \cup {<<d, name>>} ELSE N,
                    e0 = [dir |-> d, name |-> name, sfn |-> r.sfn, obj |-> obj],
                    U = IF r.done THEN T \cup {e0} ELSE T
             PROVE  /\ r.sfn \in Numbered(v, d, name) /\ r.pos \in Nat /\ r.pos > 0
                    /\ \A x : ~Stands(v, ch, d, r.pos, x)
                    /\ r.done \in BOOLEAN /\ r.begun \in BOOLEAN
                    /\ \E dh :
                         /\ DOMAIN dh = DOMAIN ch /\ Good(r.vol, dh, U, M)
                         /\ \A e, p, x : Stands(r.vol, dh, e, p, x) <=>
                              \/ Stands(v, ch, e, p, x)
                              \/ r.done /\ e = d /\ p = r.pos /\ x = Sfn(r.sfn, obj)
                         /\ r.done => /\ Stands(r.vol, dh, d, r.pos, Sfn(r.sfn, obj))
                                      /\ Holds(Table(r.vol, dh, d), r.pos, e0)
                                      /\ Tells(Table(r.vol, dh, d), r.pos, e0, StubsOf(M, d))
  BY DEF Registers
<1>0. PICK n : n = IF name \in Long THEN Parts + 1 ELSE 1
  OBVIOUS
<1>a. SlotCount(name, n)
  BY <1>0 DEF SlotCount
<1>1. PICK sfn \in Numbered(v, d, name) : \E a, k :
        /\ a = Alloc(v, d, Len(NewSlots(name, sfn, obj))) /\ a.pos # 0
        /\ k \in 0 .. Len(NewSlots(name, sfn, obj))
        /\ r = [vol |-> StoreAll(a.vol, d, a.pos, SubSeq(NewSlots(name, sfn, obj), 1, k)), sfn |-> sfn,
                begun |-> k > 0, done |-> k = Len(NewSlots(name, sfn, obj)),
                pos |-> a.pos + Len(NewSlots(name, sfn, obj)) - 1]
  BY DEF Register
<1>2. PICK a, k :
        /\ a = Alloc(v, d, Len(NewSlots(name, sfn, obj))) /\ a.pos # 0
        /\ k \in 0 .. Len(NewSlots(name, sfn, obj))
        /\ r = [vol |-> StoreAll(a.vol, d, a.pos, SubSeq(NewSlots(name, sfn, obj), 1, k)), sfn |-> sfn,
                begun |-> k > 0, done |-> k = Len(NewSlots(name, sfn, obj)),
                pos |-> a.pos + Len(NewSlots(name, sfn, obj)) - 1]
  BY <1>1
<1> DEFINE slots == NewSlots(name, sfn, obj)
           first == SubSeq(slots, 1, k)
           w == r.vol
           pos == a.pos
<1>3. /\ n \in 1 .. PerCluster /\ Len(slots) = n /\ n \in Nat
      /\ k \in 0 .. n /\ DOMAIN first = 1 .. k /\ \A i \in 1 .. k : first[i] = slots[i]
  <2>1. n \in 1 .. PerCluster /\ Len(slots) = n
    BY <1>a, NewSlotsFacts
  <2>2. k \in 0 .. n
    BY <1>2, <2>1
  <2>3. DOMAIN first = 1 .. k /\ \A i \in 1 .. k : first[i] = slots[i]
    BY <1>a, <2>2, NewSlotsFacts
  <2> QED
    BY <2>1, <2>2, <2>3
<1>4. /\ w = StoreAll(a.vol, d, pos, first) /\ r.sfn = sfn
      /\ r.begun = (k > 0) /\ r.done = (k = n) /\ r.pos = pos + n - 1
      /\ (r.begun <=> k > 0) /\ (r.done <=> k = n)
  <2> QED
    BY <1>2, <1>3
<1> HIDE DEF w, slots, first
<1>5. a = Alloc(v, d, n) /\ a.pos # 0
  BY <1>2, <1>3 DEF slots
<1>6. PICK dh :
        /\ DOMAIN dh = DOMAIN ch /\ Good(a.vol, dh, T, N)
        /\ \A e, p, x : Stands(a.vol, dh, e, p, x) <=> Stands(v, ch, e, p, x)
        /\ pos \in Nat /\ pos > 0 /\ pos + n - 1 <= Size(dh, d)
        /\ \A p \in pos .. pos + n - 1 : Free(Table(a.vol, dh, d)[p])
        /\ \A p \in 1 .. pos - 1 : Table(a.vol, dh, d)[p].kind # "end"
  BY <1>3, <1>5, AllocGood
<1> HIDE DEF pos
<1> DEFINE S == Table(a.vol, dh, d)
           R == Table(w, dh, d)
           L == Size(dh, d)
           Nd == StubsOf(N, d)
           Md == StubsOf(M, d)
<1>7. d \in DOMAIN dh /\ L \in Nat /\ L >= PerCluster /\ PerCluster \in Nat /\ PerCluster > 1 /\ Tidy(S, L, Nd)
  BY <1>6, GoodTable, DirParameters
<1>8. /\ Laid(w, dh)
      /\ \A p \in 1 .. L : R[p] = IF p \in pos .. pos + k - 1 THEN slots[p - pos + 1] ELSE S[p]
      /\ \A e \in DOMAIN dh : e # d => Table(w, dh, e) = Table(a.vol, dh, e)
  <2>1. Laid(a.vol, dh)
    BY <1>6 DEF Good
  <2>2. k \in Nat /\ pos + k - 1 <= L
    BY <1>3, <1>6, <1>7
  <2>3. /\ Laid(w, dh)
        /\ \A p \in 1 .. Len(dh[d]) * PerCluster : SlotsOf(w, dh[d])[p]
             = IF p \in pos .. pos + k - 1 THEN first[p - pos + 1] ELSE SlotsOf(a.vol, dh[d])[p]
        /\ \A e \in DOMAIN dh : e # d => SlotsOf(w, dh[e]) = SlotsOf(a.vol, dh[e])
    <3>1. k \in Nat /\ DOMAIN first = 1 .. k /\ pos \in Nat /\ pos > 0
      BY <1>3, <1>6
    <3>2. w = StoreAll(a.vol, d, pos, first) /\ d \in DOMAIN dh
      BY <1>4, <1>7
    <3>3. pos + k - 1 <= Len(dh[d]) * PerCluster
      BY <2>2 DEF Size, L
    <3> QED
      BY <2>1, <3>1, <3>2, <3>3, StoreLaid
  <2>4. \A p \in 1 .. L : R[p] = IF p \in pos .. pos + k - 1 THEN first[p - pos + 1] ELSE S[p]
    BY <2>3 DEF Table, Size
  <2>5. \A p \in pos .. pos + k - 1 : p - pos + 1 \in 1 .. k
    BY <1>3, <1>6
  <2>6. \A e \in DOMAIN dh : e # d => Table(w, dh, e) = Table(a.vol, dh, e)
    BY <2>3 DEF Table
  <2> HIDE DEF R, S, L
  <2>7. \A p \in 1 .. L : R[p] = IF p \in pos .. pos + k - 1 THEN slots[p - pos + 1] ELSE S[p]
    BY <1>3, <2>4, <2>5
  <2> QED
    BY <2>3, <2>6, <2>7
<1>9. Short \cap Long = {} /\ sfn \notin Long /\ (name \in Long \/ (name \in Short /\ sfn = name))
  BY NumberedFacts
<1>10. /\ N \subseteq M /\ Nd \subseteq Md /\ (0 < k /\ k < n => name \in Md)
       /\ \A e : e # d => StubsOf(M, e) = StubsOf(N, e)
  <2>1. (r.begun /\ ~r.done) <=> (0 < k /\ k < n)
    BY <1>3, <1>4
  <2>2. CASE 0 < k /\ k < n
    <3>1. M = N \cup {<<d, name>>}
      BY <2>1, <2>2
    <3> QED
      BY <3>1 DEF StubsOf
  <2>3. CASE ~(0 < k /\ k < n)
    <3>1. M = N
      BY <2>1, <2>3
    <3> QED
      BY <2>3, <3>1
  <2> QED
    BY <2>2, <2>3
<1> HIDE DEF R, S, L, Nd, Md
<1>11. /\ Tidy(R, L, Md)
       /\ \A p \in 1 .. L : \A e : Holds(S, p, e) => Holds(R, p, e)
       /\ \A p \in 1 .. L : \A e : Tells(S, p, e, Nd) => Tells(R, p, e, Md)
       /\ k < n => \A p \in 1 .. L : R[p].kind = "sfn" <=> S[p].kind = "sfn"
       /\ k = n => \A p \in 1 .. L : R[p].kind = "sfn" <=> S[p].kind = "sfn" \/ p = pos + n - 1
       /\ S[pos + n - 1].kind # "sfn"
       /\ \A p \in 1 .. L : S[p].kind \in {"sfn", "dot"} => R[p] = S[p]
       /\ k = n => \A e : e.name = name /\ e.sfn = sfn /\ e.obj = obj =>
              Holds(R, pos + n - 1, e) /\ Tells(R, pos + n - 1, e, Md)
  <2>1. \A p \in pos .. pos + n - 1 : Free(S[p])
    BY <1>6 DEF S
  <2>2. \A p \in 1 .. pos - 1 : S[p].kind # "end"
    BY <1>6 DEF S
  <2>3. /\ L \in Nat /\ Tidy(S, L, Nd) /\ pos \in Nat /\ pos > 0 /\ pos + n - 1 <= L /\ k \in 0 .. n
        /\ name \in Short \cup Long /\ n = IF name \in Long THEN Parts + 1 ELSE 1
    BY <1>0, <1>3, <1>6, <1>7 DEF L
  <2>4. \A p \in 1 .. L : R[p] = IF p \in pos .. pos + k - 1 THEN NewSlots(name, sfn, obj)[p - pos + 1] ELSE S[p]
    BY <1>8 DEF slots, R, S, L
  <2>5. Writes(S, L, Nd, name, sfn, obj, n, pos, k, R, Md)
    BY <1>9, <1>10, <2>1, <2>2, <2>3, <2>4 DEF Writes
  <2> QED
    BY <2>5, WrittenTidy
<1> DEFINE z == pos + n - 1
<1>12. e0.name = name /\ e0.sfn = sfn /\ e0.obj = obj /\ e0.dir = d /\ IsEntry(e0) /\ z \in 1 .. L
  BY <1>3, <1>4, <1>6, <1>7, <1>9 DEF IsEntry, L
<1> HIDE DEF z
<1>13. k = n => R[z] = Sfn(sfn, obj) /\ Holds(R, z, e0) /\ Tells(R, z, e0, Md)
  BY <1>11, <1>12 DEF z, Holds
<1>14. \A p \in 1 .. L : R[p].kind = "sfn" => S[p].kind = "sfn" \/ (k = n /\ p = z)
  <2>1. k = n \/ k < n
    BY <1>3
  <2> QED
    BY <1>11, <2>1 DEF z
<1>15. \A e, p, x : Stands(w, dh, e, p, x) <=>
         Stands(a.vol, dh, e, p, x) \/ (k = n /\ e = d /\ p = z /\ x = Sfn(sfn, obj))
  <2>1. \A e, p, x : e # d => (Stands(w, dh, e, p, x) <=> Stands(a.vol, dh, e, p, x))
    BY <1>8 DEF Stands
  <2>2. \A p, x : Stands(w, dh, d, p, x) <=> p \in 1 .. L /\ R[p] = x /\ x.kind = "sfn"
    BY <1>7 DEF Stands, R, L
  <2>3. \A p, x : Stands(a.vol, dh, d, p, x) <=> p \in 1 .. L /\ S[p] = x /\ x.kind = "sfn"
    BY <1>7 DEF Stands, S, L
  <2>4. \A p, x : Stands(w, dh, d, p, x) <=>
         Stands(a.vol, dh, d, p, x) \/ (k = n /\ p = z /\ x = Sfn(sfn, obj))
    BY <1>11, <1>12, <1>13, <1>14, <2>2, <2>3, SlotKinds
  <2> QED
    BY <2>1, <2>4
<1>16. Good(w, dh, U, M)
  <2>1. ASSUME NEW e \in DOMAIN dh
        PROVE  /\ Tidy(Table(w, dh, e), Size(dh, e), StubsOf(M, e))
               /\ e # Root => Table(w, dh, e)[1].kind = "dot" /\ Table(w, dh, e)[2].kind = "dot"
               /\ \A p \in 1 .. Size(dh, e) : Table(w, dh, e)[p].kind = "sfn" =>
                    \E f \in U : f.dir = e /\ Tells(Table(w, dh, e), p, f, StubsOf(M, e))
    <3>0. Good(a.vol, dh, T, N) /\ T \subseteq U
      BY <1>6
    <3>1. CASE e # d
      <4>1. Table(w, dh, e) = Table(a.vol, dh, e) /\ StubsOf(M, e) = StubsOf(N, e)
        BY <3>1, <1>8, <1>10
      <4>2. /\ Tidy(Table(a.vol, dh, e), Size(dh, e), StubsOf(N, e))
            /\ e # Root => Table(a.vol, dh, e)[1].kind = "dot" /\ Table(a.vol, dh, e)[2].kind = "dot"
            /\ \A p \in 1 .. Size(dh, e) : Table(a.vol, dh, e)[p].kind = "sfn" =>
                 \E f \in T : f.dir = e /\ Tells(Table(a.vol, dh, e), p, f, StubsOf(N, e))
        BY <3>0 DEF Good
      <4> QED
        BY <3>0, <4>1, <4>2
    <3>2. CASE e = d
      <4>1. Tidy(R, L, Md)
        BY <1>11
      <4>2. d # Root => R[1].kind = "dot" /\ R[2].kind = "dot"
        <5>1. d # Root => S[1].kind = "dot" /\ S[2].kind = "dot"
          BY <3>0, <1>7 DEF Good, S
        <5>2. 1 \in 1 .. L /\ 2 \in 1 .. L
          BY <1>7 DEF L
        <5> QED
          BY <1>11, <5>1, <5>2
      <4>3. ASSUME NEW p \in 1 .. L, R[p].kind = "sfn"
            PROVE  \E f \in U : f.dir = d /\ Tells(R, p, f, Md)
        <5>1. CASE S[p].kind = "sfn"
          <6>1. PICK f \in T : f.dir = d /\ Tells(S, p, f, Nd)
            BY <3>0, <5>1, <1>7 DEF Good, S, L, Nd
          <6> QED
            BY <3>0, <6>1, <1>11
        <5>2. CASE k = n /\ p = z
          <6>1. e0 \in U
            BY <5>2, <1>4
          <6> QED
            BY <5>2, <6>1, <1>12, <1>13
        <5> QED
          BY <4>3, <5>1, <5>2, <1>14
      <4> QED
        BY <3>2, <4>1, <4>2, <4>3 DEF R, L, Md
    <3> QED
      BY <3>1, <3>2
  <2>2. ASSUME NEW f \in U
        PROVE  /\ IsEntry(f) /\ f.dir \in DOMAIN dh
               /\ \E p \in 1 .. Size(dh, f.dir) : Holds(Table(w, dh, f.dir), p, f)
    <3>1. CASE f \in T
      <4>1. /\ IsEntry(f) /\ f.dir \in DOMAIN dh
            /\ \E p \in 1 .. Size(dh, f.dir) : Holds(Table(a.vol, dh, f.dir), p, f)
        BY <3>1, <1>6 DEF Good
      <4>2. CASE f.dir # d
        BY <4>1, <4>2, <1>8
      <4>3. CASE f.dir = d
        <5>1. PICK p \in 1 .. L : Holds(S, p, f)
          BY <4>1, <4>3 DEF S, L
        <5>2. Holds(R, p, f)
          BY <5>1, <1>11
        <5> QED
          BY <4>1, <4>3, <5>1, <5>2 DEF R, L
      <4> QED
        BY <4>2, <4>3
    <3>2. CASE f = e0 /\ k = n
      <4>1. IsEntry(f) /\ f.dir = d /\ z \in 1 .. L /\ Holds(R, z, f)
        BY <3>2, <1>12, <1>13
      <4> QED
        BY <4>1, <1>7 DEF R, L
    <3> QED
      BY <3>1, <3>2, <1>4
  <2> QED
    BY <1>8, <2>1, <2>2 DEF Good
<1>17. \A x : ~Stands(v, ch, d, z, x)
  <2>1. \A x : ~Stands(a.vol, dh, d, z, x)
    BY <1>11 DEF Stands, S, z
  <2> QED
    BY <1>6, <2>1
<1>18. z \in Nat /\ z > 0 /\ r.pos = z
  BY <1>4, <1>12 DEF z
<1>19. r.done => /\ Stands(w, dh, d, z, Sfn(sfn, obj))
                 /\ Holds(Table(w, dh, d), z, e0) /\ Tells(Table(w, dh, d), z, e0, StubsOf(M, d))
  BY <1>4, <1>13, <1>15 DEF R, Md
<1>20. r.done \in BOOLEAN /\ r.begun \in BOOLEAN
  BY <1>4
<1>21. \A e, p, x : Stands(w, dh, e, p, x) <=>
         Stands(v, ch, e, p, x) \/ (r.done /\ e = d /\ p = z /\ x = Sfn(sfn, obj))
  BY <1>4, <1>6, <1>15
<1> QED
  BY <1>4, <1>6, <1>16, <1>17, <1>18, <1>19, <1>20, <1>21 DEF w

-----------------------------------------------------------------------------
(* What the other steps of the operations do to a volume.                  *)

\* Tables of the same slots.
LEMMA SameTable ==
  ASSUME NEW v, NEW w, NEW ch, NEW d, \A p \in 1 .. Size(ch, d) : Table(w, ch, d)[p] = Table(v, ch, d)[p]
  PROVE  Table(w, ch, d) = Table(v, ch, d)
<1> DEFINE L == Size(ch, d)
           S == Table(v, ch, d)
           R == Table(w, ch, d)
<1>1. S = [p \in 1 .. L |-> S[p]]
  BY DEF Table, SlotsOf, Size
<1>2. R = [p \in 1 .. L |-> R[p]]
  BY DEF Table, SlotsOf, Size
<1> HIDE DEF S, R, L
<1>3. \A p \in 1 .. L : R[p] = S[p]
  BY DEF S, R, L
<1>4. [p \in 1 .. L |-> R[p]] = [p \in 1 .. L |-> S[p]]
  BY <1>3
<1>5. R = S
  BY <1>1, <1>2, <1>4
<1> QED
  BY <1>5 DEF S, R

\* The dots of a directory that moves.
LEMMA DotGood ==
  ASSUME NEW v, NEW ch, NEW T, NEW N, Good(v, ch, T, N), NEW d \in DOMAIN ch, d # Root,
         NEW slot, slot.kind = "dot", NEW w, w = Store(v, d, 2, slot)
  PROVE  /\ Good(w, ch, T, N)
         /\ \A e, p, x : Stands(w, ch, e, p, x) <=> Stands(v, ch, e, p, x)
         /\ \A e \in DOMAIN ch : \A p \in 1 .. Size(ch, e) : \A f :
              /\ Holds(Table(v, ch, e), p, f) => Holds(Table(w, ch, e), p, f)
              /\ Tells(Table(v, ch, e), p, f, StubsOf(N, e)) => Tells(Table(w, ch, e), p, f, StubsOf(N, e))
<1> DEFINE S == Table(v, ch, d)
           R == Table(w, ch, d)
           L == Size(ch, d)
           Nd == StubsOf(N, d)
<1>1. /\ L \in Nat /\ L >= PerCluster /\ PerCluster \in Nat /\ PerCluster > 1 /\ Tidy(S, L, Nd)
      /\ S[1].kind = "dot" /\ S[2].kind = "dot"
  BY GoodTable, DirParameters DEF Good
<1>2. /\ Laid(w, ch)
      /\ \A p \in 1 .. L : R[p] = IF p = 2 THEN slot ELSE S[p]
      /\ \A e \in DOMAIN ch : e # d => Table(w, ch, e) = Table(v, ch, e)
  <2>1. w = StoreAll(v, d, 2, <<slot>>) /\ Laid(v, ch)
    BY DEF Store, Good
  <2>2. PICK pos \in Nat, k \in Nat : pos = 2 /\ k = 1
    OBVIOUS
  <2>3. /\ DOMAIN <<slot>> = 1 .. k /\ pos + k - 1 <= Len(ch[d]) * PerCluster /\ <<slot>>[1] = slot
        /\ w = StoreAll(v, d, pos, <<slot>>) /\ pos > 0
    BY <1>1, <2>1, <2>2 DEF L, Size
  <2> DEFINE one == <<slot>>
  <2>4. one[1] = slot /\ DOMAIN one = 1 .. k /\ w = StoreAll(v, d, pos, one)
    BY <2>3
  <2> HIDE DEF one
  <2>5. /\ Laid(w, ch)
        /\ \A p \in 1 .. Len(ch[d]) * PerCluster : SlotsOf(w, ch[d])[p]
              = IF p \in pos .. pos + k - 1 THEN one[p - pos + 1] ELSE SlotsOf(v, ch[d])[p]
        /\ \A e \in DOMAIN ch : e # d => SlotsOf(w, ch[e]) = SlotsOf(v, ch[e])
    BY <2>1, <2>3, <2>4, StoreLaid
  <2>6. \A p \in 1 .. L : (p \in pos .. pos + k - 1 <=> p = 2) /\ (p = 2 => p - pos + 1 = 1)
    BY <2>2
  <2> QED
    BY <2>4, <2>5, <2>6 DEF Table, Size
<1> HIDE DEF S, R, L, Nd
<1>3. 1 \in 1 .. L /\ 2 \in 1 .. L /\ R[2].kind = "dot" /\ R[1].kind = "dot" /\ \A p \in 1 .. L : p # 2 => R[p] = S[p]
  BY <1>1, <1>2
<1>4. /\ Tidy(R, L, Nd)
      /\ \A q \in 1 .. L : \A e : Holds(S, q, e) => Holds(R, q, e)
      /\ \A q \in 1 .. L : \A e : Tells(S, q, e, Nd) => Tells(R, q, e, Nd)
  BY <1>1, <1>3, DotTidy
<1>5. \A q \in 1 .. L : (R[q].kind = "sfn" <=> S[q].kind = "sfn") /\ (R[q].kind = "sfn" => R[q] = S[q])
  BY <1>1, <1>3
<1>6. \A e, p, x : Stands(w, ch, e, p, x) <=> Stands(v, ch, e, p, x)
  <2>1. \A e, p, x : e # d => (Stands(w, ch, e, p, x) <=> Stands(v, ch, e, p, x))
    BY <1>2 DEF Stands
  <2>2. \A p, x : Stands(w, ch, d, p, x) <=> p \in 1 .. L /\ R[p] = x /\ x.kind = "sfn"
    BY DEF Stands, R, L
  <2>3. \A p, x : Stands(v, ch, d, p, x) <=> p \in 1 .. L /\ S[p] = x /\ x.kind = "sfn"
    BY DEF Stands, S, L
  <2> QED
    BY <1>5, <2>1, <2>2, <2>3
<1>7. ASSUME NEW e \in DOMAIN ch, NEW p \in 1 .. Size(ch, e), NEW f
      PROVE  /\ Holds(Table(v, ch, e), p, f) => Holds(Table(w, ch, e), p, f)
             /\ Tells(Table(v, ch, e), p, f, StubsOf(N, e)) => Tells(Table(w, ch, e), p, f, StubsOf(N, e))
  <2>1. CASE e # d
    BY <2>1, <1>2
  <2>2. CASE e = d
    BY <2>2, <1>4 DEF S, R, L, Nd
  <2> QED
    BY <2>1, <2>2
<1>8. Good(w, ch, T, N)
  <2>1. ASSUME NEW e \in DOMAIN ch
        PROVE  /\ Tidy(Table(w, ch, e), Size(ch, e), StubsOf(N, e))
               /\ e # Root => Table(w, ch, e)[1].kind = "dot" /\ Table(w, ch, e)[2].kind = "dot"
               /\ \A p \in 1 .. Size(ch, e) : Table(w, ch, e)[p].kind = "sfn" =>
                    \E f \in T : f.dir = e /\ Tells(Table(w, ch, e), p, f, StubsOf(N, e))
    <3>1. CASE e # d
      BY <3>1, <1>2 DEF Good
    <3>2. CASE e = d
      <4>1. ASSUME NEW p \in 1 .. L, R[p].kind = "sfn" PROVE \E f \in T : f.dir = d /\ Tells(R, p, f, Nd)
        <5>1. S[p].kind = "sfn"
          BY <1>5, <4>1
        <5>2. PICK f \in T : f.dir = d /\ Tells(S, p, f, Nd)
          BY <5>1 DEF Good, S, L, Nd
        <5> QED
          BY <1>4, <5>2
      <4> QED
        BY <3>2, <4>1, <1>3, <1>4 DEF R, L, Nd
    <3> QED
      BY <3>1, <3>2
  <2>2. ASSUME NEW f \in T
        PROVE  /\ IsEntry(f) /\ f.dir \in DOMAIN ch
               /\ \E p \in 1 .. Size(ch, f.dir) : Holds(Table(w, ch, f.dir), p, f)
    <3>1. /\ IsEntry(f) /\ f.dir \in DOMAIN ch
          /\ \E p \in 1 .. Size(ch, f.dir) : Holds(Table(v, ch, f.dir), p, f)
      BY DEF Good
    <3> QED
      BY <3>1, <1>7
  <2> QED
    BY <1>2, <2>1, <2>2 DEF Good
<1> QED
  BY <1>6, <1>7, <1>8

\* f_mkdir: a new directory of two dots.
LEMMA NewGood ==
  ASSUME NEW v, NEW ch, NEW T, NEW N, Good(v, ch, T, N), NEW c \in Clusters, v.fat[c] = 0, NEW d,
         NEW w, w = [NewCluster(v, c) EXCEPT !.table[c] = DotsOf(d, c)],
         NEW dh, dh = [e \in DOMAIN ch \cup {c} |-> IF e = c THEN <<c>> ELSE ch[e]]
  PROVE  /\ Good(w, dh, T, N) /\ c \notin DOMAIN ch /\ DOMAIN dh = DOMAIN ch \cup {c}
         /\ \A e, p, x : Stands(w, dh, e, p, x) <=> Stands(v, ch, e, p, x)
<1> DEFINE R == DotsOf(d, c)
           L == PerCluster
<1>1. PerCluster \in Nat /\ PerCluster > 1 /\ Parts \in Nat /\ Parts > 0
  BY DirParameters
<1>2. /\ R[1].kind = "dot" /\ R[2].kind = "dot" /\ \A p \in 3 .. L : R[p].kind = "end"
      /\ OneCluster(R)
  <2>1. Clear = [i \in 1 .. L |-> End]
    BY DEF Clear
  <2>2. /\ R[1] = Dot(".", c) /\ R[2] = Dot("..", IF d = Root THEN 0 ELSE d)
        /\ \A p \in 3 .. L : R[p] = End
    BY <1>1, <2>1 DEF DotsOf
  <2>3. OneCluster(R)
    BY <2>1 DEF DotsOf, OneCluster
  <2> QED
    BY <2>2, <2>3, SlotKinds
<1>3. Laid(v, ch)
  BY DEF Good
<1> HIDE DEF R
<1>4. /\ Laid(w, dh) /\ c \notin DOMAIN ch
      /\ SlotsOf(w, dh[c]) = R
      /\ \A e \in DOMAIN ch : dh[e] = ch[e] /\ SlotsOf(w, dh[e]) = SlotsOf(v, ch[e])
  <2>1. w = [NewCluster(v, c) EXCEPT !.table[c] = R]
    BY DEF R
  <2> QED
    BY <1>2, <1>3, <2>1, NewLaid
<1>5. /\ DOMAIN dh = DOMAIN ch \cup {c} /\ Table(w, dh, c) = R /\ Size(dh, c) = L
      /\ \A e \in DOMAIN ch : Table(w, dh, e) = Table(v, ch, e) /\ Size(dh, e) = Size(ch, e)
  <2>1. dh[c] = <<c>> /\ Len(<<c>>) = 1 /\ 1 * PerCluster = PerCluster
    BY <1>1
  <2> QED
    BY <1>4, <2>1 DEF Table, Size
<1>6. Tidy(R, L, StubsOf(N, c)) /\ \A p \in 1 .. L : R[p].kind # "sfn" /\ R[p].kind # "lfn"
  <2>1. \A p \in 1 .. L : p = 1 \/ p = 2 \/ p \in 3 .. L
    BY <1>1
  <2>2. \A p \in 1 .. L : R[p].kind # "sfn" /\ R[p].kind # "lfn"
    BY <1>2, <2>1
  <2>3. \A p, q \in 1 .. L : p <= q /\ R[p].kind = "end" => R[q].kind = "end"
    <3> SUFFICES ASSUME NEW p \in 1 .. L, NEW q \in 1 .. L, p <= q, R[p].kind = "end" PROVE R[q].kind = "end"
      OBVIOUS
    <3>1. p # 1 /\ p # 2
      BY <1>2
    <3>2. q \in 3 .. L
      BY <1>1, <3>1
    <3> QED
      BY <1>2, <3>2
  <2>4. ASSUME NEW p \in 1 .. L + 1, NEW n, NEW s, FullRun(R, p, n, s) PROVE FALSE
    <3>1. p > Parts /\ R[p - 1] = Lfn(n, 1, s)
      BY <1>1, <2>4 DEF FullRun
    <3>2. p - 1 \in 1 .. L
      BY <1>1, <3>1
    <3> QED
      BY <2>2, <3>1, <3>2, SlotKinds
  <2> QED
    BY <2>2, <2>3, <2>4 DEF Tidy
<1>7. \A e, p, x : Stands(w, dh, e, p, x) <=> Stands(v, ch, e, p, x)
  <2>1. \A e, p, x : e # c => (Stands(w, dh, e, p, x) <=> Stands(v, ch, e, p, x))
    BY <1>5 DEF Stands
  <2>2. \A p, x : ~Stands(w, dh, c, p, x) /\ ~Stands(v, ch, c, p, x)
    BY <1>4, <1>5, <1>6 DEF Stands
  <2> QED
    BY <2>1, <2>2
<1>8. Good(w, dh, T, N)
  <2>1. ASSUME NEW e \in DOMAIN dh
        PROVE  /\ Tidy(Table(w, dh, e), Size(dh, e), StubsOf(N, e))
               /\ e # Root => Table(w, dh, e)[1].kind = "dot" /\ Table(w, dh, e)[2].kind = "dot"
               /\ \A p \in 1 .. Size(dh, e) : Table(w, dh, e)[p].kind = "sfn" =>
                    \E f \in T : f.dir = e /\ Tells(Table(w, dh, e), p, f, StubsOf(N, e))
    <3>1. CASE e = c
      BY <3>1, <1>2, <1>5, <1>6
    <3>2. CASE e \in DOMAIN ch
      <4>1. Table(w, dh, e) = Table(v, ch, e) /\ Size(dh, e) = Size(ch, e)
        BY <3>2, <1>5
      <4>2. /\ Tidy(Table(v, ch, e), Size(ch, e), StubsOf(N, e))
            /\ e # Root => Table(v, ch, e)[1].kind = "dot" /\ Table(v, ch, e)[2].kind = "dot"
            /\ \A p \in 1 .. Size(ch, e) : Table(v, ch, e)[p].kind = "sfn" =>
                 \E f \in T : f.dir = e /\ Tells(Table(v, ch, e), p, f, StubsOf(N, e))
        BY <3>2 DEF Good
      <4> QED
        BY <4>1, <4>2
    <3> QED
      BY <3>1, <3>2, <1>5
  <2>2. ASSUME NEW f \in T
        PROVE  /\ IsEntry(f) /\ f.dir \in DOMAIN dh
               /\ \E p \in 1 .. Size(dh, f.dir) : Holds(Table(w, dh, f.dir), p, f)
    <3>1. /\ IsEntry(f) /\ f.dir \in DOMAIN ch
          /\ \E p \in 1 .. Size(ch, f.dir) : Holds(Table(v, ch, f.dir), p, f)
      BY DEF Good
    <3> QED
      BY <3>1, <1>5
  <2> QED
    BY <1>4, <2>1, <2>2 DEF Good
<1> QED
  BY <1>4, <1>5, <1>7, <1>8

\* Directories that are given up, with or without their clusters.
Changed(w, v) == w = [table |-> v.table, fat |-> w.fat]

\* The directories D of v stay as they were in w.
Lessens(v, ch, T, N, D, w, dh) ==
  /\ Good(v, ch, T, N) /\ D \subseteq DOMAIN ch /\ \A e \in T : e.dir \in D
  /\ Changed(w, v) /\ w.fat \in [Clusters -> Clusters \cup {0, Eoc}]
  /\ \A d \in D : \A i \in 1 .. Len(ch[d]) : w.fat[ch[d][i]] = v.fat[ch[d][i]]
  /\ dh = [d \in D |-> ch[d]]

LEMMA LessGood ==
  ASSUME NEW v, NEW ch, NEW T, NEW N, NEW D, NEW w, NEW dh, Lessens(v, ch, T, N, D, w, dh)
  PROVE  /\ Good(w, dh, T, N) /\ DOMAIN dh = D
         /\ \A e, p, x : Stands(w, dh, e, p, x) <=> e \in D /\ Stands(v, ch, e, p, x)
<1> SUFFICES ASSUME Good(v, ch, T, N), D \subseteq DOMAIN ch, \A e \in T : e.dir \in D,
                    Changed(w, v), w.fat \in [Clusters -> Clusters \cup {0, Eoc}],
                    \A d \in D : \A i \in 1 .. Len(ch[d]) : w.fat[ch[d][i]] = v.fat[ch[d][i]],
                    dh = [d \in D |-> ch[d]]
             PROVE  /\ Good(w, dh, T, N) /\ DOMAIN dh = D
                    /\ \A e, p, x : Stands(w, dh, e, p, x) <=> e \in D /\ Stands(v, ch, e, p, x)
  BY DEF Lessens
<1>1. Laid(v, ch)
  BY DEF Good
<1>2. /\ DOMAIN dh = D /\ Laid(w, dh)
      /\ \A d \in D : dh[d] = ch[d] /\ SlotsOf(w, dh[d]) = SlotsOf(v, ch[d])
  BY <1>1, LessLaid DEF Changed
<1>3. \A d \in D : d \in DOMAIN ch /\ Table(w, dh, d) = Table(v, ch, d) /\ Size(dh, d) = Size(ch, d)
  BY <1>2 DEF Table, Size
<1>4. \A e, p, x : Stands(w, dh, e, p, x) <=> e \in D /\ Stands(v, ch, e, p, x)
  BY <1>2, <1>3 DEF Stands
<1>5. Good(w, dh, T, N)
  <2>1. \A e \in DOMAIN ch :
          /\ Tidy(Table(v, ch, e), Size(ch, e), StubsOf(N, e))
          /\ e # Root => Table(v, ch, e)[1].kind = "dot" /\ Table(v, ch, e)[2].kind = "dot"
          /\ \A p \in 1 .. Size(ch, e) : Table(v, ch, e)[p].kind = "sfn" =>
               \E f \in T : f.dir = e /\ Tells(Table(v, ch, e), p, f, StubsOf(N, e))
    BY DEF Good
  <2>2. \A f \in T : /\ IsEntry(f) /\ f.dir \in D
                     /\ \E p \in 1 .. Size(ch, f.dir) : Holds(Table(v, ch, f.dir), p, f)
    BY DEF Good
  <2>3. \A e \in DOMAIN dh :
          /\ Tidy(Table(w, dh, e), Size(dh, e), StubsOf(N, e))
          /\ e # Root => Table(w, dh, e)[1].kind = "dot" /\ Table(w, dh, e)[2].kind = "dot"
          /\ \A p \in 1 .. Size(dh, e) : Table(w, dh, e)[p].kind = "sfn" =>
               \E f \in T : f.dir = e /\ Tells(Table(w, dh, e), p, f, StubsOf(N, e))
    <3> SUFFICES ASSUME NEW e \in DOMAIN ch, Table(w, dh, e) = Table(v, ch, e), Size(dh, e) = Size(ch, e)
                 PROVE  /\ Tidy(Table(w, dh, e), Size(dh, e), StubsOf(N, e))
                        /\ e # Root => Table(w, dh, e)[1].kind = "dot" /\ Table(w, dh, e)[2].kind = "dot"
                        /\ \A p \in 1 .. Size(dh, e) : Table(w, dh, e)[p].kind = "sfn" =>
                             \E f \in T : f.dir = e /\ Tells(Table(w, dh, e), p, f, StubsOf(N, e))
      BY <1>2, <1>3
    <3> QED
      BY SMTT(30), <2>1
  <2>4. \A f \in T : /\ IsEntry(f) /\ f.dir \in DOMAIN dh
                     /\ \E p \in 1 .. Size(dh, f.dir) : Holds(Table(w, dh, f.dir), p, f)
    BY <1>2, <1>3, <2>2
  <2> QED
    BY <1>2, <2>3, <2>4 DEF Good
<1> QED
  BY <1>2, <1>4, <1>5

-----------------------------------------------------------------------------
(* What dir_remove does to a volume.                                       *)

\* The entries T after the removal x of those in M, with Y among those that stay.
Less(T, x, M, Y) ==
  (T \ M) \cup (IF x.done THEN {} ELSE IF x.begun THEN Shortened(M) ELSE M) \cup Y

\* The entries of M are those of the short slot at the place p of d, and those that
\* stay have other places.
Removable(v, ch, T, N, d, p, M, Y) ==
  /\ Good(v, ch, T, N) /\ M \subseteq T /\ Y \subseteq T
  /\ d \in DOMAIN ch /\ p \in 1 .. Size(ch, d) /\ Table(v, ch, d)[p].kind = "sfn"
  /\ \A e \in (T \ M) \cup Y : \E q \in 1 .. Size(ch, e.dir) :
       (e.dir # d \/ q # p) /\ Holds(Table(v, ch, e.dir), q, e)
  /\ \A f \in DOMAIN ch : \A q \in 1 .. Size(ch, f) :
       Table(v, ch, f)[q].kind = "sfn" /\ (f # d \/ q # p) =>
         \E e \in (T \ M) \cup Y : e.dir = f /\ Tells(Table(v, ch, f), q, e, StubsOf(N, f))
  /\ M # {}
  /\ \A e \in M : e.dir = d /\ Table(v, ch, d)[p] = Sfn(e.sfn, e.obj)

LEMMA RemoveGood ==
  ASSUME NEW v, NEW ch, NEW T, NEW N, NEW d, NEW p, NEW M, NEW Y, Removable(v, ch, T, N, d, p, M, Y),
         NEW x \in RemoveEntry(v, d, p)
  PROVE  /\ Good(x.vol, ch, Less(T, x, M, Y), N)
         /\ x.done \in BOOLEAN /\ x.begun \in BOOLEAN /\ x.vol.fat = v.fat
         /\ \A e, q, y : Stands(x.vol, ch, e, q, y) <=> Stands(v, ch, e, q, y) /\ ~(x.done /\ e = d /\ q = p)
<1> DEFINE S == Table(v, ch, d)
           L == Size(ch, d)
           Nd == StubsOf(N, d)
           top == Top(S, p)
           w == x.vol
           R == Table(w, ch, d)
           U == Less(T, x, M, Y)
<1>0. /\ Good(v, ch, T, N) /\ M \subseteq T /\ Y \subseteq T /\ d \in DOMAIN ch /\ p \in 1 .. L /\ S[p].kind = "sfn"
      /\ M # {} /\ \A e \in M : e.dir = d /\ S[p] = Sfn(e.sfn, e.obj)
  BY DEF Removable
<1>1. /\ DirSlots(v, d) = S /\ L \in Nat /\ L >= PerCluster /\ PerCluster > 1 /\ PerCluster \in Nat
      /\ Tidy(S, L, Nd) /\ p \in Nat /\ p > 0
  BY <1>0, GoodTable, DirParameters
<1>2. top \in 1 .. p /\ \A q \in top .. p - 1 : S[q].kind = "lfn"
  BY <1>1, TopFacts
<1>3. PICK k \in 0 .. p - top + 1 :
        x = [vol |-> StoreAll(v, d, top, [i \in 1 .. k |-> Deleted]), begun |-> k > 0, done |-> k = p - top + 1]
  BY <1>1 DEF RemoveEntry
<1> DEFINE marks == [i \in 1 .. k |-> Deleted]
<1>4. /\ w = StoreAll(v, d, top, marks) /\ (x.begun <=> k > 0) /\ (x.done <=> k = p - top + 1)
      /\ x.done \in BOOLEAN /\ x.begun \in BOOLEAN
  <2>1. x.vol = StoreAll(v, d, top, marks)
    BY <1>3
  <2>2. x.begun = (k > 0) /\ x.done = (k = p - top + 1)
    BY <1>3
  <2> HIDE DEF top, marks
  <2>3. (x.begun <=> k > 0) /\ (x.done <=> k = p - top + 1)
    BY <2>2
  <2>4. x.done \in BOOLEAN /\ x.begun \in BOOLEAN
    BY <2>2
  <2> QED
    BY <2>1, <2>3, <2>4
<1>5. DOMAIN marks = 1 .. k /\ \A i \in 1 .. k : marks[i] = Deleted
  OBVIOUS
<1> HIDE DEF S, L, Nd, top, w, R, U, marks
<1>6. /\ Laid(w, ch) /\ w.fat = v.fat
      /\ \A q \in 1 .. L : R[q] = IF q \in top .. top + k - 1 THEN Deleted ELSE S[q]
      /\ \A e \in DOMAIN ch : e # d => Table(w, ch, e) = Table(v, ch, e)
  <2>1. Laid(v, ch)
    BY <1>0 DEF Good
  <2>2. k \in Nat /\ top \in Nat /\ top > 0 /\ top + k - 1 <= Len(ch[d]) * PerCluster
    <3>1. top + k - 1 <= L
      BY <1>0, <1>1, <1>2, <1>3
    <3> QED
      BY <1>1, <1>2, <3>1 DEF L, Size
  <2>3. /\ Laid(w, ch) /\ w.fat = v.fat
        /\ \A q \in 1 .. Len(ch[d]) * PerCluster : SlotsOf(w, ch[d])[q]
              = IF q \in top .. top + k - 1 THEN marks[q - top + 1] ELSE SlotsOf(v, ch[d])[q]
        /\ \A e \in DOMAIN ch : e # d => SlotsOf(w, ch[e]) = SlotsOf(v, ch[e])
    BY <1>0, <1>4, <1>5, <2>1, <2>2, StoreLaid
  <2>4. \A q \in top .. top + k - 1 : q - top + 1 \in 1 .. k
    BY <2>2
  <2>5. \A q \in 1 .. L : R[q] = IF q \in top .. top + k - 1 THEN marks[q - top + 1] ELSE S[q]
    BY <2>3 DEF Table, Size, R, S, L
  <2>6. \A e \in DOMAIN ch : e # d => Table(w, ch, e) = Table(v, ch, e)
    BY <2>3 DEF Table
  <2> QED
    BY <1>5, <2>3, <2>4, <2>5, <2>6
<1>7. U = (T \ M) \cup (IF x.done THEN {} ELSE IF x.begun THEN Shortened(M) ELSE M) \cup Y
  BY DEF U, Less
\* Nothing is marked.
<1>8. CASE k = 0
  <2>1. ~x.done /\ ~x.begun
    BY <1>1, <1>2, <1>4, <1>8
  <2>2. U = T
    BY <1>0, <1>7, <2>1
  <2>3. \A q \in 1 .. L : R[q] = S[q]
    <3>1. \A q \in 1 .. L : q \notin top .. top + k - 1
      BY <1>1, <1>2, <1>8
    <3> QED
      BY <1>6, <3>1
  <2>4. R = S
    BY <2>3, SameTable DEF R, S, L
  <2>5. \A e \in DOMAIN ch : Table(w, ch, e) = Table(v, ch, e)
    BY <1>6, <2>4 DEF R, S
  <2>6. Good(w, ch, T, N)
    BY <1>0, <1>6, <2>5 DEF Good
  <2>7. \A e, q, y : Stands(w, ch, e, q, y) <=> Stands(v, ch, e, q, y)
    BY <2>5 DEF Stands
  <2> QED
    BY <1>4, <1>6, <2>1, <2>2, <2>6, <2>7 DEF w, U
<1>9. CASE k # 0
  <2>1. /\ Tidy(R, L, Nd)
        /\ \A q \in 1 .. L : q # p => \A e : Holds(S, q, e) => Holds(R, q, e)
        /\ \A q \in 1 .. L : q # p => \A e : Tells(S, q, e, Nd) => Tells(R, q, e, Nd)
        /\ \A q \in 1 .. L : q # p /\ S[q].kind \in {"sfn", "dot"} => R[q] = S[q]
        /\ \A q \in 1 .. L : q # p /\ R[q].kind = "sfn" => S[q].kind = "sfn"
        /\ k = p - top + 1 => R[p].kind # "sfn"
        /\ k < p - top + 1 =>
              /\ R[p] = S[p]
              /\ \A e : S[p] = Sfn(e.sfn, e.obj) =>
                   Tells(R, p, e, Nd) /\ (e.name \notin Long => Holds(R, p, e))
    <3>1. k \in 1 .. p - top + 1 /\ top = Top(S, p)
      BY <1>2, <1>3, <1>9 DEF top
    <3> QED
      BY <1>0, <1>1, <1>6, <3>1, RemovedTidy
  <2>2. x.begun /\ (x.done \/ k < p - top + 1)
    BY <1>1, <1>2, <1>3, <1>4, <1>9
  <2>3. (T \ M) \cup Y \subseteq U /\ (~x.done => Shortened(M) \subseteq U)
        /\ \A e \in U : e \in (T \ M) \cup Y \/ (~x.done /\ e \in Shortened(M))
    BY <1>7, <2>2
  <2>4. \A e \in M : IsEntry(e)
    BY <1>0 DEF Good
  <2>5. ASSUME NEW e \in Shortened(M)
        PROVE  IsEntry(e) /\ e.dir = d /\ S[p] = Sfn(e.sfn, e.obj) /\ e.name \notin Long
    <3>1. PICK f \in M : e = [f EXCEPT !.name = f.sfn]
      BY DEF Shortened
    <3>2. f = [dir |-> f.dir, name |-> f.name, sfn |-> f.sfn, obj |-> f.obj] /\ f.sfn \notin Long
      BY <2>4 DEF IsEntry
    <3>3. e = [dir |-> f.dir, name |-> f.sfn, sfn |-> f.sfn, obj |-> f.obj]
      BY <3>1, <3>2
    <3>4. e.dir = f.dir /\ e.name = f.sfn /\ e.sfn = f.sfn /\ e.obj = f.obj
      BY <3>3
    <3>5. f.dir = d /\ S[p] = Sfn(f.sfn, f.obj)
      BY <1>0
    <3>6. e = [dir |-> e.dir, name |-> e.name, sfn |-> e.sfn, obj |-> e.obj]
      BY <3>3, <3>4
    <3> QED
      BY <3>2, <3>4, <3>5, <3>6 DEF IsEntry
  <2>6. \E e : e \in Shortened(M)
    BY <1>0 DEF Shortened
  <2>7. \A e, q, y : Stands(w, ch, e, q, y) <=> Stands(v, ch, e, q, y) /\ ~(x.done /\ e = d /\ q = p)
    <3>1. \A e, q, y : e # d => (Stands(w, ch, e, q, y) <=> Stands(v, ch, e, q, y))
      BY <1>6 DEF Stands
    <3>2. \A q, y : Stands(w, ch, d, q, y) <=> q \in 1 .. L /\ R[q] = y /\ y.kind = "sfn"
      BY <1>0 DEF Stands, R, L
    <3>3. \A q, y : Stands(v, ch, d, q, y) <=> q \in 1 .. L /\ S[q] = y /\ y.kind = "sfn"
      BY <1>0 DEF Stands, S, L
    <3>4. x.done => R[p].kind # "sfn"
      BY <1>4, <2>1
    <3>5. ~x.done => R[p] = S[p]
      BY <2>1, <2>2
    <3> QED
      BY <2>1, <3>1, <3>2, <3>3, <3>4, <3>5
  <2>8. ASSUME NEW e \in U
        PROVE  /\ IsEntry(e) /\ e.dir \in DOMAIN ch
               /\ \E q \in 1 .. Size(ch, e.dir) : Holds(Table(w, ch, e.dir), q, e)
    <3>1. CASE e \in (T \ M) \cup Y
      <4>1. IsEntry(e) /\ e.dir \in DOMAIN ch
        BY <1>0, <3>1 DEF Good
      <4>2. PICK q \in 1 .. Size(ch, e.dir) : (e.dir # d \/ q # p) /\ Holds(Table(v, ch, e.dir), q, e)
        BY <3>1 DEF Removable
      <4>3. Holds(Table(w, ch, e.dir), q, e)
        <5>1. CASE e.dir # d
          BY <4>1, <4>2, <5>1, <1>6
        <5>2. CASE e.dir = d
          BY <4>2, <5>2, <2>1 DEF R, S, L
        <5> QED
          BY <5>1, <5>2
      <4> QED
        BY <4>1, <4>2, <4>3
    <3>2. CASE ~x.done /\ e \in Shortened(M)
      <4>1. IsEntry(e) /\ e.dir = d /\ S[p] = Sfn(e.sfn, e.obj) /\ e.name \notin Long
        BY <2>5, <3>2
      <4>2. Holds(R, p, e)
        BY <2>1, <2>2, <3>2, <4>1
      <4> QED
        BY <1>0, <4>1, <4>2 DEF R, L
    <3> QED
      BY <2>3, <3>1, <3>2
  <2>9. ASSUME NEW f \in DOMAIN ch, NEW q \in 1 .. Size(ch, f), Table(w, ch, f)[q].kind = "sfn"
        PROVE  \E e \in U : e.dir = f /\ Tells(Table(w, ch, f), q, e, StubsOf(N, f))
    <3>1. CASE f # d
      <4>1. Table(w, ch, f) = Table(v, ch, f)
        BY <3>1, <1>6
      <4>2. \E e \in (T \ M) \cup Y : e.dir = f /\ Tells(Table(v, ch, f), q, e, StubsOf(N, f))
        BY <2>9, <3>1, <4>1 DEF Removable
      <4> QED
        BY <2>3, <4>1, <4>2
    <3>2. CASE f = d /\ q # p
      <4>1. q \in 1 .. L /\ S[q].kind = "sfn"
        BY <2>1, <2>9, <3>2 DEF R, L
      <4>2. PICK e \in (T \ M) \cup Y : e.dir = d /\ Tells(S, q, e, Nd)
        BY <1>0, <3>2, <4>1 DEF Removable, S, L, Nd
      <4>3. Tells(R, q, e, Nd)
        BY <2>1, <3>2, <4>1, <4>2
      <4> QED
        BY <2>3, <3>2, <4>2, <4>3 DEF R, Nd
    <3>3. CASE f = d /\ q = p
      <4>1. ~x.done
        BY <1>4, <2>1, <2>9, <3>3 DEF R
      <4>2. PICK e : e \in Shortened(M)
        BY <2>6
      <4>3. e.dir = d /\ Tells(R, p, e, Nd)
        BY <2>1, <2>2, <2>5, <4>1, <4>2
      <4> QED
        BY <2>3, <3>3, <4>1, <4>2, <4>3 DEF R, Nd
    <3> QED
      BY <3>1, <3>2, <3>3
  <2>10. ASSUME NEW f \in DOMAIN ch
         PROVE  /\ Tidy(Table(w, ch, f), Size(ch, f), StubsOf(N, f))
                /\ f # Root => Table(w, ch, f)[1].kind = "dot" /\ Table(w, ch, f)[2].kind = "dot"
    <3>1. CASE f # d
      <4>1. Table(w, ch, f) = Table(v, ch, f)
        BY <3>1, <1>6
      <4> QED
        BY <1>0, <4>1 DEF Good
    <3>2. CASE f = d
      <4>1. d # Root => S[1].kind = "dot" /\ S[2].kind = "dot"
        BY <1>0 DEF Good, S
      <4>2. d # Root => R[1].kind = "dot" /\ R[2].kind = "dot"
        <5>1. 1 \in 1 .. L /\ 2 \in 1 .. L
          BY <1>1
        <5>2. d # Root => 1 # p /\ 2 # p
          BY <1>0, <4>1
        <5> QED
          BY <2>1, <4>1, <5>1, <5>2
      <4> QED
        BY <2>1, <3>2, <4>2 DEF R, L, Nd
    <3> QED
      BY <3>1, <3>2
  <2>11. Good(w, ch, U, N)
    BY <1>6, <2>8, <2>9, <2>10 DEF Good
  <2> QED
    BY <1>4, <1>6, <2>7, <2>11 DEF w, U
<1> QED
  BY <1>8, <1>9

-----------------------------------------------------------------------------
(* Where paths lead.                                                       *)

\* The directories an operation has promised.
DirsOf(T) == {Root} \cup {e.obj[2] : e \in {f \in T : f.obj[1] = "dir"}}

LEMMA ChildLands ==
  ASSUME NEW v, NEW ch, NEW T, NEW N, Good(v, ch, T, N), DOMAIN ch = DirsOf(T), NEW d \in DOMAIN ch, NEW name
  PROVE  Child(v, d, name) \in DOMAIN ch \cup {0}
<1> DEFINE S == Table(v, ch, d)
           p == Find(v, d, name)
<1>1. DirSlots(v, d) = S
  BY GoodTable
<1>2. p # 0 => p \in 1 .. Size(ch, d) /\ S[p].kind = "sfn"
  BY FindFacts DEF Stands
<1> HIDE DEF S, p
<1>3. CASE p # 0 /\ S[p].obj[1] = "dir"
  <2>1. PICK e \in T : e.dir = d /\ Tells(S, p, e, StubsOf(N, d))
    BY <1>2, <1>3 DEF Good, S
  <2>2. S[p].obj = e.obj
    BY <2>1, SlotKinds DEF Tells
  <2>3. Child(v, d, name) = e.obj[2] /\ e.obj[1] = "dir"
    BY <1>1, <1>3, <2>2 DEF Child, p
  <2> QED
    BY <2>3 DEF DirsOf
<1>4. CASE ~(p # 0 /\ S[p].obj[1] = "dir")
  BY <1>1, <1>4 DEF Child, p
<1> QED
  BY <1>3, <1>4

LEMMA FollowLands ==
  ASSUME NEW v, NEW ch, NEW T, NEW N, Good(v, ch, T, N), DOMAIN ch = DirsOf(T), NEW d \in DOMAIN ch,
         NEW path, Len(path) \in 0 .. 2
  PROVE  Follow(v, d, path) \in DOMAIN ch \cup {0}
<1> DEFINE n == Len(path)
           x == Child(v, d, path[1])
           y == IF x = 0 THEN 0 ELSE Child(v, x, path[2])
           IsReached(f) == f = [i \in 0 .. n |->
             IF i = 0 THEN d ELSE IF f[i - 1] = 0 THEN 0 ELSE Child(v, f[i - 1], path[i])]
           g == [i \in 0 .. n |-> IF i = 0 THEN d ELSE IF i = 1 THEN x ELSE y]
<1>1. d # 0
  BY GoodTable, DirParameters
<1>2. n \in 0 .. 2 /\ \A i \in 0 .. n : i = 0 \/ i = 1 \/ i = 2
  <2>1. n \in 0 .. 2
    OBVIOUS
  <2> HIDE DEF n
  <2> QED
    BY <2>1
<1>3. \A i \in 0 .. n : g[i] = IF i = 0 THEN d ELSE IF g[i - 1] = 0 THEN 0 ELSE Child(v, g[i - 1], path[i])
  <2> SUFFICES ASSUME NEW i \in 0 .. n
               PROVE  g[i] = IF i = 0 THEN d ELSE IF g[i - 1] = 0 THEN 0 ELSE Child(v, g[i - 1], path[i])
    OBVIOUS
  <2>1. CASE i = 0
    <3>1. g[0] = d
      BY <1>2
    <3> QED
      BY <2>1, <3>1
  <2>2. CASE i = 1
    <3>1. g[1] = x /\ g[0] = d
      BY <1>2, <2>2
    <3> HIDE DEF g
    <3> QED
      BY <1>1, <2>2, <3>1
  <2>3. CASE i = 2
    <3>1. g[2] = y /\ g[1] = x
      BY <1>2, <2>3
    <3> HIDE DEF g, x
    <3> QED
      BY <2>3, <3>1
  <2> QED
    BY <1>2, <2>1, <2>2, <2>3
<1>4. IsReached(g)
  <2>1. g = [i \in 0 .. n |-> g[i]]
    OBVIOUS
  <2> HIDE DEF g, n
  <2> QED
    BY <1>3, <2>1
<1>5. PICK f : IsReached(f) /\ Follow(v, d, path) = f[n]
  <2> HIDE DEF g
  <2> QED
    BY <1>4 DEF Follow
<1>6. \A i \in 0 .. n : f[i] = IF i = 0 THEN d ELSE IF f[i - 1] = 0 THEN 0 ELSE Child(v, f[i - 1], path[i])
  <2> HIDE DEF n
  <2> QED
    BY <1>5
<1> HIDE DEF IsReached, g, x, y
<1>7. f[0] = d
  BY <1>2, <1>6
<1>8. n >= 1 => f[1] \in DOMAIN ch \cup {0}
  <2>1. n >= 1 => f[1] = IF f[0] = 0 THEN 0 ELSE Child(v, f[0], path[1])
    BY <1>2, <1>6
  <2>2. Child(v, d, path[1]) \in DOMAIN ch \cup {0}
    BY ChildLands
  <2> QED
    BY <1>1, <1>7, <2>1, <2>2
<1>9. n >= 2 => f[2] \in DOMAIN ch \cup {0}
  <2>1. n >= 2 => f[2] = IF f[1] = 0 THEN 0 ELSE Child(v, f[1], path[2])
    BY <1>2, <1>6
  <2>2. n >= 2 /\ f[1] # 0 => Child(v, f[1], path[2]) \in DOMAIN ch \cup {0}
    BY <1>2, <1>8, ChildLands
  <2> QED
    BY <2>1, <2>2
<1> QED
  BY <1>2, <1>5, <1>7, <1>8, <1>9

-----------------------------------------------------------------------------
(* The directories of a volume.                                            *)

\* No two short slots of a directory have one name.
OneEach(v, ch) ==
  \A d, p, q, x, y : Stands(v, ch, d, p, x) /\ Stands(v, ch, d, q, y) /\ x.sfn = y.sfn => p = q

\* A directory has one entry, and the root none.
OneName(T) == \A e, f \in T : e.obj[1] = "dir" /\ f.obj[1] = "dir" /\ e.obj[2] = f.obj[2] => e = f
NotRoot(T) == \A e \in T : e.obj[1] = "dir" => e.obj[2] # Root

\* The entries of the open files F are where their locks say.
OpenStand(v, ch, F) == \A f \in F : \E x : Stands(v, ch, f.key[1], f.key[2], x) /\ x.obj = f.obj

\* The volume v with the open files F is what the entries T and the stubs N say.
Sound(v, ch, T, N, F, c) ==
  /\ DOMAIN ch = DirsOf(T) /\ Good(v, ch, T, N) /\ NotRoot(T) /\ OpenStand(v, ch, F)
  /\ c \/ (OneEach(v, ch) /\ OneName(T))

TablesSound == \E ch : Sound(Vol, ch, tree, stubs, files, crossed)

LEMMA Committed ==
  ASSUME NEW w, NEW ch, NEW T, NEW N, NEW F, NEW c, Sound(w, ch, T, N, F, c), Commit(w),
         tree' = T, stubs' = N, files' = F, crossed' = c
  PROVE  TablesSound'
<1>1. w = [table |-> w.table, fat |-> w.fat]
  BY DEF Sound, Good, Laid
<1>2. table' = w.table /\ fat' = w.fat
  BY DEF Commit
<1>3. [table |-> table', fat |-> fat'] = w
  BY <1>1, <1>2
<1>4. Sound([table |-> table', fat |-> fat'], ch, tree', stubs', files', crossed')
  BY <1>3
<1> QED
  BY <1>4 DEF TablesSound, Vol

\* The place a path leads to.
IsPlace(at) ==
  /\ at.name \in Short \cup Long /\ at.dir \in DirsOf(tree) /\ at.pos = Find(Vol, at.dir, at.name)

LEMMA WhereLands ==
  ASSUME TablesSound, NEW path \in Paths, NEW at \in Where(path)
  PROVE  IsPlace(at)
<1>1. PICK ch : DOMAIN ch = DirsOf(tree) /\ Good(Vol, ch, tree, stubs)
  BY DEF TablesSound, Sound
<1>2. /\ Len(path) \in 1 .. 2 /\ path[Len(path)] \in Short \cup Long
      /\ path \in Seq(Short \cup Long)
  <2>1. CASE path \in {<<n>> : n \in Names}
    BY <2>1 DEF Names
  <2>2. CASE path \in Names \X Names
    <3>1. PICK a \in Short \cup Long, b \in Short \cup Long : path = <<a, b>>
      BY <2>2 DEF Names
    <3>2. <<a, b>> \in Seq(Short \cup Long) /\ Len(<<a, b>>) = 2 /\ <<a, b>>[2] = b
      OBVIOUS
    <3> QED
      BY <3>1, <3>2
  <2> QED
    BY <2>1, <2>2 DEF Paths
<1>3. Len(Front(path)) \in 0 .. 2
  <2>1. \A i \in 1 .. Len(path) - 1 : path[i] \in Short \cup Long
    BY <1>2
  <2>2. Len(path) - 1 \in Int /\ Len(path) - 1 >= 0
    BY <1>2
  <2>3. Len(SubSeq(path, 1, Len(path) - 1)) = IF 1 <= Len(path) - 1 THEN Len(path) - 1 - 1 + 1 ELSE 0
    BY <2>1, <2>2, SubSeqProperties
  <2> QED
    BY <1>2, <2>3 DEF Front
<1>4. PICK d \in {Follow(Vol, Root, Front(path))} \ {0} :
        at = [name |-> Last(path), dir |-> d, pos |-> Find(Vol, d, Last(path))]
  BY DEF Where
<1>5. Root \in DOMAIN ch
  BY <1>1 DEF DirsOf
<1>6. d \in DirsOf(tree)
  <2>1. Follow(Vol, Root, Front(path)) \in DOMAIN ch \cup {0}
    BY <1>1, <1>3, <1>5, FollowLands
  <2> QED
    BY <1>1, <1>4, <2>1
<1> QED
  BY <1>2, <1>4, <1>6 DEF Last, IsPlace

LEMMA FollowDirectory ==
  ASSUME TablesSound, NEW path \in Paths \cup {<<>>}, NEW c \in {Follow(Vol, Root, path)} \ {0}
  PROVE  c \in DirsOf(tree)
<1>1. PICK ch : DOMAIN ch = DirsOf(tree) /\ Good(Vol, ch, tree, stubs)
  BY DEF TablesSound, Sound
<1>2. Len(path) \in 0 .. 2
  <2>1. CASE path \in {<<n>> : n \in Names}
    BY <2>1
  <2>2. CASE path \in Names \X Names
    BY <2>2
  <2> QED
    BY <2>1, <2>2 DEF Paths
<1>3. Root \in DOMAIN ch
  BY <1>1 DEF DirsOf
<1>4. Follow(Vol, Root, path) \in DOMAIN ch \cup {0}
  BY <1>1, <1>2, <1>3, FollowLands
<1> QED
  BY <1>1, <1>4

-----------------------------------------------------------------------------
(* The operations that make entries.                                       *)

\* A name that is not found gets a short name nobody has.
LEMMA NewShort ==
  ASSUME NEW v, NEW ch, NEW T, NEW N, Good(v, ch, T, N), NEW d \in DOMAIN ch, NEW name \in Short \cup Long,
         Find(v, d, name) = 0, NEW sfn \in Numbered(v, d, name)
  PROVE  \A q, y : Stands(v, ch, d, q, y) => y.sfn # sfn
<1>1. CASE name \in Long
  BY <1>1, NumberedFacts DEF Stands
<1>2. CASE name \notin Long
  <2>1. name \in Short /\ sfn = name
    BY <1>2, NumberedFacts
  <2> QED
    BY <2>1, FindFacts DEF Stands
<1> QED
  BY <1>1, <1>2

LEMMA OpenStay ==
  ASSUME NEW v, NEW ch, NEW w, NEW dh, NEW F, OpenStand(v, ch, F),
         \A e, p, x : Stands(v, ch, e, p, x) => Stands(w, dh, e, p, x)
  PROVE  OpenStand(w, dh, F)
BY DEF OpenStand

LEMMA CreateFileSound ==
  ASSUME TablesSound, ~crossed, NEW at, IsPlace(at), NEW id, CreateFile(at, id)
  PROVE  TablesSound'
<1> DEFINE v == Vol
           d == at.dir
           obj == <<"file", id>>
<1>1. PICK ch : Sound(v, ch, tree, stubs, files, crossed)
  BY DEF TablesSound
<1>2. PICK r \in Register(v, d, at.name, obj) :
        /\ Commit(r.vol) /\ stubs' = StubsAfter(at, r)
        /\ IF r.done
           THEN /\ tree' = tree \cup {Entry(at, r, obj)}
                /\ files' = files \cup {[key |-> <<d, r.pos>>, obj |-> obj, write |-> TRUE, n |-> FreshFil]}
           ELSE tree' = tree /\ files' = files
        /\ crossed' = crossed
  BY DEF CreateFile
<1> DEFINE M == StubsAfter(at, r)
           e0 == Entry(at, r, obj)
           U == IF r.done THEN tree \cup {e0} ELSE tree
<1> HIDE DEF v, obj
<1>3. /\ DOMAIN ch = DirsOf(tree) /\ Good(v, ch, tree, stubs) /\ NotRoot(tree) /\ OpenStand(v, ch, files)
      /\ OneEach(v, ch) /\ OneName(tree)
      /\ d \in DOMAIN ch /\ at.name \in Short \cup Long /\ Find(v, d, at.name) = 0
  BY <1>1 DEF Sound, IsPlace, CreateFile, v
<1>4. /\ M = IF r.begun /\ ~r.done THEN stubs \cup {<<d, at.name>>} ELSE stubs
      /\ e0 = [dir |-> d, name |-> at.name, sfn |-> r.sfn, obj |-> obj]
  BY DEF StubsAfter, Entry
<1>5. obj[1] = "file"
  BY DEF obj
<1> HIDE DEF M, e0
<1>14. Registers(v, ch, tree, stubs, d, at.name, obj, r, M, e0, U)
  BY <1>2, <1>3, <1>4 DEF Registers, v, obj
<1>15. U = IF r.done THEN tree \cup {e0} ELSE tree
  OBVIOUS
<1> HIDE DEF U
<1>6. /\ r.sfn \in Numbered(v, d, at.name) /\ r.done \in BOOLEAN
      /\ \E dh :
           /\ DOMAIN dh = DOMAIN ch /\ Good(r.vol, dh, U, M)
           /\ \A e, p, x : Stands(r.vol, dh, e, p, x) <=>
                \/ Stands(v, ch, e, p, x)
                \/ r.done /\ e = d /\ p = r.pos /\ x = Sfn(r.sfn, obj)
           /\ r.done => Stands(r.vol, dh, d, r.pos, Sfn(r.sfn, obj))
  BY <1>14, RegisterGood
<1>7. PICK dh :
           /\ DOMAIN dh = DOMAIN ch /\ Good(r.vol, dh, U, M)
           /\ \A e, p, x : Stands(r.vol, dh, e, p, x) <=>
                \/ Stands(v, ch, e, p, x)
                \/ r.done /\ e = d /\ p = r.pos /\ x = Sfn(r.sfn, obj)
           /\ r.done => Stands(r.vol, dh, d, r.pos, Sfn(r.sfn, obj))
  BY <1>6
<1>8. OneEach(r.vol, dh)
  <2>1. \A q, y : Stands(v, ch, d, q, y) => y.sfn # Sfn(r.sfn, obj).sfn
    BY <1>3, <1>6, NewShort, SlotKinds
  <2>2. CASE r.done
    <3>1. PICK slot : slot = Sfn(r.sfn, obj)
      OBVIOUS
    <3>2. \A e, p, x : Stands(r.vol, dh, e, p, x) <=> Stands(v, ch, e, p, x) \/ (e = d /\ p = r.pos /\ x = slot)
      BY <1>7, <2>2, <3>1
    <3>3. \A q, y : Stands(v, ch, d, q, y) => y.sfn # slot.sfn
      BY <2>1, <3>1
    <3> QED
      BY <1>3, <3>2, <3>3 DEF OneEach
  <2>3. CASE ~r.done
    BY <1>3, <1>7, <2>3 DEF OneEach
  <2> QED
    BY <2>2, <2>3
<1>9. e0.obj = obj /\ DirsOf(U) = DirsOf(tree) /\ NotRoot(U) /\ OneName(U)
  <2>1. e0.obj = obj /\ e0.obj[1] # "dir"
    BY <1>4, <1>5
  <2> QED
    BY <1>3, <1>15, <2>1 DEF DirsOf, NotRoot, OneName
<1>10. tree' = U /\ stubs' = M
  BY <1>2 DEF U, M, e0, v, obj
<1>11. OpenStand(r.vol, dh, files')
  <2>1. OpenStand(r.vol, dh, files)
    BY <1>3, <1>7, OpenStay
  <2>2. CASE r.done
    <3> DEFINE f == [key |-> <<d, r.pos>>, obj |-> obj, write |-> TRUE, n |-> FreshFil]
    <3>1. files' = files \cup {f}
      BY <1>2, <2>2 DEF v, obj
    <3>2. f.key[1] = d /\ f.key[2] = r.pos /\ f.obj = obj
      OBVIOUS
    <3>3. Stands(r.vol, dh, d, r.pos, Sfn(r.sfn, obj)) /\ Sfn(r.sfn, obj).obj = obj
      BY <1>7, <2>2, SlotKinds
    <3> HIDE DEF f
    <3> QED
      BY <2>1, <3>1, <3>2, <3>3 DEF OpenStand
  <2>3. CASE ~r.done
    BY <1>2, <2>1, <2>3
  <2> QED
    BY <2>2, <2>3
<1>12. Sound(r.vol, dh, U, M, files', crossed)
  BY <1>3, <1>7, <1>8, <1>9, <1>11 DEF Sound
<1>13. Commit(r.vol) /\ crossed' = crossed
  BY <1>2
<1> QED
  BY <1>10, <1>12, <1>13, Committed

\* What f_mkdir and f_unlink do with the clusters of a directory that is given up.
Drops(v, c, w) == w = v \/ w = RemoveChain(v, c) \/ w = [v EXCEPT !.fat[c] = 0]

GivesUp(v, ch, T, N, c, w) ==
  Good(v, ch, T, N) /\ c \in DOMAIN ch /\ (\A e \in T : e.dir # c) /\ Drops(v, c, w)

\* The other directories stay as they are.
GivenUp(v, ch, T, N, c, w) ==
  \E dh : /\ Good(w, dh, T, N) /\ DOMAIN dh = DOMAIN ch \ {c}
          /\ \A e, p, x : Stands(w, dh, e, p, x) <=> e # c /\ Stands(v, ch, e, p, x)

\* A directory that is given up, and its clusters with it or not.
LEMMA DropGood ==
  ASSUME NEW v, NEW ch, NEW T, NEW N, NEW c, NEW w, GivesUp(v, ch, T, N, c, w)
  PROVE  GivenUp(v, ch, T, N, c, w)
<1> SUFFICES ASSUME Good(v, ch, T, N), c \in DOMAIN ch, \A e \in T : e.dir # c, Drops(v, c, w)
             PROVE  \E dh : /\ Good(w, dh, T, N) /\ DOMAIN dh = DOMAIN ch \ {c}
                            /\ \A e, p, x : Stands(w, dh, e, p, x) <=> e # c /\ Stands(v, ch, e, p, x)
  BY DEF GivesUp, GivenUp
<1> DEFINE D == DOMAIN ch \ {c}
           dh == [d \in D |-> ch[d]]
<1>1. Laid(v, ch)
  BY DEF Good
<1>2. /\ v = [table |-> v.table, fat |-> v.fat] /\ v.fat \in [Clusters -> Clusters \cup {0, Eoc}]
      /\ \A d \in D : \A i \in 1 .. Len(ch[d]), j \in 1 .. Len(ch[c]) : ch[d][i] # ch[c][j]
  BY <1>1 DEF Laid
<1>3. /\ Chain(v, c) = ch[c] /\ c \in Clusters
      /\ \A d \in DOMAIN ch : \A i \in 1 .. Len(ch[d]) : ch[d][i] \in Clusters
  BY <1>1, LaidSlots
\* What changes is the FAT entry of the chain's own clusters.
<1>4. \E own \in SUBSET {ch[c][j] : j \in 1 .. Len(ch[c])} :
         w = [table |-> v.table, fat |-> [x \in Clusters |-> IF x \in own THEN 0 ELSE v.fat[x]]]
  <2>1. CASE w = v
    <3>1. v.fat = [x \in Clusters |-> IF x \in {} THEN 0 ELSE v.fat[x]]
      BY <1>2
    <3>2. w = [table |-> v.table, fat |-> [x \in Clusters |-> IF x \in {} THEN 0 ELSE v.fat[x]]]
      BY <1>2, <2>1, <3>1
    <3>3. {} \in SUBSET {ch[c][j] : j \in 1 .. Len(ch[c])}
      OBVIOUS
    <3> QED
      BY <3>2, <3>3
  <2>2. CASE w = RemoveChain(v, c)
    <3> DEFINE own == {ch[c][j] : j \in 1 .. Len(ch[c])}
               g == [x \in Clusters |-> IF x \in own THEN 0 ELSE v.fat[x]]
    <3>1. ClustersOf(v, c) = own
      BY <1>3 DEF ClustersOf
    <3>2. w = [v EXCEPT !.fat = g]
      BY <2>2, <3>1 DEF RemoveChain
    <3> HIDE DEF g
    <3>3. w = [table |-> v.table, fat |-> g]
      BY <1>2, <3>2
    <3> QED
      BY <3>3 DEF g
  <2>3. CASE w = [v EXCEPT !.fat[c] = 0]
    <3>1. {c} \in SUBSET {ch[c][j] : j \in 1 .. Len(ch[c])}
      <4>1. ch[c][1] = c /\ Len(ch[c]) \in Nat /\ Len(ch[c]) > 0
        BY <1>1, LaidSlots DEF Laid
      <4>2. 1 \in 1 .. Len(ch[c])
        BY <4>1
      <4> QED
        BY <4>1, <4>2
    <3>2. w = [table |-> v.table, fat |-> [v.fat EXCEPT ![c] = 0]]
      BY <1>2, <2>3
    <3>3. [v.fat EXCEPT ![c] = 0] = [x \in Clusters |-> IF x \in {c} THEN 0 ELSE v.fat[x]]
      BY <1>2
    <3>4. w = [table |-> v.table, fat |-> [x \in Clusters |-> IF x \in {c} THEN 0 ELSE v.fat[x]]]
      BY <3>2, <3>3
    <3> QED
      BY <3>1, <3>4
  <2> QED
    BY <2>1, <2>2, <2>3 DEF Drops
<1>5. PICK own \in SUBSET {ch[c][j] : j \in 1 .. Len(ch[c])} :
         w = [table |-> v.table, fat |-> [x \in Clusters |-> IF x \in own THEN 0 ELSE v.fat[x]]]
  BY <1>4
<1>6. w.fat = [x \in Clusters |-> IF x \in own THEN 0 ELSE v.fat[x]] /\ Changed(w, v)
  BY <1>5 DEF Changed
<1>7. w.fat \in [Clusters -> Clusters \cup {0, Eoc}]
  BY <1>2, <1>6
<1>8. \A d \in D : \A i \in 1 .. Len(ch[d]) : w.fat[ch[d][i]] = v.fat[ch[d][i]]
  BY <1>2, <1>3, <1>6
<1>9. D \subseteq DOMAIN ch /\ \A e \in T : e.dir \in D
  BY DEF Good
<1>12. PICK eh : eh = dh
  OBVIOUS
<1> HIDE DEF D
<1>13. eh = [d \in D |-> ch[d]]
  BY <1>12
<1> HIDE DEF dh
<1>10. /\ Good(w, eh, T, N) /\ DOMAIN eh = D
       /\ \A e, p, x : Stands(w, eh, e, p, x) <=> e \in D /\ Stands(v, ch, e, p, x)
  <2>1. Lessens(v, ch, T, N, D, w, eh)
    BY <1>6, <1>7, <1>8, <1>9, <1>13 DEF Lessens
  <2> QED
    BY <2>1, LessGood
<1>11. \A e, p, x : Stands(v, ch, e, p, x) => e \in DOMAIN ch
  BY DEF Stands
<1> QED
  BY <1>10, <1>11 DEF D

\* What stands nowhere else keeps the names apart.
LEMMA FewerOnce ==
  ASSUME NEW v, NEW ch, NEW w, NEW dh, OneEach(v, ch),
         \A e, p, x : Stands(w, dh, e, p, x) => Stands(v, ch, e, p, x)
  PROVE  OneEach(w, dh)
BY DEF OneEach

LEMMA MkDirSound ==
  ASSUME TablesSound, ~crossed, NEW at, IsPlace(at), MkDir(at)
  PROVE  TablesSound'
<1> DEFINE v == Vol
           d == at.dir
           c == Least(Unused(v))
           obj == <<"dir", c>>
           made == WithDots(d, c)
           results == Register(made, d, at.name, obj)
<1>1. PICK ch : Sound(v, ch, tree, stubs, files, crossed)
  BY DEF TablesSound
<1>2. /\ DOMAIN ch = DirsOf(tree) /\ Good(v, ch, tree, stubs) /\ NotRoot(tree) /\ OpenStand(v, ch, files)
      /\ OneEach(v, ch) /\ OneName(tree)
      /\ d \in DOMAIN ch /\ at.name \in Short \cup Long /\ Find(v, d, at.name) = 0
  BY <1>1 DEF Sound, IsPlace, MkDir
<1>3. c \in Clusters /\ v.fat[c] = 0
  BY LeastUnused DEF MkDir
<1>4. files' = files /\ crossed' = crossed
  BY DEF MkDir
<1>5. \/ /\ Commit([made EXCEPT !.fat[c] = 0])
         /\ tree' = tree /\ stubs' = stubs
      \/ \E r \in results :
           /\ stubs' = StubsAfter(at, r)
           /\ IF r.done
              THEN Commit(r.vol) /\ tree' = tree \cup {Entry(at, r, obj)}
              ELSE /\ Commit([r.vol EXCEPT !.fat[c] = 0]) \/ Commit(r.vol)
                   /\ tree' = tree
  BY DEF MkDir
<1>6. made = [NewCluster(v, c) EXCEPT !.table[c] = DotsOf(d, c)]
  BY DEF WithDots
<1>7. obj[1] = "dir" /\ obj[2] = c
  OBVIOUS
<1> HIDE DEF v, c, obj, made, results
<1>8. PICK dh : dh = [e \in DOMAIN ch \cup {c} |-> IF e = c THEN <<c>> ELSE ch[e]]
  OBVIOUS
<1>9. /\ Good(made, dh, tree, stubs) /\ c \notin DOMAIN ch /\ DOMAIN dh = DOMAIN ch \cup {c}
      /\ \A e, p, x : Stands(made, dh, e, p, x) <=> Stands(v, ch, e, p, x)
  BY <1>2, <1>3, <1>6, <1>8, NewGood
<1>10. \A p, x : ~Stands(v, ch, c, p, x)
  BY <1>9 DEF Stands
<1>11. \A e \in tree : e.dir # c
  BY <1>2, <1>9 DEF Good
\* The new directory is given up.
<1>12. ASSUME NEW w, NEW eh, NEW M, Good(w, eh, tree, M), DOMAIN eh = DOMAIN ch \cup {c},
              \A e, p, x : Stands(w, eh, e, p, x) <=> Stands(v, ch, e, p, x),
              NEW u, u = w \/ u = [w EXCEPT !.fat[c] = 0],
              Commit(u), tree' = tree, stubs' = M
       PROVE  TablesSound'
  <2>1. c \in DOMAIN eh
    BY <1>12
  <2>2. PICK fh : /\ Good(u, fh, tree, M) /\ DOMAIN fh = DOMAIN eh \ {c}
                  /\ \A e, p, x : Stands(u, fh, e, p, x) <=> e # c /\ Stands(w, eh, e, p, x)
    <3>1. Drops(w, c, u)
      BY <1>12 DEF Drops
    <3>2. GivesUp(w, eh, tree, M, c, u)
      BY <1>11, <1>12, <2>1, <3>1 DEF GivesUp
    <3>3. GivenUp(w, eh, tree, M, c, u)
      BY <3>2, DropGood
    <3> QED
      BY <3>3 DEF GivenUp
  <2>3. DOMAIN fh = DirsOf(tree)
    BY <1>2, <1>9, <1>12, <2>2
  <2>4. \A e, p, x : Stands(u, fh, e, p, x) <=> Stands(v, ch, e, p, x)
    BY <1>10, <1>12, <2>2
  <2>5. OneEach(u, fh) /\ OpenStand(u, fh, files)
    BY <1>2, <2>4, FewerOnce, OpenStay
  <2>6. Sound(u, fh, tree, M, files, crossed)
    BY <1>2, <2>2, <2>3, <2>5 DEF Sound
  <2> QED
    BY <1>4, <1>12, <2>6, Committed
<1>13. CASE Commit([made EXCEPT !.fat[c] = 0]) /\ tree' = tree /\ stubs' = stubs
  BY <1>9, <1>12, <1>13
<1>14. ASSUME NEW r \in results, stubs' = StubsAfter(at, r),
              IF r.done
              THEN Commit(r.vol) /\ tree' = tree \cup {Entry(at, r, obj)}
              ELSE /\ Commit([r.vol EXCEPT !.fat[c] = 0]) \/ Commit(r.vol)
                   /\ tree' = tree
       PROVE  TablesSound'
  <2> DEFINE M == StubsAfter(at, r)
             e0 == Entry(at, r, obj)
             U == IF r.done THEN tree \cup {e0} ELSE tree
  <2>1. /\ M = IF r.begun /\ ~r.done THEN stubs \cup {<<d, at.name>>} ELSE stubs
        /\ e0 = [dir |-> d, name |-> at.name, sfn |-> r.sfn, obj |-> obj]
        /\ U = IF r.done THEN tree \cup {e0} ELSE tree
    BY DEF StubsAfter, Entry
  <2>2. tree' = U /\ stubs' = M /\ e0.obj = obj
    BY <1>14, <2>1
  <2> HIDE DEF M, e0, U
  <2>3. Registers(made, dh, tree, stubs, d, at.name, obj, r, M, e0, U)
    BY <1>2, <1>9, <1>14, <2>1 DEF Registers, results
  <2>4. /\ r.sfn \in Numbered(made, d, at.name) /\ r.done \in BOOLEAN
        /\ \E eh :
             /\ DOMAIN eh = DOMAIN dh /\ Good(r.vol, eh, U, M)
             /\ \A e, p, x : Stands(r.vol, eh, e, p, x) <=>
                  \/ Stands(made, dh, e, p, x)
                  \/ r.done /\ e = d /\ p = r.pos /\ x = Sfn(r.sfn, obj)
    BY <2>3, RegisterGood
  <2>5. PICK eh :
             /\ DOMAIN eh = DOMAIN dh /\ Good(r.vol, eh, U, M)
             /\ \A e, p, x : Stands(r.vol, eh, e, p, x) <=>
                  \/ Stands(made, dh, e, p, x)
                  \/ r.done /\ e = d /\ p = r.pos /\ x = Sfn(r.sfn, obj)
    BY <2>4
  <2>6. CASE ~r.done
    <3>1. U = tree
      BY <2>1, <2>6
    <3>2. \A e, p, x : Stands(r.vol, eh, e, p, x) <=> Stands(v, ch, e, p, x)
      BY <1>9, <2>5, <2>6
    <3>3. PICK u : (u = r.vol \/ u = [r.vol EXCEPT !.fat[c] = 0]) /\ Commit(u)
      BY <1>14, <2>6
    <3> QED
      BY <1>9, <1>12, <2>2, <2>5, <3>1, <3>2, <3>3
  <2>7. CASE r.done
    <3>1. \A q, y : Stands(v, ch, d, q, y) => y.sfn # r.sfn
      <4>1. CASE at.name \in Long
        <5>1. \A q \in 1 .. Size(dh, d) : Table(made, dh, d)[q].kind = "sfn" => Table(made, dh, d)[q].sfn # r.sfn
          BY <1>2, <1>9, <2>4, <4>1, NumberedFacts
        <5>2. \A q, y : Stands(made, dh, d, q, y) => y.sfn # r.sfn
          BY <5>1 DEF Stands
        <5> QED
          BY <1>9, <5>2
      <4>2. CASE at.name \notin Long
        <5>1. at.name \in Short /\ r.sfn = at.name
          BY <1>2, <1>9, <2>4, <4>2, NumberedFacts
        <5> QED
          BY <1>2, <5>1, FindFacts DEF Stands
      <4> QED
        BY <4>1, <4>2
    <3>2. PICK slot : slot = Sfn(r.sfn, obj)
      OBVIOUS
    <3>3. \A e, p, x : Stands(r.vol, eh, e, p, x) <=> Stands(v, ch, e, p, x) \/ (e = d /\ p = r.pos /\ x = slot)
      BY <1>9, <2>5, <2>7, <3>2
    <3>4. \A q, y : Stands(v, ch, d, q, y) => y.sfn # slot.sfn
      BY <3>1, <3>2, SlotKinds
    <3>5. OneEach(r.vol, eh)
      BY <1>2, <3>3, <3>4 DEF OneEach
    <3>6. OpenStand(r.vol, eh, files)
      BY <1>2, <3>3, OpenStay
    <3>7. U = tree \cup {e0}
      BY <2>1, <2>7
    <3>8. DirsOf(U) = DirsOf(tree) \cup {c} /\ c \notin DirsOf(tree)
      BY <1>2, <1>7, <1>9, <2>2, <3>7 DEF DirsOf
    <3>9. NotRoot(U) /\ OneName(U)
      <4>1. \A e \in tree : e.obj[1] = "dir" => e.obj[2] # c
        BY <3>8 DEF DirsOf
      <4>2. c # Root
        BY <3>8 DEF DirsOf
      <4>3. NotRoot(U)
        BY <1>2, <1>7, <2>2, <3>7, <4>2 DEF NotRoot
      <4>4. OneName(U)
        BY <1>2, <1>7, <2>2, <3>7, <4>1 DEF OneName
      <4> QED
        BY <4>3, <4>4
    <3>10. Sound(r.vol, eh, U, M, files, crossed)
      BY <1>2, <1>9, <2>5, <3>5, <3>6, <3>8, <3>9 DEF Sound
    <3>11. Commit(r.vol)
      BY <1>14, <2>7
    <3> QED
      BY <1>4, <2>2, <3>10, <3>11, Committed
  <2> QED
    BY <2>4, <2>6, <2>7
<1> QED
  BY <1>5, <1>13, <1>14

-----------------------------------------------------------------------------
(* The operations that remove entries.                                     *)

\* The entry that a path has found.
LEMMA PlaceStands ==
  ASSUME NEW ch, NEW T, NEW N, Good(Vol, ch, T, N), NEW d \in DOMAIN ch, NEW name, NEW p, p # 0,
         p = Find(Vol, d, name)
  PROVE  /\ Stands(Vol, ch, d, p, DirSlots(Vol, d)[p])
         /\ Object(Vol, d, p) = DirSlots(Vol, d)[p].obj
         /\ \/ FullRun(Table(Vol, ch, d), p, name, Table(Vol, ch, d)[p].sfn)
            \/ name \in Short /\ Table(Vol, ch, d)[p].sfn = name
<1>1. DirSlots(Vol, d) = Table(Vol, ch, d)
  BY GoodTable
<1>2. /\ Stands(Vol, ch, d, p, Table(Vol, ch, d)[p])
      /\ \/ FullRun(Table(Vol, ch, d), p, name, Table(Vol, ch, d)[p].sfn)
         \/ name \in Short /\ Table(Vol, ch, d)[p].sfn = name
  BY FindFacts
<1> QED
  BY <1>1, <1>2 DEF Object

\* The entries of the history with the short name of a short slot are that slot's.
EntriesOf(T, d, z) == {e \in T : e.dir = d /\ e.sfn = z.sfn}

LEMMA NamedFacts ==
  ASSUME NEW v, NEW ch, NEW T, NEW N, Good(v, ch, T, N), OneEach(v, ch), NEW d, NEW p, NEW z, Stands(v, ch, d, p, z)
  PROVE  /\ EntriesOf(T, d, z) # {}
         /\ \A e \in EntriesOf(T, d, z) : IsEntry(e) /\ e.obj = z.obj /\ z = Sfn(e.sfn, e.obj)
<1>1. d \in DOMAIN ch /\ p \in 1 .. Size(ch, d) /\ Table(v, ch, d)[p] = z /\ z.kind = "sfn"
  BY DEF Stands
<1>2. EntriesOf(T, d, z) # {}
  <2>1. PICK e \in T : e.dir = d /\ Tells(Table(v, ch, d), p, e, StubsOf(N, d))
    BY <1>1 DEF Good
  <2>2. z.sfn = e.sfn
    BY <1>1, <2>1, SlotKinds DEF Tells
  <2> QED
    BY <2>1, <2>2 DEF EntriesOf
<1>3. ASSUME NEW e \in EntriesOf(T, d, z)
      PROVE  IsEntry(e) /\ e.obj = z.obj /\ z = Sfn(e.sfn, e.obj)
  <2>1. e \in T /\ e.dir = d /\ e.sfn = z.sfn
    BY DEF EntriesOf
  <2>2. IsEntry(e) /\ \E q \in 1 .. Size(ch, e.dir) : Holds(Table(v, ch, e.dir), q, e)
    BY <2>1 DEF Good
  <2>3. PICK q \in 1 .. Size(ch, d) : Table(v, ch, d)[q] = Sfn(e.sfn, e.obj)
    BY <2>1, <2>2 DEF Holds
  <2>4. Stands(v, ch, d, q, Sfn(e.sfn, e.obj)) /\ Sfn(e.sfn, e.obj).sfn = z.sfn
    BY <1>1, <2>1, <2>3, SlotKinds DEF Stands
  <2>5. q = p
    BY <2>4 DEF OneEach
  <2> QED
    BY <1>1, <2>2, <2>3, <2>5, SlotKinds
<1> QED
  BY <1>2, <1>3

\* What a removal cut short leaves in the history.
LEMMA ShortenedFacts ==
  ASSUME NEW M, \A e \in M : IsEntry(e)
  PROVE  /\ \A f \in Shortened(M) : \E e \in M : f = [e EXCEPT !.name = e.sfn] /\ f.obj = e.obj
         /\ \A e \in M : \E f \in Shortened(M) : f.obj = e.obj
<1>1. ASSUME NEW e \in M PROVE [e EXCEPT !.name = e.sfn].obj = e.obj
  <2>1. e = [dir |-> e.dir, name |-> e.name, sfn |-> e.sfn, obj |-> e.obj]
    BY DEF IsEntry
  <2>2. PICK a, b, s, o : e = [dir |-> a, name |-> b, sfn |-> s, obj |-> o]
    BY <2>1
  <2> QED
    BY <2>2
<1> QED
  BY <1>1 DEF Shortened

\* The directories and their entries after a removal that is not done.
LEMMA LessNames ==
  ASSUME NEW T, \A e \in T : IsEntry(e), NEW M, M \subseteq T, NEW x, ~x.done, NEW Y, Y \subseteq T
  PROVE  /\ DirsOf(Less(T, x, M, Y)) = DirsOf(T)
         /\ NotRoot(T) => NotRoot(Less(T, x, M, Y))
         /\ OneName(T) /\ Y = {} => OneName(Less(T, x, M, Y))
<1>1. /\ \A f \in Shortened(M) : \E e \in M : f = [e EXCEPT !.name = e.sfn] /\ f.obj = e.obj
      /\ \A e \in M : \E f \in Shortened(M) : f.obj = e.obj
  BY ShortenedFacts
<1>2. CASE ~x.begun
  <2>1. Less(T, x, M, Y) = T
    BY <1>2 DEF Less
  <2> QED
    BY <2>1
<1>3. CASE x.begun
  <2> DEFINE U == Less(T, x, M, Y)
  <2>1. U = (T \ M) \cup Shortened(M) \cup Y
    BY <1>3 DEF Less
  <2> HIDE DEF U
  <2>2. \A f \in U : \E e \in T : f.obj = e.obj
    BY <1>1, <2>1
  <2>3. \A e \in T : \E f \in U : f.obj = e.obj
    BY <1>1, <2>1
  <2>4. DirsOf(U) = DirsOf(T)
    BY <2>2, <2>3 DEF DirsOf
  <2>5. NotRoot(T) => NotRoot(U)
    BY <2>2 DEF NotRoot
  <2>6. ASSUME OneName(T), Y = {} PROVE OneName(U)
    <3> SUFFICES ASSUME NEW e \in U, NEW f \in U, e.obj[1] = "dir", f.obj[1] = "dir", e.obj[2] = f.obj[2]
                 PROVE  e = f
      BY DEF OneName
    <3>1. CASE e \in T \ M /\ f \in T \ M
      BY <2>6, <3>1 DEF OneName
    <3>2. CASE e \in T \ M /\ f \in Shortened(M)
      <4>1. PICK g \in M : f.obj = g.obj
        BY <1>1, <3>2
      <4>2. e = g
        BY <2>6, <3>2, <4>1 DEF OneName
      <4> QED
        BY <3>2, <4>2
    <3>3. CASE f \in T \ M /\ e \in Shortened(M)
      <4>1. PICK g \in M : e.obj = g.obj
        BY <1>1, <3>3
      <4>2. f = g
        BY <2>6, <3>3, <4>1 DEF OneName
      <4> QED
        BY <3>3, <4>2
    <3>4. CASE e \in Shortened(M) /\ f \in Shortened(M)
      <4>1. PICK g \in M : e = [g EXCEPT !.name = g.sfn] /\ e.obj = g.obj
        BY <1>1, <3>4
      <4>2. PICK h \in M : f = [h EXCEPT !.name = h.sfn] /\ f.obj = h.obj
        BY <1>1, <3>4
      <4>3. g = h
        BY <2>6, <4>1, <4>2 DEF OneName
      <4> QED
        BY <4>1, <4>2, <4>3
    <3> QED
      BY <2>1, <2>6, <3>1, <3>2, <3>3, <3>4
  <2> QED
    BY <2>4, <2>5, <2>6 DEF U
<1> QED
  BY <1>2, <1>3

\* The locks of the open files.
KeysLocked == \A f \in files : f.key \in DOMAIN locks /\ f.key = <<f.key[1], f.key[2]>>

\* An entry without a lock is no open file's.
LEMMA NotOpen ==
  ASSUME KeysLocked, NEW d, NEW p, NotShared(d, p), NEW f \in files
  PROVE  ~(f.key[1] = d /\ f.key[2] = p)
BY DEF KeysLocked, NotShared

LEMMA UnlinkSound ==
  ASSUME TablesSound, KeysLocked, ~crossed, NEW at, IsPlace(at), Unlink(at)
  PROVE  TablesSound'
<1> DEFINE v == Vol
           d == at.dir
           p == at.pos
           z == DirSlots(v, d)[p]
           obj == Object(v, d, p)
           M == Named(d, p)
<1>1. PICK ch : Sound(v, ch, tree, stubs, files, crossed)
  BY DEF TablesSound
<1>2. /\ DOMAIN ch = DirsOf(tree) /\ Good(v, ch, tree, stubs) /\ NotRoot(tree) /\ OpenStand(v, ch, files)
      /\ OneEach(v, ch) /\ OneName(tree)
      /\ d \in DOMAIN ch /\ p # 0 /\ p = Find(v, d, at.name) /\ NotShared(d, p)
  BY <1>1 DEF Sound, IsPlace, Unlink
<1>3. PICK x \in RemoveEntry(v, d, p) :
        /\ \/ x.done /\ obj[1] = "dir" /\ Commit(RemoveChain(x.vol, obj[2]))
           \/ Commit(x.vol)
        /\ tree' = TreeWithout(d, p, x)
  BY DEF Unlink
<1>4. /\ obj[1] = "dir" => Entries(DirSlots(v, obj[2])) = {}
      /\ files' = files /\ stubs' = stubs /\ crossed' = crossed
  BY DEF Unlink
<1>5. /\ Stands(v, ch, d, p, z) /\ obj = z.obj
  BY <1>2, PlaceStands
<1>6. M = EntriesOf(tree, d, z)
  BY DEF Named, EntriesOf
<1>7. tree' = Less(tree, x, M, {})
  BY <1>3 DEF TreeWithout, Less
<1> HIDE DEF v, z, obj, M
<1>8. M # {} /\ M \subseteq tree /\ \A e \in M : e.dir = d /\ e.sfn = z.sfn /\ IsEntry(e) /\ e.obj = obj /\ z = Sfn(e.sfn, e.obj)
  <2>1. M # {} /\ \A e \in M : IsEntry(e) /\ e.obj = z.obj /\ z = Sfn(e.sfn, e.obj)
    BY <1>2, <1>5, <1>6, NamedFacts
  <2> QED
    BY <1>5, <1>6, <2>1 DEF EntriesOf
<1>9. Table(v, ch, d)[p] = z /\ z.kind = "sfn" /\ p \in 1 .. Size(ch, d)
  BY <1>5 DEF Stands
<1>10. Removable(v, ch, tree, stubs, d, p, M, {})
  <2>1. ASSUME NEW e \in tree \ M
        PROVE  \E q \in 1 .. Size(ch, e.dir) : (e.dir # d \/ q # p) /\ Holds(Table(v, ch, e.dir), q, e)
    <3>1. PICK q \in 1 .. Size(ch, e.dir) : Holds(Table(v, ch, e.dir), q, e)
      BY <1>2 DEF Good
    <3>2. ~(e.dir = d /\ q = p)
      <4> SUFFICES ASSUME e.dir = d, q = p PROVE FALSE
        OBVIOUS
      <4>1. z.sfn = e.sfn
        BY <1>9, <3>1, SlotKinds DEF Holds
      <4> QED
        BY <1>6, <4>1 DEF EntriesOf
    <3> QED
      BY <3>1, <3>2
  <2>2. ASSUME NEW f \in DOMAIN ch, NEW q \in 1 .. Size(ch, f), Table(v, ch, f)[q].kind = "sfn", f # d \/ q # p
        PROVE  \E e \in tree \ M : e.dir = f /\ Tells(Table(v, ch, f), q, e, StubsOf(stubs, f))
    <3>1. PICK e \in tree : e.dir = f /\ Tells(Table(v, ch, f), q, e, StubsOf(stubs, f))
      BY <1>2, <2>2 DEF Good
    <3>2. e \notin M
      <4> SUFFICES ASSUME e \in M PROVE FALSE
        OBVIOUS
      <4>1. f = d /\ e.sfn = z.sfn
        BY <1>8, <3>1
      <4>2. Table(v, ch, f)[q].sfn = e.sfn
        BY <3>1, SlotKinds DEF Tells
      <4>3. Stands(v, ch, d, q, Table(v, ch, f)[q])
        BY <2>2, <4>1 DEF Stands
      <4>4. q = p
        BY <1>2, <1>5, <4>1, <4>2, <4>3 DEF OneEach
      <4> QED
        BY <2>2, <4>1, <4>4
    <3> QED
      BY <3>1, <3>2
  <2> QED
    BY <1>2, <1>8, <1>9, <2>1, <2>2 DEF Removable
<1> DEFINE U == Less(tree, x, M, {})
<1>11. /\ Good(x.vol, ch, U, stubs) /\ x.done \in BOOLEAN
       /\ \A e, q, y : Stands(x.vol, ch, e, q, y) <=> Stands(v, ch, e, q, y) /\ ~(x.done /\ e = d /\ q = p)
  BY <1>3, <1>10, RemoveGood DEF v
<1>12. \A e \in tree : IsEntry(e)
  BY <1>2 DEF Good
<1>13. ASSUME NEW f \in files PROVE ~(f.key[1] = d /\ f.key[2] = p)
  BY <1>2, NotOpen
\* The directory stays, or was none.
<1>14. CASE Commit(x.vol) /\ (~x.done \/ obj[1] # "dir")
  <2>1. OneEach(x.vol, ch)
    BY <1>2, <1>11, FewerOnce
  <2>2. OpenStand(x.vol, ch, files)
    BY <1>2, <1>11, <1>13 DEF OpenStand
  <2>3. DirsOf(U) = DirsOf(tree) /\ NotRoot(U) /\ OneName(U)
    <3>1. CASE ~x.done
      BY <1>2, <1>8, <1>12, <3>1, LessNames
    <3>2. CASE x.done /\ obj[1] # "dir"
      <4>1. U = tree \ M
        BY <3>2 DEF Less
      <4> HIDE DEF U
      <4> QED
        BY <1>2, <1>8, <3>2, <4>1 DEF DirsOf, NotRoot, OneName
    <3> QED
      BY <1>14, <3>1, <3>2, <1>11
  <2> HIDE DEF U
  <2>4. Sound(x.vol, ch, U, stubs, files, crossed)
    BY <1>2, <1>11, <2>1, <2>2, <2>3 DEF Sound
  <2> QED
    BY <1>4, <1>7, <1>14, <2>4, Committed DEF U
\* The empty directory goes with its entry.
<1>15. ASSUME x.done, obj[1] = "dir", NEW w, w = x.vol \/ w = RemoveChain(x.vol, obj[2]), Commit(w)
       PROVE  TablesSound'
  <2> DEFINE c == obj[2]
  <2>1. U = tree \ M
    BY <1>15 DEF Less
  <2> HIDE DEF U, c
  <2>2. PICK e0 \in M : e0.obj = obj
    BY <1>8
  <2>3. c \in DOMAIN ch /\ c # Root
    BY <1>2, <1>8, <1>15, <2>2 DEF DirsOf, NotRoot, c
  <2>4. \A q, y : ~Stands(v, ch, c, q, y)
    <3>1. {q \in 1 .. Size(ch, c) : Table(v, ch, c)[q].kind = "sfn"} = {}
      <4>1. Entries(DirSlots(v, c)) = {q \in 1 .. Size(ch, c) : Table(v, ch, c)[q].kind = "sfn"}
        BY <1>2, <2>3, AllReached
      <4> QED
        BY <1>4, <1>15, <4>1 DEF c
    <3> QED
      BY <3>1 DEF Stands
  <2>5. \A e \in tree : e.dir # c
    <3> SUFFICES ASSUME NEW e \in tree, e.dir = c PROVE FALSE
      OBVIOUS
    <3>1. PICK q \in 1 .. Size(ch, c) : Holds(Table(v, ch, c), q, e)
      BY <1>2 DEF Good
    <3>2. Stands(v, ch, c, q, Sfn(e.sfn, e.obj))
      BY <2>3, <3>1, SlotKinds DEF Holds, Stands
    <3> QED
      BY <2>4, <3>2
  <2>6. PICK dh : /\ Good(w, dh, U, stubs) /\ DOMAIN dh = DOMAIN ch \ {c}
                  /\ \A e, q, y : Stands(w, dh, e, q, y) <=> e # c /\ Stands(x.vol, ch, e, q, y)
    <3>1. \A e \in U : e.dir # c
      BY <2>1, <2>5
    <3>2. Drops(x.vol, c, w)
      BY <1>15 DEF c, Drops
    <3>3. GivesUp(x.vol, ch, U, stubs, c, w)
      BY <1>11, <2>3, <3>1, <3>2 DEF GivesUp
    <3>4. GivenUp(x.vol, ch, U, stubs, c, w)
      BY <3>3, DropGood
    <3> QED
      BY <3>4 DEF GivenUp
  <2>7. DirsOf(U) = DirsOf(tree) \ {c} /\ NotRoot(U) /\ OneName(U)
    <3>1. \A e \in tree : e.obj[1] = "dir" => (e.obj[2] = c <=> e \in M)
      BY <1>2, <1>8, <1>15, <2>2 DEF OneName, c
    <3>2. NotRoot(U) /\ OneName(U)
      BY <1>2, <2>1 DEF NotRoot, OneName
    <3>3. DirsOf(U) = DirsOf(tree) \ {c}
      BY <2>1, <2>3, <3>1 DEF DirsOf
    <3> QED
      BY <3>2, <3>3
  <2>8. OneEach(w, dh)
    BY <1>2, <1>11, <2>6, FewerOnce
  <2>9. OpenStand(w, dh, files)
    <3> SUFFICES ASSUME NEW f \in files PROVE \E y : Stands(w, dh, f.key[1], f.key[2], y) /\ y.obj = f.obj
      BY DEF OpenStand
    <3>1. PICK y : Stands(v, ch, f.key[1], f.key[2], y) /\ y.obj = f.obj
      BY <1>2 DEF OpenStand
    <3>2. f.key[1] # c
      BY <2>4, <3>1
    <3> QED
      BY <1>11, <1>13, <2>6, <3>1, <3>2
  <2>10. Sound(w, dh, U, stubs, files, crossed)
    BY <1>2, <2>6, <2>7, <2>8, <2>9 DEF Sound
  <2> QED
    BY <1>4, <1>7, <1>15, <2>10, Committed DEF U
<1> QED
  BY <1>3, <1>14, <1>15, <1>11

\* An entry that moves: the new one is there before the old one goes.
LEMMA RenameSound ==
  ASSUME TablesSound, KeysLocked, ~crossed, NEW from, IsPlace(from), from.pos # 0, NEW to, IsPlace(to),
         NEW new, Rename(from, to, new)
  PROVE  TablesSound'
<1> DEFINE v == Vol
           d == from.dir
           p == from.pos
           t == to.dir
           z == DirSlots(v, d)[p]
           obj == Object(v, d, p)
           K == Named(d, p)
<1>1. PICK ch : Sound(v, ch, tree, stubs, files, crossed)
  BY DEF TablesSound
<1>2. /\ DOMAIN ch = DirsOf(tree) /\ Good(v, ch, tree, stubs) /\ NotRoot(tree) /\ OpenStand(v, ch, files)
      /\ OneEach(v, ch) /\ OneName(tree)
      /\ d \in DOMAIN ch /\ p = Find(v, d, from.name) /\ NotShared(d, p)
      /\ t \in DOMAIN ch /\ to.name \in Short \cup Long /\ to.pos = Find(v, t, to.name)
      /\ to.pos = 0 \/ (t = d /\ to.pos = p)
      /\ files' = files
  BY <1>1 DEF Sound, IsPlace, Rename
<1>3. PICK r \in Register(v, t, to.name, obj) :
        /\ stubs' = StubsAfter(to, r)
        /\ IF ~r.done
           THEN Commit(r.vol) /\ tree' = tree /\ crossed' = crossed
           ELSE \E x \in RemoveEntry(Redirected(r.vol, obj, d, t), d, p) :
                  /\ Commit(x.vol)
                  /\ tree' = TreeWithout(d, p, x) \cup {Entry(to, r, obj)}
                  /\ crossed' = (crossed \/ ~x.done \/ (obj[1] = "dir" /\ LeadsThrough(new, obj[2])))
  BY DEF Rename
<1>4. Stands(v, ch, d, p, z) /\ obj = z.obj
  BY <1>2, PlaceStands
<1>5. K = EntriesOf(tree, d, z)
  BY DEF Named, EntriesOf
<1> DEFINE M == StubsAfter(to, r)
           e0 == Entry(to, r, obj)
           U == IF r.done THEN tree \cup {e0} ELSE tree
<1>6. /\ M = IF r.begun /\ ~r.done THEN stubs \cup {<<t, to.name>>} ELSE stubs
      /\ e0 = [dir |-> t, name |-> to.name, sfn |-> r.sfn, obj |-> obj]
      /\ U = IF r.done THEN tree \cup {e0} ELSE tree
  BY DEF StubsAfter, Entry
<1> HIDE DEF v, z, obj, K, M, e0, U
<1>7. K # {} /\ K \subseteq tree /\ \A e \in K : e.dir = d /\ e.sfn = z.sfn /\ IsEntry(e) /\ e.obj = obj /\ z = Sfn(e.sfn, e.obj)
  <2>1. K # {} /\ \A e \in K : IsEntry(e) /\ e.obj = z.obj /\ z = Sfn(e.sfn, e.obj)
    BY <1>2, <1>4, <1>5, NamedFacts
  <2> QED
    BY <1>4, <1>5, <2>1 DEF EntriesOf
<1>8. Registers(v, ch, tree, stubs, t, to.name, obj, r, M, e0, U)
  BY <1>2, <1>3, <1>6 DEF Registers, v, obj
<1>9. /\ r.sfn \in Numbered(v, t, to.name) /\ r.done \in BOOLEAN
      /\ \A x : ~Stands(v, ch, t, r.pos, x)
      /\ \E dh :
           /\ DOMAIN dh = DOMAIN ch /\ Good(r.vol, dh, U, M)
           /\ \A e, q, x : Stands(r.vol, dh, e, q, x) <=>
                \/ Stands(v, ch, e, q, x)
                \/ r.done /\ e = t /\ q = r.pos /\ x = Sfn(r.sfn, obj)
           /\ r.done => /\ Stands(r.vol, dh, t, r.pos, Sfn(r.sfn, obj))
                        /\ Holds(Table(r.vol, dh, t), r.pos, e0)
                        /\ Tells(Table(r.vol, dh, t), r.pos, e0, StubsOf(M, t))
  <2>1. r.sfn \in Numbered(v, t, to.name)
    BY <1>8, RegisterGood
  <2>2. r.done \in BOOLEAN
    BY <1>8, RegisterGood
  <2>3. \A x : ~Stands(v, ch, t, r.pos, x)
    BY <1>8, RegisterGood
  <2>4. \E dh :
           /\ DOMAIN dh = DOMAIN ch /\ Good(r.vol, dh, U, M)
           /\ \A e, q, x : Stands(r.vol, dh, e, q, x) <=>
                \/ Stands(v, ch, e, q, x)
                \/ r.done /\ e = t /\ q = r.pos /\ x = Sfn(r.sfn, obj)
           /\ r.done => /\ Stands(r.vol, dh, t, r.pos, Sfn(r.sfn, obj))
                        /\ Holds(Table(r.vol, dh, t), r.pos, e0)
                        /\ Tells(Table(r.vol, dh, t), r.pos, e0, StubsOf(M, t))
    BY <1>8, RegisterGood
  <2> QED
    BY <2>1, <2>2, <2>3, <2>4
<1>10. PICK dh :
           /\ DOMAIN dh = DOMAIN ch /\ Good(r.vol, dh, U, M)
           /\ \A e, q, x : Stands(r.vol, dh, e, q, x) <=>
                \/ Stands(v, ch, e, q, x)
                \/ r.done /\ e = t /\ q = r.pos /\ x = Sfn(r.sfn, obj)
           /\ r.done => /\ Stands(r.vol, dh, t, r.pos, Sfn(r.sfn, obj))
                        /\ Holds(Table(r.vol, dh, t), r.pos, e0)
                        /\ Tells(Table(r.vol, dh, t), r.pos, e0, StubsOf(M, t))
  BY <1>9
\* The new name is not complete.
<1>11. CASE ~r.done
  <2>1. /\ U = tree /\ Commit(r.vol) /\ tree' = tree /\ crossed' = crossed /\ stubs' = M
        /\ \A e, q, x : Stands(r.vol, dh, e, q, x) <=> Stands(v, ch, e, q, x)
    BY <1>3, <1>6, <1>10, <1>11 DEF M
  <2>2. OneEach(r.vol, dh) /\ OpenStand(r.vol, dh, files)
    BY <1>2, <2>1, FewerOnce, OpenStay
  <2>3. Sound(r.vol, dh, tree, M, files, crossed)
    BY <1>2, <1>10, <2>1, <2>2 DEF Sound
  <2> QED
    BY <1>2, <2>1, <2>3, Committed
<1>12. CASE r.done
  <2>1. PICK x \in RemoveEntry(Redirected(r.vol, obj, d, t), d, p) :
          /\ Commit(x.vol)
          /\ tree' = TreeWithout(d, p, x) \cup {e0}
          /\ crossed' = (crossed \/ ~x.done \/ (obj[1] = "dir" /\ LeadsThrough(new, obj[2])))
    BY <1>3, <1>12 DEF v, obj, e0
  <2>2. M = stubs /\ stubs' = M /\ U = tree \cup {e0} /\ e0.obj = obj /\ e0.dir = t
    BY <1>3, <1>6, <1>12 DEF M
  <2>3. PICK slot : slot = Sfn(r.sfn, obj)
    OBVIOUS
  <2>4. /\ Good(r.vol, dh, U, stubs)
        /\ \A e, q, y : Stands(r.vol, dh, e, q, y) <=> Stands(v, ch, e, q, y) \/ (e = t /\ q = r.pos /\ y = slot)
        /\ Stands(r.vol, dh, t, r.pos, slot)
        /\ Holds(Table(r.vol, dh, t), r.pos, e0) /\ Tells(Table(r.vol, dh, t), r.pos, e0, StubsOf(stubs, t))
    BY <1>10, <1>12, <2>2, <2>3
  \* The dots of a directory that moves.
  <2>5. PICK w : w = Redirected(r.vol, obj, d, t)
    OBVIOUS
  <2>6. /\ Good(w, dh, U, stubs)
        /\ \A e, q, y : Stands(w, dh, e, q, y) <=> Stands(r.vol, dh, e, q, y)
        /\ Holds(Table(w, dh, t), r.pos, e0) /\ Tells(Table(w, dh, t), r.pos, e0, StubsOf(stubs, t))
    <3>1. CASE ~(obj[1] = "dir" /\ d # t)
      <4>1. w = r.vol
        BY <2>5, <3>1 DEF Redirected
      <4> QED
        BY <2>4, <4>1
    <3>2. CASE obj[1] = "dir" /\ d # t
      <4> DEFINE c == obj[2]
      <4>1. PICK dot : dot = Dot("..", IF t = Root THEN 0 ELSE t)
        OBVIOUS
      <4>2. w = Store(r.vol, c, 2, dot)
        BY <2>5, <3>2, <4>1 DEF Redirected
      <4>3. c \in DOMAIN dh /\ c # Root
        <5>1. PICK e \in K : e.obj = obj
          BY <1>7
        <5> QED
          BY <1>2, <1>7, <1>10, <3>2, <5>1 DEF DirsOf, NotRoot
      <4>4. dot.kind = "dot"
        BY <4>1, SlotKinds
      <4> HIDE DEF c
      <4>5. /\ Good(w, dh, U, stubs)
            /\ \A e, q, y : Stands(w, dh, e, q, y) <=> Stands(r.vol, dh, e, q, y)
            /\ \A e \in DOMAIN dh : \A q \in 1 .. Size(dh, e) : \A f :
                 /\ Holds(Table(r.vol, dh, e), q, f) => Holds(Table(w, dh, e), q, f)
                 /\ Tells(Table(r.vol, dh, e), q, f, StubsOf(stubs, e)) => Tells(Table(w, dh, e), q, f, StubsOf(stubs, e))
        BY <2>4, <4>2, <4>3, <4>4, DotGood
      <4>6. t \in DOMAIN dh /\ r.pos \in 1 .. Size(dh, t)
        BY <2>4 DEF Stands
      <4> QED
        BY <2>4, <4>5, <4>6
    <3> QED
      BY <3>1, <3>2
  <2>7. /\ \A e, q, y : Stands(w, dh, e, q, y) <=> Stands(v, ch, e, q, y) \/ (e = t /\ q = r.pos /\ y = slot)
        /\ Stands(w, dh, t, r.pos, slot) /\ Stands(w, dh, d, p, z)
        /\ ~(t = d /\ r.pos = p)
    <3>1. \A e, q, y : Stands(w, dh, e, q, y) <=> Stands(v, ch, e, q, y) \/ (e = t /\ q = r.pos /\ y = slot)
      BY <2>4, <2>6
    <3>2. Stands(w, dh, t, r.pos, slot) /\ Stands(w, dh, d, p, z)
      BY <1>4, <2>4, <2>6
    <3>3. ~(t = d /\ r.pos = p)
      BY <1>4, <1>9
    <3> QED
      BY <3>1, <3>2, <3>3
  \* The old entry goes.
  <2>8. Removable(w, dh, U, stubs, d, p, K, {e0})
    <3>1. d \in DOMAIN dh /\ p \in 1 .. Size(dh, d) /\ Table(w, dh, d)[p] = z /\ z.kind = "sfn"
      BY <2>7 DEF Stands
    <3>2. ASSUME NEW e \in tree \ K
          PROVE  \E q \in 1 .. Size(dh, e.dir) : (e.dir # d \/ q # p) /\ Holds(Table(w, dh, e.dir), q, e)
      <4>1. PICK q \in 1 .. Size(dh, e.dir) : Holds(Table(w, dh, e.dir), q, e)
        BY <2>2, <2>6 DEF Good
      <4>2. ~(e.dir = d /\ q = p)
        <5> SUFFICES ASSUME e.dir = d, q = p PROVE FALSE
          OBVIOUS
        <5>1. z.sfn = e.sfn
          BY <3>1, <4>1, SlotKinds DEF Holds
        <5> QED
          BY <1>5, <5>1 DEF EntriesOf
      <4> QED
        BY <4>1, <4>2
    <3>3. \E q \in 1 .. Size(dh, e0.dir) : (e0.dir # d \/ q # p) /\ Holds(Table(w, dh, e0.dir), q, e0)
      <4>1. r.pos \in 1 .. Size(dh, t)
        BY <2>7 DEF Stands
      <4> QED
        BY <2>2, <2>6, <2>7, <4>1
    <3>4. ASSUME NEW f \in DOMAIN dh, NEW q \in 1 .. Size(dh, f), Table(w, dh, f)[q].kind = "sfn", f # d \/ q # p
          PROVE  \E e \in (U \ K) \cup {e0} : e.dir = f /\ Tells(Table(w, dh, f), q, e, StubsOf(stubs, f))
      <4>1. PICK e \in U : e.dir = f /\ Tells(Table(w, dh, f), q, e, StubsOf(stubs, f))
        BY <2>6, <3>4 DEF Good
      <4>2. CASE e \notin K
        BY <4>1, <4>2
      <4>3. CASE e \in K
        <5>1. f = d /\ e.sfn = z.sfn
          BY <1>7, <4>1, <4>3
        <5>2. PICK y : y = Table(w, dh, f)[q]
          OBVIOUS
        <5>3. y.sfn = z.sfn /\ Stands(w, dh, d, q, y)
          <6>1. y.sfn = e.sfn
            BY <4>1, <5>2, SlotKinds DEF Tells
          <6> QED
            BY <3>4, <5>1, <5>2, <6>1 DEF Stands
        <5>4. ~Stands(v, ch, d, q, y)
          BY <1>2, <1>4, <3>4, <5>1, <5>3 DEF OneEach
        <5>5. t = d /\ q = r.pos
          BY <2>7, <5>3, <5>4
        <5> QED
          BY <2>2, <2>6, <5>1, <5>5
      <4> QED
        BY <4>2, <4>3
    <3>5. K \subseteq U /\ {e0} \subseteq U
      BY <1>7, <2>2
    <3>6. \A e \in (U \ K) \cup {e0} : e = e0 \/ e \in tree \ K
      BY <2>2
    <3>7. \A e \in (U \ K) \cup {e0} : \E q \in 1 .. Size(dh, e.dir) :
            (e.dir # d \/ q # p) /\ Holds(Table(w, dh, e.dir), q, e)
      BY <3>2, <3>3, <3>6
    <3>8. \A f \in DOMAIN dh : \A q \in 1 .. Size(dh, f) :
            Table(w, dh, f)[q].kind = "sfn" /\ (f # d \/ q # p) =>
              \E e \in (U \ K) \cup {e0} : e.dir = f /\ Tells(Table(w, dh, f), q, e, StubsOf(stubs, f))
      BY <3>4
    <3>9. K # {} /\ \A e \in K : e.dir = d /\ Table(w, dh, d)[p] = Sfn(e.sfn, e.obj)
      BY <1>7, <3>1
    <3> QED
      BY <2>6, <3>1, <3>5, <3>7, <3>8, <3>9 DEF Removable
  <2> DEFINE W == Less(U, x, K, {e0})
  <2>9. /\ Good(x.vol, dh, W, stubs) /\ x.done \in BOOLEAN
        /\ \A e, q, y : Stands(x.vol, dh, e, q, y) <=> Stands(w, dh, e, q, y) /\ ~(x.done /\ e = d /\ q = p)
    <3>1. x \in RemoveEntry(w, d, p)
      BY <2>1, <2>5
    <3> QED
      BY <2>8, <3>1, RemoveGood
  <2>10. tree' = W
    <3>1. TreeWithout(d, p, x) = (tree \ K) \cup (IF x.done THEN {} ELSE IF x.begun THEN Shortened(K) ELSE K)
      BY DEF TreeWithout, K
    <3>2. PICK B : B = (IF x.done THEN {} ELSE IF x.begun THEN Shortened(K) ELSE K)
      OBVIOUS
    <3>3. tree' = (tree \ K) \cup B \cup {e0}
      BY <2>1, <3>1, <3>2
    <3>4. W = ((tree \cup {e0}) \ K) \cup B \cup {e0}
      BY <2>2, <3>2 DEF Less
    <3> HIDE DEF W
    <3> QED
      BY <3>3, <3>4
  <2>11. \A e \in U : IsEntry(e)
    BY <2>6 DEF Good
  <2>12. DirsOf(U) = DirsOf(tree) /\ NotRoot(U)
    <3>1. PICK g \in K : g \in tree /\ g.obj = obj
      BY <1>7
    <3> QED
      BY <1>2, <2>2, <3>1 DEF DirsOf, NotRoot
  <2>13. DirsOf(W) = DirsOf(tree) /\ NotRoot(W)
    <3>1. CASE ~x.done
      <4>1. K \subseteq U /\ {e0} \subseteq U
        BY <1>7, <2>2
      <4> QED
        BY <2>11, <2>12, <3>1, <4>1, LessNames
    <3>2. CASE x.done
      <4>1. W = (tree \ K) \cup {e0}
        BY <2>2, <3>2 DEF Less
      <4>2. PICK g \in K : g \in tree /\ g.obj = obj
        BY <1>7
      <4> HIDE DEF W
      <4>3. \A e \in W : \E f \in tree : f.obj = e.obj
        BY <2>2, <4>1, <4>2
      <4>4. \A f \in tree : \E e \in W : f.obj = e.obj
        BY <1>7, <2>2, <4>1
      <4>5. DirsOf(W) = DirsOf(tree)
        BY <4>3, <4>4 DEF DirsOf
      <4>6. NotRoot(W)
        BY <1>2, <4>3 DEF NotRoot
      <4> QED
        BY <4>5, <4>6
    <3> QED
      BY <2>9, <3>1, <3>2
  <2>14. OpenStand(x.vol, dh, files)
    <3> SUFFICES ASSUME NEW f \in files PROVE \E y : Stands(x.vol, dh, f.key[1], f.key[2], y) /\ y.obj = f.obj
      BY DEF OpenStand
    <3>1. PICK y : Stands(v, ch, f.key[1], f.key[2], y) /\ y.obj = f.obj
      BY <1>2 DEF OpenStand
    <3>2. ~(f.key[1] = d /\ f.key[2] = p)
      BY <1>2, NotOpen
    <3> QED
      BY <2>7, <2>9, <3>1, <3>2
  <2>15. CASE crossed'
    <3> HIDE DEF W
    <3>1. Sound(x.vol, dh, W, stubs, files, crossed')
      BY <1>2, <1>10, <2>9, <2>13, <2>14, <2>15 DEF Sound
    <3>2. PICK b : b = crossed'
      OBVIOUS
    <3> QED
      BY <1>2, <2>1, <2>2, <2>10, <3>1, <3>2, Committed
  <2>16. CASE ~crossed'
    <3>1. x.done
      BY <2>1, <2>16
    <3>2. ASSUME NEW q, NEW y, Stands(v, ch, t, q, y), ~(t = d /\ q = p) PROVE y.sfn # r.sfn
      <4>1. CASE to.name \in Long
        <5>1. \A i \in 1 .. Size(ch, t) : Table(v, ch, t)[i].kind = "sfn" => Table(v, ch, t)[i].sfn # r.sfn
          BY <1>2, <1>9, <4>1, NumberedFacts
        <5> QED
          BY <3>2, <5>1 DEF Stands
      <4>2. CASE to.name \notin Long
        <5>1. to.name \in Short /\ r.sfn = to.name
          BY <1>2, <1>9, <4>2, NumberedFacts
        <5>2. CASE to.pos = 0
          <6>1. \A i \in 1 .. Size(ch, t) : Table(v, ch, t)[i].kind = "sfn" =>
                  ~(to.name \in Short /\ Table(v, ch, t)[i].sfn = to.name)
            <7>1. Good(v, ch, tree, stubs) /\ t \in DOMAIN ch /\ Find(v, t, to.name) = 0
              BY <1>2, <5>2
            <7> QED
              BY <7>1, FindFacts
          <6> QED
            BY <3>2, <5>1, <6>1 DEF Stands
        <5>3. CASE to.pos # 0
          <6>1. t = d /\ to.pos = p /\ Table(v, ch, d)[p] = z
            BY <1>2, <1>4, <5>3 DEF Stands
          <6>2. \/ FullRun(Table(v, ch, d), p, to.name, Table(v, ch, d)[p].sfn)
                \/ Table(v, ch, d)[p].sfn = to.name
            BY <1>2, <5>3, <6>1, FindFacts
          <6>3. ~FullRun(Table(v, ch, d), p, to.name, Table(v, ch, d)[p].sfn)
            <7> SUFFICES ASSUME FullRun(Table(v, ch, d), p, to.name, Table(v, ch, d)[p].sfn) PROVE FALSE
              OBVIOUS
            <7>1. /\ Tidy(Table(v, ch, d), Size(ch, d), StubsOf(stubs, d)) /\ Size(ch, d) \in Nat
                  /\ p \in 1 .. Size(ch, d) /\ Parts \in Nat /\ Parts > 0
              BY <1>2, <1>4, GoodTable, DirParameters DEF Stands
            <7>2. p > Parts /\ Table(v, ch, d)[p - 1] = Lfn(to.name, 1, Table(v, ch, d)[p].sfn)
              BY <7>1 DEF FullRun
            <7>3. p - 1 \in 1 .. Size(ch, d)
              BY <7>1, <7>2
            <7> QED
              BY <4>2, <7>1, <7>2, <7>3, SlotKinds DEF Tidy
          <6> QED
            BY <1>2, <1>4, <3>2, <5>1, <6>1, <6>2, <6>3 DEF OneEach
        <5> QED
          BY <5>2, <5>3
      <4> QED
        BY <4>1, <4>2
    <3>3. slot.sfn = r.sfn
      BY <2>3, SlotKinds
    <3>4. OneEach(x.vol, dh)
      <4>1. \A e, q, y : Stands(x.vol, dh, e, q, y) =>
              \/ Stands(v, ch, e, q, y) /\ ~(e = d /\ q = p)
              \/ e = t /\ q = r.pos /\ y = slot
        BY <2>7, <2>9, <3>1
      <4> QED
        BY <1>2, <3>2, <3>3, <4>1 DEF OneEach
    <3>5. OneName(W)
      <4>1. W = (tree \ K) \cup {e0}
        BY <2>2, <3>1 DEF Less
      <4>2. PICK g \in K : g \in tree /\ g.obj = obj
        BY <1>7
      <4> HIDE DEF W
      <4>3. \A e \in tree \ K : ~(e.obj[1] = "dir" /\ obj[1] = "dir" /\ e.obj[2] = obj[2])
        BY <1>2, <4>2 DEF OneName
      <4> QED
        BY <1>2, <2>2, <4>1, <4>3 DEF OneName
    <3> HIDE DEF W
    <3>6. Sound(x.vol, dh, W, stubs, files, crossed')
      BY <1>2, <1>10, <2>9, <2>13, <2>14, <3>4, <3>5 DEF Sound
    <3> QED
      BY <1>2, <2>1, <2>2, <2>10, <3>6, Committed
  <2> QED
    BY <2>15, <2>16
<1> QED
  BY <1>9, <1>11, <1>12

-----------------------------------------------------------------------------
(* Locks.                                                                  *)

\* The open objects that use the key k.
Users(k, F, D) == {f \in F : f.key = k} \cup {x \in D : k = <<x[1], 0>>}

\* The count l of the key k is right.
LockIs(k, l, F, D) ==
  IF l = 256 THEN \E f \in F : f.write /\ f.key = k /\ Users(k, F, D) = {f}
  ELSE l = Cardinality(Users(k, F, D)) /\ \A f \in F : f.key = k => ~f.write

\* The keys of the open objects.
KeysOf(F, D) == {f.key : f \in F} \cup {<<x[1], 0>> : x \in {y \in D : y[1] # Root}}

OpenFiles(F) ==
  /\ IsFiniteSet(F) /\ Cardinality(F) <= MaxFiles
  /\ \A f \in F : f.key = <<f.key[1], f.key[2]>> /\ f.key[2] # 0
  /\ \A f, g \in F : f.n = g.n => f = g

OpenDirs(D) ==
  /\ IsFiniteSet(D) /\ Cardinality(D) <= MaxDirs
  /\ \A x \in D : x = <<x[1], x[2]>>
  /\ \A x, y \in D : x[2] = y[2] => x = y

\* The locks L are those of the open files F and the open directories D.
LocksOK(L, F, D) ==
  /\ DOMAIN L = KeysOf(F, D) /\ OpenFiles(F) /\ OpenDirs(D)
  /\ \A k \in DOMAIN L : LockIs(k, L[k], F, D)

\* inc_share makes M of L, dec_share does.
Locks(L, key, write, M) ==
  /\ DOMAIN M = DOMAIN L \cup {key}
  /\ \A k \in DOMAIN L : k # key => M[k] = L[k]
  /\ M[key] = IF write THEN 256 ELSE IF key \in DOMAIN L THEN L[key] + 1 ELSE 1

Unlocks(L, key, M) ==
  /\ L[key] \in {1, 256} => DOMAIN M = DOMAIN L \ {key}
  /\ L[key] \notin {1, 256} => DOMAIN M = DOMAIN L /\ M[key] = L[key] - 1
  /\ \A k \in DOMAIN M : k # key => M[k] = L[k]

LEMMA LockedFacts == ASSUME NEW key, NEW write PROVE Locks(locks, key, write, Locked(key, write))
BY DEF Locked, Locks

LEMMA UnlockedFacts == ASSUME NEW key \in DOMAIN locks PROVE Unlocks(locks, key, Unlocked(key))
<1>1. CASE locks[key] \in {1, 256}
  BY <1>1 DEF Unlocked, Unlocks
<1>2. CASE locks[key] \notin {1, 256}
  BY <1>2 DEF Unlocked, Unlocks
<1> QED
  BY <1>1, <1>2

\* A key of an entry is used by files, one of a directory by directories.
LEMMA EntryUsers ==
  ASSUME NEW F, NEW D, NEW k, k[2] # 0
  PROVE  Users(k, F, D) = {f \in F : f.key = k}
<1>1. \A x \in D : k # <<x[1], 0>>
  OBVIOUS
<1> QED
  BY <1>1 DEF Users

LEMMA TableUsers ==
  ASSUME NEW F, OpenFiles(F), NEW D, NEW c
  PROVE  Users(<<c, 0>>, F, D) = {x \in D : x[1] = c} /\ \A f \in F : f.key # <<c, 0>>
<1>1. \A f \in F : f.key # <<c, 0>>
  BY DEF OpenFiles
<1>2. \A x \in D : <<c, 0>> = <<x[1], 0>> <=> x[1] = c
  OBVIOUS
<1> QED
  BY <1>1, <1>2 DEF Users

\* Fewer objects are open than the count of a writer.
LEMMA CountBounded ==
  ASSUME NEW S, IsFiniteSet(S), Cardinality(S) <= 255, NEW U, U \subseteq S
  PROVE  IsFiniteSet(U) /\ Cardinality(U) \in Nat /\ Cardinality(U) <= 255
<1>1. IsFiniteSet(U) /\ Cardinality(U) <= Cardinality(S)
  BY FS_Subset
<1>2. Cardinality(U) \in Nat /\ Cardinality(S) \in Nat
  BY <1>1, FS_CardinalityType
<1> QED
  BY <1>1, <1>2

LEMMA OpenFile255 == MaxFiles \in 0 .. 255 /\ MaxDirs \in 0 .. 255
<1>1. FatDirAssumption
  BY FatDirAssumption
<1> QED
  BY <1>1 DEF FatDirAssumption

\* A file is opened.
LEMMA AddFile ==
  ASSUME NEW L, NEW F, NEW D, LocksOK(L, F, D), Cardinality(F) < MaxFiles,
         NEW f, f.key = <<f.key[1], f.key[2]>>, f.key[2] # 0, f.write \in BOOLEAN,
         \A g \in F : g.n # f.n, NEW M, Locks(L, f.key, f.write, M),
         f.write => f.key \notin DOMAIN L,
         f.key \in DOMAIN L => L[f.key] # 256
  PROVE  LocksOK(M, F \cup {f}, D)
<1> DEFINE G == F \cup {f}
           key == f.key
<1>1. /\ DOMAIN L = KeysOf(F, D) /\ OpenFiles(F) /\ OpenDirs(D)
      /\ \A k \in DOMAIN L : LockIs(k, L[k], F, D)
      /\ DOMAIN M = DOMAIN L \cup {key}
      /\ \A k \in DOMAIN L : k # key => M[k] = L[k]
      /\ M[key] = IF f.write THEN 256 ELSE IF key \in DOMAIN L THEN L[key] + 1 ELSE 1
  BY DEF LocksOK, Locks
<1>2. f \notin F
  OBVIOUS
<1>3. OpenFiles(G)
  <2>1. IsFiniteSet(G) /\ Cardinality(G) = Cardinality(F) + 1
    BY SMTT(30), <1>1, <1>2, FS_AddElement DEF OpenFiles
  <2>2. Cardinality(F) \in Nat
    BY <1>1, FS_CardinalityType DEF OpenFiles
  <2>3. Cardinality(G) <= MaxFiles
    BY <2>1, <2>2, OpenFile255
  <2> HIDE DEF key
  <2> QED
    BY <1>1, <2>1, <2>3 DEF OpenFiles
<1>4. DOMAIN M = KeysOf(G, D)
  BY <1>1 DEF KeysOf
<1>5. ASSUME NEW k \in DOMAIN M, k # key PROVE LockIs(k, M[k], G, D)
  <2>1. Users(k, G, D) = Users(k, F, D)
    BY <1>5 DEF Users
  <2>2. k \in DOMAIN L /\ M[k] = L[k] /\ LockIs(k, L[k], F, D)
    BY <1>1, <1>5
  <2> QED
    BY <1>5, <2>1, <2>2 DEF LockIs
<1>6. LockIs(key, M[key], G, D)
  <2>1. Users(key, G, D) = {g \in G : g.key = key} /\ Users(key, F, D) = {g \in F : g.key = key}
    BY EntryUsers
  <2>2. Users(key, G, D) = Users(key, F, D) \cup {f} /\ f \notin Users(key, F, D)
    BY <1>2, <2>1
  <2>3. key \notin DOMAIN L => Users(key, F, D) = {} /\ \A g \in F : g.key # key
    BY <1>1, <2>1 DEF KeysOf
  <2>4. CASE f.write
    BY <1>1, <2>2, <2>3, <2>4 DEF LockIs
  <2>5. CASE ~f.write
    <3>1. IsFiniteSet(Users(key, F, D)) /\ IsFiniteSet(Users(key, G, D))
          /\ Cardinality(Users(key, G, D)) <= 255 /\ Cardinality(Users(key, G, D)) \in Nat
      <4>1. Users(key, F, D) \subseteq G /\ Users(key, G, D) \subseteq G
        BY <2>1
      <4>2. IsFiniteSet(G) /\ Cardinality(G) <= 255
        <5>1. IsFiniteSet(G) /\ Cardinality(G) <= MaxFiles
          BY <1>3 DEF OpenFiles
        <5>2. Cardinality(G) \in Nat
          BY <5>1, FS_CardinalityType
        <5> QED
          BY <5>1, <5>2, OpenFile255
      <4> HIDE DEF G
      <4> QED
        BY <4>1, <4>2, CountBounded
    <3>2. Cardinality(Users(key, G, D)) = Cardinality(Users(key, F, D)) + 1
      BY <2>2, <3>1, FS_AddElement
    <3>3. M[key] = Cardinality(Users(key, G, D))
      <4>1. CASE key \in DOMAIN L
        <5>1. LockIs(key, L[key], F, D)
          BY <1>1, <4>1
        <5> QED
          BY <1>1, <2>5, <3>2, <4>1, <5>1 DEF LockIs
      <4>2. CASE key \notin DOMAIN L
        BY <1>1, <2>3, <2>5, <3>2, <4>2, FS_EmptySet
      <4> QED
        BY <4>1, <4>2
    <3>4. \A g \in G : g.key = key => ~g.write
      <4>1. CASE key \in DOMAIN L
        <5>1. LockIs(key, L[key], F, D)
          BY <1>1, <4>1
        <5>2. \A g \in F : g.key = key => ~g.write
          BY <4>1, <5>1 DEF LockIs
        <5> QED
          BY <2>5, <5>2
      <4>2. CASE key \notin DOMAIN L
        BY <2>3, <2>5, <4>2
      <4> QED
        BY <4>1, <4>2
    <3>5. M[key] # 256
      BY <3>1, <3>3
    <3> QED
      BY <3>3, <3>4, <3>5 DEF LockIs
  <2> QED
    BY <2>4, <2>5
<1> QED
  BY <1>1, <1>3, <1>4, <1>5, <1>6 DEF LocksOK

\* A file is closed.
LEMMA DropFile ==
  ASSUME NEW L, NEW F, NEW D, LocksOK(L, F, D), NEW f \in F, NEW M, Unlocks(L, f.key, M)
  PROVE  LocksOK(M, F \ {f}, D)
<1> DEFINE G == F \ {f}
           key == f.key
<1>1. /\ DOMAIN L = KeysOf(F, D) /\ OpenFiles(F) /\ OpenDirs(D)
      /\ \A k \in DOMAIN L : LockIs(k, L[k], F, D)
      /\ L[key] \in {1, 256} => DOMAIN M = DOMAIN L \ {key}
      /\ L[key] \notin {1, 256} => DOMAIN M = DOMAIN L /\ M[key] = L[key] - 1
      /\ \A k \in DOMAIN M : k # key => M[k] = L[k]
  BY DEF LocksOK, Unlocks
<1>2. key \in DOMAIN L /\ key[2] # 0 /\ key = <<key[1], key[2]>>
  BY <1>1 DEF KeysOf, OpenFiles
<1>3. OpenFiles(G)
  <2>1. IsFiniteSet(G) /\ Cardinality(G) = Cardinality(F) - 1
    BY <1>1, FS_RemoveElement DEF OpenFiles
  <2>2. Cardinality(F) \in Nat
    BY <1>1, FS_CardinalityType DEF OpenFiles
  <2>3. Cardinality(G) <= MaxFiles
    BY <1>1, <2>1, <2>2, OpenFile255 DEF OpenFiles
  <2> HIDE DEF key
  <2> QED
    BY <1>1, <2>1, <2>3 DEF OpenFiles
<1>4. ASSUME NEW k \in DOMAIN M, k # key PROVE LockIs(k, M[k], G, D)
  <2>1. Users(k, G, D) = Users(k, F, D)
    BY <1>4 DEF Users
  <2>2. k \in DOMAIN L /\ M[k] = L[k] /\ LockIs(k, L[k], F, D)
    BY <1>1, <1>4
  <2>3. LockIs(k, M[k], F, D)
    BY <2>2
  <2>4. CASE M[k] = 256
    <3>1. PICK g \in F : g.write /\ g.key = k /\ Users(k, F, D) = {g}
      BY <2>3, <2>4 DEF LockIs
    <3>2. g \in G
      BY <1>4, <3>1
    <3> QED
      BY <2>1, <2>4, <3>1, <3>2 DEF LockIs
  <2>5. CASE M[k] # 256
    <3>1. M[k] = Cardinality(Users(k, F, D)) /\ \A g \in F : g.key = k => ~g.write
      BY <2>3, <2>5 DEF LockIs
    <3>2. G \subseteq F
      OBVIOUS
    <3> QED
      BY <2>1, <2>5, <3>1, <3>2 DEF LockIs
  <2> QED
    BY <2>4, <2>5
<1>5. Users(key, F, D) = {g \in F : g.key = key} /\ Users(key, G, D) = Users(key, F, D) \ {f} /\ f \in Users(key, F, D)
  <2>1. Users(key, G, D) = {g \in G : g.key = key} /\ Users(key, F, D) = {g \in F : g.key = key}
    BY <1>2, EntryUsers
  <2> QED
    BY <2>1
<1>6. LockIs(key, L[key], F, D)
  BY <1>1, <1>2
<1>7. IsFiniteSet(Users(key, F, D)) /\ Cardinality(Users(key, F, D)) \in Nat /\ Cardinality(Users(key, F, D)) <= 255
  <2>1. Users(key, F, D) \subseteq F
    BY <1>5
  <2>2. IsFiniteSet(F) /\ Cardinality(F) <= 255
    <3>1. IsFiniteSet(F) /\ Cardinality(F) <= MaxFiles
      BY <1>1 DEF OpenFiles
    <3>2. Cardinality(F) \in Nat
      BY <3>1, FS_CardinalityType
    <3> QED
      BY <3>1, <3>2, OpenFile255
  <2> QED
    BY <2>1, <2>2, CountBounded
<1>8. Cardinality(Users(key, G, D)) = Cardinality(Users(key, F, D)) - 1 /\ IsFiniteSet(Users(key, G, D))
  <2>1. PICK U : U = Users(key, F, D)
    OBVIOUS
  <2>2. IsFiniteSet(U) /\ f \in U /\ Users(key, G, D) = U \ {f}
    BY <1>5, <1>7, <2>1
  <2>3. Cardinality(U \ {f}) = Cardinality(U) - 1 /\ IsFiniteSet(U \ {f})
    BY <2>2, FS_RemoveElement
  <2> QED
    BY <2>1, <2>2, <2>3
\* The last one goes.
<1>9. CASE L[key] \in {1, 256}
  <2>1. Users(key, F, D) = {f}
    <3>1. CASE L[key] = 256
      BY <1>5, <1>6, <3>1 DEF LockIs
    <3>2. CASE L[key] = 1
      <4>1. Cardinality(Users(key, F, D)) = 1
        BY <1>6, <3>2 DEF LockIs
      <4>2. Cardinality(Users(key, G, D)) = 0
        BY <1>8, <4>1
      <4>3. Users(key, G, D) = {}
        BY <1>8, <4>2, FS_EmptySet
      <4> QED
        BY <1>5, <4>3
    <3> QED
      BY <1>9, <3>1, <3>2
  <2>2. \A g \in G : g.key # key
    BY <1>5, <2>1
  <2>3. \A x \in D : <<x[1], 0>> # key
    BY <1>2
  <2>4. KeysOf(G, D) = KeysOf(F, D) \ {key}
    BY <2>2, <2>3 DEF KeysOf
  <2>5. DOMAIN M = KeysOf(G, D)
    BY <1>1, <1>9, <2>4
  <2>6. \A k \in DOMAIN M : k # key
    BY <1>1, <1>9
  <2> QED
    BY <1>1, <1>3, <1>4, <2>5, <2>6 DEF LocksOK
<1>10. CASE L[key] \notin {1, 256}
  <2>1. L[key] = Cardinality(Users(key, F, D)) /\ \A g \in F : g.key = key => ~g.write
    BY <1>6, <1>10 DEF LockIs
  <2>2. M[key] = Cardinality(Users(key, G, D)) /\ M[key] # 256
    BY <1>1, <1>7, <1>8, <1>10, <2>1
  <2>3. LockIs(key, M[key], G, D)
    BY <2>1, <2>2 DEF LockIs
  <2>4. \E g \in G : g.key = key
    <3>1. Cardinality(Users(key, G, D)) # 0
      BY <1>7, <1>8, <1>10, <2>1
    <3>2. Users(key, G, D) # {}
      BY <3>1, FS_EmptySet
    <3> QED
      BY <1>5, <3>2
  <2>5. KeysOf(G, D) = KeysOf(F, D)
    BY <2>4 DEF KeysOf
  <2>6. DOMAIN M = KeysOf(G, D)
    BY <1>1, <1>10, <2>5
  <2> QED
    BY <1>1, <1>3, <1>4, <2>3, <2>6 DEF LocksOK
<1> QED
  BY <1>9, <1>10

\* Objects that have a lower number than there are numbers leave one free.
LEMMA FreeNumber ==
  ASSUME NEW m \in Nat, NEW F, IsFiniteSet(F), Cardinality(F) < m, NEW h
  PROVE  Least((1 .. m) \ {h[g] : g \in F}) \in (1 .. m) \ {h[g] : g \in F}
<1> DEFINE I == {h[g] : g \in F}
<1>1. (1 .. m) \ I # {}
  <2> SUFFICES ASSUME (1 .. m) \ I = {} PROVE FALSE
    OBVIOUS
  <2>1. \A i \in 1 .. m : \E g \in F : h[g] = i
    OBVIOUS
  <2> DEFINE f == [i \in 1 .. m |-> CHOOSE g \in F : h[g] = i]
  <2>2. f \in [1 .. m -> F] /\ \A i \in 1 .. m : h[f[i]] = i
    BY <2>1
  <2>3. IsFiniteSet(1 .. m) /\ Cardinality(1 .. m) = m
    <3>1. 1 \in Int /\ m \in Int
      OBVIOUS
    <3>2. IsFiniteSet(1 .. m) /\ Cardinality(1 .. m) = IF 1 > m THEN 0 ELSE m - 1 + 1
      BY <3>1, FS_Interval
    <3> QED
      BY <3>2
  <2> HIDE DEF f
  <2>4. \E i, j \in 1 .. m : i # j /\ f[i] = f[j]
    BY <2>2, <2>3, FS_PigeonHole
  <2> QED
    BY <2>2, <2>4
<1>2. PICK S : S = (1 .. m) \ I
  OBVIOUS
<1>3. S # {} /\ S \subseteq Nat
  BY <1>1, <1>2
<1>4. \E i \in S : \A j \in S : i <= j
  BY <1>3, LeastNat
<1>5. Least(S) \in S
  BY <1>4 DEF Least
<1> QED
  BY <1>2, <1>5

LEMMA FreshFile ==
  ASSUME OpenFiles(files), Cardinality(files) < MaxFiles
  PROVE  \A g \in files : g.n # FreshFil
<1> DEFINE h == [g \in files |-> g.n]
<1>1. {h[g] : g \in files} = {g.n : g \in files}
  OBVIOUS
<1>2. FreshFil = Least((1 .. MaxFiles) \ {h[g] : g \in files})
  BY <1>1 DEF FreshFil
<1>3. MaxFiles \in Nat /\ IsFiniteSet(files)
  BY OpenFile255 DEF OpenFiles
<1> HIDE DEF h
<1>4. FreshFil \in (1 .. MaxFiles) \ {h[g] : g \in files}
  BY <1>2, <1>3, FreeNumber
<1> QED
  BY <1>1, <1>4

LEMMA FreshDir ==
  ASSUME OpenDirs(dirs), Cardinality(dirs) < MaxDirs,
         NEW n, n = Least((1 .. MaxDirs) \ {x[2] : x \in dirs})
  PROVE  \A y \in dirs : y[2] # n
<1> DEFINE h == [g \in dirs |-> g[2]]
<1>1. {h[g] : g \in dirs} = {x[2] : x \in dirs}
  OBVIOUS
<1>2. n = Least((1 .. MaxDirs) \ {h[g] : g \in dirs})
  BY <1>1
<1>3. MaxDirs \in Nat /\ IsFiniteSet(dirs)
  BY OpenFile255 DEF OpenDirs
<1> HIDE DEF h
<1>4. Least((1 .. MaxDirs) \ {h[g] : g \in dirs}) \in (1 .. MaxDirs) \ {h[g] : g \in dirs}
  BY <1>3, FreeNumber
<1> QED
  BY <1>1, <1>2, <1>4

\* A lock is what the users of its key make it.
LEMMA SameLock ==
  ASSUME NEW k, NEW l, NEW F, NEW D, LockIs(k, l, F, D), NEW E, Users(k, F, E) = Users(k, F, D)
  PROVE  LockIs(k, l, F, E)
BY DEF LockIs

\* A directory is opened; the root takes no lock.
LEMMA AddDir ==
  ASSUME NEW L, NEW F, NEW D, LocksOK(L, F, D), Cardinality(D) < MaxDirs,
         NEW x, x = <<x[1], x[2]>>, \A y \in D : y[2] # x[2],
         NEW M, IF x[1] = Root THEN M = L ELSE Locks(L, <<x[1], 0>>, FALSE, M)
  PROVE  LocksOK(M, F, D \cup {x})
<1> DEFINE E == D \cup {x}
           c == x[1]
<1>1. /\ DOMAIN L = KeysOf(F, D) /\ OpenFiles(F) /\ OpenDirs(D)
      /\ \A k \in DOMAIN L : LockIs(k, L[k], F, D)
  BY DEF LocksOK
<1>2. x \notin D
  OBVIOUS
<1>3. OpenDirs(E)
  <2>1. IsFiniteSet(E) /\ Cardinality(E) = Cardinality(D) + 1
    BY <1>1, <1>2, FS_AddElement DEF OpenDirs
  <2>2. Cardinality(D) \in Nat
    BY <1>1, FS_CardinalityType DEF OpenDirs
  <2>3. Cardinality(E) <= MaxDirs
    BY <2>1, <2>2, OpenFile255
  <2> HIDE DEF c
  <2> QED
    BY <1>1, <2>1, <2>3 DEF OpenDirs
<1>4. ASSUME NEW k, k # <<c, 0>> PROVE Users(k, F, E) = Users(k, F, D)
  BY <1>4 DEF Users
<1>5. CASE c = Root
  <2>1. M = L
    BY <1>5
  <2>2. KeysOf(F, E) = KeysOf(F, D)
    BY <1>5 DEF KeysOf
  <2>3. ASSUME NEW k \in DOMAIN L PROVE k # <<c, 0>>
    <3> SUFFICES ASSUME k = <<c, 0>> PROVE FALSE
      OBVIOUS
    <3>1. \A f \in F : f.key # k
      BY <1>1, TableUsers
    <3>2. PICK y \in D : k = <<y[1], 0>> /\ y[1] # Root
      BY <1>1, <3>1 DEF KeysOf
    <3> QED
      BY <1>5, <3>2
  <2>4. ASSUME NEW k \in DOMAIN L PROVE LockIs(k, L[k], F, E)
    BY <1>1, <1>4, <2>3, SameLock
  <2> QED
    BY <1>1, <1>3, <2>1, <2>2, <2>4 DEF LocksOK
<1>6. CASE c # Root
  <2> DEFINE key == <<c, 0>>
  <2>1. /\ DOMAIN M = DOMAIN L \cup {key}
        /\ \A k \in DOMAIN L : k # key => M[k] = L[k]
        /\ M[key] = IF key \in DOMAIN L THEN L[key] + 1 ELSE 1
    BY <1>6 DEF Locks
  <2>2. KeysOf(F, E) = KeysOf(F, D) \cup {key}
    BY <1>6 DEF KeysOf
  <2>3. /\ Users(key, F, E) = {y \in E : y[1] = c} /\ Users(key, F, D) = {y \in D : y[1] = c}
        /\ \A f \in F : f.key # key
    BY <1>1, TableUsers
  <2> HIDE DEF key
  <2>4. Users(key, F, E) = Users(key, F, D) \cup {x} /\ x \notin Users(key, F, D)
    BY <1>2, <2>3
  <2>5. IsFiniteSet(Users(key, F, D)) /\ Cardinality(Users(key, F, D)) \in Nat
        /\ Cardinality(Users(key, F, E)) <= 255 /\ Cardinality(Users(key, F, E)) \in Nat
    <3>1. Users(key, F, D) \subseteq E /\ Users(key, F, E) \subseteq E
      BY <2>3
    <3>2. IsFiniteSet(E) /\ Cardinality(E) <= 255
      <4>1. IsFiniteSet(E) /\ Cardinality(E) <= MaxDirs
        BY <1>3 DEF OpenDirs
      <4>2. Cardinality(E) \in Nat
        BY <4>1, FS_CardinalityType
      <4> QED
        BY <4>1, <4>2, OpenFile255
    <3> HIDE DEF E
    <3> QED
      BY <3>1, <3>2, CountBounded
  <2>6. Cardinality(Users(key, F, E)) = Cardinality(Users(key, F, D)) + 1
    BY <2>4, <2>5, FS_AddElement
  <2>7. M[key] = Cardinality(Users(key, F, E))
    <3>1. CASE key \in DOMAIN L
      <4>1. LockIs(key, L[key], F, D)
        BY <1>1, <3>1
      <4>2. L[key] = Cardinality(Users(key, F, D))
        BY <2>3, <4>1 DEF LockIs
      <4> QED
        BY <2>1, <2>6, <3>1, <4>2
    <3>2. CASE key \notin DOMAIN L
      <4>1. \A y \in D : y[1] # c
        BY <1>1, <1>6, <3>2 DEF KeysOf, key
      <4>2. Users(key, F, D) = {}
        BY <2>3, <4>1
      <4> QED
        BY <2>1, <2>6, <3>2, <4>2, FS_EmptySet
    <3> QED
      BY <3>1, <3>2
  <2>8. LockIs(key, M[key], F, E)
    <3>1. M[key] # 256
      BY <2>5, <2>7
    <3> QED
      BY <2>3, <2>7, <3>1 DEF LockIs
  <2>9. ASSUME NEW k \in DOMAIN M, k # key PROVE LockIs(k, M[k], F, E)
    <3>1. Users(k, F, E) = Users(k, F, D)
      BY <1>4, <2>9 DEF key
    <3>2. k \in DOMAIN L /\ M[k] = L[k] /\ LockIs(k, L[k], F, D)
      BY <1>1, <2>1, <2>9
    <3> QED
      BY <3>1, <3>2, SameLock
  <2>10. DOMAIN M = KeysOf(F, E)
    BY <1>1, <2>1, <2>2
  <2> QED
    BY <1>1, <1>3, <2>8, <2>9, <2>10 DEF LocksOK
<1> QED
  BY <1>5, <1>6

\* A directory is closed.
LEMMA DropDir ==
  ASSUME NEW L, NEW F, NEW D, LocksOK(L, F, D), NEW x \in D,
         NEW M, IF x[1] = Root THEN M = L ELSE Unlocks(L, <<x[1], 0>>, M)
  PROVE  LocksOK(M, F, D \ {x})
<1> DEFINE E == D \ {x}
           c == x[1]
<1>1. /\ DOMAIN L = KeysOf(F, D) /\ OpenFiles(F) /\ OpenDirs(D)
      /\ \A k \in DOMAIN L : LockIs(k, L[k], F, D)
  BY DEF LocksOK
<1>3. OpenDirs(E)
  <2>1. IsFiniteSet(E) /\ Cardinality(E) = Cardinality(D) - 1
    BY <1>1, FS_RemoveElement DEF OpenDirs
  <2>2. Cardinality(D) \in Nat
    BY <1>1, FS_CardinalityType DEF OpenDirs
  <2>3. Cardinality(E) <= MaxDirs
    BY <1>1, <2>1, <2>2, OpenFile255 DEF OpenDirs
  <2> HIDE DEF c
  <2> QED
    BY <1>1, <2>1, <2>3 DEF OpenDirs
<1>4. ASSUME NEW k, k # <<c, 0>> PROVE Users(k, F, E) = Users(k, F, D)
  BY <1>4 DEF Users
<1>5. CASE c = Root
  <2>1. M = L
    BY <1>5
  <2>2. KeysOf(F, E) = KeysOf(F, D)
    BY <1>5 DEF KeysOf
  <2>3. ASSUME NEW k \in DOMAIN L PROVE k # <<c, 0>>
    <3> SUFFICES ASSUME k = <<c, 0>> PROVE FALSE
      OBVIOUS
    <3>1. \A f \in F : f.key # k
      BY <1>1, TableUsers
    <3>2. PICK y \in D : k = <<y[1], 0>> /\ y[1] # Root
      BY <1>1, <3>1 DEF KeysOf
    <3> QED
      BY <1>5, <3>2
  <2>4. ASSUME NEW k \in DOMAIN L PROVE LockIs(k, L[k], F, E)
    BY <1>1, <1>4, <2>3, SameLock
  <2> QED
    BY <1>1, <1>3, <2>1, <2>2, <2>4 DEF LocksOK
<1>6. CASE c # Root
  <2> DEFINE key == <<c, 0>>
  <2>1. /\ L[key] \in {1, 256} => DOMAIN M = DOMAIN L \ {key}
        /\ L[key] \notin {1, 256} => DOMAIN M = DOMAIN L /\ M[key] = L[key] - 1
        /\ \A k \in DOMAIN M : k # key => M[k] = L[k]
    BY <1>6 DEF Unlocks
  <2>2. key \in DOMAIN L
    BY <1>1, <1>6 DEF KeysOf
  <2>3. /\ Users(key, F, E) = {y \in E : y[1] = c} /\ Users(key, F, D) = {y \in D : y[1] = c}
        /\ \A f \in F : f.key # key
    BY <1>1, TableUsers
  <2>4. \A y : <<y[1], 0>> = key <=> y[1] = c
    OBVIOUS
  <2> HIDE DEF key
  <2>5. Users(key, F, E) = Users(key, F, D) \ {x} /\ x \in Users(key, F, D)
    BY <2>3
  <2>6. LockIs(key, L[key], F, D)
    BY <1>1, <2>2
  <2>7. L[key] = Cardinality(Users(key, F, D)) /\ L[key] # 256
    BY <2>3, <2>6 DEF LockIs
  <2>8. IsFiniteSet(Users(key, F, D)) /\ Cardinality(Users(key, F, D)) \in Nat /\ Cardinality(Users(key, F, D)) <= 255
    <3>1. Users(key, F, D) \subseteq D
      BY <2>3
    <3>2. IsFiniteSet(D) /\ Cardinality(D) <= 255
      <4>1. IsFiniteSet(D) /\ Cardinality(D) <= MaxDirs
        BY <1>1 DEF OpenDirs
      <4>2. Cardinality(D) \in Nat
        BY <4>1, FS_CardinalityType
      <4> QED
        BY <4>1, <4>2, OpenFile255
    <3> QED
      BY <3>1, <3>2, CountBounded
  <2>9. Cardinality(Users(key, F, E)) = Cardinality(Users(key, F, D)) - 1 /\ IsFiniteSet(Users(key, F, E))
    <3>1. PICK U : U = Users(key, F, D)
      OBVIOUS
    <3>2. IsFiniteSet(U) /\ x \in U /\ Users(key, F, E) = U \ {x}
      BY <2>5, <2>8, <3>1
    <3>3. Cardinality(U \ {x}) = Cardinality(U) - 1 /\ IsFiniteSet(U \ {x})
      BY <3>2, FS_RemoveElement
    <3> QED
      BY <3>1, <3>2, <3>3
  <2>10. ASSUME NEW k \in DOMAIN M, k # key PROVE LockIs(k, M[k], F, E)
    <3>1. Users(k, F, E) = Users(k, F, D)
      BY <1>4, <2>10 DEF key
    <3>2. k \in DOMAIN L /\ M[k] = L[k] /\ LockIs(k, L[k], F, D)
      BY <1>1, <2>1, <2>10
    <3> QED
      BY <3>1, <3>2, SameLock
  <2>11. CASE L[key] = 1
    <3>1. Users(key, F, E) = {}
      <4>1. Cardinality(Users(key, F, E)) = 0
        BY <2>7, <2>9, <2>11
      <4> QED
        BY <2>9, <4>1, FS_EmptySet
    <3>2. \A y \in E : y[1] # c
      BY <2>3, <3>1
    <3>3. KeysOf(F, E) = KeysOf(F, D) \ {key}
      BY <2>3, <2>4, <3>2 DEF KeysOf
    <3>4. DOMAIN M = KeysOf(F, E)
      BY <1>1, <2>1, <2>11, <3>3
    <3>5. \A k \in DOMAIN M : k # key
      BY <2>1, <2>11
    <3> QED
      BY <1>1, <1>3, <2>10, <3>4, <3>5 DEF LocksOK
  <2>12. CASE L[key] # 1
    <3>1. M[key] = Cardinality(Users(key, F, E)) /\ M[key] # 256 /\ DOMAIN M = DOMAIN L
      BY <2>1, <2>7, <2>8, <2>9, <2>12
    <3>2. LockIs(key, M[key], F, E)
      BY <2>3, <3>1 DEF LockIs
    <3>3. \E y \in E : y[1] = c
      <4>1. Cardinality(Users(key, F, E)) # 0
        BY <2>7, <2>8, <2>9, <2>12
      <4>2. Users(key, F, E) # {}
        BY <4>1, FS_EmptySet
      <4> QED
        BY <2>3, <4>2
    <3>4. KeysOf(F, E) = KeysOf(F, D)
      BY <3>3 DEF KeysOf
    <3> QED
      BY <1>1, <1>3, <2>10, <3>1, <3>2, <3>4 DEF LocksOK
  <2> QED
    BY <2>11, <2>12
<1> QED
  BY <1>5, <1>6

-----------------------------------------------------------------------------
(* The invariant.                                                          *)

TablesInv == TablesSound /\ LocksOK(locks, files, dirs)

LEMMA FilesLocked == ASSUME LocksOK(locks, files, dirs) PROVE KeysLocked
BY DEF LocksOK, KeysOf, OpenFiles, KeysLocked

\* The tables are as they were.
LEMMA TablesKept ==
  ASSUME TablesSound, UNCHANGED <<table, fat, tree, stubs, crossed>>, files' \subseteq files
  PROVE  TablesSound'
<1>1. PICK ch : Sound(Vol, ch, tree, stubs, files, crossed)
  BY DEF TablesSound
<1> DEFINE F == files'
<1>2. OpenStand(Vol, ch, F)
  BY <1>1 DEF Sound, OpenStand
<1> HIDE DEF F
<1>3. Sound(Vol, ch, tree, stubs, F, crossed)
  BY <1>1, <1>2 DEF Sound
<1>4. Commit(Vol) /\ files' = F
  BY DEF Commit, Vol, F
<1> QED
  BY <1>3, <1>4, Committed

LEMMA OpenFileKeeps ==
  ASSUME TablesInv, NEW at, IsPlace(at), NEW write \in BOOLEAN, OpenFile(at, write)
  PROVE  TablesInv'
<1> DEFINE f == [key |-> <<at.dir, at.pos>>, obj |-> Object(Vol, at.dir, at.pos), write |-> write,
                 n |-> FreshFil]
<1>1. /\ at.pos # 0 /\ Cardinality(files) < MaxFiles
      /\ IF write THEN NotShared(at.dir, at.pos) ELSE NotWritten(at.dir, at.pos)
      /\ locks' = Locked(<<at.dir, at.pos>>, write)
      /\ files' = files \cup {f}
      /\ table' = table /\ fat' = fat /\ dirs' = dirs /\ tree' = tree /\ stubs' = stubs /\ crossed' = crossed
  BY DEF OpenFile
<1>2. /\ f.key = <<at.dir, at.pos>> /\ f.key[1] = at.dir /\ f.key[2] = at.pos /\ f.write = write
      /\ f.obj = Object(Vol, at.dir, at.pos) /\ f.n = FreshFil
  OBVIOUS
<1> HIDE DEF f
<1>3. TablesSound /\ LocksOK(locks, files, dirs)
  BY DEF TablesInv
<1>4. PICK ch : Sound(Vol, ch, tree, stubs, files, crossed)
  BY <1>3 DEF TablesSound
<1>5. PICK z : Stands(Vol, ch, at.dir, at.pos, z) /\ z.obj = f.obj
  <2>1. Good(Vol, ch, tree, stubs) /\ at.dir \in DOMAIN ch /\ at.pos = Find(Vol, at.dir, at.name)
    BY <1>4 DEF Sound, IsPlace
  <2> QED
    BY <1>1, <1>2, <2>1, PlaceStands
<1>6. TablesSound'
  <2>1. OpenStand(Vol, ch, files \cup {f})
    BY <1>2, <1>4, <1>5 DEF Sound, OpenStand
  <2>2. PICK F : F = files \cup {f}
    OBVIOUS
  <2>3. Sound(Vol, ch, tree, stubs, F, crossed)
    BY <1>4, <2>1, <2>2 DEF Sound
  <2>4. Commit(Vol) /\ files' = F
    BY <1>1, <2>2 DEF Commit, Vol
  <2> QED
    BY <1>1, <2>3, <2>4, Committed
<1>7. LocksOK(locks', files \cup {f}, dirs)
  <2>1. OpenFiles(files) /\ Cardinality(files) < MaxFiles
    BY <1>1, <1>3, DirCardinality DEF LocksOK
  <2>2. \A g \in files : g.n # f.n
    BY <1>2, <2>1, FreshFile
  <2>3. Locks(locks, f.key, f.write, locks')
    BY <1>1, <1>2, LockedFacts
  <2>4. f.write => f.key \notin DOMAIN locks
    BY <1>1, <1>2 DEF NotShared
  <2>5. f.key \in DOMAIN locks => locks[f.key] # 256
    BY <1>1, <1>2, <2>4 DEF NotWritten
  <2>6. f.key = <<f.key[1], f.key[2]>> /\ f.key[2] # 0 /\ f.write \in BOOLEAN
    BY <1>1, <1>2
  <2> QED
    BY <1>3, <2>1, <2>2, <2>3, <2>4, <2>5, <2>6, AddFile
<1> QED
  BY <1>1, <1>6, <1>7 DEF TablesInv

LEMMA CreateFileKeeps ==
  ASSUME TablesInv, ~crossed, NEW at, IsPlace(at), NEW id, CreateFile(at, id)
  PROVE  TablesInv'
<1>1. TablesSound /\ LocksOK(locks, files, dirs)
  BY DEF TablesInv
<1>2. TablesSound'
  BY <1>1, CreateFileSound
<1> DEFINE v == Vol
           d == at.dir
           obj == <<"file", id>>
<1>3. PICK r \in Register(v, d, at.name, obj) :
        IF r.done
        THEN /\ locks' = Locked(<<d, r.pos>>, TRUE)
             /\ files' = files \cup {[key |-> <<d, r.pos>>, obj |-> obj, write |-> TRUE, n |-> FreshFil]}
        ELSE locks' = locks /\ files' = files
  BY DEF CreateFile
<1>4. dirs' = dirs /\ Cardinality(files) < MaxFiles
  BY DEF CreateFile
<1>5. CASE ~r.done
  BY <1>1, <1>2, <1>3, <1>4, <1>5 DEF TablesInv
<1>6. CASE r.done
  <2>1. PICK ch : Sound(v, ch, tree, stubs, files, crossed)
    BY <1>1 DEF TablesSound
  <2> DEFINE f == [key |-> <<d, r.pos>>, obj |-> obj, write |-> TRUE, n |-> FreshFil]
  <2>2. locks' = Locked(f.key, f.write) /\ files' = files \cup {f}
    BY <1>3, <1>6
  <2>3. f.key = <<d, r.pos>> /\ f.key[1] = d /\ f.key[2] = r.pos /\ f.write = TRUE /\ f.n = FreshFil
    OBVIOUS
  <2> HIDE DEF f, v, obj
  <2>4. r.pos \in Nat /\ r.pos > 0 /\ \A x : ~Stands(v, ch, d, r.pos, x)
    <3>1. PICK M : M = IF r.begun /\ ~r.done THEN stubs \cup {<<d, at.name>>} ELSE stubs
      OBVIOUS
    <3>2. PICK e0 : e0 = [dir |-> d, name |-> at.name, sfn |-> r.sfn, obj |-> obj]
      OBVIOUS
    <3>3. PICK U : U = IF r.done THEN tree \cup {e0} ELSE tree
      OBVIOUS
    <3>4. Good(v, ch, tree, stubs) /\ d \in DOMAIN ch /\ at.name \in Short \cup Long
      BY <2>1 DEF Sound, IsPlace
    <3>5. Registers(v, ch, tree, stubs, d, at.name, obj, r, M, e0, U)
      BY <1>3, <3>1, <3>2, <3>3, <3>4 DEF Registers
    <3> QED
      BY <3>5, RegisterGood
  <2>5. f.key \notin DOMAIN locks
    <3>1. \A g \in files : g.key # f.key
      <4> SUFFICES ASSUME NEW g \in files, g.key = f.key PROVE FALSE
        OBVIOUS
      <4>1. \E x : Stands(v, ch, g.key[1], g.key[2], x)
        BY <2>1 DEF Sound, OpenStand
      <4> QED
        BY <2>3, <2>4, <4>1
    <3>2. \A x \in dirs : <<x[1], 0>> # f.key
      <4>1. f.key[2] # 0
        BY <2>3, <2>4
      <4> QED
        BY <4>1
    <3>3. DOMAIN locks = KeysOf(files, dirs)
      BY <1>1 DEF LocksOK
    <3> QED
      BY <3>1, <3>2, <3>3 DEF KeysOf
  <2>6. OpenFiles(files) /\ Cardinality(files) < MaxFiles
    BY <1>1, <1>4, DirCardinality DEF LocksOK
  <2>7. \A g \in files : g.n # f.n
    BY <2>3, <2>6, FreshFile
  <2>8. Locks(locks, f.key, f.write, locks')
    BY <2>2, LockedFacts
  <2>9. f.key = <<f.key[1], f.key[2]>> /\ f.key[2] # 0 /\ f.write \in BOOLEAN
    <3>1. f.write \in BOOLEAN
      BY <2>3
    <3>2. f.key = <<f.key[1], f.key[2]>>
      BY <2>3
    <3>3. f.key[2] # 0
      BY <2>3, <2>4
    <3> QED
      BY <3>1, <3>2, <3>3
  <2>10. LocksOK(locks', files \cup {f}, dirs)
    BY <1>1, <2>5, <2>6, <2>7, <2>8, <2>9, AddFile
  <2> QED
    BY <1>2, <1>4, <2>2, <2>10 DEF TablesInv
<1>7. r.done \/ ~r.done
  OBVIOUS
<1> QED
  BY <1>5, <1>6, <1>7

LEMMA CloseFileKeeps ==
  ASSUME TablesInv, NEW f \in files, CloseFile(f)
  PROVE  TablesInv'
<1>1. TablesSound /\ LocksOK(locks, files, dirs)
  BY DEF TablesInv
<1>2. /\ files' = files \ {f} /\ locks' = Unlocked(f.key) /\ dirs' = dirs
      /\ UNCHANGED <<table, fat, tree, stubs, crossed>>
  BY DEF CloseFile
<1>3. TablesSound'
  BY <1>1, <1>2, TablesKept
<1>4. f.key \in DOMAIN locks
  BY <1>1, FilesLocked DEF KeysLocked
<1>5. Unlocks(locks, f.key, locks')
  BY <1>2, <1>4, UnlockedFacts
<1>6. LocksOK(locks', files \ {f}, dirs)
  BY <1>1, <1>5, DropFile
<1> QED
  BY <1>2, <1>3, <1>6 DEF TablesInv

LEMMA OpenDirKeeps ==
  ASSUME TablesInv, NEW c, OpenDir(c)
  PROVE  TablesInv'
<1>1. TablesSound /\ LocksOK(locks, files, dirs)
  BY DEF TablesInv
<1>2. PICK n : n = Least((1 .. MaxDirs) \ {x[2] : x \in dirs})
  OBVIOUS
<1>3. PICK x : x = <<c, n>>
  OBVIOUS
<1>4. x[1] = c /\ x[2] = n /\ x = <<x[1], x[2]>>
  BY <1>3
<1>5. /\ Cardinality(dirs) < MaxDirs
      /\ locks' = IF c = Root THEN locks ELSE Locked(<<c, 0>>, FALSE)
      /\ dirs' = dirs \cup {x} /\ files' = files
      /\ UNCHANGED <<table, fat, tree, stubs, crossed>>
  BY <1>2, <1>3 DEF OpenDir
<1>6. TablesSound'
  BY <1>1, <1>5, TablesKept
<1>7. OpenDirs(dirs) /\ Cardinality(dirs) < MaxDirs
  BY <1>1, <1>5, DirCardinality DEF LocksOK
<1>8. \A y \in dirs : y[2] # x[2]
  BY <1>2, <1>4, <1>7, FreshDir
<1>9. PICK M : M = locks'
  OBVIOUS
<1>10. IF x[1] = Root THEN M = locks ELSE Locks(locks, <<x[1], 0>>, FALSE, M)
  BY <1>4, <1>5, <1>9, LockedFacts
<1>11. LocksOK(M, files, dirs \cup {x})
  BY <1>1, <1>4, <1>7, <1>8, <1>10, AddDir
<1> QED
  BY <1>5, <1>6, <1>9, <1>11 DEF TablesInv

LEMMA CloseDirKeeps ==
  ASSUME TablesInv, NEW x \in dirs, CloseDir(x)
  PROVE  TablesInv'
<1>1. TablesSound /\ LocksOK(locks, files, dirs)
  BY DEF TablesInv
<1>2. /\ dirs' = dirs \ {x} /\ files' = files
      /\ locks' = IF x[1] = Root THEN locks ELSE Unlocked(<<x[1], 0>>)
      /\ UNCHANGED <<table, fat, tree, stubs, crossed>>
  BY DEF CloseDir
<1>3. TablesSound'
  BY <1>1, <1>2, TablesKept
<1>4. x[1] # Root => <<x[1], 0>> \in DOMAIN locks
  BY <1>1 DEF LocksOK, KeysOf
<1>5. PICK M : M = locks'
  OBVIOUS
<1>6. IF x[1] = Root THEN M = locks ELSE Unlocks(locks, <<x[1], 0>>, M)
  BY <1>2, <1>4, <1>5, UnlockedFacts
<1>7. LocksOK(M, files, dirs \ {x})
  BY <1>1, <1>6, DropDir
<1> QED
  BY <1>2, <1>3, <1>5, <1>7 DEF TablesInv

-----------------------------------------------------------------------------
(* A stretch that ends in dir_clear.                                       *)

\* The volume v as it would be if the cluster c had been cleared.
Wiped(v, c) == [table |-> [v.table EXCEPT ![c] = Clear], fat |-> v.fat]

\* Everything is as it should be but the contents of the cluster uncleared.
UnclearedInv ==
  /\ uncleared \in Clusters
  /\ \E ch : Sound(Wiped(Vol, uncleared), ch, tree, stubs, files, crossed)
  /\ LocksOK(locks, files, dirs)

DirInv == IF uncleared = 0 THEN TablesInv ELSE UnclearedInv

\* What a stretch cut short lacks is the clear cluster.
LEMMA HalfWiped ==
  ASSUME NEW v, NEW ch, Laid(v, ch), NEW d \in DOMAIN ch, Unused(v) # {}, NEW k, NEW held,
         NEW h, h = HalfCleared(v, d, k, held)
  PROVE  /\ h.new \in Clusters /\ Wiped(h.vol, h.new) = Stretch(v, d)
         /\ h.vol = [table |-> h.vol.table, fat |-> h.vol.fat]
<1>1. PICK c \in Clusters : c = Least(Unused(v))
  BY LeastUnused
<1>2. PICK w : w = Stretch(v, d)
  OBVIOUS
<1>3. PICK x : x = [i \in 1 .. PerCluster |-> IF i <= k THEN End ELSE held[i]]
  OBVIOUS
<1>4. h = [vol |-> [w EXCEPT !.table[c] = x], new |-> c]
  BY <1>1, <1>2, <1>3 DEF HalfCleared
<1>5. /\ w = [table |-> w.table, fat |-> w.fat] /\ w.table[c] = Clear
      /\ w.table = [y \in Clusters |-> w.table[y]]
  <2>1. v = [table |-> v.table, fat |-> v.fat] /\ DOMAIN v.table = Clusters
    <3>1. v.table = [y \in Clusters |-> [j \in 1 .. PerCluster |-> v.table[y][j]]]
      BY DEF Laid
    <3> QED
      BY <3>1 DEF Laid
  <2>2. NewCluster([table |-> v.table, fat |-> v.fat], c)
          = [table |-> [v.table EXCEPT ![c] = Clear], fat |-> [v.fat EXCEPT ![c] = Eoc]]
    BY ClusterMade
  <2>3. PICK z : z = Last(Chain(v, d))
    OBVIOUS
  <2>4. w = [NewCluster(v, c) EXCEPT !.fat[z] = c]
    BY <1>1, <1>2, <2>3 DEF Stretch
  <2>5. w = [table |-> [v.table EXCEPT ![c] = Clear], fat |-> [[v.fat EXCEPT ![c] = Eoc] EXCEPT ![z] = c]]
    BY <2>1, <2>2, <2>4
  <2> QED
    BY <2>1, <2>5
<1>6. h.new = c /\ h.vol = [table |-> [w.table EXCEPT ![c] = x], fat |-> w.fat]
  BY <1>4, <1>5
<1>7. [[w.table EXCEPT ![c] = x] EXCEPT ![c] = Clear] = w.table
  BY <1>5
<1> QED
  BY <1>2, <1>5, <1>6, <1>7 DEF Wiped

\* f_open, f_mkdir or f_rename that ends there.
LEMMA HalfKeeps ==
  ASSUME LocksOK(locks, files, dirs), NEW u, NEW c \in Clusters, NEW ch,
         Sound(Wiped(u, c), ch, tree, stubs, files, crossed),
         Commit(u), uncleared' = c, UNCHANGED <<locks, files, dirs, tree, stubs, crossed>>
  PROVE  DirInv'
<1>1. Wiped(Vol', c) = Wiped(u, c)
  BY DEF Commit, Vol, Wiped
<1>2. Sound(Wiped(Vol', uncleared'), ch, tree', stubs', files', crossed')
  BY <1>1
<1>3. LocksOK(locks', files', dirs')
  OBVIOUS
<1>4. c # 0
  BY DirParameters
<1> QED
  BY <1>2, <1>3, <1>4 DEF DirInv, UnclearedInv

LEMMA StretchSound ==
  ASSUME NEW v, NEW ch, NEW F, NEW T, NEW N, Sound(v, ch, T, N, F, FALSE), NEW d \in DOMAIN ch, Unused(v) # {}
  PROVE  \E dh : Sound(Stretch(v, d), dh, T, N, F, FALSE)
<1>1. Good(v, ch, T, N) /\ NotRoot(T) /\ OpenStand(v, ch, F) /\ OneEach(v, ch) /\ OneName(T) /\ DOMAIN ch = DirsOf(T)
  BY DEF Sound
<1>2. PICK w : w = Stretch(v, d)
  OBVIOUS
<1>3. PICK dh : /\ DOMAIN dh = DOMAIN ch /\ Good(w, dh, T, N)
                /\ \A e, p, x : Stands(w, dh, e, p, x) <=> Stands(v, ch, e, p, x)
  BY <1>1, <1>2, StretchGood
<1>4. OneEach(w, dh) /\ OpenStand(w, dh, F)
  BY <1>1, <1>3, FewerOnce, OpenStay
<1>5. Sound(w, dh, T, N, F, FALSE)
  BY <1>1, <1>3, <1>4 DEF Sound
<1> QED
  BY <1>2, <1>5

\* In a directory as it was.
LEMMA RegisterUnclearedKeeps ==
  ASSUME TablesInv, ~crossed, NEW d \in DirsOf(tree), NEW name, NEW h \in RegisterUncleared(Vol, d, name),
         Commit(h.vol), uncleared' = h.new, UNCHANGED <<locks, files, dirs, tree, stubs, crossed>>
  PROVE  DirInv'
<1>1. PICK v : v = Vol
  OBVIOUS
<1>2. PICK ch : Sound(v, ch, tree, stubs, files, FALSE)
  BY <1>1 DEF TablesInv, TablesSound, Sound
<1>3. Laid(v, ch) /\ d \in DOMAIN ch
  BY <1>2 DEF Sound, Good
<1>4. Unused(v) # {} /\ \E k, held : h = HalfCleared(v, d, k, held)
  BY <1>1 DEF RegisterUncleared
<1>5. PICK k, held : h = HalfCleared(v, d, k, held)
  BY <1>4
<1>6. h.new \in Clusters /\ Wiped(h.vol, h.new) = Stretch(v, d)
  BY <1>3, <1>4, <1>5, HalfWiped
<1>7. PICK dh : Sound(Stretch(v, d), dh, tree, stubs, files, FALSE)
  BY <1>2, <1>3, <1>4, StretchSound
<1>8. Sound(Wiped(h.vol, h.new), dh, tree, stubs, files, crossed)
  BY <1>6, <1>7 DEF Sound
<1>9. LocksOK(locks, files, dirs)
  BY DEF TablesInv
<1>10. PICK u : u = h.vol
  OBVIOUS
<1>11. PICK c : c = h.new
  OBVIOUS
<1> QED
  BY <1>6, <1>8, <1>9, <1>10, <1>11, HalfKeeps

\* With the new directory of f_mkdir, which is given up.
LEMMA MkDirUnclearedKeeps ==
  ASSUME TablesInv, ~crossed, NEW at, IsPlace(at), NEW u \in MkDirUncleared(at),
         Commit(u.vol), uncleared' = u.new, UNCHANGED <<locks, files, dirs, tree, stubs, crossed>>
  PROVE  DirInv'
<1> DEFINE v == Vol
           d == at.dir
           c == Least(Unused(v))
           made == WithDots(d, c)
<1>1. PICK ch : Sound(v, ch, tree, stubs, files, crossed)
  BY DEF TablesInv, TablesSound
<1>2. /\ DOMAIN ch = DirsOf(tree) /\ Good(v, ch, tree, stubs) /\ NotRoot(tree) /\ OpenStand(v, ch, files)
      /\ OneEach(v, ch) /\ OneName(tree) /\ d \in DOMAIN ch
  BY <1>1 DEF Sound, IsPlace
<1>3. Unused(v) # {} /\ \E h \in RegisterUncleared(made, d, at.name) : u = h \/ u = [h EXCEPT !.vol.fat[c] = 0]
  BY DEF MkDirUncleared
<1>4. c \in Clusters /\ v.fat[c] = 0
  BY <1>3, LeastUnused
<1>5. made = [NewCluster(v, c) EXCEPT !.table[c] = DotsOf(d, c)]
  BY DEF WithDots
<1> HIDE DEF v, c, made
<1>6. PICK h \in RegisterUncleared(made, d, at.name) : u = h \/ u = [h EXCEPT !.vol.fat[c] = 0]
  BY <1>3
<1>7. PICK dh : dh = [e \in DOMAIN ch \cup {c} |-> IF e = c THEN <<c>> ELSE ch[e]]
  OBVIOUS
<1>8. /\ Good(made, dh, tree, stubs) /\ c \notin DOMAIN ch /\ DOMAIN dh = DOMAIN ch \cup {c}
      /\ \A e, p, x : Stands(made, dh, e, p, x) <=> Stands(v, ch, e, p, x)
  BY <1>2, <1>4, <1>5, <1>7, NewGood
<1>9. Unused(made) # {} /\ \E k, held : h = HalfCleared(made, d, k, held)
  BY DEF RegisterUncleared
<1>10. PICK k, held : h = HalfCleared(made, d, k, held)
  BY <1>9
<1>11. d \in DOMAIN dh /\ Laid(made, dh)
  BY <1>2, <1>8 DEF Good
<1>12. PICK w : w = Stretch(made, d)
  OBVIOUS
<1>13. h.new \in Clusters /\ Wiped(h.vol, h.new) = w /\ h.vol = [table |-> h.vol.table, fat |-> h.vol.fat]
  BY <1>9, <1>10, <1>11, <1>12, HalfWiped
<1>14. PICK eh : /\ DOMAIN eh = DOMAIN dh /\ Good(w, eh, tree, stubs)
                 /\ \A e, p, x : Stands(w, eh, e, p, x) <=> Stands(made, dh, e, p, x)
  BY <1>8, <1>9, <1>11, <1>12, StretchGood
<1>15. PICK y : y = Wiped(u.vol, u.new)
  OBVIOUS
<1>16. u.new = h.new /\ (y = w \/ y = [w EXCEPT !.fat[c] = 0])
  <2>1. CASE u = h
    BY <1>13, <1>15, <2>1
  <2>2. CASE u = [h EXCEPT !.vol.fat[c] = 0]
    <3>1. PICK t, g, n : h.vol = [table |-> t, fat |-> g] /\ h.new = n
      BY <1>13
    <3>2. h = [vol |-> [table |-> t, fat |-> g], new |-> n]
      BY <1>10, <3>1 DEF HalfCleared
    <3>3. u = [vol |-> [table |-> t, fat |-> [g EXCEPT ![c] = 0]], new |-> n]
      BY <2>2, <3>2
    <3>4. y = [table |-> [t EXCEPT ![n] = Clear], fat |-> [g EXCEPT ![c] = 0]]
      BY <1>15, <3>3 DEF Wiped
    <3>5. w = [table |-> [t EXCEPT ![n] = Clear], fat |-> g]
      BY <1>13, <3>1 DEF Wiped
    <3>6. u.new = n
      BY <3>3
    <3> QED
      BY <3>1, <3>4, <3>5, <3>6
  <2> QED
    BY <1>6, <2>1, <2>2
<1>17. GivesUp(w, eh, tree, stubs, c, y)
  <2>1. \A e \in tree : e.dir # c
    BY <1>2, <1>8 DEF Good
  <2> QED
    BY <1>8, <1>14, <1>16, <2>1 DEF GivesUp, Drops
<1>18. PICK fh : /\ Good(y, fh, tree, stubs) /\ DOMAIN fh = DOMAIN eh \ {c}
                 /\ \A e, p, x : Stands(y, fh, e, p, x) <=> e # c /\ Stands(w, eh, e, p, x)
  <2>1. GivenUp(w, eh, tree, stubs, c, y)
    BY <1>17, DropGood
  <2> QED
    BY <2>1 DEF GivenUp
<1>19. \A e, p, x : Stands(y, fh, e, p, x) <=> Stands(v, ch, e, p, x)
  <2>1. \A p, x : ~Stands(v, ch, c, p, x)
    BY <1>8 DEF Stands
  <2> QED
    BY <2>1, <1>8, <1>14, <1>18
<1>20. OneEach(y, fh) /\ OpenStand(y, fh, files)
  BY <1>2, <1>19, FewerOnce, OpenStay
<1>21. Sound(y, fh, tree, stubs, files, crossed)
  BY <1>2, <1>8, <1>14, <1>18, <1>20 DEF Sound
<1>22. LocksOK(locks, files, dirs)
  BY DEF TablesInv
<1>23. PICK z : z = u.vol
  OBVIOUS
<1>24. PICK n \in Clusters : n = u.new
  BY <1>13, <1>16
<1> QED
  BY <1>15, <1>21, <1>22, <1>23, <1>24, HalfKeeps

\* A step of a volume that needs no repair.
LEMMA DirNextKeeps ==
  ASSUME DirInv, DirNext
  PROVE  DirInv'
<1>1. TablesInv /\ TablesSound /\ LocksOK(locks, files, dirs) /\ KeysLocked /\ ~crossed /\ uncleared = 0
  BY FilesLocked DEF DirInv, TablesInv, DirNext
<1>2. ASSUME NEW path \in Paths, NEW at \in Where(path) PROVE IsPlace(at)
  BY <1>1, WhereLands
<1>3. ASSUME NEW path \in Paths, NEW at \in Where(path), NEW write \in BOOLEAN, OpenFile(at, write)
      PROVE  DirInv'
  <2>1. TablesInv'
    BY <1>1, <1>2, <1>3, OpenFileKeeps
  <2> QED
    BY <1>1, <1>3, <2>1 DEF DirInv, OpenFile
<1>4. ASSUME NEW path \in Paths, NEW at \in Where(path), NEW id \in FileIds, CreateFile(at, id)
      PROVE  DirInv'
  <2>1. TablesInv'
    BY <1>1, <1>2, <1>4, CreateFileKeeps
  <2> QED
    BY <1>1, <1>4, <2>1 DEF DirInv, CreateFile
<1>5. ASSUME NEW path \in Paths, NEW at \in Where(path), MkDir(at)
      PROVE  DirInv'
  <2>1. TablesSound'
    BY <1>1, <1>2, <1>5, MkDirSound
  <2>2. UNCHANGED <<locks, files, dirs, uncleared>>
    BY <1>5 DEF MkDir
  <2> QED
    BY <1>1, <2>1, <2>2 DEF DirInv, TablesInv
<1>6. ASSUME NEW path \in Paths, NEW at \in Where(path), Unlink(at)
      PROVE  DirInv'
  <2>1. TablesSound'
    BY <1>1, <1>2, <1>6, UnlinkSound
  <2>2. UNCHANGED <<locks, files, dirs, uncleared>>
    BY <1>6 DEF Unlink
  <2> QED
    BY <1>1, <2>1, <2>2 DEF DirInv, TablesInv
<1>7. ASSUME NEW path \in Paths, NEW at \in Where(path), at.pos # 0,
             NEW new \in Paths, NEW to \in Where(new), Rename(at, to, new)
      PROVE  DirInv'
  <2>1. IsPlace(at) /\ IsPlace(to)
    BY <1>2
  <2>2. TablesSound'
    BY <1>1, <1>7, <2>1, RenameSound
  <2>3. UNCHANGED <<locks, files, dirs, uncleared>>
    BY <1>7 DEF Rename
  <2> QED
    BY <1>1, <2>2, <2>3 DEF DirInv, TablesInv
<1>8. ASSUME NEW f \in files, CloseFile(f) PROVE DirInv'
  <2>1. TablesInv'
    BY <1>1, <1>8, CloseFileKeeps
  <2> QED
    BY <1>1, <1>8, <2>1 DEF DirInv, CloseFile
<1>9. ASSUME NEW c, OpenDir(c) PROVE DirInv'
  <2>1. TablesInv'
    BY <1>1, <1>9, OpenDirKeeps
  <2> QED
    BY <1>1, <1>9, <2>1 DEF DirInv, OpenDir
<1>10. ASSUME NEW x \in dirs, CloseDir(x) PROVE DirInv'
  <2>1. TablesInv'
    BY <1>1, <1>10, CloseDirKeeps
  <2> QED
    BY <1>1, <1>10, <2>1 DEF DirInv, CloseDir
<1>11. ASSUME NEW path \in Paths, NEW at \in Where(path), CreateUncleared(at) PROVE DirInv'
  <2>1. /\ UNCHANGED <<locks, files, dirs, tree, stubs, crossed>>
        /\ \E h \in MkDirUncleared(at) \cup RegisterUncleared(Vol, at.dir, at.name) :
             Commit(h.vol) /\ uncleared' = h.new
    BY <1>11 DEF CreateUncleared, EndsUncleared
  <2>2. IsPlace(at) /\ at.dir \in DirsOf(tree)
    BY <1>2 DEF IsPlace
  <2> QED
    BY <1>1, <2>1, <2>2, MkDirUnclearedKeeps, RegisterUnclearedKeeps
<1>12. ASSUME NEW path \in Paths, NEW at \in Where(path), NEW new \in Paths, NEW to \in Where(new),
              RenameUncleared(at, to)
       PROVE  DirInv'
  <2>1. /\ UNCHANGED <<locks, files, dirs, tree, stubs, crossed>>
        /\ \E h \in RegisterUncleared(Vol, to.dir, to.name) : Commit(h.vol) /\ uncleared' = h.new
    BY <1>12 DEF RenameUncleared, EndsUncleared
  <2>2. to.dir \in DirsOf(tree)
    BY <1>2 DEF IsPlace
  <2> QED
    BY <1>1, <2>1, <2>2, RegisterUnclearedKeeps
<1> QED
  BY <1>3, <1>4, <1>5, <1>6, <1>7, <1>8, <1>9, <1>10, <1>11, <1>12 DEF DirNext

\* A volume that f_mkfs has made.
LEMMA DirInitSound ==
  ASSUME DirInit
  PROVE  TablesInv
<1> DEFINE v == Vol
           root == Root
<1>1. /\ table = [c \in Clusters |-> Clear]
      /\ fat = [c \in Clusters |-> IF c = root THEN Eoc ELSE 0]
      /\ DOMAIN locks = {} /\ files = {} /\ dirs = {} /\ tree = {} /\ stubs = {} /\ crossed = FALSE
  BY DEF DirInit
<1>2. root \in Clusters /\ PerCluster \in Nat /\ PerCluster > 1 /\ Parts \in Nat /\ Parts > 0
  BY DirParameters
<1>3. /\ v = [table |-> v.table, fat |-> v.fat] /\ v.table = table /\ v.fat = fat
  BY DEF Vol
<1> HIDE DEF v, root
<1>4. PICK ch : ch = [d \in {root} |-> <<root>>]
  OBVIOUS
<1>5. DOMAIN ch = {root} /\ ch[root] = <<root>> /\ Len(ch[root]) = 1 /\ ch[root][1] = root
      /\ <<root>> \in Seq(Clusters)
  BY <1>2, <1>4
<1>6. \A i : i \in 1 .. 1 <=> i = 1
  OBVIOUS
<1>7. Clear = [i \in 1 .. PerCluster |-> End]
  BY DEF Clear
<1>8. Laid(v, ch)
  <2>1. v.fat \in [Clusters -> Clusters \cup {0, Eoc}]
    BY <1>1, <1>3
  <2>2. v.table = [c \in Clusters |-> [j \in 1 .. PerCluster |-> v.table[c][j]]]
    <3>1. \A c \in Clusters : v.table[c] = Clear
      BY <1>1, <1>3
    <3>2. \A c \in Clusters : [j \in 1 .. PerCluster |-> v.table[c][j]] = Clear
      BY <1>7, <3>1
    <3> QED
      BY <1>1, <1>3, <3>2
  <2>3. IsChain(v, ch[root])
    <3>1. v.fat[root] = Eoc
      BY <1>1, <1>2, <1>3
    <3> QED
      BY <1>5, <1>6, <3>1 DEF IsChain
  <2> QED
    BY <1>3, <1>5, <2>1, <2>2, <2>3 DEF Laid
<1>9. Size(ch, root) = PerCluster /\ \A p \in 1 .. PerCluster : Table(v, ch, root)[p].kind = "end"
  <2>1. Size(ch, root) = PerCluster
    BY <1>2, <1>5 DEF Size
  <2>2. \A p \in 1 .. PerCluster : ClusterOf(p) \in 1 .. 1 /\ PlaceOf(p) \in 1 .. PerCluster
    <3>1. \A p \in 1 .. 1 * PerCluster : ClusterOf(p) \in 1 .. 1 /\ PlaceOf(p) \in 1 .. PerCluster
      BY CellFacts
    <3>2. 1 * PerCluster = PerCluster
      BY <1>2
    <3> QED
      BY <3>1, <3>2
  <2>3. \A p \in 1 .. PerCluster : Table(v, ch, root)[p] = v.table[root][PlaceOf(p)]
    <3> SUFFICES ASSUME NEW p \in 1 .. PerCluster PROVE Table(v, ch, root)[p] = v.table[root][PlaceOf(p)]
      OBVIOUS
    <3>1. ClusterOf(p) = 1
      BY <2>2
    <3>2. p \in 1 .. Len(ch[root]) * PerCluster
      BY <2>1 DEF Size
    <3> QED
      BY <1>5, <3>1, <3>2 DEF Table, SlotsOf
  <2>4. \A p \in 1 .. PerCluster : Table(v, ch, root)[p] = End
    BY <1>1, <1>2, <1>3, <1>7, <2>2, <2>3
  <2> QED
    BY <2>1, <2>4, SlotKinds
<1>10. Tidy(Table(v, ch, root), Size(ch, root), StubsOf(stubs, root))
  <2>1. ASSUME NEW p \in 1 .. Size(ch, root) + 1, NEW n, NEW s, FullRun(Table(v, ch, root), p, n, s) PROVE FALSE
    <3>1. p > Parts /\ Table(v, ch, root)[p - 1] = Lfn(n, 1, s)
      BY <1>2, <2>1 DEF FullRun
    <3>2. p - 1 \in 1 .. PerCluster
      BY <1>2, <1>9, <3>1
    <3> QED
      BY <1>9, <3>1, <3>2, SlotKinds
  <2> QED
    BY <1>9, <2>1 DEF Tidy
<1>11. Good(v, ch, tree, stubs)
  BY <1>1, <1>5, <1>8, <1>9, <1>10 DEF Good, root
<1>12. OneEach(v, ch)
  BY <1>5, <1>9 DEF OneEach, Stands
<1>13. DOMAIN ch = DirsOf(tree) /\ NotRoot(tree) /\ OneName(tree) /\ OpenStand(v, ch, files)
  BY <1>1, <1>5 DEF DirsOf, NotRoot, OneName, OpenStand, root
<1>14. TablesSound
  BY <1>11, <1>12, <1>13 DEF TablesSound, Sound, v
<1>15. LocksOK(locks, files, dirs)
  <2>1. IsFiniteSet({}) /\ Cardinality({}) = 0
    BY FS_EmptySet
  <2>2. OpenFiles({}) /\ OpenDirs({})
    BY <2>1, OpenFile255 DEF OpenFiles, OpenDirs
  <2>3. KeysOf({}, {}) = {}
    BY DEF KeysOf
  <2> QED
    BY <1>1, <2>2, <2>3 DEF LocksOK
<1> QED
  BY <1>14, <1>15 DEF TablesInv

-----------------------------------------------------------------------------
(* What the invariant says of the directories.                             *)

\* Long slots have long names.
LEMMA RunIsLong ==
  ASSUME NEW v, NEW ch, NEW T, NEW N, Good(v, ch, T, N), NEW d \in DOMAIN ch, NEW p \in 1 .. Size(ch, d),
         NEW n, NEW s, FullRun(Table(v, ch, d), p, n, s)
  PROVE  n \in Long
<1>1. /\ Tidy(Table(v, ch, d), Size(ch, d), StubsOf(N, d)) /\ Size(ch, d) \in Nat /\ Parts \in Nat /\ Parts > 0
  BY GoodTable, DirParameters
<1>2. p > Parts /\ Table(v, ch, d)[p - 1] = Lfn(n, 1, s)
  BY <1>1 DEF FullRun
<1>3. p - 1 \in 1 .. Size(ch, d)
  BY <1>1, <1>2
<1> QED
  BY <1>1, <1>2, <1>3, SlotKinds DEF Tidy

LEMMA FoundExactly == TablesInv => FindExact
<1> SUFFICES ASSUME TablesInv, NEW d \in DirsOf(tree), NEW name \in Short \cup Long, <<d, name>> \notin stubs
             PROVE  LET p == Find(Vol, d, name)
                        es == {e \in tree : e.dir = d /\ name \in {e.name, e.sfn}}
                    IN IF es = {} THEN p = 0 ELSE p # 0 /\ \E e \in es : Object(Vol, d, p) = e.obj
  <2>1. Directories = DirsOf(tree)
    BY DEF Directories, DirsOf
  <2> QED
    BY <2>1 DEF FindExact, Names
<1> DEFINE p == Find(Vol, d, name)
           es == {e \in tree : e.dir = d /\ name \in {e.name, e.sfn}}
<1>1. PICK ch : DOMAIN ch = DirsOf(tree) /\ Good(Vol, ch, tree, stubs)
  BY DEF TablesInv, TablesSound, Sound
<1>2. PICK v : v = Vol
  OBVIOUS
<1>3. Good(v, ch, tree, stubs) /\ d \in DOMAIN ch /\ p = Find(v, d, name)
  BY <1>1, <1>2
<1> DEFINE S == Table(v, ch, d)
<1> HIDE DEF p, S
<1>4. /\ p \in 0 .. Size(ch, d)
      /\ p # 0 => /\ p \in 1 .. Size(ch, d) /\ S[p].kind = "sfn"
                  /\ \/ FullRun(S, p, name, S[p].sfn)
                     \/ name \in Short /\ S[p].sfn = name
      /\ p = 0 => \A q \in 1 .. Size(ch, d) : S[q].kind = "sfn" =>
                  /\ ~FullRun(S, q, name, S[q].sfn)
                  /\ ~(name \in Short /\ S[q].sfn = name)
  BY <1>3, FindFacts DEF S, Stands
<1>5. CASE p # 0
  <2>1. PICK e \in tree : e.dir = d /\ Tells(S, p, e, StubsOf(stubs, d))
    BY <1>3, <1>4, <1>5 DEF Good, S
  <2>2. S[p].sfn = e.sfn /\ S[p].obj = e.obj
    BY <2>1, SlotKinds DEF Tells
  <2>3. name \in {e.name, e.sfn}
    <3>1. CASE FullRun(S, p, name, S[p].sfn)
      <4>1. name \in Long
        BY <1>3, <1>4, <1>5, <3>1, RunIsLong DEF S
      <4>2. name = e.name \/ name \in StubsOf(stubs, d)
        BY <2>1, <2>2, <3>1, <4>1 DEF Tells
      <4> QED
        BY <4>2 DEF StubsOf
    <3>2. CASE name \in Short /\ S[p].sfn = name
      BY <2>2, <3>2
    <3> QED
      BY <1>4, <1>5, <3>1, <3>2
  <2>4. Object(Vol, d, p) = e.obj
    <3>1. DirSlots(v, d) = S
      BY <1>3, GoodTable DEF S
    <3> QED
      BY <1>2, <2>2, <3>1 DEF Object
  <2> QED
    BY <1>5, <2>1, <2>3, <2>4 DEF p
<1>6. CASE p = 0
  <2>1. ASSUME NEW e \in tree, e.dir = d, name \in {e.name, e.sfn} PROVE FALSE
    <3>1. IsEntry(e) /\ \E q \in 1 .. Size(ch, d) : Holds(S, q, e)
      BY <1>3, <2>1 DEF Good, S
    <3>2. PICK q \in 1 .. Size(ch, d) : S[q] = Sfn(e.sfn, e.obj) /\ (e.name \in Long => FullRun(S, q, e.name, e.sfn))
      BY <3>1 DEF Holds
    <3>3. S[q].kind = "sfn" /\ S[q].sfn = e.sfn
      BY <3>2, SlotKinds
    <3>4. ~FullRun(S, q, name, e.sfn) /\ ~(name \in Short /\ e.sfn = name)
      BY <1>4, <1>6, <3>3
    <3>5. (e.name \in Long \/ e.name = e.sfn) /\ e.sfn \notin Long
      BY <3>1 DEF IsEntry
    <3> QED
      BY <2>1, <3>2, <3>4, <3>5
  <2> QED
    BY <1>6, <2>1 DEF p
<1> QED
  BY <1>5, <1>6

LEMMA DirectoriesKept == TablesInv => NothingBehindEnd /\ ShortNamesUnique
<1> SUFFICES ASSUME TablesInv PROVE NothingBehindEnd /\ ShortNamesUnique
  OBVIOUS
<1>1. Directories = DirsOf(tree)
  BY DEF Directories, DirsOf
<1>2. PICK ch : Sound(Vol, ch, tree, stubs, files, crossed)
  BY DEF TablesInv, TablesSound
<1>3. PICK v : v = Vol
  OBVIOUS
<1>4. /\ DOMAIN ch = DirsOf(tree) /\ Good(v, ch, tree, stubs) /\ (crossed \/ OneEach(v, ch))
  BY <1>2, <1>3 DEF Sound
<1>5. ASSUME NEW d \in DirsOf(tree)
      PROVE  /\ DirSlots(v, d) = Table(v, ch, d) /\ Len(Table(v, ch, d)) = Size(ch, d)
             /\ Chain(v, d) = ch[d] /\ Len(ch[d]) \in Nat
             /\ \A q \in 1 .. Size(ch, d) : Table(v, ch, d)[q].kind = "sfn" => q \in Reached(Table(v, ch, d))
             /\ Entries(DirSlots(v, d)) = {q \in 1 .. Size(ch, d) : Table(v, ch, d)[q].kind = "sfn"}
  BY <1>4, GoodTable, AllReached
<1>6. NothingBehindEnd
  BY <1>1, <1>3, <1>5 DEF NothingBehindEnd
<1>7. ShortNamesUnique
  <2> SUFFICES ASSUME ~crossed, NEW d \in DirsOf(tree), NEW p \in Entries(DirSlots(v, d)),
                      NEW q \in Entries(DirSlots(v, d)),
                      DirSlots(v, d)[p].sfn = DirSlots(v, d)[q].sfn
               PROVE  p = q
    BY <1>1, <1>3 DEF ShortNamesUnique
  <2>1. Stands(v, ch, d, p, Table(v, ch, d)[p]) /\ Stands(v, ch, d, q, Table(v, ch, d)[q])
    BY <1>4, <1>5 DEF Stands
  <2>2. Table(v, ch, d)[p].sfn = Table(v, ch, d)[q].sfn
    BY <1>5
  <2> QED
    BY <1>4, <2>1, <2>2 DEF OneEach
<1> QED
  BY <1>6, <1>7

\* The FAT alone keeps directories apart.
LEMMA SameClusters ==
  ASSUME NEW v, NEW ch, Laid(v, ch), v.fat = fat, NEW d \in DOMAIN ch
  PROVE  Chain(Vol, d) = ch[d]
<1>1. IsChain(v, ch[d]) /\ ch[d][1] = d
  BY DEF Laid
<1>2. IsChain(Vol, ch[d])
  <2>1. \A i \in 1 .. Len(ch[d]) : Vol.fat[ch[d][i]] = v.fat[ch[d][i]]
    BY DEF Vol
  <2> QED
    BY <1>1, <2>1, SameChain
<1> QED
  BY <1>1, <1>2, ChainWalked

LEMMA StillApart ==
  ASSUME NEW v, NEW ch, DOMAIN ch = DirsOf(tree), Laid(v, ch), v.fat = fat
  PROVE  TablesApart
<1>1. Directories = DirsOf(tree)
  BY DEF Directories, DirsOf
<1>2. \A d \in DirsOf(tree) : ClustersOf(Vol, d) = {ch[d][i] : i \in 1 .. Len(ch[d])}
  BY SameClusters DEF ClustersOf
<1>3. ASSUME NEW d \in DirsOf(tree), NEW c \in ClustersOf(Vol, d) PROVE fat[c] # 0
  <2>1. PICK i \in 1 .. Len(ch[d]) : c = ch[d][i]
    BY <1>2
  <2>2. IsChain(v, ch[d])
    BY DEF Laid
  <2> QED
    BY <2>1, <2>2, UnusedApart
<1>4. ASSUME NEW d \in DirsOf(tree), NEW e \in DirsOf(tree), d # e
      PROVE  ClustersOf(Vol, d) \cap ClustersOf(Vol, e) = {}
  <2>1. \A i \in 1 .. Len(ch[d]), j \in 1 .. Len(ch[e]) : ch[d][i] # ch[e][j]
    BY <1>4 DEF Laid
  <2> QED
    BY <1>2, <2>1
<1> QED
  BY <1>1, <1>3, <1>4 DEF TablesApart

\* Entries of open files, in whatever tables have the short slots of v.
LEMMA StillThere ==
  ASSUME NEW v, NEW ch, DOMAIN ch = DirsOf(tree), Laid(v, ch), v.fat = fat, OpenStand(v, ch, files),
         \A c \in Clusters, j \in 1 .. PerCluster : v.table[c][j].kind = "sfn" => table[c][j] = v.table[c][j]
  PROVE  OpenEntryStays
<1>1. Directories = DirsOf(tree)
  BY DEF Directories, DirsOf
<1> SUFFICES ASSUME NEW f \in files
             PROVE  /\ f.key[1] \in DirsOf(tree) /\ f.key[2] \in 1 .. Len(DirSlots(Vol, f.key[1]))
                    /\ DirSlots(Vol, f.key[1])[f.key[2]].kind = "sfn"
                    /\ DirSlots(Vol, f.key[1])[f.key[2]].obj = f.obj
  BY <1>1 DEF OpenEntryStays
<1> DEFINE d == f.key[1]
           p == f.key[2]
           s == ch[d]
<1>2. PICK x : Stands(v, ch, d, p, x) /\ x.obj = f.obj
  BY DEF OpenStand
<1>3. d \in DOMAIN ch /\ p \in 1 .. Len(s) * PerCluster /\ SlotsOf(v, s)[p] = x /\ x.kind = "sfn"
  BY <1>2 DEF Stands, Size, Table
<1>4. Len(s) \in Nat /\ Len(s) * PerCluster \in Nat /\ \A i \in 1 .. Len(s) : s[i] \in Clusters
  BY <1>3, LaidSlots
<1>5. ClusterOf(p) \in 1 .. Len(s) /\ PlaceOf(p) \in 1 .. PerCluster
  BY <1>3, <1>4, CellFacts
<1>6. Vol.table[s[ClusterOf(p)]][PlaceOf(p)] = x
  <2>1. v.table[s[ClusterOf(p)]][PlaceOf(p)] = x
    BY <1>3 DEF SlotsOf
  <2> QED
    BY <1>3, <1>4, <1>5, <2>1 DEF Vol
<1>7. DirSlots(Vol, d) = SlotsOf(Vol, s)
  <2>1. Chain(Vol, d) = s
    BY <1>3, SameClusters
  <2> QED
    BY <2>1 DEF DirSlots, SlotsOf, Cell, ClusterOf, PlaceOf
<1>8. SlotsOf(Vol, s)[p] = x /\ Len(SlotsOf(Vol, s)) = Len(s) * PerCluster
  <2>1. SlotsOf(Vol, s)[p] = x
    BY <1>3, <1>6 DEF SlotsOf
  <2> QED
    BY <1>4, <2>1, SlotsLength
<1> QED
  BY <1>2, <1>3, <1>7, <1>8

LEMMA LocksStill == ASSUME LocksOK(locks, files, dirs) PROVE LocksExact
<1> SUFFICES ASSUME NEW k \in DOMAIN locks
             PROVE  LET users == {f \in files : f.key = k} \cup {x \in dirs : k = <<x[1], 0>>}
                    IN IF locks[k] = 256 THEN \E f \in files : f.write /\ users = {f}
                       ELSE locks[k] = Cardinality(users) /\ \A f \in files : f.key = k => ~f.write
  BY DEF LocksExact
<1>1. LockIs(k, locks[k], files, dirs)
  BY DEF LocksOK
<1>2. Cardinality(Users(k, files, dirs)) = Cardinality(Users(k, files, dirs))
  BY DirCardinality
<1>3. Users(k, files, dirs) = {f \in files : f.key = k} \cup {x \in dirs : k = <<x[1], 0>>}
  BY DEF Users
<1>4. CASE locks[k] = 256
  BY <1>1, <1>3, <1>4 DEF LockIs
<1>5. CASE locks[k] # 256
  BY <1>1, <1>2, <1>3, <1>5 DEF LockIs
<1> QED
  BY <1>4, <1>5

\* A volume in order, or one that lacks a clear cluster.
LEMMA TablesStill == DirInv => TablesApart /\ OpenEntryStays /\ LocksExact
<1> SUFFICES ASSUME DirInv PROVE TablesApart /\ OpenEntryStays /\ LocksExact
  OBVIOUS
<1>1. CASE uncleared = 0
  <2>1. PICK ch : Sound(Vol, ch, tree, stubs, files, crossed)
    BY <1>1 DEF DirInv, TablesInv, TablesSound
  <2>2. DOMAIN ch = DirsOf(tree) /\ Laid(Vol, ch) /\ OpenStand(Vol, ch, files) /\ LocksOK(locks, files, dirs)
    BY <1>1, <2>1 DEF Sound, Good, DirInv, TablesInv
  <2>3. PICK v : v = Vol
    OBVIOUS
  <2>4. /\ Laid(v, ch) /\ OpenStand(v, ch, files) /\ v.fat = fat
        /\ \A c \in Clusters, j \in 1 .. PerCluster : v.table[c][j].kind = "sfn" => table[c][j] = v.table[c][j]
    BY <2>2, <2>3 DEF Vol
  <2> QED
    BY <2>2, <2>4, StillApart, StillThere, LocksStill
<1>2. CASE uncleared # 0
  <2>1. PICK v : v = Wiped(Vol, uncleared)
    OBVIOUS
  <2>2. PICK ch : Sound(v, ch, tree, stubs, files, crossed)
    BY <1>2, <2>1 DEF DirInv, UnclearedInv
  <2>3. /\ DOMAIN ch = DirsOf(tree) /\ Laid(v, ch) /\ OpenStand(v, ch, files) /\ LocksOK(locks, files, dirs)
        /\ uncleared \in Clusters
    BY <1>2, <2>2 DEF Sound, Good, DirInv, UnclearedInv
  <2>4. v.fat = fat /\ v.table = [table EXCEPT ![uncleared] = Clear]
    BY <2>1 DEF Wiped, Vol
  <2>5. DOMAIN table = Clusters
    <3>1. v.table = [c \in Clusters |-> [j \in 1 .. PerCluster |-> v.table[c][j]]]
      BY <2>3 DEF Laid
    <3>2. DOMAIN v.table = Clusters
      BY <3>1
    <3> QED
      BY <2>4, <3>2
  <2>6. ASSUME NEW c \in Clusters, NEW j \in 1 .. PerCluster, v.table[c][j].kind = "sfn"
        PROVE  table[c][j] = v.table[c][j]
    <3>1. CASE c # uncleared
      BY <2>4, <2>5, <3>1
    <3>2. CASE c = uncleared
      <4>1. v.table[c] = Clear
        BY <2>3, <2>4, <2>5, <3>2
      <4>2. v.table[c][j] = End
        BY <4>1 DEF Clear
      <4> QED
        BY <2>6, <4>2, SlotKinds
    <3> QED
      BY <3>1, <3>2
  <2> QED
    BY <2>3, <2>4, <2>6, StillApart, StillThere, LocksStill
<1> QED
  BY <1>1, <1>2

-----------------------------------------------------------------------------

\* Whatever is opened, made, renamed and removed, and wherever the disk fails:
\* chains stay apart, each entry of the history stands in its slots and no slot
\* stands for anything else, and Files[] counts what is open; where dir_clear has
\* failed behind a stretch (dir_next), all but the contents of that one cluster.
THEOREM DirectoriesSound == DirSpec => []DirInv
<1>1. DirInv /\ [DirNext]_dirVars => DirInv'
  <2> SUFFICES ASSUME DirInv, [DirNext]_dirVars PROVE DirInv'
    OBVIOUS
  <2>1. CASE DirNext
    BY <2>1, DirNextKeeps
  <2>2. CASE UNCHANGED dirVars
    <3>1. UNCHANGED <<table, fat, locks, files, dirs, tree, stubs, crossed, uncleared>>
      BY <2>2 DEF dirVars
    <3>2. CASE uncleared = 0
      <4>1. TablesSound /\ LocksOK(locks, files, dirs)
        BY <3>2 DEF DirInv, TablesInv
      <4>2. TablesSound'
        BY <3>1, <4>1, TablesKept
      <4> QED
        BY <3>1, <3>2, <4>1, <4>2 DEF DirInv, TablesInv
    <3>3. CASE uncleared # 0
      <4>1. UnclearedInv'
        BY <3>1, <3>3 DEF DirInv, UnclearedInv, Vol
      <4> QED
        BY <3>1, <3>3, <4>1 DEF DirInv
    <3> QED
      BY <3>2, <3>3
  <2> QED
    BY <2>1, <2>2
<1>2. DirInit => DirInv
  BY DirInitSound DEF DirInit, DirInv
<1> QED
  BY <1>1, <1>2, PTL DEF DirSpec

\* Directories share no cluster, wherever the disk fails; and unless it has failed
\* in the dir_clear of a stretch, dir_find finds in each directory what dir_register
\* and dir_remove left, nothing stands behind the end and short names are unique.
THEOREM DirectoriesHold == DirSpec => []DirectoriesExact
<1>1. DirInv => DirectoriesExact
  <2>1. DirInv /\ uncleared = 0 => FindExact /\ NothingBehindEnd /\ ShortNamesUnique
    BY FoundExactly, DirectoriesKept DEF DirInv
  <2> QED
    BY <2>1, TablesStill DEF DirectoriesExact
<1> QED
  BY <1>1, DirectoriesSound, PTL

\* The entry of an open file stays where its lock says, and the locks are exact,
\* a failed stretch (dir_next) or not.
THEOREM OpenEntriesHold == DirSpec => []OpenEntriesLocked
<1>1. DirInv => OpenEntriesLocked
  BY TablesStill DEF OpenEntriesLocked
<1> QED
  BY <1>1, DirectoriesSound, PTL
=============================================================================
