--------------------------- MODULE FatFilesProof ---------------------------
(***************************************************************************)
(* Proofs about FatFiles, for any finite number of workers and any size of *)
(* the tables.  The properties are not inductive one by one: busy_count    *)
(* stays positive only because it counts the operating handlers, and those *)
(* keep their object only because fd_unset refuses a busy slot.  IInv adds *)
(* what a suspended handler may rely on when it comes back.                *)
(* The second half is about FatDisk, with any sectors and block size, and  *)
(* operations one at a time.                                               *)
(***************************************************************************)
EXTENDS MCFatFiles, FiniteSetTheorems, TLAPS

\* A handler inside fd_begin_op/fd_end_op: its slot is busy and names its object.
OpInv ==
    \A w \in Workers : pc[w] = "op" =>
        /\ wfd[w] \in Fds
        /\ Resolves(wfd[w])
        /\ ofState[wfd[w][1]] \in {"busy_file", "busy_dir"}
        /\ ofHandle[wfd[w][1]] = wobj[w]

\* A handler inside f_close owns an allocated slot, which no other close owns.
CloseInv ==
    /\ \A w \in Workers : pc[w] = "close" =>
        /\ wfd[w] \in Fds
        /\ Resolves(wfd[w])
        /\ ofState[wfd[w][1]] = "allocated"
        /\ ofGen[wfd[w][1]] < MaxGen
        /\ wobj[w] \in Files
    /\ \A w, v \in Workers : pc[w] = "close" /\ pc[v] = "close" /\ w # v =>
        wfd[w][1] # wfd[v][1]

\* Descriptors are issued with the generation their slot has at that time.
IssuedInv == \A fd \in issued : fd[2] <= ofGen[fd[1]]

HoldInv == \A w \in Workers : Holds(w) => wobj[w] \in Objs

IInv == /\ TypeOK /\ OpInv /\ CloseInv /\ IssuedInv /\ HoldInv
        /\ BusyCountExact /\ OneOwner /\ NoFileLost /\ NoSlotLost /\ HandleKind

USE FatFilesAssumption DEF FatFilesAssumption

LEMMA InitIInv == Init => IInv
<1> SUFFICES ASSUME Init PROVE IInv
  OBVIOUS
<1> USE DEF Init
<1>1. TypeOK
  <2>1. ofState \in [Slots -> States] /\ ofHandle \in [Slots -> Objs \cup {NoObj}]
    BY DEF States
  <2>2. ofBusy \in [Slots -> Nat] /\ ofGen \in [Slots -> 0 .. MaxGen]
    OBVIOUS
  <2>3. wfd \in [Workers -> Fds \cup {NoFd}] /\ wobj \in [Workers -> Objs \cup {NoObj}]
    OBVIOUS
  <2>4. used \in [Objs -> BOOLEAN] /\ objId \in [Objs -> Nat] /\ issued \subseteq Fds
    OBVIOUS
  <2> QED
    BY <2>1, <2>2, <2>3, <2>4 DEF TypeOK
<1>2. OpInv /\ CloseInv /\ IssuedInv /\ HoldInv
  BY DEF OpInv, CloseInv, IssuedInv, HoldInv, Holds
<1>3. BusyCountExact
  <2>1. \A i \in Slots : Operating(i) = {}
    BY DEF Operating
  <2> QED
    BY <2>1, FS_EmptySet DEF BusyCountExact
<1>4. OneOwner /\ NoFileLost /\ NoSlotLost /\ HandleKind
  BY DEF OneOwner, NoFileLost, NoSlotLost, HandleKind, Installed, Holds, Objs
<1> QED
  BY <1>1, <1>2, <1>3, <1>4 DEF IInv

\* The workers operating on a slot are finitely many, and a step that neither
\* enters nor leaves an operation keeps them.
LEMMA OperatingFinite == ASSUME NEW i PROVE IsFiniteSet(Operating(i))
BY FS_Subset DEF Operating

LEMMA OperatingSame ==
  ASSUME TypeOK, NEW w \in Workers, pc[w] # "op",
         \E p, f : /\ p # "op" /\ pc' = [pc EXCEPT ![w] = p]
                   /\ wfd' = [wfd EXCEPT ![w] = f],
         NEW i
  PROVE  Operating(i)' = Operating(i)
BY DEF Operating, TypeOK

-----------------------------------------------------------------------------
(* Steps that mount, unmount or run a path operation touch no object, slot *)
(* or descriptor.                                                          *)

Bare == {"idle", "initialise", "path"}

MountStep(w) ==
    /\ pc[w] \in Bare
    /\ \/ /\ \E p \in Bare : pc' = [pc EXCEPT ![w] = p]
          /\ wfd' = [wfd EXCEPT ![w] = NoFd]
          /\ wobj' = [wobj EXCEPT ![w] = NoObj]
       \/ UNCHANGED workerVars
    /\ fsInitialised' \in BOOLEAN /\ registered' \in BOOLEAN /\ typed' \in BOOLEAN
    /\ fsid' \in Nat
    /\ UNCHANGED <<objVars, ofVars, issued, lost>>

LEMMA MountStepIInv ==
  ASSUME IInv, NEW w \in Workers, MountStep(w)
  PROVE  IInv'
<1> USE DEF IInv, MountStep, Bare, objVars, ofVars, workerVars
<1>1. TypeOK'
  BY DEF TypeOK
<1>2. OpInv' /\ CloseInv' /\ IssuedInv' /\ HoldInv'
  BY DEF TypeOK, OpInv, CloseInv, IssuedInv, HoldInv, Holds, Resolves
<1>3. BusyCountExact'
  <2>1. \A i \in Slots : Operating(i)' = Operating(i)
    BY DEF Operating, TypeOK
  <2> QED
    BY <2>1 DEF BusyCountExact
<1>4. OneOwner' /\ HandleKind'
  BY DEF TypeOK, OneOwner, HandleKind, Installed, Holds
<1>5. NoFileLost' /\ NoSlotLost'
  BY DEF TypeOK, NoFileLost, NoSlotLost, Installed, Holds
<1> QED
  BY <1>1, <1>2, <1>3, <1>4, <1>5

LEMMA MountActions ==
  ASSUME IInv, NEW w \in Workers,
         \/ Initialise(w) \/ InitialiseDone(w) \/ InitialiseFail(w) \/ Deinitialise(w)
         \/ PathOp(w) \/ PathOpDone(w) \/ PathOpFail(w)
  PROVE  IInv'
<1>1. fsInitialised \in BOOLEAN /\ registered \in BOOLEAN /\ typed \in BOOLEAN /\ fsid \in Nat
  BY DEF IInv, TypeOK
<1>2. {"idle", "initialise", "path"} = Bare
  BY DEF Bare
<1>3. MountStep(w)
  <2>1. CASE Initialise(w)
    BY <1>1, <1>2, <2>1 DEF MountStep, Initialise, Suspend
  <2>2. CASE InitialiseDone(w)
    <3>1. typed' = TRUE /\ fsid' \in Nat
      BY <1>1, <2>2 DEF InitialiseDone, Mounted
    <3> QED
      BY <1>1, <1>2, <2>2, <3>1 DEF MountStep, InitialiseDone, Return
  <2>3. CASE InitialiseFail(w)
    BY <1>1, <1>2, <2>3 DEF MountStep, InitialiseFail, Return
  <2>4. CASE Deinitialise(w)
    BY <1>1, <1>2, <2>4 DEF MountStep, Deinitialise
  <2>5. CASE PathOp(w)
    BY <1>1, <1>2, <2>5 DEF MountStep, PathOp, Suspend, mountVars
  <2>6. CASE PathOpDone(w)
    <3>1. typed' = TRUE /\ fsid' \in Nat
      BY <1>1, <2>6 DEF PathOpDone, Mounted
    <3> QED
      BY <1>1, <1>2, <2>6, <3>1 DEF MountStep, PathOpDone, Return
  <2>7. CASE PathOpFail(w)
    BY <1>1, <1>2, <2>7 DEF MountStep, PathOpFail, Return, mountVars
  <2> QED
    BY <2>1, <2>2, <2>3, <2>4, <2>5, <2>6, <2>7
<1> QED
  BY <1>3, MountStepIInv

-----------------------------------------------------------------------------
(* Opening: the worker holds an object that nobody else owns.              *)

\* Busy counts survive every step that neither enters nor leaves an operation
\* and changes no busy slot: what close and open rely on.
LEMMA BusyCountKept ==
  ASSUME IInv, NEW w \in Workers, pc[w] # "op",
         \E p, f : /\ p # "op" /\ pc' = [pc EXCEPT ![w] = p]
                   /\ wfd' = [wfd EXCEPT ![w] = f],
         \A i \in Slots :
            /\ ofBusy'[i] = ofBusy[i]
            /\ ofState'[i] \in {"busy_file", "busy_dir"}
                 <=> ofState[i] \in {"busy_file", "busy_dir"}
  PROVE  BusyCountExact'
<1>1. TypeOK
  BY DEF IInv
<1>2. \A i \in Slots : Operating(i)' = Operating(i)
  BY <1>1, OperatingSame
<1> QED
  BY <1>2 DEF IInv, BusyCountExact

LEMMA OpenStartIInv ==
  ASSUME IInv, NEW w \in Workers, NEW k \in Kinds, OpenStart(w, k)
  PROVE  IInv'
<1>1. PICK o \in Objs, p \in {"open", "mount"} :
        /\ ~used[o]
        /\ used' = [used EXCEPT ![o] = TRUE]
        /\ pc[w] = "idle"
        /\ pc' = [pc EXCEPT ![w] = p]
        /\ wfd' = [wfd EXCEPT ![w] = NoFd]
        /\ wobj' = [wobj EXCEPT ![w] = o]
  BY DEF OpenStart, Suspend, Pool, Objs, Kinds
<1>2. UNCHANGED <<fsInitialised, registered, typed, fsid, objId,
                  ofState, ofHandle, ofBusy, ofGen, issued, lost>>
  BY DEF OpenStart, mountVars, ofVars
<1>3. TypeOK'
  BY <1>1, <1>2 DEF IInv, TypeOK
<1>4. OpInv' /\ CloseInv' /\ IssuedInv' /\ HoldInv'
  BY <1>1, <1>2 DEF IInv, TypeOK, OpInv, CloseInv, IssuedInv, HoldInv, Holds, Resolves
<1>5. BusyCountExact'
  BY <1>1, <1>2, BusyCountKept
<1>6. OneOwner'
  BY <1>1, <1>2 DEF IInv, TypeOK, OneOwner, HoldInv, Installed, Holds
<1>7. NoFileLost' /\ NoSlotLost' /\ HandleKind'
  BY <1>1, <1>2 DEF IInv, TypeOK, NoFileLost, NoSlotLost, HandleKind, Installed, Holds, Objs
<1> QED
  BY <1>3, <1>4, <1>5, <1>6, <1>7 DEF IInv

LEMMA OpenMountedIInv ==
  ASSUME IInv, NEW w \in Workers, OpenMounted(w)
  PROVE  IInv'
<1>1. /\ pc[w] = "mount"
      /\ pc' = [pc EXCEPT ![w] = "open"]
      /\ typed' = TRUE
      /\ fsid' = fsid + 1
      /\ UNCHANGED <<fsInitialised, registered, used, objId,
                     ofState, ofHandle, ofBusy, ofGen, wfd, wobj, issued, lost>>
  BY DEF OpenMounted, Mounted, objVars, ofVars
<1>2. TypeOK'
  BY <1>1 DEF IInv, TypeOK
<1>3. OpInv' /\ CloseInv' /\ IssuedInv' /\ HoldInv'
  BY <1>1 DEF IInv, TypeOK, OpInv, CloseInv, IssuedInv, HoldInv, Holds, Resolves
<1>4. BusyCountExact'
  <2>1. wfd' = [wfd EXCEPT ![w] = wfd[w]]
    BY <1>1 DEF IInv, TypeOK
  <2> QED
    BY <1>1, <2>1, BusyCountKept
<1>5. OneOwner' /\ NoFileLost' /\ NoSlotLost' /\ HandleKind'
  BY <1>1 DEF IInv, TypeOK, OneOwner, NoFileLost, NoSlotLost, HandleKind, Installed, Holds
<1> QED
  BY <1>2, <1>3, <1>4, <1>5 DEF IInv

LEMMA OpenFailIInv ==
  ASSUME IInv, NEW w \in Workers, OpenFail(w)
  PROVE  IInv'
<1> DEFINE o == wobj[w]
<1>1. /\ pc[w] \in {"mount", "open"}
      /\ used' = [used EXCEPT ![o] = FALSE]
      /\ objId' = [objId EXCEPT ![o] = 0]
      /\ pc' = [pc EXCEPT ![w] = "idle"]
      /\ wfd' = [wfd EXCEPT ![w] = NoFd]
      /\ wobj' = [wobj EXCEPT ![w] = NoObj]
      /\ UNCHANGED <<fsInitialised, registered, typed, fsid,
                     ofState, ofHandle, ofBusy, ofGen, issued, lost>>
  BY DEF OpenFail, Return, mountVars, ofVars
<1>2. o \in Objs /\ Holds(w)
  BY <1>1 DEF IInv, HoldInv, Holds
<1>3. TypeOK'
  BY <1>1 DEF IInv, TypeOK
<1>4. OpInv' /\ CloseInv' /\ IssuedInv' /\ HoldInv'
  BY <1>1 DEF IInv, TypeOK, OpInv, CloseInv, IssuedInv, HoldInv, Holds, Resolves
<1>5. BusyCountExact'
  BY <1>1, BusyCountKept
<1>6. OneOwner'
  BY <1>1, <1>2 DEF IInv, TypeOK, OneOwner, HoldInv, Installed, Holds
<1>7. NoFileLost' /\ NoSlotLost' /\ HandleKind'
  BY <1>1, <1>2 DEF IInv, TypeOK, OneOwner, NoFileLost, NoSlotLost, HandleKind, Installed, Holds, Objs
<1> QED
  BY <1>3, <1>4, <1>5, <1>6, <1>7 DEF IInv

LEMMA OpenDoneIInv ==
  ASSUME IInv, NEW w \in Workers, NEW k \in Kinds, OpenDone(w, k)
  PROVE  IInv'
<1> DEFINE o == wobj[w]
<1>1. PICK s \in Slots :
        /\ ofState[s] = "free"
        /\ ofState' = [ofState EXCEPT ![s] = Open(k)]
        /\ ofHandle' = [ofHandle EXCEPT ![s] = o]
        /\ issued' = issued \cup {<<s, ofGen[s]>>}
  BY DEF OpenDone
<1>2. /\ pc[w] = "open"
      /\ o \in Pool(k)
      /\ objId' = [objId EXCEPT ![o] = fsid]
      /\ pc' = [pc EXCEPT ![w] = "idle"]
      /\ wfd' = [wfd EXCEPT ![w] = NoFd]
      /\ wobj' = [wobj EXCEPT ![w] = NoObj]
      /\ UNCHANGED <<fsInitialised, registered, typed, fsid, used, ofBusy, ofGen, lost>>
  BY DEF OpenDone, Return, mountVars
<1>3. \/ Open(k) = "open_file" /\ o \in Files
      \/ Open(k) = "open_dir" /\ o \in Dirs
  BY <1>2 DEF Open, Pool, Kinds
<1>4. TypeOK'
  <2>1. <<s, ofGen[s]>> \in Fds
    BY <1>1 DEF IInv, TypeOK, Fds
  <2>2. issued' \subseteq Fds
    BY <1>1, <2>1 DEF IInv, TypeOK
  <2>3. ofState' \in [Slots -> States] /\ ofHandle' \in [Slots -> Objs \cup {NoObj}]
    BY <1>1, <1>3 DEF IInv, TypeOK, States, Objs
  <2> QED
    BY <1>2, <2>2, <2>3 DEF IInv, TypeOK
<1>5. OpInv' /\ CloseInv'
  BY <1>1, <1>2 DEF IInv, TypeOK, OpInv, CloseInv, Resolves, Fds
<1>6. IssuedInv' /\ HoldInv'
  BY <1>1, <1>2 DEF IInv, TypeOK, IssuedInv, HoldInv, Holds
<1>7. BusyCountExact'
  BY <1>1, <1>2, <1>3, BusyCountKept DEF IInv, TypeOK
<1>8. OneOwner'
  BY <1>1, <1>2, <1>3 DEF IInv, TypeOK, OneOwner, Installed, Holds
<1>9. NoFileLost' /\ NoSlotLost'
  BY <1>1, <1>2, <1>3 DEF IInv, TypeOK, NoFileLost, NoSlotLost, Installed, Holds
<1>10. HandleKind'
  BY <1>1, <1>2, <1>3 DEF IInv, TypeOK, HandleKind
<1> QED
  BY <1>4, <1>5, <1>6, <1>7, <1>8, <1>9, <1>10 DEF IInv

-----------------------------------------------------------------------------
(* Operating: the count of a slot follows the set of its operators.        *)

LEMMA OpStartIInv ==
  ASSUME IInv, NEW w \in Workers, NEW k \in Kinds, OpStart(w, k)
  PROVE  IInv'
<1>1. PICK fd \in Fds :
        /\ Accepts(fd, k)
        /\ pc[w] = "idle"
        /\ pc' = [pc EXCEPT ![w] = "op"]
        /\ wfd' = [wfd EXCEPT ![w] = fd]
        /\ wobj' = [wobj EXCEPT ![w] = ofHandle[fd[1]]]
        /\ ofState' = [ofState EXCEPT ![fd[1]] = Busy(k)]
        /\ ofBusy' = [ofBusy EXCEPT ![fd[1]] = IF ofState[fd[1]] = Open(k) THEN 1
                                               ELSE ofBusy[fd[1]] + 1]
        /\ UNCHANGED <<fsInitialised, registered, typed, fsid, used, objId,
                       ofHandle, ofGen, issued, lost>>
  BY DEF OpStart, Suspend, InputFds, mountVars, objVars, IInv, TypeOK
<1> DEFINE s == fd[1]
<1>2. s \in Slots /\ Resolves(fd)
  BY <1>1 DEF Fds, Accepts
<1>3. \/ ofState[s] \in {"open_file", "busy_file"} /\ Busy(k) = "busy_file" /\ Open(k) = "open_file"
      \/ ofState[s] \in {"open_dir", "busy_dir"} /\ Busy(k) = "busy_dir" /\ Open(k) = "open_dir"
  BY <1>1 DEF Accepts, Open, Busy, Kinds
<1>4. TypeOK'
  <2>1. ofBusy' \in [Slots -> Nat] /\ ofState' \in [Slots -> States]
    BY <1>1, <1>2, <1>3 DEF IInv, TypeOK, States
  <2>2. wfd' \in [Workers -> Fds \cup {NoFd}] /\ wobj' \in [Workers -> Objs \cup {NoObj}]
    BY <1>1, <1>2 DEF IInv, TypeOK
  <2> QED
    BY <1>1, <2>1, <2>2 DEF IInv, TypeOK
<1>5. OpInv'
  BY <1>1, <1>2, <1>3 DEF IInv, TypeOK, OpInv, Resolves, Fds
<1>6. CloseInv'
  BY <1>1, <1>2, <1>3 DEF IInv, TypeOK, CloseInv, Resolves
<1>7. IssuedInv' /\ HoldInv'
  BY <1>1 DEF IInv, TypeOK, IssuedInv, HoldInv, Holds
<1>8. BusyCountExact'
  <2>1. \A i \in Slots \ {s} : Operating(i)' = Operating(i)
    BY <1>1 DEF IInv, TypeOK, Operating
  <2>2. Operating(s)' = Operating(s) \cup {w} /\ w \notin Operating(s)
    BY <1>1 DEF IInv, TypeOK, Operating
  <2>3. Cardinality(Operating(s)') = Cardinality(Operating(s)) + 1
    BY <2>2, OperatingFinite, FS_AddElement
  <2>4. ofState[s] = Open(k) => ofBusy[s] = 0
    <3>1. ofState[s] = Open(k) => Operating(s) = {}
      BY <1>2, <1>3 DEF IInv, BusyCountExact
    <3> QED
      BY <1>2, <3>1, FS_EmptySet DEF IInv, BusyCountExact
  <2>5. ofBusy'[s] = Cardinality(Operating(s)')
    BY <1>1, <1>2, <2>3, <2>4 DEF IInv, TypeOK, BusyCountExact
  <2>6. ofState'[s] \in {"busy_file", "busy_dir"} /\ Operating(s)' # {}
    BY <1>1, <1>2, <1>3, <2>2 DEF IInv, TypeOK
  <2>7. \A i \in Slots \ {s} : ofBusy'[i] = ofBusy[i] /\ ofState'[i] = ofState[i]
    BY <1>1, <1>2 DEF IInv, TypeOK
  <2> QED
    BY <2>1, <2>5, <2>6, <2>7 DEF IInv, BusyCountExact
<1>9. OneOwner' /\ NoFileLost' /\ NoSlotLost'
  <2>1. \A i \in Slots : Installed(i)' <=> Installed(i)
    BY <1>1, <1>2, <1>3 DEF IInv, TypeOK, Installed
  <2>2. \A v \in Workers : /\ Holds(v)' <=> Holds(v)
                           /\ Holds(v) => wobj'[v] = wobj[v]
    BY <1>1 DEF IInv, TypeOK, Holds
  <2>3. OneOwner' /\ NoFileLost'
    BY <1>1, <2>1, <2>2 DEF IInv, OneOwner, NoFileLost
  <2>4. NoSlotLost'
    BY <1>1, <1>2, <1>3 DEF IInv, TypeOK, NoSlotLost
  <2> QED
    BY <2>3, <2>4
<1>10. HandleKind'
  BY <1>1, <1>2, <1>3 DEF IInv, TypeOK, HandleKind
<1> QED
  BY <1>4, <1>5, <1>6, <1>7, <1>8, <1>9, <1>10 DEF IInv

LEMMA OpEndIInv ==
  ASSUME IInv, NEW w \in Workers, NEW k \in Kinds, OpEnd(w, k)
  PROVE  IInv'
<1>0. PICK s, n : s = wfd[w][1] /\ n = ofBusy[s]
  OBVIOUS
<1>1. /\ pc[w] = "op"
      /\ ofState[s] = Busy(k)
      /\ ofBusy' = [ofBusy EXCEPT ![s] = n - 1]
      /\ ofState' = [ofState EXCEPT ![s] = IF n = 1 THEN Open(k) ELSE Busy(k)]
      /\ pc' = [pc EXCEPT ![w] = "idle"]
      /\ wfd' = [wfd EXCEPT ![w] = NoFd]
      /\ wobj' = [wobj EXCEPT ![w] = NoObj]
      /\ UNCHANGED <<fsInitialised, registered, typed, fsid, used, objId,
                     ofHandle, ofGen, issued, lost>>
  BY <1>0 DEF OpEnd, EndWith, Return, mountVars, objVars
<1>2. s \in Slots
  BY <1>0, <1>1 DEF IInv, OpInv, Fds
<1>3. \/ Busy(k) = "busy_file" /\ Open(k) = "open_file"
      \/ Busy(k) = "busy_dir" /\ Open(k) = "open_dir"
  BY DEF Open, Busy, Kinds
<1>4. /\ \A i \in Slots \ {s} : Operating(i)' = Operating(i)
      /\ Operating(s)' = Operating(s) \ {w}
      /\ w \in Operating(s)
  <2>1. \A i \in Slots : \A v \in Workers \ {w} :
          v \in Operating(i)' <=> v \in Operating(i)
    BY <1>1 DEF IInv, TypeOK, Operating
  <2>2. \A i \in Slots : w \notin Operating(i)' /\ (w \in Operating(i) <=> i = s)
    BY <1>0, <1>1 DEF IInv, TypeOK, Operating
  <2>3. \A i \in Slots : Operating(i) \subseteq Workers /\ Operating(i)' \subseteq Workers
    BY DEF Operating
  <2> QED
    BY <1>2, <2>1, <2>2, <2>3
<1>5. /\ Cardinality(Operating(s)') = n - 1
      /\ n \in Nat /\ n > 0
  <2>1. n = Cardinality(Operating(s)) /\ n \in Nat
    BY <1>0, <1>2 DEF IInv, BusyCountExact, TypeOK
  <2>2. n # 0
    BY <1>4, <2>1, OperatingFinite, FS_EmptySet
  <2>3. Cardinality(Operating(s) \ {w}) = n - 1
    BY <1>4, <2>1, OperatingFinite, FS_RemoveElement
  <2> QED
    BY <1>4, <2>1, <2>2, <2>3
<1>6. n = 1 <=> Operating(s)' = {}
  <2>1. IsFiniteSet(Operating(s)')
    BY <1>4, OperatingFinite, FS_Subset
  <2> QED
    BY <1>5, <2>1, FS_EmptySet
<1>7. TypeOK'
  <2>1. ofBusy' \in [Slots -> Nat] /\ ofState' \in [Slots -> States]
    BY <1>1, <1>2, <1>3, <1>5 DEF IInv, TypeOK, States
  <2> QED
    BY <1>1, <2>1 DEF IInv, TypeOK
<1>8. OpInv'
  <2> SUFFICES ASSUME NEW v \in Workers, pc'[v] = "op"
               PROVE  /\ wfd'[v] \in Fds
                      /\ Resolves(wfd[v])'
                      /\ ofState'[wfd'[v][1]] \in {"busy_file", "busy_dir"}
                      /\ ofHandle'[wfd'[v][1]] = wobj'[v]
    BY DEF OpInv
  <2>1. v # w /\ pc[v] = "op" /\ wfd'[v] = wfd[v] /\ wobj'[v] = wobj[v]
    BY <1>1 DEF IInv, TypeOK
  <2>2. wfd[v][1] = s => v \in Operating(s)'
    BY <1>4, <2>1 DEF Operating
  <2>3. wfd[v][1] = s => n # 1
    BY <1>6, <2>2
  <2> QED
    BY <1>1, <1>2, <1>3, <2>1, <2>3 DEF IInv, TypeOK, OpInv, Resolves
<1>9. CloseInv'
  BY <1>1, <1>2, <1>3 DEF IInv, TypeOK, CloseInv, Resolves
<1>10. IssuedInv' /\ HoldInv'
  BY <1>1 DEF IInv, TypeOK, IssuedInv, HoldInv, Holds
<1>11. BusyCountExact'
  <2>1. /\ ofBusy'[s] = Cardinality(Operating(s)')
        /\ ofState'[s] \in {"busy_file", "busy_dir"} <=> Operating(s)' # {}
    BY <1>1, <1>2, <1>3, <1>5, <1>6 DEF IInv, TypeOK
  <2>2. \A i \in Slots \ {s} : ofBusy'[i] = ofBusy[i] /\ ofState'[i] = ofState[i]
    BY <1>1, <1>2 DEF IInv, TypeOK
  <2> QED
    BY <1>4, <2>1, <2>2 DEF IInv, BusyCountExact
<1>12. OneOwner' /\ NoFileLost' /\ NoSlotLost'
  <2>1. \A i \in Slots : Installed(i)' <=> Installed(i)
    BY <1>1, <1>2, <1>3 DEF IInv, TypeOK, Installed
  <2>2. \A v \in Workers : /\ Holds(v)' <=> Holds(v)
                           /\ Holds(v) => wobj'[v] = wobj[v]
    BY <1>1 DEF IInv, TypeOK, Holds
  <2>3. OneOwner' /\ NoFileLost'
    BY <1>1, <2>1, <2>2 DEF IInv, OneOwner, NoFileLost
  <2>4. NoSlotLost'
    BY <1>1, <1>2, <1>3 DEF IInv, TypeOK, NoSlotLost
  <2> QED
    BY <2>3, <2>4
<1>13. HandleKind'
  BY <1>1, <1>2, <1>3 DEF IInv, TypeOK, HandleKind
<1> QED
  BY <1>7, <1>8, <1>9, <1>10, <1>11, <1>12, <1>13 DEF IInv

-----------------------------------------------------------------------------
(* Closing: an object moves from its slot to the closing handler, and from *)
(* there to the pool or back to the slot.                                  *)

LEMMA FileCloseIInv ==
  ASSUME IInv, NEW w \in Workers, FileClose(w)
  PROVE  IInv'
<1>1. PICK fd \in Fds :
        /\ Accepts(fd, "file") /\ ofState[fd[1]] = "open_file"
        /\ ofGen[fd[1]] < MaxGen
        /\ pc[w] = "idle"
        /\ pc' = [pc EXCEPT ![w] = "close"]
        /\ wfd' = [wfd EXCEPT ![w] = fd]
        /\ wobj' = [wobj EXCEPT ![w] = ofHandle[fd[1]]]
        /\ ofState' = [ofState EXCEPT ![fd[1]] = "allocated"]
        /\ ofHandle' = [ofHandle EXCEPT ![fd[1]] = NoObj]
        /\ ofBusy' = [ofBusy EXCEPT ![fd[1]] = 0]
        /\ UNCHANGED <<fsInitialised, registered, typed, fsid, used, objId,
                       ofGen, issued, lost>>
  BY DEF FileClose, Suspend, InputFds, mountVars, objVars, IInv, TypeOK
<1> DEFINE s == fd[1]
           o == ofHandle[s]
<1>2. s \in Slots /\ Resolves(fd) /\ o \in Files
  BY <1>1 DEF Fds, Accepts, IInv, HandleKind
<1>3. ofBusy[s] = 0 /\ \A v \in Workers : pc[v] = "op" => wfd[v][1] # s
  <2>1. Operating(s) = {}
    BY <1>1, <1>2 DEF IInv, BusyCountExact
  <2> QED
    BY <1>2, <2>1, FS_EmptySet DEF IInv, BusyCountExact, Operating
<1>4. TypeOK'
  <2>1. /\ ofState' \in [Slots -> States]
        /\ ofHandle' \in [Slots -> Objs \cup {NoObj}]
        /\ ofBusy' \in [Slots -> Nat]
    BY <1>1, <1>2 DEF IInv, TypeOK, States
  <2>2. wfd' \in [Workers -> Fds \cup {NoFd}] /\ wobj' \in [Workers -> Objs \cup {NoObj}]
    BY <1>1, <1>2 DEF IInv, TypeOK
  <2> QED
    BY <1>1, <2>1, <2>2 DEF IInv, TypeOK
<1>5. OpInv'
  BY <1>1, <1>2, <1>3 DEF IInv, TypeOK, OpInv, Resolves
<1>6. CloseInv'
  BY <1>1, <1>2 DEF IInv, TypeOK, CloseInv, Resolves
<1>7. IssuedInv' /\ HoldInv'
  BY <1>1, <1>2 DEF IInv, TypeOK, IssuedInv, HoldInv, Holds, Objs
<1>8. BusyCountExact'
  BY <1>1, <1>2, <1>3, BusyCountKept DEF IInv, TypeOK
<1>9. OneOwner'
  BY <1>1, <1>2 DEF IInv, TypeOK, OneOwner, Installed, Holds
<1>10. NoFileLost' /\ NoSlotLost'
  BY <1>1, <1>2 DEF IInv, TypeOK, NoFileLost, NoSlotLost, Installed, Holds
<1>11. HandleKind'
  BY <1>1, <1>2 DEF IInv, TypeOK, HandleKind
<1> QED
  BY <1>4, <1>5, <1>6, <1>7, <1>8, <1>9, <1>10, <1>11 DEF IInv

LEMMA FileCloseDoneIInv ==
  ASSUME IInv, NEW w \in Workers, FileCloseDone(w)
  PROVE  IInv'
<1>0. PICK s, o : s = wfd[w][1] /\ o = wobj[w]
  OBVIOUS
<1>1. /\ pc[w] = "close"
      /\ s \in Slots /\ ofState[s] = "allocated" /\ ofGen[s] < MaxGen
      /\ o \in Files
  BY <1>0 DEF FileCloseDone, IInv, CloseInv, Fds
<1>2. /\ used' = [used EXCEPT ![o] = FALSE]
      /\ objId' = [objId EXCEPT ![o] = 0]
      /\ ofState' = [ofState EXCEPT ![s] = "free"]
      /\ ofGen' = [ofGen EXCEPT ![s] = ofGen[s] + 1]
      /\ pc' = [pc EXCEPT ![w] = "idle"]
      /\ wfd' = [wfd EXCEPT ![w] = NoFd]
      /\ wobj' = [wobj EXCEPT ![w] = NoObj]
      /\ UNCHANGED <<fsInitialised, registered, typed, fsid, ofHandle, ofBusy, issued, lost>>
  BY <1>0, <1>1 DEF FileCloseDone, Return, mountVars, IInv, CloseInv
<1>3. \A v \in Workers : pc[v] = "op" => wfd[v][1] # s
  BY <1>1 DEF IInv, OpInv
<1>4. TypeOK'
  <2>1. ofState' \in [Slots -> States] /\ ofGen' \in [Slots -> 0 .. MaxGen]
    BY <1>1, <1>2 DEF IInv, TypeOK, States
  <2> QED
    BY <1>2, <2>1 DEF IInv, TypeOK
<1>5. OpInv'
  BY <1>2, <1>3 DEF IInv, TypeOK, OpInv, Resolves
<1>6. CloseInv'
  <2>1. \A v \in Workers : v # w /\ pc[v] = "close" => wfd[v][1] # s
    BY <1>0, <1>1 DEF IInv, CloseInv
  <2> QED
    BY <1>2, <2>1 DEF IInv, TypeOK, CloseInv, Resolves
<1>7. IssuedInv' /\ HoldInv'
  BY <1>1, <1>2 DEF IInv, TypeOK, IssuedInv, HoldInv, Holds, Fds
<1>8. BusyCountExact'
  BY <1>1, <1>2, BusyCountKept DEF IInv, TypeOK
<1>9. OneOwner'
  BY <1>0, <1>1, <1>2 DEF IInv, TypeOK, OneOwner, HoldInv, Installed, Holds
<1>10. NoFileLost' /\ NoSlotLost'
  BY <1>0, <1>1, <1>2 DEF IInv, TypeOK, NoFileLost, NoSlotLost, Installed, Holds, Objs
<1>11. HandleKind'
  BY <1>1, <1>2 DEF IInv, TypeOK, HandleKind
<1> QED
  BY <1>4, <1>5, <1>6, <1>7, <1>8, <1>9, <1>10, <1>11 DEF IInv

LEMMA FileCloseFailIInv ==
  ASSUME IInv, NEW w \in Workers, FileCloseFail(w)
  PROVE  IInv'
<1>0. PICK s, o : s = wfd[w][1] /\ o = wobj[w]
  OBVIOUS
<1>1. /\ pc[w] = "close"
      /\ s \in Slots /\ ofState[s] = "allocated"
      /\ o \in Files
  BY <1>0 DEF FileCloseFail, IInv, CloseInv, Fds
<1>2. /\ ofState' = [ofState EXCEPT ![s] = "open_file"]
      /\ ofHandle' = [ofHandle EXCEPT ![s] = o]
      /\ pc' = [pc EXCEPT ![w] = "idle"]
      /\ wfd' = [wfd EXCEPT ![w] = NoFd]
      /\ wobj' = [wobj EXCEPT ![w] = NoObj]
      /\ UNCHANGED <<fsInitialised, registered, typed, fsid, used, objId,
                     ofBusy, ofGen, issued, lost>>
  BY <1>0, <1>1 DEF FileCloseFail, Return, mountVars, objVars, IInv, CloseInv
<1>3. \A v \in Workers : pc[v] = "op" => wfd[v][1] # s
  BY <1>1 DEF IInv, OpInv
<1>4. TypeOK'
  <2>1. ofState' \in [Slots -> States] /\ ofHandle' \in [Slots -> Objs \cup {NoObj}]
    BY <1>1, <1>2 DEF IInv, TypeOK, States, Objs
  <2> QED
    BY <1>2, <2>1 DEF IInv, TypeOK
<1>5. OpInv'
  BY <1>2, <1>3 DEF IInv, TypeOK, OpInv, Resolves
<1>6. CloseInv'
  <2>1. \A v \in Workers : v # w /\ pc[v] = "close" => wfd[v][1] # s
    BY <1>0, <1>1 DEF IInv, CloseInv
  <2> QED
    BY <1>2, <2>1 DEF IInv, TypeOK, CloseInv, Resolves
<1>7. IssuedInv' /\ HoldInv'
  BY <1>2 DEF IInv, TypeOK, IssuedInv, HoldInv, Holds
<1>8. BusyCountExact'
  BY <1>1, <1>2, BusyCountKept DEF IInv, TypeOK
<1>9. OneOwner'
  BY <1>0, <1>1, <1>2 DEF IInv, TypeOK, OneOwner, Installed, Holds
<1>10. NoFileLost' /\ NoSlotLost'
  BY <1>0, <1>1, <1>2 DEF IInv, TypeOK, NoFileLost, NoSlotLost, Installed, Holds
<1>11. HandleKind'
  BY <1>1, <1>2 DEF IInv, TypeOK, HandleKind
<1> QED
  BY <1>4, <1>5, <1>6, <1>7, <1>8, <1>9, <1>10, <1>11 DEF IInv

LEMMA DirCloseIInv ==
  ASSUME IInv, NEW w \in Workers, DirClose(w)
  PROVE  IInv'
<1>1. PICK s \in Slots, o \in Dirs :
        /\ ofState[s] = "open_dir" /\ ofGen[s] < MaxGen /\ o = ofHandle[s]
        /\ ofHandle' = [ofHandle EXCEPT ![s] = NoObj]
        /\ ofBusy' = [ofBusy EXCEPT ![s] = 0]
        /\ \/ /\ ofState' = [ofState EXCEPT ![s] = "free"]
              /\ ofGen' = [ofGen EXCEPT ![s] = ofGen[s] + 1]
              /\ used' = [used EXCEPT ![o] = FALSE]
              /\ objId' = [objId EXCEPT ![o] = 0]
              /\ UNCHANGED lost
           \/ /\ ofState' = [ofState EXCEPT ![s] = "allocated"]
              /\ lost' = lost \cup {s}
              /\ UNCHANGED <<ofGen, used, objId>>
  BY ZenonT(60) DEF DirClose, InputFds, IInv, TypeOK, Fds, HandleKind
<1>2. /\ pc[w] = "idle"
      /\ UNCHANGED <<fsInitialised, registered, typed, fsid, pc, wfd, wobj, issued>>
  BY DEF DirClose, mountVars, workerVars
\* What both outcomes share: the slot is neither open nor busy afterwards.
<1>3. PICK st \in {"free", "allocated"}, g \in {ofGen[s], ofGen[s] + 1} :
        /\ ofState' = [ofState EXCEPT ![s] = st]
        /\ ofGen' = [ofGen EXCEPT ![s] = g]
  BY <1>1 DEF IInv, TypeOK
<1>4. /\ used' \in [Objs -> BOOLEAN] /\ objId' \in [Objs -> Nat]
      /\ \A p \in Objs \ {o} : used'[p] = used[p]
  <2>1. o \in Objs
    BY DEF Objs
  <2>2. CASE used' = [used EXCEPT ![o] = FALSE] /\ objId' = [objId EXCEPT ![o] = 0]
    BY <2>1, <2>2 DEF IInv, TypeOK
  <2>3. CASE UNCHANGED <<used, objId>>
    BY <2>3 DEF IInv, TypeOK
  <2> QED
    BY <1>1, <2>2, <2>3
<1>5. ofBusy[s] = 0 /\ \A v \in Workers : pc[v] = "op" => wfd[v][1] # s
  <2>1. Operating(s) = {}
    BY <1>1 DEF IInv, BusyCountExact
  <2> QED
    BY <2>1, FS_EmptySet DEF IInv, BusyCountExact, Operating
<1>6. \A v \in Workers : pc[v] = "close" => wfd[v][1] # s
  BY <1>1 DEF IInv, CloseInv
<1>7. TypeOK'
  <2>1. /\ ofState' \in [Slots -> States]
        /\ ofHandle' \in [Slots -> Objs \cup {NoObj}]
        /\ ofBusy' \in [Slots -> Nat]
    BY <1>1, <1>3 DEF IInv, TypeOK, States
  <2>2. ofGen' \in [Slots -> 0 .. MaxGen] /\ lost' \subseteq Slots
    BY <1>1, <1>3 DEF IInv, TypeOK
  <2> QED
    BY <1>2, <1>4, <2>1, <2>2 DEF IInv, TypeOK
<1>8. OpInv'
  BY <1>1, <1>2, <1>3, <1>5 DEF IInv, TypeOK, OpInv, Resolves
<1>9. CloseInv'
  BY <1>2, <1>3, <1>6 DEF IInv, TypeOK, CloseInv, Resolves
<1>10. IssuedInv' /\ HoldInv'
  <2>1. \A i \in Slots : ofGen'[i] \in Nat /\ ofGen[i] \in Nat /\ ofGen'[i] >= ofGen[i]
    BY <1>1, <1>3 DEF IInv, TypeOK
  <2>2. \A fd \in issued : fd[1] \in Slots /\ fd[2] \in Nat
    BY DEF IInv, TypeOK, Fds
  <2>3. IssuedInv'
    BY <1>2, <2>1, <2>2 DEF IInv, IssuedInv
  <2>4. HoldInv'
    BY <1>2 DEF IInv, HoldInv, Holds
  <2> QED
    BY <2>3, <2>4
<1>11. BusyCountExact'
  <2>1. \A i \in Slots : Operating(i)' = Operating(i)
    BY <1>2 DEF Operating
  <2>2. \A i \in Slots : /\ ofBusy'[i] = ofBusy[i]
                         /\ ofState'[i] \in {"busy_file", "busy_dir"}
                              <=> ofState[i] \in {"busy_file", "busy_dir"}
    BY <1>1, <1>3, <1>5 DEF IInv, TypeOK
  <2> QED
    BY <2>1, <2>2 DEF IInv, BusyCountExact
<1>12. OneOwner'
  <2>1. /\ ~Installed(s)'
        /\ \A i \in Slots \ {s} : /\ Installed(i)' <=> Installed(i)
                                  /\ ofHandle'[i] = ofHandle[i]
    BY <1>1, <1>3 DEF IInv, TypeOK, Installed
  <2>2. \A v \in Workers : (Holds(v)' <=> Holds(v)) /\ wobj'[v] = wobj[v]
    BY <1>2 DEF Holds
  <2>3. Installed(s) /\ o = ofHandle[s]
    BY <1>1 DEF Installed
  <2>4. \A i \in Slots \ {s} : Installed(i) => ofHandle[i] # o /\ ofHandle[i] \in Objs
    BY <1>1, <2>3 DEF IInv, OneOwner, HandleKind, Installed, Objs
  <2>5. \A v \in Workers : Holds(v) => wobj[v] # o /\ wobj[v] \in Objs
    BY <1>1, <2>3 DEF IInv, OneOwner, HoldInv
  <2> QED
    BY <1>4, <2>1, <2>2, <2>4, <2>5 DEF IInv, OneOwner
<1>13. NoFileLost' /\ NoSlotLost'
  <2>1. \A p \in Files : p \in Objs \ {o}
    BY DEF Objs
  <2>2. \A i \in Slots : /\ Installed(i) /\ ofHandle[i] \in Files => i # s
                         /\ i # s => /\ Installed(i)' <=> Installed(i)
                                     /\ ofHandle'[i] = ofHandle[i]
    BY <1>1, <1>3 DEF IInv, TypeOK, Installed
  <2>3. \A v \in Workers : (Holds(v)' <=> Holds(v)) /\ wobj'[v] = wobj[v]
    BY <1>2 DEF Holds
  <2>4. NoFileLost'
    BY <1>4, <2>1, <2>2, <2>3 DEF IInv, NoFileLost
  <2>5. NoSlotLost'
    BY <1>1, <1>2, <1>6 DEF IInv, TypeOK, NoSlotLost
  <2> QED
    BY <2>4, <2>5
<1>14. HandleKind'
  BY <1>1, <1>3 DEF IInv, TypeOK, HandleKind
<1> QED
  BY <1>7, <1>8, <1>9, <1>10, <1>11, <1>12, <1>13, <1>14 DEF IInv

-----------------------------------------------------------------------------
(* The theorems.                                                           *)

LEMMA NextIInv == IInv /\ [Next]_vars => IInv'
<1> SUFFICES ASSUME IInv, [Next]_vars PROVE IInv'
  OBVIOUS
<1>1. ASSUME NEW w \in Workers, WorkerNext(w) PROVE IInv'
  <2>1. CASE \/ Initialise(w) \/ InitialiseDone(w) \/ InitialiseFail(w) \/ Deinitialise(w)
             \/ PathOp(w) \/ PathOpDone(w) \/ PathOpFail(w)
    BY <2>1, MountActions
  <2>2. ASSUME NEW k \in Kinds, OpenStart(w, k) PROVE IInv'
    BY <2>2, OpenStartIInv
  <2>3. ASSUME NEW k \in Kinds, OpenDone(w, k) PROVE IInv'
    BY <2>3, OpenDoneIInv
  <2>4. CASE OpenMounted(w)
    BY <2>4, OpenMountedIInv
  <2>5. CASE OpenFail(w)
    BY <2>5, OpenFailIInv
  <2>6. ASSUME NEW k \in Kinds, OpStart(w, k) PROVE IInv'
    BY <2>6, OpStartIInv
  <2>7. ASSUME NEW k \in Kinds, OpEnd(w, k) PROVE IInv'
    BY <2>7, OpEndIInv
  <2>8. CASE FileClose(w)
    BY <2>8, FileCloseIInv
  <2>9. CASE FileCloseDone(w)
    BY <2>9, FileCloseDoneIInv
  <2>10. CASE FileCloseFail(w)
    BY <2>10, FileCloseFailIInv
  <2>11. CASE DirClose(w)
    BY <2>11, DirCloseIInv
  <2> QED
    BY <1>1, <2>1, <2>2, <2>3, <2>4, <2>5, <2>6, <2>7, <2>8, <2>9, <2>10, <2>11 DEF WorkerNext
<1>2. CASE UNCHANGED vars
  <2>1. UNCHANGED <<fsInitialised, registered, typed, fsid, used, objId, ofState,
                    ofHandle, ofBusy, ofGen, pc, wfd, wobj, issued, lost>>
    BY <1>2 DEF vars, mountVars, objVars, ofVars, workerVars
  <2>2. TypeOK' /\ OpInv' /\ CloseInv' /\ IssuedInv' /\ HoldInv'
    BY <2>1 DEF IInv, TypeOK, OpInv, CloseInv, IssuedInv, HoldInv, Holds, Resolves
  <2>3. BusyCountExact'
    <3>1. \A i \in Slots : Operating(i)' = Operating(i)
      BY <2>1 DEF Operating
    <3> QED
      BY <2>1, <3>1 DEF IInv, BusyCountExact
  <2>4. OneOwner' /\ NoFileLost' /\ NoSlotLost' /\ HandleKind'
    BY <2>1 DEF IInv, OneOwner, NoFileLost, NoSlotLost, HandleKind, Installed, Holds
  <2> QED
    BY <2>2, <2>3, <2>4 DEF IInv
<1> QED
  BY <1>1, <1>2 DEF Next

\* Every reachable state satisfies the inductive invariant.
THEOREM Invariance == Spec => []IInv
BY InitIInv, NextIInv, PTL DEF Spec

\* The variables of fd.c and op.c keep their ranges; in particular busy_count,
\* unsigned in the code, never runs below zero.
THEOREM TypeCorrect == Spec => []TypeOK
<1>1. IInv => TypeOK
  BY DEF IInv
<1> QED
  BY <1>1, Invariance, PTL

\* busy_count is the number of handlers operating on the slot, so fd_unset sees
\* every outstanding operation, for any number of workers.
THEOREM BusyCountCorrect == Spec => []BusyCountExact
<1>1. IInv => BusyCountExact
  BY DEF IInv
<1> QED
  BY <1>1, Invariance, PTL

\* A handler that waits for the disk keeps its descriptor and its FIL or DIR,
\* and the asserts of fd_end_op hold when it resumes.
THEOREM UseAfterClose == Spec => []NoUseAfterClose
<1>1. ASSUME IInv PROVE NoUseAfterClose
  <2> SUFFICES ASSUME NEW w \in Workers, pc[w] = "op"
               PROVE  /\ Resolves(wfd[w])
                      /\ ofState[wfd[w][1]] \in {"busy_file", "busy_dir"}
                      /\ ofHandle[wfd[w][1]] = wobj[w]
                      /\ wobj[w] \in Objs /\ used[wobj[w]]
    BY DEF NoUseAfterClose
  <2>1. PICK s \in Slots : s = wfd[w][1]
    BY <1>1 DEF IInv, OpInv, Fds
  <2>2. ofState[s] \in {"busy_file", "busy_dir"} /\ ofHandle[s] = wobj[w]
    BY <1>1, <2>1 DEF IInv, OpInv
  <2>3. wobj[w] \in Objs
    BY <1>1, <2>2 DEF IInv, HandleKind, Objs
  <2>4. used[wobj[w]]
    BY <1>1, <2>2 DEF IInv, OneOwner, Installed
  <2>5. Resolves(wfd[w])
    BY <1>1 DEF IInv, OpInv
  <2> QED
    BY <2>1, <2>2, <2>3, <2>4, <2>5
<1> QED
  BY <1>1, Invariance, PTL

\* No FIL or DIR is shared by two slots, two handlers, or a slot and a handler.
THEOREM Ownership == Spec => []OneOwner
<1>1. IInv => OneOwner
  BY DEF IInv
<1> QED
  BY <1>1, Invariance, PTL

\* No FIL and no slot of a file leaks, whatever f_open and f_close return.
THEOREM NoLeak == Spec => []FilesNotLeaked
<1>1. IInv => FilesNotLeaked
  BY DEF IInv, FilesNotLeaked
<1> QED
  BY <1>1, Invariance, PTL

\* File slots hold FIL objects and directory slots DIR objects.
THEOREM HandleKinds == Spec => []HandleKind
<1>1. IInv => HandleKind
  BY DEF IInv
<1> QED
  BY <1>1, Invariance, PTL

\* Of the descriptors ever returned a slot accepts that of its last open only.
THEOREM StaleFds == Spec => []StaleFdRefused
<1>1. ASSUME IInv PROVE StaleFdRefused
  <2> SUFFICES ASSUME NEW fd \in issued, Resolves(fd)
               PROVE  fd[2] = ofGen[fd[1]]
    BY DEF StaleFdRefused, Accepts
  <2>1. fd[2] \in Nat /\ ofGen[fd[1]] \in Nat
    BY <1>1 DEF IInv, TypeOK, Fds
  <2> QED
    BY <1>1, <2>1 DEF IInv, IssuedInv, Resolves
<1> QED
  BY <1>1, Invariance, PTL

-----------------------------------------------------------------------------
(* Fresh descriptors: a free slot has not issued its present generation.   *)

FreshInv == \A i \in Slots : ofState[i] = "free" => <<i, ofGen[i]>> \notin issued

\* Freeing a slot moves it past every generation it issued.
LEMMA FreshKept ==
  ASSUME IInv, FreshInv,
         \A i \in Slots : \/ ofState'[i] = ofState[i] /\ ofGen'[i] = ofGen[i]
                          \/ ofState'[i] # "free"
                          \/ ofGen'[i] = ofGen[i] + 1,
         UNCHANGED issued
  PROVE  FreshInv'
<1> SUFFICES ASSUME NEW i \in Slots, ofState'[i] = "free"
             PROVE  <<i, ofGen'[i]>> \notin issued
  BY DEF FreshInv
<1>1. CASE ofState'[i] = ofState[i] /\ ofGen'[i] = ofGen[i]
  BY <1>1 DEF FreshInv
<1>2. CASE ofGen'[i] = ofGen[i] + 1
  <2>1. ofGen[i] \in Nat
    BY DEF IInv, TypeOK
  <2>2. ~(ofGen[i] + 1 <= ofGen[i])
    BY <2>1
  <2> QED
    BY <1>2, <2>2 DEF IInv, IssuedInv
<1> QED
  BY <1>1, <1>2

LEMMA OpenDoneFresh ==
  ASSUME IInv, FreshInv, NEW w \in Workers, NEW k \in Kinds, OpenDone(w, k)
  PROVE  FreshInv' /\ issued' # issued
<1>1. PICK s \in Slots :
        /\ ofState[s] = "free"
        /\ ofState' = [ofState EXCEPT ![s] = Open(k)]
        /\ issued' = issued \cup {<<s, ofGen[s]>>}
  BY DEF OpenDone
<1>2. UNCHANGED ofGen /\ Open(k) # "free"
  BY DEF OpenDone, Open, Kinds
<1>3. <<s, ofGen[s]>> \notin issued
  BY <1>1 DEF FreshInv
<1>4. ofState'[s] # "free" /\ \A i \in Slots \ {s} : ofState'[i] = ofState[i]
  BY <1>1, <1>2 DEF IInv, TypeOK
<1>5. FreshInv'
  BY <1>1, <1>2, <1>4 DEF FreshInv
<1> QED
  BY <1>1, <1>3, <1>5

\* Every other step leaves the issued descriptors alone, and frees a slot only
\* under its next generation.
LEMMA OtherFresh ==
  ASSUME IInv, FreshInv, NEW w \in Workers, WorkerNext(w),
         ~ \E k \in Kinds : OpenDone(w, k)
  PROVE  FreshInv'
<1> DEFINE Kept(i) == \/ ofState'[i] = ofState[i] /\ ofGen'[i] = ofGen[i]
                      \/ ofState'[i] # "free"
                      \/ ofGen'[i] = ofGen[i] + 1
<1> SUFFICES UNCHANGED issued /\ \A i \in Slots : Kept(i)
  BY FreshKept
<1>1. CASE \/ Initialise(w) \/ InitialiseDone(w) \/ InitialiseFail(w) \/ Deinitialise(w)
           \/ PathOp(w) \/ PathOpDone(w) \/ PathOpFail(w)
           \/ \E k \in Kinds : OpenStart(w, k)
           \/ OpenMounted(w) \/ OpenFail(w)
  <2>1. UNCHANGED <<ofVars, issued, lost>>
    BY <1>1 DEF Initialise, InitialiseDone, InitialiseFail, Deinitialise, PathOp,
                PathOpDone, PathOpFail, OpenStart, OpenMounted, OpenFail
  <2> QED
    BY <2>1 DEF ofVars
<1>2. ASSUME NEW k \in Kinds, OpStart(w, k) PROVE UNCHANGED issued /\ \A i \in Slots : Kept(i)
  <2>1. PICK s : ofState' = [ofState EXCEPT ![s] = Busy(k)] /\ UNCHANGED <<ofGen, issued, lost>>
    BY <1>2 DEF OpStart
  <2> QED
    BY <2>1 DEF Busy, IInv, TypeOK
<1>3. ASSUME NEW k \in Kinds, OpEnd(w, k) PROVE UNCHANGED issued /\ \A i \in Slots : Kept(i)
  <2>1. PICK s, st : /\ ofState' = [ofState EXCEPT ![s] = st]
                     /\ st # "free"
                     /\ UNCHANGED <<ofGen, issued, lost>>
    BY <1>3 DEF OpEnd, EndWith, Busy, Open
  <2> QED
    BY <2>1 DEF IInv, TypeOK
<1>4. CASE FileClose(w)
  <2>1. PICK s : ofState' = [ofState EXCEPT ![s] = "allocated"] /\ UNCHANGED <<ofGen, issued, lost>>
    BY <1>4 DEF FileClose
  <2> QED
    BY <2>1 DEF IInv, TypeOK
<1>5. CASE FileCloseDone(w)
  <2>1. UNCHANGED issued
    BY <1>5 DEF FileCloseDone
  <2>2. CASE UNCHANGED <<ofState, ofGen>>
    BY <2>1, <2>2
  <2>3. CASE ~ UNCHANGED <<ofState, ofGen>>
    <3>1. PICK s : /\ ofState' = [ofState EXCEPT ![s] = "free"]
                   /\ ofGen' = [ofGen EXCEPT ![s] = ofGen[s] + 1]
      BY <1>5, <2>3 DEF FileCloseDone
    <3> QED
      BY <2>1, <3>1 DEF IInv, TypeOK
  <2> QED
    BY <2>2, <2>3
<1>6. CASE FileCloseFail(w)
  <2>1. UNCHANGED <<ofGen, issued, lost>>
    BY <1>6 DEF FileCloseFail
  <2>2. CASE UNCHANGED ofState
    BY <2>1, <2>2
  <2>3. CASE ~ UNCHANGED ofState
    <3>1. PICK s : ofState' = [ofState EXCEPT ![s] = "open_file"]
      BY <1>6, <2>3 DEF FileCloseFail
    <3> QED
      BY <2>1, <3>1 DEF IInv, TypeOK
  <2> QED
    BY <2>2, <2>3
<1>7. CASE DirClose(w)
  <2>1. UNCHANGED issued
    BY <1>7 DEF DirClose
  <2>2. PICK s : \/ /\ ofState' = [ofState EXCEPT ![s] = "free"]
                    /\ ofGen' = [ofGen EXCEPT ![s] = ofGen[s] + 1]
                 \/ /\ ofState' = [ofState EXCEPT ![s] = "allocated"]
                    /\ UNCHANGED ofGen
    BY <1>7 DEF DirClose
  <2> QED
    BY <2>1, <2>2 DEF IInv, TypeOK
<1> QED
  BY <1>1, <1>2, <1>3, <1>4, <1>5, <1>6, <1>7 DEF WorkerNext

\* A worker leaves an open with its object still used only through OpenDone.
LEMMA OpenReturns ==
  ASSUME IInv, Next, NEW w \in Workers,
         pc[w] = "open", pc'[w] = "idle", used'[wobj[w]],
         ~ \E k \in Kinds : OpenDone(w, k)
  PROVE  FALSE
<1>1. PICK v \in Workers : WorkerNext(v)
  BY DEF Next
<1>2. CASE v # w
  <2>1. \/ UNCHANGED pc
        \/ \E p : pc' = [pc EXCEPT ![v] = p]
    BY <1>1 DEF WorkerNext, Initialise, InitialiseDone, InitialiseFail, Deinitialise,
                PathOp, PathOpDone, PathOpFail, OpenStart, OpenDone, OpenMounted, OpenFail,
                OpStart, OpEnd, EndWith, FileClose, FileCloseDone, FileCloseFail, DirClose,
                Suspend, Return, workerVars
  <2> QED
    BY <1>2, <2>1 DEF IInv, TypeOK
<1>3. CASE v = w
  <2>1. OpenMounted(w) \/ OpenFail(w)
    BY <1>1, <1>3 DEF WorkerNext, Initialise, InitialiseDone, InitialiseFail, Deinitialise,
                PathOp, PathOpDone, PathOpFail, OpenStart, OpStart, OpEnd, EndWith,
                FileClose, FileCloseDone, FileCloseFail, DirClose, Suspend
  <2>2. wobj[w] \in Objs
    BY DEF IInv, HoldInv, Holds
  <2>3. CASE OpenMounted(w)
    BY <2>3 DEF OpenMounted, IInv, TypeOK
  <2>4. CASE OpenFail(w)
    BY <2>2, <2>4 DEF OpenFail, IInv, TypeOK
  <2> QED
    BY <2>1, <2>3, <2>4
<1> QED
  BY <1>2, <1>3

LEMMA NextFresh == IInv /\ FreshInv /\ [Next]_vars => FreshInv'
<1> SUFFICES ASSUME IInv, FreshInv, [Next]_vars PROVE FreshInv'
  OBVIOUS
<1>1. CASE UNCHANGED vars
  BY <1>1 DEF FreshInv, vars, ofVars
<1>2. ASSUME NEW w \in Workers, NEW k \in Kinds, OpenDone(w, k) PROVE FreshInv'
  BY <1>2, OpenDoneFresh
<1>3. ASSUME NEW w \in Workers, WorkerNext(w), ~ \E k \in Kinds : OpenDone(w, k)
      PROVE  FreshInv'
  BY <1>3, OtherFresh
<1> QED
  BY <1>1, <1>2, <1>3 DEF Next

\* A descriptor that an open returns was never returned before, so a client that
\* kept a closed one cannot reach another client's file through it.
THEOREM FreshFds == Spec => OpenReturnsFreshFd
<1> DEFINE A == \A w \in Workers :
                  pc[w] = "open" /\ pc'[w] = "idle" /\ used'[wobj[w]] => issued' # issued
<1>1. Init => FreshInv
  BY DEF Init, FreshInv
<1>2. ASSUME IInv, FreshInv, Next PROVE A
  <2> SUFFICES ASSUME NEW w \in Workers,
                      pc[w] = "open", pc'[w] = "idle", used'[wobj[w]]
               PROVE  issued' # issued
    OBVIOUS
  <2>1. PICK k \in Kinds : OpenDone(w, k)
    BY <1>2, OpenReturns
  <2> QED
    BY <1>2, <2>1, OpenDoneFresh
<1>3. IInv /\ FreshInv /\ [Next]_vars => [A]_vars
  BY <1>2
<1>4. Spec => []FreshInv
  BY <1>1, NextFresh, Invariance, PTL DEF Spec
<1> HIDE DEF A
<1>5. Spec => [][A]_vars
  BY <1>3, <1>4, Invariance, PTL DEF Spec
<1> QED
  BY <1>5, PTL DEF OpenReturnsFreshFd, A

\* FatFiles is one of the two parts of MCFatFiles, so all of this holds there.
THEOREM FilesPart == SpecAll => Spec
<1>1. InitAll => Init
  BY DEF InitAll
<1>2. [NextAll]_<<part, vars, diskVars>> => [Next]_vars
  BY DEF NextAll
<1> QED
  BY <1>1, <1>2, PTL DEF SpecAll, Spec

-----------------------------------------------------------------------------
(* The disk: the inductive invariant.                                      *)

HIDE FatFilesAssumption DEF FatFilesAssumption

Phases == {"idle", "flush", "mirror", "clear", "clearMirror", "fill", "info", "wipe", "data"}
Flushing == {"flush", "clear"}
Mirroring == {"mirror", "clearMirror"}
Windowed == Disk!Meta \cup {FsInfo}

Requests == [kind : {"none", "read", "fetch", "write"}, sect : Disk!Sectors \cup {Disk!NoSect},
             region : UNION {[D -> {0, 1}] : D \in SUBSET Disk!Sectors},
             state : {"none", "queued", "ok", "error"}]

DiskTypeOK ==
  /\ disk \in [Disk!Sectors -> {0, 1}] /\ truth \in [Disk!Sectors -> {0, 1}]
  /\ win \in {0, 1} /\ wflag \in BOOLEAN
  /\ winsect \in Windowed \cup {Disk!NoSect} /\ (wflag => winsect \in Disk!Meta)
  /\ access \in [Threads -> Phases]
  /\ target \in [Threads -> Disk!Sectors \cup {Disk!NoSect}]
  /\ req \in [Threads -> Requests]

\* Only this thread has an operation under way.
Alone(w) == \A v \in Threads \ {w} : access[v] = "idle" /\ req[v] = Disk!NoRequest

\* The request of an operation is about the sector its phase is about.
PhaseExact(w) ==
  /\ IF access[w] = "idle" THEN req[w] = Disk!NoRequest ELSE req[w].state \in {"queued", "ok", "error"}
  /\ IF access[w] = "fill" THEN req[w].kind = "read"
     ELSE access[w] # "idle" => req[w].kind \in {"fetch", "write"}
  /\ access[w] \in Flushing => req[w].sect = winsect /\ wflag
  /\ access[w] \in Mirroring =>
       req[w].sect = winsect + FatSize /\ winsect \in Fat /\ ~wflag /\ disk[winsect] = win
  /\ access[w] \in {"flush", "mirror"} => target[w] \in Windowed
  /\ access[w] \in {"clear", "clearMirror"} => target[w] \in Tables
  /\ access[w] = "fill" => req[w].sect = target[w] /\ target[w] \in Disk!Meta /\ ~wflag
  /\ access[w] \in {"info", "wipe"} =>
       req[w].sect = winsect /\ winsect = target[w] /\ ~wflag /\ win = truth[winsect]
  /\ access[w] = "info" => target[w] = FsInfo
  /\ access[w] = "wipe" => target[w] \in Tables
  /\ access[w] = "data" => req[w].sect = target[w] /\ target[w] \in FileData

\* A block that was read is what the disk holds; one that is written differs from
\* that in its own sector only.
RegionExact(w) ==
  LET r == req[w] IN
  /\ r.kind \in {"read", "fetch"} /\ r.state \in {"ok", "error"} =>
       r.region = [t \in Disk!Block(r.sect) |-> disk[t]]
  /\ r.kind = "write" =>
       r.region = [t \in Disk!Block(r.sect) |-> IF t = r.sect THEN Disk!Buffer(w) ELSE disk[t]]
  /\ r.kind = "write" /\ r.state = "ok" => disk[r.sect] = Disk!Buffer(w)

Written(w) == req[w].kind = "write" /\ req[w].state = "ok"

SeenExact == \A s \in Windowed : s \in forgotten \/ Disk!Seen(s) = truth[s]
DataExact(w) == \A s \in FileData :
  \/ s \in forgotten
  \/ disk[s] = IF access[w] = "data" /\ req[w].sect = s /\ Written(w)
               THEN Disk!Stamped(truth[s]) ELSE truth[s]

\* A clean window is on the disk, the one of FSInfo included.
CleanExact(w) ==
  ~wflag /\ access[w] \notin {"info", "wipe"} /\ winsect \in Windowed \ forgotten => disk[winsect] = win

\* Between the two writes of a sector of the FAT its copy is behind.
CopiesExact(w) == \A s \in Fat :
  \/ s = winsect /\ ((access[w] \in Flushing /\ Written(w)) \/ access[w] \in Mirroring)
  \/ s + FatSize \in forgotten
  \/ disk[s + FatSize] = disk[s]

DiskHolds(w) ==
  /\ Alone(w) /\ PhaseExact(w) /\ RegionExact(w)
  /\ SeenExact /\ DataExact(w) /\ CleanExact(w) /\ CopiesExact(w)

DiskIInv == DiskTypeOK /\ \E w \in Threads : DiskHolds(w)

-----------------------------------------------------------------------------
(* The disk: sectors, blocks and requests.                                 *)

LEMMA SectorFacts ==
  /\ Windowed \subseteq Disk!Sectors /\ FileData \subseteq Disk!Sectors
  /\ Disk!Meta \subseteq Windowed /\ FsInfo \in Windowed /\ FsInfo \notin Disk!Meta
  /\ Tables \subseteq Disk!Meta /\ Fat \subseteq Disk!Meta /\ Tables \cap Fat = {} /\ FsInfo \notin Tables
  /\ Disk!NoSect \notin Disk!Sectors /\ Windowed \cap FileData = {}
  BY DiskAssumption DEF Disk!FatDiskAssumption, Windowed, Disk!Sectors, Disk!Meta, Disk!Copies, Disk!NoSect

LEMMA CopyFacts ==
  ASSUME NEW s \in Fat
  PROVE  /\ s + FatSize \in Disk!Sectors \ Windowed /\ s + FatSize \notin FileData
         /\ \A t \in Fat : t + FatSize = s + FatSize => t = s
  BY DiskAssumption DEF Disk!FatDiskAssumption, Windowed, Disk!Sectors, Disk!Meta, Disk!Copies

LEMMA BlockFacts == ASSUME NEW s \in Disk!Sectors
                    PROVE  s \in Disk!Block(s) /\ Disk!Block(s) \subseteq Disk!Sectors
  BY DEF Disk!Block

LEMMA RegionTyped ==
  ASSUME NEW D \in SUBSET Disk!Sectors, NEW f \in [D -> {0, 1}]
  PROVE  f \in UNION {[C -> {0, 1}] : C \in SUBSET Disk!Sectors}
  OBVIOUS

LEMMA EmptyRegion == <<>> \in UNION {[C -> {0, 1}] : C \in SUBSET Disk!Sectors}
<1>1. <<>> \in [{} -> {0, 1}]
  OBVIOUS
<1> QED
  BY <1>1

\* disk_write starts with the whole block or by reading it.
LEMMA WriteRequestFacts ==
  ASSUME NEW s \in Disk!Sectors, NEW v \in {0, 1}
  PROVE  LET r == Disk!WriteRequest(s, v) IN
         /\ r \in Requests /\ r.sect = s /\ r.state = "queued" /\ r.kind \in {"fetch", "write"}
         /\ r.kind = "write" => Disk!Block(s) = {s} /\ r.region = [t \in {s} |-> v]
<1> DEFINE r == Disk!WriteRequest(s, v)
<1>1. CASE Disk!Block(s) = {s}
  <2>1. r = [kind |-> "write", sect |-> s, region |-> [t \in {s} |-> v], state |-> "queued"]
    BY <1>1 DEF Disk!WriteRequest, Disk!Request
  <2>2. [t \in {s} |-> v] \in UNION {[C -> {0, 1}] : C \in SUBSET Disk!Sectors}
    <3>1. [t \in {s} |-> v] \in [{s} -> {0, 1}] /\ {s} \in SUBSET Disk!Sectors
      OBVIOUS
    <3> QED
      BY <3>1, RegionTyped
  <2> HIDE DEF r
  <2> QED
    BY <1>1, <2>1, <2>2 DEF Requests, r
<1>2. CASE Disk!Block(s) # {s}
  <2>1. r = [kind |-> "fetch", sect |-> s, region |-> <<>>, state |-> "queued"]
    BY <1>2 DEF Disk!WriteRequest, Disk!Request
  <2> HIDE DEF r
  <2> QED
    BY <2>1, EmptyRegion DEF Requests, r
<1> QED
  BY <1>1, <1>2

LEMMA ReadRequestFacts ==
  ASSUME NEW s \in Disk!Sectors
  PROVE  LET r == Disk!ReadRequest(s) IN
         r \in Requests /\ r.sect = s /\ r.state = "queued" /\ r.kind = "read"
<1> DEFINE r == Disk!ReadRequest(s)
<1>1. r = [kind |-> "read", sect |-> s, region |-> <<>>, state |-> "queued"]
  BY DEF Disk!ReadRequest, Disk!Request
<1> HIDE DEF r
<1> QED
  BY <1>1, EmptyRegion DEF Requests, r

LEMMA NoRequestFacts ==
  /\ Disk!NoRequest \in Requests /\ Disk!NoRequest.kind = "none" /\ Disk!NoRequest.state = "none"
<1>1. Disk!NoRequest = [kind |-> "none", sect |-> Disk!NoSect, region |-> <<>>, state |-> "none"]
  BY DEF Disk!NoRequest
<1> QED
  BY <1>1, EmptyRegion DEF Requests

LEMMA StampTyped == ASSUME NEW v \in {0, 1} PROVE Disk!Stamped(v) \in {0, 1} /\ Disk!Stamped(v) # v /\ Disk!Stamped(Disk!Stamped(v)) = v
  BY DEF Disk!Stamped

\* A thread that begins to wait.
LEMMA WaitFacts ==
  ASSUME DiskTypeOK, NEW w \in Threads, Alone(w),
         NEW p \in Phases, NEW s \in Disk!Sectors \cup {Disk!NoSect}, NEW r \in Requests,
         Disk!Wait(w, p, s, r)
  PROVE  /\ access' \in [Threads -> Phases] /\ req' \in [Threads -> Requests]
         /\ target' \in [Threads -> Disk!Sectors \cup {Disk!NoSect}]
         /\ access'[w] = p /\ target'[w] = s /\ req'[w] = r
         /\ Alone(w)'
  BY DEF Disk!Wait, DiskTypeOK, Alone

\* It waits for a write of its own buffer.
LEMMA WriteBegun ==
  ASSUME NEW w \in Threads, NEW s \in Disk!Sectors, NEW v \in {0, 1},
         req'[w] = Disk!WriteRequest(s, v), v = Disk!Buffer(w)'
  PROVE  RegionExact(w)'
<1> DEFINE r == Disk!WriteRequest(s, v)
<1>1. /\ r.sect = s /\ r.state = "queued" /\ r.kind \in {"fetch", "write"}
      /\ r.kind = "write" => Disk!Block(s) = {s} /\ r.region = [t \in {s} |-> v]
  BY WriteRequestFacts
<1> HIDE DEF r
<1>2. req'[w] = r
  BY DEF r
<1>3. r.kind = "write" =>
        r.region = [t \in Disk!Block(r.sect) |-> IF t = r.sect THEN Disk!Buffer(w)' ELSE disk'[t]]
  BY <1>1
<1> QED
  BY <1>1, <1>2, <1>3 DEF RegionExact

LEMMA ReadBegun ==
  ASSUME NEW w \in Threads, NEW s \in Disk!Sectors, req'[w] = Disk!ReadRequest(s)
  PROVE  RegionExact(w)'
  BY ReadRequestFacts DEF RegionExact

LEMMA NothingBegun == ASSUME NEW w \in Threads, req'[w] = Disk!NoRequest PROVE RegionExact(w)'
  BY NoRequestFacts DEF RegionExact

\* An operation's request is about a sector, its buffer holds a stamp.
LEMMA RequestSector ==
  ASSUME DiskTypeOK, NEW w \in Threads, PhaseExact(w), access[w] # "idle"
  PROVE  req[w].sect \in Disk!Sectors /\ Disk!Buffer(w) \in {0, 1}
<1>1. req[w].sect \in Disk!Sectors
  <2>1. access[w] \in Phases
    BY DEF DiskTypeOK
  <2>2. CASE access[w] \in Flushing
    BY <2>2, SectorFacts DEF PhaseExact, DiskTypeOK
  <2>3. CASE access[w] \in Mirroring
    BY <2>3, CopyFacts DEF PhaseExact
  <2>4. CASE access[w] \in {"fill", "info", "wipe", "data"}
    BY <2>4, SectorFacts DEF PhaseExact
  <2> QED
    BY <2>1, <2>2, <2>3, <2>4 DEF Phases, Flushing, Mirroring
<1>2. access[w] = "data" => target[w] \in Disk!Sectors
  BY SectorFacts DEF PhaseExact
<1>3. access[w] = "data" => Disk!Buffer(w) \in {0, 1}
  BY <1>2, StampTyped DEF Disk!Buffer, DiskTypeOK
<1>4. access[w] # "data" => Disk!Buffer(w) \in {0, 1}
  BY DEF Disk!Buffer, DiskTypeOK
<1> QED
  BY <1>1, <1>3, <1>4

-----------------------------------------------------------------------------
(* The disk: a lemma for each action.                                      *)

LEMMA ServeHolds ==
  ASSUME DiskTypeOK, NEW w \in Threads, DiskHolds(w), Disk!Serve(w)
  PROVE  DiskTypeOK' /\ DiskHolds(w)'
<1>1. PICK outcome \in Outcomes :
        /\ req' = [req EXCEPT ![w].state = outcome,
                              ![w].region = IF req[w].kind = "write" THEN @
                                            ELSE [t \in Disk!Block(req[w].sect) |-> disk[t]]]
        /\ disk' = IF outcome = "ok" /\ req[w].kind = "write"
                   THEN [t \in Disk!Sectors |-> IF t \in DOMAIN req[w].region THEN req[w].region[t] ELSE disk[t]]
                   ELSE disk
  BY DEF Disk!Serve
<1>2. /\ req[w].state = "queued"
      /\ UNCHANGED <<win, winsect, wflag, access, target, truth, forgotten>>
  BY DEF Disk!Serve, Disk!winVars, Disk!history
<1> DEFINE r == req[w]
           content == Disk!Buffer(w)
           filled == IF r.kind = "write" THEN r.region ELSE [t \in Disk!Block(r.sect) |-> disk[t]]
<1>3. access[w] # "idle" /\ outcome \in {"ok", "error"}
  BY <1>2, NoRequestFacts, DiskAssumption DEF DiskHolds, PhaseExact, Disk!FatDiskAssumption
<1>4. r.sect \in Disk!Sectors /\ content \in {0, 1} /\ r \in Requests /\ disk \in [Disk!Sectors -> {0, 1}]
  BY <1>3, RequestSector DEF DiskHolds, DiskTypeOK
<1>5. r.sect \in Disk!Block(r.sect) /\ Disk!Block(r.sect) \subseteq Disk!Sectors
  BY <1>4, BlockFacts
<1>6. r.kind = "write" => r.region = [t \in Disk!Block(r.sect) |-> IF t = r.sect THEN content ELSE disk[t]]
  BY DEF DiskHolds, RegionExact
<1>7. filled \in [Disk!Block(r.sect) -> {0, 1}]
  BY <1>4, <1>5, <1>6
<1>8. filled \in UNION {[C -> {0, 1}] : C \in SUBSET Disk!Sectors}
  BY <1>5, <1>7, RegionTyped
<1>9. disk' = IF outcome = "ok" /\ r.kind = "write" THEN [disk EXCEPT ![r.sect] = content] ELSE disk
  BY <1>1, <1>4, <1>5, <1>6
<1>10. /\ req'[w].kind = r.kind /\ req'[w].sect = r.sect /\ req'[w].state = outcome /\ req'[w].region = filled
       /\ \A v \in Threads \ {w} : req'[v] = req[v]
  BY <1>1 DEF DiskTypeOK, Requests
<1>11. req' \in [Threads -> Requests]
  <2>1. req'[w] = [r EXCEPT !.state = outcome, !.region = filled]
    BY <1>1 DEF DiskTypeOK
  <2>2. req'[w] \in Requests
    <3> HIDE DEF filled
    <3> QED
      BY <2>1, <1>3, <1>4, <1>8 DEF Requests
  <2> QED
    BY <1>1, <2>2, <1>10 DEF DiskTypeOK
<1>12. disk' \in [Disk!Sectors -> {0, 1}]
  BY <1>4, <1>9
<1>13. Disk!Buffer(w)' = content
  BY <1>2 DEF Disk!Buffer
<1> HIDE DEF r, content, filled
<1>14. DiskTypeOK'
  BY <1>2, <1>11, <1>12 DEF DiskTypeOK
<1>15. Alone(w)'
  BY <1>2, <1>10 DEF DiskHolds, Alone
<1>16. \A s \in Disk!Sectors \ {r.sect} : disk'[s] = disk[s]
  BY <1>4, <1>9
<1>17. r.kind = "write" /\ outcome = "ok" => disk'[r.sect] = content
  BY <1>4, <1>9
<1>18. ~(r.kind = "write" /\ outcome = "ok") => disk' = disk
  BY <1>9
<1>19. access[w] \in Mirroring => disk'[winsect] = disk[winsect]
  BY <1>16, CopyFacts, SectorFacts DEF DiskHolds, PhaseExact, r
<1>20. PhaseExact(w)'
  BY <1>2, <1>3, <1>10, <1>19 DEF DiskHolds, PhaseExact, r
<1>21. RegionExact(w)'
  <2>1. r.kind \in {"read", "fetch"} => filled = [t \in Disk!Block(r.sect) |-> disk'[t]]
    BY <1>18 DEF filled
  <2>2. r.kind = "write" =>
          filled = [t \in Disk!Block(r.sect) |-> IF t = r.sect THEN content ELSE disk'[t]]
    BY <1>5, <1>6, <1>16 DEF filled
  <2> QED
    BY <2>1, <2>2, <1>10, <1>13, <1>17 DEF RegionExact
<1>22. SeenExact'
  <2> SUFFICES ASSUME NEW s \in Windowed, s \notin forgotten
               PROVE  Disk!Seen(s)' = truth[s]
    BY <1>2 DEF SeenExact
  <2>1. Disk!Seen(s) = truth[s]
    BY DEF DiskHolds, SeenExact
  <2>2. CASE s # winsect
    <3>1. s # r.sect \/ r.kind = "read"
      BY <2>2, <1>3, CopyFacts, SectorFacts DEF DiskHolds, PhaseExact, r, DiskTypeOK, Phases, Flushing, Mirroring
    <3> QED
      BY <2>1, <2>2, <3>1, <1>2, <1>16, <1>18, SectorFacts DEF Disk!Seen
  <2>3. CASE s = winsect
    BY <2>1, <2>3, <1>2 DEF Disk!Seen
  <2> QED
    BY <2>2, <2>3
<1>23. DataExact(w)'
  <2> SUFFICES ASSUME NEW s \in FileData, s \notin forgotten
               PROVE  disk'[s] = IF access[w] = "data" /\ r.sect = s /\ r.kind = "write" /\ outcome = "ok"
                                 THEN Disk!Stamped(truth[s]) ELSE truth[s]
    BY <1>2, <1>10 DEF DataExact, Written
  <2>1. disk[s] = truth[s]
    BY <1>2 DEF DiskHolds, DataExact, Written
  <2>2. CASE access[w] = "data" /\ r.sect = s
    <3>1. content = Disk!Stamped(truth[s])
      BY <2>2 DEF content, Disk!Buffer, DiskHolds, PhaseExact, r
    <3> QED
      BY <2>1, <2>2, <3>1, <1>17, <1>18
  <2>3. CASE ~(access[w] = "data" /\ r.sect = s)
    <3>1. s # r.sect
      BY <2>3, <1>3, CopyFacts, SectorFacts DEF DiskHolds, PhaseExact, r, DiskTypeOK, Phases, Flushing, Mirroring
    <3> QED
      BY <2>1, <2>3, <3>1, <1>16, SectorFacts
  <2> QED
    BY <2>2, <2>3
<1>24. CleanExact(w)'
  <2> SUFFICES ASSUME ~wflag, access[w] \notin {"info", "wipe"}, winsect \in Windowed \ forgotten
               PROVE  disk'[winsect] = win
    BY <1>2 DEF CleanExact
  <2>1. disk[winsect] = win
    BY DEF DiskHolds, CleanExact
  <2>2. r.sect # winsect \/ r.kind = "read"
    BY <1>3, CopyFacts, SectorFacts DEF DiskHolds, PhaseExact, r, DiskTypeOK, Phases, Flushing, Mirroring
  <2> QED
    BY <2>1, <2>2, <1>16, <1>18, SectorFacts
<1>25. CopiesExact(w)'
  <2> SUFFICES ASSUME NEW s \in Fat, s + FatSize \notin forgotten,
                      ~(s = winsect /\ ((access[w] \in Flushing /\ Written(w)') \/ access[w] \in Mirroring))
               PROVE  disk'[s + FatSize] = disk'[s]
    BY <1>2 DEF CopiesExact
  <2>1. disk[s + FatSize] = disk[s]
    BY <1>2 DEF DiskHolds, CopiesExact, Written
  <2>2. s + FatSize \in Disk!Sectors /\ s \in Disk!Sectors
    BY CopyFacts, SectorFacts
  <2>3. CASE r.kind = "write" /\ outcome = "ok"
    <3>1. Written(w)'
      BY <2>3, <1>10 DEF Written
    <3>2. s + FatSize # r.sect /\ s # r.sect
      <4>1. access[w] \in Phases \ {"idle", "fill"}
        BY <2>3, <1>3 DEF DiskHolds, PhaseExact, r, DiskTypeOK
      <4>2. CASE access[w] \in Flushing
        BY <4>2, <3>1, CopyFacts, SectorFacts DEF DiskHolds, PhaseExact, r, DiskTypeOK
      <4>3. CASE access[w] \in Mirroring
        <5>1. r.sect = winsect + FatSize /\ winsect \in Fat /\ s # winsect
          BY <4>3 DEF DiskHolds, PhaseExact, r
        <5> QED
          BY <5>1, CopyFacts, SectorFacts
      <4>4. CASE access[w] \in {"info", "wipe", "data"}
        BY <4>4, CopyFacts, SectorFacts DEF DiskHolds, PhaseExact, r
      <4> QED
        BY <4>1, <4>2, <4>3, <4>4 DEF Phases, Flushing, Mirroring
    <3> QED
      BY <2>1, <2>2, <3>2, <1>16
  <2> QED
    BY <2>1, <2>3, <1>18
<1> QED
  BY <1>14, <1>15, <1>20, <1>21, <1>22, <1>23, <1>24, <1>25 DEF DiskHolds

LEMMA WriteBackHolds ==
  ASSUME DiskTypeOK, NEW w \in Threads, DiskHolds(w), Disk!WriteBack(w)
  PROVE  DiskTypeOK' /\ DiskHolds(w)'
<1> DEFINE r == req[w]
           content == Disk!Buffer(w)
           new == Disk!Request("write", r.sect, Disk!Patched(w))
<1>1. /\ r.kind = "fetch" /\ r.state = "ok"
      /\ req' = [req EXCEPT ![w] = new]
      /\ UNCHANGED <<disk, win, winsect, wflag, access, target, truth, forgotten>>
  BY DEF Disk!WriteBack, Disk!winVars, Disk!history, DiskTypeOK
<1>2. access[w] # "idle"
  BY <1>1, NoRequestFacts DEF DiskHolds, PhaseExact
<1>3. r.sect \in Disk!Sectors /\ content \in {0, 1} /\ disk \in [Disk!Sectors -> {0, 1}]
  BY <1>2, RequestSector DEF DiskHolds, DiskTypeOK
<1>4. r.sect \in Disk!Block(r.sect) /\ Disk!Block(r.sect) \subseteq Disk!Sectors
  BY <1>3, BlockFacts
<1>5. r.region = [t \in Disk!Block(r.sect) |-> disk[t]]
  BY <1>1 DEF DiskHolds, RegionExact
<1>6. Disk!Patched(w) = [t \in Disk!Block(r.sect) |-> IF t = r.sect THEN content ELSE disk[t]]
  BY <1>4, <1>5 DEF Disk!Patched
<1>7. Disk!Patched(w) \in [Disk!Block(r.sect) -> {0, 1}]
  BY <1>3, <1>4, <1>6
<1>8. Disk!Patched(w) \in UNION {[C -> {0, 1}] : C \in SUBSET Disk!Sectors}
  BY <1>4, <1>7, RegionTyped
<1>9. new = [kind |-> "write", sect |-> r.sect, region |-> Disk!Patched(w), state |-> "queued"]
  BY DEF Disk!Request
<1> HIDE DEF new
<1>10. new \in Requests
  BY <1>3, <1>8, <1>9 DEF Requests
<1>11. req'[w] = new /\ \A v \in Threads \ {w} : req'[v] = req[v]
  BY <1>1 DEF DiskTypeOK
<1>12. DiskTypeOK'
  BY <1>1, <1>10 DEF DiskTypeOK
<1>13. Alone(w)'
  BY <1>1, <1>11 DEF DiskHolds, Alone
<1>14. PhaseExact(w)'
  BY <1>1, <1>2, <1>9, <1>11 DEF DiskHolds, PhaseExact
<1>15. Disk!Buffer(w)' = content
  BY <1>1 DEF Disk!Buffer
<1>16. RegionExact(w)'
  BY <1>1, <1>6, <1>9, <1>11, <1>15 DEF RegionExact
<1>17. ~Written(w) /\ ~Written(w)'
  BY <1>1, <1>9, <1>11 DEF Written
<1>18. SeenExact' /\ CleanExact(w)'
  BY <1>1 DEF DiskHolds, SeenExact, CleanExact, Disk!Seen
<1>19. DataExact(w)' /\ CopiesExact(w)'
  BY <1>1, <1>17 DEF DiskHolds, DataExact, CopiesExact
<1> QED
  BY <1>12, <1>13, <1>14, <1>16, <1>18, <1>19 DEF DiskHolds

\* When nothing is under way it does not matter of which thread one speaks.
LEMMA IdleHolds ==
  ASSUME NEW u \in Threads, DiskHolds(u), Disk!Idle, NEW w \in Threads
  PROVE  DiskHolds(w)
<1>1. \A v \in Threads : access[v] = "idle" /\ req[v] = Disk!NoRequest
  BY DEF Disk!Idle, DiskHolds, Alone, PhaseExact
<1>2. Alone(w)
  BY <1>1 DEF Alone
<1>3. PhaseExact(w)
  BY <1>1, NoRequestFacts DEF PhaseExact, Flushing, Mirroring
<1>4. RegionExact(w)
  BY <1>1, NoRequestFacts DEF RegionExact
<1>5. DataExact(w) /\ CleanExact(w) /\ CopiesExact(w)
  BY <1>1 DEF DiskHolds, DataExact, CleanExact, CopiesExact, Flushing, Mirroring
<1> QED
  BY <1>2, <1>3, <1>4, <1>5 DEF DiskHolds

\* Nothing is left to write but what was given up.
Synced(given) ==
  /\ \A s \in Windowed : s \in given \/ disk[s] = truth[s]
  /\ winsect \in Windowed => winsect \in given \/ disk[winsect] = win
  /\ \A s \in FileData : s \in given \/ disk[s] = truth[s]
  /\ \A s \in Fat : s + FatSize \in given \/ disk[s + FatSize] = disk[s]

LEMMA InfoHolds ==
  ASSUME DiskTypeOK, NEW w \in Threads, Alone(w), Synced(forgotten'), ~wflag', wflag' \in BOOLEAN, disk' = disk,
         win' = Disk!Stamped(truth[FsInfo]), winsect' = FsInfo, truth' = [truth EXCEPT ![FsInfo] = win'],
         Disk!Wait(w, "info", FsInfo, Disk!WriteRequest(FsInfo, win'))
  PROVE  DiskTypeOK' /\ DiskHolds(w)'
<1>1. FsInfo \in Disk!Sectors
  BY SectorFacts
<1>2. win' \in {0, 1} /\ truth' \in [Disk!Sectors -> {0, 1}] /\ truth'[FsInfo] = win'
  BY <1>1, StampTyped DEF DiskTypeOK
<1> DEFINE r == Disk!WriteRequest(FsInfo, win')
<1>3. r \in Requests /\ r.sect = FsInfo /\ r.state = "queued" /\ r.kind \in {"fetch", "write"}
  <2>1. PICK v \in {0, 1} : v = win'
    BY <1>2
  <2>2. LET q == Disk!WriteRequest(FsInfo, v) IN
        q \in Requests /\ q.sect = FsInfo /\ q.state = "queued" /\ q.kind \in {"fetch", "write"}
    BY ZenonT(60), <1>1, WriteRequestFacts
  <2> QED
    BY <2>1, <2>2
<1> HIDE DEF r
<1>4. /\ access' \in [Threads -> Phases] /\ req' \in [Threads -> Requests]
      /\ target' \in [Threads -> Disk!Sectors \cup {Disk!NoSect}]
      /\ access'[w] = "info" /\ target'[w] = FsInfo /\ req'[w] = r /\ Alone(w)'
  BY <1>1, <1>3, WaitFacts DEF Phases, r
<1>5. DiskTypeOK'
  BY <1>2, <1>4, SectorFacts DEF DiskTypeOK
<1>6. PhaseExact(w)'
  BY <1>2, <1>3, <1>4 DEF PhaseExact, Flushing, Mirroring
<1>7. RegionExact(w)'
  BY <1>1, <1>2, <1>4, WriteBegun DEF r, Disk!Buffer
<1>8. SeenExact'
  BY <1>1, <1>2, SectorFacts DEF Synced, SeenExact, Disk!Seen, DiskTypeOK
<1>9. DataExact(w)'
  BY <1>2, <1>4, SectorFacts DEF Synced, DataExact, DiskTypeOK
<1>10. CleanExact(w)' /\ CopiesExact(w)'
  BY <1>4 DEF Synced, CleanExact, CopiesExact, Flushing, Mirroring
<1> QED
  BY <1>4, <1>5, <1>6, <1>7, <1>8, <1>9, <1>10 DEF DiskHolds

LEMMA WipeHolds ==
  ASSUME DiskTypeOK, NEW w \in Threads, Alone(w), Synced(forgotten'), ~wflag', wflag' \in BOOLEAN, disk' = disk,
         NEW s \in Tables, win' = 0, winsect' = s, truth' = [truth EXCEPT ![s] = 0],
         Disk!Wait(w, "wipe", s, Disk!WriteRequest(s, 0))
  PROVE  DiskTypeOK' /\ DiskHolds(w)'
<1>1. s \in Disk!Sectors /\ s \in Windowed
  BY SectorFacts
<1>2. truth' \in [Disk!Sectors -> {0, 1}] /\ truth'[s] = 0
  BY <1>1 DEF DiskTypeOK
<1> DEFINE r == Disk!WriteRequest(s, 0)
<1>3. r \in Requests /\ r.sect = s /\ r.state = "queued" /\ r.kind \in {"fetch", "write"}
  BY <1>1, WriteRequestFacts
<1> HIDE DEF r
<1>4. /\ access' \in [Threads -> Phases] /\ req' \in [Threads -> Requests]
      /\ target' \in [Threads -> Disk!Sectors \cup {Disk!NoSect}]
      /\ access'[w] = "wipe" /\ target'[w] = s /\ req'[w] = r /\ Alone(w)'
  BY <1>1, <1>3, WaitFacts DEF Phases, r
<1>5. DiskTypeOK'
  BY <1>1, <1>2, <1>4 DEF DiskTypeOK
<1>6. PhaseExact(w)'
  BY <1>2, <1>3, <1>4 DEF PhaseExact, Flushing, Mirroring
<1>7. RegionExact(w)'
  BY <1>1, <1>4, WriteBegun DEF r, Disk!Buffer
<1>8. SeenExact'
  BY <1>1, <1>2, SectorFacts DEF Synced, SeenExact, Disk!Seen, DiskTypeOK
<1>9. DataExact(w)'
  BY <1>1, <1>4, SectorFacts DEF Synced, DataExact, DiskTypeOK
<1>10. CleanExact(w)' /\ CopiesExact(w)'
  BY <1>4 DEF Synced, CleanExact, CopiesExact, Flushing, Mirroring
<1> QED
  BY <1>4, <1>5, <1>6, <1>7, <1>8, <1>9, <1>10 DEF DiskHolds

LEMMA FillHolds ==
  ASSUME DiskTypeOK, NEW w \in Threads, Alone(w), Synced(forgotten'), ~wflag', wflag' \in BOOLEAN, disk' = disk,
         UNCHANGED <<win, winsect, truth>>, NEW s \in Disk!Meta,
         Disk!Wait(w, "fill", s, Disk!ReadRequest(s))
  PROVE  DiskTypeOK' /\ DiskHolds(w)'
<1>1. s \in Disk!Sectors
  BY SectorFacts
<1> DEFINE r == Disk!ReadRequest(s)
<1>2. r \in Requests /\ r.sect = s /\ r.state = "queued" /\ r.kind = "read"
  BY <1>1, ReadRequestFacts
<1> HIDE DEF r
<1>3. /\ access' \in [Threads -> Phases] /\ req' \in [Threads -> Requests]
      /\ target' \in [Threads -> Disk!Sectors \cup {Disk!NoSect}]
      /\ access'[w] = "fill" /\ target'[w] = s /\ req'[w] = r /\ Alone(w)'
  BY <1>1, <1>2, WaitFacts DEF Phases, r
<1>4. DiskTypeOK'
  BY <1>3 DEF DiskTypeOK
<1>5. PhaseExact(w)'
  BY <1>2, <1>3 DEF PhaseExact, Flushing, Mirroring
<1>6. RegionExact(w)'
  BY <1>1, <1>3, ReadBegun DEF r
<1>7. SeenExact'
  BY DEF Synced, SeenExact, Disk!Seen
<1>8. DataExact(w)'
  BY <1>3 DEF Synced, DataExact
<1>9. CleanExact(w)' /\ CopiesExact(w)'
  BY <1>3 DEF Synced, CleanExact, CopiesExact, Flushing, Mirroring
<1> QED
  BY <1>3, <1>4, <1>5, <1>6, <1>7, <1>8, <1>9 DEF DiskHolds

\* What an operation does after sync_window, in a window that is written back.
LEMMA AfterSyncHolds ==
  ASSUME DiskTypeOK, NEW w \in Threads, DiskHolds(w), Synced(forgotten'), ~wflag', wflag' \in BOOLEAN, disk' = disk,
         access[w] \in Flushing \cup Mirroring, Disk!AfterSync(w)
  PROVE  DiskTypeOK' /\ DiskHolds(w)'
<1>1. Alone(w)
  BY DEF DiskHolds
<1>2. CASE target[w] = FsInfo
  <2>1. /\ win' = Disk!Stamped(truth[FsInfo]) /\ winsect' = FsInfo
        /\ truth' = [truth EXCEPT ![FsInfo] = win']
        /\ Disk!Wait(w, "info", FsInfo, Disk!WriteRequest(FsInfo, win'))
    BY <1>2, SectorFacts DEF Disk!AfterSync
  <2> QED
    BY <1>1, <2>1, InfoHolds
<1>3. CASE target[w] \in Tables /\ access[w] \in {"clear", "clearMirror"}
  <2>1. /\ win' = 0 /\ winsect' = target[w] /\ truth' = [truth EXCEPT ![target[w]] = 0]
        /\ Disk!Wait(w, "wipe", target[w], Disk!WriteRequest(target[w], 0))
    BY <1>3, SectorFacts DEF Disk!AfterSync
  <2> QED
    BY <1>1, <1>3, <2>1, WipeHolds
<1>4. CASE target[w] # FsInfo /\ ~(target[w] \in Tables /\ access[w] \in {"clear", "clearMirror"})
  <2>1. target[w] \in Disk!Meta
    BY <1>4 DEF DiskHolds, PhaseExact, Flushing, Mirroring, Windowed
  <2>2. /\ UNCHANGED <<win, winsect, truth>>
        /\ Disk!Wait(w, "fill", target[w], Disk!ReadRequest(target[w]))
    BY <1>4 DEF Disk!AfterSync
  <2> QED
    BY <1>1, <2>1, <2>2, FillHolds
<1> QED
  BY <1>2, <1>3, <1>4

LEMMA IdleSynced ==
  ASSUME NEW w \in Threads, DiskHolds(w), access[w] = "idle", ~wflag, forgotten' = forgotten
  PROVE  Synced(forgotten')
<1>1. \A s \in Windowed : s \in forgotten \/ disk[s] = truth[s]
  BY DEF DiskHolds, SeenExact, CleanExact, Disk!Seen
<1>2. winsect \in Windowed => winsect \in forgotten \/ disk[winsect] = win
  BY DEF DiskHolds, CleanExact
<1>3. \A s \in FileData : s \in forgotten \/ disk[s] = truth[s]
  BY DEF DiskHolds, DataExact
<1>4. \A s \in Fat : s + FatSize \in forgotten \/ disk[s + FatSize] = disk[s]
  BY DEF DiskHolds, CopiesExact, Flushing, Mirroring
<1> QED
  BY <1>1, <1>2, <1>3, <1>4 DEF Synced

\* sync_window begins to write the window.
LEMMA FlushHolds ==
  ASSUME DiskTypeOK, NEW w \in Threads, DiskHolds(w), access[w] = "idle", wflag,
         NEW p \in Flushing, NEW s \in Windowed, p = "clear" => s \in Tables,
         Disk!Wait(w, p, s, Disk!WriteRequest(winsect, win)),
         UNCHANGED <<disk, win, winsect, wflag, truth, forgotten>>
  PROVE  DiskTypeOK' /\ DiskHolds(w)'
<1>1. winsect \in Disk!Sectors /\ s \in Disk!Sectors /\ win \in {0, 1} /\ p \in Phases
  BY SectorFacts DEF DiskTypeOK, Phases, Flushing
<1> DEFINE r == Disk!WriteRequest(winsect, win)
<1>2. r \in Requests /\ r.sect = winsect /\ r.state = "queued" /\ r.kind \in {"fetch", "write"}
  BY <1>1, WriteRequestFacts
<1> HIDE DEF r
<1>3. /\ access' \in [Threads -> Phases] /\ req' \in [Threads -> Requests]
      /\ target' \in [Threads -> Disk!Sectors \cup {Disk!NoSect}]
      /\ access'[w] = p /\ target'[w] = s /\ req'[w] = r /\ Alone(w)'
  BY <1>1, <1>2, WaitFacts DEF DiskHolds, r
<1>4. DiskTypeOK'
  BY <1>3 DEF DiskTypeOK
<1>5. PhaseExact(w)'
  BY <1>2, <1>3 DEF PhaseExact, Flushing, Mirroring
<1>6. RegionExact(w)'
  BY <1>1, <1>3, WriteBegun DEF r, Disk!Buffer, Flushing
<1>7. SeenExact'
  BY DEF DiskHolds, SeenExact, Disk!Seen
<1>8. DataExact(w)'
  BY <1>3 DEF DiskHolds, DataExact, Flushing
<1>9. CleanExact(w)' /\ CopiesExact(w)'
  BY <1>3 DEF DiskHolds, CleanExact, CopiesExact, Flushing, Mirroring
<1> QED
  BY <1>3, <1>4, <1>5, <1>6, <1>7, <1>8, <1>9 DEF DiskHolds

\* The caller of move_window changes the sector in the window.
LEMMA PutFacts ==
  ASSUME DiskTypeOK, NEW s \in Disk!Meta, Disk!Put(s)
  PROVE  /\ win' \in {0, 1} /\ wflag' /\ wflag' \in BOOLEAN
         /\ truth' \in [Disk!Sectors -> {0, 1}] /\ truth'[s] = win'
         /\ \A t \in Disk!Sectors \ {s} : truth'[t] = truth[t]
  BY SectorFacts, StampTyped DEF Disk!Put, DiskTypeOK

LEMMA MoveWindowHolds ==
  ASSUME DiskTypeOK, NEW w \in Threads, DiskHolds(w), NEW s \in Disk!Meta, Disk!MoveWindow(w, s)
  PROVE  DiskTypeOK' /\ DiskHolds(w)'
<1>1. access[w] = "idle"
  BY DEF Disk!MoveWindow
<1>2. CASE winsect = s
  <2>1. Disk!Put(s) /\ UNCHANGED <<disk, winsect, access, target, req, forgotten>>
    BY <1>2 DEF Disk!MoveWindow
  <2>2. /\ win' \in {0, 1} /\ wflag' /\ wflag' \in BOOLEAN
        /\ truth' \in [Disk!Sectors -> {0, 1}] /\ truth'[s] = win'
        /\ \A t \in Disk!Sectors \ {s} : truth'[t] = truth[t]
    BY <2>1, PutFacts
  <2>3. DiskTypeOK'
    BY <1>2, <2>1, <2>2 DEF DiskTypeOK
  <2>4. Alone(w)' /\ PhaseExact(w)'
    BY <1>1, <2>1, NoRequestFacts DEF DiskHolds, Alone, PhaseExact, Flushing, Mirroring
  <2>5. RegionExact(w)'
    BY <1>1, <2>1, NothingBegun DEF DiskHolds, PhaseExact
  <2>6. SeenExact'
    BY <1>2, <2>1, <2>2, SectorFacts DEF DiskHolds, SeenExact, Disk!Seen
  <2>7. DataExact(w)'
    BY <1>1, <2>1, <2>2, SectorFacts DEF DiskHolds, DataExact
  <2>8. CleanExact(w)' /\ CopiesExact(w)'
    BY <1>1, <2>1, <2>2 DEF DiskHolds, CleanExact, CopiesExact, Flushing, Mirroring
  <2> QED
    BY <2>3, <2>4, <2>5, <2>6, <2>7, <2>8 DEF DiskHolds
<1>3. CASE winsect # s /\ wflag
  <2>1. /\ Disk!Wait(w, "flush", s, Disk!WriteRequest(winsect, win))
        /\ UNCHANGED <<disk, win, winsect, wflag, truth, forgotten>>
    BY <1>3 DEF Disk!MoveWindow, Disk!winVars, Disk!history
  <2> QED
    BY <1>1, <1>3, <2>1, FlushHolds, SectorFacts DEF Flushing
<1>4. CASE winsect # s /\ ~wflag
  <2>1. /\ Disk!Wait(w, "fill", s, Disk!ReadRequest(s))
        /\ UNCHANGED <<disk, win, winsect, wflag, truth, forgotten>>
    BY <1>4 DEF Disk!MoveWindow, Disk!winVars, Disk!history
  <2>2. Synced(forgotten')
    BY <1>1, <1>4, <2>1, IdleSynced
  <2> QED
    BY <1>4, <2>1, <2>2, FillHolds DEF DiskHolds, DiskTypeOK
<1> QED
  BY <1>2, <1>3, <1>4

LEMMA SyncFirstHolds ==
  ASSUME DiskTypeOK, NEW w \in Threads, DiskHolds(w), NEW p \in Flushing, NEW s \in Windowed,
         (p = "flush" /\ s = FsInfo) \/ (p = "clear" /\ s \in Tables), Disk!SyncFirst(w, p, s)
  PROVE  DiskTypeOK' /\ DiskHolds(w)'
<1>1. access[w] = "idle" /\ UNCHANGED <<disk, forgotten>>
  BY DEF Disk!SyncFirst
<1>2. CASE wflag
  <2>1. Disk!Wait(w, p, s, Disk!WriteRequest(winsect, win)) /\ UNCHANGED <<win, winsect, wflag, truth>>
    BY <1>2 DEF Disk!SyncFirst, Disk!winVars
  <2> QED
    BY <1>1, <1>2, <2>1, FlushHolds
<1>3. CASE ~wflag
  <2>1. Synced(forgotten') /\ UNCHANGED wflag /\ ~wflag' /\ wflag' \in BOOLEAN
    BY <1>1, <1>3, IdleSynced DEF Disk!SyncFirst, DiskTypeOK
  <2>2. CASE p = "flush"
    <3>1. /\ win' = Disk!Stamped(truth[FsInfo]) /\ winsect' = FsInfo
          /\ truth' = [truth EXCEPT ![FsInfo] = win']
          /\ Disk!Wait(w, "info", FsInfo, Disk!WriteRequest(FsInfo, win'))
      BY <1>3, <2>2 DEF Disk!SyncFirst
    <3> QED
      BY <1>1, <2>1, <3>1, InfoHolds DEF DiskHolds
  <2>3. CASE p = "clear"
    <3>1. /\ win' = 0 /\ winsect' = s /\ truth' = [truth EXCEPT ![s] = 0]
          /\ Disk!Wait(w, "wipe", s, Disk!WriteRequest(s, 0)) /\ s \in Tables
      BY <1>3, <2>3 DEF Disk!SyncFirst
    <3> QED
      BY <1>1, <2>1, <3>1, WipeHolds DEF DiskHolds
  <2> QED
    BY <2>2, <2>3 DEF Flushing
<1> QED
  BY <1>2, <1>3

LEMMA WriteDataHolds ==
  ASSUME DiskTypeOK, NEW w \in Threads, DiskHolds(w), NEW s \in FileData, Disk!WriteData(w, s)
  PROVE  DiskTypeOK' /\ DiskHolds(w)'
<1>1. /\ access[w] = "idle" /\ UNCHANGED <<disk, win, winsect, wflag, truth, forgotten>>
      /\ Disk!Wait(w, "data", s, Disk!WriteRequest(s, Disk!Stamped(truth[s])))
  BY DEF Disk!WriteData, Disk!winVars, Disk!history
<1> DEFINE v == Disk!Stamped(truth[s])
           r == Disk!WriteRequest(s, v)
<1>2. s \in Disk!Sectors /\ v \in {0, 1}
  BY SectorFacts, StampTyped DEF DiskTypeOK
<1> HIDE DEF v
<1>3. r \in Requests /\ r.sect = s /\ r.state = "queued" /\ r.kind \in {"fetch", "write"}
  BY ZenonT(60), <1>2, WriteRequestFacts
<1> HIDE DEF r
<1>4. /\ access' \in [Threads -> Phases] /\ req' \in [Threads -> Requests]
      /\ target' \in [Threads -> Disk!Sectors \cup {Disk!NoSect}]
      /\ access'[w] = "data" /\ target'[w] = s /\ req'[w] = r /\ Alone(w)'
  BY <1>1, <1>2, <1>3, WaitFacts DEF Phases, DiskHolds, r, v
<1>5. DiskTypeOK'
  BY <1>1, <1>4 DEF DiskTypeOK
<1>6. PhaseExact(w)'
  BY <1>3, <1>4 DEF PhaseExact, Flushing, Mirroring
<1>7. RegionExact(w)'
  <2>1. v = Disk!Buffer(w)'
    BY <1>1, <1>4 DEF Disk!Buffer, v
  <2> QED
    BY <1>2, <1>4, <2>1, WriteBegun DEF r
<1>8. SeenExact'
  BY <1>1 DEF DiskHolds, SeenExact, Disk!Seen
<1>9. DataExact(w)'
  BY <1>1, <1>3, <1>4 DEF DiskHolds, DataExact, Written
<1>10. CleanExact(w)' /\ CopiesExact(w)'
  BY <1>1, <1>4 DEF DiskHolds, CleanExact, CopiesExact, Flushing, Mirroring
<1> QED
  BY <1>4, <1>5, <1>6, <1>7, <1>8, <1>9, <1>10 DEF DiskHolds

\* A thread whose operation is over.
LEMMA DoneFacts ==
  ASSUME DiskTypeOK, NEW w \in Threads, Alone(w), Disk!Done(w)
  PROVE  /\ access' \in [Threads -> Phases] /\ req' \in [Threads -> Requests]
         /\ target' \in [Threads -> Disk!Sectors \cup {Disk!NoSect}]
         /\ access'[w] = "idle" /\ Alone(w)' /\ PhaseExact(w)' /\ RegionExact(w)' /\ ~Written(w)'
<1>1. /\ access' \in [Threads -> Phases] /\ req' \in [Threads -> Requests]
      /\ target' \in [Threads -> Disk!Sectors \cup {Disk!NoSect}]
      /\ access'[w] = "idle" /\ req'[w] = Disk!NoRequest /\ Alone(w)'
  BY NoRequestFacts, WaitFacts DEF Disk!Done, Phases
<1>2. PhaseExact(w)' /\ ~Written(w)'
  BY <1>1, NoRequestFacts DEF PhaseExact, Flushing, Mirroring, Written
<1>3. RegionExact(w)'
  BY <1>1, NothingBegun
<1> QED
  BY <1>1, <1>2, <1>3

LEMMA FlushedHolds ==
  ASSUME DiskTypeOK, NEW w \in Threads, DiskHolds(w), Disk!Flushed(w)
  PROVE  DiskTypeOK' /\ DiskHolds(w)'
<1>1. /\ access[w] \in Flushing /\ req[w].state = "ok" /\ req[w].kind # "fetch"
      /\ ~wflag' /\ wflag' \in BOOLEAN /\ UNCHANGED <<disk, forgotten>>
  BY DEF Disk!Flushed, Disk!Returns, Flushing
<1>2. req[w].kind = "write" /\ req[w].sect = winsect /\ wflag /\ winsect \in Disk!Meta
  BY <1>1 DEF DiskHolds, PhaseExact, Flushing, DiskTypeOK
<1>3. disk[winsect] = win
  BY <1>1, <1>2 DEF DiskHolds, RegionExact, Disk!Buffer, Flushing
<1>4. \A s \in FileData : s \in forgotten \/ disk[s] = truth[s]
  BY <1>1 DEF DiskHolds, DataExact, Flushing
<1>5. CASE winsect \in Fat
  <2> DEFINE p == IF access[w] = "clear" THEN "clearMirror" ELSE "mirror"
             copy == winsect + FatSize
             r == Disk!WriteRequest(copy, win)
  <2>1. Disk!Wait(w, p, target[w], r) /\ UNCHANGED <<win, winsect, truth>>
    BY <1>5 DEF Disk!Flushed
  <2>2. /\ copy \in Disk!Sectors /\ win \in {0, 1} /\ p \in Mirroring /\ p \in Phases
        /\ target[w] \in Disk!Sectors \cup {Disk!NoSect}
    BY <1>5, CopyFacts DEF DiskTypeOK, Phases, Mirroring
  <2>3. p = "mirror" => target[w] \in Windowed
    BY <1>1 DEF DiskHolds, PhaseExact, Flushing
  <2>4. p = "clearMirror" => target[w] \in Tables
    BY <1>1 DEF DiskHolds, PhaseExact, Flushing
  <2> HIDE DEF p, copy
  <2>5. r \in Requests /\ r.sect = copy /\ r.state = "queued" /\ r.kind \in {"fetch", "write"}
    BY <2>2, WriteRequestFacts
  <2> HIDE DEF r
  <2>6. /\ access' \in [Threads -> Phases] /\ req' \in [Threads -> Requests]
        /\ target' \in [Threads -> Disk!Sectors \cup {Disk!NoSect}]
        /\ access'[w] = p /\ target'[w] = target[w] /\ req'[w] = r /\ Alone(w)'
    BY <2>1, <2>2, <2>5, WaitFacts DEF DiskHolds
  <2>7. DiskTypeOK'
    BY <1>1, <2>1, <2>6 DEF DiskTypeOK
  <2>8. PhaseExact(w)'
    BY <1>1, <1>3, <1>5, <2>1, <2>2, <2>3, <2>4, <2>5, <2>6 DEF PhaseExact, Flushing, Mirroring, copy
  <2>9. RegionExact(w)'
    BY <2>1, <2>2, <2>6, WriteBegun DEF r, Disk!Buffer, Mirroring
  <2>10. SeenExact'
    BY <1>1, <2>1 DEF DiskHolds, SeenExact, Disk!Seen
  <2>11. DataExact(w)'
    BY <1>1, <1>4, <2>1, <2>2, <2>6 DEF DataExact, Mirroring
  <2>12. CleanExact(w)' /\ CopiesExact(w)'
    BY <1>1, <1>3, <2>1, <2>2, <2>6 DEF DiskHolds, CleanExact, CopiesExact, Flushing, Mirroring
  <2> QED
    BY <2>6, <2>7, <2>8, <2>9, <2>10, <2>11, <2>12 DEF DiskHolds
<1>6. CASE winsect \notin Fat
  <2>1. \A s \in Windowed : s \in forgotten \/ disk[s] = truth[s]
    BY <1>3 DEF DiskHolds, SeenExact, Disk!Seen
  <2>2. \A s \in Fat : s + FatSize \in forgotten \/ disk[s + FatSize] = disk[s]
    BY <1>1, <1>6 DEF DiskHolds, CopiesExact, Flushing, Mirroring
  <2>3. Synced(forgotten')
    BY <1>1, <1>3, <1>4, <2>1, <2>2 DEF Synced
  <2>4. Disk!AfterSync(w)
    BY <1>6 DEF Disk!Flushed
  <2> QED
    BY <1>1, <2>3, <2>4, AfterSyncHolds
<1> QED
  BY <1>5, <1>6

LEMMA MirroredHolds ==
  ASSUME DiskTypeOK, NEW w \in Threads, DiskHolds(w), Disk!Mirrored(w)
  PROVE  DiskTypeOK' /\ DiskHolds(w)'
<1> DEFINE copy == req[w].sect
<1>1. /\ access[w] \in Mirroring /\ UNCHANGED <<disk, wflag>> /\ Disk!AfterSync(w)
      /\ \/ req[w].state = "ok" /\ req[w].kind # "fetch" /\ forgotten' = forgotten \ {copy}
         \/ forgotten' = forgotten \cup {copy}
  BY DEF Disk!Mirrored, Disk!Returns, Mirroring
<1>2. copy = winsect + FatSize /\ winsect \in Fat /\ ~wflag /\ disk[winsect] = win
  BY <1>1 DEF DiskHolds, PhaseExact
<1>3. copy \in Disk!Sectors \ Windowed /\ copy \notin FileData
  BY <1>2, CopyFacts
<1>4. \A s \in Windowed : s \in forgotten' \/ disk[s] = truth[s]
  BY <1>1, <1>2, <1>3 DEF DiskHolds, SeenExact, Disk!Seen
<1>5. \A s \in FileData : s \in forgotten' \/ disk[s] = truth[s]
  BY <1>1, <1>3 DEF DiskHolds, DataExact, Mirroring
<1>6. ASSUME NEW s \in Fat
      PROVE  s + FatSize \in forgotten' \/ disk[s + FatSize] = disk[s]
  <2>1. CASE s # winsect
    <3>1. s + FatSize # copy
      BY <1>2, <2>1, CopyFacts
    <3> QED
      BY <1>1, <2>1, <3>1 DEF DiskHolds, CopiesExact
  <2>2. CASE s = winsect /\ copy \notin forgotten'
    <3>1. req[w].kind = "write" /\ req[w].state = "ok"
      BY <1>1, <2>2 DEF DiskHolds, PhaseExact, Mirroring
    <3>2. disk[copy] = win
      BY <1>1, <3>1 DEF DiskHolds, RegionExact, Disk!Buffer, Mirroring
    <3> QED
      BY <1>2, <2>2, <3>2
  <2> QED
    BY <1>2, <2>1, <2>2
<1>7. Synced(forgotten')
  BY <1>2, <1>4, <1>5, <1>6 DEF Synced
<1> QED
  BY <1>1, <1>2, <1>7, AfterSyncHolds DEF DiskTypeOK

LEMMA FlushFailsHolds ==
  ASSUME DiskTypeOK, NEW w \in Threads, DiskHolds(w), Disk!FlushFails(w)
  PROVE  DiskTypeOK' /\ DiskHolds(w)'
<1>1. /\ access[w] \in Flushing /\ req[w].state = "error" /\ Disk!Done(w)
      /\ UNCHANGED <<disk, win, winsect, wflag, truth, forgotten>>
  BY DEF Disk!FlushFails, Disk!Returns, Disk!winVars, Disk!history, Flushing
<1>2. /\ access' \in [Threads -> Phases] /\ req' \in [Threads -> Requests]
      /\ target' \in [Threads -> Disk!Sectors \cup {Disk!NoSect}]
      /\ access'[w] = "idle" /\ Alone(w)' /\ PhaseExact(w)' /\ RegionExact(w)'
  BY <1>1, DoneFacts DEF DiskHolds
<1>3. DiskTypeOK'
  BY <1>1, <1>2 DEF DiskTypeOK
<1>4. SeenExact'
  BY <1>1 DEF DiskHolds, SeenExact, Disk!Seen
<1>5. DataExact(w)'
  BY <1>1, <1>2 DEF DiskHolds, DataExact, Flushing
<1>6. CleanExact(w)' /\ CopiesExact(w)'
  BY <1>1, <1>2 DEF DiskHolds, CleanExact, CopiesExact, Flushing, Mirroring, Written
<1> QED
  BY <1>2, <1>3, <1>4, <1>5, <1>6 DEF DiskHolds

\* What a thread that waits for its read knows.
LEMMA FillFacts ==
  ASSUME DiskTypeOK, NEW w \in Threads, DiskHolds(w), access[w] = "fill", req[w].state \in {"ok", "error"}
  PROVE  /\ target[w] \in Disk!Meta /\ ~wflag
         /\ req[w].region[target[w]] = disk[target[w]] /\ disk[target[w]] \in {0, 1}
         /\ Synced(forgotten)
<1>1. target[w] \in Disk!Meta /\ ~wflag /\ req[w].sect = target[w] /\ req[w].kind = "read"
  BY DEF DiskHolds, PhaseExact
<1>2. target[w] \in Disk!Sectors /\ target[w] \in Disk!Block(target[w])
  BY <1>1, BlockFacts, SectorFacts
<1>3. req[w].region[target[w]] = disk[target[w]] /\ disk[target[w]] \in {0, 1}
  BY <1>1, <1>2 DEF DiskHolds, RegionExact, DiskTypeOK
<1>4. \A s \in Windowed : s \in forgotten \/ disk[s] = truth[s]
  BY <1>1 DEF DiskHolds, SeenExact, CleanExact, Disk!Seen
<1>5. winsect \in Windowed => winsect \in forgotten \/ disk[winsect] = win
  BY <1>1 DEF DiskHolds, CleanExact
<1>6. \A s \in FileData : s \in forgotten \/ disk[s] = truth[s]
  BY DEF DiskHolds, DataExact
<1>7. \A s \in Fat : s + FatSize \in forgotten \/ disk[s + FatSize] = disk[s]
  BY DEF DiskHolds, CopiesExact, Flushing, Mirroring
<1> QED
  BY <1>1, <1>3, <1>4, <1>5, <1>6, <1>7 DEF Synced

LEMMA FilledHolds ==
  ASSUME DiskTypeOK, NEW w \in Threads, DiskHolds(w), Disk!Filled(w)
  PROVE  DiskTypeOK' /\ DiskHolds(w)'
<1> DEFINE s == target[w]
<1>1. /\ access[w] = "fill" /\ req[w].state = "ok" /\ Disk!Done(w)
      /\ winsect' = s /\ UNCHANGED <<disk, forgotten>>
      /\ Disk!Put(s) \/ (win' = req[w].region[s] /\ UNCHANGED <<wflag, truth>>)
  BY DEF Disk!Filled, Disk!Returns
<1>2. /\ s \in Disk!Meta /\ ~wflag /\ req[w].region[s] = disk[s] /\ disk[s] \in {0, 1}
      /\ Synced(forgotten)
  BY <1>1, FillFacts
<1> HIDE DEF s
<1>3. s \in Windowed /\ s \in Disk!Sectors
  BY <1>2, SectorFacts
<1>4. /\ access' \in [Threads -> Phases] /\ req' \in [Threads -> Requests]
      /\ target' \in [Threads -> Disk!Sectors \cup {Disk!NoSect}]
      /\ access'[w] = "idle" /\ Alone(w)' /\ PhaseExact(w)' /\ RegionExact(w)'
  BY <1>1, DoneFacts DEF DiskHolds
<1>5. CASE Disk!Put(s)
  <2>1. /\ win' \in {0, 1} /\ wflag' /\ wflag' \in BOOLEAN
        /\ truth' \in [Disk!Sectors -> {0, 1}] /\ truth'[s] = win'
        /\ \A t \in Disk!Sectors \ {s} : truth'[t] = truth[t]
    BY <1>2, <1>5, PutFacts
  <2>2. DiskTypeOK'
    BY <1>1, <1>2, <1>3, <1>4, <2>1 DEF DiskTypeOK
  <2>3. SeenExact'
    BY <1>1, <1>2, <2>1, SectorFacts DEF Synced, SeenExact, Disk!Seen
  <2>4. DataExact(w)'
    BY <1>1, <1>2, <1>4, <2>1, SectorFacts DEF Synced, DataExact
  <2>5. CleanExact(w)' /\ CopiesExact(w)'
    BY <1>1, <1>2, <2>1 DEF Synced, CleanExact, CopiesExact
  <2> QED
    BY <1>4, <2>2, <2>3, <2>4, <2>5 DEF DiskHolds
<1>6. CASE win' = req[w].region[s] /\ UNCHANGED <<wflag, truth>>
  <2>1. win' = disk[s]
    BY <1>2, <1>6
  <2>2. DiskTypeOK'
    BY <1>1, <1>2, <1>3, <1>4, <1>6, <2>1 DEF DiskTypeOK
  <2>3. SeenExact'
    BY <1>1, <1>2, <1>6, <2>1 DEF Synced, SeenExact, Disk!Seen
  <2>4. DataExact(w)'
    BY <1>1, <1>2, <1>4, <1>6 DEF Synced, DataExact
  <2>5. CleanExact(w)' /\ CopiesExact(w)'
    BY <1>1, <1>2, <2>1 DEF Synced, CleanExact, CopiesExact
  <2> QED
    BY <1>4, <2>2, <2>3, <2>4, <2>5 DEF DiskHolds
<1> QED
  BY <1>1, <1>5, <1>6

LEMMA FillFailsHolds ==
  ASSUME DiskTypeOK, NEW w \in Threads, DiskHolds(w), Disk!FillFails(w)
  PROVE  DiskTypeOK' /\ DiskHolds(w)'
<1>1. /\ access[w] = "fill" /\ req[w].state = "error" /\ Disk!Done(w)
      /\ win' = req[w].region[target[w]] /\ winsect' = Disk!NoSect
      /\ UNCHANGED <<disk, wflag, truth, forgotten>>
  BY DEF Disk!FillFails, Disk!Returns, Disk!history
<1>2. ~wflag /\ win' \in {0, 1} /\ Synced(forgotten)
  BY <1>1, FillFacts
<1>3. /\ access' \in [Threads -> Phases] /\ req' \in [Threads -> Requests]
      /\ target' \in [Threads -> Disk!Sectors \cup {Disk!NoSect}]
      /\ access'[w] = "idle" /\ Alone(w)' /\ PhaseExact(w)' /\ RegionExact(w)'
  BY <1>1, DoneFacts DEF DiskHolds
<1>4. DiskTypeOK'
  BY <1>1, <1>2, <1>3 DEF DiskTypeOK
<1>5. SeenExact'
  BY <1>1, <1>2, SectorFacts DEF Synced, SeenExact, Disk!Seen
<1>6. DataExact(w)'
  BY <1>1, <1>2, <1>3 DEF Synced, DataExact
<1>7. CleanExact(w)' /\ CopiesExact(w)'
  BY <1>1, <1>2, SectorFacts DEF Synced, CleanExact, CopiesExact
<1> QED
  BY <1>3, <1>4, <1>5, <1>6, <1>7 DEF DiskHolds

LEMMA DirectHolds ==
  ASSUME DiskTypeOK, NEW w \in Threads, DiskHolds(w), Disk!Direct(w)
  PROVE  DiskTypeOK' /\ DiskHolds(w)'
<1> DEFINE s == req[w].sect
<1>1. /\ access[w] \in {"info", "wipe"} /\ Disk!Done(w) /\ UNCHANGED <<disk, win, winsect, wflag, truth>>
      /\ \/ req[w].state = "ok" /\ req[w].kind # "fetch" /\ forgotten' = forgotten \ {s}
         \/ forgotten' = forgotten \cup {s}
  BY DEF Disk!Direct, Disk!Returns, Disk!winVars
<1>2. s = winsect /\ winsect \in Windowed /\ win = truth[winsect] /\ ~wflag
  BY <1>1, SectorFacts DEF DiskHolds, PhaseExact
<1>3. winsect \in forgotten' \/ disk[winsect] = win
  BY <1>1, <1>2 DEF DiskHolds, PhaseExact, RegionExact, Disk!Buffer
<1>4. /\ access' \in [Threads -> Phases] /\ req' \in [Threads -> Requests]
      /\ target' \in [Threads -> Disk!Sectors \cup {Disk!NoSect}]
      /\ access'[w] = "idle" /\ Alone(w)' /\ PhaseExact(w)' /\ RegionExact(w)'
  BY <1>1, DoneFacts DEF DiskHolds
<1>5. DiskTypeOK'
  BY <1>1, <1>4 DEF DiskTypeOK
<1>6. SeenExact'
  BY <1>1, <1>2 DEF DiskHolds, SeenExact, Disk!Seen
<1>7. DataExact(w)'
  BY <1>1, <1>2, <1>4, SectorFacts DEF DiskHolds, DataExact
<1>8. CleanExact(w)'
  BY <1>1, <1>3 DEF CleanExact
<1>9. CopiesExact(w)'
  <2> SUFFICES ASSUME NEW t \in Fat
               PROVE  t + FatSize \in forgotten' \/ disk[t + FatSize] = disk[t]
    BY <1>1 DEF CopiesExact
  <2> QED
    BY <1>1, <1>2, CopyFacts DEF DiskHolds, CopiesExact, Flushing, Mirroring
<1> QED
  BY <1>4, <1>5, <1>6, <1>7, <1>8, <1>9 DEF DiskHolds

LEMMA DataWrittenHolds ==
  ASSUME DiskTypeOK, NEW w \in Threads, DiskHolds(w), Disk!DataWritten(w)
  PROVE  DiskTypeOK' /\ DiskHolds(w)'
<1> DEFINE s == target[w]
<1>1. /\ access[w] = "data" /\ Disk!Done(w) /\ UNCHANGED <<disk, win, winsect, wflag, forgotten>>
      /\ \/ /\ req[w].state = "ok" /\ req[w].kind # "fetch"
            /\ truth' = [truth EXCEPT ![s] = Disk!Stamped(@)]
         \/ req[w].state = "error" /\ truth' = truth
  BY DEF Disk!DataWritten, Disk!Returns, Disk!winVars
<1>2. req[w].sect = s /\ s \in FileData /\ s \in Disk!Sectors /\ s \notin Windowed
  BY <1>1, SectorFacts DEF DiskHolds, PhaseExact
<1>3. /\ access' \in [Threads -> Phases] /\ req' \in [Threads -> Requests]
      /\ target' \in [Threads -> Disk!Sectors \cup {Disk!NoSect}]
      /\ access'[w] = "idle" /\ Alone(w)' /\ PhaseExact(w)' /\ RegionExact(w)'
  BY <1>1, DoneFacts DEF DiskHolds
<1> HIDE DEF s
<1>4. truth' \in [Disk!Sectors -> {0, 1}] /\ \A t \in Disk!Sectors \ {s} : truth'[t] = truth[t]
  BY <1>1, <1>2, StampTyped DEF DiskTypeOK
<1>5. DiskTypeOK'
  BY <1>1, <1>3, <1>4 DEF DiskTypeOK
<1>6. SeenExact'
  BY <1>1, <1>2, <1>4, SectorFacts DEF DiskHolds, SeenExact, Disk!Seen
<1>7. DataExact(w)'
  <2> SUFFICES ASSUME NEW t \in FileData, t \notin forgotten
               PROVE  disk[t] = truth'[t]
    BY <1>1, <1>3 DEF DataExact
  <2>1. CASE t = s
    <3>1. CASE req[w].state = "ok"
      <4>1. disk[s] = Disk!Stamped(truth[s])
        BY <1>1, <1>2, <2>1, <3>1 DEF DiskHolds, PhaseExact, DataExact, Written
      <4> QED
        BY <1>1, <1>2, <2>1, <3>1, <4>1 DEF DiskTypeOK
    <3>2. CASE req[w].state = "error"
      BY <1>1, <2>1, <3>2 DEF DiskHolds, DataExact, Written
    <3> QED
      BY <1>1, <3>1, <3>2
  <2>2. CASE t # s
    BY <1>2, <1>4, <2>2, SectorFacts DEF DiskHolds, DataExact
  <2> QED
    BY <2>1, <2>2
<1>8. CleanExact(w)' /\ CopiesExact(w)'
  BY <1>1, <1>2, <1>3, <1>4, SectorFacts DEF DiskHolds, CleanExact, CopiesExact, Flushing, Mirroring
<1> QED
  BY <1>3, <1>5, <1>6, <1>7, <1>8 DEF DiskHolds

-----------------------------------------------------------------------------
(* The disk: every step, and the theorem.                                  *)

LEMMA InitDiskIInv == ASSUME Disk!Init PROVE DiskIInv
<1>1. PICK w \in Threads : TRUE
  BY DiskAssumption DEF Disk!FatDiskAssumption
<1>2. /\ disk = [s \in Disk!Sectors |-> 0] /\ truth = disk
      /\ win = 0 /\ winsect = Disk!NoSect /\ wflag = FALSE
      /\ access = [v \in Threads |-> "idle"]
      /\ target = [v \in Threads |-> Disk!NoSect]
      /\ req = [v \in Threads |-> Disk!NoRequest]
      /\ forgotten = {}
  BY DEF Disk!Init
<1>3. DiskTypeOK
  BY <1>2, NoRequestFacts DEF DiskTypeOK, Phases
<1>4. Alone(w) /\ PhaseExact(w)
  BY <1>2, NoRequestFacts DEF Alone, PhaseExact, Flushing, Mirroring
<1>5. RegionExact(w)
  BY <1>2, NoRequestFacts DEF RegionExact
<1>6. SeenExact /\ DataExact(w) /\ CleanExact(w)
  BY <1>2, SectorFacts DEF SeenExact, DataExact, CleanExact, Disk!Seen
<1>7. CopiesExact(w)
  BY <1>2, SectorFacts, CopyFacts DEF CopiesExact
<1> QED
  BY <1>3, <1>4, <1>5, <1>6, <1>7 DEF DiskIInv, DiskHolds

LEMMA NextDiskIInv == ASSUME DiskIInv, Disk!OneByOne PROVE DiskIInv'
<1>1. PICK w \in Threads : (Disk!Idle /\ Disk!Start(w)) \/ Disk!Proceed(w)
  BY DEF Disk!OneByOne
<1>2. PICK u \in Threads : DiskHolds(u)
  BY DEF DiskIInv
<1>3. DiskTypeOK
  BY DEF DiskIInv
<1>4. CASE Disk!Idle /\ Disk!Start(w)
  <2>1. DiskHolds(w)
    BY <1>2, <1>4, IdleHolds
  <2>2. CASE \E s \in Disk!Meta : Disk!MoveWindow(w, s)
    BY <1>3, <2>1, <2>2, MoveWindowHolds DEF DiskIInv
  <2>3. CASE Disk!SyncFirst(w, "flush", FsInfo)
    BY <1>3, <2>1, <2>3, SyncFirstHolds, SectorFacts DEF DiskIInv, Flushing
  <2>4. CASE \E s \in Tables : Disk!SyncFirst(w, "clear", s)
    BY <1>3, <2>1, <2>4, SyncFirstHolds, SectorFacts DEF DiskIInv, Flushing
  <2>5. CASE \E s \in FileData : Disk!WriteData(w, s)
    BY <1>3, <2>1, <2>5, WriteDataHolds DEF DiskIInv
  <2> QED
    BY <1>4, <2>2, <2>3, <2>4, <2>5 DEF Disk!Start
<1>5. CASE Disk!Proceed(w)
  <2>1. access[w] # "idle" \/ req[w] # Disk!NoRequest
    BY <1>5, NoRequestFacts DEF Disk!Proceed, Disk!Serve, Disk!WriteBack, Disk!Flushed, Disk!FlushFails,
       Disk!Mirrored, Disk!Filled, Disk!FillFails, Disk!Direct, Disk!DataWritten, Disk!Returns
  <2>2. DiskHolds(w)
    BY <1>2, <2>1 DEF DiskHolds, Alone
  <2> QED
    BY <1>3, <1>5, <2>2, ServeHolds, WriteBackHolds, FlushedHolds, FlushFailsHolds, MirroredHolds, FilledHolds,
       FillFailsHolds, DirectHolds, DataWrittenHolds DEF Disk!Proceed, DiskIInv
<1> QED
  BY <1>1, <1>4, <1>5

\* As long as one operation runs at a time, move_window and sync_window lose no
\* change of a sector, the second FAT is a copy of the first wherever its own write
\* succeeded, and a window that is not dirty is on the disk.
THEOREM DiskStaysExact == SpecAll => []DiskExact
<1> DEFINE Inv == part = "disk" => DiskIInv
<1>1. InitAll => Inv
  BY InitDiskIInv DEF InitAll
<1>2. Inv /\ [NextAll]_<<part, vars, diskVars>> => Inv'
  <2> SUFFICES ASSUME Inv, [NextAll]_<<part, vars, diskVars>>, part' = "disk"
               PROVE  DiskIInv'
    OBVIOUS
  <2>1. CASE NextAll
    BY <2>1, NextDiskIInv DEF NextAll
  <2>2. CASE UNCHANGED <<part, vars, diskVars>>
    <3>1. UNCHANGED <<disk, win, winsect, wflag, access, target, req, truth, forgotten>>
      BY <2>2 DEF diskVars
    <3>2. DiskTypeOK' /\ \E w \in Threads : DiskHolds(w)
      BY <2>2, <3>1 DEF DiskIInv, DiskTypeOK
    <3>3. PICK w \in Threads : DiskHolds(w)
      BY <3>2
    <3>4. Disk!Buffer(w)' = Disk!Buffer(w) /\ \A s : Disk!Seen(s)' = Disk!Seen(s)
      BY <3>1 DEF Disk!Buffer, Disk!Seen
    <3>5. Alone(w)' /\ PhaseExact(w)' /\ SeenExact' /\ CleanExact(w)'
      BY <3>1, <3>3, <3>4 DEF DiskHolds, Alone, PhaseExact, SeenExact, CleanExact
    <3>6. RegionExact(w)'
      BY <3>1, <3>3, <3>4 DEF DiskHolds, RegionExact
    <3>7. DataExact(w)' /\ CopiesExact(w)'
      BY <3>1, <3>3 DEF DiskHolds, DataExact, CopiesExact, Written
    <3> QED
      BY <3>2, <3>3, <3>5, <3>6, <3>7 DEF DiskIInv, DiskHolds
  <2> QED
    BY <2>1, <2>2
<1>3. Inv => DiskExact
  <2> SUFFICES ASSUME DiskIInv, Disk!Idle
               PROVE  Disk!NoUpdateLost /\ Disk!MirrorFollows /\ Disk!CleanWindowIsOnDisk
    BY DEF DiskExact, Disk!NoUpdateLost, Disk!MirrorFollows, Disk!CleanWindowIsOnDisk
  <2>1. PICK w \in Threads : DiskHolds(w)
    BY DEF DiskIInv
  <2>2. access[w] = "idle"
    BY DEF Disk!Idle
  <2>3. Disk!NoUpdateLost
    BY <2>1, <2>2, SectorFacts DEF Disk!NoUpdateLost, Disk!Seen, DiskHolds, SeenExact, DataExact, Windowed, DiskIInv, DiskTypeOK
  <2>4. Disk!MirrorFollows
    BY <2>1, <2>2 DEF Disk!MirrorFollows, DiskHolds, CopiesExact, Flushing, Mirroring
  <2>5. Disk!CleanWindowIsOnDisk
    BY <2>1, <2>2 DEF Disk!CleanWindowIsOnDisk, DiskHolds, CleanExact, Windowed
  <2> QED
    BY <2>3, <2>4, <2>5
<1> QED
  BY <1>1, <1>2, <1>3, PTL DEF SpecAll
=============================================================================
