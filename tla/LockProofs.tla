----------------------------- MODULE LockProofs -----------------------------
(***************************************************************************)
(* What the lock file of PidLock gives to the two that use it.             *)
(*                                                                         *)
(* DevLock: the device lock keeps the device to one process at a time, as  *)
(* long as its node does not go away and no attempt overlaps the end of a  *)
(* process or another attempt at the lock that it leaves.                  *)
(*                                                                         *)
(* CdaDaemon: of daemons whose starts do not overlap, any number of them,  *)
(* each of which may be killed at any time, one serves the drive.          *)
(***************************************************************************)
EXTENDS DevLock, CdaDaemon, TLAPS

(* An attempt keeps the types of the lock's variables. *)
LEMMA LockTypes ==
  ASSUME LockTypeOK, NEW p \in Pid, Lock(p)
  PROVE  LockTypeOK'
<1> USE PidAssumption DEF LockTypeOK, Goto, Attempt
<1>1. CASE Create(p)
  <2>1. CASE file = NoFile
    <3>1. /\ file' = [by |-> p, named |-> FALSE]
          /\ lpc' = [lpc EXCEPT ![p] = "write"]
      BY <1>1, <2>1 DEF Create
    <3>2. file' \in [by : Pid \cup {NoPid}, named : BOOLEAN] /\ ~file'.named
      BY <3>1
    <3> QED BY <1>1, <3>1, <3>2 DEF Create
  <2>2. CASE file # NoFile  BY <1>1, <2>2 DEF Create
  <2> QED BY <2>1, <2>2
<1>2. CASE ReadPid(p)  BY <1>2 DEF ReadPid
<1>3. CASE Judge(p)  BY <1>3 DEF Judge
<1>4. CASE Steal(p)  BY <1>4 DEF Steal, NoFile
<1>5. CASE WritePid(p)  BY <1>5 DEF WritePid
<1> QED BY <1>1, <1>2, <1>3, <1>4, <1>5 DEF Lock

(* An attempt keeps LockInv, when attempts do not overlap or nobody ends. *)
LEMMA LockKeepsInv ==
  ASSUME NEW overlap \in BOOLEAN, LockTypeOK, LockInv(overlap),
         overlap => dead = {}, NEW p \in Pid, Lock(p)
  PROVE  LockInv(overlap)'
<1> USE PidAssumption
<1>0. p \notin dead /\ dead' = dead
  BY DEF Lock, Create, ReadPid, Judge, Steal, WritePid
<1>1. lpc[p] \in Attempt /\ p \in Trying
  BY <1>0 DEF Lock, Create, ReadPid, Judge, Steal, WritePid, Attempt, Trying
<1>2. \A q \in Pid \ {p} : lpc'[q] = lpc[q]
  BY DEF Lock, Create, ReadPid, Judge, Steal, WritePid, Goto, LockTypeOK
<1>3. /\ Trying' \subseteq Trying
      /\ ~overlap => Trying \subseteq {p}
  BY <1>0, <1>1, <1>2 DEF Trying, LockInv, OneTrying
<1>4. ~overlap => OneTrying'
  BY <1>3 DEF OneTrying
<1>5. CASE Create(p)
  <2>1. Owns'
    BY <1>0, <1>2, <1>5 DEF Create, Goto, Owns, LockInv, LockTypeOK, NoFile
  <2>2. NoTheft'
    BY <1>0, <1>2, <1>5 DEF Create, Goto, NoTheft, LockInv, LockTypeOK
  <2>3. ~overlap => SeenStays'
    BY <1>0, <1>3, <1>5 DEF Create, Goto, SeenStays, LockTypeOK
  <2> QED BY <1>4, <2>1, <2>2, <2>3 DEF LockInv
<1>6. CASE ReadPid(p)
  <2>1. Owns'
    BY <1>0, <1>2, <1>6 DEF ReadPid, Goto, Owns, LockInv, LockTypeOK
  <2>2. NoTheft'
    BY <1>0, <1>2, <1>6 DEF ReadPid, Goto, NoTheft, LockInv, LockTypeOK
  <2>3. ~overlap => SeenStays'
    BY <1>0, <1>3, <1>6 DEF ReadPid, Goto, SeenStays, LockTypeOK
  <2> QED BY <1>4, <2>1, <2>2, <2>3 DEF LockInv
<1>7. CASE Judge(p)
  <2>1. Owns'
    BY <1>0, <1>2, <1>7 DEF Judge, Goto, Owns, LockInv, LockTypeOK
  <2>2. NoTheft'
    BY <1>0, <1>2, <1>7 DEF Judge, Goto, NoTheft, LockInv, LockTypeOK
  <2>3. ~overlap => SeenStays'
    BY <1>0, <1>1, <1>3, <1>7
       DEF Judge, Goto, SeenStays, LockInv, LockTypeOK
  <2> QED BY <1>4, <2>1, <2>2, <2>3 DEF LockInv
<1>8. CASE Steal(p)
  (* Only a lock of the dead is unlinked: no live process owns it. *)
  <2>1. ~overlap /\ file.by \in dead \cup {NoPid}
    BY <1>1, <1>8 DEF Steal, LockInv, NoTheft, SeenStays
  <2>2. Owns'
    BY <1>0, <1>2, <1>8, <2>1 DEF Steal, Goto, Owns, LockInv, LockTypeOK
  <2>3. NoTheft'
    BY <1>0, <1>2, <1>8 DEF Steal, Goto, NoTheft, LockInv, LockTypeOK
  <2>4. ~overlap => SeenStays'
    BY <1>0, <1>3, <1>8 DEF Steal, Goto, SeenStays, LockTypeOK
  <2> QED BY <1>4, <2>2, <2>3, <2>4 DEF LockInv
<1>9. CASE WritePid(p)
  <2>1. Owns'
    BY <1>0, <1>2, <1>9 DEF WritePid, Goto, Owns, LockInv, LockTypeOK
  <2>2. NoTheft'
    BY <1>0, <1>2, <1>9 DEF WritePid, Goto, NoTheft, LockInv, LockTypeOK
  <2>3. ~overlap => SeenStays'
    BY <1>0, <1>3, <1>9 DEF WritePid, Goto, SeenStays, LockTypeOK
  <2> QED BY <1>4, <2>1, <2>2, <2>3 DEF LockInv
<1> QED BY <1>5, <1>6, <1>7, <1>8, <1>9 DEF Lock
-----------------------------------------------------------------------------
(* The types hold at first, and every step keeps them. *)
LEMMA DevInitTypes == DevInit => DevTypeOK
BY PidAssumption, SettingsAssumption
   DEF DevInit, LockInit, DevTypeOK, LockTypeOK, NoFile

LEMMA DevNextTypes ==
  ASSUME DevTypeOK, [DevNext]_allVars
  PROVE  DevTypeOK'
<1> USE DEF DevTypeOK
<1>1. ASSUME NEW p \in Pid, DiscReady(p)  PROVE DevTypeOK'
  BY <1>1 DEF DiscReady, Goto, LockTypeOK, Attempt
<1>2. ASSUME NEW p \in Pid, DevLockStep(p)  PROVE DevTypeOK'
  BY <1>2, LockTypes DEF DevLockStep, devVars
<1>3. ASSUME NEW p \in Pid, Open(p)  PROVE DevTypeOK'
  BY <1>3 DEF Open, lockVars, LockTypeOK
<1>4. ASSUME NEW p \in Pid, Close(p)  PROVE DevTypeOK'
  BY <1>4 DEF Close, lockVars, LockTypeOK
<1>5. ASSUME NEW p \in Pid, Halt(p)  PROVE DevTypeOK'
  BY <1>5, PidAssumption DEF Halt, LockTypeOK, NoFile
<1>6. ASSUME NEW p \in Pid, Kill(p)  PROVE DevTypeOK'
  BY <1>6 DEF Kill, LockTypeOK
<1>7. CASE NodeChange
  BY <1>7 DEF NodeChange, lockVars, LockTypeOK
<1>8. CASE UNCHANGED allVars
  BY <1>8 DEF allVars, lockVars, devVars, LockTypeOK
<1> QED BY <1>1, <1>2, <1>3, <1>4, <1>5, <1>6, <1>7, <1>8 DEF DevNext

(* Every variable keeps its type: the lock file names nobody before it     *)
(* exists, and only processes.                                             *)
THEOREM DevTypeCorrect == DevSpec => []DevTypeOK
<1>1. DevTypeOK /\ [DevNext]_allVars => DevTypeOK'
  BY DevNextTypes
<1> QED BY <1>1, DevInitTypes, PTL DEF DevSpec
-----------------------------------------------------------------------------
LEMMA DevInitInv == DevInit => DevInv
BY DEF DevInit, LockInit, DevInv, LockKept, LockInv, Owns, NoTheft, OneTrying,
       SeenStays, Trying, Attempt

(* The end of a process, whose lock goes with it or stays as it is. *)
LEMMA EndKeepsInv ==
  ASSUME DevTypeOK, LockKept, ~env.overlap, NEW p \in Pid \ dead,
         dead' = dead \cup {p}, opened' = opened \ {p},
         UNCHANGED <<lpc, seen, locked, named, node, env>>,
         file' = file \/ (file' = NoFile /\ file.by = p)
  PROVE  LockKept'
<1> USE DEF LockKept
<1>1. Owns'
  BY DEF LockInv, Owns
<1>2. NoTheft'
  BY DEF NoTheft
<1>3. Trying' \subseteq Trying
  BY DEF Trying
<1>4. OneTrying' /\ SeenStays'
  BY <1>3 DEF LockInv, OneTrying, SeenStays, NoFile
<1> QED BY <1>1, <1>2, <1>4 DEF LockInv

LEMMA DevNextInv ==
  ASSUME DevTypeOK, DevInv, [DevNext]_allVars
  PROVE  DevInv'
<1>0. env' = env
  BY DEF DevNext, DiscReady, DevLockStep, devVars, Open, Close, Halt, Kill,
         NodeChange, allVars
<1> SUFFICES ASSUME Sound, LockKept  PROVE LockKept'
  BY <1>0 DEF DevInv, Sound
<1> USE <1>0 DEF LockKept
<1>a. env.overlap \in BOOLEAN
  BY DEF DevTypeOK, Setting
<1>1. ASSUME NEW p \in Pid, DiscReady(p)  PROVE LockKept'
  <2>1. /\ lpc' = [lpc EXCEPT ![p] = "create"]
        /\ UNCHANGED <<file, seen, dead, locked, opened, node, env>>
        /\ lpc[p] # "held" /\ p \notin dead
        /\ env.overlap \/ Trying = {}
    BY <1>1 DEF DiscReady, AtRest, Goto, MayTry
  <2>2. \A q \in Pid : lpc'[q] = IF q = p THEN "create" ELSE lpc[q]
    BY <2>1 DEF DevTypeOK, LockTypeOK
  <2>3. Owns' /\ NoTheft'
    BY <2>1, <2>2 DEF LockInv, Owns, NoTheft
  <2>4. ~env.overlap => Trying' \subseteq {p}
    BY <2>1, <2>2 DEF Trying
  <2>5. ~env.overlap => OneTrying' /\ SeenStays'
    BY <2>2, <2>4 DEF OneTrying, SeenStays
  <2>6. \A q \in locked' \ dead' : lpc'[q] = "held"
    BY <1>1, <2>1, <2>2 DEF DevTypeOK, DiscReady
  <2> QED BY <2>1, <2>3, <2>5, <2>6 DEF LockInv
<1>2. ASSUME NEW p \in Pid, DevLockStep(p)  PROVE LockKept'
  <2>1. LockInv(env.overlap)'
    BY <1>2, <1>a, LockKeepsInv DEF DevLockStep, DevTypeOK, LockInv
  <2>2. /\ dead' = dead /\ lpc[p] \in Attempt
        /\ \A q \in Pid \ {p} : lpc'[q] = lpc[q]
    BY <1>2 DEF DevLockStep, Lock, Create, ReadPid, Judge, Steal, WritePid,
                Goto, DevTypeOK, LockTypeOK, Attempt
  <2>3. \A q \in locked \ dead : q # p
    BY <2>2 DEF Attempt
  <2> QED BY <1>2, <2>1, <2>2, <2>3 DEF DevLockStep, devVars, DevTypeOK
<1>3. ASSUME NEW p \in Pid, Open(p)  PROVE LockKept'
  <2>1. LockInv(env.overlap)'
    BY <1>3 DEF Open, lockVars, LockInv, Owns, NoTheft, OneTrying, SeenStays,
                Trying
  <2> QED BY <1>3, <2>1 DEF Open, AtRest, lockVars
<1>4. ASSUME NEW p \in Pid, Close(p)  PROVE LockKept'
  <2>1. LockInv(env.overlap)'
    BY <1>4 DEF Close, lockVars, LockInv, Owns, NoTheft, OneTrying, SeenStays,
                Trying
  <2> QED BY <1>4, <2>1 DEF Close, lockVars
<1>5. ASSUME NEW p \in Pid, Halt(p)  PROVE LockKept'
  <2>1. ~env.overlap /\ p \in Pid \ dead
    BY <1>5 DEF Halt, AtRest, Sound
  (* A process unlinks the lock only if it has been granted it. *)
  <2>2. file' = file \/ (file' = NoFile /\ file.by = p)
    BY <1>5, <2>1 DEF Halt, LockInv, Owns
  <2> QED BY <1>5, <2>1, <2>2, EndKeepsInv DEF Halt
<1>6. ASSUME NEW p \in Pid, Kill(p)  PROVE LockKept'
  <2>1. ~env.overlap /\ p \in Pid \ dead
    BY <1>6 DEF Kill, Sound
  <2> QED BY <1>6, <2>1, EndKeepsInv DEF Kill
<1>7. CASE NodeChange
  BY <1>7 DEF NodeChange, Sound
<1>8. CASE UNCHANGED allVars
  <2>1. LockInv(env.overlap)'
    BY <1>8 DEF allVars, lockVars, LockInv, Owns, NoTheft, OneTrying, SeenStays,
                Trying
  <2> QED BY <1>8, <2>1 DEF allVars, lockVars, devVars
<1> QED BY <1>1, <1>2, <1>3, <1>4, <1>5, <1>6, <1>7, <1>8 DEF DevNext

(* Under Sound, two processes never have the device open at once: whoever  *)
(* has it open finds itself in the lock file.                              *)
THEOREM ExclusiveHolds == DevSpec => []Exclusive
<1>1. DevInit => DevTypeOK /\ DevInv
  BY DevInitTypes, DevInitInv
<1>2. (DevTypeOK /\ DevInv) /\ [DevNext]_allVars => (DevTypeOK /\ DevInv)'
  BY DevNextTypes, DevNextInv
<1>3. DevTypeOK /\ DevInv => Exclusive
  BY DEF DevTypeOK, DevInv, LockKept, LockInv, Owns, Exclusive
<1> QED BY <1>1, <1>2, <1>3, PTL DEF DevSpec
-----------------------------------------------------------------------------
(* The types hold at first, and every step keeps them. *)
LEMMA InitTypes == Init => TypeOK
BY PidAssumption DEF Init, LockInit, TypeOK, LockTypeOK, NoFile, NoFd, Fd, Pipe

(* A step of a daemon keeps the types. *)
LEMMA DaemonTypes ==
  ASSUME TypeOK, NEW p \in Pid, Start(p) \/ Daemon(p) \/ Stop(p) \/ Crash(p)
  PROVE  TypeOK'
<1> USE DEF TypeOK, At, Step, Exit, dVars, cVars
<1>1. CASE Start(p)
  BY <1>1 DEF Start, Goto, LockTypeOK, Attempt
<1>2. CASE DaemonLock(p)
  <2>1. LockTypeOK'
    BY <1>2, LockTypes DEF DaemonLock, lockVars, LockTypeOK
  <2> QED BY <1>2, <2>1 DEF DaemonLock, Serving
<1>3. CASE MakeFifo(p)
  <2>1. LockTypeOK'
    BY <1>3 DEF MakeFifo, lockVars, LockTypeOK
  <2>2. fifo' \in Fd /\ pipe' \in [Pid -> Pipe]
    BY <1>3 DEF MakeFifo, Fd, Pipe
  <2> QED BY <1>3, <2>1, <2>2 DEF MakeFifo, Serving, Quitting
<1>4. CASE OpenFifo(p)
  <2>1. LockTypeOK'
    BY <1>4 DEF OpenFifo, lockVars, LockTypeOK
  <2>2. fd' \in [Pid -> Fd]
    <3>1. pipe[p] \in Pipe /\ fifo[pipe[p]] \in Pid \cup {NoPid}
      BY DEF Fd
    <3>2. fd[p] \in Fd /\ [fd[p] EXCEPT ![pipe[p]] = fifo[pipe[p]]] \in Fd
      BY <3>1 DEF Fd
    <3>3. fd' \in {fd, [fd EXCEPT ![p] =
                          [fd[p] EXCEPT ![pipe[p]] = fifo[pipe[p]]]]}
      BY <1>4 DEF OpenFifo
    <3> QED BY <3>2, <3>3
  <2>3. woken' \subseteq Pid \cup Client
    BY <1>4 DEF OpenFifo, Meet
  <2>4. pipe' \in [Pid -> Pipe]
    BY <1>4 DEF OpenFifo, Pipe
  <2> QED BY <1>4, <2>1, <2>2, <2>3, <2>4 DEF OpenFifo, Serving, Quitting
<1>5. CASE Quit(p)
  <2>1. LockTypeOK'
    <3>1. \/ file' = NoFile /\ lpc' = [lpc EXCEPT ![p] = "idle"]
          \/ UNCHANGED <<file, lpc>>
      BY <1>5 DEF Quit, lockVars, Goto
    <3>2. NoFile \in [by : Pid \cup {NoPid}, named : BOOLEAN] /\ ~NoFile.named
      BY DEF NoFile
    <3>3. seen' = seen /\ dead' \in {dead, dead \cup {p}}
      BY <1>5 DEF Quit, lockVars
    <3> QED BY <3>1, <3>2, <3>3 DEF LockTypeOK
  <2>2. fd' \in [Pid -> Fd]
    <3>1. NoFd \in Fd /\ fd' \in {fd, [fd EXCEPT ![p] = NoFd]}
      BY <1>5 DEF Quit, NoFd, Fd
    <3> QED BY <3>1
  <2>3. fifo' \in Fd
    BY <1>5 DEF Quit, Fd
  <2> QED BY <1>5, <2>1, <2>2, <2>3 DEF Quit, Quitting
<1>6. CASE Stop(p)
  BY <1>6 DEF Stop, lockVars, LockTypeOK, Quitting
<1>7. CASE Crash(p)
  <2>1. fd' \in [Pid -> Fd]
    BY <1>7 DEF Crash, Fd, NoFd
  <2> QED BY <1>7, <2>1 DEF Crash, LockTypeOK
<1> QED BY <1>1, <1>2, <1>3, <1>4, <1>5, <1>6, <1>7 DEF Daemon

(* A step of a client keeps the types. *)
LEMMA ClientTypes ==
  ASSUME TypeOK, NEW c \in Client,
         ClientOpen(c) \/ ClientOpened(c) \/ ClientClose(c)
  PROVE  TypeOK'
<1> USE DEF TypeOK, dVars
<1>1. LockTypeOK' /\ UNCHANGED <<dpc, pipe, fifo, fd>>
  BY DEF ClientOpen, ClientOpened, ClientClose, lockVars, LockTypeOK
<1>2. cfd' \in [Client -> Fd]
  BY DEF ClientOpen, ClientOpened, ClientClose, OpenEnd, Fd, NoFd, Pipe
<1>3. cpc' \in [Client -> {"idle", "opensend", "openrecv", "ready"}]
  BY DEF ClientOpen, ClientOpened, ClientClose, OpenEnd
<1>4. woken' \subseteq Pid \cup Client
  BY DEF ClientOpen, ClientOpened, ClientClose, OpenEnd, Meet
<1>5. \A d \in Client : cpc'[d] # "idle" => cfd'[d]["send"] # NoPid
  <2>1. CASE ClientOpen(c)
    BY <2>1 DEF ClientOpen, OpenEnd, Fd, Pipe
  <2>2. CASE ClientOpened(c)
    BY <2>2 DEF ClientOpened, OpenEnd, Fd, Pipe
  <2>3. CASE ClientClose(c)
    BY <2>3 DEF ClientClose
  <2> QED BY <2>1, <2>2, <2>3
<1> QED BY <1>1, <1>2, <1>3, <1>4, <1>5

LEMMA NextTypes ==
  ASSUME TypeOK, [Next]_vars
  PROVE  TypeOK'
<1>1. CASE UNCHANGED vars
  BY <1>1 DEF vars, lockVars, dVars, cVars, TypeOK, LockTypeOK
<1> QED BY <1>1, DaemonTypes, ClientTypes DEF Next

(* Every variable keeps its type, overlapping starts or not. *)
THEOREM DaemonTypeCorrect == Spec => []TypeOK
<1>1. TypeOK /\ [Next]_vars => TypeOK'
  BY NextTypes
<1> QED BY <1>1, InitTypes, PTL DEF Spec
-----------------------------------------------------------------------------
LEMMA InitInv == Init => DaemonInv
BY DEF Init, LockInit, DaemonInv, NamesLead, Serving

(* Without overlap a daemon starts only when the lock names no live one. *)
LEMMA StartInv ==
  ASSUME TypeOK, DaemonInv, ~Overlap, NEW p \in Pid, Start(p)
  PROVE  DaemonInv'
<1> USE DEF DaemonInv, At, Step, Exit, Goto, TypeOK, LockTypeOK
<1>1. CASE Exit(p) /\ UNCHANGED <<dpc, lpc>>
  <2>1. UNCHANGED <<file, pipe, fifo>> /\ Pid \ dead' \subseteq Pid \ dead
    BY <1>1 DEF Start
  <2>2. NamesLead'
    BY <1>1, <2>1 DEF NamesLead
  <2> QED BY <1>1, <2>1, <2>2
<1>2. CASE ~Exit(p)
  <2>1. /\ ~Alive \/ ~file.named
        /\ dpc' = [dpc EXCEPT ![p] = "lock"]
        /\ lpc' = [lpc EXCEPT ![p] = "create"]
        /\ UNCHANGED <<file, dead, pipe, fifo>>
        /\ p \notin dead /\ dpc[p] = "none"
        /\ \A q \in Pid \ dead : dpc[q] \in {"none", "await", "run"}
    BY <1>2 DEF Start
  <2>2. \A q \in Pid \ dead : lpc[q] # "held"
    BY <2>1, PidAssumption DEF Alive, NoFile
  <2>3. \A q \in Pid \ dead : dpc[q] = "none" /\ lpc[q] = "idle"
    BY <2>1, <2>2 DEF Serving
  <2>4. \A q \in Pid \ dead : /\ dpc'[q] = IF q = p THEN "lock" ELSE "none"
                              /\ lpc'[q] = IF q = p THEN "create" ELSE "idle"
    BY <2>1, <2>3
  <2>5. NamesLead'
    BY <2>1, <2>4 DEF NamesLead
  <2> QED BY <2>1, <2>4, <2>5 DEF Serving
<1> QED BY <1>1, <1>2 DEF Start

(* The attempt at the lock: the other live processes are not daemons yet. *)
LEMMA LockStepInv ==
  ASSUME TypeOK, DaemonInv, NEW p \in Pid, DaemonLock(p)
  PROVE  DaemonInv'
<1> USE DEF DaemonInv, At, Step, Exit, Goto, TypeOK, LockTypeOK
<1>1. /\ p \notin dead /\ dpc[p] = "lock" /\ UNCHANGED <<pipe, fifo>>
      /\ \A q \in Pid \ dead : q # p => dpc[q] = "none" /\ lpc[q] = "idle"
  BY DEF DaemonLock
<1>2. CASE Lock(p) /\ UNCHANGED dpc
  <2>1. dead' = dead /\ \A q \in Pid : q # p => lpc'[q] = lpc[q]
    BY <1>2 DEF Lock, Create, ReadPid, Judge, Steal, WritePid
  <2>2. lpc'[p] = "write" => file'.by = p
    BY <1>2 DEF Lock, Create, ReadPid, Judge, Steal, WritePid
  <2>3. lpc'[p] = "held" => file' = [by |-> p, named |-> TRUE]
    <3>1. CASE ReadPid(p)
      BY <3>1 DEF ReadPid
    <3>2. CASE WritePid(p)
      BY <1>1, <3>2 DEF WritePid
    <3> QED BY <1>2, <3>1, <3>2 DEF Lock, Create, Judge, Steal
  <2>4. NamesLead'
    BY <1>1, <1>2, <2>1 DEF NamesLead
  <2> QED BY <1>1, <1>2, <2>1, <2>2, <2>3, <2>4 DEF Serving
<1>3. CASE lpc[p] = "held" /\ dpc' = [dpc EXCEPT ![p] = "mkfifo"]
           /\ UNCHANGED lockVars
  <2>1. NamesLead'
    BY <1>1, <1>3 DEF NamesLead, lockVars
  <2> QED BY <1>1, <1>3, <2>1 DEF lockVars, Serving
<1>4. CASE Exit(p) /\ UNCHANGED <<file, lpc, seen, dpc>>
  <2>1. NamesLead'
    BY <1>1, <1>4 DEF NamesLead
  <2> QED BY <1>1, <1>4, <2>1
<1> QED BY <1>2, <1>3, <1>4 DEF DaemonLock

LEMMA MakeFifoInv ==
  ASSUME TypeOK, DaemonInv, NEW p \in Pid, MakeFifo(p)
  PROVE  DaemonInv'
<1> USE DEF DaemonInv, At, Step, TypeOK, LockTypeOK, Serving
<1>1. /\ p \notin dead /\ UNCHANGED <<file, lpc, dead>> /\ lpc[p] = "held"
      /\ dpc[p] \in {"mkfifo", "unlink", "again"}
      /\ \A q \in Pid \ dead : q # p => dpc[q] = "none"
      /\ \A q \in Pid : q # p => dpc'[q] = dpc[q] /\ pipe'[q] = pipe[q]
      /\ dpc'[p] \in {"mkfifo", "unlink", "again", "open", "quit"}
  BY DEF MakeFifo, lockVars
<1>2. pipe[p] \in Pipe /\ pipe' \in [Pid -> Pipe]
  BY DEF MakeFifo, Pipe
<1>3. dpc'[p] \in {"mkfifo", "unlink", "again"} /\ pipe'[p] = "recv" =>
        fifo'["send"] = p
  BY <1>1, <1>2 DEF MakeFifo, Pipe, Fd
<1>4. dpc'[p] = "open" => \A w \in Pipe : fifo'[w] = p
  BY <1>1, <1>2 DEF MakeFifo, Pipe, Fd
<1>5. NamesLead'
  BY <1>1, <1>4 DEF NamesLead
<1> QED BY <1>1, <1>3, <1>5

(* The names are left alone while the FIFOs are opened. *)
LEMMA OpenFifoInv ==
  ASSUME TypeOK, DaemonInv, NEW p \in Pid, OpenFifo(p) \/ Stop(p)
  PROVE  DaemonInv'
<1> USE DEF DaemonInv, At, Step, TypeOK, LockTypeOK
<1>1. /\ p \notin dead /\ UNCHANGED <<file, lpc, dead, fifo>> /\ lpc[p] = "held"
      /\ dpc[p] \in {"open", "await", "run"}
      /\ \A q \in Pid : q # p => dpc'[q] = dpc[q] /\ pipe'[q] = pipe[q]
      /\ dpc'[p] \in {"open", "await", "run", "quit"}
  BY DEF OpenFifo, Stop, lockVars, Serving
<1>2. NamesLead'
  BY <1>1 DEF NamesLead
<1> QED BY <1>1, <1>2 DEF Serving

LEMMA QuitInv ==
  ASSUME TypeOK, DaemonInv, NEW p \in Pid, Quit(p)
  PROVE  DaemonInv'
<1> USE DEF DaemonInv, At, Step, Exit, TypeOK, LockTypeOK
<1>1. /\ p \notin dead /\ dpc[p] \in Quitting
      /\ dpc'[p] \in Quitting
      /\ \A q \in Pid \ dead : q # p => dpc[q] = "none" /\ lpc[q] = "idle"
      /\ \A q \in Pid : q # p => dpc'[q] = dpc[q] /\ lpc'[q] = lpc[q]
      /\ UNCHANGED pipe /\ dead' \in {dead, dead \cup {p}}
  BY DEF Quit, Quitting, Goto, lockVars
<1>2. NamesLead'
  BY <1>1 DEF NamesLead, Quitting
<1>3. dpc'[p] = "quit" => FALSE
  BY DEF Quit
<1>4. p \notin dead' => \/ lpc'[p] = "idle"
                        \/ lpc'[p] = lpc[p] /\ file' = file
  BY DEF Quit, Goto, lockVars
<1> QED BY <1>1, <1>2, <1>3, <1>4 DEF Quitting, Serving

LEMMA CrashInv ==
  ASSUME TypeOK, DaemonInv, NEW p \in Pid, Crash(p)
  PROVE  DaemonInv'
<1>1. /\ UNCHANGED <<file, lpc, dpc, pipe, fifo>>
      /\ Pid \ dead' \subseteq Pid \ dead
  BY DEF Crash, Exit
<1>2. NamesLead'
  BY <1>1 DEF NamesLead, DaemonInv
<1> QED BY <1>1, <1>2 DEF DaemonInv

LEMMA NextInv ==
  ASSUME ~Overlap, TypeOK, DaemonInv, [Next]_vars
  PROVE  DaemonInv'
<1>1. ASSUME UNCHANGED <<lockVars, dVars, fifo>>  PROVE DaemonInv'
  BY <1>1 DEF lockVars, dVars, DaemonInv, NamesLead
<1>2. ASSUME NEW c \in Client,
             ClientOpen(c) \/ ClientOpened(c) \/ ClientClose(c)
      PROVE  DaemonInv'
  BY <1>1, <1>2 DEF ClientOpen, ClientOpened, ClientClose
<1>3. CASE UNCHANGED vars
  BY <1>1, <1>3 DEF vars
<1> QED
  BY <1>2, <1>3, StartInv, LockStepInv, MakeFifoInv, OpenFifoInv, QuitInv,
     CrashInv DEF Next, Daemon

(* The invariant that both theorems below rest on.                         *)
LEMMA InvHolds ==
  ASSUME ~Overlap
  PROVE  Spec => [](TypeOK /\ DaemonInv)
<1>1. Init => TypeOK /\ DaemonInv
  BY InitTypes, InitInv
<1>2. (TypeOK /\ DaemonInv) /\ [Next]_vars => (TypeOK /\ DaemonInv)'
  BY NextTypes, NextInv
<1> QED BY <1>1, <1>2, PTL DEF Spec

(* As long as starts do not overlap, whatever is killed and whatever lock  *)
(* and FIFOs it leaves behind: at most one daemon serves ...               *)
THEOREM OneDaemonHolds ==
  ASSUME ~Overlap
  PROVE  Spec => []OneDaemon
<1>1. DaemonInv => OneDaemon
  BY DEF DaemonInv, OneDaemon, Serving
<1> QED BY <1>1, InvHolds, PTL

(* ... and the names of both FIFOs lead to the one that serves.            *)
THEOREM NamesLeadHolds ==
  ASSUME ~Overlap
  PROVE  Spec => []NamesLead
<1>1. DaemonInv => NamesLead
  BY DEF DaemonInv
<1> QED BY <1>1, InvHolds, PTL
=============================================================================
