----------------------------- MODULE CdaDaemon -----------------------------
(***************************************************************************)
(* The start and the end of cda daemons for one drive, and clients opening *)
(* their FIFOs.  A FIFO is known by the daemon that created it; its name   *)
(* in the file system may lead to another one, or to none.                 *)
(***************************************************************************)
EXTENDS PidLock

CONSTANTS
  Client,
  Overlap,   \* may the starts of several daemons overlap?
  Faults     \* daemons may be killed ("crash")
ASSUME OverlapAssumption == Overlap \in BOOLEAN
ASSUME FaultsAssumption == Faults \subseteq {"crash"}

VARIABLES
  dpc,    \* where each daemon is
  pipe,   \* the FIFO, send or recv, it is working on
  fifo,   \* where the names of the two FIFOs lead
  fd,     \* the FIFOs each daemon has open
  cpc,    \* where each client is
  cfd,    \* the FIFOs each client has open
  woken   \* those whose open of a FIFO can return

dVars   == <<dpc, pipe, fd>>
cVars   == <<cpc, cfd>>
vars    == <<lockVars, dVars, fifo, cVars, woken>>

Pipe    == {"send", "recv"}
NoFd    == [w \in Pipe |-> NoPid]
Fd      == [Pipe -> Pid \cup {NoPid}]

(* With isdaemon set and the lock not yet given up. *)
Serving == {"mkfifo", "unlink", "again", "open", "await", "run"}
Quitting == {"quit", "close", "rmsend", "rmrecv", "halt"}

TypeOK ==
  /\ LockTypeOK
  /\ dpc \in [Pid -> {"none", "alive", "lock"} \cup Serving \cup Quitting]
  /\ pipe \in [Pid -> Pipe]
  /\ fifo \in Fd
  /\ fd \in [Pid -> Fd]
  /\ cpc \in [Client -> {"idle", "opensend", "openrecv", "ready"}]
  /\ cfd \in [Client -> Fd]
  /\ woken \subseteq Pid \cup Client
  /\ \A c \in Client : cpc[c] # "idle" => cfd[c]["send"] # NoPid

Init ==
  /\ LockInit
  /\ dpc = [p \in Pid |-> "none"] /\ pipe = [p \in Pid |-> "send"]
  /\ fifo = NoFd /\ fd = [p \in Pid |-> NoFd]
  /\ cpc = [c \in Client |-> "idle"] /\ cfd = [c \in Client |-> NoFd]
  /\ woken = {}

At(p, l)    == p \notin dead /\ dpc[p] = l
Step(p, l)  == dpc' = [dpc EXCEPT ![p] = l]
Exit(p)     == dead' = dead \cup {p}

(* The ends of the FIFO i that are open, or being opened. *)
DaemonEnds(w, i) == {p \in Pid \ dead : fd[p][w] = i}
ClientEnds(w, i) == {c \in Client : cfd[c][w] = i}

(* The open of x waits for an open of the other end, even one that closes  *)
(* again, and ends the wait of those at the other end.                     *)
Meet(x, others, waiting) ==
  woken' = (woken \ {x}) \cup (others \cap waiting)
                         \cup (IF others = {} THEN {} ELSE {x})
-----------------------------------------------------------------------------
(* cda_daemon of the parent: is a daemon alive?  The buffer read from an   *)
(* empty lock file is uninitialised, so it may name one.                   *)
Alive == file # NoFile /\ (file.named => file.by \notin dead)

(* Mutant: the process that finds a daemon alive cleans up after it. *)
StartQuits(p) ==
  /\ At(p, "none")
  /\ Overlap \/ \A q \in Pid \ dead : dpc[q] \in {"none", "await", "run"}
  /\ \/ /\ Alive /\ Exit(p) /\ file' = NoFile /\ fifo' = NoFd
        /\ UNCHANGED <<dpc, lpc>>
     \/ /\ ~Alive \/ ~file.named
        /\ Step(p, "lock") /\ Goto(p, "create")
        /\ UNCHANGED <<dead, file, fifo>>
  /\ UNCHANGED <<seen, pipe, fd, cVars, woken>>

(* Without Overlap, no daemon is started while another starts or quits. *)
Start(p) ==
  /\ At(p, "none")
  /\ Overlap \/ \A q \in Pid \ dead : dpc[q] \in {"none", "await", "run"}
  /\ \/ Alive /\ Exit(p) /\ UNCHANGED <<dpc, lpc>>
     \/ /\ ~Alive \/ ~file.named
        /\ Step(p, "lock") /\ Goto(p, "create")
        /\ UNCHANGED dead
  /\ UNCHANGED <<file, seen, pipe, fifo, fd, cVars, woken>>

DaemonLock(p) ==
  /\ At(p, "lock")
  /\ \/ Lock(p) /\ UNCHANGED dpc
     \/ lpc[p] = "held" /\ Step(p, "mkfifo") /\ UNCHANGED lockVars
     \/ lpc[p] = "refused" /\ Exit(p) /\ UNCHANGED <<file, lpc, seen, dpc>>
  /\ UNCHANGED <<pipe, fifo, fd, cVars, woken>>

(* Mutant: an old FIFO is kept. *)
MakeFifoKeeps(p) ==
  LET w == pipe[p] IN
  /\ dpc[p] \in {"mkfifo", "unlink", "again"} /\ p \notin dead
  /\ fifo' = IF fifo[w] = NoPid THEN [fifo EXCEPT ![w] = p] ELSE fifo
  /\ pipe' = [pipe EXCEPT ![p] = IF w = "send" THEN "recv" ELSE "send"]
  /\ Step(p, IF w = "send" THEN "mkfifo" ELSE "open")
  /\ UNCHANGED <<lockVars, fd, cVars, woken>>

(* MKFIFO, and for an old FIFO UNLINK and MKFIFO again. *)
MakeFifo(p) ==
  LET w == pipe[p] IN
  /\ \/ /\ At(p, "mkfifo") \/ At(p, "again")
        /\ fifo[w] = NoPid
        /\ fifo' = [fifo EXCEPT ![w] = p]
        /\ pipe' = [pipe EXCEPT ![p] = IF w = "send" THEN "recv" ELSE "send"]
        /\ Step(p, IF w = "send" THEN "mkfifo" ELSE "open")
     \/ /\ At(p, "mkfifo") /\ fifo[w] # NoPid
        /\ Step(p, "unlink") /\ UNCHANGED <<fifo, pipe>>
     \/ /\ At(p, "unlink") /\ fifo[w] # NoPid
        /\ fifo' = [fifo EXCEPT ![w] = NoPid]
        /\ Step(p, "again") /\ UNCHANGED pipe
     \/ /\ \/ At(p, "unlink") /\ fifo[w] = NoPid
           \/ At(p, "again") /\ fifo[w] # NoPid
        /\ Step(p, "quit") /\ UNCHANGED <<fifo, pipe>>
  /\ UNCHANGED <<lockVars, fd, cVars, woken>>

(* cda_start. *)
OpenFifo(p) ==
  LET w == pipe[p]
      l == IF w = "send" THEN "opensend" ELSE "openrecv" IN
  /\ \/ /\ At(p, "open") /\ fifo[w] = NoPid
        /\ Step(p, "quit")
        /\ UNCHANGED <<pipe, fd, woken>>
     \/ /\ At(p, "open") /\ fifo[w] # NoPid
        /\ fd' = [fd EXCEPT ![p][w] = fifo[w]]
        /\ Meet(p, ClientEnds(w, fifo[w]), {c \in Client : cpc[c] = l})
        /\ Step(p, "await")
        /\ UNCHANGED pipe
     \/ /\ At(p, "await") /\ p \in woken
        /\ woken' = woken \ {p}
        /\ pipe' = [pipe EXCEPT ![p] = "recv"]
        /\ Step(p, IF w = "send" THEN "open" ELSE "run")
        /\ UNCHANGED fd
  /\ UNCHANGED <<lockVars, fifo, cVars>>

(* The off command, or any of the reasons to call cda_quit. *)
Stop(p) ==
  /\ At(p, "run") /\ Step(p, "quit")
  /\ UNCHANGED <<lockVars, pipe, fifo, fd, cVars, woken>>

(* cda_quit: the lock, the descriptors and the names go, in this order,    *)
(* before the drive is halted.                                             *)
Quit(p) ==
  /\ \/ /\ At(p, "quit")
        /\ file' = NoFile /\ Goto(p, "idle") /\ Step(p, "close")
        /\ UNCHANGED <<seen, dead, fifo, fd>>
     \/ /\ At(p, "close")
        /\ fd' = [fd EXCEPT ![p] = NoFd] /\ Step(p, "rmsend")
        /\ UNCHANGED <<lockVars, fifo>>
     \/ /\ At(p, "rmsend")
        /\ fifo' = [fifo EXCEPT !["send"] = NoPid] /\ Step(p, "rmrecv")
        /\ UNCHANGED <<lockVars, fd>>
     \/ /\ At(p, "rmrecv")
        /\ fifo' = [fifo EXCEPT !["recv"] = NoPid] /\ Step(p, "halt")
        /\ UNCHANGED <<lockVars, fd>>
     \/ /\ At(p, "halt") /\ Exit(p)
        /\ UNCHANGED <<file, lpc, seen, dpc, fifo, fd>>
  /\ UNCHANGED <<pipe, cVars, woken>>

Crash(p) ==
  /\ "crash" \in Faults /\ p \notin dead /\ dpc[p] # "none"
  /\ Exit(p) /\ fd' = [fd EXCEPT ![p] = NoFd]
  /\ UNCHANGED <<file, lpc, seen, dpc, pipe, fifo, cVars, woken>>

Daemon(p) ==
  \/ DaemonLock(p) \/ MakeFifo(p) \/ OpenFifo(p) \/ Quit(p)
-----------------------------------------------------------------------------
(* A client opens a FIFO by its name. *)
OpenEnd(c, w, l) ==
  /\ cfd' = [cfd EXCEPT ![c][w] = fifo[w]]
  /\ cpc' = [cpc EXCEPT ![c] = l]
  /\ Meet(c, DaemonEnds(w, fifo[w]),
          {p \in Pid : dpc[p] = "await" /\ pipe[p] = w})

(* Without the name it gives up. *)
ClientOpen(c) ==
  /\ cpc[c] = "idle" /\ fifo["send"] # NoPid
  /\ OpenEnd(c, "send", "opensend")
  /\ UNCHANGED <<lockVars, dVars, fifo>>

(* The response FIFO is opened for reading and then for writing, which     *)
(* does not wait.                                                          *)
ClientOpened(c) ==
  /\ c \in woken
  /\ \/ /\ cpc[c] = "opensend" /\ fifo["recv"] # NoPid
        /\ OpenEnd(c, "recv", "openrecv")
     \/ /\ cpc[c] = "opensend" /\ fifo["recv"] = NoPid
        /\ cfd' = [cfd EXCEPT ![c] = NoFd]
        /\ cpc' = [cpc EXCEPT ![c] = "idle"]
        /\ woken' = woken \ {c}
     \/ /\ cpc[c] = "openrecv"
        /\ cpc' = [cpc EXCEPT ![c] = "ready"]
        /\ woken' = woken \ {c}
        /\ UNCHANGED cfd
  /\ UNCHANGED <<lockVars, dVars, fifo>>

ClientClose(c) ==
  /\ cpc[c] = "ready"
  /\ cpc' = [cpc EXCEPT ![c] = "idle"] /\ cfd' = [cfd EXCEPT ![c] = NoFd]
  /\ UNCHANGED <<lockVars, dVars, fifo, woken>>

Next ==
  \/ \E p \in Pid : Start(p) \/ Daemon(p) \/ Stop(p) \/ Crash(p)
  \/ \E c \in Client : ClientOpen(c) \/ ClientOpened(c) \/ ClientClose(c)

Spec == Init /\ [][Next]_vars

(* Daemons go on with what they do, and an open returns when it can. *)
FairSpec ==
  /\ Spec
  /\ \A p \in Pid : WF_vars(Daemon(p))
  /\ \A c \in Client : WF_vars(ClientOpened(c))
-----------------------------------------------------------------------------
(* At most one daemon serves the drive. *)
OneDaemon ==
  \A p, q \in Pid \ dead :
    dpc[p] \in Serving /\ dpc[q] \in Serving => p = q

(* The FIFO names lead to the daemon that serves: it was not left without  *)
(* them by another that quits.                                             *)
NamesLead ==
  \A p \in Pid \ dead :
    dpc[p] \in {"open", "await", "run"} => \A w \in Pipe : fifo[w] = p

(* Why, when starts do not overlap: a daemon is alone from its start to    *)
(* its end, its lock names it as long as it serves, and the FIFO it has    *)
(* made first is there while it makes the second.                          *)
DaemonInv ==
  /\ \A p, q \in Pid \ dead : dpc[p] # "none" /\ dpc[q] # "none" => p = q
  /\ \A p \in Pid \ dead :
       /\ dpc[p] = "none" => lpc[p] = "idle"
       /\ dpc[p] \in {"none", "lock"} => pipe[p] = "send"
       /\ lpc[p] = "write" => file.by = p
       /\ lpc[p] = "held" => file = [by |-> p, named |-> TRUE]
       /\ dpc[p] \in Serving \cup {"quit"} => lpc[p] = "held"
       /\ dpc[p] \in {"mkfifo", "unlink", "again"} /\ pipe[p] = "recv" =>
            fifo["send"] = p
  /\ NamesLead

(* A client that has found the FIFOs gets through to a daemon, or gives up.*)
ClientOpens ==
  \A c \in Client : cpc[c] = "opensend" ~> cpc[c] \in {"ready", "idle"}
=============================================================================
