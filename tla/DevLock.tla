------------------------------ MODULE DevLock ------------------------------
(***************************************************************************)
(* Several xmcd and cda processes on one CD-ROM device: each takes the     *)
(* lock of di_devlock before it opens the device, polls when it is         *)
(* refused, and gives the lock up when it halts.                           *)
(***************************************************************************)
EXTENDS PidLock

FaultKind == {"quit",    \* a process shuts down
              "crash",   \* a process is killed, but not ...
              "blank",   \* ... between creating the lock and naming it
              "node"}    \* the device node comes and goes
Setting == [overlap : BOOLEAN,   \* attempts of several processes may overlap
            faults : SUBSET FaultKind]

CONSTANT Settings
ASSUME SettingsAssumption == Settings \subseteq Setting

VARIABLES
  locked,   \* s->devlocked
  named,    \* di_devlock has stored the lock file's path
  opened,   \* the processes that have the device open
  node,     \* the device node is there
  env       \* what may happen: chosen at first

devVars == <<locked, named, opened, node, env>>
allVars == <<lockVars, devVars>>

DevTypeOK ==
  /\ LockTypeOK
  /\ locked \subseteq Pid /\ named \subseteq Pid /\ opened \subseteq Pid
  /\ node \in BOOLEAN /\ env \in Setting

DevInit ==
  /\ LockInit
  /\ locked = {} /\ named = {} /\ opened = {} /\ node = TRUE
  /\ env \in Settings

MayTry == env.overlap \/ Trying = {}

AtRest(p) == p \notin dead /\ lpc[p] \notin Attempt

(* slioc_disc_ready with the device not open, called by the poll of        *)
(* slioc_insert_poll, and di_devlock as far as its stat of the device: a   *)
(* missing node counts as locked.                                          *)
DiscReady(p) ==
  /\ AtRest(p) /\ p \notin opened \cup locked /\ lpc[p] # "held"
  /\ \/ /\ node /\ MayTry
        /\ Goto(p, "create") /\ named' = named \cup {p}
        /\ UNCHANGED locked
     \/ /\ ~node
        /\ locked' = locked \cup {p}
        /\ UNCHANGED <<lpc, named>>
  /\ UNCHANGED <<file, seen, dead, opened, node, env>>

DevLockStep(p) == Lock(p) /\ UNCHANGED devVars

(* The lock was granted: the device is opened, if there is a disc. *)
Open(p) ==
  /\ AtRest(p) /\ p \notin opened
  /\ lpc[p] = "held" \/ p \in locked
  /\ locked' = locked \cup {p}
  /\ \/ node /\ opened' = opened \cup {p}
     \/ UNCHANGED opened
  /\ UNCHANGED <<lockVars, named, node, env>>

(* No disc, or it was ejected; the lock is kept. *)
Close(p) ==
  /\ AtRest(p) /\ p \in opened
  /\ opened' = opened \ {p}
  /\ UNCHANGED <<lockVars, locked, named, node, env>>

(* di_halt, with di_devunlock. *)
Halt(p) ==
  /\ "quit" \in env.faults /\ AtRest(p) /\ (lpc[p] = "held" => p \in locked)
  /\ file' = IF p \in named \cap locked THEN NoFile ELSE file
  /\ dead' = dead \cup {p}
  /\ opened' = opened \ {p}
  /\ UNCHANGED <<lpc, seen, locked, named, node, env>>

Kill(p) ==
  /\ "crash" \in env.faults /\ p \notin dead
  /\ lpc[p] = "write" => "blank" \in env.faults
  /\ dead' = dead \cup {p}
  /\ opened' = opened \ {p}
  /\ UNCHANGED <<file, lpc, seen, locked, named, node, env>>

NodeChange ==
  /\ "node" \in env.faults
  /\ node' = ~node
  /\ UNCHANGED <<lockVars, locked, named, opened, env>>

DevNext ==
  \/ \E p \in Pid : \/ DiscReady(p) \/ DevLockStep(p) \/ Open(p) \/ Close(p)
                    \/ Halt(p) \/ Kill(p)
  \/ NodeChange

DevSpec == DevInit /\ [][DevNext]_allVars

(* A process that was refused keeps polling, and finishes its attempts. *)
DevFairSpec ==
  /\ DevSpec
  /\ \A p \in Pid : WF_allVars(DiscReady(p) \/ DevLockStep(p) \/ Open(p))
-----------------------------------------------------------------------------
(* The circumstances under which the lock is sound: the node stays, and no *)
(* attempt overlaps the end of a process or, once one has ended, another.  *)
Sound ==
  /\ "node" \notin env.faults
  /\ env.overlap => env.faults \cap {"quit", "crash"} = {}

(* Two processes never have the device open at once. *)
Exclusive == Sound => \A p, q \in opened : p = q

(* Why: a process that has the device open is alive and has been granted a *)
(* lock that is still its own.                                             *)
LockKept ==
  /\ LockInv(env.overlap)
  /\ node
  /\ opened \subseteq locked \ dead
  /\ \A p \in locked \ dead : lpc[p] = "held"
  /\ env.overlap => dead = {}
DevInv == Sound => LockKept

(* A lock whose owner is dead is no obstacle: the last process left gets   *)
(* the device's lock, or ends, whatever the others have left behind, but   *)
(* for a file that never got to name anybody.                              *)
TakenOver ==
  \A p \in Pid :
    (Pid \ dead = {p} /\ "blank" \notin env.faults) ~> p \in locked \cup dead
=============================================================================
