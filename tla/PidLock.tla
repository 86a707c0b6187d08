------------------------------ MODULE PidLock ------------------------------
(***************************************************************************)
(* The lock file of xmcd and cda, as di_devlock and cda_daemonlock make    *)
(* it: created exclusively, then given the pid of its creator; a lock that *)
(* names a dead process is unlinked, by name, and the attempt starts over. *)
(***************************************************************************)
EXTENDS Naturals, FiniteSets

CONSTANTS
  Pid,      \* the processes; a pid is not used again
  NoPid

ASSUME PidAssumption == NoPid \notin Pid

VARIABLES
  file,   \* the lock file: who created it, and whether it names him yet
  lpc,    \* where each process is in its attempt
  seen,   \* the pid it has read from another's file
  dead    \* the processes that have ended

lockVars == <<file, lpc, seen, dead>>

NoFile == [by |-> NoPid, named |-> FALSE]

Attempt == {"create", "read", "judge", "steal", "write"}
Trying  == {p \in Pid \ dead : lpc[p] \in Attempt}

LockTypeOK ==
  /\ file \in [by : Pid \cup {NoPid}, named : BOOLEAN]
  /\ lpc \in [Pid -> Attempt \cup {"idle", "held", "refused"}]
  /\ seen \in [Pid -> Pid \cup {NoPid}]
  /\ dead \subseteq Pid
  /\ file.named => file.by \in Pid

LockInit ==
  /\ file = NoFile
  /\ lpc = [p \in Pid |-> "idle"]
  /\ seen = [p \in Pid |-> NoPid]
  /\ dead = {}

Goto(p, l) == lpc' = [lpc EXCEPT ![p] = l]

(* Mutant: without O_EXCL. *)
CreateShared(p) ==
  /\ lpc[p] = "create"
  /\ file' = [by |-> p, named |-> FALSE]
  /\ Goto(p, "write")
  /\ UNCHANGED <<seen, dead>>

(* open with O_CREAT and O_EXCL. *)
Create(p) ==
  /\ lpc[p] = "create"
  /\ \/ /\ file = NoFile
        /\ file' = [by |-> p, named |-> FALSE]
        /\ Goto(p, "write")
     \/ file # NoFile /\ Goto(p, "read") /\ UNCHANGED file
  /\ UNCHANGED <<seen, dead>>

(* The file may be gone, or not name anybody yet: the attempt fails. *)
ReadPid(p) ==
  /\ lpc[p] = "read"
  /\ \/ ~file.named /\ Goto(p, "refused") /\ UNCHANGED seen
     \/ file.named /\ file.by = p /\ Goto(p, "held") /\ UNCHANGED seen
     \/ /\ file.named /\ file.by # p
        /\ seen' = [seen EXCEPT ![p] = file.by]
        /\ Goto(p, "judge")
  /\ UNCHANGED <<file, dead>>

(* Mutant: a lock is never taken over. *)
JudgeNever(p) ==
  /\ lpc[p] = "judge" /\ Goto(p, "refused")
  /\ UNCHANGED <<file, seen, dead>>

(* kill(pid, 0). *)
Judge(p) ==
  /\ lpc[p] = "judge"
  /\ Goto(p, IF seen[p] \in dead THEN "steal" ELSE "refused")
  /\ UNCHANGED <<file, seen, dead>>

(* Whatever file bears the name by now. *)
Steal(p) ==
  /\ lpc[p] = "steal"
  /\ file' = NoFile /\ Goto(p, "create")
  /\ UNCHANGED <<seen, dead>>

(* Through the descriptor: lost when the file has been unlinked. *)
WritePid(p) ==
  /\ lpc[p] = "write"
  /\ file' = IF file.by = p THEN [file EXCEPT !.named = TRUE] ELSE file
  /\ Goto(p, "held")
  /\ UNCHANGED <<seen, dead>>

Lock(p) ==
  /\ p \notin dead
  /\ Create(p) \/ ReadPid(p) \/ Judge(p) \/ Steal(p) \/ WritePid(p)
-----------------------------------------------------------------------------
(* A live process that has created the lock finds itself in the file. *)
Owns == \A p \in Pid \ dead : lpc[p] \in {"write", "held"} => file.by = p

(* While nobody has ended, no lock looks stale. *)
NoTheft == dead = {} => \A p \in Pid : lpc[p] # "steal"

(* When attempts do not overlap, the file stays what it was when read, or  *)
(* is gone: what is judged dead is what is unlinked.                       *)
OneTrying == \A p, q \in Trying : p = q
SeenStays ==
  \A p \in Trying :
    /\ lpc[p] = "judge" => file.by \in {seen[p], NoPid}
    /\ lpc[p] = "steal" => file.by \in dead \cup {NoPid}

(* What the lock relies on: nobody takes over a lock in the middle of      *)
(* another's attempt, where attempts do not overlap.                       *)
LockInv(overlap) == Owns /\ NoTheft /\ (~overlap => OneTrying /\ SeenStays)
=============================================================================
