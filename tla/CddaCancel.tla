----------------------------- MODULE CddaCancel -----------------------------
(***************************************************************************)
(* What cdda_kill does to its target.  A pthreads cancel request waits for *)
(* a cancellation point, and then runs cdda_pthr_unblock and the done      *)
(* function as cleanup handlers; a SIGTERM runs cdda_sysvipc_rsig or       *)
(* cdda_sysvipc_wsig at once, which end the process.                       *)
(***************************************************************************)
EXTENDS CddaState

(* Blocking calls at which a request takes effect, pthread_cond_wait       *)
(* aside.  The reader's device read may or may not be one of them.         *)
AtIO(t) ==
  \/ pc[t] \in {"fill_read", "read", "open", "write"}
  \/ pc[t] = "paused" /\ state = "PAUSED"

(* A thread cancelled in pthread_cond_wait locks the mutex again before    *)
(* its cleanup handlers run.                                               *)
CancelAsleep(t) ==
  LET m == SemAt(pc[t]) IN
  /\ CddaMethod = "pthreads"
  /\ t \in pending \cap asleep /\ owner[m] = NoThread
  /\ owner' = [owner EXCEPT ![m] = t]
  /\ asleep' = asleep \ {t}
  /\ Goto(t, "ub_lock")
  /\ UNCHANGED <<info, ring, sem, pending, hand, client, out>>

CancelAtIO(t) ==
  /\ CddaMethod = "pthreads"
  /\ t \in pending /\ AtIO(t)
  /\ Goto(t, "ub_lock")
  /\ UNCHANGED <<info, ring, sync, hand, client, out>>

(* The cleanup handlers are pushed after the reader has opened its device, *)
(* and popped before the done function is called for a normal end: a       *)
(* cancel in that open, or in the yield of the done function, ends the     *)
(* thread then and there.                                                  *)
CancelBare(t) ==
  /\ CddaMethod = "pthreads"
  /\ t \in pending \ asleep
  /\ pc[t] \in {"fill_lock", "done", "done_kill"}
  /\ Goto(t, "dead")
  /\ UNCHANGED <<info, ring, sync, hand, client, out>>

(* cdda_pthr_unblock gives up the three semaphores in order; then comes    *)
(* cdda_pthr_rdone or cdda_pthr_wdone, with nobody left to kill.           *)
Unblock(t) ==
  /\ \/ pc[t] = "ub_lock" /\ Post(t, "LOCK", "ub_room") /\ UNCHANGED frm_played
     \/ pc[t] = "ub_room" /\ Post(t, "ROOM", "ub_data") /\ UNCHANGED frm_played
     \/ /\ pc[t] = "ub_data" /\ Post(t, "DATA", "dead")
        /\ frm_played' = IF t[1] = "writer" THEN 0 ELSE frm_played
  /\ UNCHANGED <<state, cdda_done, total, reader, writer, ring, hand, client,
                 out>>

SigTerm(t) ==
  /\ CddaMethod = "sysvipc"
  /\ t \in pending /\ ~Gone(t) /\ pc[t] # "new"
  /\ Goto(t, "dead")
  /\ frm_played' = IF t[1] = "writer" THEN 0 ELSE frm_played
  /\ UNCHANGED <<state, cdda_done, total, reader, writer, ring, sync, hand,
                 client, out>>

Cancelled(t) ==
  CancelAsleep(t) \/ CancelAtIO(t) \/ CancelBare(t) \/ Unblock(t) \/ SigTerm(t)
=============================================================================
