----------------------------- MODULE CddaClient -----------------------------
(***************************************************************************)
(* The client's side of CDDA playback: cdda_play, cdda_stop, cdda_halt,    *)
(* cdda_pause_resume and cdda_getstatus of the two IPC methods.  The       *)
(* client is one thread; each operation runs to its end before the next.   *)
(* The heartbeat counters of getstatus are left out: a check may find a    *)
(* thread hung whenever "hang" is in Faults.                               *)
(***************************************************************************)
EXTENDS CddaState

(* The discipline under which the code keeps its promises: no operation    *)
(* starts before the threads of the last play have stored their ids.       *)
Settled == Orderly => \A t \in Thread : pc[t] # "new"

Idle == cpc = "idle" /\ Settled

BeginStop(k) ==
  /\ state' = "COMPLETED" /\ cpc' = "join_writer" /\ after' = k
  /\ UNCHANGED <<cdda_done, total, frm_played, reader, writer, ring, sem,
                 owner, asleep, pc, hand, tid, sess, out>>

Stop == Idle /\ BeginStop("idle") /\ UNCHANGED pending

Halt == "halt" \in Ops /\ Idle /\ BeginStop("cleanup") /\ UNCHANGED pending

(* If not stopped, stop first.  An orderly client does not play on top of  *)
(* a completed play whose threads it has not joined.                       *)
Play ==
  /\ Idle /\ sess < MaxPlays
  /\ \/ state # "COMPLETED" /\ BeginStop("play") /\ UNCHANGED pending
     \/ /\ state = "COMPLETED"
        /\ Orderly => reader = 0 /\ writer = 0
        /\ cpc' = "play"
        /\ UNCHANGED <<info, ring, sync, pc, hand, after, tid, sess, out>>

(* The rest of getstatus changes nothing. *)
GetStatus ==
  /\ Idle
  /\ \/ state = "COMPLETED" /\ UNCHANGED pending
     \/ /\ "hang" \in Faults /\ state = "PLAYING" /\ reader # 0 /\ writer # 0
        /\ Kill({R(reader), W(writer)})
  /\ BeginStop("idle")

PauseResume ==
  /\ "pause" \in Ops /\ Idle /\ writer # 0
  /\ state' \in {"PAUSED", "PLAYING"}
  /\ UNCHANGED <<cdda_done, total, frm_played, reader, writer, ring, sync,
                 pc, hand, client, out>>

(* cdda_stop: wait for the writer, then for the reader, if they have ids. *)
JoinWriter ==
  /\ \/ /\ cpc = "join_writer"
        /\ tid' = writer
        /\ cpc' = IF writer # 0 THEN "wait_writer" ELSE "join_reader"
        /\ UNCHANGED writer
     \/ /\ cpc = "wait_writer" /\ pc[W(tid)] = "dead"
        /\ writer' = 0 /\ cpc' = "join_reader"
        /\ UNCHANGED tid
  /\ UNCHANGED <<state, cdda_done, total, frm_played, reader, ring, sync, pc,
                 hand, after, sess, out>>

(* Mutation of JoinReader: cdda_stop does not wait for the reader. *)
JoinReaderNot ==
  /\ cpc = "join_reader"
  /\ reader' = 0 /\ cpc' = "initshm"
  /\ UNCHANGED <<state, cdda_done, total, frm_played, writer, ring, sync, pc,
                 hand, after, tid, sess, out>>

JoinReader ==
  /\ \/ /\ cpc = "join_reader"
        /\ tid' = reader
        /\ cpc' = IF reader # 0 THEN "wait_reader" ELSE "initshm"
        /\ UNCHANGED reader
     \/ /\ cpc = "wait_reader" /\ pc[R(tid)] = "dead"
        /\ reader' = 0 /\ cpc' = "initshm"
        /\ UNCHANGED tid
  /\ UNCHANGED <<state, cdda_done, total, frm_played, writer, ring, sync, pc,
                 hand, after, sess, out>>

InitShm ==
  /\ cpc = "initshm"
  /\ state' = "COMPLETED" /\ frm_played' = 0 /\ total' = 0
  /\ reader' = 0 /\ writer' = 0
  /\ cpc' = after
  /\ UNCHANGED <<cdda_done, ring, sync, pc, hand, after, tid, sess, out>>

(* cdda_halt destroys the shared state; the next operation makes it anew.  *)
Cleanup ==
  /\ cpc = "cleanup"
  /\ sem' = [m \in Sem |-> IF m = "LOCK" THEN 1 ELSE 0]
  /\ owner' = [m \in Sem |-> NoThread]
  /\ cdda_done' = FALSE
  /\ ResetRing
  /\ b' = [i \in Slot |-> NoChunk]
  /\ cpc' = "idle"
  /\ UNCHANGED <<state, total, frm_played, reader, writer, asleep, pending,
                 pc, hand, after, tid, sess, out>>

(* cdda_play: reset the shared state and two of the semaphores.  It fails  *)
(* when a system call does; LOCK is left as it is.                         *)
SetUp ==
  /\ cpc = "play"
  /\ total' \in Totals
  /\ cdda_done' = FALSE
  /\ ResetRing
  /\ sem' = [sem EXCEPT !["ROOM"] = 1, !["DATA"] = 0]
  /\ sess' = sess + 1
  /\ out' = <<>>
  /\ \/ state' = "PLAYING" /\ cpc' = "create_reader"
     \/ "create" \in Faults /\ state' = "COMPLETED" /\ cpc' = "idle"
  /\ UNCHANGED <<frm_played, reader, writer, b, owner, asleep, pending, pc,
                 hand, after, tid>>

CreateReader ==
  /\ cpc = "create_reader"
  /\ \/ /\ Goto(R(sess), "new")
        /\ hand' = [hand EXCEPT ![R(sess)] = <<sess, 1>>]
        /\ cpc' = "create_writer"
        /\ UNCHANGED <<state, writer, pending>>
     \/ /\ "create" \in Faults
        /\ state' = "COMPLETED"
        /\ Kill({W(writer)}) /\ writer' = 0
        /\ cpc' = "idle"
        /\ UNCHANGED <<pc, hand>>
  /\ UNCHANGED <<cdda_done, total, frm_played, reader, ring, sem, owner,
                 asleep, after, tid, sess, out>>

CreateWriter ==
  /\ cpc = "create_writer"
  /\ \/ /\ Goto(W(sess), "new")
        /\ UNCHANGED <<state, reader, pending>>
     \/ /\ "create" \in Faults
        /\ state' = "COMPLETED"
        /\ Kill({R(reader)}) /\ reader' = 0
        /\ UNCHANGED pc
  /\ cpc' = "idle"
  /\ UNCHANGED <<cdda_done, total, frm_played, writer, ring, sem, owner,
                 asleep, hand, after, tid, sess, out>>

(* The steps of an operation under way, and the start of one. *)
ClientStep ==
  JoinWriter \/ JoinReader \/ InitShm \/ Cleanup \/ SetUp \/ CreateReader
    \/ CreateWriter
ClientCall == Stop \/ Halt \/ Play \/ GetStatus \/ PauseResume
=============================================================================
