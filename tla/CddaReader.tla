----------------------------- MODULE CddaReader -----------------------------
(***************************************************************************)
(* The CDDA reader: cdda_pthr_reader (or the reader branch of              *)
(* cdda_sysvipc_play) around scsi_read, that is scsicd_read_fillbuf and    *)
(* scsicd_read_cont, and scsi_rdone.  The retries, the mode select and the *)
(* jitter correction inside one chunk are abstracted: the read of a chunk  *)
(* either gives a chunk or, if "read" is in Faults, fails for good.        *)
(***************************************************************************)
EXTENDS CddaState

(* The chunk in hand is the last of the area, or past it. *)
AtEnd(t) == hand[t][2] >= total

(* Mutation of Deposit: nextin does not wrap. *)
DepositNoWrap(t) ==
  /\ b' = [b EXCEPT ![nextin] = hand[t]]
  /\ nextin' = nextin + 1 /\ occupied' = occupied + 1
  /\ hand' = [hand EXCEPT ![t] = <<@[1], @[2] + 1>>]
  /\ UNCHANGED nextout

(* Copy the chunk in hand to the nextin slot, and move on to the next. *)
Deposit(t) ==
  /\ b' = [b EXCEPT ![nextin] = hand[t]]
  /\ nextin' = (nextin + 1) % BufferChunks
  /\ occupied' = occupied + 1
  /\ hand' = [hand EXCEPT ![t] = <<@[1], @[2] + 1>>]
  /\ UNCHANGED nextout

ReaderStart(s) ==          \* stores its own id
  LET t == R(s) IN
  /\ pc[t] = "new"
  /\ reader' = s
  /\ Goto(t, "fill_lock")
  /\ UNCHANGED <<state, cdda_done, total, frm_played, writer, ring, sync,
                 hand, client, out>>

FillLock(s) ==
  LET t == R(s) IN
  /\ pc[t] = "fill_lock"
  /\ Wait(t, "LOCK", "fill")
  /\ UNCHANGED <<info, ring, hand, client, out>>

(* The loop test of fillbuf, and cdda_done set before the last chunk is    *)
(* read.                                                                   *)
Fill(s) ==
  LET t == R(s)
      more == hand[t][2] <= BufferChunks /\ ~cdda_done IN
  /\ pc[t] = "fill"
  /\ cdda_done' = (cdda_done \/ (more /\ AtEnd(t)))
  /\ Goto(t, IF more THEN "fill_read" ELSE "fill_room")
  /\ UNCHANGED <<state, total, frm_played, reader, writer, ring, sync, hand,
                 client, out>>

FillRead(s) ==
  LET t == R(s) IN
  /\ pc[t] = "fill_read"
  /\ \/ Deposit(t) /\ Goto(t, "fill")
     \/ /\ "read" \in Faults
        /\ Goto(t, "fill_fail")
        /\ UNCHANGED <<ring, hand>>
  /\ UNCHANGED <<info, sync, client, out>>

(* The posts and the wait that end fillbuf; fill_fail is its error return. *)
FillEnd(s) ==
  LET t == R(s) IN
  /\ \/ pc[t] = "fill_fail" /\ Post(t, "LOCK", "done_kill")
     \/ pc[t] = "fill_room" /\ Wait(t, "ROOM", "fill_data")
     \/ pc[t] = "fill_data" /\ Post(t, "DATA", "fill_unlock")
     \/ pc[t] = "fill_unlock" /\ Post(t, "LOCK", "loop")
  /\ UNCHANGED <<info, ring, hand, client, out>>

(* The loop test of scsicd_read_cont, and cdda_done set before the last    *)
(* chunk is read, with no lock held.                                       *)
ReadLoop(s) ==
  LET t == R(s)
      more == state # "COMPLETED" /\ ~cdda_done IN
  /\ pc[t] = "loop"
  /\ cdda_done' = (cdda_done \/ (more /\ AtEnd(t)))
  /\ Goto(t, IF more THEN "read" ELSE "wake")
  /\ UNCHANGED <<state, total, frm_played, reader, writer, ring, sync, hand,
                 client, out>>

ReadChunk(s) ==
  LET t == R(s) IN
  /\ pc[t] = "read"
  /\ \/ Goto(t, "lock")
     \/ "read" \in Faults /\ Goto(t, "done_kill")
  /\ UNCHANGED <<info, ring, sync, hand, client, out>>

(* The int occupied is compared with an unsigned buffer_chunks.            *)
(* Mutation of Full: off by one. *)
FullLate == occupied < 0 \/ occupied > BufferChunks
Full == occupied < 0 \/ occupied >= BufferChunks

(* Wait until there is room. *)
AwaitRoom(s) ==
  LET t == R(s)
      full == Full /\ state # "COMPLETED" IN
  /\ \/ pc[t] = "lock" /\ Wait(t, "LOCK", "room")
     \/ /\ pc[t] = "room"
        /\ Goto(t, IF full THEN "room_unlock" ELSE "put")
        /\ UNCHANGED sync
     \/ pc[t] = "room_unlock" /\ Post(t, "LOCK", "room_wait")
     \/ pc[t] = "room_wait" /\ Wait(t, "ROOM", "lock")
  /\ UNCHANGED <<info, ring, hand, client, out>>

(* Break if completed, else copy the chunk to a free location. *)
Put(s) ==
  LET t == R(s) IN
  /\ pc[t] = "put"
  /\ IF state = "COMPLETED"
     THEN Goto(t, "stop_unlock") /\ UNCHANGED <<ring, hand>>
     ELSE Deposit(t) /\ Goto(t, "data")
  /\ UNCHANGED <<info, sync, client, out>>

(* Mutation of PutEnd: the break keeps the lock. *)
PutEndKeepsLock(s) ==
  LET t == R(s) IN
  /\ \/ pc[t] = "data" /\ Post(t, "DATA", "unlock")
     \/ pc[t] = "unlock" /\ Post(t, "LOCK", "loop")
     \/ pc[t] = "stop_unlock" /\ Goto(t, "wake") /\ UNCHANGED sync
     \/ pc[t] = "wake" /\ Post(t, "DATA", "done")
  /\ UNCHANGED <<info, ring, hand, client, out>>

(* Mutation of PutEnd: the writer is not woken up at the end. *)
PutEndNoWake(s) ==
  LET t == R(s) IN
  /\ \/ pc[t] = "data" /\ Post(t, "DATA", "unlock")
     \/ pc[t] = "unlock" /\ Post(t, "LOCK", "loop")
     \/ pc[t] = "stop_unlock" /\ Post(t, "LOCK", "wake")
     \/ pc[t] = "wake" /\ Goto(t, "done") /\ UNCHANGED sync
  /\ UNCHANGED <<info, ring, hand, client, out>>

(* Signal data available, release the lock; stop_unlock is the break; wake *)
(* is the post that follows the loop.                                      *)
PutEnd(s) ==
  LET t == R(s) IN
  /\ \/ pc[t] = "data" /\ Post(t, "DATA", "unlock")
     \/ pc[t] = "unlock" /\ Post(t, "LOCK", "loop")
     \/ pc[t] = "stop_unlock" /\ Post(t, "LOCK", "wake")
     \/ pc[t] = "wake" /\ Post(t, "DATA", "done")
  /\ UNCHANGED <<info, ring, hand, client, out>>

(* scsi_rdone(killwriter).  A cancel request takes effect in cdda_yield.   *)
ReaderDone(s) ==
  LET t == R(s) IN
  /\ pc[t] \in {"done", "done_kill"} /\ t \notin pending
  /\ IF pc[t] = "done_kill" /\ writer # 0
     THEN Kill({W(writer)}) /\ state' = "COMPLETED"
     ELSE UNCHANGED <<pending, state>>
  /\ Goto(t, "dead")
  /\ UNCHANGED <<cdda_done, total, frm_played, reader, writer, ring, sem,
                 owner, asleep, hand, client, out>>

Reader(s) ==
  \/ ReaderStart(s) \/ FillLock(s) \/ Fill(s) \/ FillRead(s) \/ FillEnd(s)
  \/ ReadLoop(s) \/ ReadChunk(s) \/ AwaitRoom(s) \/ Put(s) \/ PutEnd(s)
  \/ ReaderDone(s)
=============================================================================
