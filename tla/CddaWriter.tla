----------------------------- MODULE CddaWriter -----------------------------
(***************************************************************************)
(* The CDDA writer: cdda_pthr_writer (or the writer branch of              *)
(* cdda_sysvipc_play) around oss_write, that is the opening of the         *)
(* outputs and ossaud_write, and oss_wdone.  One write of a chunk stands   *)
(* for the writes to the device, the file and the pipe.                    *)
(***************************************************************************)
EXTENDS CddaState, Sequences

WriterStart(s) ==          \* stores its own id
  LET t == W(s) IN
  /\ pc[t] = "new"
  /\ writer' = s
  /\ Goto(t, "open")
  /\ UNCHANGED <<state, cdda_done, total, frm_played, reader, ring, sync,
                 hand, client, out>>

OpenOutputs(s) ==          \* cancellation point
  LET t == W(s) IN
  /\ pc[t] = "open" /\ t \notin pending
  /\ \/ Goto(t, "loop")
     \/ "open" \in Faults /\ Goto(t, "done_kill")
  /\ UNCHANGED <<info, ring, sync, hand, client, out>>

WriteLoop(s) ==            \* while not stopped
  LET t == W(s) IN
  /\ \/ /\ pc[t] = "loop"
        /\ Goto(t, IF state = "COMPLETED" THEN "wake" ELSE "lock")
        /\ UNCHANGED sync
     \/ pc[t] = "lock" /\ Wait(t, "LOCK", "chk")
  /\ UNCHANGED <<info, ring, hand, client, out>>

(* Mutations of Finished: the buffer is not looked at; the end is missed. *)
FinishedEarly == cdda_done
FinishedNever == FALSE
Finished == occupied = 0 /\ cdda_done

(* End if finished and nothing in the buffer. *)
CheckEnd(s) ==
  LET t == W(s) IN
  /\ pc[t] = "chk"
  /\ state' = IF Finished THEN "COMPLETED" ELSE state
  /\ Goto(t, IF Finished THEN "fin_unlock" ELSE "empty")
  /\ UNCHANGED <<cdda_done, total, frm_played, reader, writer, ring, sync,
                 hand, client, out>>

(* Mutation of AwaitData: the lock is not taken again after the wait. *)
AwaitDataNoRelock(s) ==
  LET t == W(s)
      none == occupied <= 0 /\ state # "COMPLETED" IN
  /\ \/ /\ pc[t] = "empty"
        /\ Goto(t, IF none THEN "data_unlock" ELSE "take")
        /\ UNCHANGED sync
     \/ pc[t] = "data_unlock" /\ Post(t, "LOCK", "data_wait")
     \/ pc[t] = "data_wait" /\ Wait(t, "DATA", "empty")
  /\ UNCHANGED <<info, ring, hand, client, out>>

(* Wait until there is something there. *)
AwaitData(s) ==
  LET t == W(s)
      none == occupied <= 0 /\ state # "COMPLETED" IN
  /\ \/ /\ pc[t] = "empty"
        /\ Goto(t, IF none THEN "data_unlock" ELSE "take")
        /\ UNCHANGED sync
     \/ pc[t] = "data_unlock" /\ Post(t, "LOCK", "data_wait")
     \/ pc[t] = "data_wait" /\ Wait(t, "DATA", "relock")
     \/ pc[t] = "relock" /\ Wait(t, "LOCK", "empty")
  /\ UNCHANGED <<info, ring, hand, client, out>>

(* Break if stopped, else copy the chunk out of the nextout slot. *)
Take(s) ==
  LET t == W(s) IN
  /\ pc[t] = "take"
  /\ IF state = "COMPLETED"
     THEN Goto(t, "fin_unlock") /\ UNCHANGED <<ring, hand>>
     ELSE /\ hand' = [hand EXCEPT ![t] = b[nextout]]
          /\ nextout' = (nextout + 1) % BufferChunks
          /\ occupied' = occupied - 1
          /\ Goto(t, "room")
          /\ UNCHANGED <<nextin, b>>
  /\ UNCHANGED <<info, sync, client, out>>

(* Signal room available, release the lock; fin_unlock is a break. *)
TakeEnd(s) ==
  LET t == W(s) IN
  /\ \/ pc[t] = "room" /\ Post(t, "ROOM", "unlock")
     \/ pc[t] = "unlock" /\ Post(t, "LOCK", "write")
     \/ pc[t] = "fin_unlock" /\ Post(t, "LOCK", "wake")
  /\ UNCHANGED <<info, ring, hand, client, out>>

(* gen_write_chunk, and frm_played.  A failure ends the play. *)
WriteChunk(s) ==           \* cancellation point
  LET t == W(s) IN
  /\ pc[t] = "write" /\ t \notin pending
  /\ \/ /\ out' = Append(out, hand[t])
        /\ frm_played' = frm_played + 1
        /\ Goto(t, "paused")
        /\ UNCHANGED state
     \/ /\ "write" \in Faults
        /\ state' = "COMPLETED"
        /\ Goto(t, "fail_lock")
        /\ UNCHANGED <<out, frm_played>>
  /\ UNCHANGED <<cdda_done, total, reader, writer, ring, sync, hand, client>>

(* Mutation of Unpaused: the delay loop is left while paused. *)
UnpausedAnyway(s) ==
  LET t == W(s) IN
  /\ pc[t] = "paused"
  /\ Goto(t, "loop")
  /\ UNCHANGED <<info, ring, sync, hand, client, out>>

Unpaused(s) ==             \* leaves the delay loop
  LET t == W(s) IN
  /\ pc[t] = "paused" /\ state # "PAUSED"
  /\ Goto(t, "loop")
  /\ UNCHANGED <<info, ring, sync, hand, client, out>>

(* The error path posts LOCK, which it does not hold; then, like the       *)
(* normal end, it wakes up the reader.                                     *)
WriteEnd(s) ==
  LET t == W(s) IN
  /\ \/ pc[t] = "fail_lock" /\ Post(t, "LOCK", "fail_wake")
     \/ pc[t] = "fail_wake" /\ Post(t, "ROOM", "done_kill")
     \/ pc[t] = "wake" /\ Post(t, "ROOM", "done")
  /\ UNCHANGED <<info, ring, hand, client, out>>

(* oss_wdone(killreader).  A cancel request takes effect in cdda_yield.    *)
WriterDone(s) ==
  LET t == W(s) IN
  /\ pc[t] \in {"done", "done_kill"} /\ t \notin pending
  /\ IF pc[t] = "done_kill" /\ reader # 0
     THEN Kill({R(reader)}) /\ state' = "COMPLETED"
     ELSE UNCHANGED <<pending, state>>
  /\ frm_played' = 0
  /\ Goto(t, "dead")
  /\ UNCHANGED <<cdda_done, total, reader, writer, ring, sem, owner, asleep,
                 hand, client, out>>

Writer(s) ==
  \/ WriterStart(s) \/ OpenOutputs(s) \/ WriteLoop(s) \/ CheckEnd(s)
  \/ AwaitData(s) \/ Take(s) \/ TakeEnd(s) \/ WriteChunk(s) \/ Unpaused(s)
  \/ WriteEnd(s) \/ WriterDone(s)
=============================================================================
