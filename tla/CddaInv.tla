------------------------------ MODULE CddaInv ------------------------------
(***************************************************************************)
(* The inductive invariant behind the proofs of mutual exclusion, of the   *)
(* quiescence of the shared state, of the ring buffer's consistency and of *)
(* the order of the chunks with POSIX threads, for an orderly client and   *)
(* threads that can be created; and, when nothing fails, of the refinement *)
(* of the abstract stream (StreamInv) and of the chunks that are written   *)
(* (WroteInv).                                                             *)
(***************************************************************************)
EXTENDS Cdda

Pthreads == CddaMethod = "pthreads" /\ Orderly /\ "create" \notin Faults

StopStep == {"join_writer", "wait_writer", "join_reader", "wait_reader",
             "initshm"}

(* A play under way, or to come after a stop, is within the bound, and     *)
(* what creates threads has a play.                                        *)
PlayBound ==
  /\ cpc = "play" => sess < MaxPlays
  /\ cpc \in StopStep /\ after = "play" => sess < MaxPlays
  /\ cpc \in {"create_reader", "create_writer"} => sess # 0

(* Only the last play has threads, and it is they that are registered.     *)
OldGone ==
  \A s \in Session :
    /\ s < sess => Gone(R(s)) /\ Gone(W(s))
    /\ s > sess => pc[R(s)] = "none" /\ pc[W(s)] = "none"
Registered ==
  /\ reader \in {0, sess} /\ writer \in {0, sess}
  /\ \A s \in Session :
       /\ ~Gone(R(s)) /\ pc[R(s)] # "new" => reader = s
       /\ ~Gone(W(s)) /\ pc[W(s)] # "new" => writer = s

(* What each step of an operation of the client finds.                     *)
NoNew == \A t \in Thread : pc[t] # "new"
WritersGone == \A s \in Session : Gone(W(s))
ReadersGone == \A s \in Session : Gone(R(s))
ClientAt ==
  /\ cpc \in StopStep \cup {"play", "cleanup", "create_reader"} => NoNew
  /\ cpc = "wait_writer" => tid = sess /\ sess # 0
  /\ cpc = "wait_reader" => tid = sess /\ sess # 0
  /\ cpc \in {"join_reader", "wait_reader", "initshm", "play", "cleanup",
              "create_reader", "create_writer"} => WritersGone
  /\ cpc \in {"initshm", "play", "cleanup", "create_reader"} => ReadersGone
  /\ cpc \in {"play", "create_reader"} => reader = 0
  /\ cpc \in {"play", "create_reader", "create_writer"} => writer = 0
  /\ cpc = "create_reader" => pc[R(sess)] = "none"
  /\ cpc \in {"create_reader", "create_writer"} => pc[W(sess)] = "none"

(* A retired thread takes LOCK no more.  It may have posted it while the   *)
(* other was inside: harmless, as nobody is left to come in.               *)
Retired(t) == pc[t] \in {"fail_wake", "wake", "done", "done_kill", "ub_room",
                         "ub_data", "dead"}
LockInv ==
  \A s \in Session :
    /\ InCS(R(s)) => sem["LOCK"] = 0 \/ Retired(W(s))
    /\ InCS(W(s)) => sem["LOCK"] = 0 \/ Retired(R(s))
    /\ ~(InCS(R(s)) /\ InCS(W(s)))

(* A thread inside pthread_cond_wait is at one of the waits. *)
WaitLoc == {"fill_lock", "fill_room", "lock", "relock", "room_wait",
            "data_wait"}
AsleepAt == \A t \in asleep : pc[t] \in WaitLoc

PthrInv ==
  PlayBound /\ OldGone /\ Registered /\ ClientAt /\ LockInv /\ AsleepAt

(* Whoever has taken LOCK posts it: when it is 0, somebody is between the  *)
(* two, or in his cleanup.  And a thread is created once.                  *)
Owes(t) == InCS(t) \/ pc[t] = "ub_lock"
LockOwed ==
  sem["LOCK"] \in {0, 1} /\ (sem["LOCK"] = 0 => \E t \in Thread : Owes(t))
Unborn ==
  \A s \in Session :
    /\ s > sess \/ (s = sess /\ cpc = "create_reader") => pc[R(s)] = "none"
    /\ s > sess \/ (s = sess /\ cpc \in {"create_reader", "create_writer"}) =>
         pc[W(s)] = "none"

(* What a thread inside the region knows of the count, unless the play has *)
(* been stopped meanwhile.  The pre-fill counts the chunks it has read.    *)
Knows(t) ==
  /\ pc[t] = "put" => state = "COMPLETED" \/ occupied < BufferChunks
  /\ pc[t] = "take" => state = "COMPLETED" \/ occupied > 0
  /\ pc[t] \in {"fill", "fill_read"} => hand[t][2] = occupied + 1
  /\ pc[t] = "fill_read" => occupied < BufferChunks
  /\ pc[t] = "fill_lock" \/ (pc[t] = "new" /\ t[1] = "reader") =>
       hand[t][2] = 1 /\ occupied = 0
RingInv ==
  /\ RingConsistent
  /\ cpc = "create_reader" => occupied = 0
  /\ \A t \in Thread : Knows(t)

(* Where a reader may still put a chunk, and has one in hand to put; where *)
(* a writer may still take one, and holds one it has taken.                *)
MayPut  == {"new", "fill_lock", "fill", "fill_read", "fill_room", "fill_data",
            "fill_unlock", "loop", "read", "lock", "room", "room_unlock",
            "room_wait", "put", "data", "unlock"}
Reads   == {"fill_read", "read", "lock", "room", "room_unlock", "room_wait",
            "put"}
MayTake == {"none", "new", "open", "loop", "lock", "chk", "empty",
            "data_unlock", "data_wait", "relock", "take", "room", "unlock",
            "write", "paused"}
Holds   == {"room", "unlock", "write"}

Taken(s) == Len(out) + (IF pc[W(s)] \in Holds THEN 1 ELSE 0)

(* The chunks of the play are accounted for: those written, the one in the *)
(* writer's hand, those in the ring, and the one the reader reads next.  A *)
(* writer that ends drops what it holds.                                   *)
ReaderOrder(s) ==
  LET n == hand[R(s)][2] IN
  pc[R(s)] \in MayPut =>
    /\ hand[R(s)][1] = s
    /\ Taken(s) + occupied < n
    /\ pc[W(s)] \in MayTake => n = Taken(s) + occupied + 1
    /\ total # 0 /\ n <= total + 1 /\ (~cdda_done => n <= total)
    /\ pc[R(s)] \in Reads => n <= total /\ (~cdda_done => n < total)
WriterOrder(s) ==
  /\ pc[W(s)] \in MayTake =>
       \A i \in 0..(occupied - 1) :
         b[(nextout + i) % BufferChunks] = <<s, Taken(s) + i + 1>>
  /\ pc[W(s)] \in Holds => hand[W(s)] = <<s, Len(out) + 1>>
  /\ total # 0 => Taken(s) + occupied <= total
OrderInv ==
  /\ out \in Seq(Chunk) /\ \A i \in 1..Len(out) : out[i] = <<sess, i>>
  /\ sess = 0 => out = <<>>
  /\ cpc = "create_reader" => out = <<>> /\ total # 0 /\ ~cdda_done
  /\ \A s \in Session : s = sess => ReaderOrder(s) /\ WriterOrder(s)

(* A play without failures: nobody is killed, a writer stops only when the *)
(* play does, and the reader has set cdda_done no earlier than it should.  *)
Faultless == Pthreads /\ Faults = {} /\ "pause" \notin Ops

Harmed == {"fill_fail", "fail_lock", "fail_wake", "done_kill", "ub_lock",
           "ub_room", "ub_data"}
NoHarm ==
  /\ pending = {} /\ state # "PAUSED"
  /\ cpc \in StopStep \cup {"play", "cleanup"} => state = "COMPLETED"
  /\ cpc \in {"create_reader", "create_writer"} => total # 0
  /\ \A t \in Thread : pc[t] \notin Harmed
Lasts(s) ==
  /\ ~Gone(W(s)) => total # 0
  /\ state # "COMPLETED" =>
       /\ pc[W(s)] \in MayTake
       /\ cdda_done => Taken(s) + occupied + 1 >= total
StreamInv == NoHarm /\ \A s \in Session : s = sess => Lasts(s)

(* An area that fits the buffer is read in the pre-fill, of which a writer *)
(* inside the region sees all or nothing; and a play that has ended by     *)
(* itself has written all that was read.                                   *)
AllButOne == \/ Len(out) = total
             \/ total > BufferChunks /\ Len(out) = total - 1
Filled(s) ==
  /\ pc[R(s)] \in MayPut \ {"new", "fill_lock", "fill", "fill_read"} =>
       cdda_done \/ hand[R(s)][2] > BufferChunks
  /\ state # "COMPLETED" /\ cdda_done /\ total <= BufferChunks =>
       pc[R(s)] = "fill_read" \/ Taken(s) + occupied >= total
Wrote(s) ==
  cpc = "idle" /\ state = "COMPLETED" /\ ~Gone(W(s)) =>
    pc[W(s)] \in {"fin_unlock", "wake", "done"} /\ AllButOne
WroteInv ==
  /\ cpc \in {"create_reader", "create_writer"} => state # "COMPLETED"
  /\ \A s \in Session : s = sess => Filled(s) /\ Wrote(s)
=============================================================================
