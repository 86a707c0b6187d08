-------------------------------- MODULE Cdda --------------------------------
(***************************************************************************)
(* CDDA playback: the client, a reader and a writer thread for each play,  *)
(* and the kills they send each other.                                     *)
(***************************************************************************)
EXTENDS CddaReader, CddaWriter, CddaCancel, CddaClient

(* cdda_init2: allocated, LOCK available, no thread. *)
Init ==
  /\ state = "COMPLETED" /\ cdda_done = FALSE /\ total = 0 /\ frm_played = 0
  /\ reader = 0 /\ writer = 0
  /\ occupied = 0 /\ nextin = 0 /\ nextout = 0
  /\ b = [i \in Slot |-> NoChunk]
  /\ sem = [m \in Sem |-> IF m = "LOCK" THEN 1 ELSE 0]
  /\ owner = [m \in Sem |-> NoThread]
  /\ asleep = {} /\ pending = {}
  /\ pc = [t \in Thread |-> "none"]
  /\ hand = [t \in Thread |-> NoChunk]
  /\ cpc = "idle" /\ after = "idle" /\ tid = 0 /\ sess = 0
  /\ out = <<>>

Next ==
  \/ \E s \in Session : Reader(s) \/ Writer(s)
  \/ \E t \in Thread : Cancelled(t)
  \/ ClientStep \/ ClientCall

Spec == Init /\ [][Next]_vars

(* Threads get to run, their device calls return, and an operation the     *)
(* client has started goes on.  Nothing makes the client call.             *)
Fairness ==
  /\ \A s \in Session : WF_vars(Reader(s)) /\ WF_vars(Writer(s))
  /\ \A t \in Thread : WF_vars(Cancelled(t))
  /\ WF_vars(ClientStep)
FairSpec == Spec /\ Fairness
-----------------------------------------------------------------------------
(* Two threads are never both inside the region that LOCK protects, even   *)
(* though a failing writer and cdda_pthr_unblock post LOCK unconditionally.*)
MutualExclusion ==
  \A t, u \in Thread : t # u => ~(InCS(t) /\ InCS(u))

(* The ring buffer's three indices agree and stay in range: nothing is     *)
(* deposited into a full buffer nor taken from an empty one.               *)
RingConsistent ==
  /\ occupied \in 0..BufferChunks
  /\ (nextout + occupied) % BufferChunks = nextin

(* The writer has written the first chunks of the area of this play, each  *)
(* once and in order: none skipped, repeated, or left from another play.   *)
InOrder == /\ \A i \in 1..Len(out) : out[i] = <<sess, i>>
           /\ total # 0 => Len(out) <= total

(* LOCK is never leaked: cdda_play does not set it, so with no thread left *)
(* it must be available, once, for the next play.                          *)
LockAvailable == (\A t \in Thread : Gone(t)) => sem["LOCK"] = 1

(* No thread of an earlier play is left when the next one resets the       *)
(* shared state, or when cdda_halt frees it.                               *)
Quiescent == cpc \in {"play", "cleanup"} => \A t \in Thread : Gone(t)

(* The writer of this play has come to its end by itself: nobody has asked *)
(* it to stop.                                                             *)
EndedItself ==
  /\ sess > 0 /\ cpc = "idle"
  /\ pc[W(sess)] \in {"fin_unlock", "wake", "done"}

(* A play that ends by itself, without a fault, has written the whole area *)
(* of the disc it was asked for.                                           *)
WroteAll == EndedItself => Len(out) = total

(* What the code guarantees of that: at most the last chunk is missing, and*)
(* an area that fits the buffer is written in full.                        *)
WroteAllButOne ==
  EndedItself => \/ Len(out) = total
                 \/ total > BufferChunks /\ Len(out) = total - 1

(* cdda_stop returns. *)
StopReturns == cpc \in {"join_writer", "wait_writer", "join_reader",
                        "wait_reader", "initshm"} ~> cpc = "idle"

(* A play ends, unless it is paused. *)
PlayEnds == []<>(state # "PLAYING")

(* A thread that gives up its semaphores on being cancelled gets to end.   *)
GiveUpEnds ==
  \A t \in Thread : pc[t] = "ub_lock" ~> pc[t] = "dead"
-----------------------------------------------------------------------------
(* The promise to the user of cdda_play: see CddaStream.  A writer that    *)
(* has passed its last look at state still writes the chunk it holds.      *)
Late ==
  /\ sess > 0
  /\ pc[W(sess)] \in
       CASE state = "PLAYING" -> {}
         [] state = "PAUSED" ->
              WriterLoc \ {"none", "paused", "fin_unlock", "fail_lock",
                           "fail_wake", "wake", "done", "done_kill", "ub_lock",
                           "ub_room", "ub_data", "dead"}
         [] state = "COMPLETED" -> {"room", "unlock", "write"}
Stream == INSTANCE CddaStream WITH
  mode <- state, length <- total, written <- Len(out), late <- Late,
  busy <- cpc # "idle"

(* The threads, the ring buffer and the semaphores implement that promise. *)
ImplementsStream == Stream!Spec
=============================================================================
