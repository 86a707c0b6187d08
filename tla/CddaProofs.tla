----------------------------- MODULE CddaProofs -----------------------------
(***************************************************************************)
(* Proofs about Cdda, for any number of plays, any buffer size and any     *)
(* areas.                                                                  *)
(***************************************************************************)
EXTENDS CddaInv, TLAPS

(***************************************************************************)
(* Facts about threads and about the operators every step is built from.   *)
(***************************************************************************)
LEMMA ModSlot == \A x \in Nat : x % BufferChunks \in Slot
  BY BufferAssumption DEF Slot

LEMMA Threads ==
  /\ \A s \in Session : R(s) \in Thread /\ W(s) \in Thread
  /\ \A s, u : R(s) # W(u)
  /\ \A s, u : R(s) = R(u) => s = u
  /\ \A s, u : W(s) = W(u) => s = u
  /\ \A t \in Thread : \E s \in Session : t = R(s) \/ t = W(s)
  /\ \A s : R(s)[1] = "reader" /\ W(s)[1] = "writer"
  /\ NoThread \notin Thread
  BY DEF R, W, Thread, NoThread

(* Moving a thread to a place of its own keeps pc well typed. *)
LEMMA GotoOK ==
  ASSUME PcOK, NEW s \in Session
  PROVE  /\ \A l \in ReaderLoc : Goto(R(s), l) => PcOK'
         /\ \A l \in WriterLoc : Goto(W(s), l) => PcOK'
  BY Threads DEF PcOK, Goto

(* A semaphore operation keeps the semaphores well typed. *)
LEMMA SemOK ==
  ASSUME SyncOK, NEW t \in Thread, NEW m \in Sem, NEW l,
         Post(t, m, l) \/ Wait(t, m, l)
  PROVE  SyncOK' /\ (Goto(t, l) \/ UNCHANGED pc)
  BY DEF SyncOK, Post, Wait, PthrPost, SysvPost, PthrWait, SysvWait

LEMMA KillOK ==
  ASSUME SyncOK, NEW ts, Kill(ts), UNCHANGED <<sem, owner, asleep>>
  PROVE  SyncOK'
  BY DEF SyncOK, Kill

LEMMA DepositOK ==
  ASSUME RingOK, HandOK, NEW t \in Thread, Deposit(t)
  PROVE  RingOK' /\ HandOK'
<1>1. /\ hand[t] \in Chunk
      /\ hand[t][1] \in 0..MaxPlays /\ hand[t][2] + 1 \in Nat
  BY DEF HandOK, Chunk
<1>2. RingOK'
  BY <1>1, ModSlot DEF RingOK, Deposit, Slot
<1>3. HandOK'
  BY <1>1 DEF HandOK, Deposit, Chunk
<1> QED BY <1>2, <1>3

(***************************************************************************)
(* Type correctness: one lemma for each actor, one step for each action.   *)
(***************************************************************************)
LEMMA TypeInit == Init => TypeOK
<1> SUFFICES ASSUME Init PROVE TypeOK
  OBVIOUS
<1>0. cdda_done \in BOOLEAN
  BY DEF Init
<1>1. InfoOK /\ ClientOK
  BY <1>0, PlaysAssumption DEF Init, InfoOK, ClientOK
<1>2. RingOK /\ HandOK
  BY BufferAssumption, PlaysAssumption
     DEF Init, RingOK, HandOK, Slot, Chunk, NoChunk
<1>3. SyncOK
  BY DEF Init, SyncOK, Sem
<1>4. PcOK
  BY Threads DEF Init, PcOK, ReaderLoc, WriterLoc
<1> QED BY <1>1, <1>2, <1>3, <1>4 DEF TypeOK

LEMMA ReaderType ==
  ASSUME TypeOK, NEW s \in Session, Reader(s)
  PROVE  TypeOK'
<1> USE DEF TypeOK
<1>0. R(s) \in Thread
  BY Threads
<1>1. CASE ReaderStart(s)
  <2>1. RingOK' /\ SyncOK' /\ HandOK' /\ ClientOK'
    BY <1>1 DEF ReaderStart, RingOK, SyncOK, HandOK, ClientOK, ring, sync, client
  <2>2. InfoOK'
    BY <1>1, PlaysAssumption DEF ReaderStart, InfoOK, Session
  <2>3. PcOK'
    BY <1>1, GotoOK DEF ReaderStart, ReaderLoc, ReaderCS
  <2> QED BY <2>1, <2>2, <2>3
<1>2. CASE FillLock(s)
  <2>1. InfoOK' /\ RingOK' /\ HandOK' /\ ClientOK'
    BY <1>2 DEF FillLock, InfoOK, RingOK, HandOK, ClientOK, info, ring, client
  <2>2. PICK m \in Sem, l \in ReaderLoc :
          Post(R(s), m, l) \/ Wait(R(s), m, l)
    BY <1>2 DEF FillLock, Sem, ReaderLoc, ReaderCS
  <2>3. SyncOK' /\ PcOK'
    BY <1>0, <2>2, SemOK, GotoOK DEF PcOK
  <2> QED BY <2>1, <2>2, <2>3
<1>3. CASE Fill(s)
  <2>1. RingOK' /\ SyncOK' /\ HandOK' /\ ClientOK'
    BY <1>3 DEF Fill, RingOK, SyncOK, HandOK, ClientOK, ring, sync, client
  <2>2. InfoOK'
    BY <1>3 DEF Fill, InfoOK
  <2>3. PcOK'
    BY <1>3, GotoOK DEF Fill, ReaderLoc, ReaderCS
  <2> QED BY <2>1, <2>2, <2>3
<1>4. CASE FillRead(s)
  <2>1. InfoOK' /\ SyncOK' /\ ClientOK'
    BY <1>4 DEF FillRead, InfoOK, SyncOK, ClientOK, info, sync, client
  <2>2. RingOK' /\ HandOK'
    BY <1>4, <1>0, DepositOK DEF FillRead, RingOK, HandOK, ring
  <2>3. PcOK'
    BY <1>4, GotoOK DEF FillRead, ReaderLoc, ReaderCS
  <2> QED BY <2>1, <2>2, <2>3
<1>5. CASE FillEnd(s)
  <2>1. InfoOK' /\ RingOK' /\ HandOK' /\ ClientOK'
    BY <1>5 DEF FillEnd, InfoOK, RingOK, HandOK, ClientOK, info, ring, client
  <2>2. PICK m \in Sem, l \in ReaderLoc :
          Post(R(s), m, l) \/ Wait(R(s), m, l)
    BY <1>5 DEF FillEnd, Sem, ReaderLoc, ReaderCS
  <2>3. SyncOK' /\ PcOK'
    BY <1>0, <2>2, SemOK, GotoOK DEF PcOK
  <2> QED BY <2>1, <2>2, <2>3
<1>6. CASE ReadLoop(s)
  <2>1. RingOK' /\ SyncOK' /\ HandOK' /\ ClientOK'
    BY <1>6 DEF ReadLoop, RingOK, SyncOK, HandOK, ClientOK, ring, sync, client
  <2>2. InfoOK'
    BY <1>6 DEF ReadLoop, InfoOK
  <2>3. PcOK'
    BY <1>6, GotoOK DEF ReadLoop, ReaderLoc, ReaderCS
  <2> QED BY <2>1, <2>2, <2>3
<1>7. CASE ReadChunk(s)
  <2>1. InfoOK' /\ RingOK' /\ SyncOK' /\ HandOK' /\ ClientOK'
    BY <1>7 DEF ReadChunk, InfoOK, RingOK, SyncOK, HandOK, ClientOK, info, ring, sync, client
  <2>2. PcOK'
    BY <1>7, GotoOK DEF ReadChunk, ReaderLoc, ReaderCS
  <2> QED BY <2>1, <2>2
<1>8. CASE AwaitRoom(s)
  <2>1. InfoOK' /\ RingOK' /\ HandOK' /\ ClientOK'
    BY <1>8 DEF AwaitRoom, InfoOK, RingOK, HandOK, ClientOK, info, ring, client
  <2>2. \E l \in ReaderLoc :
          \/ \E m \in Sem : Post(R(s), m, l) \/ Wait(R(s), m, l)
          \/ Goto(R(s), l) /\ UNCHANGED sync
    BY <1>8 DEF AwaitRoom, Sem, ReaderLoc, ReaderCS
  <2>3. SyncOK' /\ PcOK'
    BY <1>0, <2>2, SemOK, GotoOK DEF PcOK, SyncOK, sync
  <2> QED BY <2>1, <2>2, <2>3
<1>9. CASE Put(s)
  <2>1. InfoOK' /\ SyncOK' /\ ClientOK'
    BY <1>9 DEF Put, InfoOK, SyncOK, ClientOK, info, sync, client
  <2>2. RingOK' /\ HandOK'
    BY <1>9, <1>0, DepositOK DEF Put, RingOK, HandOK, ring
  <2>3. PcOK'
    BY <1>9, GotoOK DEF Put, ReaderLoc, ReaderCS
  <2> QED BY <2>1, <2>2, <2>3
<1>10. CASE PutEnd(s)
  <2>1. InfoOK' /\ RingOK' /\ HandOK' /\ ClientOK'
    BY <1>10 DEF PutEnd, InfoOK, RingOK, HandOK, ClientOK, info, ring, client
  <2>2. PICK m \in Sem, l \in ReaderLoc :
          Post(R(s), m, l) \/ Wait(R(s), m, l)
    BY <1>10 DEF PutEnd, Sem, ReaderLoc, ReaderCS
  <2>3. SyncOK' /\ PcOK'
    BY <1>0, <2>2, SemOK, GotoOK DEF PcOK
  <2> QED BY <2>1, <2>2, <2>3
<1>11. CASE ReaderDone(s)
  <2>1. RingOK' /\ HandOK' /\ ClientOK'
    BY <1>11 DEF ReaderDone, RingOK, HandOK, ClientOK, ring, client
  <2>2. InfoOK'
    BY <1>11 DEF ReaderDone, InfoOK
  <2>3. SyncOK'
    BY <1>11, KillOK DEF ReaderDone, SyncOK
  <2>4. PcOK'
    BY <1>11, GotoOK DEF ReaderDone, ReaderLoc, ReaderCS
  <2> QED BY <2>1, <2>2, <2>3, <2>4
<1> QED BY <1>1, <1>2, <1>3, <1>4, <1>5, <1>6, <1>7, <1>8, <1>9, <1>10,
         <1>11 DEF Reader

LEMMA WriterType ==
  ASSUME TypeOK, NEW s \in Session, Writer(s)
  PROVE  TypeOK'
<1> USE DEF TypeOK
<1>0. W(s) \in Thread
  BY Threads
<1>1. CASE WriterStart(s)
  <2>1. RingOK' /\ SyncOK' /\ HandOK' /\ ClientOK'
    BY <1>1 DEF WriterStart, RingOK, SyncOK, HandOK, ClientOK, ring, sync, client
  <2>2. InfoOK'
    BY <1>1, PlaysAssumption DEF WriterStart, InfoOK, Session
  <2>3. PcOK'
    BY <1>1, GotoOK DEF WriterStart, WriterLoc, WriterCS
  <2> QED BY <2>1, <2>2, <2>3
<1>2. CASE OpenOutputs(s)
  <2>1. InfoOK' /\ RingOK' /\ SyncOK' /\ HandOK' /\ ClientOK'
    BY <1>2 DEF OpenOutputs, InfoOK, RingOK, SyncOK, HandOK, ClientOK, info, ring, sync, client
  <2>2. PcOK'
    BY <1>2, GotoOK DEF OpenOutputs, WriterLoc, WriterCS
  <2> QED BY <2>1, <2>2
<1>3. CASE WriteLoop(s)
  <2>1. InfoOK' /\ RingOK' /\ HandOK' /\ ClientOK'
    BY <1>3 DEF WriteLoop, InfoOK, RingOK, HandOK, ClientOK, info, ring, client
  <2>2. \E l \in WriterLoc :
          \/ \E m \in Sem : Post(W(s), m, l) \/ Wait(W(s), m, l)
          \/ Goto(W(s), l) /\ UNCHANGED sync
    BY <1>3 DEF WriteLoop, Sem, WriterLoc, WriterCS
  <2>3. SyncOK' /\ PcOK'
    BY <1>0, <2>2, SemOK, GotoOK DEF PcOK, SyncOK, sync
  <2> QED BY <2>1, <2>2, <2>3
<1>4. CASE CheckEnd(s)
  <2>1. RingOK' /\ SyncOK' /\ HandOK' /\ ClientOK'
    BY <1>4 DEF CheckEnd, RingOK, SyncOK, HandOK, ClientOK, ring, sync, client
  <2>2. InfoOK'
    BY <1>4 DEF CheckEnd, InfoOK
  <2>3. PcOK'
    BY <1>4, GotoOK DEF CheckEnd, WriterLoc, WriterCS
  <2> QED BY <2>1, <2>2, <2>3
<1>5. CASE AwaitData(s)
  <2>1. InfoOK' /\ RingOK' /\ HandOK' /\ ClientOK'
    BY <1>5 DEF AwaitData, InfoOK, RingOK, HandOK, ClientOK, info, ring, client
  <2>2. \E l \in WriterLoc :
          \/ \E m \in Sem : Post(W(s), m, l) \/ Wait(W(s), m, l)
          \/ Goto(W(s), l) /\ UNCHANGED sync
    BY <1>5 DEF AwaitData, Sem, WriterLoc, WriterCS
  <2>3. SyncOK' /\ PcOK'
    BY <1>0, <2>2, SemOK, GotoOK DEF PcOK, SyncOK, sync
  <2> QED BY <2>1, <2>2, <2>3
<1>6. CASE Take(s)
  <2>1. InfoOK' /\ SyncOK' /\ ClientOK'
    BY <1>6 DEF Take, InfoOK, SyncOK, ClientOK, info, sync, client
  <2>2. nextout + 1 \in Nat /\ b[nextout] \in Chunk
    BY DEF RingOK, Slot
  <2>3. RingOK'
    BY <1>6, <2>2, ModSlot DEF Take, RingOK, ring
  <2>4. HandOK'
    BY <1>6, <1>0, <2>2 DEF Take, HandOK
  <2>5. PcOK'
    BY <1>6, GotoOK DEF Take, WriterLoc, WriterCS
  <2> QED BY <2>1, <2>2, <2>3, <2>4, <2>5
<1>7. CASE TakeEnd(s)
  <2>1. InfoOK' /\ RingOK' /\ HandOK' /\ ClientOK'
    BY <1>7 DEF TakeEnd, InfoOK, RingOK, HandOK, ClientOK, info, ring, client
  <2>2. PICK m \in Sem, l \in WriterLoc :
          Post(W(s), m, l) \/ Wait(W(s), m, l)
    BY <1>7 DEF TakeEnd, Sem, WriterLoc, WriterCS
  <2>3. SyncOK' /\ PcOK'
    BY <1>0, <2>2, SemOK, GotoOK DEF PcOK
  <2> QED BY <2>1, <2>2, <2>3
<1>8. CASE WriteChunk(s)
  <2>1. RingOK' /\ SyncOK' /\ HandOK' /\ ClientOK'
    BY <1>8 DEF WriteChunk, RingOK, SyncOK, HandOK, ClientOK, ring, sync, client
  <2>2. InfoOK'
    BY <1>8 DEF WriteChunk, InfoOK
  <2>3. PcOK'
    BY <1>8, GotoOK DEF WriteChunk, WriterLoc, WriterCS
  <2> QED BY <2>1, <2>2, <2>3
<1>9. CASE Unpaused(s)
  <2>1. InfoOK' /\ RingOK' /\ SyncOK' /\ HandOK' /\ ClientOK'
    BY <1>9 DEF Unpaused, InfoOK, RingOK, SyncOK, HandOK, ClientOK, info, ring, sync, client
  <2>2. PcOK'
    BY <1>9, GotoOK DEF Unpaused, WriterLoc, WriterCS
  <2> QED BY <2>1, <2>2
<1>10. CASE WriteEnd(s)
  <2>1. InfoOK' /\ RingOK' /\ HandOK' /\ ClientOK'
    BY <1>10 DEF WriteEnd, InfoOK, RingOK, HandOK, ClientOK, info, ring, client
  <2>2. PICK m \in Sem, l \in WriterLoc :
          Post(W(s), m, l) \/ Wait(W(s), m, l)
    BY <1>10 DEF WriteEnd, Sem, WriterLoc, WriterCS
  <2>3. SyncOK' /\ PcOK'
    BY <1>0, <2>2, SemOK, GotoOK DEF PcOK
  <2> QED BY <2>1, <2>2, <2>3
<1>11. CASE WriterDone(s)
  <2>1. RingOK' /\ HandOK' /\ ClientOK'
    BY <1>11 DEF WriterDone, RingOK, HandOK, ClientOK, ring, client
  <2>2. InfoOK'
    BY <1>11 DEF WriterDone, InfoOK
  <2>3. SyncOK'
    BY <1>11, KillOK DEF WriterDone, SyncOK
  <2>4. PcOK'
    BY <1>11, GotoOK DEF WriterDone, WriterLoc, WriterCS
  <2> QED BY <2>1, <2>2, <2>3, <2>4
<1> QED BY <1>1, <1>2, <1>3, <1>4, <1>5, <1>6, <1>7, <1>8, <1>9, <1>10,
         <1>11 DEF Writer

LEMMA CancelledType ==
  ASSUME TypeOK, NEW t \in Thread, Cancelled(t)
  PROVE  TypeOK'
<1> USE DEF TypeOK
<1>0. /\ \A l \in ReaderLoc \cap WriterLoc : Goto(t, l) => PcOK'
      /\ {"ub_lock", "ub_room", "ub_data", "dead"}
           \subseteq ReaderLoc \cap WriterLoc
  BY Threads, GotoOK DEF ReaderLoc, WriterLoc
<1>1. CASE CancelAsleep(t)
  <2>1. InfoOK' /\ RingOK' /\ HandOK' /\ ClientOK'
    BY <1>1 DEF CancelAsleep, InfoOK, RingOK, HandOK, ClientOK, info, ring,
                client
  <2>2. SyncOK'
    BY <1>1 DEF CancelAsleep, SyncOK
  <2>3. PcOK'
    BY <1>1, <1>0 DEF CancelAsleep
  <2> QED BY <2>1, <2>2, <2>3
<1>2. CASE CancelAtIO(t)
  <2>1. InfoOK' /\ RingOK' /\ SyncOK' /\ HandOK' /\ ClientOK'
    BY <1>2 DEF CancelAtIO, InfoOK, RingOK, SyncOK, HandOK, ClientOK, info,
                ring, sync, client
  <2>2. PcOK'
    BY <1>2, <1>0 DEF CancelAtIO
  <2> QED BY <2>1, <2>2
<1>3. CASE CancelBare(t)
  <2>1. InfoOK' /\ RingOK' /\ SyncOK' /\ HandOK' /\ ClientOK'
    BY <1>3 DEF CancelBare, InfoOK, RingOK, SyncOK, HandOK, ClientOK, info,
                ring, sync, client
  <2>2. PcOK'
    BY <1>3, <1>0 DEF CancelBare
  <2> QED BY <2>1, <2>2
<1>4. CASE Unblock(t)
  <2>1. RingOK' /\ HandOK' /\ ClientOK'
    BY <1>4 DEF Unblock, RingOK, HandOK, ClientOK, ring, client
  <2>2. InfoOK'
    BY <1>4 DEF Unblock, InfoOK
  <2>3. PICK m \in Sem, l \in {"ub_room", "ub_data", "dead"} : Post(t, m, l)
    BY <1>4 DEF Unblock, Sem
  <2>4. SyncOK' /\ PcOK'
    BY <1>0, <2>3, SemOK DEF PcOK
  <2> QED BY <2>1, <2>2, <2>4
<1>5. CASE SigTerm(t)
  <2>1. RingOK' /\ SyncOK' /\ HandOK' /\ ClientOK'
    BY <1>5 DEF SigTerm, RingOK, SyncOK, HandOK, ClientOK, ring, sync, client
  <2>2. InfoOK'
    BY <1>5 DEF SigTerm, InfoOK
  <2>3. PcOK'
    BY <1>5, <1>0 DEF SigTerm
  <2> QED BY <2>1, <2>2, <2>3
<1> QED BY <1>1, <1>2, <1>3, <1>4, <1>5 DEF Cancelled

(***************************************************************************)
(* The client's steps need more than types: see PlayBound.                 *)
(***************************************************************************)
TypeInv == TypeOK /\ PlayBound

LEMMA BeginStopType ==
  ASSUME TypeInv, NEW k \in {"idle", "play", "cleanup"}, BeginStop(k),
         pending' \subseteq Thread, k = "play" => sess < MaxPlays
  PROVE  TypeInv'
<1>1. InfoOK' /\ RingOK' /\ HandOK' /\ PcOK'
  BY DEF TypeInv, TypeOK, BeginStop, InfoOK, RingOK, HandOK, PcOK, ring
<1>2. SyncOK' /\ ClientOK'
  BY DEF TypeInv, TypeOK, BeginStop, SyncOK, ClientOK
<1>3. PlayBound'
  BY DEF BeginStop, PlayBound, StopStep
<1> QED BY <1>1, <1>2, <1>3 DEF TypeInv, TypeOK

LEMMA CallType ==
  ASSUME TypeInv, ClientCall
  PROVE  TypeInv'
<1> USE DEF TypeInv
<1>1. CASE Stop \/ Halt
  BY <1>1, BeginStopType DEF Stop, Halt, TypeOK, SyncOK
<1>2. CASE Play
  <2>1. CASE state # "COMPLETED"
    BY <1>2, <2>1, BeginStopType DEF Play, TypeOK, SyncOK
  <2>2. CASE state = "COMPLETED"
    <3>1. InfoOK' /\ RingOK' /\ SyncOK' /\ HandOK' /\ PcOK'
      BY <1>2, <2>2 DEF Play, BeginStop, TypeOK, InfoOK, RingOK, SyncOK,
                        HandOK, PcOK, info, ring, sync
    <3>2. ClientOK' /\ PlayBound'
      BY <1>2, <2>2 DEF Play, BeginStop, TypeOK, ClientOK, PlayBound, StopStep
    <3> QED BY <3>1, <3>2 DEF TypeOK
  <2> QED BY <2>1, <2>2
<1>3. CASE GetStatus
  BY <1>3, BeginStopType DEF GetStatus, TypeOK, SyncOK, Kill
<1>4. CASE PauseResume
  <2>1. RingOK' /\ SyncOK' /\ HandOK' /\ PcOK' /\ ClientOK' /\ PlayBound'
    BY <1>4 DEF PauseResume, TypeOK, RingOK, SyncOK, HandOK, PcOK, ClientOK,
                PlayBound, ring, sync, client
  <2>2. InfoOK'
    BY <1>4 DEF PauseResume, TypeOK, InfoOK
  <2> QED BY <2>1, <2>2 DEF TypeOK
<1> QED BY <1>1, <1>2, <1>3, <1>4 DEF ClientCall

LEMMA StepType ==
  ASSUME TypeInv, ClientStep
  PROVE  TypeInv'
<1> USE DEF TypeInv, TypeOK
<1>1. CASE JoinWriter
  <2>1. RingOK' /\ SyncOK' /\ HandOK' /\ PcOK'
    BY <1>1 DEF JoinWriter, RingOK, SyncOK, HandOK, PcOK, ring, sync
  <2>0. (cdda_done \in BOOLEAN)'
    BY <1>1 DEF JoinWriter, InfoOK
  <2>2. InfoOK' /\ ClientOK'
    BY <1>1, <2>0, PlaysAssumption DEF JoinWriter, InfoOK, ClientOK
  <2>3. PlayBound'
    BY <1>1 DEF JoinWriter, PlayBound, StopStep
  <2> QED BY <2>1, <2>2, <2>3
<1>2. CASE JoinReader
  <2>1. RingOK' /\ SyncOK' /\ HandOK' /\ PcOK'
    BY <1>2 DEF JoinReader, RingOK, SyncOK, HandOK, PcOK, ring, sync
  <2>0. (cdda_done \in BOOLEAN)'
    BY <1>2 DEF JoinReader, InfoOK
  <2>2. InfoOK' /\ ClientOK'
    BY <1>2, <2>0, PlaysAssumption DEF JoinReader, InfoOK, ClientOK
  <2>3. PlayBound'
    BY <1>2 DEF JoinReader, PlayBound, StopStep
  <2> QED BY <2>1, <2>2, <2>3
<1>3. CASE InitShm
  <2>1. RingOK' /\ SyncOK' /\ HandOK' /\ PcOK'
    BY <1>3 DEF InitShm, RingOK, SyncOK, HandOK, PcOK, ring, sync
  <2>0. (cdda_done \in BOOLEAN)'
    BY <1>3 DEF InitShm, InfoOK
  <2>2. InfoOK' /\ ClientOK'
    BY <1>3, <2>0, PlaysAssumption DEF InitShm, InfoOK, ClientOK
  <2>3. PlayBound'
    BY <1>3 DEF InitShm, PlayBound, StopStep, ClientOK
  <2> QED BY <2>1, <2>2, <2>3
<1>4. CASE Cleanup
  <2>1. HandOK' /\ PcOK' /\ ClientOK' /\ PlayBound'
    BY <1>4 DEF Cleanup, HandOK, PcOK, ClientOK, PlayBound, StopStep
  <2>2. InfoOK'
    BY <1>4 DEF Cleanup, InfoOK
  <2>3. RingOK'
    BY <1>4, BufferAssumption, PlaysAssumption
       DEF Cleanup, ResetRing, RingOK, Slot, Chunk, NoChunk
  <2>4. SyncOK'
    BY <1>4 DEF Cleanup, SyncOK, Sem
  <2> QED BY <2>1, <2>2, <2>3, <2>4
<1>5. CASE SetUp
  <2>1. HandOK' /\ PcOK'
    BY <1>5 DEF SetUp, HandOK, PcOK
  <2>2. InfoOK'
    BY <1>5, TotalsAssumption DEF SetUp, InfoOK
  <2>3. RingOK'
    BY <1>5, BufferAssumption DEF SetUp, ResetRing, RingOK, Slot
  <2>4. SyncOK'
    BY <1>5 DEF SetUp, SyncOK, Sem
  <2>5. ClientOK' /\ PlayBound'
    BY <1>5, PlaysAssumption DEF SetUp, ClientOK, PlayBound, StopStep
  <2> QED BY <2>1, <2>2, <2>3, <2>4, <2>5
<1>6. CASE CreateReader
  <2>0. cpc = "create_reader" /\ sess \in Session /\ R(sess) \in Thread
    BY <1>6, Threads, PlaysAssumption
       DEF CreateReader, PlayBound, ClientOK, Session
  <2>1. RingOK' /\ ClientOK' /\ PlayBound'
    BY <1>6, <2>0 DEF CreateReader, RingOK, ClientOK, PlayBound, StopStep, ring
  <2>2. InfoOK'
    BY <1>6, PlaysAssumption DEF CreateReader, InfoOK
  <2>3. SyncOK'
    BY <1>6, KillOK DEF CreateReader, SyncOK
  <2>4. PcOK'
    BY <1>6, <2>0, GotoOK DEF CreateReader, PcOK, ReaderLoc
  <2>5. HandOK'
    BY <1>6, <2>0, PlaysAssumption DEF CreateReader, HandOK, Chunk, Session
  <2> QED BY <2>1, <2>2, <2>3, <2>4, <2>5
<1>7. CASE CreateWriter
  <2>0. cpc = "create_writer" /\ sess \in Session /\ W(sess) \in Thread
    BY <1>7, Threads, PlaysAssumption
       DEF CreateWriter, PlayBound, ClientOK, Session
  <2>1. RingOK' /\ HandOK' /\ ClientOK' /\ PlayBound'
    BY <1>7 DEF CreateWriter, RingOK, HandOK, ClientOK, PlayBound, StopStep,
                ring
  <2>2. InfoOK'
    BY <1>7, PlaysAssumption DEF CreateWriter, InfoOK
  <2>3. SyncOK'
    BY <1>7, KillOK DEF CreateWriter, SyncOK
  <2>4. PcOK'
    BY <1>7, <2>0, GotoOK DEF CreateWriter, PcOK, WriterLoc
  <2> QED BY <2>1, <2>2, <2>3, <2>4
<1> QED BY <1>1, <1>2, <1>3, <1>4, <1>5, <1>6, <1>7 DEF ClientStep

(* A thread's step leaves the client alone. *)
LEMMA ThreadLeavesClient ==
  ASSUME NEW s, NEW t, Reader(s) \/ Writer(s) \/ Cancelled(t)
  PROVE  UNCHANGED client
<1>1. CASE Reader(s)
  BY <1>1 DEF Reader, ReaderStart, FillLock, Fill, FillRead, FillEnd,
              ReadLoop, ReadChunk, AwaitRoom, Put, PutEnd, ReaderDone
<1>2. CASE Writer(s)
  BY <1>2 DEF Writer, WriterStart, OpenOutputs, WriteLoop, CheckEnd,
              AwaitData, Take, TakeEnd, WriteChunk, Unpaused, WriteEnd,
              WriterDone
<1>3. CASE Cancelled(t)
  BY <1>3 DEF Cancelled, CancelAsleep, CancelAtIO, CancelBare, Unblock, SigTerm
<1> QED BY <1>1, <1>2, <1>3

LEMMA TypeNext == TypeInv /\ [Next]_vars => TypeInv'
<1> SUFFICES ASSUME TypeInv, [Next]_vars PROVE TypeInv'
  OBVIOUS
<1>1. ASSUME NEW s \in Session, Reader(s) \/ Writer(s)
      PROVE  TypeInv'
  <2>1. TypeOK'
    BY <1>1, ReaderType, WriterType DEF TypeInv
  <2>2. UNCHANGED client
    BY <1>1, ThreadLeavesClient
  <2> QED BY <2>1, <2>2 DEF TypeInv, PlayBound, client
<1>2. ASSUME NEW t \in Thread, Cancelled(t)
      PROVE  TypeInv'
  <2>1. TypeOK'
    BY <1>2, CancelledType DEF TypeInv
  <2>2. UNCHANGED client
    BY <1>2, ThreadLeavesClient
  <2> QED BY <2>1, <2>2 DEF TypeInv, PlayBound, client
<1>3. CASE ClientStep
  BY <1>3, StepType
<1>4. CASE ClientCall
  BY <1>4, CallType
<1>5. CASE UNCHANGED vars
  BY <1>5 DEF vars, info, ring, sync, client, TypeInv, PlayBound, TypeOK,
              InfoOK, RingOK, SyncOK, PcOK, HandOK, ClientOK
<1> QED BY <1>1, <1>2, <1>3, <1>4, <1>5 DEF Next

(* Type correctness: in every reachable state the ids the threads store    *)
(* are ids of plays and the ring's indices are slots of it.                *)
THEOREM TypeCorrect == Spec => []TypeOK
<1>1. Init => TypeInv
  BY TypeInit DEF Init, TypeInv, PlayBound, StopStep
<1>2. TypeInv /\ [Next]_vars => TypeInv'
  BY TypeNext
<1>3. TypeInv => TypeOK
  BY DEF TypeInv
<1> QED BY <1>1, <1>2, <1>3, PTL DEF Spec
-----------------------------------------------------------------------------
(***************************************************************************)
(* Mutual exclusion and quiescence with POSIX threads, for any number of   *)
(* plays, any buffer and areas, and all the failures of reads, writes and  *)
(* outputs and all the hangs that Cdda has, by induction on PthrInv; and   *)
(* that LOCK is never lost, with failing creations too.                    *)
(***************************************************************************)

(***************************************************************************)
(* What the step of one thread may do, whatever the thread and the step.   *)
(* LockStep is about LOCK: it is left alone, taken, or given up.           *)
(***************************************************************************)
LockStep(t) ==
  \/ /\ sem'["LOCK"] = sem["LOCK"]
     /\ InCS(t)' => InCS(t)
     /\ Retired(t) => Retired(t)'
  \/ sem["LOCK"] # 0 /\ sem'["LOCK"] = 0 /\ ~Retired(t)
  \/ ~InCS(t)' /\ (InCS(t) \/ Retired(t)')

Live == (ReaderLoc \cup WriterLoc) \ {"none", "new"}

Moves(t) ==
  /\ ~Gone(t)
  /\ UNCHANGED pc \/ \E l \in Live : Goto(t, l)
  /\ UNCHANGED client
  /\ asleep' \subseteq asleep \cup {t}
  /\ t \in asleep' => pc'[t] \in WaitLoc
  /\ LockStep(t)

RegistersR(s) ==
  writer' = writer /\ (reader' = s \/ (reader' = reader /\ pc[R(s)] # "new"))
RegistersW(s) ==
  reader' = reader /\ (writer' = s \/ (writer' = writer /\ pc[W(s)] # "new"))

LEMMA ReaderMoves ==
  ASSUME TypeOK, AsleepAt, CddaMethod = "pthreads",
         NEW s \in Session, Reader(s)
  PROVE  Moves(R(s)) /\ RegistersR(s)
<1> DEFINE t == R(s)
<1>0. t \in Thread /\ t[1] = "reader" /\ pc \in [Thread -> ReaderLoc \cup WriterLoc]
      /\ sem \in [Sem -> Nat]
  BY Threads DEF TypeOK, PcOK, SyncOK
<1> HIDE DEF t
<1> USE DEF Moves, RegistersR, LockStep, Live, Goto, Gone, InCS, Retired,
            ReaderLoc, ReaderCS, WriterLoc, WriterCS, AsleepAt, WaitLoc
<1>1. CASE ReaderStart(s)
  BY <1>0, <1>1 DEF ReaderStart, t, sync
<1>2. CASE FillLock(s)
  BY <1>0, <1>2 DEF FillLock, t, Wait, PthrWait, Sem, info, sync
<1>3. CASE Fill(s)
  BY <1>0, <1>3 DEF Fill, t, sync
<1>4. CASE FillRead(s)
  BY <1>0, <1>4 DEF FillRead, t, info, sync
<1>5. CASE FillEnd(s)
  BY <1>0, <1>5 DEF FillEnd, t, Wait, PthrWait, Post, PthrPost, Sem, info
<1>6. CASE ReadLoop(s)
  BY <1>0, <1>6 DEF ReadLoop, t, sync
<1>7. CASE ReadChunk(s)
  BY <1>0, <1>7 DEF ReadChunk, t, info, sync
<1>8. CASE AwaitRoom(s)
  BY <1>0, <1>8 DEF AwaitRoom, t, Wait, PthrWait, Post, PthrPost, Sem, info, sync
<1>9. CASE Put(s)
  BY <1>0, <1>9 DEF Put, t, info, sync
<1>10. CASE PutEnd(s)
  BY <1>0, <1>10 DEF PutEnd, t, Wait, PthrWait, Post, PthrPost, Sem, info
<1>11. CASE ReaderDone(s)
  BY <1>0, <1>11 DEF ReaderDone, t
<1> QED BY <1>1, <1>2, <1>3, <1>4, <1>5, <1>6, <1>7, <1>8, <1>9, <1>10,
         <1>11 DEF Reader

LEMMA WriterMoves ==
  ASSUME TypeOK, AsleepAt, CddaMethod = "pthreads",
         NEW s \in Session, Writer(s)
  PROVE  Moves(W(s)) /\ RegistersW(s)
<1> DEFINE t == W(s)
<1>0. t \in Thread /\ t[1] = "writer" /\ pc \in [Thread -> ReaderLoc \cup WriterLoc]
      /\ sem \in [Sem -> Nat]
  BY Threads DEF TypeOK, PcOK, SyncOK
<1> HIDE DEF t
<1> USE DEF Moves, RegistersW, LockStep, Live, Goto, Gone, InCS, Retired,
            ReaderLoc, ReaderCS, WriterLoc, WriterCS, AsleepAt, WaitLoc
<1>1. CASE WriterStart(s)
  BY <1>0, <1>1 DEF WriterStart, t, sync
<1>2. CASE OpenOutputs(s)
  BY <1>0, <1>2 DEF OpenOutputs, t, info, sync
<1>3. CASE WriteLoop(s)
  BY <1>0, <1>3 DEF WriteLoop, t, Wait, PthrWait, Sem, info, sync
<1>4. CASE CheckEnd(s)
  BY <1>0, <1>4 DEF CheckEnd, t, sync
<1>5. CASE AwaitData(s)
  BY <1>0, <1>5 DEF AwaitData, t, Wait, PthrWait, Post, PthrPost, Sem, info, sync
<1>6. CASE Take(s)
  BY <1>0, <1>6 DEF Take, t, info, sync
<1>7. CASE TakeEnd(s)
  BY <1>0, <1>7 DEF TakeEnd, t, Post, PthrPost, Sem, info
<1>8. CASE WriteChunk(s)
  BY <1>0, <1>8 DEF WriteChunk, t, sync
<1>9. CASE Unpaused(s)
  BY <1>0, <1>9 DEF Unpaused, t, info, sync
<1>10. CASE WriteEnd(s)
  BY <1>0, <1>10 DEF WriteEnd, t, Post, PthrPost, Sem, info
<1>11. CASE WriterDone(s)
  BY <1>0, <1>11 DEF WriterDone, t
<1> QED BY <1>1, <1>2, <1>3, <1>4, <1>5, <1>6, <1>7, <1>8, <1>9, <1>10,
         <1>11 DEF Writer

LEMMA CancelMoves ==
  ASSUME TypeOK, AsleepAt, CddaMethod = "pthreads",
         NEW t \in Thread, Cancelled(t)
  PROVE  /\ Moves(t) /\ UNCHANGED <<reader, writer>>
         /\ pc[t] # "new"
<1>0. pc \in [Thread -> ReaderLoc \cup WriterLoc] /\ sem \in [Sem -> Nat]
  BY DEF TypeOK, PcOK, SyncOK
<1> USE DEF Moves, LockStep, Live, Goto, Gone, InCS, Retired,
            ReaderLoc, ReaderCS, WriterLoc, WriterCS, AsleepAt, WaitLoc
<1>1. CASE CancelAsleep(t)
  BY <1>0, <1>1 DEF CancelAsleep, info
<1>2. CASE CancelAtIO(t)
  BY <1>0, <1>2 DEF CancelAtIO, AtIO, info, sync
<1>3. CASE CancelBare(t)
  BY <1>0, <1>3 DEF CancelBare, info, sync
<1>4. CASE Unblock(t)
  BY <1>0, <1>4 DEF Unblock, Post, PthrPost, Sem
<1>5. CASE SigTerm(t)
  BY <1>5 DEF SigTerm
<1> QED BY <1>1, <1>2, <1>3, <1>4, <1>5 DEF Cancelled

(***************************************************************************)
(* A step of one thread keeps the invariant: it is a thread of the last    *)
(* play, and nobody else moves.                                            *)
(***************************************************************************)
LEMMA MovesKeep ==
  ASSUME TypeOK, PthrInv, NEW s \in Session, NEW t \in {R(s), W(s)}, Moves(t),
         t = R(s) => RegistersR(s), t = W(s) => RegistersW(s)
  PROVE  PthrInv'
<1> USE DEF PthrInv
<1>0. /\ t \in Thread /\ pc \in [Thread -> ReaderLoc \cup WriterLoc]
      /\ sess \in 0..MaxPlays /\ Session \subseteq Nat \ {0} /\ sess \in Nat
      /\ R(s) # W(s)
  BY Threads, PlaysAssumption DEF TypeOK, PcOK, ClientOK, Session
<1>1. s = sess /\ sess # 0 /\ ~Gone(t)
  BY <1>0 DEF OldGone, Moves, Gone
<1>2. /\ pc' \in [Thread -> ReaderLoc \cup WriterLoc]
      /\ \A u \in Thread : u # t => pc'[u] = pc[u]
      /\ pc'[t] = pc[t] \/ pc'[t] \notin {"none", "new"}
  BY <1>0 DEF Moves, Goto, Live
<1>3. /\ \A u \in Thread : Gone(u) => pc'[u] = pc[u] /\ Gone(u)'
      /\ \A u \in Thread : pc'[u] = "new" => pc[u] = "new"
      /\ \A u \in Thread : ~Gone(u)' => ~Gone(u)
  BY <1>1, <1>2 DEF Gone
<1>4. UNCHANGED <<cpc, after, tid, sess>>
  BY DEF Moves, client
<1>5. PlayBound'
  BY <1>4 DEF PlayBound
<1>6. OldGone'
  BY <1>1, <1>2, <1>3, <1>4, <1>0, Threads DEF OldGone
<1>7. Registered'
  <2>1. CASE t = R(s)
    <3>1. writer' = writer /\ reader' \in {0, sess}
      BY <2>1, <1>1 DEF RegistersR, Registered
    <3>2. ASSUME NEW u \in Session, ~Gone(R(u))', pc'[R(u)] # "new"
          PROVE  reader' = u
      <4>1. u = s
        BY <3>2, <1>0, <1>1, <1>3, Threads DEF OldGone, Gone
      <4>2. pc[R(s)] # "new" => reader = s
        BY <2>1, <1>1 DEF Registered
      <4> QED BY <2>1, <4>1, <4>2 DEF RegistersR
    <3>3. \A u \in Session : pc'[W(u)] = pc[W(u)]
      BY <2>1, <1>2, Threads
    <3> QED BY <3>1, <3>2, <3>3, <1>4 DEF Registered, Gone
  <2>2. CASE t = W(s)
    <3>1. reader' = reader /\ writer' \in {0, sess}
      BY <2>2, <1>1 DEF RegistersW, Registered
    <3>2. ASSUME NEW u \in Session, ~Gone(W(u))', pc'[W(u)] # "new"
          PROVE  writer' = u
      <4>1. u = s
        BY <3>2, <1>0, <1>1, <1>3, Threads DEF OldGone, Gone
      <4>2. pc[W(s)] # "new" => writer = s
        BY <2>2, <1>1 DEF Registered
      <4> QED BY <2>2, <4>1, <4>2 DEF RegistersW
    <3>3. \A u \in Session : pc'[R(u)] = pc[R(u)]
      BY <2>2, <1>2, Threads
    <3> QED BY <3>1, <3>2, <3>3, <1>4 DEF Registered, Gone
  <2> QED BY <2>1, <2>2
<1>8. ClientAt'
  <2>1. cpc \in StopStep \cup {"play", "cleanup", "create_reader"} => NoNew'
    BY <1>3 DEF ClientAt, NoNew
  <2>2. WritersGone => WritersGone' /\ t = R(s)
    BY <1>1, <1>3, Threads DEF WritersGone
  <2>3. ReadersGone => ReadersGone' /\ t = W(s)
    BY <1>1, <1>3, Threads DEF ReadersGone
  <2>4. ~(WritersGone /\ ReadersGone)
    BY <2>2, <2>3, <1>0
  <2>5. cpc # "create_reader" /\ cpc # "play"
    BY <2>4 DEF ClientAt
  <2>6. cpc = "create_writer" => writer' = 0 /\ pc'[W(sess)] = "none"
    <3> SUFFICES ASSUME cpc = "create_writer"
                 PROVE  writer' = 0 /\ pc'[W(sess)] = "none"
      OBVIOUS
    <3>1. t = R(s) /\ pc[W(sess)] = "none" /\ writer = 0
      BY <2>2 DEF ClientAt
    <3> QED BY <3>1, <1>0, <1>1, <1>2, Threads DEF RegistersR
  <2> QED BY <1>4, <2>1, <2>2, <2>3, <2>5, <2>6 DEF ClientAt
<1>9. LockInv'
  <2> SUFFICES ASSUME NEW u \in Session
               PROVE  /\ InCS(R(u))' => sem'["LOCK"] = 0 \/ Retired(W(u))'
                      /\ InCS(W(u))' => sem'["LOCK"] = 0 \/ Retired(R(u))'
                      /\ ~(InCS(R(u))' /\ InCS(W(u))')
    BY DEF LockInv
  <2>1. CASE u # s
    <3>1. Gone(R(u)) /\ Gone(W(u))
      BY <2>1, <1>0, <1>1 DEF OldGone, Gone
    <3>2. Gone(R(u))' /\ Gone(W(u))'
      BY <3>1, <1>3, Threads
    <3> QED BY <3>2, Threads DEF Gone, InCS, ReaderCS, WriterCS
  <2>2. CASE u = s /\ t = R(s)
    <3>1. pc'[W(s)] = pc[W(s)]
      BY <2>2, <1>0, <1>2, Threads
    <3>2. InCS(W(s))' = InCS(W(s)) /\ Retired(W(s))' = Retired(W(s))
      BY <3>1 DEF InCS, Retired
    <3>3. LockStep(R(s))
      BY <2>2 DEF Moves
    <3>4. Retired(R(s))' => ~InCS(R(s))'
      BY Threads DEF Retired, InCS, ReaderCS
    <3> QED BY <2>2, <3>2, <3>3, <3>4 DEF LockInv, LockStep
  <2>3. CASE u = s /\ t = W(s)
    <3>1. pc'[R(s)] = pc[R(s)]
      BY <2>3, <1>0, <1>2, Threads
    <3>2. InCS(R(s))' = InCS(R(s)) /\ Retired(R(s))' = Retired(R(s))
      BY <3>1 DEF InCS, Retired
    <3>3. LockStep(W(s))
      BY <2>3 DEF Moves
    <3>4. Retired(W(s))' => ~InCS(W(s))'
      BY Threads DEF Retired, InCS, WriterCS
    <3> QED BY <2>3, <3>2, <3>3, <3>4 DEF LockInv, LockStep
  <2> QED BY <2>1, <2>2, <2>3
<1>10. AsleepAt'
  <2> SUFFICES ASSUME NEW u \in asleep' PROVE pc'[u] \in WaitLoc
    BY DEF AsleepAt
  <2>1. CASE u = t
    BY <2>1 DEF Moves
  <2>2. CASE u # t
    BY <2>2, <1>2 DEF Moves, AsleepAt, TypeOK, SyncOK
  <2> QED BY <2>1, <2>2
<1> QED BY <1>5, <1>6, <1>7, <1>8, <1>9, <1>10

LEMMA ThreadsKeep ==
  ASSUME TypeOK, PthrInv, CddaMethod = "pthreads",
         \/ \E s \in Session : Reader(s) \/ Writer(s)
         \/ \E t \in Thread : Cancelled(t)
  PROVE  PthrInv'
<1>0. AsleepAt
  BY DEF PthrInv
<1>1. ASSUME NEW s \in Session, Reader(s) PROVE PthrInv'
  BY <1>0, <1>1, ReaderMoves, MovesKeep, Threads
<1>2. ASSUME NEW s \in Session, Writer(s) PROVE PthrInv'
  BY <1>0, <1>2, WriterMoves, MovesKeep, Threads
<1>3. ASSUME NEW t \in Thread, Cancelled(t) PROVE PthrInv'
  <2>1. PICK s \in Session : t \in {R(s), W(s)}
    BY Threads
  <2>2. Moves(t) /\ UNCHANGED <<reader, writer>> /\ pc[t] # "new"
    BY <1>0, <1>3, CancelMoves
  <2>3. /\ t = R(s) => RegistersR(s)
        /\ t = W(s) => RegistersW(s)
    BY <2>2 DEF RegistersR, RegistersW
  <2> QED BY <2>1, <2>2, <2>3, MovesKeep
<1> QED BY <1>1, <1>2, <1>3

(***************************************************************************)
(* The client's side: a call finds no new thread, and a stop leaves none   *)
(* behind, because a thread that is not new is registered until it is      *)
(* joined.                                                                 *)
(***************************************************************************)
LEMMA UnregisteredGone ==
  ASSUME PthrInv, NoNew
  PROVE  /\ writer = 0 => WritersGone
         /\ reader = 0 => ReadersGone
  BY Threads, PlaysAssumption
     DEF PthrInv, Registered, NoNew, WritersGone, ReadersGone, Session

(* What depends on pc, LOCK and asleep only. *)
LEMMA SameThreads ==
  ASSUME PthrInv, UNCHANGED <<pc, sess, asleep>>, sem'["LOCK"] = sem["LOCK"]
  PROVE  OldGone' /\ LockInv' /\ AsleepAt'
<1> USE DEF PthrInv
<1>1. OldGone'
  BY DEF OldGone, Gone
<1>2. LockInv'
  BY DEF LockInv, InCS, Retired
<1>3. AsleepAt'
  BY DEF AsleepAt
<1> QED BY <1>1, <1>2, <1>3

LEMMA BeginStopKeeps ==
  ASSUME TypeInv, PthrInv, NEW k \in {"idle", "play", "cleanup"}, BeginStop(k),
         k = "play" => sess < MaxPlays, NoNew
  PROVE  PthrInv'
<1>1. OldGone' /\ LockInv' /\ AsleepAt'
  BY SameThreads DEF BeginStop
<1>2. Registered'
  BY DEF BeginStop, PthrInv, Registered, Gone
<1>3. PlayBound'
  BY DEF BeginStop, PlayBound, StopStep
<1>4. ClientAt'
  BY DEF BeginStop, ClientAt, StopStep, NoNew
<1> QED BY <1>1, <1>2, <1>3, <1>4 DEF PthrInv

LEMMA CallKeeps ==
  ASSUME TypeInv, PthrInv, Orderly, ClientCall
  PROVE  PthrInv'
<1>0. NoNew
  BY DEF ClientCall, Stop, Halt, Play, GetStatus, PauseResume, Idle, Settled,
         NoNew
<1>1. CASE Stop \/ Halt \/ GetStatus
  BY <1>0, <1>1, BeginStopKeeps DEF Stop, Halt, GetStatus
<1>2. CASE Play
  <2>1. CASE state # "COMPLETED"
    BY <1>0, <1>2, <2>1, BeginStopKeeps DEF Play
  <2>2. CASE state = "COMPLETED"
    <3>0. /\ reader = 0 /\ writer = 0 /\ cpc' = "play" /\ sess < MaxPlays
          /\ UNCHANGED <<info, ring, sync, pc, hand, after, tid, sess, out>>
      BY <1>2, <2>2 DEF Play, BeginStop
    <3>1. OldGone' /\ LockInv' /\ AsleepAt'
      BY <3>0, SameThreads DEF sync
    <3>2. Registered' /\ PlayBound'
      BY <3>0 DEF PthrInv, Registered, PlayBound, StopStep, Gone, info
    <3>3. WritersGone /\ ReadersGone
      BY <1>0, <3>0, UnregisteredGone
    <3>4. NoNew' /\ WritersGone' /\ ReadersGone'
      BY <1>0, <3>0, <3>3 DEF NoNew, WritersGone, ReadersGone, Gone
    <3>5. ClientAt'
      BY <3>0, <3>4 DEF ClientAt, StopStep, info
    <3> QED BY <3>1, <3>2, <3>5 DEF PthrInv
  <2> QED BY <2>1, <2>2
<1>3. CASE PauseResume
  <2>0. /\ UNCHANGED <<reader, writer, sem, asleep, pc, tid, sess>>
        /\ UNCHANGED <<cpc, after>>
    BY <1>3 DEF PauseResume, sync, client
  <2>1. OldGone' /\ LockInv' /\ AsleepAt'
    BY <2>0, SameThreads
  <2>2. Registered' /\ PlayBound'
    BY <2>0 DEF PthrInv, Registered, PlayBound, Gone
  <2>3. ClientAt'
    BY <2>0 DEF PthrInv, ClientAt, NoNew, WritersGone, ReadersGone, Gone
  <2> QED BY <2>1, <2>2, <2>3 DEF PthrInv
<1> QED BY <1>1, <1>2, <1>3 DEF ClientCall

LEMMA JoinKeeps ==
  ASSUME TypeInv, PthrInv, JoinWriter \/ JoinReader \/ InitShm
  PROVE  PthrInv'
<1> USE DEF PthrInv, StopStep
<1>0. /\ UNCHANGED <<sem, owner, asleep, pc, sess, after>>
      /\ NoNew /\ cpc \in StopStep /\ sess \in 0..MaxPlays
      /\ Session \subseteq Nat \ {0} /\ sess \in Nat
  BY PlaysAssumption
     DEF JoinWriter, JoinReader, InitShm, sync, ClientAt, TypeInv, TypeOK,
         ClientOK, Session
<1>1. OldGone' /\ LockInv' /\ AsleepAt'
  BY <1>0, SameThreads
<1>2. NoNew'
  BY <1>0 DEF NoNew
<1>3. /\ WritersGone => WritersGone'
      /\ ReadersGone => ReadersGone'
  BY <1>0 DEF WritersGone, ReadersGone, Gone
<1>4. CASE JoinWriter
  <2>1. PlayBound'
    BY <1>0, <1>4 DEF JoinWriter, PlayBound
  <2>2. cpc' = "join_reader" => WritersGone
    <3>1. CASE cpc = "join_writer"
      BY <1>0, <1>4, <3>1, UnregisteredGone DEF JoinWriter
    <3>2. CASE cpc = "wait_writer"
      <4>1. pc[W(sess)] = "dead"
        BY <1>4, <3>2 DEF JoinWriter, ClientAt
      <4>2. \A s \in Session : s < sess \/ s = sess \/ s > sess
        BY <1>0
      <4> QED BY <4>1, <4>2 DEF WritersGone, OldGone, Gone
    <3> QED BY <1>4, <3>1, <3>2 DEF JoinWriter
  <2>3. Registered'
    BY <1>0, <1>4, <2>2 DEF JoinWriter, Registered, WritersGone, Gone
  <2>4. ClientAt'
    BY <1>0, <1>2, <1>3, <1>4, <2>2 DEF JoinWriter, ClientAt, Registered
  <2> QED BY <1>1, <2>1, <2>3, <2>4
<1>5. CASE JoinReader
  <2>0. WritersGone
    BY <1>5 DEF JoinReader, ClientAt
  <2>1. PlayBound'
    BY <1>0, <1>5 DEF JoinReader, PlayBound
  <2>2. cpc' = "initshm" => ReadersGone
    <3>1. CASE cpc = "join_reader"
      BY <1>0, <1>5, <3>1, UnregisteredGone DEF JoinReader
    <3>2. CASE cpc = "wait_reader"
      <4>1. pc[R(sess)] = "dead"
        BY <1>5, <3>2 DEF JoinReader, ClientAt
      <4>2. \A s \in Session : s < sess \/ s = sess \/ s > sess
        BY <1>0
      <4> QED BY <4>1, <4>2 DEF ReadersGone, OldGone, Gone
    <3> QED BY <1>5, <3>1, <3>2 DEF JoinReader
  <2>3. Registered'
    BY <1>0, <1>5, <2>2 DEF JoinReader, Registered, ReadersGone, Gone
  <2>4. ClientAt'
    BY <1>0, <1>2, <1>3, <1>5, <2>0, <2>2 DEF JoinReader, ClientAt, Registered
  <2> QED BY <1>1, <2>1, <2>3, <2>4
<1>6. CASE InitShm
  <2>0. WritersGone /\ ReadersGone
    BY <1>6 DEF InitShm, ClientAt
  <2>1. PlayBound'
    BY <1>0, <1>6 DEF InitShm, PlayBound, TypeInv, TypeOK, ClientOK
  <2>2. Registered'
    BY <1>0, <1>6, <2>0 DEF InitShm, Registered, ReadersGone, WritersGone, Gone
  <2>3. ClientAt'
    BY <1>0, <1>2, <1>3, <1>6, <2>0
       DEF InitShm, ClientAt, TypeInv, TypeOK, ClientOK
  <2> QED BY <1>1, <2>1, <2>2, <2>3
<1> QED BY <1>4, <1>5, <1>6

(* The shared state is reset, and freed, with no thread around. *)
LEMMA ResetKeeps ==
  ASSUME TypeInv, PthrInv, "create" \notin Faults, Cleanup \/ SetUp
  PROVE  PthrInv'
<1> USE DEF PthrInv, StopStep
<1>0. /\ sess \in Nat /\ MaxPlays \in Nat
      /\ Session \subseteq Nat \ {0} /\ pc' = pc /\ asleep' = asleep
      /\ UNCHANGED <<reader, writer, tid, after>>
  BY PlaysAssumption
     DEF Cleanup, SetUp, TypeInv, TypeOK, ClientOK, Session
<1>1. WritersGone /\ ReadersGone /\ NoNew
  BY DEF Cleanup, SetUp, ClientAt
<1>2. WritersGone' /\ ReadersGone' /\ NoNew'
  BY <1>0, <1>1 DEF WritersGone, ReadersGone, NoNew, Gone
<1>3. LockInv'
  BY <1>2, Threads
     DEF WritersGone, ReadersGone, Gone, LockInv, InCS, ReaderCS, WriterCS
<1>4. AsleepAt'
  BY <1>0 DEF AsleepAt
<1>5. CASE Cleanup
  <2>1. OldGone' /\ Registered'
    BY <1>0, <1>5 DEF Cleanup, OldGone, Registered, Gone
  <2>2. PlayBound' /\ ClientAt'
    BY <1>5 DEF Cleanup, PlayBound, ClientAt
  <2> QED BY <1>3, <1>4, <2>1, <2>2
<1>6. CASE SetUp
  <2>0. /\ cpc = "play" /\ cpc' = "create_reader" /\ sess' = sess + 1
        /\ reader = 0 /\ writer = 0 /\ sess < MaxPlays
    BY <1>6 DEF SetUp, ClientAt, PlayBound
  <2>1. sess' \in Session
    BY <1>0, <2>0 DEF Session
  <2>2. OldGone'
    BY <1>0, <1>2, <2>0 DEF OldGone, WritersGone, ReadersGone, Gone
  <2>3. Registered'
    BY <1>0, <1>2, <2>0 DEF Registered, WritersGone, ReadersGone, Gone
  <2>4. PlayBound'
    BY <1>0, <2>0 DEF PlayBound
  <2>5. ClientAt'
    BY <1>0, <1>2, <2>0, <2>1 DEF ClientAt, OldGone
  <2> QED BY <1>3, <1>4, <2>2, <2>3, <2>4, <2>5
<1> QED BY <1>5, <1>6

(* A new thread: nobody had its name, and it is nowhere near the lock. *)
LEMMA CreateKeeps ==
  ASSUME TypeInv, PthrInv, "create" \notin Faults, CreateReader \/ CreateWriter
  PROVE  PthrInv'
<1> USE DEF PthrInv, StopStep
<1>0. /\ sess \in Session /\ sess \in Nat /\ Session \subseteq Nat \ {0}
      /\ R(sess) \in Thread /\ W(sess) \in Thread
      /\ pc \in [Thread -> ReaderLoc \cup WriterLoc]
  BY Threads, PlaysAssumption
     DEF CreateReader, CreateWriter, PlayBound, TypeInv, TypeOK, ClientOK,
         PcOK, Session
<1>1. PICK t \in {R(sess), W(sess)} :
        /\ pc[t] = "none" /\ Goto(t, "new")
        /\ UNCHANGED <<reader, writer, sem, asleep, after, tid, sess>>
        /\ t = R(sess) => cpc = "create_reader" /\ cpc' = "create_writer"
        /\ t = W(sess) => cpc = "create_writer" /\ cpc' = "idle"
  <2>1. CASE CreateReader
    BY <1>0, <2>1, Threads DEF CreateReader, ClientAt
  <2>2. CASE CreateWriter
    BY <1>0, <2>2, Threads DEF CreateWriter, ClientAt
  <2> QED BY <2>1, <2>2
<1>2. /\ pc'[t] = "new" /\ t \in Thread
      /\ \A u \in Thread : u # t => pc'[u] = pc[u]
  BY <1>0, <1>1 DEF Goto
<1>3. \A u \in Session :
         /\ R(u) = t => u = sess /\ t # W(u)
         /\ W(u) = t => u = sess /\ t # R(u)
  BY <1>1, Threads
<1>4. OldGone'
  BY <1>0, <1>1, <1>2, <1>3, Threads DEF OldGone, Gone
<1>5. Registered'
  BY <1>0, <1>1, <1>2, <1>3, Threads DEF Registered, Gone
<1>6. PlayBound'
  BY <1>1 DEF PlayBound
<1>7. ClientAt'
  <2>1. CASE t = W(sess)
    BY <1>1, <2>1 DEF ClientAt
  <2>2. CASE t = R(sess)
    <3>1. WritersGone /\ writer = 0 /\ pc[W(sess)] = "none"
      BY <1>1, <2>2 DEF ClientAt
    <3>2. \A u \in Session : W(u) # t /\ W(u) \in Thread
      BY <2>2, Threads
    <3>3. WritersGone'
      BY <1>2, <3>1, <3>2 DEF WritersGone, Gone
    <3>4. pc'[W(sess)] = "none"
      BY <1>0, <1>2, <3>1, <3>2
    <3> QED BY <1>1, <2>2, <3>1, <3>3, <3>4 DEF ClientAt
  <2> QED BY <1>1, <2>1, <2>2
<1>8. LockInv'
  <2> SUFFICES ASSUME NEW u \in Session
               PROVE  /\ InCS(R(u))' => sem'["LOCK"] = 0 \/ Retired(W(u))'
                      /\ InCS(W(u))' => sem'["LOCK"] = 0 \/ Retired(R(u))'
                      /\ ~(InCS(R(u))' /\ InCS(W(u))')
    BY DEF LockInv
  <2>1. CASE t # R(u) /\ t # W(u)
    <3>1. pc'[R(u)] = pc[R(u)] /\ pc'[W(u)] = pc[W(u)]
      BY <1>2, <2>1, Threads
    <3> QED BY <1>1, <3>1 DEF LockInv, InCS, Retired
  <2>2. CASE t = R(u)
    <3>1. pc'[R(u)] = "new" /\ pc'[W(u)] = pc[W(u)] /\ Gone(W(u))
      BY <1>1, <1>2, <1>3, <2>2, Threads DEF ClientAt, WritersGone
    <3> QED BY <3>1, Threads DEF Gone, InCS, ReaderCS, WriterCS
  <2>3. CASE t = W(u)
    <3>1. /\ pc'[W(u)] = "new" /\ pc'[R(u)] = pc[R(u)]
          /\ pc[W(u)] = "none"
      BY <1>1, <1>2, <1>3, <2>3, Threads
    <3>2. InCS(R(u))' = InCS(R(u)) /\ ~InCS(W(u))' /\ ~Retired(W(u))
      BY <3>1, Threads DEF InCS, WriterCS, Retired
    <3> QED BY <1>1, <3>2 DEF LockInv
  <2> QED BY <2>1, <2>2, <2>3
<1>9. AsleepAt'
  <2>1. t \notin asleep
    BY <1>1 DEF AsleepAt, WaitLoc
  <2> QED BY <1>1, <1>2, <2>1 DEF AsleepAt, TypeInv, TypeOK, SyncOK
<1> QED BY <1>4, <1>5, <1>6, <1>7, <1>8, <1>9

LEMMA PthrNext ==
  Pthreads /\ TypeInv /\ PthrInv /\ [Next]_vars => PthrInv'
<1> SUFFICES ASSUME Pthreads, TypeInv, PthrInv, [Next]_vars
             PROVE  PthrInv'
  OBVIOUS
<1> USE DEF Pthreads
<1>1. CASE \/ \E s \in Session : Reader(s) \/ Writer(s)
           \/ \E t \in Thread : Cancelled(t)
  BY <1>1, ThreadsKeep DEF TypeInv
<1>2. CASE ClientStep
  BY <1>2, JoinKeeps, ResetKeeps, CreateKeeps DEF ClientStep
<1>3. CASE ClientCall
  BY <1>3, CallKeeps
<1>4. CASE UNCHANGED vars
  <2>1. /\ UNCHANGED <<pc, asleep, sem, reader, writer>>
        /\ UNCHANGED <<cpc, after, tid, sess>>
    BY <1>4 DEF vars, info, sync, client
  <2>2. OldGone' /\ LockInv' /\ AsleepAt'
    BY <2>1, SameThreads
  <2>3. PlayBound' /\ Registered' /\ ClientAt'
    BY <2>1 DEF PthrInv, PlayBound, Registered, ClientAt, NoNew, WritersGone,
                ReadersGone, Gone
  <2> QED BY <2>2, <2>3 DEF PthrInv
<1> QED BY <1>1, <1>2, <1>3, <1>4 DEF Next

LEMMA PthrInit == Init => PthrInv
<1> SUFFICES ASSUME Init PROVE PthrInv
  OBVIOUS
<1>1. \A s \in Session : pc[R(s)] = "none" /\ pc[W(s)] = "none"
  BY Threads DEF Init
<1>2. OldGone /\ LockInv /\ AsleepAt
  BY <1>1, Threads
     DEF Init, OldGone, LockInv, AsleepAt, Gone, InCS, ReaderCS, WriterCS
<1>3. Registered /\ PlayBound /\ ClientAt
  BY <1>1 DEF Init, Registered, PlayBound, ClientAt, StopStep, Gone
<1> QED BY <1>2, <1>3 DEF PthrInv

LEMMA PthrInvariant == ASSUME Pthreads PROVE Spec => []PthrInv
<1>1. Init => TypeInv /\ PthrInv
  BY TypeInit, PthrInit DEF PthrInv, TypeInv
<1>2. TypeInv /\ PthrInv /\ [Next]_vars => TypeInv' /\ PthrInv'
  BY TypeNext, PthrNext
<1> QED BY <1>1, <1>2, PTL DEF Spec

(* At most one thread is between waitsem(LOCK) and postsem(LOCK), although *)
(* failing and cancelled threads post LOCK without holding it.             *)
THEOREM MutualExclusionHolds ==
  ASSUME Pthreads PROVE Spec => []MutualExclusion
<1>1. ASSUME PthrInv, TypeOK PROVE MutualExclusion
  <2> SUFFICES ASSUME NEW t \in Thread, NEW u \in Thread, t # u,
                      InCS(t), InCS(u)
               PROVE  FALSE
    BY DEF MutualExclusion
  <2>1. \A v \in Thread : InCS(v) => v \in {R(sess), W(sess)} /\ sess \in Session
    <3> SUFFICES ASSUME NEW v \in Thread, InCS(v)
                 PROVE  v \in {R(sess), W(sess)} /\ sess \in Session
      OBVIOUS
    <3>1. PICK s \in Session : v = R(s) \/ v = W(s)
      BY Threads
    <3>2. ~Gone(v)
      BY DEF Gone, InCS, ReaderCS, WriterCS
    <3>3. s \in Nat /\ sess \in Nat
      BY <1>1, PlaysAssumption DEF TypeOK, ClientOK, Session
    <3> QED BY <1>1, <3>1, <3>2, <3>3 DEF PthrInv, OldGone, Gone
  <2> QED BY <1>1, <2>1 DEF PthrInv, LockInv
<1>2. PthrInv /\ TypeOK => MutualExclusion
  BY <1>1
<1> QED BY <1>2, PthrInvariant, TypeCorrect, PTL

(* No thread of an earlier play is left when cdda_play resets the shared   *)
(* state or cdda_halt frees it.                                            *)
THEOREM QuiescentHolds ==
  ASSUME Pthreads PROVE Spec => []Quiescent
<1>1. PthrInv => Quiescent
  BY Threads DEF PthrInv, ClientAt, Quiescent, WritersGone, ReadersGone
<1> QED BY <1>1, PthrInvariant, PTL
-----------------------------------------------------------------------------
(***************************************************************************)
(* LOCK is never leaked, whatever fails and however the client calls: a    *)
(* step of a thread posts LOCK, takes it and owes it, or goes on owing it. *)
(***************************************************************************)
OweStep(t) ==
  /\ ~Gone(t) /\ UNCHANGED client
  /\ UNCHANGED pc \/ \E l \in Live : Goto(t, l)
  /\ \/ sem'["LOCK"] = 1
     \/ sem'["LOCK"] = 0 /\ Owes(t)'
     \/ sem'["LOCK"] = sem["LOCK"] /\ (Owes(t) => Owes(t)')

LEMMA ReaderOwes ==
  ASSUME TypeOK, CddaMethod = "pthreads", NEW s \in Session, Reader(s)
  PROVE  OweStep(R(s))
<1> DEFINE t == R(s)
<1>0. /\ t \in Thread /\ t[1] = "reader" /\ sem \in [Sem -> Nat]
      /\ pc \in [Thread -> ReaderLoc \cup WriterLoc] /\ UNCHANGED client
  BY Threads, ThreadLeavesClient DEF TypeOK, PcOK, SyncOK
<1> HIDE DEF t
<1> USE DEF OweStep, Owes, Live, Goto, Gone, InCS, ReaderLoc, ReaderCS,
            WriterLoc, WriterCS
<1>1. CASE ReaderStart(s) \/ Fill(s) \/ ReadLoop(s) \/ ReadChunk(s)
  BY <1>0, <1>1 DEF ReaderStart, Fill, ReadLoop, ReadChunk, t, sync
<1>2. CASE FillLock(s)
  BY <1>0, <1>2 DEF FillLock, t, Wait, PthrWait, Sem
<1>3. CASE FillRead(s) \/ Put(s)
  BY <1>0, <1>3 DEF FillRead, Put, t, sync
<1>4. CASE FillEnd(s)
  BY <1>0, <1>4 DEF FillEnd, t, Wait, PthrWait, Post, PthrPost, Sem
<1>5. CASE AwaitRoom(s)
  BY <1>0, <1>5 DEF AwaitRoom, t, Wait, PthrWait, Post, PthrPost, Sem, sync
<1>6. CASE PutEnd(s)
  BY <1>0, <1>6 DEF PutEnd, t, Post, PthrPost, Sem
<1>7. CASE ReaderDone(s)
  BY <1>0, <1>7 DEF ReaderDone, t
<1> QED BY <1>1, <1>2, <1>3, <1>4, <1>5, <1>6, <1>7 DEF Reader, t

LEMMA WriterOwes ==
  ASSUME TypeOK, CddaMethod = "pthreads", NEW s \in Session, Writer(s)
  PROVE  OweStep(W(s))
<1> DEFINE t == W(s)
<1>0. /\ t \in Thread /\ t[1] = "writer" /\ sem \in [Sem -> Nat]
      /\ pc \in [Thread -> ReaderLoc \cup WriterLoc] /\ UNCHANGED client
  BY Threads, ThreadLeavesClient DEF TypeOK, PcOK, SyncOK
<1> HIDE DEF t
<1> USE DEF OweStep, Owes, Live, Goto, Gone, InCS, ReaderLoc, ReaderCS,
            WriterLoc, WriterCS
<1>1. CASE WriterStart(s) \/ OpenOutputs(s) \/ CheckEnd(s) \/ Unpaused(s)
  BY <1>0, <1>1 DEF WriterStart, OpenOutputs, CheckEnd, Unpaused, t, sync
<1>2. CASE WriteLoop(s)
  BY <1>0, <1>2 DEF WriteLoop, t, Wait, PthrWait, Sem, sync
<1>3. CASE Take(s) \/ WriteChunk(s)
  BY <1>0, <1>3 DEF Take, WriteChunk, t, sync
<1>4. CASE AwaitData(s)
  BY <1>0, <1>4 DEF AwaitData, t, Wait, PthrWait, Post, PthrPost, Sem, sync
<1>5. CASE TakeEnd(s)
  BY <1>0, <1>5 DEF TakeEnd, t, Post, PthrPost, Sem
<1>6. CASE WriteEnd(s)
  BY <1>0, <1>6 DEF WriteEnd, t, Post, PthrPost, Sem
<1>7. CASE WriterDone(s)
  BY <1>0, <1>7 DEF WriterDone, t
<1> QED BY <1>1, <1>2, <1>3, <1>4, <1>5, <1>6, <1>7 DEF Writer, t

LEMMA CancelOwes ==
  ASSUME TypeOK, CddaMethod = "pthreads", NEW t \in Thread, Cancelled(t),
         asleep \subseteq {u \in Thread : pc[u] \in WaitLoc}
  PROVE  OweStep(t)
<1>0. /\ pc \in [Thread -> ReaderLoc \cup WriterLoc] /\ sem \in [Sem -> Nat]
      /\ UNCHANGED client
  BY ThreadLeavesClient DEF TypeOK, PcOK, SyncOK
<1> USE DEF OweStep, Owes, Live, Goto, Gone, InCS, ReaderLoc, ReaderCS,
            WriterLoc, WriterCS, WaitLoc
<1>1. CASE CancelAsleep(t)
  BY <1>0, <1>1 DEF CancelAsleep
<1>2. CASE CancelAtIO(t)
  BY <1>0, <1>2 DEF CancelAtIO, AtIO, sync
<1>3. CASE CancelBare(t)
  BY <1>0, <1>3 DEF CancelBare, sync
<1>4. CASE Unblock(t)
  BY <1>0, <1>4 DEF Unblock, Post, PthrPost, Sem
<1>5. CASE SigTerm(t)
  BY <1>5 DEF SigTerm
<1> QED BY <1>1, <1>2, <1>3, <1>4, <1>5 DEF Cancelled

LEMMA OweStepKeeps ==
  ASSUME TypeOK, LockOwed, Unborn, NEW t \in Thread, OweStep(t)
  PROVE  LockOwed' /\ Unborn'
<1>0. pc \in [Thread -> ReaderLoc \cup WriterLoc]
  BY DEF TypeOK, PcOK
<1>1. \A u \in Thread : u # t => pc'[u] = pc[u]
  BY <1>0 DEF OweStep, Goto
<1>2. \A u \in Thread : u # t => (Owes(u)' <=> Owes(u))
  BY <1>1 DEF Owes, InCS
<1>3. LockOwed'
  BY <1>2 DEF LockOwed, OweStep
<1>4. pc[t] # "none" /\ UNCHANGED <<cpc, sess>>
  BY DEF OweStep, Gone, client
<1>5. Unborn'
  BY <1>1, <1>4, Threads DEF Unborn
<1> QED BY <1>3, <1>5

LEMMA ClientOwes ==
  ASSUME TypeOK, LockOwed, Unborn, ClientStep \/ ClientCall
  PROVE  /\ LockOwed' /\ Unborn'
         /\ \A u \in Thread : pc'[u] = pc[u] \/ pc[u] = "none"
<1>0. /\ pc \in [Thread -> ReaderLoc \cup WriterLoc] /\ sem \in [Sem -> Nat]
      /\ sess \in Nat /\ Session \subseteq Nat
  BY PlaysAssumption DEF TypeOK, PcOK, SyncOK, ClientOK, Session
<1>1. CASE JoinWriter \/ JoinReader \/ InitShm \/ Cleanup \/ ClientCall
  <2>1. /\ UNCHANGED <<pc, sess>>
        /\ cpc' \notin {"create_reader", "create_writer"} \/ cpc' = cpc
        /\ sem' = sem \/ sem'["LOCK"] = 1
    BY <1>1 DEF JoinWriter, JoinReader, InitShm, Cleanup, ClientCall, Stop,
                Halt, Play, GetStatus, PauseResume, BeginStop, Idle, Sem, info,
                sync, client, TypeOK, ClientOK
  <2>2. Unborn'
    BY <2>1 DEF Unborn
  <2> QED BY <2>1, <2>2 DEF LockOwed, Owes, InCS
<1>2. CASE SetUp
  <2>1. pc' = pc /\ sess' = sess + 1 /\ sem'["LOCK"] = sem["LOCK"]
    BY <1>0, <1>2 DEF SetUp, Sem
  <2>2. \A s \in Session : s > sess' \/ s = sess' => s > sess
    BY <1>0, <2>1
  <2>3. Unborn'
    BY <2>1, <2>2 DEF Unborn
  <2> QED BY <2>1, <2>3 DEF LockOwed, Owes, InCS
<1>3. CASE CreateReader \/ CreateWriter
  <2>1. /\ UNCHANGED <<sem, sess>> /\ cpc' # "create_reader"
        /\ cpc' = "create_writer" => cpc = "create_reader"
        /\ \/ UNCHANGED pc
           \/ cpc = "create_reader" /\ Goto(R(sess), "new")
           \/ /\ cpc = "create_writer" /\ Goto(W(sess), "new")
              /\ cpc' = "idle"
    BY <1>3 DEF CreateReader, CreateWriter
  <2>2. ASSUME NEW u \in Thread
        PROVE  pc'[u] = pc[u] \/ (pc[u] = "none" /\ u \in {R(sess), W(sess)})
    <3>1. PICK s \in Session : u = R(s) \/ u = W(s)
      BY Threads
    <3>2. CASE s = sess
      BY <1>0, <2>1, <3>1, <3>2 DEF Unborn, Goto, R, W
    <3>3. CASE s # sess
      BY <1>0, <2>1, <3>1, <3>3 DEF Goto, R, W
    <3> QED BY <3>2, <3>3
  <2>3. \A u \in Thread : Owes(u) => Owes(u)'
    BY <2>2 DEF Owes, InCS, ReaderCS, WriterCS
  <2>4. ASSUME NEW s \in Session PROVE
          /\ s > sess => pc'[R(s)] = "none" /\ pc'[W(s)] = "none"
          /\ s = sess /\ cpc' = "create_writer" => pc'[W(s)] = "none"
    <3>1. R(s) \in Thread /\ W(s) \in Thread /\ s \in Nat
      BY <1>0, Threads
    <3>2. s > sess => pc'[R(s)] = "none" /\ pc'[W(s)] = "none"
      BY <1>0, <2>2, <3>1 DEF Unborn, R, W
    <3>3. s = sess /\ cpc' = "create_writer" => pc'[W(s)] = "none"
      BY <1>0, <2>1, <3>1 DEF Unborn, Goto, R, W
    <3> QED BY <3>2, <3>3
  <2>5. Unborn'
    BY <2>1, <2>4 DEF Unborn
  <2> QED BY <2>1, <2>2, <2>3, <2>5 DEF LockOwed
<1> QED BY <1>1, <1>2, <1>3 DEF ClientStep

(* With no thread left, LOCK is available, once, for the next play, though *)
(* threads fail and are cancelled anywhere and cdda_play does not set it.  *)
THEOREM LockAvailableHolds ==
  ASSUME CddaMethod = "pthreads" PROVE Spec => []LockAvailable
<1> DEFINE Inv == TypeInv /\ AsleepAt /\ LockOwed /\ Unborn
<1>1. Init => Inv
  <2> SUFFICES ASSUME Init PROVE Inv
    OBVIOUS
  <2>1. TypeInv
    BY TypeInit DEF Init, TypeInv, PlayBound, StopStep
  <2>2. AsleepAt /\ LockOwed /\ Unborn
    BY Threads DEF Init, AsleepAt, LockOwed, Unborn, Sem
  <2> QED BY <2>1, <2>2
<1>2. Inv /\ [Next]_vars => Inv'
  <2> SUFFICES ASSUME Inv, [Next]_vars PROVE Inv'
    OBVIOUS
  <2>0. TypeInv' /\ TypeOK
    BY TypeNext DEF TypeInv
  <2>1. ASSUME NEW t \in Thread, Moves(t), OweStep(t)
        PROVE  AsleepAt' /\ LockOwed' /\ Unborn'
    <3>1. AsleepAt'
      <4>1. /\ asleep \subseteq Thread /\ asleep' \subseteq asleep \cup {t}
            /\ t \in asleep' => pc'[t] \in WaitLoc
        BY <2>0, <2>1 DEF Moves, TypeOK, SyncOK
      <4>2. \A u \in Thread : u # t => pc'[u] = pc[u]
        BY <2>0, <2>1 DEF Moves, Goto, TypeOK, PcOK
      <4> QED BY <4>1, <4>2 DEF AsleepAt
    <3> QED BY <2>0, <2>1, <3>1, OweStepKeeps
  <2>2. ASSUME NEW s \in Session, Reader(s) \/ Writer(s)
        PROVE  AsleepAt' /\ LockOwed' /\ Unborn'
    BY <2>0, <2>1, <2>2, Threads, ReaderMoves, WriterMoves, ReaderOwes,
       WriterOwes
  <2>3. ASSUME NEW t \in Thread, Cancelled(t)
        PROVE  AsleepAt' /\ LockOwed' /\ Unborn'
    BY <2>0, <2>1, <2>3, CancelMoves, CancelOwes DEF AsleepAt, TypeOK, SyncOK
  <2>4. CASE ClientStep \/ ClientCall
    <3>1. asleep' = asleep
      BY <2>4 DEF ClientStep, JoinWriter, JoinReader, InitShm, Cleanup, SetUp,
                  CreateReader, CreateWriter, ClientCall, Stop, Halt, Play,
                  GetStatus, PauseResume, BeginStop, sync, Idle
    <3>2. LockOwed' /\ Unborn' /\ \A t \in asleep : pc'[t] = pc[t]
      BY <2>0, <2>4, ClientOwes DEF AsleepAt, WaitLoc, TypeOK, SyncOK
    <3> QED BY <2>0, <3>1, <3>2 DEF AsleepAt
  <2>5. CASE UNCHANGED vars
    BY <2>0, <2>5 DEF vars, sync, client, AsleepAt, LockOwed, Unborn, Owes, InCS
  <2> QED BY <2>0, <2>2, <2>3, <2>4, <2>5 DEF Next
<1>3. Inv => LockAvailable
  BY DEF LockOwed, LockAvailable, Owes, InCS, Gone, ReaderCS, WriterCS
<1> QED BY <1>1, <1>2, <1>3, PTL DEF Spec
-----------------------------------------------------------------------------
(***************************************************************************)
(* The ring buffer is never overrun nor underrun, and the chunks come out  *)
(* of it in order, with POSIX threads and a client that does not pause,    *)
(* for any buffer and areas.  Mutual exclusion is what makes the check of  *)
(* the count still true when it is relied on.  Without failures the        *)
(* pipeline implements CddaStream.                                         *)
(***************************************************************************)

LEMMA ModSmall ==
  \A x \in Nat : /\ x < BufferChunks => x % BufferChunks = x
                 /\ x >= BufferChunks /\ x < 2 * BufferChunks =>
                      x % BufferChunks = x - BufferChunks
  BY BufferAssumption

(* Putting one in at nextin, and taking one out at nextout, of a ring whose *)
(* indices agree.                                                          *)
LEMMA DepositRing ==
  ASSUME RingOK, RingConsistent, NEW t, Deposit(t), occupied < BufferChunks
  PROVE  RingConsistent' /\ occupied' = occupied + 1
<1>1. /\ nextout \in Nat /\ nextout < BufferChunks /\ occupied \in Nat
      /\ nextout' = nextout /\ occupied' = occupied + 1
      /\ nextin = (nextout + occupied) % BufferChunks
      /\ nextin' = (nextin + 1) % BufferChunks
      /\ BufferChunks \in Nat
  BY BufferAssumption DEF RingOK, RingConsistent, Deposit, Slot
<1>2. nextin' = (nextout + (occupied + 1)) % BufferChunks
  <2>1. CASE nextout + occupied < BufferChunks
    BY <1>1, <2>1, ModSmall
  <2>2. CASE nextout + occupied >= BufferChunks
    <3>1. nextin = nextout + occupied - BufferChunks
      BY <1>1, <2>2, ModSmall
    <3> QED BY <1>1, <2>2, <3>1, ModSmall
  <2> QED BY <1>1, <2>1, <2>2
<1> QED BY <1>1, <1>2 DEF RingConsistent

LEMMA TakeRing ==
  ASSUME RingOK, RingConsistent, occupied > 0,
         nextout' = (nextout + 1) % BufferChunks, occupied' = occupied - 1,
         nextin' = nextin
  PROVE  RingConsistent'
<1>1. /\ nextout \in Nat /\ nextout < BufferChunks /\ occupied \in Nat
      /\ occupied <= BufferChunks
      /\ nextin = (nextout + occupied) % BufferChunks
      /\ BufferChunks \in Nat
  BY BufferAssumption DEF RingOK, RingConsistent, Slot
<1>2. nextin = (nextout' + (occupied - 1)) % BufferChunks
  <2>1. CASE nextout + 1 < BufferChunks
    <3>1. nextout' = nextout + 1
      BY <1>1, <2>1, ModSmall
    <3>2. nextout' + (occupied - 1) = nextout + occupied
      BY <1>1, <3>1
    <3> QED BY <1>1, <3>2
  <2>2. CASE nextout + 1 = BufferChunks
    <3>1. nextout' = 0
      BY <1>1, <2>2, ModSmall
    <3>2. /\ nextout' + (occupied - 1) = occupied - 1
          /\ (occupied - 1) % BufferChunks = occupied - 1
      BY <1>1, <3>1, ModSmall
    <3>3. nextin = occupied - 1
      BY <1>1, <2>2, ModSmall
    <3> QED BY <3>2, <3>3
  <2> QED BY <1>1, <2>1, <2>2
<1> QED BY <1>1, <1>2 DEF RingConsistent

(***************************************************************************)
(* A step that leaves the ring alone: what each thread but the one that    *)
(* moves knows is still so, since a completed play is never resumed.       *)
(***************************************************************************)
Quiet == /\ UNCHANGED <<occupied, nextin, nextout, hand>>
         /\ state = "COMPLETED" => state' = "COMPLETED"
MovesOnly(t) ==
  pc \in [Thread -> ReaderLoc \cup WriterLoc] /\ \E l : Goto(t, l)

LEMMA QuietKeeps ==
  ASSUME RingInv, NEW t \in Thread, Quiet, UNCHANGED client,
         MovesOnly(t) \/ UNCHANGED pc, Knows(t)'
  PROVE  RingInv'
<1>1. RingConsistent' /\ (cpc' = "create_reader" => occupied' = 0)
  BY DEF RingInv, RingConsistent, Quiet, client
<1>2. ASSUME NEW u \in Thread, u # t PROVE Knows(u)'
  <2>1. pc'[u] = pc[u]
    BY <1>2 DEF MovesOnly, Goto
  <2> QED BY <2>1 DEF RingInv, Knows, Quiet
<1> QED BY <1>1, <1>2 DEF RingInv

(***************************************************************************)
(* A step that changes the ring is taken inside the region, so nobody else *)
(* knows anything.                                                         *)
(***************************************************************************)
LEMMA InsideAlone ==
  ASSUME TypeOK, PthrInv, NEW s \in Session, NEW t \in {R(s), W(s)}, InCS(t),
         MovesOnly(t)
  PROVE  \A u \in Thread : u # t =>
           /\ pc'[u] = pc[u]
           /\ pc[u] \notin {"put", "take", "fill", "fill_read"}
           /\ u \in {R(s), W(s)} \/ pc[u] \in {"none", "dead"}
<1>1. s = sess /\ s \in Nat /\ Session \subseteq Nat
  <2>1. ~Gone(t)
    BY DEF Gone, InCS, ReaderCS, WriterCS
  <2>2. s \in Nat /\ sess \in Nat /\ Session \subseteq Nat
    BY PlaysAssumption DEF TypeOK, ClientOK, Session
  <2> QED BY <2>1, <2>2 DEF PthrInv, OldGone, Gone
<1> SUFFICES ASSUME NEW u \in Thread, u # t
             PROVE  /\ pc'[u] = pc[u]
                    /\ pc[u] \notin {"put", "take", "fill", "fill_read"}
                    /\ u \in {R(s), W(s)} \/ pc[u] \in {"none", "dead"}
  OBVIOUS
<1>2. pc'[u] = pc[u]
  BY DEF MovesOnly, Goto
<1>3. CASE u \in {R(s), W(s)}
  <2>1. ~InCS(u)
    BY <1>3 DEF PthrInv, LockInv
  <2>2. pc[u] \in (IF u[1] = "reader" THEN ReaderLoc ELSE WriterLoc)
    BY <1>3, Threads DEF TypeOK, PcOK
  <2> QED BY <1>2, <1>3, <2>1, <2>2
          DEF InCS, ReaderCS, WriterCS, ReaderLoc, WriterLoc
<1>4. CASE u \notin {R(s), W(s)}
  <2>1. PICK v \in Session : u = R(v) \/ u = W(v)
    BY Threads
  <2>2. v # s /\ v \in Nat
    BY <1>1, <1>4, <2>1
  <2>3. Gone(u)
    BY <1>1, <2>1, <2>2 DEF PthrInv, OldGone, Gone
  <2> QED BY <1>2, <2>3 DEF Gone
<1> QED BY <1>3, <1>4

LEMMA DepositKeeps ==
  ASSUME TypeOK, PthrInv, RingInv, NEW s \in Session, InCS(R(s)),
         Deposit(R(s)), occupied < BufferChunks, UNCHANGED client,
         \/ pc[R(s)] = "put" /\ Goto(R(s), "data")
         \/ pc[R(s)] = "fill_read" /\ Goto(R(s), "fill")
  PROVE  RingInv'
<1>0. /\ R(s) \in Thread /\ pc \in [Thread -> ReaderLoc \cup WriterLoc]
      /\ RingOK /\ occupied \in Nat /\ cpc' = cpc
  BY Threads DEF TypeOK, PcOK, RingOK, RingInv, RingConsistent, client
<1>1. RingConsistent' /\ occupied' = occupied + 1
  BY <1>0, DepositRing DEF RingInv
<1>2. cpc' # "create_reader"
  <2>1. ~Gone(R(s))
    BY DEF Gone, InCS, ReaderCS
  <2> QED BY <1>0, <2>1 DEF PthrInv, ClientAt, ReadersGone
<1>3. Knows(R(s))'
  BY <1>0, <1>1 DEF Deposit, Goto, RingInv, Knows, TypeOK, HandOK, Chunk
<1>4. ASSUME NEW u \in Thread, u # R(s) PROVE Knows(u)'
  <2>1. /\ pc'[u] = pc[u]
        /\ pc[u] \notin {"put", "take", "fill", "fill_read"}
        /\ u = W(s) \/ pc[u] \in {"none", "dead"}
    BY <1>0, <1>4, InsideAlone DEF MovesOnly
  <2>2. pc[W(s)] # "fill_lock" /\ W(s)[1] = "writer"
    BY Threads DEF TypeOK, PcOK, WriterLoc, WriterCS
  <2> QED BY <2>1, <2>2 DEF Knows
<1> QED BY <1>1, <1>2, <1>3, <1>4 DEF RingInv

LEMMA TakeKeeps ==
  ASSUME TypeOK, PthrInv, RingInv, NEW s \in Session, Take(s)
  PROVE  RingInv'
<1>0. /\ W(s) \in Thread /\ pc \in [Thread -> ReaderLoc \cup WriterLoc]
      /\ RingOK /\ InCS(W(s)) /\ UNCHANGED <<client, state>>
  BY Threads DEF TypeOK, PcOK, Take, InCS, WriterCS, info
<1>1. CASE state = "COMPLETED"
  <2>1. Quiet /\ MovesOnly(W(s)) /\ pc'[W(s)] = "fin_unlock"
    BY <1>0, <1>1 DEF Take, Quiet, MovesOnly, Goto, ring
  <2> QED BY <1>0, <2>1, QuietKeeps DEF Knows
<1>2. CASE state # "COMPLETED"
  <2>0. /\ occupied > 0 /\ occupied' = occupied - 1 /\ nextin' = nextin
        /\ nextout' = (nextout + 1) % BufferChunks
        /\ Goto(W(s), "room") /\ UNCHANGED cpc
    BY <1>0, <1>2 DEF Take, RingInv, Knows, client
  <2>1. RingConsistent'
    BY <1>0, <2>0, TakeRing DEF RingInv
  <2>2. cpc' # "create_reader"
    BY <2>0 DEF RingInv
  <2>3. pc'[W(s)] = "room"
    BY <1>0, <2>0 DEF Goto
  <2>4. ASSUME NEW u \in Thread, u # W(s) PROVE Knows(u)'
    <3>1. /\ pc'[u] = pc[u]
          /\ pc[u] \notin {"put", "take", "fill", "fill_read"}
      BY <1>0, <2>0, <2>4, InsideAlone DEF MovesOnly
    <3>2. ~(pc[u] = "fill_lock" \/ (pc[u] = "new" /\ u[1] = "reader"))
      BY <2>0, <2>4 DEF RingInv, Knows
    <3> QED BY <3>1, <3>2 DEF Knows
  <2> QED BY <2>1, <2>2, <2>3, <2>4 DEF RingInv, Knows
<1> QED BY <1>1, <1>2

(***************************************************************************)
(* One step for each action: it deposits, takes, or leaves the ring alone. *)
(***************************************************************************)
LEMMA ReaderRing ==
  ASSUME CddaMethod = "pthreads", TypeOK, PthrInv, RingInv,
         NEW s \in Session, Reader(s)
  PROVE  RingInv'
<1> DEFINE t == R(s)
<1>0. /\ t \in Thread /\ t[1] = "reader" /\ Knows(t)
      /\ pc \in [Thread -> ReaderLoc \cup WriterLoc]
      /\ BufferChunks \in Nat \ {0} /\ occupied \in 0..BufferChunks
      /\ hand[t][2] \in Nat /\ UNCHANGED client
  BY Threads, BufferAssumption, ThreadLeavesClient
     DEF TypeOK, PcOK, HandOK, Chunk, RingInv, RingConsistent
<1>1. CASE \/ ReaderStart(s) \/ FillLock(s) \/ Fill(s) \/ FillEnd(s)
           \/ ReadLoop(s) \/ ReadChunk(s) \/ AwaitRoom(s) \/ PutEnd(s)
           \/ ReaderDone(s)
  <2>1. Quiet /\ (MovesOnly(t) \/ UNCHANGED pc)
    <3> USE <1>0 DEF Quiet, MovesOnly, Wait, PthrWait, Post, PthrPost
    <3>1. CASE ReaderStart(s)
      BY <3>1 DEF ReaderStart, ring
    <3>2. CASE FillLock(s)
      BY <3>2 DEF FillLock, ring, info
    <3>3. CASE Fill(s)
      BY <3>3 DEF Fill, ring
    <3>4. CASE FillEnd(s)
      BY <3>4 DEF FillEnd, ring, info
    <3>5. CASE ReadLoop(s)
      BY <3>5 DEF ReadLoop, ring
    <3>6. CASE ReadChunk(s)
      BY <3>6 DEF ReadChunk, ring, info
    <3>7. CASE AwaitRoom(s)
      BY <3>7 DEF AwaitRoom, ring, info
    <3>8. CASE PutEnd(s)
      BY <3>8 DEF PutEnd, ring, info
    <3>9. CASE ReaderDone(s)
      BY <3>9 DEF ReaderDone, ring
    <3> QED BY <1>1, <3>1, <3>2, <3>3, <3>4, <3>5, <3>6, <3>7, <3>8, <3>9
  <2>2. Knows(t)'
    <3> USE <1>0, <2>1 DEF Quiet, Knows, Goto
    <3>1. CASE ReaderStart(s)
      BY <3>1 DEF ReaderStart
    <3>2. CASE FillLock(s)
      BY <3>2 DEF FillLock, Wait, PthrWait
    <3>3. CASE Fill(s)
      BY <3>3 DEF Fill
    <3>4. CASE FillEnd(s)
      BY <3>4 DEF FillEnd, Wait, PthrWait, Post, PthrPost
    <3>5. CASE ReadLoop(s)
      BY <3>5 DEF ReadLoop
    <3>6. CASE ReadChunk(s)
      BY <3>6 DEF ReadChunk
    <3>7. CASE AwaitRoom(s)
      BY <3>7 DEF AwaitRoom, Wait, PthrWait, Post, PthrPost, Full, info
    <3>8. CASE PutEnd(s)
      BY <3>8 DEF PutEnd, Post, PthrPost
    <3>9. CASE ReaderDone(s)
      BY <3>9 DEF ReaderDone
    <3> QED BY <1>1, <3>1, <3>2, <3>3, <3>4, <3>5, <3>6, <3>7, <3>8, <3>9
  <2> QED BY <1>0, <2>1, <2>2, QuietKeeps
<1>2. CASE FillRead(s)
  <2>1. CASE Deposit(t) /\ Goto(t, "fill")
    <3>1. /\ pc[t] = "fill_read" /\ InCS(t) /\ occupied < BufferChunks
      BY <1>0, <1>2 DEF FillRead, InCS, ReaderCS, Knows
    <3> QED BY <1>0, <2>1, <3>1, DepositKeeps
  <2>2. CASE Goto(t, "fill_fail") /\ UNCHANGED <<ring, hand>>
    <3>1. Quiet /\ MovesOnly(t) /\ pc'[t] = "fill_fail"
      BY <1>0, <1>2, <2>2 DEF FillRead, Quiet, MovesOnly, Goto, ring, info
    <3> QED BY <1>0, <3>1, QuietKeeps DEF Knows
  <2> QED BY <1>2, <2>1, <2>2 DEF FillRead
<1>3. CASE Put(s)
  <2>1. CASE state = "COMPLETED"
    <3>1. Quiet /\ MovesOnly(t) /\ pc'[t] = "stop_unlock"
      BY <1>0, <1>3, <2>1 DEF Put, Quiet, MovesOnly, Goto, ring, info
    <3> QED BY <1>0, <3>1, QuietKeeps DEF Knows
  <2>2. CASE state # "COMPLETED"
    <3>1. /\ pc[t] = "put" /\ InCS(t) /\ occupied < BufferChunks
          /\ Deposit(t) /\ Goto(t, "data")
      BY <1>0, <1>3, <2>2 DEF Put, InCS, ReaderCS, Knows
    <3> QED BY <1>0, <3>1, DepositKeeps
  <2> QED BY <2>1, <2>2
<1> QED BY <1>1, <1>2, <1>3 DEF Reader

LEMMA WriterRing ==
  ASSUME CddaMethod = "pthreads", TypeOK, PthrInv, RingInv,
         NEW s \in Session, Writer(s)
  PROVE  RingInv'
<1> DEFINE t == W(s)
<1>0. /\ t \in Thread /\ t[1] = "writer" /\ Knows(t)
      /\ pc \in [Thread -> ReaderLoc \cup WriterLoc]
      /\ occupied \in Int /\ UNCHANGED client
  BY Threads, ThreadLeavesClient DEF TypeOK, PcOK, RingOK, RingInv
<1>1. CASE Take(s)
  BY <1>1, TakeKeeps
<1>2. CASE ~Take(s)
  <2>1. Quiet /\ (MovesOnly(t) \/ UNCHANGED pc)
    <3> USE <1>0 DEF Quiet, MovesOnly, Wait, PthrWait, Post, PthrPost
    <3>1. CASE WriterStart(s)
      BY <3>1 DEF WriterStart, ring
    <3>2. CASE OpenOutputs(s)
      BY <3>2 DEF OpenOutputs, ring, info
    <3>3. CASE WriteLoop(s)
      BY <3>3 DEF WriteLoop, ring, info
    <3>4. CASE CheckEnd(s)
      BY <3>4 DEF CheckEnd, ring
    <3>5. CASE AwaitData(s)
      BY <3>5 DEF AwaitData, ring, info
    <3>6. CASE TakeEnd(s)
      BY <3>6 DEF TakeEnd, ring, info
    <3>7. CASE WriteChunk(s)
      BY <3>7 DEF WriteChunk, ring
    <3>8. CASE Unpaused(s)
      BY <3>8 DEF Unpaused, ring, info
    <3>9. CASE WriteEnd(s)
      BY <3>9 DEF WriteEnd, ring, info
    <3>10. CASE WriterDone(s)
      BY <3>10 DEF WriterDone, ring
    <3> QED BY <1>2, <3>1, <3>2, <3>3, <3>4, <3>5, <3>6, <3>7, <3>8, <3>9,
               <3>10 DEF Writer
  <2>2. Knows(t)'
    <3> USE <1>0, <2>1 DEF Quiet, Knows, Goto
    <3>1. CASE WriterStart(s)
      BY <3>1 DEF WriterStart
    <3>2. CASE OpenOutputs(s)
      BY <3>2 DEF OpenOutputs
    <3>3. CASE WriteLoop(s)
      BY <3>3 DEF WriteLoop, Wait, PthrWait
    <3>4. CASE CheckEnd(s)
      BY <3>4 DEF CheckEnd
    <3>5. CASE AwaitData(s)
      BY <3>5 DEF AwaitData, Wait, PthrWait, Post, PthrPost, info
    <3>6. CASE TakeEnd(s)
      BY <3>6 DEF TakeEnd, Post, PthrPost
    <3>7. CASE WriteChunk(s)
      BY <3>7 DEF WriteChunk
    <3>8. CASE Unpaused(s)
      BY <3>8 DEF Unpaused
    <3>9. CASE WriteEnd(s)
      BY <3>9 DEF WriteEnd, Post, PthrPost
    <3>10. CASE WriterDone(s)
      BY <3>10 DEF WriterDone
    <3> QED BY <1>2, <3>1, <3>2, <3>3, <3>4, <3>5, <3>6, <3>7, <3>8, <3>9,
               <3>10 DEF Writer
  <2> QED BY <1>0, <2>1, <2>2, QuietKeeps
<1> QED BY <1>1, <1>2

LEMMA CancelledRing ==
  ASSUME CddaMethod = "pthreads", TypeOK, PthrInv, RingInv,
         NEW t \in Thread, Cancelled(t)
  PROVE  RingInv'
<1>0. /\ Knows(t) /\ pc \in [Thread -> ReaderLoc \cup WriterLoc]
      /\ UNCHANGED client
  BY ThreadLeavesClient DEF TypeOK, PcOK, RingInv
<1>1. \E l \in {"ub_lock", "ub_room", "ub_data", "dead"} : Quiet /\ Goto(t, l)
  BY DEF Cancelled, CancelAsleep, CancelAtIO, CancelBare, Unblock, SigTerm,
         Post, PthrPost, Quiet, ring, info
<1>2. MovesOnly(t) /\ pc'[t] \in {"ub_lock", "ub_room", "ub_data", "dead"}
  BY <1>0, <1>1 DEF MovesOnly, Goto
<1> QED BY <1>0, <1>1, <1>2, QuietKeeps DEF Knows

(* The client's steps: the ring is reset when no thread is there to know   *)
(* anything, and a new reader finds it empty.                              *)
LEMMA ClientRing ==
  ASSUME TypeOK, PthrInv, RingInv, "pause" \notin Ops, "create" \notin Faults,
         ClientStep \/ ClientCall
  PROVE  RingInv'
<1>0. BufferChunks \in Nat \ {0} /\ 0 % BufferChunks = 0
  BY BufferAssumption, ModSmall
<1>1. CASE Cleanup \/ SetUp
  <2>1. /\ occupied' = 0 /\ nextin' = 0 /\ nextout' = 0 /\ pc' = pc
        /\ WritersGone /\ ReadersGone
    BY <1>1 DEF Cleanup, SetUp, ResetRing, PthrInv, ClientAt
  <2>2. \A t \in Thread : Knows(t)'
    BY <2>1, Threads DEF Knows, WritersGone, ReadersGone, Gone
  <2> QED BY <1>0, <2>1, <2>2 DEF RingInv, RingConsistent
<1>2. CASE CreateReader \/ CreateWriter
  <2>1. /\ UNCHANGED <<occupied, nextin, nextout>> /\ state' = state
        /\ cpc' # "create_reader"
    BY <1>2 DEF CreateReader, CreateWriter, ring
  <2>2. /\ sess \in Session /\ R(sess) \in Thread /\ W(sess) \in Thread
        /\ pc \in [Thread -> ReaderLoc \cup WriterLoc]
        /\ hand \in [Thread -> Chunk]
    BY <1>2, Threads, PlaysAssumption
       DEF CreateReader, CreateWriter, PthrInv, PlayBound, TypeOK, ClientOK,
           PcOK, HandOK, Session
  <2>3. CASE CreateReader
    <3>1. /\ Goto(R(sess), "new") /\ occupied = 0
          /\ hand' = [hand EXCEPT ![R(sess)] = <<sess, 1>>]
      BY <2>3 DEF CreateReader, RingInv
    <3>2. \A t \in Thread : Knows(t)'
      BY <2>1, <2>2, <3>1 DEF RingInv, Knows, Goto
    <3> QED BY <2>1, <3>2 DEF RingInv, RingConsistent
  <2>4. CASE CreateWriter
    <3>1. Goto(W(sess), "new") /\ hand' = hand
      BY <2>4 DEF CreateWriter
    <3>2. \A t \in Thread : Knows(t)'
      BY <2>1, <2>2, <3>1, Threads DEF RingInv, Knows, Goto
    <3> QED BY <2>1, <3>2 DEF RingInv, RingConsistent
  <2> QED BY <1>2, <2>3, <2>4
<1>3. CASE JoinWriter \/ JoinReader \/ InitShm \/ ClientCall
  <2>1. /\ Quiet /\ UNCHANGED pc
        /\ cpc' # "create_reader"
    BY <1>3 DEF JoinWriter, JoinReader, InitShm, ClientCall, Stop, Halt, Play,
                GetStatus, PauseResume, BeginStop, Quiet, ring, info, TypeOK,
                ClientOK
  <2> QED BY <2>1 DEF RingInv, RingConsistent, Knows, Quiet
<1> QED BY <1>1, <1>2, <1>3 DEF ClientStep

LEMMA RingInit == Init => RingInv
<1> SUFFICES ASSUME Init PROVE RingInv
  OBVIOUS
<1>1. 0 % BufferChunks = 0 /\ BufferChunks \in Nat
  BY BufferAssumption, ModSmall
<1> QED BY <1>1 DEF Init, RingInv, RingConsistent, Knows

LEMMA RingInvariant ==
  ASSUME Pthreads, "pause" \notin Ops
  PROVE  Spec => []RingInv
<1>1. TypeOK /\ PthrInv /\ RingInv /\ [Next]_vars => RingInv'
  <2> SUFFICES ASSUME TypeOK, PthrInv, RingInv, [Next]_vars PROVE RingInv'
    OBVIOUS
  <2>1. CASE UNCHANGED vars
    BY <2>1 DEF vars, ring, info, client, RingInv, RingConsistent, Knows
  <2> QED BY <2>1, ReaderRing, WriterRing, CancelledRing, ClientRing
          DEF Next, Pthreads
<1> QED BY <1>1, RingInit, TypeCorrect, PthrInvariant, PTL DEF Spec

(* The ring buffer is never overrun nor underrun: see RingConsistent.      *)
THEOREM RingConsistentHolds ==
  ASSUME Pthreads, "pause" \notin Ops
  PROVE  Spec => []RingConsistent
<1>1. RingInv => RingConsistent
  BY DEF RingInv
<1> QED BY <1>1, RingInvariant, PTL
-----------------------------------------------------------------------------
(***************************************************************************)
(* The chunks are written in order: OrderInv.  A step of a thread from k   *)
(* to l that keeps the chunk accounted for, and a step of the pipeline in  *)
(* which nothing else happens.                                             *)
(***************************************************************************)
Keeps(t, k, l) ==
  IF t[1] = "reader"
  THEN (l \in MayPut => k \in MayPut) /\ (l \in Reads => k \in Reads)
  ELSE l \in MayTake => k \in MayTake /\ (l \in Holds <=> k \in Holds)

Still == /\ UNCHANGED <<ring, hand, out, total, cdda_done, sess>>
         /\ cpc' # "create_reader" \/ cpc' = cpc
         /\ \A t \in Thread : Keeps(t, pc[t], pc'[t])

LEMMA SessionThreads ==
  ASSUME NEW s \in Session
  PROVE  /\ R(s) \in Thread /\ R(s)[1] = "reader"
         /\ W(s) \in Thread /\ W(s)[1] = "writer" /\ s \in Nat
BY PlaysAssumption DEF R, W, Thread, Session

LEMMA StillKeeps ==
  ASSUME TypeOK, OrderInv, Still
  PROVE  OrderInv'
<1>0. /\ occupied \in Int /\ total \in Nat /\ hand \in [Thread -> Chunk]
      /\ Len(out) \in Nat
      /\ UNCHANGED <<occupied, nextin, nextout, b, hand, out, total, cdda_done,
                     sess>>
  BY DEF TypeOK, RingOK, InfoOK, HandOK, OrderInv, Still, ring
<1>1. ASSUME NEW s \in Session, s = sess
      PROVE  ReaderOrder(s)' /\ WriterOrder(s)'
  <2>1. /\ Keeps(R(s), pc[R(s)], pc'[R(s)]) /\ R(s)[1] = "reader"
        /\ Keeps(W(s), pc[W(s)], pc'[W(s)]) /\ W(s)[1] = "writer"
        /\ R(s) \in Thread
    BY SessionThreads DEF Still
  <2>2. ReaderOrder(s) /\ WriterOrder(s)
    BY <1>1 DEF OrderInv
  <2>3. /\ Taken(s)' \in Nat /\ Taken(s) \in Nat /\ Taken(s)' <= Taken(s)
        /\ pc'[W(s)] \in MayTake => Taken(s)' = Taken(s)
        /\ pc'[W(s)] \in Holds => pc[W(s)] \in Holds
        /\ pc'[W(s)] \in MayTake => pc[W(s)] \in MayTake
    BY <1>0, <2>1 DEF Taken, Keeps, Holds, MayTake
  <2>4. hand[R(s)][2] \in Nat
    BY <1>0, <2>1 DEF Chunk
  <2>5. ReaderOrder(s)'
    BY <1>0, <2>1, <2>2, <2>3, <2>4 DEF ReaderOrder, Keeps
  <2>6. WriterOrder(s)'
    BY <1>0, <2>2, <2>3 DEF WriterOrder
  <2> QED BY <2>5, <2>6
<1> QED BY <1>0, <1>1 DEF OrderInv, Still

LEMMA MoveStill ==
  ASSUME NEW t \in Thread, MovesOnly(t) \/ UNCHANGED pc,
         Keeps(t, pc[t], pc'[t]), UNCHANGED client,
         UNCHANGED <<ring, hand, out, total, cdda_done>>
  PROVE  Still
<1>1. ASSUME NEW u \in Thread, u # t PROVE pc'[u] = pc[u]
  BY <1>1 DEF MovesOnly, Goto
<1>2. \A u \in Thread : Keeps(u, pc[u], pc'[u])
  BY <1>1 DEF Keeps
<1> QED BY <1>2 DEF Still, client

(* The slots of a ring: the i-th from the first, and its successor.        *)
LEMMA RingSlots ==
  ASSUME RingOK, RingConsistent
  PROVE  /\ (nextout + 0) % BufferChunks = nextout
         /\ \A i \in Nat : i < occupied /\ occupied < BufferChunks =>
              (nextout + i) % BufferChunks # nextin
         /\ \A i \in Nat : i < BufferChunks =>
              (((nextout + 1) % BufferChunks) + i) % BufferChunks =
                (nextout + (i + 1)) % BufferChunks
<1>1. /\ nextout \in Nat /\ nextout < BufferChunks /\ occupied \in Nat
      /\ nextin = (nextout + occupied) % BufferChunks
      /\ BufferChunks \in Nat \ {0}
  BY BufferAssumption DEF RingOK, RingConsistent, Slot
<1>2. (nextout + 0) % BufferChunks = nextout
  BY <1>1, ModSmall
<1>3. ASSUME NEW i \in Nat, i < occupied, occupied < BufferChunks
      PROVE  (nextout + i) % BufferChunks # nextin
  <2>1. nextout + i \in Nat /\ nextout + occupied \in Nat
    BY <1>1
  <2>2. CASE nextout + occupied < BufferChunks
    <3>1. /\ nextin = nextout + occupied
          /\ (nextout + i) % BufferChunks = nextout + i
      BY <1>1, <1>3, <2>1, <2>2, ModSmall
    <3> QED BY <1>1, <1>3, <3>1
  <2>3. CASE nextout + i >= BufferChunks
    <3>1. /\ nextin = nextout + occupied - BufferChunks
          /\ (nextout + i) % BufferChunks = nextout + i - BufferChunks
      BY <1>1, <1>3, <2>1, <2>3, ModSmall
    <3> QED BY <1>1, <1>3, <3>1
  <2>4. CASE nextout + occupied >= BufferChunks /\ nextout + i < BufferChunks
    <3>1. /\ nextin = nextout + occupied - BufferChunks
          /\ (nextout + i) % BufferChunks = nextout + i
      BY <1>1, <1>3, <2>1, <2>4, ModSmall
    <3> QED BY <1>1, <1>3, <3>1
  <2> QED BY <1>1, <2>2, <2>3, <2>4
<1>4. ASSUME NEW i \in Nat, i < BufferChunks
      PROVE  (((nextout + 1) % BufferChunks) + i) % BufferChunks =
               (nextout + (i + 1)) % BufferChunks
  <2>1. nextout + 1 \in Nat /\ nextout + (i + 1) \in Nat
    BY <1>1
  <2>2. CASE nextout + 1 < BufferChunks
    BY <1>1, <2>1, <2>2, ModSmall
  <2>3. CASE nextout + 1 >= BufferChunks
    <3>1. (nextout + 1) % BufferChunks = 0 /\ nextout + 1 = BufferChunks
      BY <1>1, <2>1, <2>3, ModSmall
    <3>2. i % BufferChunks = i
      BY <1>1, <1>4, ModSmall
    <3>3. (nextout + (i + 1)) % BufferChunks = i
      BY <1>1, <1>4, <2>1, <3>1, ModSmall
    <3> QED BY <3>1, <3>2, <3>3
  <2> QED BY <1>1, <2>2, <2>3
<1> QED BY <1>2, <1>3, <1>4

(* The reader puts the chunk it has in hand behind those in the ring.      *)
LEMMA DepositOrder ==
  ASSUME TypeOK, PthrInv, RingInv, OrderInv, NEW s \in Session, s = sess,
         pc[R(s)] \in Reads, Deposit(R(s)), occupied < BufferChunks,
         Goto(R(s), "data") \/ Goto(R(s), "fill"),
         UNCHANGED <<client, out, total, cdda_done>>
  PROVE  OrderInv'
<1> DEFINE t == R(s)
           w == W(s)
           n == hand[t][2]
<1>0. /\ t \in Thread /\ w \in Thread /\ t # w /\ s \in Nat
      /\ t[1] = "reader" /\ w[1] = "writer"
  BY SessionThreads DEF R, W
<1>1. /\ hand \in [Thread -> Chunk] /\ n \in Nat /\ Len(out) \in Nat
      /\ occupied \in Nat /\ total \in Nat /\ RingOK /\ RingConsistent
      /\ pc \in [Thread -> ReaderLoc \cup WriterLoc] /\ Taken(s) \in Nat
  BY <1>0 DEF TypeOK, HandOK, RingInv, RingConsistent, InfoOK, PcOK, Chunk,
              OrderInv, Taken
<1>2. ReaderOrder(s) /\ WriterOrder(s) /\ pc[t] \in MayPut
  BY DEF OrderInv, Reads, MayPut
<1>3. /\ occupied' = occupied + 1 /\ UNCHANGED <<nextout, out, total, sess>>
      /\ cdda_done' = cdda_done /\ cpc' = cpc
      /\ b' = [b EXCEPT ![nextin] = hand[t]]
      /\ hand' = [hand EXCEPT ![t] = <<@[1], @[2] + 1>>]
  BY DEF Deposit, client
<1>4. /\ pc'[t] \notin Reads /\ pc'[w] = pc[w] /\ Taken(s)' = Taken(s)
  BY <1>0, <1>1, <1>3 DEF Goto, Reads, Taken
<1>5. hand'[t] = <<s, n + 1>> /\ hand'[w] = hand[w] /\ hand[t] = <<s, n>>
  <2>1. hand[t][1] = s /\ hand[t] \in Chunk
    BY <1>0, <1>1, <1>2 DEF ReaderOrder
  <2>2. hand[t] = <<s, n>>
    BY <2>1 DEF Chunk
  <2> QED BY <1>0, <1>1, <1>3, <2>2
<1>6. ReaderOrder(s)'
  BY <1>1, <1>2, <1>3, <1>4, <1>5 DEF ReaderOrder
<1>7. total # 0 => Taken(s) + occupied' <= total
  BY <1>1, <1>2, <1>3 DEF ReaderOrder
<1>8. ASSUME pc[w] \in MayTake, NEW i \in 0..(occupied' - 1)
      PROVE  b'[(nextout + i) % BufferChunks] = <<s, Taken(s) + i + 1>>
  <2>1. i \in Nat /\ (i < occupied \/ i = occupied)
    BY <1>1, <1>3
  <2>2. b \in [Slot -> Chunk] /\ nextin \in Slot /\ nextout \in Nat
    BY <1>1, BufferAssumption DEF RingOK, Slot
  <2>3. CASE i = occupied
    <3>1. (nextout + i) % BufferChunks = nextin
      BY <1>1, <2>3 DEF RingConsistent
    <3>2. n = Taken(s) + i + 1
      BY <1>2, <1>8, <2>3 DEF ReaderOrder
    <3> QED BY <1>3, <1>5, <2>2, <3>1, <3>2
  <2>4. CASE i < occupied
    <3>1. (nextout + i) % BufferChunks # nextin
      BY <1>1, <2>1, <2>4, RingSlots
    <3>2. (nextout + i) % BufferChunks \in Slot
      BY <2>1, <2>2, ModSlot
    <3>3. b[(nextout + i) % BufferChunks] = <<s, Taken(s) + i + 1>>
      BY <1>1, <1>2, <1>8, <2>1, <2>4 DEF WriterOrder
    <3> QED BY <1>3, <2>2, <3>1, <3>2, <3>3
  <2> QED BY <2>1, <2>3, <2>4
<1>9. WriterOrder(s)'
  BY <1>2, <1>3, <1>4, <1>5, <1>7, <1>8 DEF WriterOrder
<1> QED BY <1>3, <1>6, <1>9 DEF OrderInv

(* The writer takes the first chunk in the ring.                           *)
LEMMA TakeOrder ==
  ASSUME TypeOK, RingInv, OrderInv, NEW s \in Session, s = sess,
         Take(s), state # "COMPLETED"
  PROVE  OrderInv'
<1> DEFINE w == W(s)
<1>0. /\ R(s) \in Thread /\ w \in Thread /\ R(s) # w /\ s \in Nat
  BY SessionThreads DEF R, W
<1>1. /\ hand \in [Thread -> Chunk] /\ Len(out) \in Nat /\ total \in Nat
      /\ occupied \in Nat /\ occupied <= BufferChunks /\ occupied > 0
      /\ BufferChunks \in Nat /\ RingOK /\ RingConsistent
      /\ pc \in [Thread -> ReaderLoc \cup WriterLoc]
  BY <1>0, BufferAssumption
     DEF TypeOK, HandOK, RingInv, RingConsistent, Knows, InfoOK, PcOK,
         OrderInv, Take
<1>2. /\ occupied' = occupied - 1 /\ nextout' = (nextout + 1) % BufferChunks
      /\ UNCHANGED <<b, out, total, cdda_done, sess, cpc>>
      /\ hand' = [hand EXCEPT ![w] = b[nextout]]
      /\ pc[w] = "take" /\ Goto(w, "room")
  BY DEF Take, client, info
<1>3. /\ pc'[w] = "room" /\ pc'[R(s)] = pc[R(s)]
      /\ hand'[R(s)] = hand[R(s)] /\ hand'[w] = b[nextout]
  BY <1>0, <1>1, <1>2 DEF Goto
<1>4. ReaderOrder(s) /\ WriterOrder(s) /\ "take" \in MayTake
      /\ "room" \in MayTake \cap Holds /\ "take" \notin Holds
  BY DEF OrderInv, MayTake, Holds
<1>5. Taken(s) = Len(out) /\ Taken(s)' = Len(out) + 1
  BY <1>2, <1>3, <1>4 DEF Taken
<1>6. hand'[w] = <<s, Len(out) + 1>>
  <2>1. 0 \in 0..(occupied - 1) /\ (nextout + 0) % BufferChunks = nextout
    BY <1>1, RingSlots
  <2>2. b[nextout] = <<s, Len(out) + 0 + 1>>
    BY <1>2, <1>4, <1>5, <2>1 DEF WriterOrder
  <2> QED BY <1>1, <1>3, <2>2
<1>7. ReaderOrder(s)'
  <2>1. hand[R(s)][2] \in Nat
    BY <1>0, <1>1 DEF Chunk
  <2> QED BY <1>1, <1>2, <1>3, <1>4, <1>5, <2>1 DEF ReaderOrder
<1>8. ASSUME NEW i \in 0..(occupied' - 1)
      PROVE  b[(nextout' + i) % BufferChunks] = <<s, (Len(out) + 1) + i + 1>>
  <2>1. i \in Nat /\ i < BufferChunks /\ i + 1 \in 0..(occupied - 1)
    BY <1>1, <1>2
  <2>2. (nextout' + i) % BufferChunks = (nextout + (i + 1)) % BufferChunks
    BY <1>1, <1>2, <2>1, RingSlots
  <2>3. b[(nextout + (i + 1)) % BufferChunks] = <<s, Len(out) + (i + 1) + 1>>
    BY <1>2, <1>4, <1>5, <2>1 DEF WriterOrder
  <2> QED BY <1>1, <2>1, <2>2, <2>3
<1>9. WriterOrder(s)'
  BY <1>1, <1>2, <1>3, <1>4, <1>5, <1>6, <1>8 DEF WriterOrder
<1> QED BY <1>2, <1>7, <1>9 DEF OrderInv

(* ... and writes it.                                                      *)
LEMMA WriteOrder ==
  ASSUME TypeOK, PthrInv, OrderInv, NEW s \in Session, s = sess, WriteChunk(s),
         out' = Append(out, hand[W(s)]), Goto(W(s), "paused")
  PROVE  OrderInv'
<1> DEFINE w == W(s)
<1>0. /\ R(s) \in Thread /\ w \in Thread /\ R(s) # w /\ s \in Nat
  BY SessionThreads DEF R, W
<1>1. /\ hand \in [Thread -> Chunk] /\ Len(out) \in Nat /\ total \in Nat
      /\ out \in Seq(Chunk)
      /\ pc \in [Thread -> ReaderLoc \cup WriterLoc]
  BY DEF TypeOK, HandOK, InfoOK, PcOK, OrderInv
<1>2. /\ pc[w] = "write"
      /\ UNCHANGED <<occupied, nextout, b, hand, total, cdda_done, sess, cpc>>
  BY DEF WriteChunk, ring, client
<1>3. pc'[w] = "paused" /\ pc'[R(s)] = pc[R(s)]
  BY <1>0, <1>1 DEF Goto
<1>4. /\ ReaderOrder(s) /\ WriterOrder(s)
      /\ "write" \in MayTake \cap Holds
      /\ "paused" \in MayTake /\ "paused" \notin Holds
  BY DEF OrderInv, MayTake, Holds
<1>5. hand[w] = <<s, Len(out) + 1>>
  BY <1>2, <1>4 DEF WriterOrder
<1>6. /\ out' \in Seq(Chunk) /\ Len(out') = Len(out) + 1
      /\ \A i \in 1..Len(out') : out'[i] = <<s, i>>
  <2>1. hand[w] \in Chunk
    BY <1>0, <1>1
  <2>2. /\ out' \in Seq(Chunk) /\ Len(out') = Len(out) + 1
        /\ \A i \in 1..Len(out) : out'[i] = out[i]
        /\ out'[Len(out) + 1] = hand[w]
    BY <1>1, <2>1
  <2>3. \A i \in 1..Len(out') : i \in 1..Len(out) \/ i = Len(out) + 1
    BY <1>1, <2>2
  <2> QED BY <1>5, <2>2, <2>3 DEF OrderInv
<1>7. Taken(s) = Len(out) + 1 /\ Taken(s)' = Len(out) + 1
  BY <1>1, <1>2, <1>3, <1>4, <1>6 DEF Taken
<1>8. ReaderOrder(s)' /\ WriterOrder(s)'
  <2>1. ReaderOrder(s)'
    BY <1>2, <1>3, <1>4, <1>7 DEF ReaderOrder
  <2>2. WriterOrder(s)'
    BY <1>2, <1>3, <1>4, <1>7 DEF WriterOrder
  <2> QED BY <2>1, <2>2
<1>9. cpc # "create_reader"
  <2>1. ~Gone(w)
    BY <1>2 DEF Gone
  <2> QED BY <2>1 DEF PthrInv, ClientAt, WritersGone
<1>10. sess # 0
  BY PlaysAssumption DEF Session
<1> QED BY <1>2, <1>6, <1>8, <1>9, <1>10 DEF OrderInv

(* The reader looks whether there is more to read.                         *)
LEMMA LoopOrder ==
  ASSUME TypeOK, PthrInv, OrderInv, NEW s \in Session, s = sess,
         Fill(s) \/ ReadLoop(s)
  PROVE  OrderInv'
<1> DEFINE t == R(s)
           n == hand[t][2]
<1>0. /\ t \in Thread /\ W(s) \in Thread /\ t # W(s) /\ n \in Nat
      /\ total \in Nat /\ pc \in [Thread -> ReaderLoc \cup WriterLoc]
  BY SessionThreads DEF R, W, TypeOK, HandOK, Chunk, InfoOK, PcOK
<1>1. /\ pc[t] \in {"fill", "loop"} /\ pc'[W(s)] = pc[W(s)]
      /\ UNCHANGED <<occupied, nextout, b, hand, out, total, sess, cpc>>
  BY <1>0 DEF Fill, ReadLoop, Goto, ring, client
<1>2. /\ pc'[t] \in {"fill_read", "read"} =>
           ~cdda_done /\ (~cdda_done' => n < total)
      /\ pc'[t] \in {"fill_read", "read", "fill_room", "wake"}
      /\ cdda_done => cdda_done'
  <2>1. CASE Fill(s)
    <3> DEFINE more == n <= BufferChunks /\ ~cdda_done
    <3>1. pc'[t] = IF more THEN "fill_read" ELSE "fill_room"
      BY <1>0, <2>1 DEF Fill, Goto
    <3>2. cdda_done' = (cdda_done \/ (more /\ n >= total))
      BY <2>1 DEF Fill, AtEnd
    <3>3. ~(n >= total) => n < total
      BY <1>0
    <3> QED BY <3>1, <3>2, <3>3
  <2>2. CASE ReadLoop(s)
    <3> DEFINE more == state # "COMPLETED" /\ ~cdda_done
    <3>1. pc'[t] = IF more THEN "read" ELSE "wake"
      BY <1>0, <2>2 DEF ReadLoop, Goto
    <3>2. cdda_done' = (cdda_done \/ (more /\ n >= total))
      BY <2>2 DEF ReadLoop, AtEnd
    <3>3. ~(n >= total) => n < total
      BY <1>0
    <3> QED BY <3>1, <3>2, <3>3
  <2> QED BY <2>1, <2>2
<1>3. ReaderOrder(s) /\ WriterOrder(s) /\ Taken(s)' = Taken(s)
  BY <1>1 DEF OrderInv, Taken
<1>4. /\ {"fill", "loop", "fill_read", "read", "fill_room"} \subseteq MayPut
      /\ {"fill_room", "wake"} \cap Reads = {} /\ "wake" \notin MayPut
  BY DEF MayPut, Reads
<1>5. ReaderOrder(s)'
  <2>1. /\ hand[t][1] = s /\ Taken(s) + occupied < n
        /\ pc[W(s)] \in MayTake => n = Taken(s) + occupied + 1
        /\ total # 0 /\ n <= total + 1 /\ (~cdda_done => n <= total)
    BY <1>1, <1>3, <1>4 DEF ReaderOrder
  <2> QED BY <1>0, <1>1, <1>2, <1>3, <1>4, <2>1 DEF ReaderOrder
<1>6. WriterOrder(s)'
  BY <1>1, <1>3 DEF WriterOrder
<1>7. cpc # "create_reader"
  <2>1. ~Gone(t)
    BY <1>1 DEF Gone
  <2> QED BY <2>1 DEF PthrInv, ClientAt, ReadersGone
<1> QED BY <1>1, <1>5, <1>6, <1>7 DEF OrderInv

LEMMA ReaderInOrder ==
  ASSUME CddaMethod = "pthreads", TypeOK, PthrInv, RingInv, OrderInv,
         NEW s \in Session, Reader(s)
  PROVE  OrderInv'
<1> DEFINE t == R(s)
<1>0. /\ t \in Thread /\ t[1] = "reader" /\ Knows(t)
      /\ pc \in [Thread -> ReaderLoc \cup WriterLoc] /\ UNCHANGED client
  BY SessionThreads, ThreadLeavesClient DEF TypeOK, PcOK, RingInv
<1>1. s = sess
  <2>1. ~Gone(t)
    BY DEF Gone, Reader, ReaderStart, FillLock, Fill, FillRead, FillEnd,
           ReadLoop, ReadChunk, AwaitRoom, Put, PutEnd, ReaderDone
  <2>2. s \in Nat /\ sess \in Nat
    BY SessionThreads DEF TypeOK, ClientOK
  <2> QED BY <2>1, <2>2 DEF PthrInv, OldGone, Gone
<1>2. CASE Fill(s) \/ ReadLoop(s)
  BY <1>1, <1>2, LoopOrder
<1>3. CASE Deposit(t) /\ (FillRead(s) \/ Put(s))
  <2>1. /\ pc[t] \in Reads /\ occupied < BufferChunks
        /\ Goto(t, "data") \/ Goto(t, "fill")
        /\ UNCHANGED <<out, total, cdda_done>>
    <3>1. CASE FillRead(s)
      <4>1. occupied' # occupied
        BY <1>3 DEF Deposit, TypeOK, RingOK
      <4> QED BY <1>0, <3>1, <4>1 DEF FillRead, Reads, Knows, ring, info
    <3>2. CASE Put(s)
      <4>1. occupied' # occupied
        BY <1>3 DEF Deposit, TypeOK, RingOK
      <4> QED BY <1>0, <3>2, <4>1 DEF Put, Reads, Knows, ring, info
    <3> QED BY <1>3, <3>1, <3>2
  <2> QED BY <1>0, <1>1, <1>3, <2>1, DepositOrder
<1>4. CASE ~(Fill(s) \/ ReadLoop(s)) /\ ~(Deposit(t) /\ (FillRead(s) \/ Put(s)))
  <2>1. /\ MovesOnly(t) \/ UNCHANGED pc
        /\ UNCHANGED <<ring, hand, out, total, cdda_done>>
    <3> USE <1>0 DEF MovesOnly, Wait, PthrWait, Post, PthrPost
    <3>1. CASE ReaderStart(s) \/ ReadChunk(s) \/ ReaderDone(s)
      BY <3>1 DEF ReaderStart, ReadChunk, ReaderDone, info
    <3>2. CASE FillLock(s) \/ FillEnd(s)
      BY <3>2 DEF FillLock, FillEnd, info
    <3>3. CASE AwaitRoom(s) \/ PutEnd(s)
      BY <3>3 DEF AwaitRoom, PutEnd, info
    <3>4. CASE FillRead(s) \/ Put(s)
      BY <1>4, <3>4 DEF FillRead, Put, info
    <3> QED BY <1>4, <3>1, <3>2, <3>3, <3>4 DEF Reader
  <2>2. Keeps(t, pc[t], pc'[t])
    <3> USE <1>0 DEF Keeps, MayPut, Reads, Goto, Wait, PthrWait, Post, PthrPost
    <3>1. CASE ReaderStart(s) \/ ReadChunk(s) \/ ReaderDone(s)
      BY <3>1 DEF ReaderStart, ReadChunk, ReaderDone
    <3>2. CASE FillLock(s) \/ FillEnd(s)
      BY <3>2 DEF FillLock, FillEnd
    <3>3. CASE AwaitRoom(s)
      BY <3>3 DEF AwaitRoom
    <3>4. CASE PutEnd(s)
      BY <3>4 DEF PutEnd
    <3>5. CASE FillRead(s) \/ Put(s)
      BY <1>4, <3>5 DEF FillRead, Put
    <3> QED BY <1>4, <3>1, <3>2, <3>3, <3>4, <3>5 DEF Reader
  <2> QED BY <1>0, <2>1, <2>2, MoveStill, StillKeeps
<1> QED BY <1>2, <1>3, <1>4

LEMMA WriterInOrder ==
  ASSUME CddaMethod = "pthreads", TypeOK, PthrInv, RingInv, OrderInv,
         NEW s \in Session, Writer(s)
  PROVE  OrderInv'
<1> DEFINE t == W(s)
<1>0. /\ t \in Thread /\ t[1] = "writer"
      /\ pc \in [Thread -> ReaderLoc \cup WriterLoc] /\ UNCHANGED client
  BY SessionThreads, ThreadLeavesClient DEF TypeOK, PcOK
<1>1. s = sess
  <2>1. ~Gone(t)
    BY DEF Gone, Writer, WriterStart, OpenOutputs, WriteLoop, CheckEnd,
           AwaitData, Take, TakeEnd, WriteChunk, Unpaused, WriteEnd, WriterDone
  <2>2. s \in Nat /\ sess \in Nat
    BY SessionThreads DEF TypeOK, ClientOK
  <2> QED BY <2>1, <2>2 DEF PthrInv, OldGone, Gone
<1>2. CASE Take(s) /\ state # "COMPLETED"
  BY <1>1, <1>2, TakeOrder
<1>3. CASE WriteChunk(s) /\ out' = Append(out, hand[t]) /\ Goto(t, "paused")
  BY <1>1, <1>3, WriteOrder
<1>4. CASE /\ ~(Take(s) /\ state # "COMPLETED")
           /\ ~(WriteChunk(s) /\ out' = Append(out, hand[t]) /\ Goto(t, "paused"))
  <2>1. /\ MovesOnly(t) \/ UNCHANGED pc
        /\ UNCHANGED <<ring, hand, out, total, cdda_done>>
    <3> USE <1>0 DEF MovesOnly, Wait, PthrWait, Post, PthrPost
    <3>1. CASE WriterStart(s) \/ OpenOutputs(s) \/ WriteLoop(s)
      BY <3>1 DEF WriterStart, OpenOutputs, WriteLoop, info
    <3>2. CASE CheckEnd(s) \/ AwaitData(s)
      BY <3>2 DEF CheckEnd, AwaitData, info
    <3>3. CASE Take(s) \/ WriteChunk(s)
      BY <1>4, <3>3 DEF Take, WriteChunk, info
    <3>4. CASE TakeEnd(s) \/ Unpaused(s) \/ WriteEnd(s) \/ WriterDone(s)
      BY <3>4 DEF TakeEnd, Unpaused, WriteEnd, WriterDone, info
    <3> QED BY <3>1, <3>2, <3>3, <3>4 DEF Writer
  <2>2. Keeps(t, pc[t], pc'[t])
    <3> USE <1>0 DEF Keeps, MayTake, Holds, Goto, Wait, PthrWait, Post, PthrPost
    <3>1. CASE WriterStart(s) \/ OpenOutputs(s)
      BY <3>1 DEF WriterStart, OpenOutputs
    <3>2. CASE WriteLoop(s)
      BY <3>2 DEF WriteLoop
    <3>3. CASE CheckEnd(s)
      BY <3>3 DEF CheckEnd
    <3>4. CASE AwaitData(s)
      BY <3>4 DEF AwaitData
    <3>5. CASE Take(s) \/ WriteChunk(s)
      BY <1>4, <3>5 DEF Take, WriteChunk
    <3>6. CASE TakeEnd(s)
      BY <3>6 DEF TakeEnd
    <3>7. CASE Unpaused(s) \/ WriteEnd(s) \/ WriterDone(s)
      BY <3>7 DEF Unpaused, WriteEnd, WriterDone
    <3> QED BY <3>1, <3>2, <3>3, <3>4, <3>5, <3>6, <3>7 DEF Writer
  <2> QED BY <1>0, <2>1, <2>2, MoveStill, StillKeeps
<1> QED BY <1>2, <1>3, <1>4

LEMMA CancelledInOrder ==
  ASSUME CddaMethod = "pthreads", TypeOK, OrderInv, NEW t \in Thread,
         Cancelled(t)
  PROVE  OrderInv'
<1>0. pc \in [Thread -> ReaderLoc \cup WriterLoc] /\ UNCHANGED client
  BY ThreadLeavesClient DEF TypeOK, PcOK
<1>1. /\ \E l \in {"ub_lock", "ub_room", "ub_data", "dead"} : Goto(t, l)
      /\ UNCHANGED <<ring, hand, out, total, cdda_done>>
  BY DEF Cancelled, CancelAsleep, CancelAtIO, CancelBare, Unblock, SigTerm,
         Post, PthrPost, info
<1>2. MovesOnly(t) /\ pc'[t] \in {"ub_lock", "ub_room", "ub_data", "dead"}
  BY <1>0, <1>1 DEF MovesOnly, Goto
<1>3. Keeps(t, pc[t], pc'[t])
  BY <1>2 DEF Keeps, MayPut, Reads, MayTake, Holds
<1> QED BY <1>0, <1>1, <1>2, <1>3, MoveStill, StillKeeps

(* The client begins a play with nothing written and an empty ring.        *)
LEMMA ClientInOrder ==
  ASSUME TypeOK, PthrInv, RingInv, OrderInv, "create" \notin Faults,
         ClientStep \/ ClientCall
  PROVE  OrderInv'
<1>0. /\ pc \in [Thread -> ReaderLoc \cup WriterLoc] /\ occupied \in Nat
      /\ hand \in [Thread -> Chunk] /\ total \in Nat /\ sess \in Nat
      /\ out \in Seq(Chunk) /\ Len(out) \in Nat
  BY PlaysAssumption
     DEF TypeOK, PcOK, HandOK, InfoOK, ClientOK, RingInv, RingConsistent,
         OrderInv
<1>1. CASE JoinWriter \/ JoinReader \/ ClientCall
  <2>1. /\ UNCHANGED <<ring, hand, out, total, cdda_done, sess>> /\ pc' = pc
        /\ cpc' # "create_reader"
    BY <1>1 DEF JoinWriter, JoinReader, ClientCall, Stop, Halt, Play,
                GetStatus, PauseResume, BeginStop, info, client, Idle
  <2>2. Still
    BY <2>1 DEF Still, Keeps
  <2> QED BY <2>2, StillKeeps
<1>2. CASE InitShm \/ Cleanup
  <2>1. /\ pc' = pc /\ cpc' # "create_reader" /\ UNCHANGED <<out, sess, hand>>
        /\ WritersGone /\ ReadersGone
        /\ \/ total' = 0 /\ UNCHANGED <<occupied, nextout, b>>
           \/ total' = total /\ occupied' = 0
    BY <1>2 DEF InitShm, Cleanup, ResetRing, PthrInv, ClientAt, ring, TypeOK,
                ClientOK
  <2>2. ASSUME NEW s \in Session, s = sess
        PROVE  ReaderOrder(s)' /\ WriterOrder(s)'
    <3>1. pc[R(s)] \notin MayPut /\ pc[W(s)] \notin Holds
      BY <2>1 DEF WritersGone, ReadersGone, Gone, MayPut, Holds
    <3>2. Taken(s) = Len(out) /\ Taken(s)' = Len(out) /\ WriterOrder(s)
      BY <2>1, <2>2, <3>1 DEF Taken, OrderInv
    <3>3. WriterOrder(s)'
      <4>1. CASE total' = 0 /\ UNCHANGED <<occupied, nextout, b>>
        BY <2>1, <3>1, <3>2, <4>1 DEF WriterOrder
      <4>2. CASE total' = total /\ occupied' = 0
        <5>1. total # 0 => Taken(s)' + 0 <= total
          BY <1>0, <3>2 DEF WriterOrder
        <5> QED BY <2>1, <3>1, <4>2, <5>1 DEF WriterOrder
      <4> QED BY <2>1, <4>1, <4>2
    <3> QED BY <2>1, <3>1, <3>3 DEF ReaderOrder
  <2> QED BY <2>1, <2>2 DEF OrderInv
<1>3. CASE SetUp
  <2>1. /\ out' = <<>> /\ sess' = sess + 1 /\ occupied' = 0 /\ pc' = pc
        /\ total' \in Totals /\ cdda_done' = FALSE /\ hand' = hand
    BY <1>3 DEF SetUp, ResetRing
  <2>2. total' # 0 /\ total' \in Nat
    BY <2>1, TotalsAssumption
  <2>3. ASSUME NEW s \in Session, s = sess'
        PROVE  ReaderOrder(s)' /\ WriterOrder(s)'
    <3>1. pc[R(s)] = "none" /\ pc[W(s)] = "none"
      BY <1>0, <2>1, <2>3 DEF PthrInv, OldGone
    <3>2. Len(out') = 0 /\ Taken(s)' = 0
      BY <2>1, <3>1 DEF Taken, Holds
    <3>3. pc'[R(s)] \notin MayPut /\ pc'[W(s)] \notin Holds
      BY <2>1, <3>1 DEF MayPut, Holds
    <3>4. 0..(occupied' - 1) = {}
      BY <2>1
    <3>5. WriterOrder(s)'
      BY <2>1, <2>2, <3>2, <3>3, <3>4 DEF WriterOrder
    <3> QED BY <3>3, <3>5 DEF ReaderOrder
  <2>4. out' \in Seq(Chunk) /\ \A i \in 1..Len(out') : out'[i] = <<sess', i>>
    BY <2>1
  <2> QED BY <2>1, <2>2, <2>3, <2>4 DEF OrderInv
<1>4. CASE CreateReader
  <2>1. /\ sess \in Session /\ R(sess) \in Thread /\ W(sess) \in Thread
        /\ R(sess) # W(sess)
    BY <1>4, PlaysAssumption, SessionThreads
       DEF CreateReader, PthrInv, PlayBound, TypeOK, ClientOK, Session, R, W
  <2>2. /\ out = <<>> /\ total # 0 /\ ~cdda_done /\ occupied = 0
        /\ pc[W(sess)] = "none"
    BY <1>4 DEF CreateReader, OrderInv, RingInv, PthrInv, ClientAt
  <2>3. /\ pc'[R(sess)] = "new" /\ pc'[W(sess)] = "none"
        /\ hand'[R(sess)] = <<sess, 1>>
        /\ UNCHANGED <<occupied, nextout, b, out, total, cdda_done, sess>>
        /\ cpc' # "create_reader"
    BY <1>0, <1>4, <2>1, <2>2 DEF CreateReader, Goto, ring
  <2>4. Len(out') = 0 /\ Taken(sess)' = 0
    BY <2>2, <2>3 DEF Taken, Holds
  <2>5. "new" \notin Reads /\ "none" \notin Holds
    BY DEF Reads, Holds
  <2>6. ReaderOrder(sess)'
    BY <1>0, <2>2, <2>3, <2>4, <2>5 DEF ReaderOrder
  <2>7. WriterOrder(sess)'
    <3>1. 0..(occupied' - 1) = {}
      BY <2>2, <2>3
    <3> QED BY <1>0, <2>2, <2>3, <2>4, <2>5, <3>1 DEF WriterOrder
  <2> QED BY <2>1, <2>3, <2>6, <2>7 DEF OrderInv
<1>5. CASE CreateWriter
  <2>1. /\ Goto(W(sess), "new") /\ pc[W(sess)] = "none" /\ cpc' = "idle"
        /\ UNCHANGED <<ring, hand, out, total, cdda_done, sess>>
    BY <1>5 DEF CreateWriter, PthrInv, ClientAt
  <2>2. \A u \in Thread : Keeps(u, pc[u], pc'[u])
    <3>1. /\ \A u \in Thread : u = W(sess) \/ pc'[u] = pc[u]
          /\ W(sess) \in Thread => pc'[W(sess)] = "new"
      BY <1>0, <2>1 DEF Goto
    <3>2. W(sess)[1] = "writer"
      BY DEF W
    <3> QED BY <2>1, <3>1, <3>2 DEF Keeps, MayTake, Holds
  <2>3. Still
    BY <2>1, <2>2 DEF Still
  <2> QED BY <2>3, StillKeeps
<1> QED BY <1>1, <1>2, <1>3, <1>4, <1>5 DEF ClientStep

LEMMA InitInOrder == Init => OrderInv
<1> SUFFICES ASSUME Init PROVE OrderInv
  OBVIOUS
<1>1. \A s \in Session : s # 0
  BY PlaysAssumption DEF Session
<1> QED BY <1>1 DEF Init, OrderInv

LEMMA OrderInvariant ==
  ASSUME Pthreads, "pause" \notin Ops
  PROVE  Spec => []OrderInv
<1>1. TypeOK /\ PthrInv /\ RingInv /\ OrderInv /\ [Next]_vars => OrderInv'
  <2> SUFFICES ASSUME TypeOK, PthrInv, RingInv, OrderInv, [Next]_vars
               PROVE  OrderInv'
    OBVIOUS
  <2>1. CASE UNCHANGED vars
    <3>1. Still
      BY <2>1 DEF vars, ring, info, client, Still, Keeps
    <3> QED BY <3>1, StillKeeps
  <2> QED BY <2>1, ReaderInOrder, WriterInOrder, CancelledInOrder,
             ClientInOrder DEF Next, Pthreads
<1> QED BY <1>1, InitInOrder, RingInvariant, TypeCorrect, PthrInvariant,
           PTL DEF Spec

(* What the writer has written of the area of this play are its first      *)
(* chunks, each once and in order: see InOrder.                            *)
THEOREM InOrderHolds ==
  ASSUME Pthreads, "pause" \notin Ops
  PROVE  Spec => []InOrder
<1>1. TypeOK /\ RingInv /\ OrderInv => InOrder
  <2> SUFFICES ASSUME TypeOK, RingInv, OrderInv, total # 0
               PROVE  Len(out) <= total
    BY DEF OrderInv, InOrder
  <2>1. CASE sess = 0
    BY <2>1 DEF OrderInv, TypeOK, InfoOK
  <2>2. CASE sess # 0
    <3>1. /\ sess \in Session /\ WriterOrder(sess) /\ Len(out) \in Nat
          /\ occupied \in Nat /\ total \in Nat
      BY <2>2, PlaysAssumption
         DEF OrderInv, TypeOK, ClientOK, InfoOK, Session, RingInv, RingConsistent
    <3>2. Taken(sess) + occupied <= total
      BY <3>1 DEF WriterOrder
    <3> QED BY <3>1, <3>2 DEF Taken
  <2> QED BY <2>1, <2>2
<1> QED BY <1>1, OrderInvariant, RingInvariant, TypeCorrect, PTL
-----------------------------------------------------------------------------
(***************************************************************************)
(* Without failures the pipeline implements CddaStream: StreamInv, and the *)
(* step of the promise that each step of the pipeline is.                  *)
(***************************************************************************)
LEMMA HarmlessReader ==
  ASSUME Faultless, TypeOK, NoHarm, NEW s \in Session, Reader(s)
  PROVE  /\ NoHarm' /\ pc'[W(s)] = pc[W(s)]
         /\ UNCHANGED <<pending, state, total, out, client>>
<1> DEFINE t == R(s)
<1>0. /\ t \in Thread /\ t[1] = "reader" /\ pc[t] \notin Harmed
      /\ pc \in [Thread -> ReaderLoc \cup WriterLoc]
      /\ t # W(s) /\ W(s) \in Thread
  BY SessionThreads DEF TypeOK, PcOK, NoHarm, R, W
<1>1. /\ \E l : l \notin Harmed /\ (Goto(t, l) \/ UNCHANGED pc)
      /\ UNCHANGED <<pending, state, total, out, client>>
  <2> USE <1>0 DEF Harmed, Faultless, Wait, PthrWait, Post, PthrPost, Pthreads
  <2>1. CASE ReaderStart(s) \/ FillLock(s) \/ Fill(s)
    BY <2>1 DEF ReaderStart, FillLock, Fill, info, sync
  <2>2. CASE FillRead(s) \/ FillEnd(s)
    BY <2>2 DEF FillRead, FillEnd, info, sync
  <2>3. CASE ReadLoop(s) \/ ReadChunk(s)
    BY <2>3 DEF ReadLoop, ReadChunk, info, sync
  <2>4. CASE AwaitRoom(s)
    BY <2>4 DEF AwaitRoom, info, sync
  <2>5. CASE Put(s)
    BY <2>5 DEF Put, info, sync
  <2>6. CASE PutEnd(s) \/ ReaderDone(s)
    BY <2>6 DEF PutEnd, ReaderDone, info, sync
  <2> QED BY <2>1, <2>2, <2>3, <2>4, <2>5, <2>6 DEF Reader
<1>2. \A u \in Thread : pc'[u] \notin Harmed
  BY <1>0, <1>1 DEF Goto, NoHarm
<1>3. NoHarm'
  BY <1>1, <1>2 DEF NoHarm, client
<1> QED BY <1>0, <1>1, <1>3 DEF Goto

(* A writer's step: it ends the play, writes, or goes about its business.  *)
Writes(s) == /\ pc[W(s)] = "write" /\ Goto(W(s), "paused")
             /\ out' = Append(out, hand[W(s)]) /\ UNCHANGED state
Ends(s) == /\ pc[W(s)] = "chk" /\ Goto(W(s), "fin_unlock") /\ Finished
           /\ state' = "COMPLETED" /\ UNCHANGED out
Takes(s) == /\ pc[W(s)] = "take" /\ Goto(W(s), "room") /\ UNCHANGED <<state, out>>
            /\ state # "COMPLETED"
Minds(s) == /\ \/ UNCHANGED pc
               \/ \E l : Goto(W(s), l) /\ (l \in Holds <=> pc[W(s)] \in Holds)
            /\ UNCHANGED <<state, out>>

LEMMA HarmlessWriter ==
  ASSUME Faultless, TypeOK, NoHarm, NEW s \in Session, Writer(s)
  PROVE  /\ NoHarm' /\ UNCHANGED <<pending, total, cdda_done, client>>
         /\ Writes(s) \/ Ends(s) \/ Takes(s) \/ Minds(s)
<1> DEFINE t == W(s)
<1>0. /\ t \in Thread /\ t[1] = "writer" /\ pc[t] \notin Harmed
      /\ pc \in [Thread -> ReaderLoc \cup WriterLoc]
  BY SessionThreads DEF TypeOK, PcOK, NoHarm
<1>1. /\ UNCHANGED <<pending, total, cdda_done, client>>
      /\ Writes(s) \/ Ends(s) \/ Takes(s) \/ Minds(s)
      /\ \E l : l \notin Harmed /\ (Goto(t, l) \/ UNCHANGED pc)
  <2> USE <1>0 DEF Harmed, Holds, Faultless, Wait, PthrWait, Post, PthrPost,
                   Pthreads
  <2>1. CASE WriterStart(s) \/ OpenOutputs(s) \/ WriteLoop(s)
    BY <2>1 DEF WriterStart, OpenOutputs, WriteLoop, info, sync, Minds
  <2>2. CASE CheckEnd(s)
    BY <2>2 DEF CheckEnd, sync, Ends, Minds
  <2>3. CASE AwaitData(s)
    BY <2>3 DEF AwaitData, info, sync, Minds
  <2>4. CASE Take(s)
    BY <2>4 DEF Take, info, sync, Takes, Minds
  <2>5. CASE TakeEnd(s)
    BY <2>5 DEF TakeEnd, info, sync, Minds
  <2>6. CASE WriteChunk(s)
    BY <2>6 DEF WriteChunk, sync, Writes
  <2>7. CASE Unpaused(s) \/ WriteEnd(s) \/ WriterDone(s)
    BY <2>7 DEF Unpaused, WriteEnd, WriterDone, info, sync, Minds
  <2> QED BY <2>1, <2>2, <2>3, <2>4, <2>5, <2>6, <2>7 DEF Writer
<1>2. \A u \in Thread : pc'[u] \notin Harmed
  BY <1>0, <1>1 DEF Goto, NoHarm
<1>3. NoHarm'
  BY <1>1, <1>2 DEF NoHarm, client, Writes, Ends, Takes, Minds
<1> QED BY <1>1, <1>3

LEMMA NobodyCancelled ==
  ASSUME Faultless, NoHarm, NEW t \in Thread
  PROVE  ~Cancelled(t)
BY DEF Faultless, Pthreads, NoHarm, Harmed, Cancelled, CancelAsleep,
       CancelAtIO, CancelBare, Unblock, SigTerm

LEMMA CountOK ==
  ASSUME TypeOK, OrderInv, RingInv, NEW s \in Session
  PROVE  /\ Len(out) \in Nat /\ Taken(s) \in Nat /\ occupied \in Nat
         /\ total \in Nat /\ hand[R(s)][2] \in Nat
         /\ pc \in [Thread -> ReaderLoc \cup WriterLoc] /\ R(s) # W(s)
<1>1. /\ hand \in [Thread -> Chunk] /\ R(s) \in Thread /\ out \in Seq(Chunk)
      /\ total \in Nat /\ occupied \in Nat
  BY SessionThreads
     DEF TypeOK, HandOK, InfoOK, OrderInv, RingInv, RingConsistent
<1>2. Len(out) \in Nat
  BY <1>1
<1> QED BY <1>1, <1>2 DEF Chunk, Taken, TypeOK, PcOK, R, W

(* A thread that takes a step is of this play. *)
LEMMA CurrentThread ==
  ASSUME TypeOK, PthrInv, NEW s \in Session, ~Gone(R(s)) \/ ~Gone(W(s))
  PROVE  s = sess
<1>1. s \in Nat /\ sess \in Nat
  BY SessionThreads DEF TypeOK, ClientOK
<1> QED BY <1>1 DEF PthrInv, OldGone, Gone

LEMMA ReaderLasts ==
  ASSUME Faultless, TypeOK, PthrInv, RingInv, OrderInv, StreamInv,
         NEW s \in Session, Reader(s)
  PROVE  StreamInv'
<1> DEFINE t == R(s)
           n == hand[t][2]
<1>0. s = sess /\ pc[t] # "dead"
  <2>1. ~Gone(t)
    BY DEF Gone, Reader, ReaderStart, FillLock, Fill, FillRead, FillEnd,
           ReadLoop, ReadChunk, AwaitRoom, Put, PutEnd, ReaderDone
  <2> QED BY <2>1, CurrentThread DEF Gone
<1>1. /\ NoHarm' /\ pc'[W(s)] = pc[W(s)]
      /\ UNCHANGED <<state, total, out, client>>
  BY HarmlessReader DEF StreamInv
<1>2. /\ occupied \in Nat /\ Taken(s) \in Nat /\ total \in Nat /\ n \in Nat
      /\ Taken(s)' = Taken(s)
  <2>1. Taken(s)' = Taken(s)
    BY <1>1 DEF Taken
  <2> QED BY <2>1, CountOK
<1>3. \/ UNCHANGED <<occupied, cdda_done>>
      \/ occupied' = occupied + 1 /\ cdda_done' = cdda_done
      \/ /\ pc[t] \in MayPut /\ occupied' = occupied
         /\ cdda_done' => cdda_done \/ n >= total
  <2>1. CASE Fill(s) \/ ReadLoop(s)
    BY <2>1 DEF Fill, ReadLoop, AtEnd, MayPut, ring
  <2>2. CASE FillRead(s) \/ Put(s)
    BY <2>2 DEF FillRead, Put, Deposit, info, ring
  <2>3. CASE ReaderStart(s) \/ FillLock(s) \/ FillEnd(s) \/ ReadChunk(s)
               \/ AwaitRoom(s) \/ PutEnd(s) \/ ReaderDone(s)
    BY <2>3 DEF ReaderStart, FillLock, FillEnd, ReadChunk, AwaitRoom, PutEnd,
                ReaderDone, info, ring
  <2> QED BY <2>1, <2>2, <2>3 DEF Reader
<1>4. Lasts(s) /\ ReaderOrder(s)
  BY <1>0 DEF StreamInv, OrderInv
<1>5. Lasts(s)'
  BY <1>1, <1>2, <1>3, <1>4 DEF Lasts, ReaderOrder, Gone
<1> QED BY <1>0, <1>1, <1>5 DEF StreamInv, client

(* What is taken or in the ring does not become less while the play lasts. *)
LEMMA WriterCounts ==
  ASSUME Faultless, TypeOK, RingInv, OrderInv, StreamInv,
         NEW s \in Session, s = sess, Writer(s),
         state # "COMPLETED", state' # "COMPLETED"
  PROVE  /\ pc'[W(s)] \in MayTake
         /\ Taken(s)' + occupied' >= Taken(s) + occupied
<1> DEFINE t == W(s)
<1>a. /\ occupied \in Nat /\ Taken(s) \in Nat /\ Len(out) \in Nat
      /\ pc \in [Thread -> ReaderLoc \cup WriterLoc]
      /\ t \in Thread /\ Lasts(s) /\ t[1] = "writer"
  BY CountOK, SessionThreads DEF StreamInv
<1>b. pc[t] \in MayTake
  BY <1>a DEF Lasts
<1>1. CASE Take(s)
  <2>1. /\ pc[t] = "take" /\ pc'[t] = "room" /\ occupied' = occupied - 1
        /\ out' = out
    BY <1>a, <1>1 DEF Take, Goto
  <2> QED BY <1>a, <2>1 DEF Taken, Holds, MayTake
<1>2. CASE WriteChunk(s)
  <2>1. /\ pc[t] = "write" /\ pc'[t] = "paused" /\ occupied' = occupied
        /\ out' = Append(out, hand[t])
    BY <1>a, <1>2 DEF WriteChunk, Goto, ring, Faultless
  <2>2. Len(out') = Len(out) + 1
    BY <2>1 DEF OrderInv
  <2> QED BY <1>a, <2>1, <2>2 DEF Taken, Holds, MayTake
<1>3. CASE ~Take(s) /\ ~WriteChunk(s)
  <2>1. /\ UNCHANGED <<occupied, out>>
        /\ pc'[t] \in MayTake /\ (pc'[t] \in Holds <=> pc[t] \in Holds)
    <3> USE <1>a, <1>b DEF MayTake, Holds, Goto, Wait, PthrWait, Post,
                           PthrPost, ring, Faultless, Pthreads
    <3>1. CASE WriterStart(s) \/ OpenOutputs(s) \/ WriteLoop(s)
      BY <3>1 DEF WriterStart, OpenOutputs, WriteLoop
    <3>2. CASE CheckEnd(s) \/ AwaitData(s)
      BY <3>2 DEF CheckEnd, AwaitData
    <3>3. CASE TakeEnd(s) \/ Unpaused(s)
      BY <3>3 DEF TakeEnd, Unpaused
    <3>4. CASE WriteEnd(s) \/ WriterDone(s)
      BY <3>4 DEF WriteEnd, WriterDone
    <3> QED BY <1>3, <3>1, <3>2, <3>3, <3>4 DEF Writer
  <2> QED BY <1>a, <2>1 DEF Taken
<1> QED BY <1>1, <1>2, <1>3

LEMMA WriterLasts ==
  ASSUME Faultless, TypeOK, PthrInv, RingInv, OrderInv, StreamInv,
         NEW s \in Session, Writer(s)
  PROVE  StreamInv'
<1> DEFINE t == W(s)
<1>0. s = sess /\ ~Gone(t)
  <2>1. ~Gone(t)
    BY DEF Gone, Writer, WriterStart, OpenOutputs, WriteLoop, CheckEnd,
           AwaitData, Take, TakeEnd, WriteChunk, Unpaused, WriteEnd, WriterDone
  <2> QED BY <2>1, CurrentThread
<1>1. /\ NoHarm' /\ UNCHANGED <<total, cdda_done, client>>
  BY HarmlessWriter DEF StreamInv
<1>2. /\ occupied \in Nat /\ Taken(s) \in Nat /\ Len(out) \in Nat
      /\ total \in Nat /\ pc \in [Thread -> ReaderLoc \cup WriterLoc]
      /\ t \in Thread /\ Lasts(s) /\ t[1] = "writer"
  BY <1>0, CountOK, SessionThreads DEF StreamInv
<1>3. state # "COMPLETED" /\ state' # "COMPLETED" =>
        /\ pc'[t] \in MayTake
        /\ Taken(s)' + occupied' >= Taken(s) + occupied
  BY <1>0, WriterCounts
<1>4. state = "COMPLETED" => state' = "COMPLETED"
  BY HarmlessWriter DEF StreamInv, Writes, Ends, Takes, Minds
<1>5. Taken(s)' \in Int /\ occupied' \in Int
  <2>1. Len(out)' \in Nat
    BY HarmlessWriter, <1>2 DEF StreamInv, OrderInv, Writes, Ends, Takes, Minds
  <2>2. occupied' \in Int
    BY <1>2 DEF Writer, WriterStart, OpenOutputs, WriteLoop, CheckEnd,
           AwaitData, Take, TakeEnd, WriteChunk, Unpaused, WriteEnd,
           WriterDone, ring
  <2> QED BY <2>1, <2>2 DEF Taken
<1>6. Lasts(s)'
  BY <1>0, <1>1, <1>2, <1>3, <1>4, <1>5 DEF Lasts
<1> QED BY <1>0, <1>1, <1>6 DEF StreamInv, client

LEMMA ClientLasts ==
  ASSUME Faultless, TypeOK, PthrInv, OrderInv, StreamInv,
         ClientStep \/ ClientCall
  PROVE  StreamInv'
<1>0. /\ NoHarm /\ sess \in Nat /\ "create" \notin Faults
      /\ "hang" \notin Faults /\ "pause" \notin Ops
      /\ pc \in [Thread -> ReaderLoc \cup WriterLoc]
  BY PlaysAssumption DEF StreamInv, TypeOK, ClientOK, PcOK, Faultless
<1>1. CASE JoinWriter \/ JoinReader \/ ClientCall
  <2>1. /\ UNCHANGED <<pending, pc, occupied, total, cdda_done, sess, out>>
        /\ state' = "COMPLETED" \/ state' = state
        /\ cpc' \in StopStep \cup {"play", "cleanup"} => state' = "COMPLETED"
        /\ cpc' \notin {"create_reader", "create_writer"}
    BY <1>0, <1>1 DEF JoinWriter, JoinReader, ClientCall, Stop, Halt, Play,
                      GetStatus, PauseResume, BeginStop, info, sync, ring,
                      Idle, NoHarm, StopStep
  <2> QED BY <1>0, <2>1 DEF StreamInv, NoHarm, Lasts, Gone, Taken
<1>2. CASE InitShm \/ Cleanup
  <2>1. /\ WritersGone /\ UNCHANGED <<pending, pc, sess>>
        /\ state' = "COMPLETED"
        /\ cpc' \notin {"create_reader", "create_writer"}
    BY <1>0, <1>2 DEF InitShm, Cleanup, PthrInv, ClientAt, sync, NoHarm,
                      TypeOK, ClientOK
  <2> QED BY <1>0, <2>1 DEF StreamInv, NoHarm, Lasts, Gone, WritersGone
<1>3. CASE SetUp
  <2>1. /\ UNCHANGED <<pending, pc>> /\ sess' = sess + 1 /\ cdda_done' = FALSE
        /\ state' = "PLAYING" /\ cpc' = "create_reader" /\ total' # 0
    BY <1>0, <1>3, TotalsAssumption DEF SetUp
  <2>2. ASSUME NEW s \in Session, s = sess' PROVE pc'[W(s)] \in MayTake
    BY <1>0, <2>1, <2>2 DEF PthrInv, OldGone, MayTake
  <2> QED BY <1>0, <2>1, <2>2 DEF StreamInv, NoHarm, Lasts, StopStep
<1>4. CASE CreateReader \/ CreateWriter
  <2>1. /\ UNCHANGED <<state, total, cdda_done, occupied, out, sess, pending>>
        /\ cpc' \in {"create_writer", "idle"} /\ total # 0
        /\ pc[W(sess)] = "none" /\ sess \in Session
        /\ Goto(R(sess), "new") \/ Goto(W(sess), "new")
    BY <1>0, <1>4 DEF CreateReader, CreateWriter, NoHarm, PthrInv, ClientAt,
                      PlayBound, ring, TypeOK, ClientOK, Session
  <2>2. /\ \A t \in Thread : pc'[t] \in {pc[t], "new"}
        /\ pc'[W(sess)] \in {"none", "new"}
    BY <1>0, <2>1, SessionThreads DEF Goto
  <2>3. Taken(sess)' = Taken(sess)
    BY <2>1, <2>2 DEF Taken, Holds
  <2>4. Lasts(sess)'
    BY <1>0, <2>1, <2>2, <2>3 DEF StreamInv, Lasts, MayTake
  <2>5. NoHarm'
    BY <1>0, <2>1, <2>2 DEF NoHarm, StopStep, Harmed
  <2> QED BY <2>1, <2>4, <2>5 DEF StreamInv
<1> QED BY <1>1, <1>2, <1>3, <1>4 DEF ClientStep

LEMMA StreamInit == Init => StreamInv
<1> SUFFICES ASSUME Init PROVE StreamInv
  OBVIOUS
<1>1. \A s \in Session : pc[W(s)] = "none" /\ s # 0
  BY SessionThreads, PlaysAssumption DEF Init, Session
<1> QED BY <1>1 DEF Init, StreamInv, NoHarm, Harmed, Lasts, Gone, StopStep

LEMMA StreamInvariant ==
  ASSUME Faultless
  PROVE  Spec => [](TypeOK /\ PthrInv /\ RingInv /\ OrderInv /\ StreamInv)
<1>1. TypeOK /\ PthrInv /\ RingInv /\ OrderInv /\ StreamInv /\ [Next]_vars
        => StreamInv'
  <2> SUFFICES ASSUME TypeOK, PthrInv, RingInv, OrderInv, StreamInv,
                      [Next]_vars
               PROVE  StreamInv'
    OBVIOUS
  <2>1. CASE UNCHANGED vars
    BY <2>1 DEF vars, info, ring, sync, client, StreamInv, NoHarm, Lasts,
                Gone, Taken
  <2> QED BY <2>1, ReaderLasts, WriterLasts, NobodyCancelled, ClientLasts
          DEF Next, StreamInv
<1>2. Pthreads /\ "pause" \notin Ops
  BY DEF Faultless
<1> QED BY <1>1, <1>2, StreamInit, OrderInvariant, RingInvariant, TypeCorrect,
           PthrInvariant, PTL DEF Spec

(* When the promise allows a late chunk: a stopped writer has one to write. *)
LateNow == sess > 0 /\ state = "COMPLETED" /\ pc[W(sess)] \in Holds

LEMMA LateIs ==
  ASSUME TypeOK, TypeOK', NoHarm, NoHarm'
  PROVE  /\ Late = IF LateNow THEN TRUE ELSE FALSE
         /\ Late' = IF LateNow' THEN TRUE ELSE FALSE
<1>1. state \in {"COMPLETED", "PLAYING"} /\ state' \in {"COMPLETED", "PLAYING"}
  BY DEF TypeOK, InfoOK, NoHarm
<1>2. (Late <=> LateNow) /\ (Late' <=> LateNow')
  BY <1>1 DEF Late, LateNow, Holds
<1> QED BY <1>2 DEF Late

LEMMA Stutters ==
  ASSUME TypeOK, TypeOK', NoHarm, NoHarm', UNCHANGED <<state, total, out>>,
         (cpc = "idle") <=> (cpc' = "idle"), LateNow <=> LateNow'
  PROVE  UNCHANGED Stream!vars
<1>1. Late' = Late
  BY LateIs
<1>2. (cpc # "idle")' = (cpc # "idle")
  OBVIOUS
<1> QED BY <1>1, <1>2 DEF Stream!vars

LEMMA ReaderStream ==
  ASSUME Faultless, TypeOK, TypeOK', NoHarm, PthrInv, NEW s \in Session,
         Reader(s)
  PROVE  UNCHANGED Stream!vars
<1>1. s = sess
  <2>1. ~Gone(R(s))
    BY DEF Gone, Reader, ReaderStart, FillLock, Fill, FillRead, FillEnd,
           ReadLoop, ReadChunk, AwaitRoom, Put, PutEnd, ReaderDone
  <2> QED BY <2>1, CurrentThread
<1>2. /\ NoHarm' /\ pc'[W(sess)] = pc[W(sess)]
      /\ UNCHANGED <<state, total, out, cpc, sess>>
  BY <1>1, HarmlessReader DEF client
<1> QED BY <1>2, Stutters DEF LateNow

LEMMA WriterStream ==
  ASSUME Faultless, TypeOK, TypeOK', RingInv, OrderInv, StreamInv, PthrInv,
         NEW s \in Session, Writer(s)
  PROVE  Stream!Next \/ UNCHANGED Stream!vars
<1>1. s = sess /\ ~Gone(W(s)) /\ sess > 0
  <2>1. ~Gone(W(s))
    BY DEF Gone, Writer, WriterStart, OpenOutputs, WriteLoop, CheckEnd,
           AwaitData, Take, TakeEnd, WriteChunk, Unpaused, WriteEnd, WriterDone
  <2> QED BY <2>1, CurrentThread, PlaysAssumption DEF Session
<1>2. /\ NoHarm /\ NoHarm' /\ UNCHANGED <<total, cdda_done, cpc, sess>>
      /\ Writes(s) \/ Ends(s) \/ Takes(s) \/ Minds(s)
  BY HarmlessWriter DEF StreamInv, client
<1>3. /\ pc \in [Thread -> ReaderLoc \cup WriterLoc] /\ W(s) \in Thread
      /\ Len(out) \in Nat /\ total \in Nat /\ occupied \in Nat
      /\ WriterOrder(s) /\ Lasts(s) /\ state \in {"COMPLETED", "PLAYING"}
  BY <1>1, <1>2, CountOK, SessionThreads
     DEF StreamInv, OrderInv, TypeOK, InfoOK, NoHarm
<1>4. /\ Late = IF LateNow THEN TRUE ELSE FALSE
      /\ Late' = IF LateNow' THEN TRUE ELSE FALSE
  BY <1>2, LateIs
<1>5. CASE Writes(s)
  <2>1. /\ pc[W(s)] = "write" /\ pc'[W(s)] = "paused" /\ state' = state
        /\ out' = Append(out, hand[W(s)])
    BY <1>3, <1>5 DEF Writes, Goto
  <2>2. Len(out') = Len(out) + 1
    BY <2>1 DEF OrderInv
  <2>3. Len(out) < total
    BY <1>1, <1>3, <2>1 DEF WriterOrder, Taken, Holds, Lasts
  <2>4. Late' = FALSE /\ (state = "PLAYING" \/ Late)
    BY <1>1, <1>2, <1>3, <1>4, <2>1 DEF LateNow, Holds
  <2>5. Stream!Write
    BY <1>2, <2>1, <2>2, <2>3, <2>4 DEF Stream!Write
  <2> QED BY <2>5 DEF Stream!Next
<1>6. CASE Ends(s)
  <2>1. /\ pc[W(s)] = "chk" /\ pc'[W(s)] = "fin_unlock" /\ out' = out
        /\ state' = "COMPLETED" /\ occupied = 0 /\ cdda_done
    BY <1>3, <1>6 DEF Ends, Goto, Finished
  <2>2. ~LateNow /\ ~LateNow'
    BY <1>1, <1>2, <2>1 DEF LateNow, Holds
  <2>3. CASE state = "COMPLETED"
    BY <1>2, <2>1, <2>2, <2>3, Stutters
  <2>4. CASE state # "COMPLETED"
    <3>1. Len(out) + 1 >= total
      BY <1>3, <2>1, <2>4 DEF Lasts, Taken, Holds
    <3>2. Stream!Finish
      BY <1>2, <1>4, <2>1, <2>2, <2>4, <3>1 DEF Stream!Finish
    <3> QED BY <3>2 DEF Stream!Next
  <2> QED BY <2>3, <2>4
<1>7. CASE Takes(s) \/ Minds(s)
  <2>1. UNCHANGED <<state, out>> /\ (LateNow <=> LateNow')
    BY <1>1, <1>2, <1>3, <1>7 DEF Takes, Minds, Goto, LateNow
  <2> QED BY <1>2, <2>1, Stutters
<1> QED BY <1>2, <1>5, <1>6, <1>7

LEMMA ClientStream ==
  ASSUME Faultless, TypeOK, TypeOK', OrderInv, StreamInv, StreamInv', PthrInv,
         ClientStep \/ ClientCall
  PROVE  Stream!Next \/ UNCHANGED Stream!vars
<1>1. /\ NoHarm /\ NoHarm' /\ sess \in Nat /\ sess' \in Nat
      /\ "create" \notin Faults /\ "hang" \notin Faults /\ "pause" \notin Ops
      /\ pc \in [Thread -> ReaderLoc \cup WriterLoc]
      /\ state \in {"COMPLETED", "PLAYING"}
  BY PlaysAssumption
     DEF StreamInv, TypeOK, ClientOK, PcOK, InfoOK, NoHarm, Faultless
<1>2. /\ Late = IF LateNow THEN TRUE ELSE FALSE
      /\ Late' = IF LateNow' THEN TRUE ELSE FALSE
  BY <1>1, LateIs
<1>3. CASE ClientCall
  <2>1. \/ /\ cpc = "idle" /\ cpc' # "idle" /\ state' = "COMPLETED"
           /\ UNCHANGED <<total, out, pc, sess>>
        \/ /\ cpc = "idle" /\ cpc' # "idle" /\ state = "COMPLETED"
           /\ UNCHANGED <<state, total, out, pc, sess>>
    BY <1>1, <1>3 DEF ClientCall, Stop, Halt, Play, GetStatus, PauseResume,
                      BeginStop, Idle, info
  <2>2. Stream!CallStop
    BY <1>1, <1>2, <2>1 DEF Stream!CallStop, LateNow
  <2> QED BY <2>2 DEF Stream!Next
<1>4. CASE JoinWriter \/ JoinReader
  <2>1. UNCHANGED <<state, total, out, pc, sess>> /\ cpc # "idle" /\ cpc' # "idle"
    BY <1>4 DEF JoinWriter, JoinReader
  <2> QED BY <1>1, <2>1, Stutters DEF LateNow
<1>5. CASE InitShm \/ Cleanup
  <2>1. /\ UNCHANGED <<out, pc, sess>> /\ cpc # "idle" /\ WritersGone
        /\ state = "COMPLETED" /\ state' = "COMPLETED"
        /\ total' = 0 \/ (total' = total /\ cpc' = "idle")
    BY <1>1, <1>5 DEF InitShm, Cleanup, PthrInv, ClientAt, NoHarm, StopStep
  <2>2. ~LateNow /\ ~LateNow'
    <3>1. sess > 0 => W(sess) \notin Thread \/ pc[W(sess)] \in {"none", "dead"}
      BY <2>1, SessionThreads DEF WritersGone, Gone, W, Thread
    <3>2. sess > 0 => sess \in Session
      BY <1>1, PlaysAssumption DEF TypeOK, ClientOK, Session
    <3> QED BY <2>1, <3>1, <3>2, SessionThreads DEF LateNow, Holds
  <2>3. Stream!Stopped \/ Stream!Return
    BY <1>2, <2>1, <2>2 DEF Stream!Stopped, Stream!Return
  <2> QED BY <2>3 DEF Stream!Next
<1>6. CASE SetUp
  <2>1. /\ cpc = "play" /\ cpc' = "create_reader" /\ state = "COMPLETED"
        /\ state' = "PLAYING" /\ total' \in Totals /\ out' = <<>>
        /\ WritersGone
    BY <1>1, <1>6 DEF SetUp, NoHarm, PthrInv, ClientAt
  <2>2. ~LateNow /\ ~LateNow'
    <3>1. sess > 0 => sess \in Session
      BY <1>1, PlaysAssumption DEF TypeOK, ClientOK, Session
    <3> QED BY <2>1, <3>1 DEF LateNow, Holds, WritersGone, Gone
  <2>3. Stream!Start
    BY <1>2, <2>1, <2>2 DEF Stream!Start
  <2> QED BY <2>3 DEF Stream!Next
<1>7. CASE CreateReader \/ CreateWriter
  <2>1. /\ UNCHANGED <<state, total, out, sess>> /\ cpc # "idle"
        /\ pc[W(sess)] = "none" /\ sess \in Session
        /\ \/ Goto(R(sess), "new") /\ cpc' # "idle"
           \/ Goto(W(sess), "new") /\ cpc' = "idle"
    BY <1>1, <1>7 DEF CreateReader, CreateWriter, PthrInv, ClientAt,
                      PlayBound, TypeOK, ClientOK, Session
  <2>2. ~LateNow /\ ~LateNow'
    BY <1>1, <2>1, SessionThreads DEF LateNow, Holds, Goto
  <2>3. CASE cpc' # "idle"
    BY <1>1, <2>1, <2>2, <2>3, Stutters
  <2>4. CASE cpc' = "idle"
    <3>1. Stream!Return
      BY <1>2, <2>1, <2>2, <2>4 DEF Stream!Return
    <3> QED BY <3>1 DEF Stream!Next
  <2> QED BY <2>3, <2>4
<1> QED BY <1>3, <1>4, <1>5, <1>6, <1>7 DEF ClientStep

(* Without failures and pauses the threads, the ring buffer and the        *)
(* semaphores keep the promise to the user of cdda_play: ImplementsStream. *)
THEOREM ImplementsStreamHolds ==
  ASSUME Faultless
  PROVE  Spec => ImplementsStream
<1> DEFINE Inv == TypeOK /\ PthrInv /\ RingInv /\ OrderInv /\ StreamInv
<1>1. Init => Stream!Init
  <2> SUFFICES ASSUME Init PROVE Stream!Init
    OBVIOUS
  <2>1. Late = FALSE
    <3>1. sess = 0
      BY DEF Init
    <3> QED BY <3>1 DEF Late
  <2> QED BY <2>1 DEF Init, Stream!Init
<1>2. Inv /\ Inv' /\ [Next]_vars => [Stream!Next]_Stream!vars
  <2> SUFFICES ASSUME Inv, Inv', [Next]_vars
               PROVE  Stream!Next \/ UNCHANGED Stream!vars
    OBVIOUS
  <2>1. NoHarm /\ NoHarm'
    BY DEF StreamInv
  <2>2. CASE UNCHANGED vars
    BY <2>1, <2>2, Stutters DEF vars, info, client, LateNow
  <2> QED BY <2>1, <2>2, ReaderStream, WriterStream, NobodyCancelled,
             ClientStream DEF Next
<1>3. Spec => []Inv
  BY StreamInvariant
<1> QED BY <1>1, <1>2, <1>3, PTL DEF Spec, ImplementsStream, Stream!Spec
-----------------------------------------------------------------------------
(***************************************************************************)
(* A play that ends by itself has written all but at most the last chunk:  *)
(* WroteInv.                                                               *)
(***************************************************************************)
LEMMA ReaderWrote ==
  ASSUME Faultless, TypeOK, PthrInv, RingInv, OrderInv, StreamInv, WroteInv,
         NEW s \in Session, Reader(s)
  PROVE  WroteInv'
<1> DEFINE t == R(s)
           n == hand[t][2]
<1>0. s = sess
  <2>1. ~Gone(t)
    BY DEF Gone, Reader, ReaderStart, FillLock, Fill, FillRead, FillEnd,
           ReadLoop, ReadChunk, AwaitRoom, Put, PutEnd, ReaderDone
  <2> QED BY <2>1, CurrentThread
<1>1. /\ pc'[W(s)] = pc[W(s)] /\ UNCHANGED <<state, total, out, cpc, sess>>
  BY HarmlessReader DEF StreamInv, client
<1>2. /\ occupied \in Nat /\ Taken(s) \in Nat /\ total \in Nat /\ n \in Nat
      /\ pc \in [Thread -> ReaderLoc \cup WriterLoc]
      /\ hand \in [Thread -> Chunk] /\ BufferChunks \in Nat
      /\ t \in Thread /\ t[1] = "reader" /\ pc[t] \notin Harmed
  BY CountOK, SessionThreads, BufferAssumption
     DEF TypeOK, HandOK, StreamInv, NoHarm
<1>3. Taken(s)' = Taken(s)
  BY <1>1 DEF Taken
<1>4. Filled(s) /\ Wrote(s) /\ Lasts(s) /\ ReaderOrder(s)
  BY <1>0 DEF WroteInv, StreamInv, OrderInv
<1>5. Wrote(s)'
  BY <1>1, <1>4 DEF Wrote, Gone, AllButOne
<1>6. Filled(s)'
  <2>1. CASE Fill(s)
    <3> DEFINE more == n <= BufferChunks /\ ~cdda_done
    <3>1. /\ pc[t] = "fill" /\ UNCHANGED <<hand, occupied>>
          /\ pc'[t] = IF more THEN "fill_read" ELSE "fill_room"
      BY <1>2, <2>1 DEF Fill, Goto, ring
    <3>2. ~more => (cdda_done' <=> cdda_done) /\ (n > BufferChunks \/ cdda_done)
      <4>1. ~more => (cdda_done' <=> cdda_done)
        BY <2>1 DEF Fill
      <4>2. ~(n <= BufferChunks) => n > BufferChunks
        BY <1>2
      <4> QED BY <4>1, <4>2
    <3> HIDE DEF more
    <3> QED BY <1>1, <1>2, <1>3, <1>4, <3>1, <3>2 DEF Filled
  <2>2. CASE ReadLoop(s)
    <3> DEFINE more == state # "COMPLETED" /\ ~cdda_done
    <3>1. /\ pc[t] = "loop" /\ UNCHANGED <<hand, occupied>>
          /\ pc'[t] = IF more THEN "read" ELSE "wake"
      BY <1>2, <2>2 DEF ReadLoop, Goto, ring
    <3>2. ~more => (cdda_done' <=> cdda_done)
      BY <2>2 DEF ReadLoop
    <3>3. more => n > BufferChunks /\ n <= total
      BY <1>4, <3>1 DEF Filled, ReaderOrder, MayPut
    <3>4. "wake" \notin MayPut
      BY DEF MayPut
    <3> HIDE DEF more
    <3> QED BY <1>1, <1>2, <1>3, <1>4, <3>1, <3>2, <3>3, <3>4 DEF Filled
  <2>3. CASE (FillRead(s) \/ Put(s)) /\ Deposit(t)
    <3>1. /\ hand'[t][2] = n + 1 /\ occupied' = occupied + 1
          /\ cdda_done' = cdda_done
          /\ \/ pc[t] = "fill_read" /\ pc'[t] = "fill"
             \/ pc[t] = "put" /\ pc'[t] = "data"
      <4>1. occupied' # occupied
        BY <1>2, <2>3 DEF Deposit
      <4>2. /\ hand'[t][2] = n + 1 /\ occupied' = occupied + 1
        BY <1>2, <2>3 DEF Deposit, Chunk
      <4> QED BY <1>2, <2>3, <4>1, <4>2 DEF FillRead, Put, Goto, info, ring
    <3>2. pc[t] = "put" => cdda_done \/ n > BufferChunks
      BY <1>4 DEF Filled, MayPut
    <3>3. state # "COMPLETED" /\ cdda_done => Taken(s) + occupied + 1 >= total
      BY <1>4 DEF Lasts
    <3> QED BY <1>1, <1>2, <1>3, <1>4, <3>1, <3>2, <3>3 DEF Filled
  <2>4. CASE ~Fill(s) /\ ~ReadLoop(s)
               /\ ~((FillRead(s) \/ Put(s)) /\ Deposit(t))
    <3>1. /\ UNCHANGED <<hand, occupied, cdda_done>>
          /\ state # "COMPLETED" => pc[t] # "fill_read"
          /\ pc'[t] \in MayPut \ {"new", "fill_lock", "fill", "fill_read"} =>
               pc[t] \in MayPut \ {"new", "fill_lock", "fill", "fill_read"}
      <4> USE <1>2 DEF MayPut, Goto, Harmed, Wait, PthrWait, Post, PthrPost,
                       Faultless, Pthreads
      <4>1. CASE ReaderStart(s) \/ FillLock(s) \/ ReaderDone(s)
        BY <4>1 DEF ReaderStart, FillLock, ReaderDone, info, ring
      <4>2. CASE FillRead(s)
        BY <2>4, <4>2 DEF FillRead
      <4>3. CASE FillEnd(s) \/ ReadChunk(s)
        BY <4>3 DEF FillEnd, ReadChunk, info, ring
      <4>4. CASE AwaitRoom(s)
        BY <4>4 DEF AwaitRoom, info, ring
      <4>5. CASE Put(s)
        BY <2>4, <4>5 DEF Put, info, ring
      <4>6. CASE PutEnd(s)
        BY <4>6 DEF PutEnd, info, ring
      <4> QED BY <2>4, <4>1, <4>2, <4>3, <4>4, <4>5, <4>6 DEF Reader
    <3> QED BY <1>1, <1>2, <1>3, <1>4, <3>1 DEF Filled
  <2> QED BY <2>1, <2>2, <2>3, <2>4
<1> QED BY <1>0, <1>1, <1>5, <1>6 DEF WroteInv

LEMMA WriterWrote ==
  ASSUME Faultless, TypeOK, PthrInv, RingInv, OrderInv, StreamInv, WroteInv,
         NEW s \in Session, Writer(s)
  PROVE  WroteInv'
<1> DEFINE t == W(s)
<1>0. s = sess /\ ~Gone(t)
  <2>1. ~Gone(t)
    BY DEF Gone, Writer, WriterStart, OpenOutputs, WriteLoop, CheckEnd,
           AwaitData, Take, TakeEnd, WriteChunk, Unpaused, WriteEnd, WriterDone
  <2> QED BY <2>1, CurrentThread
<1>1. /\ UNCHANGED <<total, cdda_done, cpc, sess>>
      /\ Writes(s) \/ Ends(s) \/ Takes(s) \/ Minds(s)
  BY HarmlessWriter DEF StreamInv, client
<1>2. /\ occupied \in Nat /\ Taken(s) \in Nat /\ Len(out) \in Nat
      /\ total \in Nat /\ BufferChunks \in Nat
      /\ pc \in [Thread -> ReaderLoc \cup WriterLoc]
      /\ R(s) \in Thread /\ t \in Thread /\ t # R(s)
      /\ R(s)[1] = "reader" /\ t[1] = "writer"
      /\ hand \in [Thread -> Chunk]
  BY CountOK, SessionThreads, BufferAssumption DEF TypeOK, HandOK
<1>3. Filled(s) /\ Wrote(s) /\ Lasts(s) /\ WriterOrder(s)
  BY <1>0 DEF WroteInv, StreamInv, OrderInv
<1>4. pc'[R(s)] = pc[R(s)] /\ hand'[R(s)] = hand[R(s)]
  <2>1. pc'[R(s)] = pc[R(s)]
    BY <1>1, <1>2 DEF Writes, Ends, Takes, Minds, Goto
  <2>2. hand'[R(s)] = hand[R(s)]
    BY <1>2 DEF Writer, WriterStart, OpenOutputs, WriteLoop, CheckEnd,
           AwaitData, Take, TakeEnd, WriteChunk, Unpaused, WriteEnd, WriterDone
  <2> QED BY <2>1, <2>2
<1>5. state = "COMPLETED" => state' = "COMPLETED"
  BY <1>1 DEF Writes, Ends, Takes, Minds
<1>6. Taken(s)' \in Int /\ occupied' \in Int
  <2>1. Len(out)' \in Nat
    BY <1>1, <1>2 DEF OrderInv, Writes, Ends, Takes, Minds
  <2>2. occupied' \in Int
    BY <1>2 DEF Writer, WriterStart, OpenOutputs, WriteLoop, CheckEnd,
           AwaitData, Take, TakeEnd, WriteChunk, Unpaused, WriteEnd,
           WriterDone, ring
  <2> QED BY <2>1 , <2>2 DEF Taken
<1>7. Filled(s)'
  <2>1. state' # "COMPLETED" => Taken(s)' + occupied' >= Taken(s) + occupied
    BY <1>0, <1>5, WriterCounts
  <2> QED BY <1>1, <1>2, <1>3, <1>4, <1>5, <1>6, <2>1 DEF Filled
<1>8. Wrote(s)'
  <2> SUFFICES ASSUME cpc = "idle", state' = "COMPLETED", ~Gone(t)'
               PROVE  /\ pc'[t] \in {"fin_unlock", "wake", "done"}
                      /\ AllButOne'
    BY <1>1 DEF Wrote
  <2>1. CASE state = "COMPLETED"
    <3>1. pc[t] \in {"fin_unlock", "wake", "done"} /\ AllButOne
      BY <1>0, <1>3, <2>1 DEF Wrote
    <3>2. /\ out' = out
          /\ pc'[t] \in {"fin_unlock", "wake", "done", "dead"}
      BY <1>2, <3>1
         DEF Writer, WriterStart, OpenOutputs, WriteLoop, CheckEnd, AwaitData,
             Take, TakeEnd, WriteChunk, Unpaused, WriteEnd, WriterDone, Goto,
             Wait, PthrWait, Post, PthrPost, Faultless, Pthreads
    <3> QED BY <1>1, <3>1, <3>2 DEF AllButOne, Gone
  <2>2. CASE state # "COMPLETED"
    <3>1. /\ pc[t] = "chk" /\ pc'[t] = "fin_unlock" /\ out' = out
          /\ occupied = 0 /\ cdda_done
      BY <1>1, <1>2, <2>2 DEF Writes, Ends, Takes, Minds, Goto, Finished
    <3>2. pc[R(s)] # "fill_read"
      <4>1. InCS(t)
        BY <1>2, <3>1 DEF InCS, WriterCS
      <4>2. ~InCS(R(s))
        BY <4>1 DEF PthrInv, LockInv
      <4> QED BY <1>2, <4>2 DEF InCS, ReaderCS
    <3>3. Taken(s) = Len(out)
      BY <1>2, <3>1 DEF Taken, Holds
    <3>4. /\ Len(out) + 1 >= total /\ Len(out) <= total
          /\ total <= BufferChunks => Len(out) >= total
      BY <1>0, <1>2, <1>3, <2>2, <3>1, <3>2, <3>3
         DEF Filled, Lasts, WriterOrder
    <3> QED BY <1>1, <1>2, <3>1, <3>4 DEF AllButOne
  <2> QED BY <2>1, <2>2
<1>9. cpc \notin {"create_reader", "create_writer"}
  BY <1>0 DEF PthrInv, ClientAt, WritersGone
<1> QED BY <1>0, <1>1, <1>7, <1>8, <1>9 DEF WroteInv

LEMMA ClientWrote ==
  ASSUME Faultless, TypeOK, PthrInv, OrderInv, StreamInv, WroteInv,
         ClientStep \/ ClientCall
  PROVE  WroteInv'
<1>0. /\ NoHarm /\ sess \in Nat /\ "create" \notin Faults
      /\ "hang" \notin Faults /\ "pause" \notin Ops
      /\ pc \in [Thread -> ReaderLoc \cup WriterLoc]
      /\ hand \in [Thread -> Chunk]
  BY PlaysAssumption DEF StreamInv, TypeOK, ClientOK, PcOK, HandOK, Faultless
<1>1. CASE JoinWriter \/ JoinReader \/ ClientCall
  <2>1. /\ UNCHANGED <<pc, hand, occupied, total, cdda_done, sess, out>>
        /\ state' = "COMPLETED" \/ state' = state
        /\ cpc' \notin {"create_reader", "create_writer", "idle"}
    BY <1>0, <1>1 DEF JoinWriter, JoinReader, ClientCall, Stop, Halt, Play,
                      GetStatus, PauseResume, BeginStop, info, ring, Idle
  <2> QED BY <2>1 DEF WroteInv, Filled, Wrote, Taken
<1>2. CASE InitShm \/ Cleanup
  <2>1. /\ WritersGone /\ ReadersGone /\ UNCHANGED <<pc, sess>>
        /\ state' = "COMPLETED"
        /\ cpc' \notin {"create_reader", "create_writer"}
    BY <1>0, <1>2 DEF InitShm, Cleanup, PthrInv, ClientAt, NoHarm, TypeOK,
                      ClientOK
  <2>2. {"none", "dead"} \cap MayPut = {}
    BY DEF MayPut
  <2> QED BY <2>1, <2>2 DEF WroteInv, Filled, Wrote, Gone, WritersGone,
                            ReadersGone
<1>3. CASE SetUp
  <2>1. /\ UNCHANGED pc /\ sess' = sess + 1 /\ cdda_done' = FALSE
        /\ state' = "PLAYING" /\ cpc' = "create_reader"
    BY <1>0, <1>3 DEF SetUp
  <2>2. ASSUME NEW s \in Session, s = sess' PROVE pc[R(s)] = "none"
    BY <1>0, <2>1, <2>2 DEF PthrInv, OldGone
  <2>3. "none" \notin MayPut
    BY DEF MayPut
  <2> QED BY <2>1, <2>2, <2>3 DEF WroteInv, Filled, Wrote
<1>4. CASE CreateReader \/ CreateWriter
  <2>0. sess \in Session
    BY <1>0, <1>4 DEF CreateReader, CreateWriter, PthrInv, PlayBound, TypeOK,
                      ClientOK, Session
  <2>1. /\ UNCHANGED <<state, total, cdda_done, occupied, out, sess>>
        /\ state # "COMPLETED" /\ pc[W(sess)] = "none"
        /\ cpc' \in {"create_writer", "idle"}
    BY <1>0, <1>4 DEF CreateReader, CreateWriter, WroteInv, PthrInv, ClientAt,
                      ring
  <2>2. \/ ~cdda_done /\ pc'[R(sess)] = "new" /\ pc'[W(sess)] = "none"
        \/ /\ hand' = hand /\ pc'[R(sess)] = pc[R(sess)]
           /\ pc'[W(sess)] = "new"
    <3>1. R(sess) \in Thread /\ W(sess) \in Thread /\ R(sess) # W(sess)
      BY <2>0, SessionThreads DEF R, W
    <3> QED BY <1>0, <1>4, <2>1, <3>1
            DEF CreateReader, CreateWriter, Goto, OrderInv
  <2>3. Taken(sess)' = Taken(sess)
    BY <2>1, <2>2 DEF Taken, Holds
  <2>4. Filled(sess)'
    BY <2>0, <2>1, <2>2, <2>3 DEF WroteInv, Filled
  <2>5. Wrote(sess)'
    BY <2>1 DEF Wrote
  <2> QED BY <2>1, <2>4, <2>5 DEF WroteInv
<1> QED BY <1>1, <1>2, <1>3, <1>4 DEF ClientStep

LEMMA WroteInit == Init => WroteInv
<1> SUFFICES ASSUME Init PROVE WroteInv
  OBVIOUS
<1>1. \A s \in Session : s # 0
  BY PlaysAssumption DEF Session
<1> QED BY <1>1 DEF Init, WroteInv

(* A play that ends by itself, without failures or pauses, leaves out at   *)
(* most the last chunk of an area that exceeds the buffer: WroteAllButOne. *)
THEOREM WroteAllButOneHolds ==
  ASSUME Faultless
  PROVE  Spec => []WroteAllButOne
<1> DEFINE Inv == TypeOK /\ PthrInv /\ RingInv /\ OrderInv /\ StreamInv
<1>1. Inv /\ WroteInv /\ [Next]_vars => WroteInv'
  <2> SUFFICES ASSUME Inv, WroteInv, [Next]_vars PROVE WroteInv'
    OBVIOUS
  <2>1. CASE UNCHANGED vars
    BY <2>1 DEF vars, info, ring, client, WroteInv, Filled, Wrote, Taken,
                Gone, AllButOne
  <2> QED BY <2>1, ReaderWrote, WriterWrote, NobodyCancelled, ClientWrote
          DEF Next, StreamInv
<1>2. Inv /\ WroteInv => WroteAllButOne
  <2> SUFFICES ASSUME Inv, WroteInv, EndedItself PROVE AllButOne
    BY DEF WroteAllButOne, AllButOne
  <2>1. sess \in Session /\ Wrote(sess) /\ Lasts(sess)
    BY PlaysAssumption
       DEF EndedItself, TypeOK, ClientOK, Session, WroteInv, StreamInv
  <2>2. state = "COMPLETED"
    BY <2>1 DEF EndedItself, Lasts, MayTake
  <2> QED BY <2>1, <2>2 DEF Wrote, EndedItself, Gone
<1>3. Spec => []Inv
  BY StreamInvariant
<1> QED BY <1>1, <1>2, <1>3, WroteInit, PTL DEF Spec
=============================================================================
