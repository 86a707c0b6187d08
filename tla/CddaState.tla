----------------------------- MODULE CddaState -----------------------------
(***************************************************************************)
(* The state that the CDDA client (the player's main thread), the reader   *)
(* and the writer share, and the semaphore and kill services both IPC      *)
(* methods of cdda_d/cdda.c offer: POSIX threads (pthr.c) and System V     *)
(* processes (sysvipc.c).  cdda_waitsem, cdda_postsem and cdda_kill        *)
(* dispatch on the configured method, and so do the operators here.        *)
(*                                                                         *)
(* A disc area is counted in chunks: the chunk <<s, k>> is the k-th chunk  *)
(* of the area that play number s asked for.  Threads are named after the  *)
(* play that created them, so that one which outlives its play stays       *)
(* visible.  (A "thread" is a process when the method is System V IPC.)    *)
(***************************************************************************)
EXTENDS Naturals, Integers, FiniteSets

CONSTANTS
  CddaMethod,    \* "pthreads" or "sysvipc": app_data.cdda_method
  BufferChunks,  \* cds->buffer_chunks, the slots of the ring buffer
  Totals,        \* the lengths, in chunks, of the areas a play may ask for
  MaxPlays,      \* bound on the number of plays
  Faults,        \* the failures the environment may produce
  Ops,           \* the operations the client uses besides play and stop
  Orderly        \* whether the client keeps the discipline of Settled below

ASSUME MethodAssumption == CddaMethod \in {"pthreads", "sysvipc"}
ASSUME BufferAssumption == BufferChunks \in Nat \ {0}
ASSUME TotalsAssumption == Totals \subseteq Nat \ {0}
ASSUME PlaysAssumption  == MaxPlays \in Nat
ASSUME FaultsAssumption ==
         Faults \subseteq {"read", "write", "open", "create", "hang"}
ASSUME OpsAssumption == Ops \subseteq {"pause", "halt"}
ASSUME OrderlyAssumption == Orderly \in BOOLEAN

VARIABLES
  (* cd_info_t *)
  state,       \* "COMPLETED", "PLAYING" or "PAUSED"
  cdda_done,   \* the reader has reached the end of the area
  total,       \* end_lba - start_lba, in chunks
  frm_played,  \* in chunks
  reader,      \* id of the reader thread, 0 if none is registered
  writer,      \* id of the writer thread, 0 if none is registered
  (* cd_buffer_t *)
  occupied, nextin, nextout, b,
  (* semaphores and signals *)
  sem,         \* value of each semaphore
  owner,       \* pthreads: who keeps the mutex of a semaphore locked
  asleep,      \* pthreads: threads inside pthread_cond_wait
  pending,     \* threads that were sent a cancel request or SIGTERM
  (* the threads' own state *)
  pc,          \* where each thread is
  hand,        \* reader: the chunk it reads next; writer: the one it took
  (* the client *)
  cpc,         \* where the client is
  after,       \* what the client goes on with when cdda_stop returns
  tid,         \* the id that cdda_stop waits for
  sess,        \* number of plays so far
  (* history *)
  out          \* the chunks the writer has written in this play

info   == <<state, cdda_done, total, frm_played, reader, writer>>
ring   == <<occupied, nextin, nextout, b>>
sync   == <<sem, owner, asleep, pending>>
client == <<cpc, after, tid, sess>>
vars   == <<info, ring, sync, pc, hand, client, out>>

Sem     == {"LOCK", "ROOM", "DATA"}
Session == 1..MaxPlays
Thread  == {"reader", "writer"} \X Session
NoThread == <<"none", 0>>
R(s) == <<"reader", s>>
W(s) == <<"writer", s>>
Chunk   == (0..MaxPlays) \X Nat
NoChunk == <<0, 0>>
Slot    == 0..(BufferChunks - 1)

Goto(t, l) == pc' = [pc EXCEPT ![t] = l]

(***************************************************************************)
(* cdda_waitsem.  A pthreads semaphore is a flag under a mutex: the waiter *)
(* sleeps in pthread_cond_wait while the flag is 0 and clears it when it   *)
(* proceeds.  A System V semaphore is a counter.                           *)
(***************************************************************************)
(* Mutation of PthrWait: the flag is left set. *)
PthrWaitKeeps(t, m, l) ==
  owner[m] = NoThread /\ sem[m] # 0 /\ Goto(t, l) /\ UNCHANGED sync

PthrWait(t, m, l) ==
  /\ owner[m] = NoThread
  /\ \/ /\ sem[m] # 0
        /\ sem' = [sem EXCEPT ![m] = 0]
        /\ asleep' = asleep \ {t}
        /\ Goto(t, l)
     \/ /\ sem[m] = 0 /\ t \notin asleep
        /\ asleep' = asleep \cup {t}
        /\ UNCHANGED <<sem, pc>>
  /\ UNCHANGED <<owner, pending>>

SysvWait(t, m, l) ==
  /\ sem[m] > 0
  /\ sem' = [sem EXCEPT ![m] = @ - 1]
  /\ Goto(t, l)
  /\ UNCHANGED <<owner, asleep, pending>>

Wait(t, m, l) ==
  IF CddaMethod = "pthreads" THEN PthrWait(t, m, l) ELSE SysvWait(t, m, l)

(* cdda_postsem: sets the flag, or increments the counter. *)
PthrPost(t, m, l) ==
  /\ owner[m] = NoThread
  /\ sem' = [sem EXCEPT ![m] = 1]
  /\ Goto(t, l)
  /\ UNCHANGED <<owner, asleep, pending>>

SysvPost(t, m, l) ==
  /\ sem' = [sem EXCEPT ![m] = @ + 1]
  /\ Goto(t, l)
  /\ UNCHANGED <<owner, asleep, pending>>

Post(t, m, l) ==
  IF CddaMethod = "pthreads" THEN PthrPost(t, m, l) ELSE SysvPost(t, m, l)

(* cdda_kill with SIGTERM, for a set of ids: the request is only recorded. *)
(* What it does to its target is in Cancel and SigTerm.                    *)
Kill(ts) == pending' = pending \cup (ts \cap Thread)

(* The semaphore a thread waits for at a place where it may sleep. *)
SemAt(l) ==
  CASE l \in {"fill_lock", "lock", "relock"} -> "LOCK"
    [] l \in {"fill_room", "room_wait"}      -> "ROOM"
    [] l = "data_wait"                       -> "DATA"
    [] OTHER                                 -> "LOCK"

(* What play and init2 do to the ring buffer's indices. *)
(* Mutation of ResetRing: only the count is reset. *)
ResetRingCount == occupied' = 0 /\ UNCHANGED <<nextin, nextout>>
ResetRing == occupied' = 0 /\ nextin' = 0 /\ nextout' = 0

(* Places inside the region between waitsem(LOCK) and postsem(LOCK). *)
ReaderCS == {"fill", "fill_read", "fill_fail", "fill_room", "fill_data",
             "fill_unlock", "room", "room_unlock", "put", "data", "unlock",
             "stop_unlock"}
WriterCS == {"chk", "empty", "data_unlock", "take", "room", "unlock",
             "fin_unlock"}
InCS(t) == pc[t] \in (IF t[1] = "reader" THEN ReaderCS ELSE WriterCS)

Gone(t) == pc[t] \in {"none", "dead"}

ReaderLoc == ReaderCS \cup {"none", "new", "fill_lock", "loop", "read",
               "lock", "room_wait", "wake", "done", "done_kill",
               "ub_lock", "ub_room", "ub_data", "dead"}
WriterLoc == WriterCS \cup {"none", "new", "open", "loop", "lock",
               "data_wait", "relock", "write", "paused", "fail_lock",
               "fail_wake", "wake", "done", "done_kill",
               "ub_lock", "ub_room", "ub_data", "dead"}

InfoOK ==
  /\ state \in {"COMPLETED", "PLAYING", "PAUSED"}
  /\ cdda_done \in BOOLEAN
  /\ total \in Nat /\ frm_played \in Nat
  /\ reader \in 0..MaxPlays /\ writer \in 0..MaxPlays
RingOK ==
  /\ occupied \in Int /\ nextin \in Slot /\ nextout \in Slot
  /\ b \in [Slot -> Chunk]
SyncOK ==
  /\ sem \in [Sem -> Nat]
  /\ owner \in [Sem -> Thread \cup {NoThread}]
  /\ asleep \subseteq Thread /\ pending \subseteq Thread
PcOK ==
  /\ pc \in [Thread -> ReaderLoc \cup WriterLoc]
  /\ \A s \in Session : pc[R(s)] \in ReaderLoc /\ pc[W(s)] \in WriterLoc
HandOK == hand \in [Thread -> Chunk]
ClientOK ==
  /\ cpc \in {"idle", "join_writer", "wait_writer", "join_reader",
              "wait_reader", "initshm", "play", "create_reader",
              "create_writer", "cleanup"}
  /\ after \in {"idle", "play", "cleanup"}
  /\ tid \in 0..MaxPlays /\ sess \in 0..MaxPlays

(* Every variable has its type: the ids stored are ids of plays, and the   *)
(* ring buffer's indices are slots of it.                                  *)
TypeOK == InfoOK /\ RingOK /\ SyncOK /\ PcOK /\ HandOK /\ ClientOK
=============================================================================
