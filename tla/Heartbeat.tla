----------------------------- MODULE Heartbeat -----------------------------
(***************************************************************************)
(* The heartbeats of the CDDA reader and writer, and the check of them in  *)
(* cdda_getstatus, which kills threads that look hung.  Time advances by   *)
(* one unit from poll to poll of the client; a time stamp is known by its  *)
(* age.  What the threads do takes at most the time that the constants     *)
(* allow: they say what the device and the scheduler guarantee.            *)
(***************************************************************************)
EXTENDS Integers

CONSTANTS
  HbInt,         \* polls from check to check: hbint
  Skip,          \* CDDA_HB_SKIP
  Timeout,       \* hb_timeout
  FillFactor,    \* DEF_CDDA_BUFFER_SECS, as the factor of the first time-out
  BeatTime,      \* a thread at work beats this often
  FillTime,      \* the time to fill the buffer at first
  DrainTime,     \* the time to play what is in the buffer at last
  StartTime,     \* from the creation of a thread to its first heartbeat
  MaxPlays,      \* bound: plays
  Faults         \* what may happen: "hang"

ASSUME TimesAssumption ==
  /\ {HbInt, Skip, Timeout, FillFactor, BeatTime} \subseteq Nat \ {0}
  /\ {FillTime, DrainTime, StartTime, MaxPlays} \subseteq Nat
ASSUME FaultsAssumption == Faults \subseteq {"hang"}

VARIABLES
  state,         \* cd->i->state
  th,            \* where each thread is
  filled,        \* the reader has filled the buffer
  left,          \* the time left of filling, and at last of draining
  due,           \* how long each thread has owed its next heartbeat
  age,           \* of reader_hb and writer_hb
  wtimeout,      \* writer_hb_timeout
  hbcnt, skip,   \* hbcnt and skip_hbchk
  plays,         \* the number of plays
  alarm          \* whether threads were killed as hung, and any was

pVars == <<state, th, filled, left, due>>
vars  == <<pVars, age, wtimeout, hbcnt, skip, plays, alarm>>

Thread == {"reader", "writer"}
Never  == -1               \* the age of a heartbeat of time 0
MaxAge == FillFactor * Timeout + 1

TypeOK ==
  /\ state \in {"stopped", "playing", "paused"}
  /\ th \in [Thread -> {"none", "new", "start", "work", "done", "hung"}]
  /\ filled \in BOOLEAN
  /\ left \in 0..(FillTime + DrainTime)
  /\ due \in [Thread -> 0..(BeatTime + StartTime)]
  /\ age \in [Thread -> Never..MaxAge]
  /\ wtimeout \in {Timeout, FillFactor * Timeout}
  /\ hbcnt \in Never..HbInt
  /\ skip \in 0..Skip
  /\ plays \in 0..MaxPlays
  /\ alarm \in {"none", "true", "false"}

(* hbcnt as the first poll finds it. *)
Init ==
  /\ state = "stopped" /\ th = [t \in Thread |-> "none"]
  /\ filled = FALSE /\ left = 0 /\ due = [t \in Thread |-> 0]
  /\ age = [t \in Thread |-> Never] /\ wtimeout = FillFactor * Timeout
  /\ hbcnt = HbInt /\ skip = 0 /\ plays = 0 /\ alarm = "none"

(* The threads are joined, and what they share begins anew; hbcnt and      *)
(* skip_hbchk, the parent's own, stay as they are.                         *)
Initshm ==
  /\ state' = "stopped" /\ th' = [t \in Thread |-> "none"]
  /\ age' = [t \in Thread |-> Never] /\ wtimeout' = FillFactor * Timeout

Hung == \E t \in Thread : th[t] = "hung"
-----------------------------------------------------------------------------
(* The last play has been stopped, or a poll has found it ended. *)
Play ==
  /\ state = "stopped" /\ \A t \in Thread : th[t] = "none"
  /\ plays < MaxPlays /\ plays' = plays + 1
  /\ state' = "playing" /\ th' = [t \in Thread |-> "new"]
  /\ filled' = FALSE /\ left' = FillTime /\ due' = [t \in Thread |-> 0]
  /\ UNCHANGED <<age, wtimeout, hbcnt, skip, alarm>>

(* Not when a thread hangs: cdda_stop would wait for it. *)
Stop ==
  /\ ~Hung /\ Initshm
  /\ UNCHANGED <<filled, left, due, hbcnt, skip, plays, alarm>>

(* Mutant: the checks go on as if there had been no pause. *)
PauseNoSkip ==
  /\ th["writer"] \notin {"none", "new"}
  /\ \/ state = "playing" /\ state' = "paused"
     \/ state = "paused" /\ state' = "playing"
  /\ UNCHANGED <<th, filled, left, due, age, wtimeout, hbcnt, skip, plays, alarm>>

PauseResume ==
  /\ th["writer"] \notin {"none", "new"}
  /\ \/ state = "playing" /\ state' = "paused"
     \/ state = "paused" /\ state' = "playing"
  /\ skip' = Skip
  /\ UNCHANGED <<th, filled, left, due, age, wtimeout, hbcnt, plays, alarm>>
-----------------------------------------------------------------------------
(* A thread can go on: it waits neither for the buffer nor for a resume. *)
Runs(t) ==
  /\ th[t] = "work"
  /\ IF filled THEN state = "playing" ELSE t = "reader"

(* The thread stores its id ... *)
StoreId(t) ==
  /\ th[t] = "new" /\ th' = [th EXCEPT ![t] = "start"]
  /\ UNCHANGED <<state, filled, left, due, age, wtimeout, hbcnt, skip, plays,
                 alarm>>

(* ... and gives its first heartbeat, before the reader fills the buffer   *)
(* or the writer opens the outputs, and then one about every second.       *)
Beat(t) ==
  /\ th[t] = "start" \/ Runs(t)
  /\ th' = [th EXCEPT ![t] = "work"]
  /\ age' = [age EXCEPT ![t] = 0] /\ due' = [due EXCEPT ![t] = 0]
  /\ UNCHANGED <<state, filled, left, wtimeout, hbcnt, skip, plays, alarm>>

(* The buffer is full, and scsicd_read_cont starts counting anew. *)
FillDone ==
  /\ th["reader"] = "work" /\ ~filled
  /\ filled' = TRUE /\ wtimeout' = Timeout
  /\ due' = [due EXCEPT !["reader"] = 0]
  /\ UNCHANGED <<state, th, left, age, hbcnt, skip, plays, alarm>>

(* The reader has read all, and gives no more heartbeats. *)
ReaderEnd ==
  /\ Runs("reader") /\ filled
  /\ th' = [th EXCEPT !["reader"] = "done"] /\ left' = DrainTime
  /\ UNCHANGED <<state, filled, due, age, wtimeout, hbcnt, skip, plays, alarm>>

(* The writer finds the buffer empty and the reader done. *)
WriterEnd ==
  /\ Runs("writer") /\ th["reader"] = "done"
  /\ state' = "stopped"
  /\ UNCHANGED <<th, filled, left, due, age, wtimeout, hbcnt, skip, plays, alarm>>

Hang(t) ==
  /\ "hang" \in Faults /\ th[t] = "work"
  /\ th' = [th EXCEPT ![t] = "hung"]
  /\ UNCHANGED <<state, filled, left, due, age, wtimeout, hbcnt, skip, plays,
                 alarm>>
-----------------------------------------------------------------------------
(* When a thread hangs, the other may wait for it. *)
Owes(t) == th[t] \in {"new", "start"} \/ (Runs(t) /\ ~Hung)
Limit(t) == IF th[t] = "work" THEN BeatTime ELSE StartTime

Filling  == ~Hung /\ th["reader"] = "work" /\ ~filled
Draining == ~Hung /\ th["reader"] = "done" /\ Runs("writer")

InTime ==
  /\ \A t \in Thread : Owes(t) => due[t] < Limit(t)
  /\ Filling \/ Draining => left > 0

(* One unit of time. *)
Elapse ==
  /\ InTime
  /\ due' = [t \in Thread |-> IF Owes(t) THEN due[t] + 1 ELSE due[t]]
  /\ left' = IF Filling \/ Draining THEN left - 1 ELSE left

(* The age of a heartbeat at the poll that ends the unit. *)
Aged(t) == IF age[t] \in {Never, MaxAge} THEN age[t] ELSE age[t] + 1

TimeoutOf(t) == IF t = "reader" THEN Timeout ELSE wtimeout
Failed       == {t \in Thread : Aged(t) > TimeoutOf(t)}

(* Both ids are stored and both heartbeats have been given. *)
Checkable == \A t \in Thread : th[t] \notin {"none", "new"} /\ age[t] # Never

GoOn ==
  /\ age' = [t \in Thread |-> Aged(t)]
  /\ UNCHANGED <<state, th, wtimeout, alarm>>

(* The threads are let off, found alive, or killed. *)
Judge ==
  \/ skip > 0 /\ skip' = skip - 1 /\ GoOn
  \/ skip = 0 /\ Failed = {} /\ GoOn /\ UNCHANGED skip
  \/ /\ skip = 0 /\ Failed # {} /\ Initshm
     /\ alarm' = IF Hung THEN "true" ELSE "false"
     /\ UNCHANGED skip

(* Mutant: the interval does not start anew. *)
CheckOnce == hbcnt' = 0 /\ Judge

Check == hbcnt' = HbInt /\ Judge

(* hbcnt is compared with 0 alone: once it is below, it stays there, for   *)
(* 2^32 polls.                                                             *)
CountDown ==
  IF hbcnt = 1 /\ Checkable THEN Check
  ELSE /\ hbcnt' = IF hbcnt > Never THEN hbcnt - 1 ELSE Never
       /\ GoOn /\ UNCHANGED skip

(* A poll; when the play has ended, it stops it. *)
GetStatus ==
  /\ Elapse
  /\ \/ state = "stopped" /\ Initshm /\ UNCHANGED <<hbcnt, skip, alarm>>
     \/ state = "playing" /\ CountDown
     \/ state = "paused" /\ GoOn /\ UNCHANGED <<hbcnt, skip>>
  /\ UNCHANGED <<filled, plays>>

ThreadStep(t) == StoreId(t) \/ Beat(t)
BufferStep    == FillDone \/ ReaderEnd \/ WriterEnd

Next ==
  \/ Play \/ Stop \/ PauseResume \/ GetStatus \/ BufferStep
  \/ \E t \in Thread : ThreadStep(t) \/ Hang(t)

Spec == Init /\ [][Next]_vars

(* The client polls on, and no thread but a hung one stops for good. *)
FairSpec ==
  /\ Spec /\ WF_vars(GetStatus) /\ WF_vars(FillDone) /\ WF_vars(WriterEnd)
  /\ \A t \in Thread : WF_vars(ThreadStep(t))
-----------------------------------------------------------------------------
(* Threads that do what they should in time are never killed as hung:      *)
(* neither when they have waited for a resume, nor when the reader is done *)
(* and the writer still drains the buffer, nor when one of them begins     *)
(* long after the other.                                                   *)
NoFalseAlarm == alarm # "false"

(* A thread that hangs while it plays is found and killed, unless the user *)
(* pauses first.  (A stop would join the thread, and hang with it.)        *)
HangFound ==
  \A t \in Thread : th[t] = "hung" /\ state = "playing" ~> state # "playing"
=============================================================================
