-------------------------- MODULE HeartbeatProofs --------------------------
(***************************************************************************)
(* The check of the heartbeats gives no false alarm, whatever the times,   *)
(* as long as they are related as Timely says.                             *)
(***************************************************************************)
EXTENDS Heartbeat, TLAPS

(* The time-out covers two beats (the reader starts counting anew when the *)
(* buffer is full) and the draining of the buffer, a late start of the     *)
(* writer and the draining, or a late start of the reader, its filling of  *)
(* the buffer and a beat; the checks that are left out after a pause cover *)
(* a beat and the draining.                                                *)
Timely ==
  /\ 2 * BeatTime + DrainTime <= Timeout
  /\ StartTime + DrainTime <= Timeout
  /\ StartTime + FillTime + BeatTime <= Timeout
  /\ BeatTime + DrainTime <= Skip * HbInt

(* The next check that counts, if any, is not before the n-th poll from    *)
(* now.                                                                    *)
Spared(n) == hbcnt <= 0 \/ hbcnt + skip * HbInt >= n
Let       == 1 + Skip * HbInt

Where ==
  /\ \A t \in Thread : state # "stopped" => th[t] # "none"
  /\ th["writer"] # "done"
  /\ th["reader"] = "done" => filled /\ left <= DrainTime
  /\ filled \/ left <= FillTime
  /\ state = "paused" => skip = Skip

(* A thread that has not begun has no heartbeat, not even of an earlier    *)
(* play, and has been starting for as long as the other has worked.        *)
Starts ==
  \A t \in Thread :
    /\ th[t] \in {"none", "new", "start"} => age[t] = Never
    /\ th[t] \in {"new", "start"} => \A u \in Thread : age[u] <= due[t]
    /\ th[t] \in {"new", "start", "work"} => due[t] <= Limit(t)

(* Before the buffer is full the reader beats, and the writer waits; ...   *)
Fills ==
  ~filled =>
    /\ th["reader"] = "work" => age["reader"] <= due["reader"]
    /\ th["writer"] = "work" =>
         due["writer"] = 0 /\ age["writer"] <= StartTime + FillTime - left
(* ... then each has given a heartbeat lately, or is let off until it has  *)
(* to: as long as it still may take, ...                                   *)
Beats(t, lately) ==
  th[t] = "work" =>
    age[t] <= lately + due[t] \/ Spared(Let - due[t])
(* ... and the reader that is done, until the buffer is drained.           *)
Drains ==
  th["reader"] = "done" /\ th["writer"] = "work" =>
    age["reader"] <= Timeout - left \/ Spared(left + 1)

HbInv ==
  /\ TypeOK /\ NoFalseAlarm /\ Where /\ Starts
  /\ ~Hung =>
       /\ Fills
       /\ filled /\ state = "playing" =>
            /\ Beats("reader", BeatTime)
            /\ Beats("writer", StartTime + FillTime) /\ Drains

LEMMA Times ==
  /\ HbInt \in Nat \ {0} /\ Skip \in Nat \ {0} /\ Timeout \in Nat \ {0}
  /\ FillFactor \in Nat \ {0} /\ BeatTime \in Nat \ {0} /\ FillTime \in Nat
  /\ DrainTime \in Nat /\ StartTime \in Nat /\ MaxPlays \in Nat
BY TimesAssumption

LEMMA Product ==
  ASSUME NEW s \in Nat, NEW h \in Nat
  PROVE  s * h \in Nat /\ (s > 0 => (s - 1) * h = s * h - h) /\ 0 * h = 0
OBVIOUS

LEMMA Ages == MaxAge \in Nat \ {0} /\ Timeout <= FillFactor * Timeout
<1>1. \A k \in Nat \ {0}, t \in Nat : k * t \in Nat /\ t <= k * t
  <2> SUFFICES ASSUME NEW k \in Nat \ {0}, NEW t \in Nat
               PROVE  k * t \in Nat /\ t <= k * t
    OBVIOUS
  <2>1. (k - 1) * t \in Nat /\ (k - 1) * t = k * t - t
    BY Product
  <2> QED BY <2>1
<1> QED BY <1>1, Times DEF MaxAge
-----------------------------------------------------------------------------
(* The types. *)
LEMMA ElapseTypes ==
  ASSUME TypeOK, Elapse
  PROVE  /\ left' \in 0..(FillTime + DrainTime)
         /\ due' \in [Thread -> 0..(BeatTime + StartTime)]
<1>1. left' \in 0..(FillTime + DrainTime)
  BY Times DEF TypeOK, Elapse, InTime
<1>2. due' \in [Thread -> 0..(BeatTime + StartTime)]
  <2>1. \A t \in Thread :
          (IF Owes(t) THEN due[t] + 1 ELSE due[t]) \in 0..(BeatTime + StartTime)
    BY Times DEF TypeOK, Elapse, InTime, Limit
  <2> QED BY <2>1 DEF Elapse
<1> QED BY <1>1, <1>2

LEMMA InitshmTypes ==
  ASSUME Initshm
  PROVE  /\ state' \in {"stopped", "playing", "paused"}
         /\ th' \in [Thread -> {"none", "new", "start", "work", "done", "hung"}]
         /\ age' \in [Thread -> Never..MaxAge]
         /\ wtimeout' \in {Timeout, FillFactor * Timeout}
<1>1. Never \in Never..MaxAge
  BY Ages DEF Never
<1> QED BY <1>1 DEF Initshm

LEMMA GoOnTypes ==
  ASSUME TypeOK, GoOn
  PROVE  /\ state' \in {"stopped", "playing", "paused"}
         /\ th' \in [Thread -> {"none", "new", "start", "work", "done", "hung"}]
         /\ age' \in [Thread -> Never..MaxAge]
         /\ wtimeout' \in {Timeout, FillFactor * Timeout}
         /\ alarm' \in {"none", "true", "false"}
<1>1. \A t \in Thread : Aged(t) \in Never..MaxAge
  BY Ages DEF TypeOK, Aged, Never
<1> QED BY <1>1 DEF GoOn, TypeOK

LEMMA PollTypes ==
  ASSUME TypeOK, GetStatus PROVE TypeOK'
<1>1. /\ left' \in 0..(FillTime + DrainTime)
      /\ due' \in [Thread -> 0..(BeatTime + StartTime)]
  BY ElapseTypes DEF GetStatus
<1>2. filled' \in BOOLEAN /\ plays' \in 0..MaxPlays
  BY DEF GetStatus, TypeOK
<1>3. CASE Initshm /\ UNCHANGED <<hbcnt, skip, alarm>>
  BY <1>1, <1>2, <1>3, InitshmTypes DEF TypeOK
<1>4. CASE GoOn /\ UNCHANGED <<hbcnt, skip>>
  BY <1>1, <1>2, <1>4, GoOnTypes DEF TypeOK
<1>5. CASE CountDown
  <2>1. CASE hbcnt = 1 /\ Checkable
    <3>1. hbcnt' = HbInt /\ Judge
      BY <1>5, <2>1 DEF CountDown, Check
    <3>2. hbcnt' \in Never..HbInt /\ skip' \in 0..Skip
      BY <3>1, Times DEF Judge, TypeOK, Never
    <3>3. CASE GoOn
      BY <1>1, <1>2, <3>2, <3>3, GoOnTypes DEF TypeOK
    <3>4. CASE Initshm /\ alarm' \in {"true", "false"}
      BY <1>1, <1>2, <3>2, <3>4, InitshmTypes DEF TypeOK
    <3> QED BY <3>1, <3>3, <3>4 DEF Judge
  <2>2. CASE ~(hbcnt = 1 /\ Checkable)
    <3>1. hbcnt' \in Never..HbInt /\ skip' \in 0..Skip /\ GoOn
      BY <1>5, <2>2, Times DEF CountDown, TypeOK, Never
    <3> QED BY <1>1, <1>2, <3>1, GoOnTypes DEF TypeOK
  <2> QED BY <2>1, <2>2
<1> QED BY <1>3, <1>4, <1>5 DEF GetStatus

LEMMA NextTypes ==
  ASSUME TypeOK, [Next]_vars PROVE TypeOK'
<1>1. [t \in Thread |-> "none"] \in
        [Thread -> {"none", "new", "start", "work", "done", "hung"}]
  OBVIOUS
<1>0. /\ 0 \in 0..(BeatTime + StartTime) /\ FillTime \in 0..(FillTime + DrainTime)
      /\ DrainTime \in 0..(FillTime + DrainTime)
      /\ plays \in 0..MaxPlays /\ plays < MaxPlays => plays + 1 \in 0..MaxPlays
  BY Times
<1>2. CASE Play
  <2>1. /\ th' \in [Thread -> {"none", "new", "start", "work", "done", "hung"}]
        /\ due' \in [Thread -> 0..(BeatTime + StartTime)]
    BY <1>0, <1>2 DEF Play
  <2> QED BY <1>0, <1>2, <2>1 DEF Play, TypeOK
<1>3. CASE Stop
  BY <1>3, InitshmTypes DEF Stop, TypeOK
<1>4. CASE PauseResume
  BY <1>4, Times DEF PauseResume, TypeOK
<1>5. CASE GetStatus
  BY <1>5, PollTypes
<1>6. CASE FillDone
  BY <1>0, <1>6 DEF FillDone, TypeOK
<1>7. CASE ReaderEnd
  BY <1>0, <1>7 DEF ReaderEnd, TypeOK
<1>8. CASE WriterEnd
  BY <1>8 DEF WriterEnd, TypeOK
<1>9. ASSUME NEW t \in Thread, StoreId(t) PROVE TypeOK'
  BY <1>9 DEF StoreId, TypeOK
<1>10. ASSUME NEW t \in Thread, Beat(t) PROVE TypeOK'
  BY <1>10, Times, Ages DEF Beat, TypeOK, Never
<1>11. ASSUME NEW t \in Thread, Hang(t) PROVE TypeOK'
  BY <1>11 DEF Hang, TypeOK
<1>12. CASE UNCHANGED vars
  BY <1>12 DEF vars, pVars, TypeOK
<1> QED BY <1>2, <1>3, <1>4, <1>5, <1>6, <1>7, <1>8, <1>9, <1>10, <1>11, <1>12
        DEF Next, BufferStep, ThreadStep

LEMMA InitTypes == Init => TypeOK
<1>1. /\ 0 \in 0..(BeatTime + StartTime) /\ 0 \in 0..(FillTime + DrainTime)
      /\ 0 \in 0..MaxPlays /\ 0 \in 0..Skip /\ HbInt \in Never..HbInt
      /\ Never \in Never..MaxAge
  BY Times, Ages DEF Never
<1> QED BY <1>1 DEF Init, TypeOK

(* Type correctness: the counters of the check and the ages of the time    *)
(* stamps stay within their ranges (hbcnt is never below -1 as long as a   *)
(* play lasts less than 2^32 polls).                                       *)
THEOREM HeartbeatTypeCorrect == Spec => []TypeOK
BY InitTypes, NextTypes, PTL DEF Spec

-----------------------------------------------------------------------------
(* A poll brings the next check that counts nearer by one, and no more. *)
LEMMA SparedPoll ==
  ASSUME TypeOK, CountDown, NEW n \in Int, Spared(n)
  PROVE  Spared(n - 1)'
<1> DEFINE P == skip * HbInt
<1>1. /\ HbInt \in Nat \ {0} /\ skip \in Nat /\ hbcnt \in Int /\ hbcnt >= Never
  BY Times DEF TypeOK, Never
<1>2. P \in Nat /\ (skip > 0 => (skip - 1) * HbInt = P - HbInt) /\ 0 * HbInt = 0
  BY <1>1, Product
<1>3. hbcnt <= 0 \/ hbcnt + P >= n
  BY DEF Spared
<1>4. SUFFICES hbcnt' <= 0 \/ hbcnt' + skip' * HbInt >= n - 1
  BY DEF Spared
<1>5. CASE hbcnt = 1 /\ Checkable
  <2>1. hbcnt' = HbInt /\ Judge
    BY <1>5 DEF CountDown, Check
  <2>2. CASE skip > 0 /\ skip' = skip - 1
    <3>1. skip' * HbInt = P - HbInt
      BY <1>2, <2>2
    <3> HIDE DEF P
    <3> QED BY <1>1, <1>2, <1>3, <1>5, <2>1, <3>1
  <2>3. CASE skip = 0 /\ skip' = skip
    <3>1. skip' * HbInt = 0 /\ P = 0
      BY <1>2, <2>3
    <3> HIDE DEF P
    <3> QED BY <1>1, <1>2, <1>3, <1>5, <2>1, <3>1
  <2> QED BY <2>1, <2>2, <2>3 DEF Judge
<1>6. CASE ~(hbcnt = 1 /\ Checkable)
  <2>1. (hbcnt' = IF hbcnt > Never THEN hbcnt - 1 ELSE Never) /\ skip' = skip
    BY <1>6 DEF CountDown
  <2>2. skip' * HbInt = P
    BY <2>1
  <2> HIDE DEF P
  <2> QED BY <1>1, <1>2, <1>3, <2>1, <2>2 DEF Never
<1> QED BY <1>5, <1>6

(* Time passes for the threads of a play, those that have begun and those  *)
(* that have not.                                                          *)
LEMMA Elapsed ==
  ASSUME TypeOK, Starts, Elapse
  PROVE  \A t \in Thread :
           /\ age[t] \in Int /\ Aged(t) \in Int /\ Aged(t) <= age[t] + 1
           /\ age[t] = Never => Aged(t) = Never
           /\ due[t] \in Nat /\ due'[t] \in Nat
           /\ th[t] \in {"new", "start"} =>
                due'[t] = due[t] + 1 /\ due'[t] <= StartTime
           /\ th[t] = "work" => due'[t] <= BeatTime
           /\ th[t] = "work" /\ ~Hung => IF Runs(t) THEN due'[t] = due[t] + 1
                                                   ELSE due'[t] = due[t]
<1> SUFFICES ASSUME NEW t \in Thread
             PROVE  /\ age[t] \in Int /\ Aged(t) \in Int /\ Aged(t) <= age[t] + 1
                    /\ age[t] = Never => Aged(t) = Never
                    /\ due[t] \in Nat /\ due'[t] \in Nat
                    /\ th[t] \in {"new", "start"} =>
                         due'[t] = due[t] + 1 /\ due'[t] <= StartTime
                    /\ th[t] = "work" => due'[t] <= BeatTime
                    /\ th[t] = "work" /\ ~Hung =>
                         IF Runs(t) THEN due'[t] = due[t] + 1
                         ELSE due'[t] = due[t]
  OBVIOUS
<1>1. age[t] \in Int /\ due[t] \in Nat
  BY Times, Ages DEF TypeOK, Never
<1>2. /\ Aged(t) \in Int /\ Aged(t) <= age[t] + 1
      /\ age[t] = Never => Aged(t) = Never
  BY <1>1 DEF Aged
<1>3. due'[t] = IF Owes(t) THEN due[t] + 1 ELSE due[t]
  BY DEF Elapse
<1>4. Owes(t) => due[t] < Limit(t)
  BY DEF Elapse, InTime
<1>5. th[t] \in {"new", "start"} => due'[t] = due[t] + 1 /\ due'[t] <= StartTime
  BY <1>1, <1>3, <1>4, Times DEF Owes, Limit
<1>6. th[t] = "work" => due'[t] <= BeatTime
  BY <1>1, <1>3, <1>4, Times DEF Limit, Starts
<1>7. th[t] = "work" /\ ~Hung => (Owes(t) <=> Runs(t))
  BY DEF Owes
<1> QED BY <1>1, <1>2, <1>3, <1>5, <1>6, <1>7

(* The heartbeats of threads that go on, or do not yet. *)
LEMMA StartsPoll ==
  ASSUME TypeOK, Starts, Elapse, GoOn PROVE Starts'
<1>1. \A t \in Thread : age'[t] = Aged(t) /\ th'[t] = th[t]
  BY DEF GoOn
<1> SUFFICES ASSUME NEW t \in Thread
             PROVE  /\ th'[t] \in {"none", "new", "start"} => age'[t] = Never
                    /\ th'[t] \in {"new", "start"} =>
                         \A u \in Thread : age'[u] <= due'[t]
                    /\ th'[t] \in {"new", "start", "work"} => due'[t] <= Limit(t)'
  BY DEF Starts
<1>2. th[t] \in {"none", "new", "start"} => age'[t] = Never
  BY <1>1, Elapsed DEF Starts
<1>3. ASSUME th[t] \in {"new", "start"}, NEW u \in Thread
      PROVE  age'[u] <= due'[t]
  <2>1. age[u] <= due[t]
    BY <1>3 DEF Starts
  <2>2. age'[u] <= age[u] + 1 /\ age[u] \in Int /\ age'[u] \in Int
    BY <1>1, Elapsed
  <2>3. due'[t] = due[t] + 1 /\ due[t] \in Nat
    BY <1>3, Elapsed
  <2> QED BY <2>1, <2>2, <2>3
<1>4. th[t] \in {"new", "start", "work"} => due'[t] <= Limit(t)'
  BY <1>1, Elapsed DEF Limit
<1> QED BY <1>1, <1>2, <1>3, <1>4

(* What is left of the filling or the draining of the buffer. *)
LEMMA Passed ==
  ASSUME TypeOK, Elapse
  PROVE  /\ left \in Nat /\ left' \in Nat /\ left' <= left
         /\ IF Filling \/ Draining THEN left > 0 /\ left' = left - 1
            ELSE left' = left
         /\ wtimeout >= Timeout /\ wtimeout \in Nat
<1>1. left \in Nat
  BY Times DEF TypeOK
<1>2. IF Filling \/ Draining THEN left > 0 /\ left' = left - 1 ELSE left' = left
  BY DEF Elapse, InTime
<1>3. wtimeout >= Timeout /\ wtimeout \in Nat
  BY Times, Ages, Product DEF TypeOK
<1> QED BY <1>1, <1>2, <1>3

(* Of threads that are in time, none fails a check that counts. *)
LEMMA NoneFailed ==
  ASSUME Timely, HbInv, ~Hung, state = "playing", Elapse, hbcnt = 1, skip = 0,
         Checkable
  PROVE  Failed = {}
<1>1. TypeOK /\ Where /\ Starts /\ Fills
      /\ (filled => /\ Beats("reader", BeatTime)
                    /\ Beats("writer", StartTime + FillTime) /\ Drains)
  BY DEF HbInv
<1>2. "writer" \in Thread /\ "reader" \in Thread
  BY DEF Thread
<1>3. th["writer"] = "work" /\ th["reader"] \in {"work", "done"}
  <2>1. \A t \in Thread : th[t] \in {"work", "done"}
    BY <1>1 DEF Checkable, Starts, Hung, TypeOK
  <2> QED BY <1>1, <1>2, <2>1 DEF Where
<1>4. \A t \in Thread :
        /\ age[t] \in Int /\ Aged(t) \in Int /\ Aged(t) <= age[t] + 1
        /\ due[t] \in Nat /\ due'[t] \in Nat
        /\ th[t] = "work" /\ Runs(t) => due[t] < BeatTime
  <2>1. \A t \in Thread :
          /\ age[t] \in Int /\ Aged(t) \in Int /\ Aged(t) <= age[t] + 1
          /\ due[t] \in Nat /\ due'[t] \in Nat
          /\ th[t] = "work" => due'[t] <= BeatTime
          /\ th[t] = "work" /\ Runs(t) => due'[t] = due[t] + 1
    BY <1>1, Elapsed
  <2> QED BY <2>1, Times
<1>5. /\ left \in Nat
      /\ Filling \/ Draining => left > 0
      /\ wtimeout >= Timeout /\ wtimeout \in Nat
  BY <1>1, Passed
<1>6. \A n \in Int : Spared(n) => n <= 1
  BY Times, Product DEF Spared
<1>7. Skip * HbInt \in Nat
  BY Times, Product
<1>8. Aged("reader") <= Timeout
  <2>1. CASE th["reader"] = "work" /\ ~filled
    <3>1. Runs("reader") /\ age["reader"] <= due["reader"]
      BY <1>1, <2>1 DEF Runs, Fills
    <3>2. due["reader"] < BeatTime
      BY <1>2, <1>4, <2>1, <3>1
    <3> QED BY <1>2, <1>4, <3>1, <3>2, Times DEF Timely
  <2>2. CASE th["reader"] = "work" /\ filled
    <3>1. Runs("reader") /\ due["reader"] < BeatTime
      BY <1>2, <1>4, <2>2 DEF Runs
    <3>2. Let - due["reader"] \in Int /\ Let - due["reader"] > 1
      BY <1>2, <1>4, <1>7, <3>1, Times DEF Timely, Let
    <3>3. age["reader"] <= BeatTime + due["reader"]
      BY <1>1, <1>6, <2>2, <3>2 DEF Beats
    <3> QED BY <1>2, <1>4, <3>1, <3>3, Times DEF Timely
  <2>3. CASE th["reader"] = "done"
    <3>1. filled /\ left > 0
      BY <1>1, <1>3, <1>5, <2>3 DEF Where, Draining, Runs
    <3>2. left + 1 \in Int /\ left + 1 > 1
      BY <1>5, <3>1
    <3>3. age["reader"] <= Timeout - left
      BY <1>1, <1>3, <1>6, <2>3, <3>1, <3>2 DEF Drains
    <3> QED BY <1>2, <1>4, <1>5, <3>1, <3>3, Times
  <2> QED BY <1>3, <2>1, <2>2, <2>3
<1>9. Aged("writer") <= wtimeout
  <2>1. CASE ~filled
    <3>1. Filling
      BY <1>1, <1>3, <2>1 DEF Where, Filling
    <3>2. age["writer"] <= StartTime + FillTime - left
      BY <1>1, <1>3, <2>1 DEF Fills
    <3> QED BY <1>2, <1>4, <1>5, <3>1, <3>2, Times DEF Timely
  <2>2. CASE filled
    <3>1. Runs("writer") /\ due["writer"] < BeatTime
      BY <1>2, <1>3, <1>4, <2>2 DEF Runs
    <3>2. Let - due["writer"] \in Int /\ Let - due["writer"] > 1
      BY <1>2, <1>4, <1>7, <3>1, Times DEF Timely, Let
    <3>3. age["writer"] <= StartTime + FillTime + due["writer"]
      BY <1>1, <1>3, <1>6, <2>2, <3>2 DEF Beats
    <3> QED BY <1>2, <1>4, <1>5, <3>1, <3>3, Times DEF Timely
  <2> QED BY <2>1, <2>2
<1>10. Aged("reader") \in Int /\ Aged("writer") \in Int
  BY <1>2, <1>4
<1> QED BY <1>5, <1>8, <1>9, <1>10, Times DEF Failed, TimeoutOf, Thread

-----------------------------------------------------------------------------
(* Every step keeps the invariant. *)
LEMMA Bounds ==
  ASSUME TypeOK
  PROVE  /\ "writer" \in Thread /\ "reader" \in Thread
         /\ \A t \in Thread : age[t] \in Int /\ due[t] \in Nat
         /\ Starts => \A t \in Thread : th[t] = "work" => due[t] <= BeatTime
         /\ left \in Nat /\ hbcnt \in Int /\ skip \in Nat
         /\ skip * HbInt \in Nat /\ Skip * HbInt \in Nat
<1>1. skip \in Nat /\ HbInt \in Nat
  BY Times DEF TypeOK
<1>2. skip * HbInt \in Nat /\ Skip * HbInt \in Nat
  BY <1>1, Times, Product
<1>3. \A t \in Thread : age[t] \in Int /\ due[t] \in Nat
  BY Times, Ages DEF TypeOK, Never
<1>4. Starts => \A t \in Thread : th[t] = "work" => due[t] <= BeatTime
  BY DEF Starts, Limit
<1>5. left \in Nat /\ hbcnt \in Int
  BY Times DEF TypeOK, Never
<1> QED BY <1>1, <1>2, <1>3, <1>4, <1>5 DEF Thread

(* A poll of threads that play in time. *)
LEMMA PlayedPoll ==
  ASSUME Timely, HbInv, GetStatus, ~Hung, state = "playing"
  PROVE  /\ GoOn
         /\ filled => /\ Beats("reader", BeatTime)'
                      /\ Beats("writer", StartTime + FillTime)' /\ Drains'
<1>1. /\ TypeOK /\ Where /\ Starts /\ Fills
      /\ (filled => /\ Beats("reader", BeatTime)
                    /\ Beats("writer", StartTime + FillTime) /\ Drains)
  BY DEF HbInv
<1>2. Elapse /\ CountDown /\ filled' = filled
  BY DEF GetStatus
<1>3. GoOn
  <2>1. hbcnt = 1 /\ skip = 0 /\ Checkable => Failed = {}
    BY <1>2, NoneFailed
  <2> QED BY <1>2, <2>1 DEF CountDown, Check, Judge
<1>4. \A n \in Int : Spared(n) => Spared(n - 1)'
  BY <1>1, <1>2, SparedPoll
<1>5. UNCHANGED <<state, th>> /\ \A t \in Thread : age'[t] = Aged(t)
  BY <1>3 DEF GoOn
<1>6. \A t \in Thread :
        /\ age[t] \in Int /\ age'[t] \in Int /\ age'[t] <= age[t] + 1
        /\ due[t] \in Nat /\ due'[t] \in Nat
        /\ th[t] = "work" /\ Runs(t) => due'[t] = due[t] + 1
  BY <1>1, <1>2, <1>5, Elapsed
<1>7. "writer" \in Thread /\ "reader" \in Thread /\ Skip * HbInt \in Nat
  BY <1>1, Bounds
<1>8. ASSUME filled, NEW t \in Thread, NEW lately \in Nat, Beats(t, lately)
      PROVE  Beats(t, lately)'
  <2> SUFFICES ASSUME th[t] = "work"
               PROVE  age'[t] <= lately + due'[t] \/ Spared(Let - due[t])'
    BY <1>5 DEF Beats
  <2>1. due'[t] = due[t] + 1
    BY <1>6, <1>8 DEF Runs
  <2>2. CASE age[t] <= lately + due[t]
    BY <1>6, <2>1, <2>2
  <2>3. CASE Spared(Let - due[t])
    <3>1. PICK n \in Int : n = Let - due[t]
      BY <1>6, <1>7 DEF Let
    <3>2. Spared(n - 1)' /\ n - 1 = Let - due'[t]
      BY <1>4, <1>6, <1>7, <2>1, <2>3, <3>1 DEF Let
    <3> QED BY <3>2 DEF Spared
  <2> QED BY <1>8, <2>2, <2>3 DEF Beats
<1>9. filled => Beats("reader", BeatTime)'
  BY <1>1, <1>7, <1>8, Times
<1>10. filled => Beats("writer", StartTime + FillTime)'
  <2>1. StartTime + FillTime \in Nat
    BY Times
  <2> QED BY <1>1, <1>7, <1>8, <2>1
<1>11. filled => Drains'
  <2> SUFFICES ASSUME filled, th["reader"] = "done", th["writer"] = "work"
               PROVE  age'["reader"] <= Timeout - left' \/ Spared(left + 1)'
    BY <1>5 DEF Drains
  <2>1. left' = left - 1 /\ left \in Nat
    BY <1>1, <1>2, Passed DEF Draining, Runs
  <2>2. CASE age["reader"] <= Timeout - left
    BY <1>6, <1>7, <2>1, <2>2, Times
  <2>3. CASE Spared(left + 1)
    <3>1. PICK n \in Int : n = left + 1
      BY <2>1
    <3>2. Spared(n - 1)' /\ n - 1 = left' + 1
      BY <1>4, <2>1, <2>3, <3>1
    <3> QED BY <3>2 DEF Spared
  <2> QED BY <1>1, <2>2, <2>3 DEF Drains
<1> QED BY <1>3, <1>9, <1>10, <1>11

(* What begins anew owes nothing. *)
LEMMA InitshmInv ==
  ASSUME HbInv, TypeOK', Initshm, alarm' # "false",
         filled' = filled, left' <= left
  PROVE  HbInv'
<1>1. /\ state' = "stopped"
      /\ \A t \in Thread : th'[t] = "none" /\ age'[t] = Never
  BY DEF Initshm
<1>2. "writer" \in Thread /\ "reader" \in Thread
  BY DEF Thread
<1>3. filled' \/ left' <= FillTime
  BY Times DEF HbInv, Where, TypeOK
<1>4. Where' /\ NoFalseAlarm' /\ Starts' /\ Fills'
  BY <1>1, <1>2, <1>3 DEF Where, NoFalseAlarm, Starts, Fills
<1> QED BY <1>1, <1>4 DEF HbInv

LEMMA PollInv ==
  ASSUME Timely, HbInv, GetStatus PROVE HbInv'
<1>1. TypeOK /\ NoFalseAlarm /\ Where /\ Starts /\ (~Hung => Fills)
  BY DEF HbInv
<1>2. TypeOK'
  BY <1>1, PollTypes
<1>3. Elapse /\ filled' = filled
  BY DEF GetStatus
<1>4. "writer" \in Thread /\ "reader" \in Thread
  BY <1>1, Bounds
<1>5. /\ left \in Nat /\ left' \in Nat /\ left' <= left
      /\ Filling => left' = left - 1
  BY <1>1, <1>3, Passed
<1>6. CASE GoOn /\ (state = "paused" => skip' = skip)
  <2>1. UNCHANGED <<state, th, alarm>> /\ \A t \in Thread : age'[t] = Aged(t)
    BY <1>6 DEF GoOn
  <2>2. Where'
    BY <1>1, <1>3, <1>4, <1>5, <1>6, <2>1, Times DEF Where
  <2>3. NoFalseAlarm' /\ (Hung' <=> Hung) /\ Starts'
    BY <1>1, <1>3, <1>6, <2>1, StartsPoll DEF NoFalseAlarm, Hung
  <2>4. ASSUME ~Hung PROVE Fills'
    <3>1. \A t \in Thread :
            /\ age[t] \in Int /\ age'[t] \in Int /\ age'[t] <= age[t] + 1
            /\ due[t] \in Nat /\ due'[t] \in Nat
            /\ th[t] \in {"new", "start"} => due'[t] <= StartTime
            /\ th[t] = "work" => IF Runs(t) THEN due'[t] = due[t] + 1
                                            ELSE due'[t] = due[t]
      BY <1>1, <1>3, <2>1, <2>4, Elapsed
    <3> SUFFICES ASSUME ~filled
                 PROVE  /\ th["reader"] = "work" =>
                             age'["reader"] <= due'["reader"]
                        /\ th["writer"] = "work" =>
                             /\ due'["writer"] = 0
                             /\ age'["writer"] <= StartTime + FillTime - left'
      BY <1>3, <2>1 DEF Fills
    <3>2. Fills
      BY <1>1, <2>4
    <3>3. left' <= FillTime
      BY <1>1, <1>5, Times DEF Where
    <3>4. th["reader"] = "work" => age'["reader"] <= due'["reader"]
      BY <1>4, <3>1, <3>2 DEF Fills, Runs
    <3>5. ASSUME th["writer"] = "work"
          PROVE  /\ due'["writer"] = 0
                 /\ age'["writer"] <= StartTime + FillTime - left'
      <4>1. due["writer"] = 0 /\ age["writer"] <= StartTime + FillTime - left
        BY <3>2, <3>5 DEF Fills
      <4>2. due'["writer"] = 0
        BY <1>4, <3>1, <3>5, <4>1 DEF Runs
      <4>3. CASE th["reader"] = "work"
        <5>1. left' = left - 1
          BY <1>5, <2>4, <4>3 DEF Filling
        <5> QED BY <1>4, <1>5, <3>1, <4>1, <4>2, <5>1, Times
      <4>4. CASE th["reader"] \in {"new", "start"}
        <5>1. age'["writer"] <= due'["reader"] /\ due'["reader"] <= StartTime
          BY <1>4, <2>1, <2>3, <3>1, <4>4 DEF Starts
        <5> QED BY <1>4, <1>5, <3>1, <3>3, <4>2, <5>1, Times
      <4>5. CASE th["reader"] = "none"
        <5>1. state = "stopped"
          BY <1>1, <1>4, <4>5 DEF Where
        <5> QED BY <1>4, <2>1, <3>5, <5>1 DEF GetStatus, Initshm
      <4>6. th["reader"] \in {"none", "new", "start", "work"}
        BY <1>1, <1>4, <2>4 DEF Where, Hung, TypeOK
      <4> QED BY <4>3, <4>4, <4>5, <4>6
    <3> QED BY <3>4, <3>5
  <2>5. filled' /\ state' = "playing" /\ ~Hung =>
          /\ Beats("reader", BeatTime)'
          /\ Beats("writer", StartTime + FillTime)' /\ Drains'
    BY <1>3, <2>1, PlayedPoll
  <2> QED BY <1>2, <2>2, <2>3, <2>4, <2>5 DEF HbInv
<1>7. CASE Initshm /\ alarm' # "false"
  BY <1>2, <1>3, <1>5, <1>7, InitshmInv
<1>8. CASE state = "stopped"
  BY <1>1, <1>7, <1>8 DEF GetStatus, NoFalseAlarm
<1>9. CASE state = "paused"
  BY <1>6, <1>9 DEF GetStatus
<1>10. CASE state = "playing" /\ Hung
  <2>1. CountDown
    BY <1>10 DEF GetStatus
  <2> QED BY <1>6, <1>7, <1>10, <2>1 DEF CountDown, Check, Judge
<1>11. CASE state = "playing" /\ ~Hung
  BY <1>6, <1>11, PlayedPoll
<1> QED BY <1>1, <1>8, <1>9, <1>10, <1>11 DEF TypeOK

LEMMA PauseInv ==
  ASSUME Timely, HbInv, PauseResume PROVE HbInv'
<1>1. TypeOK /\ NoFalseAlarm /\ Where /\ Starts /\ (~Hung => Fills)
  BY DEF HbInv
<1>2. /\ left \in Nat /\ hbcnt \in Int /\ Skip * HbInt \in Nat
      /\ \A t \in Thread : due[t] \in Nat
      /\ "writer" \in Thread /\ "reader" \in Thread
  BY <1>1, Bounds
<1>3. TypeOK'
  BY <1>1, NextTypes DEF Next
<1>4. /\ skip' = Skip /\ UNCHANGED <<th, filled, left, due, age, hbcnt, alarm>>
  BY DEF PauseResume
<1>5. NoFalseAlarm' /\ (Hung' <=> Hung)
  BY <1>1, <1>4 DEF NoFalseAlarm, Hung
<1>6. Where' /\ Starts'
  BY <1>1, <1>4 DEF Where, Starts, Limit, PauseResume
<1>7. ~Hung => Fills'
  BY <1>1, <1>4 DEF Fills
<1>8. \A n \in Int : n <= Let => Spared(n)'
  BY <1>2, <1>4 DEF Spared, Let
<1>9. Beats("reader", BeatTime)' /\ Beats("writer", StartTime + FillTime)'
  <2>1. ASSUME NEW t \in Thread PROVE Spared(Let - due[t])'
    <3>1. PICK n \in Int : n = Let - due[t] /\ n <= Let
      BY <1>2 DEF Let
    <3>2. Spared(n)' /\ n = Let - due'[t]
      BY <1>4, <1>8, <3>1
    <3> QED BY <3>2 DEF Spared
  <2> QED BY <1>2, <2>1 DEF Beats
<1>10. Drains'
  <2> SUFFICES ASSUME th["reader"] = "done" PROVE Spared(left + 1)'
    BY <1>4 DEF Drains
  <2>1. left <= DrainTime
    BY <1>1 DEF Where
  <2>2. PICK n \in Int : n = left + 1 /\ n <= Let
    BY <1>2, <2>1, Times DEF Let, Timely
  <2>3. Spared(n)' /\ n = left' + 1
    BY <1>4, <1>8, <2>2
  <2> QED BY <2>3 DEF Spared
<1> QED BY <1>3, <1>5, <1>6, <1>7, <1>9, <1>10 DEF HbInv

LEMMA PlayInv ==
  ASSUME Timely, HbInv, Play PROVE HbInv'
<1>1. TypeOK /\ NoFalseAlarm /\ Where /\ Starts
  BY DEF HbInv
<1>2. TypeOK'
  BY <1>1, NextTypes DEF Next
<1>3. /\ state' = "playing" /\ filled' = FALSE /\ left' = FillTime
      /\ \A t \in Thread : th[t] = "none" /\ th'[t] = "new" /\ due'[t] = 0
      /\ UNCHANGED <<age, skip, alarm>>
  BY DEF Play
<1>4. "writer" \in Thread /\ "reader" \in Thread
  BY DEF Thread
<1>5. Where' /\ NoFalseAlarm'
  BY <1>1, <1>3, <1>4, Times DEF Where, NoFalseAlarm
<1>6. Starts'
  <2>1. \A t \in Thread : age'[t] = Never
    BY <1>1, <1>3 DEF Starts
  <2> QED BY <1>3, <2>1, Times DEF Starts, Limit, Never
<1>7. Fills'
  BY <1>3, <1>4, Times DEF Fills
<1> QED BY <1>2, <1>3, <1>5, <1>6, <1>7 DEF HbInv

(* The end of a play, by the user or by the writer. *)
LEMMA StopInv ==
  ASSUME HbInv, Stop PROVE HbInv'
<1>1. TypeOK /\ alarm' # "false" /\ filled' = filled /\ left' <= left
  BY Times DEF HbInv, NoFalseAlarm, Stop, TypeOK
<1>2. TypeOK'
  BY <1>1, NextTypes DEF Next
<1> QED BY <1>1, <1>2, InitshmInv DEF Stop

LEMMA WriterEndInv ==
  ASSUME Timely, HbInv, WriterEnd PROVE HbInv'
<1>1. TypeOK /\ NoFalseAlarm /\ Where /\ Starts /\ (~Hung => Fills)
  BY DEF HbInv
<1>2. TypeOK'
  BY <1>1, NextTypes DEF Next, BufferStep
<1>3. state' = "stopped" /\ UNCHANGED <<th, filled, left, due, age, alarm>>
  BY DEF WriterEnd
<1>4. Where' /\ NoFalseAlarm' /\ Starts' /\ (Hung' <=> Hung) /\ (~Hung => Fills')
  BY <1>1, <1>3 DEF Where, NoFalseAlarm, Starts, Limit, Hung, Fills
<1> QED BY <1>2, <1>3, <1>4 DEF HbInv

LEMMA StoreIdInv ==
  ASSUME Timely, HbInv, NEW t \in Thread, StoreId(t) PROVE HbInv'
<1>1. TypeOK /\ NoFalseAlarm /\ Where /\ Starts
  BY DEF HbInv
<1>2. TypeOK'
  BY <1>1, NextTypes DEF Next, ThreadStep
<1>3. UNCHANGED <<state, filled, left, due, age, hbcnt, skip, alarm>>
  BY DEF StoreId
<1>4. /\ th[t] = "new" /\ th'[t] = "start"
      /\ \A u \in Thread : u # t => th'[u] = th[u]
  BY <1>1 DEF StoreId, TypeOK
<1>5. "writer" \in Thread /\ "reader" \in Thread
  BY DEF Thread
<1>6. Where' /\ NoFalseAlarm' /\ Starts' /\ (Hung' <=> Hung)
  BY <1>1, <1>3, <1>4, <1>5 DEF Where, NoFalseAlarm, Starts, Limit, Hung
<1>7. Fills => Fills'
  BY <1>3, <1>4, <1>5 DEF Fills
<1>8. Beats("reader", BeatTime) => Beats("reader", BeatTime)'
  BY <1>3, <1>4, <1>5 DEF Beats, Spared
<1>9. Beats("writer", StartTime + FillTime) => Beats("writer", StartTime + FillTime)'
  BY <1>3, <1>4, <1>5 DEF Beats, Spared
<1>10. Drains => Drains'
  BY <1>3, <1>4, <1>5 DEF Drains, Spared
<1> QED BY <1>2, <1>3, <1>6, <1>7, <1>8, <1>9, <1>10 DEF HbInv

(* A heartbeat makes the age of the thread's time stamp 0. *)
LEMMA BeatInv ==
  ASSUME Timely, HbInv, NEW t \in Thread, Beat(t) PROVE HbInv'
<1>1. TypeOK /\ NoFalseAlarm /\ Where /\ Starts
  BY DEF HbInv
<1>2. TypeOK'
  BY <1>1, NextTypes DEF Next, ThreadStep
<1>3. UNCHANGED <<state, filled, left, hbcnt, skip, alarm>>
  BY DEF Beat
<1>4. /\ th[t] \in {"start", "work"} /\ th'[t] = "work"
      /\ age'[t] = 0 /\ due'[t] = 0
      /\ \A u \in Thread : u # t =>
           th'[u] = th[u] /\ age'[u] = age[u] /\ due'[u] = due[u]
  BY <1>1 DEF Beat, Runs, TypeOK
<1>5. /\ "writer" \in Thread /\ "reader" \in Thread /\ left \in Nat
      /\ \A u \in Thread : due[u] \in Nat /\ age[u] \in Int
  BY <1>1, Bounds
<1>6. Where' /\ NoFalseAlarm' /\ (Hung' <=> Hung)
  BY <1>1, <1>3, <1>4, <1>5 DEF Where, NoFalseAlarm, Hung
<1>11. Starts'
  <2>1. Limit(t)' = BeatTime
    BY <1>4 DEF Limit
  <2>2. \A u \in Thread : u # t => Limit(u)' = Limit(u)
    BY <1>4 DEF Limit
  <2>3. \A u, v \in Thread :
          u # t /\ th[u] \in {"new", "start"} => age'[v] <= due'[u]
    BY <1>1, <1>4, <1>5 DEF Starts
  <2> QED BY <1>1, <1>4, <2>1, <2>2, <2>3, Times DEF Starts
<1>7. Fills => Fills'
  BY <1>1, <1>3, <1>4, <1>5, Times DEF Fills, Where
<1>8. Beats("reader", BeatTime) => Beats("reader", BeatTime)'
  BY <1>3, <1>4, <1>5, Times DEF Beats, Spared
<1>9. Beats("writer", StartTime + FillTime) => Beats("writer", StartTime + FillTime)'
  BY <1>3, <1>4, <1>5, Times DEF Beats, Spared
<1>10. Drains => Drains'
  <2> SUFFICES ASSUME Drains, th["reader"] = "done", t = "writer"
               PROVE  age["reader"] <= Timeout - left \/ Spared(left + 1)
    BY <1>3, <1>4, <1>5 DEF Drains, Spared
  <2>1. CASE th["writer"] = "work"
    BY <2>1 DEF Drains
  <2>2. CASE th["writer"] = "start"
    <3>1. age["reader"] <= due["writer"] /\ due["writer"] <= StartTime
      BY <1>1, <1>5, <2>2 DEF Starts, Limit
    <3>2. left <= DrainTime
      BY <1>1 DEF Where
    <3> QED BY <1>5, <3>1, <3>2, Times DEF Timely
  <2> QED BY <1>4, <2>1, <2>2
<1> QED BY <1>2, <1>3, <1>6, <1>7, <1>8, <1>9, <1>10, <1>11 DEF HbInv

(* When the buffer is full, the reader has beaten within BeatTime, and the *)
(* writer before the filling began, or while it went on.                   *)
LEMMA FillDoneInv ==
  ASSUME Timely, HbInv, FillDone PROVE HbInv'
<1>1. TypeOK /\ NoFalseAlarm /\ Where /\ Starts /\ (~Hung => Fills)
  BY DEF HbInv
<1>2. TypeOK'
  BY <1>1, NextTypes DEF Next, BufferStep
<1>3. /\ th["reader"] = "work" /\ ~filled /\ filled'
      /\ UNCHANGED <<state, th, left, age, skip, alarm>>
  BY DEF FillDone
<1>4. /\ "writer" \in Thread /\ "reader" \in Thread /\ left \in Nat
      /\ \A t \in Thread : age[t] \in Int /\ due[t] \in Nat
      /\ due["reader"] <= BeatTime
  BY <1>1, Bounds DEF FillDone
<1>5. due'["reader"] = 0 /\ due'["writer"] = due["writer"]
  BY <1>1, <1>4 DEF FillDone, TypeOK
<1>6. Where' /\ NoFalseAlarm' /\ Starts' /\ (Hung' <=> Hung) /\ Fills'
  <2>1. Starts'
    BY <1>1, <1>3, <1>4, <1>5, Times DEF Starts, Limit, Thread
  <2> QED BY <1>1, <1>3, <1>4, <2>1 DEF Where, NoFalseAlarm, Hung, Fills
<1>7. ~Hung => Beats("reader", BeatTime)'
  BY <1>1, <1>3, <1>4, <1>5, Times DEF Fills, Beats
<1>8. ~Hung => Beats("writer", StartTime + FillTime)'
  <2> SUFFICES ASSUME ~Hung, th["writer"] = "work"
               PROVE  age'["writer"] <= StartTime + FillTime + due'["writer"]
    BY <1>3 DEF Beats
  <2>1. due["writer"] = 0 /\ age["writer"] <= StartTime + FillTime - left
    BY <1>1, <1>3 DEF Fills
  <2> QED BY <1>3, <1>4, <1>5, <2>1, Times
<1>9. Drains'
  BY <1>3 DEF Drains
<1> QED BY <1>2, <1>6, <1>7, <1>8, <1>9 DEF HbInv

(* The last heartbeat of the reader is young enough for the draining, or   *)
(* no check that counts comes before that is over.                         *)
LEMMA ReaderEndInv ==
  ASSUME Timely, HbInv, ReaderEnd PROVE HbInv'
<1>1. TypeOK /\ NoFalseAlarm /\ Where /\ Starts
  BY DEF HbInv
<1>2. TypeOK'
  BY <1>1, NextTypes DEF Next, BufferStep
<1>3. /\ th["reader"] = "work" /\ filled /\ state = "playing"
      /\ left' = DrainTime
      /\ UNCHANGED <<state, filled, due, age, hbcnt, skip, alarm>>
  BY DEF ReaderEnd, Runs
<1>4. /\ "writer" \in Thread /\ "reader" \in Thread
      /\ \A t \in Thread : age[t] \in Int /\ due[t] \in Nat
      /\ due["reader"] <= BeatTime
      /\ hbcnt \in Int /\ skip * HbInt \in Nat /\ Skip * HbInt \in Nat
  BY <1>1, <1>3, Bounds
<1>5. th'["reader"] = "done" /\ th'["writer"] = th["writer"]
  BY <1>1, <1>4 DEF ReaderEnd, TypeOK
<1>6. Where' /\ NoFalseAlarm' /\ Starts' /\ (Hung' <=> Hung) /\ Fills'
  <2>1. Hung' <=> Hung
    BY <1>3, <1>5 DEF Hung, Thread
  <2>2. \A t \in Thread : th'[t] # "none" \/ th'[t] = th[t]
    BY <1>5 DEF Thread
  <2>3. Where'
    BY <1>1, <1>3, <1>5, <2>2, Times DEF Where
  <2>4. Starts'
    BY <1>1, <1>3, <1>5 DEF Starts, Limit, Thread
  <2> QED BY <1>1, <1>3, <2>1, <2>3, <2>4 DEF NoFalseAlarm, Fills
<1>7. Beats("reader", BeatTime)'
  BY <1>5 DEF Beats
<1>8. Beats("writer", StartTime + FillTime) => Beats("writer", StartTime + FillTime)'
  BY <1>3, <1>5 DEF Beats, Spared
<1>9. Beats("reader", BeatTime) => Drains'
  <2> SUFFICES ASSUME Beats("reader", BeatTime)
               PROVE  \/ age["reader"] <= 2 * BeatTime
                      \/ hbcnt <= 0 \/ hbcnt + skip * HbInt >= DrainTime + 1
    BY <1>3, <1>4, Times DEF Drains, Spared, Timely
  <2>1. CASE age["reader"] <= BeatTime + due["reader"]
    BY <1>4, <2>1, Times
  <2>2. CASE Spared(Let - due["reader"])
    <3>1. Let - due["reader"] >= DrainTime + 1
      BY <1>4, Times DEF Let, Timely
    <3> QED BY <1>4, <2>2, <3>1, Times DEF Spared, Let
  <2> QED BY <1>3, <2>1, <2>2 DEF Beats
<1> QED BY <1>2, <1>3, <1>6, <1>7, <1>8, <1>9 DEF HbInv

LEMMA HangInv ==
  ASSUME Timely, HbInv, NEW t \in Thread, Hang(t) PROVE HbInv'
<1>1. TypeOK /\ NoFalseAlarm /\ Where /\ Starts
  BY DEF HbInv
<1>2. TypeOK'
  BY <1>1, NextTypes DEF Next
<1>3. UNCHANGED <<state, filled, left, skip, alarm>>
  BY DEF Hang
<1>4. th'[t] = "hung" /\ \A u \in Thread : u # t => th'[u] = th[u]
  BY <1>1 DEF Hang, TypeOK
<1>5. "writer" \in Thread /\ "reader" \in Thread
  BY DEF Thread
<1>6. Hung'
  BY <1>4 DEF Hung
<1>7. Where' /\ NoFalseAlarm' /\ Starts'
  BY <1>1, <1>3, <1>4, <1>5 DEF Hang, Where, NoFalseAlarm, Starts, Limit
<1> QED BY <1>2, <1>6, <1>7 DEF HbInv

LEMMA SameInv ==
  ASSUME HbInv, UNCHANGED vars PROVE HbInv'
<1>1. UNCHANGED <<state, th, filled, left, due, age, wtimeout, hbcnt, skip,
                  plays, alarm>>
  BY DEF vars, pVars
<1>2. (Hung' <=> Hung) /\ (TypeOK => TypeOK') /\ (Where => Where')
      /\ (NoFalseAlarm => NoFalseAlarm') /\ (Fills => Fills')
      /\ (Starts => Starts')
  BY <1>1 DEF Hung, TypeOK, Where, NoFalseAlarm, Fills, Starts, Limit
<1>3. /\ Beats("reader", BeatTime) => Beats("reader", BeatTime)'
      /\ Beats("writer", StartTime + FillTime) => Beats("writer", StartTime + FillTime)'
      /\ Drains => Drains'
  BY <1>1 DEF Beats, Drains, Spared
<1> QED BY <1>1, <1>2, <1>3 DEF HbInv

LEMMA InitInv == Init => HbInv
<1> SUFFICES ASSUME Init PROVE HbInv
  OBVIOUS
<1>1. TypeOK
  BY InitTypes
<1>2. "writer" \in Thread /\ "reader" \in Thread
  BY DEF Thread
<1>3. /\ \A t \in Thread : th[t] = "none" /\ age[t] = Never
      /\ state = "stopped" /\ alarm = "none"
  BY DEF Init
<1>4. left <= FillTime
  BY Times DEF Init
<1> QED BY <1>1, <1>2, <1>3, <1>4 DEF HbInv, NoFalseAlarm, Where, Starts, Fills

LEMMA NextInv ==
  ASSUME Timely, HbInv, [Next]_vars PROVE HbInv'
<1>1. CASE Play                              BY <1>1, PlayInv
<1>2. CASE Stop                              BY <1>2, StopInv
<1>3. CASE PauseResume                       BY <1>3, PauseInv
<1>4. CASE GetStatus                         BY <1>4, PollInv
<1>5. CASE FillDone                          BY <1>5, FillDoneInv
<1>6. CASE ReaderEnd                         BY <1>6, ReaderEndInv
<1>7. CASE WriterEnd                         BY <1>7, WriterEndInv
<1>8. CASE \E t \in Thread : StoreId(t)      BY <1>8, StoreIdInv
<1>9. CASE \E t \in Thread : Beat(t)         BY <1>9, BeatInv
<1>10. CASE \E t \in Thread : Hang(t)        BY <1>10, HangInv
<1>11. CASE UNCHANGED vars                   BY <1>11, SameInv
<1> QED BY <1>1, <1>2, <1>3, <1>4, <1>5, <1>6, <1>7, <1>8, <1>9, <1>10, <1>11
        DEF Next, BufferStep, ThreadStep

(* cdda_pthr_getstatus kills no threads that beat in time, whatever the    *)
(* intervals and time-outs, as long as they cover what Timely says they    *)
(* have to: not after a long pause, not while the writer drains the buffer *)
(* without the reader, and not when one of them begins late.               *)
THEOREM NoFalseAlarmHolds ==
  ASSUME Timely PROVE Spec => []NoFalseAlarm
<1>1. Init => HbInv
  BY InitInv
<1>2. HbInv /\ [Next]_vars => HbInv'
  BY NextInv
<1>3. HbInv => NoFalseAlarm
  BY DEF HbInv
<1> QED BY <1>1, <1>2, <1>3, PTL DEF Spec
=============================================================================
