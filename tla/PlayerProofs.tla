------------------------------- MODULE PlayerProofs -------------------------
(***************************************************************************)
(* The theorems of the player, for every disc, every drive and every       *)
(* length of play under the conditions Sane and Plain of PlayerInv.        *)
(* An operator F of the model takes a state to a state with a return       *)
(* value. Its lemma FIs describes that state: which fields may differ      *)
(* (Only) and what they are. FOk leads from a part of the invariant to a   *)
(* part, where F runs in the middle of a command; FInv says that F keeps   *)
(* Inv. The lemmas come in the order of the modules PlayerState,           *)
(* PlayerPoll, PlayerOps, PlayerModes, PlayerCda, Player.                  *)
(***************************************************************************)
EXTENDS PlayerInv, FiniteSets, WellFoundedInduction, NaturalsInduction, TLAPS

-----------------------------------------------------------------------------
(* The disc. *)

(* A set of numbers has a least element ... *)
LEMMA Least ==
  ASSUME NEW T \in SUBSET Nat, T # {}
  PROVE  \E n \in T : \A m \in T : n <= m
<1>1. IsWellFoundedOn(OpToRel(<, Nat), Nat)
  BY NatLessThanWellFounded
<1>2. PICK n \in T : \A m \in T : ~ (<<m, n>> \in OpToRel(<, Nat))
  BY <1>1, WFMin
<1>3. \A m \in T : ~ (m < n)
  BY <1>2 DEF OpToRel
<1> QED BY <1>3

(* The table of contents: tracks follow each other from block 0. *)
LEMMA Discs ==
  /\ Len(Toc) \in Nat /\ Len(Toc) > 1 /\ 1 \in Track /\ Track \subseteq Nat
  /\ \A t \in Track : /\ t \in Nat /\ t + 1 \in 1..Len(Toc) /\ TrackEnd(t) = Toc[t + 1]
                      /\ TrackEnd(t) \in Nat
  /\ \A t \in 1..Len(Toc) : Toc[t] \in Nat
  /\ Leadout \in Nat /\ Leadout > 0 /\ Toc[1] = 0 /\ Len(Toc) - 1 \in Track
  /\ Audio \subseteq Track
<1>0. Len(Toc) \in Nat /\ Len(Toc) > 1 /\ Toc[1] = 0
  BY TocAssumption
<1>1. /\ 1 \in Track /\ Track \subseteq Nat /\ Len(Toc) - 1 \in Track
      /\ Audio \subseteq Track
  BY <1>0 DEF Track, Audio
<1>2. \A t \in Track : Toc[t] \in Nat /\ Toc[t] < Toc[t + 1]
  BY TocAssumption
<1>3. \A t \in Track : t \in Nat /\ t + 1 \in 1..Len(Toc)
  BY <1>0 DEF Track
<1>3a. \A t \in 1..Len(Toc) : Toc[t] \in Nat
  <2> TAKE t \in 1..Len(Toc)
  <2>1. CASE t = Len(Toc)
    BY <2>1, TocAssumption DEF Leadout
  <2>2. CASE t # Len(Toc)
    BY <2>2, <1>0, <1>2 DEF Track
  <2> QED BY <2>1, <2>2
<1>4. \A t \in Track : TrackEnd(t) = Toc[t + 1] /\ TrackEnd(t) \in Nat
  BY <1>3, <1>3a DEF TrackEnd
<1>5. Leadout \in Nat /\ Leadout > 0
  <2>1. Toc[(Len(Toc) - 1) + 1] > Toc[Len(Toc) - 1] /\ Toc[Len(Toc) - 1] \in Nat
    BY <1>1, <1>2
  <2>2. (Len(Toc) - 1) + 1 = Len(Toc)
    BY <1>0
  <2>3. Leadout > Toc[Len(Toc) - 1] /\ Leadout \in Nat
    BY <2>1, <2>2, TocAssumption DEF Leadout
  <2> QED BY <2>1, <2>3
<1> QED BY <1>0, <1>1, <1>3, <1>3a, <1>4, <1>5

(* The types of the other constants. *)
LEMMA Blks ==
  /\ ClipFrames \in Nat /\ MinPlayBlks \in Nat /\ PrevThreshold \in Nat
  /\ SampleBlks \in Nat /\ ErrSkip \in Nat /\ ErrClear \in Nat
  /\ MaxRecover \in Nat /\ MaxNoStat \in Nat /\ MaxStray \in Nat
  /\ Orders \subseteq Seq(Audio) /\ Programs \subseteq Seq(Track)
  /\ Indexes \subseteq 0..Leadout - 1 /\ StoppedAs \subseteq {"idle", "paused"}
BY TocAssumption, BlksAssumption

(* Tracks begin one behind the other. *)
LEMMA Increasing ==
  ASSUME NEW i \in 1..Len(Toc), NEW j \in 1..Len(Toc), i < j
  PROVE  Toc[i] < Toc[j]
<1> DEFINE T == {k \in 1..Len(Toc) : i < k /\ ~ (Toc[i] < Toc[k])}
<1> SUFFICES ASSUME T # {} PROVE FALSE
  OBVIOUS
<1>1. T \in SUBSET Nat
  BY Discs
<1>2. PICK k \in T : \A n \in T : k <= n
  BY <1>1, Least
<1>3. k - 1 \in Track /\ k - 1 \in 1..Len(Toc) /\ Toc[k - 1] < Toc[k]
  <2>1. k - 1 \in Track /\ k - 1 \in 1..Len(Toc)
    BY <1>2, Discs DEF Track
  <2>2. Toc[k - 1] < Toc[(k - 1) + 1]
    BY <2>1, TocAssumption
  <2>3. (k - 1) + 1 = k
    BY <1>2, <2>1, Discs
  <2> QED BY <2>1, <2>2, <2>3
<1>4. Toc[i] \in Nat /\ Toc[k] \in Nat /\ Toc[k - 1] \in Nat
  BY <1>2, <1>3, Discs
<1>5. CASE k - 1 = i
  BY <1>2, <1>3, <1>5
<1>6. CASE k - 1 # i
  <2>1. i < k - 1
    BY <1>2, <1>6, Discs
  <2>2. Toc[i] < Toc[k - 1]
    BY <1>2, <1>3, <2>1, Discs
  <2> QED BY <1>2, <1>3, <1>4, <2>2
<1> QED BY <1>5, <1>6

(* A track ends behind its beginning, and within the disc. *)
LEMMA TrackBounds ==
  ASSUME NEW t \in Track
  PROVE  /\ Toc[t] \in Nat /\ TrackEnd(t) \in Nat /\ Toc[t] < TrackEnd(t)
         /\ TrackEnd(t) <= Leadout
<1>1. t \in 1..Len(Toc) /\ t + 1 \in 1..Len(Toc) /\ Len(Toc) \in 1..Len(Toc)
  BY Discs DEF Track
<1>2. Toc[t] < TrackEnd(t)
  BY <1>1, Increasing, Discs DEF TrackEnd
<1>3. CASE t + 1 = Len(Toc)
  BY <1>1, <1>2, <1>3, Discs DEF TrackEnd, Leadout
<1>4. CASE t + 1 # Len(Toc)
  <2>1. t + 1 < Len(Toc)
    BY <1>1, <1>4, Discs
  <2>2. Toc[t + 1] < Toc[Len(Toc)]
    BY <1>1, <2>1, Increasing
  <2> QED BY <1>1, <1>2, <2>2, Discs DEF TrackEnd, Leadout
<1> QED BY <1>3, <1>4

(* The track of a block is the one it lies in ... *)
LEMMA TrackAtIs ==
  ASSUME NEW t \in Track, NEW blk \in Nat, Toc[t] <= blk, blk < TrackEnd(t)
  PROVE  TrackAt(blk) = t
<1>1. ASSUME NEW u \in Track, Toc[u] <= blk, blk < Toc[u + 1] PROVE u = t
  <2>0. /\ u \in Nat /\ t \in Nat /\ u + 1 \in 1..Len(Toc)
        /\ t + 1 \in 1..Len(Toc)
        /\ u \in 1..Len(Toc) /\ t \in 1..Len(Toc)
        /\ Toc[u] \in Nat /\ Toc[t] \in Nat /\ Toc[u + 1] \in Nat
        /\ Toc[t + 1] \in Nat
    BY Discs DEF Track
  <2>1. CASE u < t
    <3>1. Toc[u + 1] <= Toc[t]
      <4>1. CASE u + 1 = t
        BY <4>1, <2>0
      <4>2. CASE u + 1 < t
        BY <4>2, <2>0, Increasing
      <4> QED BY <2>0, <2>1, <4>1, <4>2
    <3> QED BY <1>1, <2>0, <3>1
  <2>2. CASE t < u
    <3>1. Toc[t + 1] <= Toc[u]
      <4>1. CASE t + 1 = u
        BY <4>1, <2>0
      <4>2. CASE t + 1 < u
        BY <4>2, <2>0, Increasing
      <4> QED BY <2>0, <2>2, <4>1, <4>2
    <3> QED BY <1>1, <2>0, <3>1 DEF TrackEnd
  <2> QED BY <2>0, <2>1, <2>2
<1>2. Toc[t] <= blk /\ blk < Toc[t + 1]
  BY DEF TrackEnd
<1> QED BY <1>1, <1>2 DEF TrackAt

(* ... and every block of the disc lies in one. *)
LEMMA TrackAtBlk ==
  ASSUME NEW blk \in 0..Leadout - 1
  PROVE  /\ TrackAt(blk) \in Track /\ Toc[TrackAt(blk)] <= blk
         /\ blk < TrackEnd(TrackAt(blk))
<1> DEFINE T == {j \in 1..Len(Toc) : blk < Toc[j]}
<1>1. T \in SUBSET Nat /\ T # {}
  <2>1. Len(Toc) \in T
    BY Discs DEF Leadout
  <2> QED BY <2>1, Discs
<1>2. PICK j \in T : \A n \in T : j <= n
  BY <1>1, Least
<1>3. j # 1
  BY <1>2, Discs
<1>4. j - 1 \in Track /\ j - 1 \in 1..Len(Toc)
  BY <1>2, <1>3, Discs DEF Track
<1>5. Toc[j - 1] <= blk
  <2>1. j - 1 \notin T
    BY <1>2, <1>4, Discs
  <2> QED BY <1>4, <2>1, Discs
<1>6. blk < TrackEnd(j - 1)
  <2>1. (j - 1) + 1 = j
    BY <1>2, Discs
  <2> QED BY <1>2, <2>1 DEF TrackEnd
<1>7. TrackAt(blk) = j - 1
  BY <1>4, <1>5, <1>6, TrackAtIs, Discs
<1> QED BY <1>4, <1>5, <1>6, <1>7

(* The end that is given to the drive. *)
LEMMA Clipped ==
  ASSUME NEW to \in Int
  PROVE  /\ Clip(to) \in Block /\ Clip(to) \in Nat /\ Clip(to) <= Leadout
         /\ to >= 0 => Clip(to) <= to
         /\ \A from \in Nat : from < Clip(to) => from < Leadout /\ from < to
         /\ Sane => \A from \in Int : from + MinPlayBlks <= to /\ to <= Leadout
                       => from + ClipFrames <= to /\ (from + ClipFrames < to /\ from >= 0
                                                         => from < Clip(to))
         /\ \A b \in Int : to <= b => Clip(to) <= Clip(b)
BY Discs, Blks DEF Clip, Lesser, Greater, Block, Sane

(* No track is lost to the clip. *)
LEMMA LongTrack ==
  ASSUME Sane, NEW t \in Track
  PROVE  Toc[t] < Clip(TrackEnd(t)) /\ Toc[t] < Clip(Leadout)
<1>1. Toc[t] + ClipFrames < TrackEnd(t)
  BY DEF Sane, TrackEnd
<1>2. /\ Toc[t] \in Nat /\ TrackEnd(t) \in Nat /\ TrackEnd(t) <= Leadout
  BY TrackBounds
<1> QED BY <1>1, <1>2, Discs, Blks DEF Clip, Lesser, Greater

(* A piece that is worth playing is longer than the clip. *)
LEMMA ClipShort ==
  ASSUME Sane, NEW from \in Nat, NEW to \in Nat, to <= Leadout,
         from + MinPlayBlks < to
  PROVE  from < Clip(to)
<1>1. /\ ClipFrames \in Nat /\ MinPlayBlks \in Nat /\ ClipFrames <= MinPlayBlks
      /\ Leadout \in Nat
  BY Blks, Discs DEF Sane
<1>2. Clip(to) = Greater(to - ClipFrames, 0) 
  BY <1>1 DEF Clip, Lesser
<1>3. from < to - ClipFrames
  BY <1>1
<1> QED BY <1>1, <1>2, <1>3 DEF Greater

-----------------------------------------------------------------------------
(* States, and what changes in them. *)

(* The fields of curstat_t and of the static variables. *)
SFields == {"mode", "cur_trk", "pos", "off", "segplay", "startpos", "endpos", "program",
            "onetrk", "shuffle", "repeat", "plan", "order", "prog_cnt"}

MFields == {"fake_stop", "new_progshuf", "idx_pause", "next_sam", "sav_end", "sav_msf",
            "errcnt", "errblk", "nostatcnt", "stat_polling", "stat_id", "stray",
            "insert_polling", "searching", "search_id", "start_search", "start_addr", "ask"}

(* Two values of them agree but for the fields in F. *)
SBut(s, t, F) == \A f \in SFields \ F : t[f] = s[f]

MBut(m, n, F) == \A f \in MFields \ F : n[f] = m[f]

(* Of all but the drive, only the fields in F and G may have changed. *)
Only(q, r, F, G) ==
  Typed(r) /\ r.app = q.app /\ SBut(q.s, r.s, F) /\ MBut(q.m, r.m, G)

(* A drive without faults takes every command if it has a disc. *)
LEMMA Taken ==
  ASSUME Sane, NEW q, NEW w \in World, NEW c \in Command
  PROVE  Takes(q, w, c) <=> q.d.st # "empty"
BY DEF Sane, World, Takes, Command

(* A return value changes nothing else. *)
LEMMA RetIs ==
  ASSUME NEW q \in State, NEW b \in BOOLEAN
  PROVE  /\ Ret(q, b) \in State
         /\ Ret(q, b).s = q.s /\ Ret(q, b).m = q.m /\ Ret(q, b).d = q.d
         /\ Ret(q, b).app = q.app /\ Ret(q, b).ret = b
BY DEF Ret, State

(* Another value of one part of the state. *)
WithM(q, x) == [q EXCEPT !.m = x]

WithD(q, x) == [q EXCEPT !.d = x]

(* It has that part, and the others as they were. *)
LEMMA WithMIs ==
  ASSUME NEW q \in State, NEW x \in Statics
  PROVE  /\ WithM(q, x) \in State /\ WithM(q, x).s = q.s /\ WithM(q, x).m = x
         /\ WithM(q, x).d = q.d /\ WithM(q, x).app = q.app
         /\ WithM(q, x).ret = q.ret
BY DEF State, WithM

LEMMA WithDIs ==
  ASSUME NEW q \in State, NEW x \in Drive
  PROVE  /\ WithD(q, x) \in State /\ WithD(q, x).s = q.s /\ WithD(q, x).m = q.m
         /\ WithD(q, x).d = x /\ WithD(q, x).app = q.app
         /\ WithD(q, x).ret = q.ret
BY DEF State, WithD

(* The drive changes from one of its states to another. *)
WithSt(q, x) == [q EXCEPT !.d.st = x]

SameButSt(q, r, x) ==
  /\ Typed(r) /\ r.s = q.s /\ r.m = q.m /\ r.app = q.app
  /\ r.d.pos = q.d.pos /\ r.d.end = q.d.end /\ r.d.st = x

(* Only that changes. *)
LEMMA WithStIs ==
  ASSUME NEW q, Typed(q),
         NEW x \in {"idle", "playing", "paused", "empty", "error"}
  PROVE  SameButSt(q, WithSt(q, x), x)
<1> DEFINE D == [q.d EXCEPT !.st = x]
<1>1. D \in Drive /\ D.pos = q.d.pos /\ D.end = q.d.end /\ D.st = x
  BY DEF Typed, State, Drive
<1>2. WithSt(q, x) = WithD(q, D)
  BY DEF Typed, State, WithD, WithSt
<1> HIDE DEF D
<1>3. WithD(q, D) \in State /\ WithD(q, D).s = q.s /\ WithD(q, D).m = q.m /\ WithD(q, D).d = D
      /\ WithD(q, D).app = q.app
  BY <1>1, WithDIs DEF Typed
<1> QED BY <1>1, <1>2, <1>3 DEF Typed, SameButSt

(* The drive has been told to stop. *)
Halted(q, r) ==
  /\ Typed(r) /\ r.s = q.s /\ r.m = q.m /\ r.app = q.app
  /\ r.d.pos = q.d.pos /\ r.d.end = q.d.end
  /\ q.d.st = "empty" => r.d = q.d /\ r.ret = FALSE
  /\ q.d.st # "empty" => r.d.st \in StoppedAs /\ r.ret = TRUE

(* slioc_start_stop. *)
LEMMA StartStopIs ==
  ASSUME Sane, NEW q, Typed(q), NEW w \in World
  PROVE  Halted(q, StartStop(q, w))
<1> SUFFICES ASSUME NEW r, r = StartStop(q, w) PROVE Halted(q, r)
  BY Zenon
<1>0. q \in State
  BY DEF Typed
<1>1. CASE q.d.st = "empty"
  <2>1. r = Ret(q, FALSE)
    BY <1>1, Taken DEF StartStop, Command
  <2>2. /\ r \in State /\ r.s = q.s /\ r.m = q.m /\ r.d = q.d
        /\ r.app = q.app /\ r.ret = FALSE
    BY <1>0, <2>1, RetIs
  <2> QED BY <1>1, <2>2 DEF Typed, Halted
<1>2. CASE q.d.st # "empty"
  <2> DEFINE x == WithSt(q, w.stopped)
  <2>1. r = Ret(x, TRUE)
    BY <1>2, Taken DEF StartStop, Command, WithSt
  <2>2. w.stopped \in StoppedAs /\ w.stopped \in {"idle", "paused"}
    BY Blks DEF World
  <2>3. SameButSt(q, x, w.stopped)
    BY <2>2, WithStIs
  <2> HIDE DEF x
  <2>4. /\ r \in State /\ r.s = x.s /\ r.m = x.m /\ r.d = x.d
        /\ r.app = x.app /\ r.ret = TRUE
    BY <2>1, <2>3, RetIs, ZenonT(30) DEF Typed, SameButSt
  <2> QED BY <1>2, <2>2, <2>3, <2>4 DEF Typed, Halted, SameButSt
<1> QED BY <1>1, <1>2

(* The drive has been told to pause or to go on. *)
Toggled(q, r, resume) ==
  /\ Typed(r) /\ r.s = q.s /\ r.m = q.m /\ r.app = q.app
  /\ r.d.pos = q.d.pos /\ r.d.end = q.d.end
  /\ q.d.st \notin {"playing", "paused"} => r.d = q.d /\ r.ret = FALSE
  /\ q.d.st \in {"playing", "paused"} =>
       r.ret = TRUE /\ r.d.st = (IF resume THEN "playing" ELSE "paused")

(* slioc_pause_resume. *)
LEMMA PauseResumeIs ==
  ASSUME Sane, NEW q, Typed(q), NEW w \in World, NEW b \in BOOLEAN
  PROVE  Toggled(q, PauseResume(q, w, b), b)
<1> SUFFICES ASSUME NEW r, r = PauseResume(q, w, b) PROVE Toggled(q, r, b)
  OBVIOUS
<1>0. q \in State
  BY DEF Typed
<1>1. CASE q.d.st \notin {"playing", "paused"}
  <2>1. r = Ret(q, FALSE)
    BY <1>1, Taken DEF PauseResume, Command
  <2>2. /\ r \in State /\ r.s = q.s /\ r.m = q.m /\ r.d = q.d
        /\ r.app = q.app /\ r.ret = FALSE
    BY <1>0, <2>1, RetIs
  <2> QED BY <1>1, <2>2 DEF Typed, Toggled
<1>2. CASE q.d.st \in {"playing", "paused"}
  <2> DEFINE st == IF b THEN "playing" ELSE "paused"
             x == WithSt(q, st)
  <2>1. r = Ret(x, TRUE)
    BY <1>2, Taken DEF PauseResume, Command, WithSt
  <2>2. st \in {"playing", "paused"}
    OBVIOUS
  <2> HIDE DEF st
  <2>3. SameButSt(q, x, st)
    BY <2>2, WithStIs
  <2> HIDE DEF x
  <2>4. /\ r \in State /\ r.s = x.s /\ r.m = x.m /\ r.d = x.d
        /\ r.app = x.app /\ r.ret = TRUE
    BY <2>1, <2>3, RetIs, ZenonT(30) DEF Typed, SameButSt
  <2> QED BY <1>2, <2>3, <2>4 DEF Typed, Toggled, SameButSt, st
<1> QED BY <1>1, <1>2

(* What a play saves of its end. *)
Sav == {"sav_msf", "sav_end"}

(* The drive has been told to play; a play of nothing is refused. *)
Played(q, r, from, msf, blk) ==
  /\ Only(q, r, {}, Sav) /\ r.s = q.s
  /\ r.m.sav_msf \in {q.m.sav_msf, msf}
  /\ IF q.d.st # "empty" /\ from < Clip(msf) /\ from < Clip(blk)
     THEN /\ r.ret = TRUE /\ r.m.sav_msf = msf
          /\ r.d.st = "playing" /\ r.d.pos = from /\ r.d.end = Clip(msf)
     ELSE /\ r.ret = FALSE /\ r.d = q.d
          /\ q.d.st # "empty" /\ msf = blk => r.m.sav_msf = q.m.sav_msf

(* A play command, with the end that it saves. *)
LEMMA PlayToIs ==
  ASSUME Sane, NEW q, Typed(q), NEW w \in World,
         NEW from \in Nat, NEW msf \in Int, NEW blk \in Int
  PROVE  Played(q, PlayTo(q, w, from, msf, blk), from, msf, blk)
<1> SUFFICES ASSUME NEW r, r = PlayTo(q, w, from, msf, blk) PROVE Played(q, r, from, msf, blk)
  OBVIOUS
<1> DEFINE M == [q.m EXCEPT !.sav_msf = msf]
           N == [q.m EXCEPT !.sav_msf = msf, !.sav_end = Clip(blk)]
           D == [st |-> "playing", pos |-> from, end |-> Clip(msf)]
<1>0. /\ Clip(msf) \in Block /\ Clip(blk) \in Block /\ Clip(msf) \in Int
      /\ Clip(blk) \in Int
      /\ from < Clip(msf) => from < Leadout /\ from \in Block
  BY Clipped, Discs DEF Block
<1>1. q \in State /\ q.m \in Statics
  BY DEF Typed, State
<1>2. M \in Statics /\ MBut(q.m, M, Sav) /\ M.sav_msf = msf
  BY <1>0, <1>1 DEF Statics, MBut, MFields, Sav
<1>3. N \in Statics /\ MBut(q.m, N, Sav) /\ N.sav_msf = msf
  BY <1>0, <1>1 DEF Statics, MBut, MFields, Sav
<1>4. from < Clip(msf) => D \in Drive /\ D.st = "playing" /\ D.pos = from /\ D.end = Clip(msf)
  BY <1>0 DEF Drive
<1>5. [q EXCEPT !.m.sav_msf = msf] = WithM(q, M)
  BY <1>1 DEF State, WithM
<1>6. [q EXCEPT !.m.sav_msf = msf, !.m.sav_end = Clip(blk)] = WithM(q, N)
  BY <1>1 DEF State, WithM
<1> DEFINE kept == [q EXCEPT !.m.sav_msf = msf, !.m.sav_end = Clip(blk)]
<1>7. [kept EXCEPT !.d = D] = WithD(kept, D)
  BY DEF WithD
<1> DEFINE a == from >= Clip(msf)
           b == from >= Clip(blk)
<1>8. /\ a => r = Ret(q, FALSE)
      /\ ~a /\ b => r = Ret([q EXCEPT !.m.sav_msf = msf], FALSE)
      /\ ~a /\ ~b /\ q.d.st = "empty" => r = Ret(kept, FALSE)
      /\ ~a /\ ~b /\ q.d.st # "empty" => r = Ret([kept EXCEPT !.d = D], TRUE)
  <2>1. q.d.st # "empty" <=> Takes(q, w, "play")
    BY Taken DEF Command
  <2>2. ASSUME a PROVE r = Ret(q, FALSE)
    BY <2>2 DEF PlayTo
  <2>3. ASSUME ~a, b PROVE r = Ret([q EXCEPT !.m.sav_msf = msf], FALSE)
    BY <2>3 DEF PlayTo
  <2>4. ASSUME ~a, ~b, q.d.st = "empty" PROVE r = Ret(kept, FALSE)
    BY <2>1, <2>4 DEF PlayTo
  <2>5. ASSUME ~a, ~b, q.d.st # "empty" PROVE r = Ret([kept EXCEPT !.d = D], TRUE)
    BY <2>1, <2>5 DEF PlayTo
  <2> QED BY <2>2, <2>3, <2>4, <2>5
<1>9. (a <=> ~ (from < Clip(msf))) /\ (b <=> ~ (from < Clip(blk)))
  BY <1>0
<1> HIDE DEF M, N, D, kept, a, b
<1>10. /\ WithM(q, M) \in State /\ WithM(q, M).s = q.s /\ WithM(q, M).m = M
       /\ WithM(q, M).d = q.d /\ WithM(q, M).app = q.app
  BY <1>1, <1>2, WithMIs
<1>11. /\ WithM(q, N) \in State /\ WithM(q, N).s = q.s /\ WithM(q, N).m = N
       /\ WithM(q, N).d = q.d /\ WithM(q, N).app = q.app
  BY <1>1, <1>3, WithMIs
<1>c1. CASE a
  BY <1>0, <1>1, <1>c1, <1>8, <1>9, RetIs DEF Typed, Played, Only, SBut, MBut
<1>c2. CASE ~a /\ b
  <2>1. r = Ret(WithM(q, M), FALSE)
    BY <1>5, <1>8, <1>c2
  <2>2. /\ r \in State /\ r.s = q.s /\ r.m = M /\ r.d = q.d /\ r.app = q.app
        /\ r.ret = FALSE
    BY <1>10, <2>1, RetIs
  <2> QED BY <1>0, <1>2, <1>c2, <1>9, <2>2 DEF Typed, Played, Only, SBut
<1>c3. CASE ~a /\ ~b /\ q.d.st = "empty"
  <2>1. r = Ret(WithM(q, N), FALSE)
    BY <1>6, <1>8, <1>c3 DEF kept
  <2>2. /\ r \in State /\ r.s = q.s /\ r.m = N /\ r.d = q.d /\ r.app = q.app
        /\ r.ret = FALSE
    BY <1>11, <2>1, RetIs
  <2> QED BY <1>0, <1>3, <1>c3, <1>9, <2>2 DEF Typed, Played, Only, SBut
<1>c4. CASE ~a /\ ~b /\ q.d.st # "empty"
  <2>1. r = Ret(WithD(WithM(q, N), D), TRUE)
    BY <1>6, <1>7, <1>8, <1>c4 DEF kept
  <2> DEFINE x == WithD(WithM(q, N), D)
  <2>a. x \in State /\ x.s = q.s /\ x.m = N /\ x.d = D /\ x.app = q.app
    BY <1>11, <1>4, <1>9, <1>c4, WithDIs
  <2> HIDE DEF x
  <2>2. /\ r \in State /\ r.s = q.s /\ r.m = N /\ r.d = D /\ r.app = q.app
        /\ r.ret = TRUE
    BY <2>a, <2>1, RetIs DEF x
  <2> QED BY <1>0, <1>3, <1>4, <1>9, <1>c4, <2>2 DEF Typed, Played, Only, SBut
<1> QED BY <1>0, <1>c1, <1>c2, <1>c3, <1>c4

-----------------------------------------------------------------------------
(* The poll timer. *)

(* Other values of both curstat_t and the statics. *)
WithSM(q, S, M) == [q EXCEPT !.s = S, !.m = M]

(* They are typed, and the drive is left alone. *)
LEMMA WithSMIs ==
  ASSUME NEW q, Typed(q), NEW S \in Curstat, NEW M \in Statics
  PROVE  /\ Typed(WithSM(q, S, M)) /\ WithSM(q, S, M).app = q.app
         /\ WithSM(q, S, M).ret = q.ret /\ WithSM(q, S, M).s = S
         /\ WithSM(q, S, M).m = M /\ WithSM(q, S, M).d = q.d
BY DEF Typed, State, WithSM

(* The types of the parts of a state. *)
LEMMA Parts ==
  ASSUME NEW q, Typed(q)
  PROVE  /\ q \in State /\ q.s \in Curstat /\ q.m \in Statics /\ q.d \in Drive
         /\ q.ret \in BOOLEAN
BY DEF Typed, State

(* The poll is on, with a timer of its own (in the daemon, without one). *)
StatPollStarted(q, r) ==
  /\ Only(q, r, {}, {"stat_polling", "stat_id", "stray"}) /\ r.d = q.d
  /\ r.ret = q.ret
  /\ r.m.stat_polling = TRUE
  /\ IF q.app = "xmcd" THEN r.m.stat_id = TRUE
     ELSE r.m.stat_id = q.m.stat_id /\ r.m.stray = q.m.stray

(* A timer is set. *)
LEMMA AddStatTimerIs ==
  ASSUME NEW q, Typed(q), q.m.stat_polling
  PROVE  StatPollStarted(q, AddStatTimer(q))
<1> SUFFICES ASSUME NEW r, r = AddStatTimer(q) PROVE StatPollStarted(q, r)
  OBVIOUS
<1>1. CASE q.app = "xmcd"
  <2> DEFINE M == [q.m EXCEPT !.stray = IF q.m.stat_id THEN Lesser(@ + 1, MaxStray) ELSE @,
                              !.stat_id = TRUE]
  <2>1. /\ M \in Statics /\ MBut(q.m, M, {"stat_polling", "stat_id", "stray"})
        /\ M.stat_id = TRUE /\ M.stat_polling = q.m.stat_polling
    <3>1. (IF q.m.stat_id THEN Lesser(q.m.stray + 1, MaxStray) ELSE q.m.stray) \in 0..MaxStray
      BY Parts, Blks DEF Statics, Lesser
    <3> QED BY <3>1, Parts, ZenonT(30) DEF Statics, MBut, MFields
  <2>2. r = WithSM(q, q.s, M)
    BY <1>1, Parts DEF AddStatTimer, WithSM, State, Typed
  <2>3. SBut(q.s, q.s, {})
    BY DEF SBut
  <2> HIDE DEF M
  <2>4. /\ Typed(r) /\ r.app = q.app /\ r.s = q.s /\ r.m = M /\ r.d = q.d
        /\ r.ret = q.ret
    BY <2>1, <2>2, WithSMIs, Parts
  <2> QED BY <1>1, <2>1, <2>3, <2>4 DEF StatPollStarted, Only
<1>2. CASE q.app = "cda"
  <2>1. r = q
    BY <1>2 DEF AddStatTimer
  <2> QED BY <1>2, <2>1, Parts
             DEF StatPollStarted, Only, SBut, MBut, MFields, Statics
<1> QED BY <1>1, <1>2, Parts DEF State

(* slioc_start_stat_poll. *)
LEMMA StartStatPollIs ==
  ASSUME NEW q, Typed(q)
  PROVE  StatPollStarted(q, StartStatPoll(q))
<1> DEFINE M == [q.m EXCEPT !.stat_polling = TRUE]
           x == [q EXCEPT !.m.stat_polling = TRUE]
<1>1. /\ M \in Statics /\ MBut(q.m, M, {"stat_polling"})
      /\ M.stat_polling = TRUE
  BY Parts DEF Statics, MBut, MFields
<1>2. x = WithSM(q, q.s, M)
  BY Parts DEF WithSM, State
<1>3. SBut(q.s, q.s, {})
  BY DEF SBut
<1> HIDE DEF M, x
<1>4. /\ Only(q, x, {}, {"stat_polling"}) /\ x.d = q.d /\ x.ret = q.ret
      /\ x.m.stat_polling = TRUE
  BY <1>1, <1>2, <1>3, WithSMIs, Parts DEF Only
<1>5. StatPollStarted(x, AddStatTimer(x))
  BY <1>4, AddStatTimerIs DEF Only
<1>6. StartStatPoll(q) = AddStatTimer(x)
  BY DEF StartStatPoll, x
<1> HIDE DEF x
<1> QED BY <1>4, <1>5, <1>6
           DEF StatPollStarted, Only, SBut, SFields, MBut, MFields

(* The poll is off; a timer that nobody knows of stays. *)
StatPollStopped(q, r) ==
  /\ Only(q, r, {}, {"stat_polling", "stat_id"}) /\ r.d = q.d /\ r.ret = q.ret
  /\ r.m.stat_polling = FALSE
  /\ r.m.stat_id = (q.m.stat_id /\ ~ q.m.stat_polling)

(* slioc_stop_stat_poll. *)
LEMMA StopStatPollIs ==
  ASSUME NEW q, Typed(q)
  PROVE  StatPollStopped(q, StopStatPoll(q))
<1> SUFFICES ASSUME NEW r, r = StopStatPoll(q) PROVE StatPollStopped(q, r)
  OBVIOUS
<1>3. SBut(q.s, q.s, {})
  BY DEF SBut
<1>1. CASE q.m.stat_polling
  <2> DEFINE M == [q.m EXCEPT !.stat_polling = FALSE, !.stat_id = FALSE]
  <2>1. /\ M \in Statics /\ MBut(q.m, M, {"stat_polling", "stat_id"})
        /\ M.stat_id = FALSE /\ M.stat_polling = FALSE
    BY Parts, ZenonT(30) DEF Statics, MBut, MFields
  <2>2. r = WithSM(q, q.s, M)
    BY <1>1, Parts DEF StopStatPoll, WithSM, State
  <2> HIDE DEF M
  <2>4. /\ Typed(r) /\ r.app = q.app /\ r.s = q.s /\ r.m = M /\ r.d = q.d
        /\ r.ret = q.ret
    BY <2>1, <2>2, WithSMIs, Parts
  <2> QED BY <1>1, <1>3, <2>1, <2>4 DEF StatPollStopped, Only
<1>2. CASE ~q.m.stat_polling
  <2>1. r = q
    BY <1>2 DEF StopStatPoll
  <2> QED BY <1>2, <1>3, <2>1, Parts DEF StatPollStopped, Only, MBut, Statics
<1> QED BY <1>1, <1>2

-----------------------------------------------------------------------------
(* What a stop, an ejection and the absence of a disc reset. *)

(* Block 0 is a place. *)
LEMMA Zero == 0 \in Block /\ 0 \in Int /\ 0 \in Nat
BY Discs DEF Block

(* It is a list of tracks. *)
LEMMA NilIs == Nil \in Seq(Track) /\ Nil = <<>>
BY DEF Nil

(* What has not changed has not changed but for F. *)
LEMMA SameM ==
  ASSUME NEW m, NEW F
  PROVE  MBut(m, m, F)
BY DEF MBut

(* The same for curstat_t. *)
LEMMA SameS ==
  ASSUME NEW s, NEW F
  PROVE  SBut(s, s, F)
BY DEF SBut

(* There is no list any more. *)
Cleared(q, r) ==
  /\ Only(q, r, {"plan", "order", "prog_cnt", "program"}, {}) /\ r.d = q.d
  /\ r.ret = q.ret
  /\ r.s.plan = Nil /\ r.s.order = Nil /\ r.s.prog_cnt = 0
  /\ r.s.program = FALSE

(* dbprog_progclear. *)
LEMMA ProgClearIs ==
  ASSUME NEW q, Typed(q)
  PROVE  Cleared(q, ProgClear(q))
<1> SUFFICES ASSUME NEW r, r = ProgClear(q) PROVE Cleared(q, r)
  OBVIOUS
<1> DEFINE S == [q.s EXCEPT !.plan = Nil, !.order = Nil, !.prog_cnt = 0, !.program = FALSE]
<1>1. S \in Curstat
  BY Parts, NilIs, ZenonT(30) DEF Curstat
<1>2. SBut(q.s, S, {"plan", "order", "prog_cnt", "program"})
  BY Parts DEF Curstat, SBut, SFields
<1>2a. S.plan = Nil /\ S.order = Nil /\ S.prog_cnt = 0 /\ S.program = FALSE
  BY Parts DEF Curstat
<1>3. r = WithSM(q, S, q.m)
  BY Parts DEF ProgClear, WithSM, State, Nil
<1> HIDE DEF S
<1>4. /\ Typed(r) /\ r.app = q.app /\ r.s = S /\ r.m = q.m /\ r.d = q.d
      /\ r.ret = q.ret
  BY <1>1, <1>3, WithSMIs, Parts
<1> QED BY <1>2, <1>2a, <1>4, SameM DEF Cleared, Only

(* Nothing is being played; a list of one track is gone. *)
Reset(q, r) ==
  /\ Only(q, r, {"cur_trk", "pos", "off", "plan", "order", "prog_cnt", "program", "onetrk"}, {})
  /\ r.d = q.d /\ r.ret = q.ret
  /\ r.s.cur_trk = 0 /\ r.s.pos = 0 /\ r.s.off = 0 /\ r.s.prog_cnt = 0
  /\ r.s.onetrk = FALSE
  /\ r.s.program = (q.s.program /\ ~ q.s.onetrk)
  /\ IF q.s.onetrk THEN r.s.plan = Nil /\ r.s.order = Nil
     ELSE r.s.plan = q.s.plan /\ r.s.order = q.s.order

(* di_reset_curstat, the disc staying. *)
LEMMA ResetCurstatIs ==
  ASSUME NEW q, Typed(q)
  PROVE  Reset(q, ResetCurstat(q))
<1> SUFFICES ASSUME NEW r, r = ResetCurstat(q) PROVE Reset(q, r)
  OBVIOUS
<1> DEFINE S == [q.s EXCEPT !.cur_trk = 0, !.pos = 0, !.off = 0, !.prog_cnt = 0, !.onetrk = FALSE]
           x == [q EXCEPT !.s.cur_trk = 0, !.s.pos = 0, !.s.off = 0, !.s.prog_cnt = 0,
                          !.s.onetrk = FALSE]
<1>1. S \in Curstat
  BY Parts, Zero DEF Curstat
<1>2. /\ SBut(q.s, S, {"cur_trk", "pos", "off", "prog_cnt", "onetrk"})
      /\ S.cur_trk = 0 /\ S.pos = 0 /\ S.off = 0 /\ S.prog_cnt = 0
      /\ S.onetrk = FALSE
  BY Parts DEF Curstat, SBut, SFields
<1>3. x = WithSM(q, S, q.m)
  BY Parts DEF WithSM, State
<1>4. r = IF q.s.onetrk THEN ProgClear(x) ELSE x
  BY DEF ResetCurstat
<1> HIDE DEF S, x
<1>5. /\ Typed(x) /\ x.app = q.app /\ x.s = S /\ x.m = q.m /\ x.d = q.d
      /\ x.ret = q.ret
  BY <1>1, <1>3, WithSMIs, Parts
<1>6. q.s.program \in BOOLEAN /\ q.s.onetrk \in BOOLEAN
  BY Parts DEF Curstat
<1>7. CASE q.s.onetrk
  <2>1. Cleared(x, r)
    BY <1>4, <1>5, <1>7, ProgClearIs
  <2>2. SBut(q.s, r.s, {"cur_trk", "pos", "off", "plan", "order", "prog_cnt", "program", "onetrk"})
    BY <1>2, <1>5, <2>1 DEF Cleared, Only, SBut, SFields
  <2>3. r.s.cur_trk = 0 /\ r.s.pos = 0 /\ r.s.off = 0 /\ r.s.onetrk = FALSE
    BY <1>2, <1>5, <2>1 DEF Cleared, Only, SBut, SFields
  <2>4. /\ MBut(q.m, r.m, {}) /\ Typed(r) /\ r.app = q.app /\ r.d = q.d
        /\ r.ret = q.ret
    BY <1>5, <2>1 DEF Cleared, Only
  <2> QED BY <1>6, <1>7, <2>1, <2>2, <2>3, <2>4 DEF Reset, Only, Cleared
<1>8. CASE ~q.s.onetrk
  <2>1. /\ r.s = S /\ r.m = q.m /\ r.d = q.d /\ r.app = q.app /\ r.ret = q.ret
        /\ Typed(r)
    BY <1>4, <1>5, <1>8
  <2>2. SBut(q.s, S, {"cur_trk", "pos", "off", "plan", "order", "prog_cnt", "program", "onetrk"})
    BY <1>2 DEF SBut, SFields
  <2>3. S.program = q.s.program /\ S.plan = q.s.plan /\ S.order = q.s.order
    BY <1>2 DEF SBut, SFields
  <2>4. r.s.program = (q.s.program /\ ~ q.s.onetrk)
    BY <1>6, <1>8, <2>1, <2>3
  <2>5. Only(q, r, {"cur_trk", "pos", "off", "plan", "order", "prog_cnt", "program", "onetrk"}, {})
    BY <2>1, <2>2, SameM DEF Only
  <2> QED BY <1>2, <1>8, <2>1, <2>3, <2>4, <2>5 DEF Reset
<1> QED BY <1>7, <1>8

(* What belongs to a disc. *)
DiscFields == {"mode", "segplay", "cur_trk", "pos", "off", "plan", "order", "prog_cnt",
               "program", "onetrk"}

(* It is all reset. *)
NoDisc(q, r) ==
  /\ r.s.cur_trk = 0 /\ r.s.pos = 0 /\ r.s.off = 0 /\ r.s.prog_cnt = 0
  /\ r.s.onetrk = FALSE
  /\ r.s.program = FALSE /\ r.s.plan = Nil /\ r.s.order = Nil
  /\ r.s.mode = "NODISC" /\ r.s.segplay = "NONE"

(* di_reset_curstat without a disc. *)
LEMMA ResetDiscIs ==
  ASSUME NEW q, Typed(q), NEW r, r = ResetDisc(q)
  PROVE  /\ Only(q, r, DiscFields, {}) /\ NoDisc(q, r) /\ r.d = q.d
         /\ r.ret = q.ret
<1> DEFINE a == ResetCurstat(q)
           b == ProgClear(a)
           S == [b.s EXCEPT !.mode = "NODISC", !.segplay = "NONE"]
<1>1. Reset(q, a)
  BY ResetCurstatIs
<1> HIDE DEF a
<1>2. Cleared(a, b)
  BY <1>1, ProgClearIs DEF Reset, Only
<1>3. r = [b EXCEPT !.s.mode = "NODISC", !.s.segplay = "NONE"]
  BY DEF ResetDisc, a
<1> HIDE DEF b
<1>4. Typed(b)
  BY <1>2 DEF Cleared, Only
<1>5. /\ S \in Curstat /\ SBut(b.s, S, {"mode", "segplay"}) /\ S.mode = "NODISC"
      /\ S.segplay = "NONE"
  BY <1>4, Parts DEF Curstat, SBut, SFields
<1>6. r = WithSM(b, S, b.m)
  BY <1>3, <1>4, Parts DEF WithSM, State
<1> HIDE DEF S
<1>7. /\ Typed(r) /\ r.app = b.app /\ r.s = S /\ r.m = b.m /\ r.d = b.d
      /\ r.ret = b.ret
  BY <1>4, <1>5, <1>6, WithSMIs, Parts
<1>8. b.app = q.app /\ b.d = q.d /\ b.ret = q.ret
  BY <1>1, <1>2 DEF Cleared, Reset, Only
<1>9. SBut(q.s, S, DiscFields) /\ MBut(q.m, b.m, {})
  BY <1>1, <1>2, <1>5
     DEF Cleared, Reset, Only, SBut, SFields, MBut, MFields, DiscFields
<1>10. NoDisc(q, r)
  BY <1>1, <1>2, <1>5, <1>7 DEF Cleared, Reset, Only, SBut, SFields, NoDisc
<1> QED BY <1>7, <1>8, <1>9, <1>10 DEF Only

(* What is kept for an unreadable block. *)
Forgotten == {"sav_end", "sav_msf", "errcnt", "errblk"}

(* It is forgotten. *)
Forgot(q, r) ==
  Only(q, r, {}, Forgotten) /\ r.d = q.d /\ r.ret = q.ret /\ r.m.sav_msf = 0

(* The end of a play. *)
LEMMA ForgetEndIs ==
  ASSUME NEW q, Typed(q)
  PROVE  Forgot(q, ForgetEnd(q))
<1> SUFFICES ASSUME NEW r, r = ForgetEnd(q) PROVE Forgot(q, r)
  OBVIOUS
<1> DEFINE M == [q.m EXCEPT !.sav_end = 0, !.sav_msf = 0, !.errcnt = 0, !.errblk = 0]
<1>1. M \in Statics
  BY Parts, Zero, ZenonT(30) DEF Statics
<1>2. MBut(q.m, M, Forgotten) /\ M.sav_msf = 0
  BY Parts DEF Statics, MBut, MFields, Forgotten
<1>3. r = WithSM(q, q.s, M)
  BY Parts DEF ForgetEnd, WithSM, State
<1> HIDE DEF M
<1>4. /\ Typed(r) /\ r.app = q.app /\ r.s = q.s /\ r.m = M /\ r.d = q.d
      /\ r.ret = q.ret
  BY <1>1, <1>3, WithSMIs, Parts
<1> QED BY <1>2, <1>4, SameS DEF Forgot, Only

(* xmcd polls for a disc. *)
LEMMA InsertPollIs ==
  ASSUME NEW q, Typed(q)
  PROVE  LET r == StartInsertPoll(q)
         IN  /\ Only(q, r, {}, {"insert_polling"}) /\ r.d = q.d /\ r.ret = q.ret
             /\ r.m.insert_polling = (q.m.insert_polling \/ q.app = "xmcd")
<1> DEFINE r == StartInsertPoll(q)
           b == q.m.insert_polling \/ q.app = "xmcd"
           M == [q.m EXCEPT !.insert_polling = b]
<1>0. b \in BOOLEAN
  OBVIOUS
<1>1. r = WithSM(q, q.s, M)
  BY Parts DEF StartInsertPoll, WithSM, State
<1> HIDE DEF b
<1>2. M \in Statics /\ MBut(q.m, M, {"insert_polling"}) /\ M.insert_polling = b
  BY <1>0, Parts DEF Statics, MBut, MFields
<1> HIDE DEF M, r
<1>3. /\ Typed(r) /\ r.app = q.app /\ r.s = q.s /\ r.m = M /\ r.d = q.d
      /\ r.ret = q.ret
  BY <1>1, <1>2, WithSMIs, Parts
<1>4. Only(q, r, {}, {"insert_polling"}) /\ r.m.insert_polling = b
  BY <1>2, <1>3, SameS DEF Only
<1> QED BY <1>3, <1>4 DEF r, b

-----------------------------------------------------------------------------
(* Mode, disc_ready and the place on the disc. *)

(* The modes of the player. *)
Modes == {"NODISC", "STOP", "PLAY", "PAUSE", "SAMPLE"}

(* Only the mode changes. *)
LEMMA ModeIs ==
  ASSUME NEW q, Typed(q), NEW m \in Modes
  PROVE  LET r == Mode(q, m)
         IN  /\ Only(q, r, {"mode"}, {}) /\ r.s.mode = m /\ r.d = q.d /\ r.ret = q.ret
             /\ r.m = q.m
<1> DEFINE r == Mode(q, m)
           S == [q.s EXCEPT !.mode = m]
<1>1. S \in Curstat
  BY Parts DEF Curstat, Modes
<1>2. SBut(q.s, S, {"mode"}) /\ S.mode = m
  BY Parts DEF Curstat, SBut, SFields
<1>3. r = WithSM(q, S, q.m)
  BY Parts DEF Mode, WithSM, State
<1> HIDE DEF S, r
<1>4. /\ Typed(r) /\ r.app = q.app /\ r.s = S /\ r.m = q.m /\ r.d = q.d
      /\ r.ret = q.ret
  BY <1>1, <1>3, WithSMIs, Parts
<1>5. Only(q, r, {"mode"}, {}) /\ r.s.mode = m
  BY <1>2, <1>4, SameM DEF Only
<1> QED BY <1>4, <1>5 DEF r

(* Without a disc all is reset; with one the mode is one with a disc. *)
Readied(q, r) ==
  /\ r.d = q.d
  /\ IF q.d.st = "empty"
     THEN /\ Only(q, r, DiscFields, {"insert_polling"}) /\ NoDisc(q, r) /\ r.ret = FALSE
          /\ q.app = "xmcd" => r.m.insert_polling = TRUE
          /\ q.app = "cda" => r.m.insert_polling = q.m.insert_polling
     ELSE /\ Only(q, r, {"mode"}, {}) /\ r.ret = TRUE
          /\ r.s.mode = (IF q.s.mode = "NODISC" THEN "STOP" ELSE q.s.mode)

(* slioc_disc_ready. *)
LEMMA DiscReadyIs ==
  ASSUME NEW q, Typed(q)
  PROVE  Readied(q, DiscReady(q))
<1> SUFFICES ASSUME NEW r, r = DiscReady(q) PROVE Readied(q, r)
  OBVIOUS
<1>1. CASE q.d.st = "empty"
  <2> DEFINE a == ResetDisc(q)
             b == StartInsertPoll(a)
  <2>1. Only(q, a, DiscFields, {}) /\ NoDisc(q, a) /\ a.d = q.d /\ a.ret = q.ret
    BY ResetDiscIs
  <2> HIDE DEF a
  <2>2. /\ Only(a, b, {}, {"insert_polling"}) /\ b.d = a.d /\ b.ret = a.ret
        /\ b.m.insert_polling = (a.m.insert_polling \/ a.app = "xmcd")
    <3>1. Typed(a)
      BY <2>1 DEF Only
    <3> QED BY <3>1, InsertPollIs
  <2>3. r = Ret(b, FALSE)
    BY <1>1 DEF DiscReady, a
  <2> HIDE DEF b
  <2>4. /\ r \in State /\ r.s = b.s /\ r.m = b.m /\ r.d = b.d /\ r.app = b.app
        /\ r.ret = FALSE
        /\ b.d = q.d
    <3>1. b \in State /\ b.d = q.d
      BY <2>1, <2>2 DEF Only, Typed
    <3> QED BY <3>1, <2>3, RetIs
  <2>5. SBut(q.s, r.s, DiscFields) /\ NoDisc(q, r)
    BY <2>1, <2>2, <2>4 DEF Only, SBut, SFields, NoDisc
  <2>6. MBut(q.m, r.m, {"insert_polling"})
    BY <2>1, <2>2, <2>4 DEF Only, MBut, MFields
  <2>7. Typed(r) /\ r.app = q.app
    BY <2>1, <2>2, <2>4 DEF Only, Typed
  <2>8. /\ a.m.insert_polling = q.m.insert_polling /\ a.app = q.app
        /\ q.m.insert_polling \in BOOLEAN
    BY <2>1, Parts DEF Only, MBut, MFields, Statics
  <2>9. (q.app = "xmcd" => r.m.insert_polling = TRUE)
        /\ (q.app = "cda" => r.m.insert_polling = q.m.insert_polling)
    BY <2>2, <2>4, <2>8
  <2> QED BY <1>1, <2>4, <2>5, <2>6, <2>7, <2>9 DEF Readied, Only
<1>2. CASE q.d.st # "empty" /\ q.s.mode = "NODISC"
  <2> DEFINE a == Mode(q, "STOP")
  <2>1. Only(q, a, {"mode"}, {}) /\ a.s.mode = "STOP" /\ a.d = q.d
    BY ModeIs DEF Modes
  <2>2. r = Ret(a, TRUE)
    BY <1>2 DEF DiscReady, Mode
  <2> HIDE DEF a
  <2>3. /\ r \in State /\ r.s = a.s /\ r.m = a.m /\ r.d = a.d /\ r.app = a.app
        /\ r.ret = TRUE
    BY <2>1, <2>2, RetIs, ZenonT(30) DEF Only, Typed
  <2> QED BY <1>2, <2>1, <2>3 DEF Readied, Only, Typed
<1>3. CASE q.d.st # "empty" /\ q.s.mode # "NODISC"
  <2>1. r = Ret(q, TRUE)
    BY <1>3 DEF DiscReady
  <2>2. /\ r \in State /\ r.s = q.s /\ r.m = q.m /\ r.d = q.d /\ r.app = q.app
        /\ r.ret = TRUE
    BY <2>1, RetIs DEF Typed
  <2> QED BY <1>3, <2>2, SameS, SameM DEF Readied, Only, Typed
<1> QED BY <1>1, <1>2, <1>3

(* The place on the disc. *)
PlaceFields == {"cur_trk", "pos", "off"}

(* It is that of the drive. *)
At(q, r) ==
  /\ r.s.pos = q.d.pos /\ r.s.cur_trk \in Track
  /\ Toc[r.s.cur_trk] <= q.d.pos /\ q.d.pos < TrackEnd(r.s.cur_trk)

(* The place is read from the drive, which reports an end or an error      *)
(* once.                                                                   *)
Subq(q, r) ==
  /\ Only(q, r, PlaceFields, {}) /\ At(q, r) /\ r.ret = q.ret /\ r.m = q.m
  /\ r.d.pos = q.d.pos /\ r.d.end = q.d.end
  /\ r.d.st = IF q.d.st \in {"done", "error"} THEN "idle" ELSE q.d.st

(* slioc_rdsubq. *)
LEMMA ReadSubqIs ==
  ASSUME NEW q, Typed(q)
  PROVE  Subq(q, ReadSubq(q))
<1> SUFFICES ASSUME NEW r, r = ReadSubq(q) PROVE Subq(q, r)
  OBVIOUS
<1> DEFINE t == TrackAt(q.d.pos)
           st == IF q.d.st \in {"done", "error"} THEN "idle" ELSE q.d.st
           S == [q.s EXCEPT !.pos = q.d.pos, !.cur_trk = t, !.off = q.d.pos - Toc[t]]
           D == [q.d EXCEPT !.st = st]
           x == WithSM(q, S, q.m)
<1>1. q.d.pos \in 0..Leadout - 1 /\ q.d.pos \in Block /\ q.d.pos \in Nat
  BY Parts, Discs DEF Typed, Drive, Block
<1>2. t \in Track /\ Toc[t] <= q.d.pos /\ q.d.pos < TrackEnd(t)
  BY <1>1, TrackAtBlk
<1>3. r = WithD(x, D)
  BY Parts DEF ReadSubq, WithD, WithSM, State
<1> HIDE DEF t
<1>4. q.d.pos - Toc[t] \in Block
  <2>1. Toc[t] \in Nat
    BY <1>2, TrackBounds
  <2> QED BY <1>1, <1>2, <2>1, Discs DEF Block
<1>5. S \in Curstat
  BY <1>1, <1>2, <1>4, Parts, ZenonT(30) DEF Curstat
<1>6. SBut(q.s, S, PlaceFields) /\ S.pos = q.d.pos /\ S.cur_trk = t
  BY Parts DEF Curstat, SBut, SFields, PlaceFields
<1>7. st \in {"empty", "idle", "playing", "paused", "done", "error"}
  BY Parts DEF Drive
<1> HIDE DEF st
<1>8. D \in Drive /\ D.st = st /\ D.pos = q.d.pos /\ D.end = q.d.end
  BY <1>7, Parts DEF Drive
<1> HIDE DEF S, D
<1>9. /\ Typed(x) /\ x.app = q.app /\ x.s = S /\ x.m = q.m /\ x.d = q.d
      /\ x.ret = q.ret
  BY <1>5, WithSMIs, Parts
<1> HIDE DEF x
<1>10. /\ r \in State /\ r.s = S /\ r.m = q.m /\ r.d = D /\ r.app = q.app
       /\ r.ret = q.ret
  BY <1>3, <1>8, <1>9, WithDIs DEF Typed
<1>11. Typed(r)
  BY <1>8, <1>10 DEF Typed
<1> QED BY <1>2, <1>6, <1>8, <1>10, <1>11, SameM DEF Subq, Only, At, st

-----------------------------------------------------------------------------
(* What a play makes of the state. *)

(* A play with a disc in the drive. *)
Plays(q, r, from, to) ==
  /\ Only(q, r, {}, Sav) /\ r.s = q.s
  /\ IF from < Clip(to)
     THEN /\ r.ret = TRUE /\ r.m.sav_msf = to
          /\ r.d.st = "playing" /\ r.d.pos = from /\ r.d.end = Clip(to)
     ELSE r.ret = FALSE /\ r.d = q.d /\ r.m.sav_msf = q.m.sav_msf

(* slioc_do_playaudio. *)
LEMMA DoPlayaudioIs ==
  ASSUME Sane, NEW q, Typed(q), q.d.st # "empty", NEW w \in World,
         NEW from \in Nat, NEW to \in Int
  PROVE  Plays(q, DoPlayaudio(q, w, from, to), from, to)
<1> SUFFICES ASSUME NEW r, r = DoPlayaudio(q, w, from, to) PROVE Plays(q, r, from, to)
  OBVIOUS
<1>1. r = PlayTo(q, w, from, to, to)
  BY DEF DoPlayaudio
<1>2. Played(q, r, from, to, to)
  BY <1>1, PlayToIs
<1>3. CASE from < Clip(to)
  BY <1>2, <1>3 DEF Played, Plays
<1>4. CASE ~ (from < Clip(to))
  BY <1>2, <1>4 DEF Played, Plays
<1> QED BY <1>3, <1>4

(* One that is paused again at once if the player is. *)
Enters(q, r, from, to) ==
  /\ Only(q, r, {}, Sav) /\ r.s = q.s
  /\ IF from < Clip(to)
     THEN /\ r.ret = TRUE /\ r.m.sav_msf = to /\ r.d.pos = from /\ r.d.end = Clip(to)
          /\ r.d.st = IF q.s.mode = "PAUSE" THEN "paused" ELSE "playing"
     ELSE r.ret = FALSE /\ r.d = q.d /\ r.m.sav_msf = q.m.sav_msf

(* A play that keeps the pause. *)
LEMMA ThenPauseIs ==
  ASSUME Sane, NEW q, Typed(q), q.d.st # "empty", NEW w \in World,
         NEW from \in Nat, NEW to \in Int, q.s.mode = "PAUSE" => from < Clip(to)
  PROVE  Enters(q, ThenPause(DoPlayaudio(q, w, from, to), w), from, to)
<1> DEFINE a == DoPlayaudio(q, w, from, to)
           b == PauseResume(a, w, FALSE)
           r == ThenPause(a, w)
<1>1. Plays(q, a, from, to)
  BY DoPlayaudioIs
<1> HIDE DEF a
<1>2. Typed(a) /\ a.s = q.s /\ a.ret \in BOOLEAN /\ a.app = q.app
  BY <1>1, Parts DEF Plays, Only
<1>3. Toggled(a, b, FALSE)
  BY <1>2, PauseResumeIs
<1>4. r = IF a.s.mode = "PAUSE" THEN Ret(b, a.ret) ELSE a
  BY DEF ThenPause
<1> HIDE DEF b, r
<1>5. CASE q.s.mode # "PAUSE"
  BY <1>1, <1>2, <1>4, <1>5 DEF Plays, Enters, r, a
<1>6. CASE q.s.mode = "PAUSE"
  <2>1. from < Clip(to)
    BY <1>6
  <2>2. /\ a.ret = TRUE /\ a.m.sav_msf = to /\ a.d.st = "playing"
        /\ a.d.pos = from
        /\ a.d.end = Clip(to)
    BY <1>1, <2>1 DEF Plays
  <2>3. r = Ret(b, TRUE)
    BY <1>2, <1>4, <1>6, <2>2
  <2>4. Typed(b) /\ b.s = q.s /\ b.m = a.m /\ b.d.st = "paused" /\ b.d.pos = from /\ b.d.end = Clip(to)
        /\ b.app = q.app
    BY <1>2, <1>3, <2>2 DEF Toggled
  <2>5. /\ r \in State /\ r.s = b.s /\ r.m = b.m /\ r.d = b.d /\ r.app = b.app
        /\ r.ret = TRUE
    BY <2>3, <2>4, RetIs DEF Typed
  <2>6. Typed(r)
    BY <2>4, <2>5 DEF Typed
  <2>7. Only(q, r, {}, Sav)
    BY <1>1, <2>4, <2>5, <2>6, SameS DEF Plays, Only
  <2>8. Enters(q, r, from, to)
    BY <1>6, <2>1, <2>2, <2>4, <2>5, <2>7 DEF Enters
  <2> QED BY <2>8 DEF r, a
<1> QED BY <1>5, <1>6

(* slioc_run_ab. *)
TimerFields == {"stat_polling", "stat_id", "stray"}

(* A segment is played from its start, unless it is too short. *)
AbRun(q, r) ==
  IF q.s.startpos + MinPlayBlks >= q.s.endpos
  THEN Only(q, r, {}, {}) /\ r.ret = FALSE /\ r.d = q.d
  ELSE /\ Only(q, r, {"mode"}, TimerFields \cup Sav) /\ r.ret = TRUE
       /\ r.s.mode = "PLAY" /\ r.m.stat_polling = TRUE
       /\ IF q.app = "xmcd" THEN r.m.stat_id = TRUE
          ELSE r.m.stat_id = q.m.stat_id /\ r.m.stray = q.m.stray
       /\ r.m.sav_msf = q.s.endpos /\ r.d.st = "playing"
       /\ r.d.pos = q.s.startpos /\ r.d.end = Clip(q.s.endpos)

(* slioc_run_ab. *)
LEMMA RunAbIs ==
  ASSUME Sane, NEW q, Typed(q), q.d.st # "empty", NEW w \in World
  PROVE  AbRun(q, RunAb(q, w))
<1> SUFFICES ASSUME NEW r, r = RunAb(q, w) PROVE AbRun(q, r)
  OBVIOUS
<1> DEFINE c == q.s.startpos + MinPlayBlks >= q.s.endpos
<1>0. q.s.startpos \in Nat /\ q.s.endpos \in Nat /\ q.s.endpos <= Leadout
  <2>1. q.s.startpos \in Block /\ q.s.endpos \in Block
    BY Parts DEF Curstat
  <2> QED BY <2>1, Discs DEF Block
<1> HIDE DEF c
<1>1. CASE c
  <2>1. r = Ret(q, FALSE)
    BY <1>1 DEF RunAb, c
  <2>2. /\ r \in State /\ r.s = q.s /\ r.m = q.m /\ r.d = q.d /\ r.app = q.app
        /\ r.ret = FALSE
    BY <2>1, RetIs DEF Typed
  <2> QED BY <1>1, <2>2, SameS, SameM DEF AbRun, Only, Typed, c
<1>2. CASE ~c
  <2> DEFINE a == Mode(q, "PLAY")
             b == StartStatPoll(a)
             from == q.s.startpos
             to == q.s.endpos
  <2>1. Only(q, a, {"mode"}, {}) /\ a.s.mode = "PLAY" /\ a.d = q.d /\ a.m = q.m
    BY ModeIs DEF Modes
  <2>2. r = DoPlayaudio(b, w, from, to)
    BY <1>2 DEF RunAb, Mode, c
  <2> HIDE DEF a
  <2>3. Typed(a)
    BY <2>1 DEF Only
  <2>4. StatPollStarted(a, b)
    BY <2>3, StartStatPollIs
  <2> HIDE DEF b
  <2>5. Typed(b) /\ b.d = q.d /\ b.app = q.app
    BY <2>1, <2>4 DEF StatPollStarted, Only
  <2>6. Plays(b, r, from, to)
    BY <1>0, <2>2, <2>5, DoPlayaudioIs
  <2>7. from < Clip(to)
    <3>1. from + MinPlayBlks < to
      BY <1>0, <1>2, Blks DEF c
    <3> QED BY <1>0, <3>1, ClipShort
  <2>8. /\ r.ret = TRUE /\ r.m.sav_msf = to /\ r.s = b.s
        /\ r.d.st = "playing" /\ r.d.pos = from /\ r.d.end = Clip(to)
    BY <2>6, <2>7 DEF Plays
  <2>9. SBut(q.s, r.s, {"mode"}) /\ r.s.mode = "PLAY"
    BY <2>1, <2>4, <2>8 DEF StatPollStarted, Only, SBut, SFields
  <2>10. MBut(q.m, r.m, TimerFields \cup Sav)
    BY <2>1, <2>4, <2>6
       DEF StatPollStarted, Plays, Only, MBut, MFields, TimerFields, Sav
  <2>11. /\ r.m.stat_polling = TRUE
         /\ IF q.app = "xmcd" THEN r.m.stat_id = TRUE
            ELSE r.m.stat_id = q.m.stat_id /\ r.m.stray = q.m.stray
    BY <2>1, <2>4, <2>6 DEF StatPollStarted, Plays, Only, MBut, MFields, Sav
  <2>12. Only(q, r, {"mode"}, TimerFields \cup Sav)
    BY <2>5, <2>6, <2>9, <2>10 DEF Plays, Only
  <2> QED BY <1>2, <2>8, <2>9, <2>11, <2>12 DEF AbRun, c
<1> QED BY <1>1, <1>2

(* The next track is sampled, or all have been. *)
SampleRun(q, r) ==
  /\ Only(q, r, {}, {"next_sam"} \cup Sav)
  /\ IF r.ret THEN /\ r.m.next_sam = q.m.next_sam + 1 /\ q.m.next_sam + 1 \in Track
                   /\ \/ r.d = q.d /\ r.m.sav_msf = q.m.sav_msf
                      \/ r.d.st = "playing" /\ r.d.end = Clip(r.m.sav_msf)
              ELSE r.d = q.d /\ r.m.sav_msf = q.m.sav_msf

(* slioc_run_sample. *)
LEMMA RunSampleIs ==
  ASSUME Sane, NEW q, Typed(q), q.d.st # "empty", NEW w \in World
  PROVE  SampleRun(q, RunSample(q, w))
<1> SUFFICES ASSUME NEW r, r = RunSample(q, w) PROVE SampleRun(q, r)
  OBVIOUS
<1> DEFINE t == q.m.next_sam + 1
           x == IF t \notin Track THEN Ret(q, FALSE)
                ELSE IF t \in DataTracks THEN Ret(q, TRUE)
                ELSE DoPlayaudio(q, w, Toc[t], Toc[t] + SampleBlks)
<1>1. r = [x EXCEPT !.m.next_sam = IF x.ret THEN @ + 1 ELSE 0]
  BY DEF RunSample
<1>0. q.m.next_sam \in Nat
  BY Parts DEF Statics
<1>2. /\ Only(q, x, {}, Sav) /\ x.ret \in BOOLEAN
      /\ x.ret => /\ t \in Track
                  /\ \/ x.d = q.d /\ x.m.sav_msf = q.m.sav_msf
                     \/ x.d.st = "playing" /\ x.d.end = Clip(x.m.sav_msf)
      /\ ~x.ret => x.d = q.d /\ x.m.sav_msf = q.m.sav_msf
  <2>1. CASE t \notin Track
    <3>1. x = Ret(q, FALSE)
      BY <2>1
    <3> HIDE DEF x
    <3>2. /\ x \in State /\ x.s = q.s /\ x.m = q.m /\ x.d = q.d /\ x.app = q.app
          /\ x.ret = FALSE
      BY <3>1, RetIs DEF Typed
    <3> QED BY <3>2, SameS, SameM DEF Only, Typed
  <2>2. CASE t \in Track /\ t \in DataTracks
    <3>1. x = Ret(q, TRUE)
      BY <2>2
    <3> HIDE DEF x
    <3>2. /\ x \in State /\ x.s = q.s /\ x.m = q.m /\ x.d = q.d /\ x.app = q.app
          /\ x.ret = TRUE
      BY <3>1, RetIs DEF Typed
    <3> QED BY <2>2, <3>2, SameS, SameM DEF Only, Typed
  <2>3. CASE t \in Track /\ t \notin DataTracks
    <3>1. x = DoPlayaudio(q, w, Toc[t], Toc[t] + SampleBlks)
      BY <2>3
    <3> HIDE DEF x
    <3>2. Toc[t] \in Nat /\ Toc[t] + SampleBlks \in Int
      BY <2>3, TrackBounds, Blks
    <3>3. Plays(q, x, Toc[t], Toc[t] + SampleBlks)
      BY <3>1, <3>2, DoPlayaudioIs
    <3>4. CASE Toc[t] < Clip(Toc[t] + SampleBlks)
      BY <2>3, <3>3, <3>4 DEF Plays
    <3>5. CASE ~(Toc[t] < Clip(Toc[t] + SampleBlks))
      BY <2>3, <3>3, <3>5 DEF Plays
    <3> QED BY <3>4, <3>5
  <2> QED BY <2>1, <2>2, <2>3
<1> HIDE DEF x
<1> DEFINE n == IF x.ret THEN x.m.next_sam + 1 ELSE 0
           M == [x.m EXCEPT !.next_sam = n]
<1>3. Typed(x) /\ x.m.next_sam = q.m.next_sam
  BY <1>2 DEF Only, MBut, MFields, Sav
<1>4. n \in Nat
  BY <1>0, <1>3
<1>5. r = WithSM(x, x.s, M)
  BY <1>1, <1>3, Parts DEF WithSM, State
<1> HIDE DEF n
<1>6. M \in Statics /\ M.sav_msf = x.m.sav_msf /\ M.next_sam = n
  BY <1>3, <1>4, Parts DEF Statics
<1>7. MBut(x.m, M, {"next_sam"})
  BY <1>3, Parts DEF Statics, MBut, MFields
<1> HIDE DEF M
<1>8. /\ Typed(r) /\ r.app = x.app /\ r.s = x.s /\ r.m = M /\ r.d = x.d
      /\ r.ret = x.ret
  BY <1>3, <1>5, <1>6, WithSMIs, Parts
<1>9. Only(q, r, {}, {"next_sam"} \cup Sav)
  BY <1>2, <1>7, <1>8 DEF Only, MBut, MFields, Sav
<1>10. CASE x.ret
  BY <1>2, <1>3, <1>6, <1>8, <1>9, <1>10 DEF SampleRun, n
<1>11. CASE ~x.ret
  BY <1>2, <1>6, <1>8, <1>9, <1>11 DEF SampleRun
<1> QED BY <1>10, <1>11

-----------------------------------------------------------------------------
(* The list: its order, its entries, the end of the order. *)

(* A list of audio tracks is a list of tracks. *)
LEMMA SeqSub == ASSUME NEW A, NEW B, A \subseteq B, NEW o \in Seq(A) PROVE o \in Seq(B)
<1>1. Len(o) \in Nat /\ o \in [1..Len(o) -> A]
  OBVIOUS
<1>2. o \in [1..Len(o) -> B]
  BY <1>1
<1> QED BY <1>1, <1>2

(* A shuffled order is not empty, and all of it can be heard. *)
LEMMA OrderIs ==
  ASSUME Sane, NEW o \in Orders
  PROVE  /\ o \in Seq(Track) /\ Len(o) \in Nat /\ Len(o) > 0 /\ HasAudio(o)
         /\ \A i \in 1..Len(o) : o[i] \in Audio
<1>1. o \in Seq(Audio) /\ o # <<>>
  BY Blks DEF Sane
<1>2. Len(o) \in Nat /\ \A i \in 1..Len(o) : o[i] \in Audio
  BY <1>1
<1>3. Len(o) > 0
  BY <1>1
<1>4. o \in Seq(Track)
  BY <1>1, Discs, SeqSub
<1>5. HasAudio(o)
  BY <1>2, <1>3 DEF HasAudio
<1> QED BY <1>2, <1>3, <1>4, <1>5

(* What run_prog plays from, and where in it. *)
Ord(q, w)  == IF q.m.new_progshuf /\ q.s.shuffle THEN w.order ELSE q.s.order

From(q)    == IF q.m.new_progshuf THEN 0 ELSE q.s.prog_cnt

(* A new order has nothing that can be heard, ... *)
Mute(q, w) == q.m.new_progshuf /\ ~ HasAudio(Ord(q, w))

(* ... or the order is at its end: there is no next entry. *)
Over(q, w) == Mute(q, w) \/ From(q) >= Len(Ord(q, w))

(* If there is one, it is a track of the order. *)
LEMMA OrdIs ==
  ASSUME Sane, NEW q, Typed(q), NEW w \in World
  PROVE  /\ Ord(q, w) \in Seq(Track) /\ From(q) \in Nat
         /\ Len(Ord(q, w)) \in Nat /\ Mute(q, w) \in BOOLEAN
         /\ Over(q, w) \in BOOLEAN
         /\ ~ Over(q, w) => From(q) + 1 \in 1..Len(Ord(q, w))
                            /\ Ord(q, w)[From(q) + 1] \in Track
<1>1. q.s.order \in Seq(Track) /\ q.s.prog_cnt \in Nat
  BY Parts DEF Curstat
<1>2. w.order \in Seq(Track)
  <2>1. w.order \in Orders
    BY DEF World
  <2> QED BY <2>1, OrderIs
<1>3. Ord(q, w) \in Seq(Track) /\ From(q) \in Nat
  BY <1>1, <1>2 DEF Ord, From
<1>4. Len(Ord(q, w)) \in Nat
  BY <1>3
<1>5. ~ Over(q, w) => From(q) + 1 \in 1..Len(Ord(q, w))
  BY <1>3, <1>4 DEF Over
<1> QED BY <1>3, <1>4, <1>5 DEF Mute, Over

(* A new order is begun, if one is due. *)
Sequenced(q, w, x) ==
  /\ Only(q, x, {"prog_cnt", "order"}, {"new_progshuf"}) /\ x.d = q.d
  /\ x.s.prog_cnt = From(q) /\ x.s.order = Ord(q, w) /\ x.m.new_progshuf = FALSE
  /\ x.ret = ~ Mute(q, w)

(* The beginning of slioc_run_prog. *)
LEMMA NewSequenceIs ==
  ASSUME Sane, NEW q, Typed(q), NEW w \in World
  PROVE  Sequenced(q, w, NewSequence(q, w))
<1> SUFFICES ASSUME NEW x, x = NewSequence(q, w) PROVE Sequenced(q, w, x)
  OBVIOUS
<1>0. Ord(q, w) \in Seq(Track)
  BY OrdIs
<1>1. CASE q.m.new_progshuf
  <2> DEFINE o == Ord(q, w)
             S == [q.s EXCEPT !.prog_cnt = 0, !.order = o]
             M == [q.m EXCEPT !.new_progshuf = FALSE]
             y == [q EXCEPT !.m.new_progshuf = FALSE, !.s.prog_cnt = 0, !.s.order = o]
  <2>1. x = Ret(y, HasAudio(o))
    BY <1>1 DEF NewSequence, Ord
  <2> HIDE DEF o
  <2>2. S \in Curstat /\ S.prog_cnt = 0 /\ S.order = o
    BY <1>0, Parts DEF Curstat, o
  <2>3. SBut(q.s, S, {"prog_cnt", "order"})
    BY Parts DEF Curstat, SBut, SFields
  <2>4. /\ M \in Statics /\ MBut(q.m, M, {"new_progshuf"})
        /\ M.new_progshuf = FALSE
    BY Parts, ZenonT(30) DEF Statics, MBut, MFields
  <2>5. y = WithSM(q, S, M)
    BY Parts DEF WithSM, State
  <2> HIDE DEF S, M, y
  <2>6. Typed(y) /\ y.app = q.app /\ y.s = S /\ y.m = M /\ y.d = q.d
    BY <2>2, <2>4, <2>5, WithSMIs
  <2>7. HasAudio(o) \in BOOLEAN
    BY DEF HasAudio
  <2>8. /\ x \in State /\ x.s = S /\ x.m = M /\ x.d = q.d /\ x.app = q.app
        /\ x.ret = HasAudio(o)
    BY <2>1, <2>6, <2>7, RetIs DEF Typed
  <2>9. Only(q, x, {"prog_cnt", "order"}, {"new_progshuf"})
    BY <2>3, <2>4, <2>6, <2>8 DEF Only, Typed
  <2>10. From(q) = 0 /\ Mute(q, w) = ~ HasAudio(o)
    BY <1>1, <2>7 DEF From, Mute, o
  <2>11. x.ret = ~ Mute(q, w)
    BY <2>7, <2>8, <2>10
  <2> QED BY <2>2, <2>4, <2>8, <2>9, <2>10, <2>11 DEF Sequenced, o
<1>2. CASE ~ q.m.new_progshuf
  <2>1. x = Ret(q, TRUE)
    BY <1>2 DEF NewSequence
  <2>2. /\ x \in State /\ x.s = q.s /\ x.m = q.m /\ x.d = q.d /\ x.app = q.app
        /\ x.ret = TRUE
    BY <2>1, RetIs DEF Typed
  <2>3. From(q) = q.s.prog_cnt /\ Ord(q, w) = q.s.order /\ Mute(q, w) = FALSE
    BY <1>2 DEF From, Ord, Mute
  <2>4. q.m.new_progshuf = FALSE
    BY <1>2, Parts DEF Statics
  <2>5. Only(q, x, {"prog_cnt", "order"}, {"new_progshuf"})
    BY <2>2, SameS, SameM DEF Only, Typed
  <2> QED BY <2>2, <2>3, <2>4, <2>5 DEF Sequenced
<1> QED BY <1>1, <1>2

(* What an entry of the list sounds like: nothing, if it holds data. *)
EntryPlays(q, r, t) ==
  IF t \in DataTracks THEN r.ret = TRUE /\ r.d = q.d /\ r.m.sav_msf = q.m.sav_msf
  ELSE IF Toc[t] + q.s.off < Clip(TrackEnd(t))
  THEN /\ r.ret = TRUE /\ r.m.sav_msf = TrackEnd(t)
       /\ r.d.pos = Toc[t] + q.s.off /\ r.d.end = Clip(TrackEnd(t))
       /\ r.d.st = IF q.s.mode = "PAUSE" THEN "paused" ELSE "playing"
  ELSE r.ret = FALSE /\ r.d = q.d /\ r.m.sav_msf = q.m.sav_msf

(* What the next entry changes. *)
EntryFields == {"prog_cnt", "cur_trk", "pos", "mode"}

(* It is counted, shown and played. *)
EntryRun(q, r, t) ==
  /\ Only(q, r, EntryFields, Sav)
  /\ r.s.prog_cnt = q.s.prog_cnt + 1 /\ r.s.cur_trk = t
  /\ r.s.mode = IF q.s.mode = "PAUSE" THEN "PAUSE" ELSE "PLAY"
  /\ EntryPlays(q, r, t)

(* One entry of the list. *)
LEMMA PlayEntryIs ==
  ASSUME Sane, NEW q, Typed(q), q.d.st # "empty", NEW w \in World,
         NEW t \in Track,
         q.s.mode = "PAUSE" => q.s.off = 0
  PROVE  EntryRun(q, PlayEntry(q, w, t), t)
<1> SUFFICES ASSUME NEW r, r = PlayEntry(q, w, t) PROVE EntryRun(q, r, t)
  OBVIOUS
<1> DEFINE pos == Lesser(Toc[t] + q.s.off, Leadout)
           mode == IF q.s.mode = "PAUSE" THEN "PAUSE" ELSE "PLAY"
           S == [q.s EXCEPT !.prog_cnt = @ + 1, !.cur_trk = t, !.pos = pos, !.mode = mode]
           x == [q EXCEPT !.s.prog_cnt = @ + 1, !.s.cur_trk = t, !.s.pos = pos,
                          !.s.mode = IF @ = "PAUSE" THEN @ ELSE "PLAY"]
           a == DoPlayaudio(x, w, Toc[t] + q.s.off, TrackEnd(t))
<1>1. r = IF t \in DataTracks THEN Ret(x, TRUE) ELSE ThenPause(a, w)
  BY DEF PlayEntry
<1>2. q.s.off \in Block /\ q.s.prog_cnt \in Nat /\ q.s.mode \in Modes
  BY Parts DEF Curstat, Modes
<1>3. /\ Toc[t] \in Nat /\ TrackEnd(t) \in Int /\ q.s.off \in Nat
      /\ Leadout \in Nat
  BY <1>2, TrackBounds, Discs DEF Block
<1>4. pos \in Block
  BY <1>3 DEF Lesser, Block
<1>5. x = WithSM(q, S, q.m)
  BY Parts DEF WithSM, State
<1> HIDE DEF pos
<1>6. mode \in Modes
  BY DEF Modes
<1>7. mode = "PAUSE" <=> q.s.mode = "PAUSE"
  OBVIOUS
<1> HIDE DEF mode
<1>8. S \in Curstat
  <2>1. q.s.prog_cnt + 1 \in Nat /\ t \in {0} \cup Track /\ q.s \in Curstat
    BY <1>2, Parts
  <2>2. mode \in {"NODISC", "STOP", "PLAY", "PAUSE", "SAMPLE"}
    BY <1>6 DEF Modes
  <2> QED BY <2>1, <2>2, <1>4 DEF Curstat
<1>9. /\ SBut(q.s, S, EntryFields) /\ S.prog_cnt = q.s.prog_cnt + 1
      /\ S.cur_trk = t /\ S.mode = mode
  BY Parts DEF Curstat, SBut, SFields, EntryFields
<1> HIDE DEF S, x
<1>10. Typed(x) /\ x.app = q.app /\ x.s = S /\ x.m = q.m /\ x.d = q.d
  BY <1>5, <1>8, WithSMIs, Parts
<1>11. CASE t \in DataTracks
  <2>1. r = Ret(x, TRUE)
    BY <1>1, <1>11
  <2>2. /\ r \in State /\ r.s = S /\ r.m = q.m /\ r.d = q.d /\ r.app = q.app
        /\ r.ret = TRUE
    BY <1>10, <2>1, RetIs, ZenonT(30) DEF Typed
  <2>3. Only(q, r, EntryFields, Sav)
    BY <1>9, <1>10, <2>2, SameM DEF Only, Typed
  <2> QED BY <1>9, <1>11, <2>2, <2>3 DEF EntryRun, EntryPlays, mode
<1>12. CASE t \notin DataTracks
  <2>1. r = ThenPause(DoPlayaudio(x, w, Toc[t] + q.s.off, TrackEnd(t)), w)
    BY <1>1, <1>12
  <2>2. Toc[t] + q.s.off \in Nat
    BY <1>3
  <2>3. x.s.mode = "PAUSE" => Toc[t] + q.s.off < Clip(TrackEnd(t))
    <3>1. Toc[t] < Clip(TrackEnd(t))
      BY LongTrack
    <3>2. x.s.mode = "PAUSE" => q.s.off = 0
      BY <1>7, <1>9, <1>10
    <3> QED BY <1>3, <3>1, <3>2
  <2>4. Enters(x, r, Toc[t] + q.s.off, TrackEnd(t))
    BY <1>3, <1>10, <2>1, <2>2, <2>3, ThenPauseIs
  <2>5. Only(q, r, EntryFields, Sav) /\ r.s = S
    BY <1>9, <1>10, <2>4 DEF Enters, Only
  <2>6. CASE Toc[t] + q.s.off < Clip(TrackEnd(t))
    BY <1>7, <1>9, <1>10, <1>12, <2>4, <2>5, <2>6
       DEF Enters, EntryRun, EntryPlays, mode
  <2>7. CASE ~ (Toc[t] + q.s.off < Clip(TrackEnd(t)))
    BY <1>7, <1>9, <1>10, <1>12, <2>4, <2>5, <2>7
       DEF Enters, EntryRun, EntryPlays, mode
  <2> QED BY <2>6, <2>7
<1> QED BY <1>11, <1>12

(* The list goes on with its next entry, if there is one. *)
ProgRun(q, w, r) ==
  /\ r.s.order = Ord(q, w) /\ r.m.new_progshuf = FALSE
  /\ IF Over(q, w)
     THEN /\ Only(q, r, {"prog_cnt", "order"}, {"new_progshuf"})
          /\ r.s.prog_cnt = From(q) /\ r.d = q.d /\ r.ret = FALSE
     ELSE /\ Only(q, r, EntryFields \cup {"order"}, Sav \cup {"new_progshuf"})
          /\ r.s.prog_cnt = From(q) + 1 /\ r.s.cur_trk = Ord(q, w)[From(q) + 1]
          /\ r.s.mode = IF q.s.mode = "PAUSE" THEN "PAUSE" ELSE "PLAY"
          /\ EntryPlays(q, r, Ord(q, w)[From(q) + 1])

(* slioc_run_prog. *)
LEMMA RunProgIs ==
  ASSUME Sane, NEW q, Typed(q), q.d.st # "empty", NEW w \in World, Listed(q),
         q.s.mode = "PAUSE" => q.s.off = 0
  PROVE  ProgRun(q, w, RunProg(q, w))
<1> SUFFICES ASSUME NEW r, r = RunProg(q, w) PROVE ProgRun(q, w, r)
  OBVIOUS
<1> DEFINE x == NewSequence(q, w)
           t == x.s.order[x.s.prog_cnt + 1]
<1>1. Sequenced(q, w, x)
  BY NewSequenceIs
<1> HIDE DEF x
<1>2. r = NextEntry(x, w)
  BY DEF RunProg, Listed, x
<1>3. /\ Typed(x) /\ x.d = q.d /\ x.app = q.app /\ x.s.prog_cnt = From(q)
      /\ x.s.order = Ord(q, w)
      /\ x.ret = ~ Mute(q, w)
  BY <1>1 DEF Sequenced, Only
<1>4. x.s.mode = q.s.mode /\ x.s.off = q.s.off /\ x.m.sav_msf = q.m.sav_msf
  BY <1>1 DEF Sequenced, Only, SBut, SFields, MBut, MFields
<1>5. Over(q, w) <=> ~ x.ret \/ x.s.prog_cnt >= Len(x.s.order)
  BY <1>3, OrdIs DEF Over
<1>6. CASE Over(q, w)
  <2>1. r = Ret(x, FALSE)
    BY <1>2, <1>5, <1>6 DEF NextEntry
  <2>2. /\ r \in State /\ r.s = x.s /\ r.m = x.m /\ r.d = x.d /\ r.app = x.app
        /\ r.ret = FALSE
    BY <1>3, <2>1, RetIs, ZenonT(30) DEF Typed
  <2> QED BY <1>1, <1>6, <2>2 DEF ProgRun, Sequenced, Only, Typed
<1>7. CASE ~ Over(q, w)
  <2>1. r = PlayEntry(x, w, t)
    BY <1>2, <1>5, <1>7 DEF NextEntry
  <2>2. t \in Track /\ t = Ord(q, w)[From(q) + 1]
    BY <1>3, <1>7, OrdIs
  <2> HIDE DEF t
  <2>3. EntryRun(x, r, t)
    BY <1>3, <1>4, <2>1, <2>2, PlayEntryIs
  <2>4. Only(q, r, EntryFields \cup {"order"}, Sav \cup {"new_progshuf"})
    <3>1. SBut(q.s, r.s, EntryFields \cup {"order"})
      BY <1>1, <2>3 DEF Sequenced, EntryRun, Only, SBut, SFields, EntryFields
    <3>2. MBut(q.m, r.m, Sav \cup {"new_progshuf"})
      BY <1>1, <2>3 DEF Sequenced, EntryRun, Only, MBut, MFields, Sav
    <3> QED BY <1>3, <2>3, <3>1, <3>2 DEF EntryRun, Only
  <2>5. r.s.order = Ord(q, w) /\ r.m.new_progshuf = FALSE
    BY <1>1, <2>3
       DEF Sequenced, EntryRun, Only, SBut, SFields, EntryFields, MBut,
           MFields, Sav
  <2>6. EntryPlays(q, r, t)
    BY <1>3, <1>4, <2>3 DEF EntryRun, EntryPlays
  <2> QED BY <1>3, <1>4, <1>7, <2>2, <2>3, <2>4, <2>5, <2>6
             DEF ProgRun, EntryRun
<1> QED BY <1>6, <1>7

(* The place kept for the next play is given up. *)
LEMMA OffZero ==
  ASSUME NEW q, Typed(q)
  PROVE  LET r == [q EXCEPT !.s.off = 0]
         IN  Only(q, r, {"off"}, {}) /\ r.s.off = 0 /\ r.d = q.d /\ r.m = q.m
<1> DEFINE r == [q EXCEPT !.s.off = 0]
           S == [q.s EXCEPT !.off = 0]
<1>1. S \in Curstat /\ SBut(q.s, S, {"off"}) /\ S.off = 0
  BY Zero, Parts DEF Curstat, SBut, SFields
<1>2. r = WithSM(q, S, q.m)
  BY Parts DEF WithSM, State
<1> HIDE DEF S, r
<1>3. Typed(r) /\ r.app = q.app /\ r.s = S /\ r.m = q.m /\ r.d = q.d
  BY <1>1, <1>2, WithSMIs, Parts
<1>4. Only(q, r, {"off"}, {}) /\ r.s.off = 0
  BY <1>1, <1>3, SameM DEF Only
<1> QED BY <1>3, <1>4 DEF r

(* A list that is repeated will begin anew at its end, ... *)
ListRepeat(q, r) ==
  /\ Only(q, r, {}, {"new_progshuf"}) /\ r.d = q.d /\ r.ret = TRUE
  /\ r.m.new_progshuf = (q.m.new_progshuf \/ q.s.prog_cnt >= Len(q.s.order))

(* slioc_run_repeat for a list. *)
LEMMA ListRepeatIs ==
  ASSUME NEW q, Typed(q), NEW w, Listed(q)
  PROVE  ListRepeat(q, RunRepeat(q, w))
<1> SUFFICES ASSUME NEW r, r = RunRepeat(q, w) PROVE ListRepeat(q, r)
  OBVIOUS
<1> DEFINE b == q.m.new_progshuf \/ q.s.prog_cnt >= Len(q.s.order)
           M == [q.m EXCEPT !.new_progshuf = b]
           x == [q EXCEPT !.m.new_progshuf = @ \/ q.s.prog_cnt >= Len(q.s.order)]
<1>1. r = Ret(x, TRUE)
  BY DEF RunRepeat, Listed
<1>2. x = WithSM(q, q.s, M)
  BY Parts DEF WithSM, State
<1>3. b \in BOOLEAN
  BY Parts DEF Statics
<1> HIDE DEF b
<1>4. M \in Statics /\ MBut(q.m, M, {"new_progshuf"}) /\ M.new_progshuf = b
  BY <1>3, Parts DEF Statics, MBut, MFields
<1> HIDE DEF M, x
<1>5. Typed(x) /\ x.app = q.app /\ x.s = q.s /\ x.m = M /\ x.d = q.d
  BY <1>2, <1>4, WithSMIs, Parts
<1>6. /\ r \in State /\ r.s = q.s /\ r.m = M /\ r.d = q.d /\ r.app = q.app
      /\ r.ret = TRUE
  BY <1>1, <1>5, RetIs, ZenonT(30) DEF Typed
<1>7. Only(q, r, {}, {"new_progshuf"})
  BY <1>4, <1>5, <1>6, SameS DEF Only, Typed
<1> QED BY <1>4, <1>6, <1>7 DEF ListRepeat, b

(* ... and a disc begins at once. *)
DiscRepeat(q, r) ==
  /\ Only(q, r, {"cur_trk", "pos"}, Sav) /\ r.ret = TRUE
  /\ r.m.sav_msf = Leadout
  /\ r.s.cur_trk = 1 /\ r.s.pos = 0
  /\ r.d.pos = 0 /\ r.d.end = Clip(Leadout)
  /\ r.d.st = IF q.s.mode = "PAUSE" THEN "paused" ELSE "playing"

(* slioc_run_repeat for a disc. *)
LEMMA DiscRepeatIs ==
  ASSUME Sane, NEW q, Typed(q), q.d.st # "empty", NEW w \in World, ~ Listed(q)
  PROVE  DiscRepeat(q, RunRepeat(q, w))
<1> SUFFICES ASSUME NEW r, r = RunRepeat(q, w) PROVE DiscRepeat(q, r)
  OBVIOUS
<1> DEFINE S == [q.s EXCEPT !.cur_trk = 1, !.pos = 0]
           x == [q EXCEPT !.s.cur_trk = 1, !.s.pos = 0]
<1>1. r = ThenPause(DoPlayaudio(x, w, 0, Leadout), w)
  BY Discs DEF RunRepeat, Listed
<1>2. x = WithSM(q, S, q.m)
  BY Parts DEF WithSM, State
<1>3. /\ S \in Curstat /\ SBut(q.s, S, {"cur_trk", "pos"}) /\ S.cur_trk = 1
      /\ S.pos = 0
  BY Zero, Discs, Parts, ZenonT(30) DEF Curstat, SBut, SFields
<1> HIDE DEF S, x
<1>4. Typed(x) /\ x.app = q.app /\ x.s = S /\ x.m = q.m /\ x.d = q.d
  BY <1>2, <1>3, WithSMIs, Parts
<1>5. 0 < Clip(Leadout)
  BY Discs, LongTrack
<1>6. Enters(x, r, 0, Leadout)
  BY <1>1, <1>4, <1>5, ThenPauseIs, Discs, Zero
<1>7. S.mode = q.s.mode
  BY <1>3 DEF SBut, SFields
<1>8. /\ r.ret = TRUE /\ r.m.sav_msf = Leadout /\ r.d.pos = 0
      /\ r.d.end = Clip(Leadout)
      /\ r.d.st = (IF q.s.mode = "PAUSE" THEN "paused" ELSE "playing") /\ r.s = S
  BY <1>4, <1>5, <1>6, <1>7 DEF Enters
<1>9. Only(q, r, {"cur_trk", "pos"}, Sav)
  BY <1>3, <1>4, <1>6 DEF Enters, Only
<1> QED BY <1>3, <1>8, <1>9 DEF DiscRepeat

-----------------------------------------------------------------------------
(* The end of a piece: what follows it, or that nothing does. *)

(* Nothing follows. *)
EndFields == {"mode", "segplay", "cur_trk", "pos", "off", "plan", "order", "prog_cnt",
              "program", "onetrk"}

(* The player has stopped, and forgotten all about what it played. *)
Ended(q, r) ==
  /\ Only(q, r, EndFields, Forgotten) /\ r.ret = FALSE
  /\ r.s.mode = "STOP" /\ r.s.segplay = (IF q.s.segplay = "A" THEN "NONE" ELSE q.s.segplay)
  /\ r.s.off = 0 /\ r.s.cur_trk = 0 /\ r.s.prog_cnt = 0 /\ r.s.onetrk = FALSE
  /\ r.s.program = (q.s.program /\ ~ q.s.onetrk)
  /\ ~ q.s.onetrk => r.s.plan = q.s.plan /\ r.s.order = q.s.order
  /\ r.d.pos = q.d.pos /\ r.d.end = q.d.end /\ r.d.st \in StoppedAs

(* The end of a play. *)
LEMMA DoneIs ==
  ASSUME Sane, NEW q, Typed(q), q.d.st # "empty", NEW w \in World
  PROVE  Ended(q, Done(q, w))
<1> SUFFICES ASSUME NEW r, r = Done(q, w) PROVE Ended(q, r)
  OBVIOUS
<1> DEFINE a == ResetCurstat(q)
           b == ForgetEnd(a)
           g == IF b.s.segplay = "A" THEN "NONE" ELSE b.s.segplay
           S == [b.s EXCEPT !.mode = "STOP", !.segplay = g]
           x == [b EXCEPT !.s.mode = "STOP", !.s.segplay = IF @ = "A" THEN "NONE" ELSE @]
           y == StartStop(x, w)
<1>1. r = Ret(y, FALSE)
  BY DEF Done
<1>2. Reset(q, a)
  BY ResetCurstatIs
<1> HIDE DEF a
<1>3. Typed(a)
  BY <1>2 DEF Reset, Only
<1>4. Forgot(a, b)
  BY <1>3, ForgetEndIs
<1> HIDE DEF b
<1>5. Typed(b) /\ b.app = q.app /\ b.d = q.d
  BY <1>2, <1>4 DEF Forgot, Reset, Only
<1>6. x = WithSM(b, S, b.m)
  BY <1>5, Parts DEF WithSM, State
<1>7. g \in {"NONE", "A", "AB"}
  BY <1>5, Parts DEF Curstat
<1> HIDE DEF g
<1>8. /\ S \in Curstat /\ SBut(b.s, S, {"mode", "segplay"}) /\ S.mode = "STOP"
      /\ S.segplay = g
  BY <1>5, <1>7, Parts DEF Curstat, SBut, SFields
<1> HIDE DEF S, x, y
<1>9. Typed(x) /\ x.app = q.app /\ x.s = S /\ x.m = b.m /\ x.d = q.d
  BY <1>5, <1>6, <1>8, WithSMIs, Parts
<1>10. Halted(x, y)
  BY <1>9, StartStopIs DEF y
<1>11. /\ Typed(y) /\ y.s = S /\ y.m = b.m /\ y.app = q.app /\ y.d.pos = q.d.pos
       /\ y.d.end = q.d.end /\ y.d.st \in StoppedAs
  BY <1>9, <1>10 DEF Halted
<1>12. /\ Typed(r) /\ r.s = S /\ r.m = b.m /\ r.app = q.app /\ r.d = y.d
       /\ r.ret = FALSE
  <2>1. y \in State /\ y.d.pos < Leadout /\ y.d.end \in Block
    BY <1>11 DEF Typed
  <2>2. /\ r \in State /\ r.s = y.s /\ r.m = y.m /\ r.d = y.d /\ r.app = y.app
        /\ r.ret = FALSE
    BY <1>1, <2>1, RetIs
  <2>3. Typed(r)
    BY <2>1, <2>2 DEF Typed
  <2> QED BY <1>11, <2>2, <2>3
<1>13. SBut(q.s, S, EndFields) /\ MBut(q.m, b.m, Forgotten)
  BY <1>2, <1>4, <1>8
     DEF Reset, Forgot, Only, SBut, SFields, MBut, MFields, EndFields
<1>14. /\ S.off = 0 /\ S.cur_trk = 0 /\ S.prog_cnt = 0 /\ S.onetrk = FALSE
       /\ S.program = (q.s.program /\ ~ q.s.onetrk)
       /\ ~ q.s.onetrk => S.plan = q.s.plan /\ S.order = q.s.order
  <2>1. \A f \in {"off", "cur_trk", "prog_cnt", "onetrk", "program", "plan", "order"} : S[f] = a.s[f]
    BY <1>4, <1>8 DEF Forgot, Only, SBut, SFields
  <2>2. /\ S.off = a.s.off /\ S.cur_trk = a.s.cur_trk
        /\ S.prog_cnt = a.s.prog_cnt
        /\ S.onetrk = a.s.onetrk /\ S.program = a.s.program /\ S.plan = a.s.plan
        /\ S.order = a.s.order
    BY <2>1
  <2> QED BY <1>2, <2>2 DEF Reset
<1>15. S.segplay = IF q.s.segplay = "A" THEN "NONE" ELSE q.s.segplay
  <2>1. b.s.segplay = q.s.segplay
    BY <1>2, <1>4 DEF Reset, Forgot, Only, SBut, SFields
  <2> QED BY <1>8, <2>1 DEF g
<1>16. Only(q, r, EndFields, Forgotten)
  BY <1>12, <1>13 DEF Only
<1> QED BY <1>8, <1>11, <1>12, <1>14, <1>15, <1>16 DEF Ended

(* What follows the end of a piece. *)
ListFollowed(q, w, r) ==
  /\ r.s.order = Ord(q, w) /\ r.ret \in BOOLEAN
  /\ r.m.new_progshuf = (q.s.repeat /\ r.s.prog_cnt >= Len(r.s.order))
  /\ IF Over(q, w)
     THEN /\ Only(q, r, {"off", "prog_cnt", "order"}, {"new_progshuf"})
          /\ r.s.prog_cnt = From(q) /\ r.d = q.d /\ r.ret = q.s.repeat
     ELSE /\ Only(q, r, EntryFields \cup {"off", "order"}, Sav \cup {"new_progshuf"})
          /\ r.s.prog_cnt = From(q) + 1 /\ r.s.cur_trk = Ord(q, w)[From(q) + 1]
          /\ r.s.mode = q.s.mode /\ r.ret = TRUE
          /\ LET t == Ord(q, w)[From(q) + 1]
             IN  IF t \in DataTracks THEN r.d = q.d /\ r.m.sav_msf = q.m.sav_msf
                 ELSE /\ r.m.sav_msf = TrackEnd(t)
                      /\ r.d.pos = Toc[t] /\ r.d.end = Clip(TrackEnd(t))
                      /\ r.d.st = IF q.s.mode = "PAUSE" THEN "paused" ELSE "playing"

(* What follows, as slioc_get_playstatus tries it in turn. *)
Follow(q, w) == FollowAb(FollowRepeat(FollowProg(Ret([q EXCEPT !.s.off = 0], FALSE), w), w), w)

(* The end of an entry in a list. *)
LEMMA ListFollowedIs ==
  ASSUME Sane, NEW q, Typed(q), q.d.st # "empty", NEW w \in World, Listed(q),
         q.s.mode \in {"PLAY", "PAUSE"}, q.s.segplay # "AB"
  PROVE  ListFollowed(q, w, Follow(q, w))
<1> SUFFICES ASSUME NEW r, r = Follow(q, w) PROVE ListFollowed(q, w, r)
  OBVIOUS
<1> DEFINE z == [q EXCEPT !.s.off = 0]
           a == Ret(z, FALSE)
           x == RunProg(a, w)
           y == FollowRepeat(x, w)
<1>1. Only(q, z, {"off"}, {}) /\ z.s.off = 0 /\ z.d = q.d /\ z.m = q.m
  BY OffZero
<1> HIDE DEF z
<1>2. Typed(a) /\ a.s = z.s /\ a.m = q.m /\ a.d = q.d /\ a.app = q.app
  BY <1>1, RetIs DEF Only, Typed
<1> HIDE DEF a
<1>3. /\ a.s.program = q.s.program /\ a.s.shuffle = q.s.shuffle
      /\ a.s.mode = q.s.mode
      /\ a.s.order = q.s.order /\ a.s.prog_cnt = q.s.prog_cnt
      /\ a.s.repeat = q.s.repeat
      /\ a.s.segplay = q.s.segplay /\ a.s.off = 0
  BY <1>1, <1>2 DEF Only, SBut, SFields
<1>4. Listed(a) /\ FollowProg(a, w) = x
  BY <1>3 DEF Listed, FollowProg
<1>5. ProgRun(a, w, x)
  BY <1>2, <1>3, <1>4, RunProgIs
<1>6. Ord(a, w) = Ord(q, w) /\ From(a) = From(q) /\ (Over(a, w) <=> Over(q, w))
  BY <1>2, <1>3 DEF Ord, From, Over, Mute
<1> HIDE DEF x
<1>7. /\ Typed(x) /\ x.app = q.app /\ SBut(a.s, x.s, EntryFields \cup {"order"})
      /\ MBut(a.m, x.m, Sav \cup {"new_progshuf"})
  <2>1. CASE Over(a, w)
    BY <1>2, <1>5, <2>1
       DEF EntryFields, Sav, ProgRun, Only, SBut, SFields, MBut, MFields
  <2>2. CASE ~ Over(a, w)
    BY <1>2, <1>5, <2>2 DEF ProgRun, Only
  <2> QED BY <2>1, <2>2
<1>8. x.s.program = q.s.program /\ x.s.shuffle = q.s.shuffle /\ x.s.repeat = q.s.repeat
      /\ x.s.segplay = q.s.segplay
  BY <1>3, <1>7 DEF SBut, SFields, EntryFields
<1>9. q.s.repeat \in BOOLEAN
  BY Parts DEF Curstat
<1>10. y.s = x.s /\ y.d = x.d /\ y.app = q.app /\ Typed(y) /\ MBut(x.m, y.m, {"new_progshuf"})
       /\ (q.s.repeat => y.ret = TRUE
               /\ y.m.new_progshuf = (x.m.new_progshuf \/ x.s.prog_cnt >= Len(x.s.order)))
       /\ (~q.s.repeat => y.ret = x.ret /\ y.m.new_progshuf = x.m.new_progshuf)
  <2>1. CASE q.s.repeat
    <3>1. y = RunRepeat(x, w)
      BY <1>8, <2>1 DEF FollowRepeat
    <3> HIDE DEF y
    <3>2. Listed(x)
      BY <1>8 DEF Listed
    <3>3. ListRepeat(x, y)
      BY <1>7, <3>1, <3>2, ListRepeatIs
    <3>4. y.s = x.s
      <4>1. y.s \in Curstat /\ x.s \in Curstat /\ SBut(x.s, y.s, {})
        BY <1>7, <3>3, Parts DEF ListRepeat, Only
      <4> QED BY <4>1 DEF Curstat, SBut, SFields
    <3> QED BY <1>7, <2>1, <3>3, <3>4 DEF ListRepeat, Only
  <2>2. CASE ~q.s.repeat
    BY <1>7, <1>8, <2>2, SameM DEF FollowRepeat
  <2> QED BY <2>1, <2>2
<1>11. r = y
  BY <1>4, <1>8, <1>10, Zenon DEF Follow, FollowAb, a, z
<1> HIDE DEF y
<1>12. x.m.new_progshuf = FALSE /\ x.s.order = Ord(q, w)
  BY <1>5, <1>6 DEF ProgRun
<1>13. r.m.new_progshuf = (q.s.repeat /\ r.s.prog_cnt >= Len(r.s.order))
  <2>1. CASE q.s.repeat
    BY <1>10, <1>11, <1>12, <2>1
  <2>2. CASE ~q.s.repeat
    BY <1>9, <1>10, <1>11, <1>12, <2>2
  <2> QED BY <2>1, <2>2
<1>14. CASE Over(q, w)
  <2>1. /\ Only(a, x, {"prog_cnt", "order"}, {"new_progshuf"})
        /\ x.s.prog_cnt = From(q) /\ x.d = q.d /\ x.ret = FALSE
    BY <1>2, <1>5, <1>6, <1>14 DEF ProgRun
  <2>2. SBut(q.s, r.s, {"off", "prog_cnt", "order"})
    BY <1>1, <1>2, <1>10, <1>11, <2>1 DEF Only, SBut, SFields
  <2>3. MBut(q.m, r.m, {"new_progshuf"})
    BY <1>2, <1>10, <1>11, <2>1 DEF Only, MBut, MFields
  <2>4. r.ret = q.s.repeat
    BY <1>9, <1>10, <1>11, <2>1
  <2> QED BY <1>9, <1>10, <1>11, <1>12, <1>13, <1>14, <2>1, <2>2, <2>3, <2>4
             DEF ListFollowed, Only
<1>15. CASE ~ Over(q, w)
  <2> DEFINE t == Ord(q, w)[From(q) + 1]
  <2>0. t \in Track
    BY <1>15, OrdIs
  <2>1. /\ Only(a, x, EntryFields \cup {"order"}, Sav \cup {"new_progshuf"})
        /\ x.s.prog_cnt = From(q) + 1 /\ x.s.cur_trk = t
        /\ x.s.mode = (IF a.s.mode = "PAUSE" THEN "PAUSE" ELSE "PLAY")
        /\ EntryPlays(a, x, t)
    BY <1>5, <1>6, <1>15 DEF ProgRun
  <2>2. SBut(q.s, r.s, EntryFields \cup {"off", "order"})
    BY <1>1, <1>2, <1>10, <1>11, <2>1 DEF Only, SBut, SFields
  <2>3. MBut(q.m, r.m, Sav \cup {"new_progshuf"})
    BY <1>2, <1>10, <1>11, <2>1 DEF Only, MBut, MFields
  <2>4. r.s.mode = q.s.mode
    BY <1>3, <1>10, <1>11, <2>1
  <2> HIDE DEF t
  <2>5. /\ x.ret = TRUE
        /\ IF t \in DataTracks THEN x.d = q.d /\ x.m.sav_msf = q.m.sav_msf
           ELSE /\ x.m.sav_msf = TrackEnd(t)
                /\ x.d.pos = Toc[t] /\ x.d.end = Clip(TrackEnd(t))
                /\ x.d.st = IF q.s.mode = "PAUSE" THEN "paused" ELSE "playing"
    <3>1. Toc[t] + a.s.off = Toc[t]
      BY <1>3, <2>0, TrackBounds
    <3>2. Toc[t] < Clip(TrackEnd(t))
      BY <2>0, LongTrack
    <3> QED BY <1>2, <1>3, <2>1, <3>1, <3>2 DEF EntryPlays
  <2>6. r.ret = TRUE /\ r.d = x.d /\ r.m.sav_msf = x.m.sav_msf
    BY <1>10, <1>11, <2>5 DEF MBut, MFields
  <2>7. Only(q, r, EntryFields \cup {"off", "order"}, Sav \cup {"new_progshuf"})
    BY <1>10, <1>11, <2>2, <2>3 DEF Only
  <2>8. r.s = x.s
    BY <1>10, <1>11
  <2> QED BY <1>12, <1>13, <1>15, <2>1, <2>4, <2>5, <2>6, <2>7, <2>8
             DEF ListFollowed, t
<1> QED BY <1>14, <1>15

(* At the end of a disc or a segment it is repeated, or nothing follows. *)
DiscFollowed(q, r) ==
  /\ r.ret \in BOOLEAN /\ r.d.st # "empty"
  /\ Only(q, r, PlaceFields \cup {"mode"}, Sav \cup TimerFields)
  /\ r.ret = FALSE => MBut(q.m, r.m, Sav) /\ r.s.mode = q.s.mode
  /\ r.ret = TRUE =>
       /\ q.s.repeat /\ r.m.sav_msf \in Nat /\ r.d.end = Clip(r.m.sav_msf)
       /\ IF q.s.segplay = "AB"
          THEN /\ r.s.mode = "PLAY" /\ r.d.st = "playing" /\ r.m.stat_polling = TRUE
               /\ r.m.sav_msf = q.s.endpos
               /\ IF q.app = "xmcd" THEN r.m.stat_id = TRUE
                  ELSE r.m.stat_id = q.m.stat_id /\ r.m.stray = q.m.stray
          ELSE /\ r.s.mode = q.s.mode /\ MBut(q.m, r.m, Sav)
               /\ r.d.st = IF q.s.mode = "PAUSE" THEN "paused" ELSE "playing"

(* The end of a disc or a segment. *)
LEMMA DiscFollowedIs ==
  ASSUME Sane, NEW q, Typed(q), q.d.st # "empty", NEW w \in World, ~ Listed(q),
         q.s.mode \in {"PLAY", "PAUSE"}
  PROVE  DiscFollowed(q, Follow(q, w))
<1> SUFFICES ASSUME NEW r, r = Follow(q, w) PROVE DiscFollowed(q, r)
  OBVIOUS
<1> DEFINE z == [q EXCEPT !.s.off = 0]
           a == Ret(z, FALSE)
           y == FollowRepeat(a, w)
<1>1. Only(q, z, {"off"}, {}) /\ z.s.off = 0 /\ z.d = q.d /\ z.m = q.m
  BY OffZero
<1> HIDE DEF z
<1>2. /\ Typed(a) /\ a.s = z.s /\ a.m = q.m /\ a.d = q.d /\ a.app = q.app
      /\ a.ret = FALSE
  BY <1>1, RetIs DEF Only, Typed
<1> HIDE DEF a
<1>3. /\ a.s.program = q.s.program /\ a.s.shuffle = q.s.shuffle
      /\ a.s.mode = q.s.mode
      /\ a.s.repeat = q.s.repeat /\ a.s.segplay = q.s.segplay
      /\ a.s.endpos = q.s.endpos
  BY <1>1, <1>2 DEF Only, SBut, SFields
<1>4. FollowProg(a, w) = a /\ ~ Listed(a)
  BY <1>3 DEF Listed, FollowProg
<1>5. r = FollowAb(y, w)
  BY <1>4, Zenon DEF Follow, a, z
<1>6. CASE ~ q.s.repeat
  <2>1. y = a
    BY <1>3, <1>6 DEF FollowRepeat
  <2>2. r = a
    BY <1>3, <1>5, <1>6, <2>1 DEF FollowAb
  <2>3. SBut(q.s, a.s, PlaceFields \cup {"mode"})
    BY <1>1, <1>2 DEF Only, SBut, SFields, PlaceFields
  <2> QED BY <1>2, <1>3, <2>2, <2>3, SameM DEF DiscFollowed, Only
<1>7. CASE q.s.repeat
  <2>1. y = RunRepeat(a, w)
    BY <1>3, <1>7 DEF FollowRepeat
  <2> HIDE DEF y
  <2>2. DiscRepeat(a, y)
    BY <1>2, <1>4, <2>1, DiscRepeatIs
  <2>3. /\ Typed(y) /\ y.app = q.app /\ MBut(q.m, y.m, Sav) /\ y.d.st # "empty"
        /\ y.ret = TRUE
        /\ SBut(q.s, y.s, PlaceFields)
    BY <1>1, <1>2, <2>2 DEF DiscRepeat, Only, SBut, SFields, PlaceFields
  <2>4. y.s.repeat = q.s.repeat /\ y.s.segplay = q.s.segplay /\ y.s.endpos = q.s.endpos
        /\ y.s.mode = q.s.mode
    BY <2>3 DEF SBut, SFields, PlaceFields
  <2>5. q.s.endpos \in Nat
    <3>1. q.s.endpos \in Block
      BY Parts DEF Curstat
    <3> QED BY <3>1 DEF Block
  <2>6. CASE q.s.segplay # "AB"
    <3>1. r = y
      BY <1>5, <2>4, <2>6 DEF FollowAb
    <3>a. r.m.sav_msf \in Nat /\ r.d.end = Clip(r.m.sav_msf) /\ r.d.st # "empty"
      BY <2>2, <2>3, <3>1, Discs DEF DiscRepeat
    <3>2. /\ SBut(q.s, r.s, PlaceFields \cup {"mode"})
          /\ MBut(q.m, r.m, Sav \cup TimerFields)
      BY <2>3, <3>1
         DEF SBut, SFields, MBut, MFields, PlaceFields, Sav, TimerFields
    <3>3. r.d.st = (IF q.s.mode = "PAUSE" THEN "paused" ELSE "playing")
      BY <1>3, <2>2, <3>1 DEF DiscRepeat
    <3> QED BY <1>7, <2>3, <2>4, <2>6, <3>1, <3>2, <3>3, <3>a
               DEF DiscFollowed, Only
  <2>7. CASE q.s.segplay = "AB"
    <3>1. r = RunAb(y, w)
      BY <1>5, <1>7, <2>4, <2>7 DEF FollowAb
    <3>2. AbRun(y, r)
      BY <2>3, <3>1, RunAbIs
    <3>3. CASE y.s.startpos + MinPlayBlks >= y.s.endpos
      <4>1. Only(y, r, {}, {}) /\ r.ret = FALSE /\ r.d = y.d
        BY <3>2, <3>3 DEF AbRun
      <4>2. SBut(q.s, r.s, PlaceFields \cup {"mode"}) /\ MBut(q.m, r.m, Sav \cup TimerFields)
            /\ MBut(q.m, r.m, Sav)
        BY <2>3, <4>1
           DEF Only, SBut, SFields, MBut, MFields, PlaceFields, Sav,
               TimerFields
      <4>3. r.s.mode = q.s.mode
        BY <2>4, <4>1 DEF Only, SBut, SFields
      <4> QED BY <2>3, <4>1, <4>2, <4>3 DEF DiscFollowed, Only
    <3>4. CASE ~(y.s.startpos + MinPlayBlks >= y.s.endpos)
      <4>1. /\ Only(y, r, {"mode"}, TimerFields \cup Sav) /\ r.ret = TRUE
            /\ r.s.mode = "PLAY" /\ r.m.stat_polling = TRUE
            /\ IF y.app = "xmcd" THEN r.m.stat_id = TRUE
               ELSE r.m.stat_id = y.m.stat_id /\ r.m.stray = y.m.stray
            /\ r.m.sav_msf = y.s.endpos /\ r.d.st = "playing"
            /\ r.d.end = Clip(y.s.endpos)
        BY <3>2, <3>4 DEF AbRun
      <4>2. /\ SBut(q.s, r.s, PlaceFields \cup {"mode"})
            /\ MBut(q.m, r.m, Sav \cup TimerFields)
        BY <2>3, <4>1
           DEF Only, SBut, SFields, MBut, MFields, PlaceFields, Sav,
               TimerFields
      <4>3. y.m.stat_id = q.m.stat_id /\ y.m.stray = q.m.stray
        BY <2>3 DEF MBut, MFields, Sav
      <4>4. IF q.app = "xmcd" THEN r.m.stat_id = TRUE
            ELSE r.m.stat_id = q.m.stat_id /\ r.m.stray = q.m.stray
        BY <2>3, <4>1, <4>3
      <4>5. /\ r.m.sav_msf = q.s.endpos /\ r.m.sav_msf \in Nat
            /\ r.d.end = Clip(r.m.sav_msf)
        BY <2>4, <2>5, <4>1
      <4>6. Only(q, r, PlaceFields \cup {"mode"}, Sav \cup TimerFields)
        BY <2>3, <4>1, <4>2 DEF Only
      <4> HIDE DEF DiscFollowed
      <4>7. /\ r.ret = TRUE /\ r.d.st = "playing" /\ r.s.mode = "PLAY"
            /\ r.m.stat_polling = TRUE
        BY <4>1
      <4> QED BY <1>7, <2>7, <4>4, <4>5, <4>6, <4>7 DEF DiscFollowed
    <3> QED BY <3>3, <3>4
  <2> QED BY <2>6, <2>7
<1> QED BY <1>6, <1>7

(* The end of a piece, of a state that has been brought up to date. *)
GoneOn(q, w, r) ==
  \/ /\ q.s.mode = "SAMPLE" /\ SampleRun(q, r) /\ r.ret = TRUE
  \/ /\ q.s.mode \in {"PLAY", "PAUSE"} /\ Listed(q) /\ ListFollowed(q, w, r) /\ r.ret = TRUE
  \/ /\ q.s.mode \in {"PLAY", "PAUSE"} /\ ~ Listed(q) /\ DiscFollowed(q, r)
     /\ r.ret = TRUE

(* Of the statics, what an end changes. *)
EndM == Forgotten \cup {"new_progshuf", "next_sam"}

(* Nothing follows: the player stops. *)
RunOut(q, r) ==
  /\ Only(q, r, EndFields, EndM) /\ r.ret = FALSE
  /\ r.s.mode = "STOP" /\ r.s.segplay = (IF q.s.segplay = "A" THEN "NONE" ELSE q.s.segplay)
  /\ r.s.off = 0 /\ r.s.onetrk = FALSE
  /\ r.s.program = (q.s.program /\ ~ q.s.onetrk) /\ (~ q.s.onetrk => r.s.plan = q.s.plan)
  /\ r.d.st \in StoppedAs

(* Something follows, or the player stops; a list stops only at its end. *)
Passed(q, w, r) ==
  \/ GoneOn(q, w, r)
  \/ RunOut(q, r) /\ (Listed(q) /\ q.s.mode \in {"PLAY", "PAUSE"} => Over(q, w))

(* The end of a piece. *)
LEMMA GoOnIs ==
  ASSUME Sane, NEW q, Typed(q), q.d.st # "empty", NEW w \in World,
         Listed(q) => q.s.segplay # "AB"
  PROVE  Passed(q, w, OrDone(AfterEnd(q, w), w))
<1> SUFFICES ASSUME NEW r, r = OrDone(AfterEnd(q, w), w) PROVE Passed(q, w, r)
  OBVIOUS
<1> DEFINE x == AfterEnd(q, w)
           y == Done(x, w)
<1>1. r = IF x.ret THEN x ELSE y
  BY Zenon DEF OrDone
<1>2. /\ Typed(x) /\ x.ret \in BOOLEAN /\ x.d.st # "empty"
      /\ x.ret = TRUE => GoneOn(q, w, x)
      /\ x.ret = FALSE => /\ SBut(q.s, x.s, {"cur_trk", "pos", "off", "order", "prog_cnt"})
                          /\ MBut(q.m, x.m, EndM) /\ x.app = q.app
                          /\ Listed(q) /\ q.s.mode \in {"PLAY", "PAUSE"} => Over(q, w)
  <2>1. CASE q.s.mode = "SAMPLE"
    <3>1. x = RunSample(q, w)
      BY <2>1 DEF AfterEnd
    <3> HIDE DEF x
    <3>2. SampleRun(q, x)
      BY <3>1, RunSampleIs
    <3>3. /\ Typed(x) /\ x.ret \in BOOLEAN /\ x.app = q.app
          /\ SBut(q.s, x.s, {}) /\ MBut(q.m, x.m, {"next_sam"} \cup Sav)
      BY <3>2, Parts DEF SampleRun, Only
    <3>4. /\ SBut(q.s, x.s, {"cur_trk", "pos", "off", "order", "prog_cnt"})
          /\ MBut(q.m, x.m, EndM)
      BY <3>3 DEF SBut, SFields, MBut, MFields, Sav, EndM, Forgotten
    <3>5. x.d.st # "empty"
      <4>1. CASE x.ret
        BY <3>2, <4>1 DEF SampleRun
      <4>2. CASE ~ x.ret
        BY <3>2, <4>2 DEF SampleRun
      <4> QED BY <4>1, <4>2
    <3> QED BY <2>1, <3>2, <3>3, <3>4, <3>5 DEF GoneOn
  <2>2. CASE q.s.mode \in {"PLAY", "PAUSE"} /\ Listed(q)
    <3>1. x = Follow(q, w)
      BY <2>2, Zenon DEF AfterEnd, Follow
    <3> HIDE DEF x
    <3>2. ListFollowed(q, w, x)
      BY <2>2, <3>1, ListFollowedIs
    <3>3. CASE Over(q, w)
      <4>1. /\ Only(q, x, {"off", "prog_cnt", "order"}, {"new_progshuf"})
            /\ x.d = q.d
            /\ x.ret \in BOOLEAN
        BY <3>2, <3>3 DEF ListFollowed
      <4>2. /\ SBut(q.s, x.s, {"cur_trk", "pos", "off", "order", "prog_cnt"})
            /\ MBut(q.m, x.m, EndM)
        BY <4>1 DEF Only, SBut, SFields, MBut, MFields, Sav, EndM, Forgotten
      <4> QED BY <2>2, <3>2, <3>3, <4>1, <4>2 DEF GoneOn, Only
    <3>4. CASE ~ Over(q, w)
      <4> DEFINE t == Ord(q, w)[From(q) + 1]
      <4> HIDE DEF t
      <4>1. /\ Only(q, x, EntryFields \cup {"off", "order"}, Sav \cup {"new_progshuf"})
            /\ x.ret = TRUE
            /\ t \in DataTracks \/ x.d.st \in {"paused", "playing"}
            /\ t \in DataTracks => x.d = q.d
        BY <3>2, <3>4 DEF ListFollowed, t
      <4> QED BY <2>2, <3>2, <4>1 DEF GoneOn, Only
    <3> QED BY <3>3, <3>4
  <2>3. CASE q.s.mode \in {"PLAY", "PAUSE"} /\ ~ Listed(q)
    <3>1. x = Follow(q, w)
      BY <2>3, Zenon DEF AfterEnd, Follow
    <3> HIDE DEF x
    <3>2. DiscFollowed(q, x)
      BY <2>3, <3>1, DiscFollowedIs
    <3>3. /\ Typed(x) /\ x.app = q.app
          /\ SBut(q.s, x.s, PlaceFields \cup {"mode"})
          /\ x.ret \in BOOLEAN /\ x.d.st # "empty"
          /\ x.ret = FALSE => MBut(q.m, x.m, Sav) /\ x.s.mode = q.s.mode
      BY <3>2 DEF DiscFollowed, Only
    <3>4. x.ret = FALSE => /\ SBut(q.s, x.s, {"cur_trk", "pos", "off", "order", "prog_cnt"})
                           /\ MBut(q.m, x.m, EndM)
      BY <3>3
         DEF SBut, SFields, MBut, MFields, Sav, EndM, Forgotten, PlaceFields
    <3> QED BY <2>3, <3>2, <3>3, <3>4 DEF GoneOn
  <2>4. CASE q.s.mode \notin {"PLAY", "PAUSE", "SAMPLE"}
    <3>1. x = Ret(q, FALSE)
      BY <2>4 DEF AfterEnd
    <3> HIDE DEF x
    <3>2. /\ x \in State /\ x.s = q.s /\ x.m = q.m /\ x.d = q.d /\ x.app = q.app
          /\ x.ret = FALSE
      BY <3>1, RetIs DEF Typed
    <3>3. /\ SBut(q.s, x.s, {"cur_trk", "pos", "off", "order", "prog_cnt"})
          /\ MBut(q.m, x.m, EndM)
      BY <3>2, SameS, SameM
    <3> QED BY <2>4, <3>2, <3>3 DEF Typed
  <2> QED BY <2>1, <2>2, <2>3, <2>4
<1> HIDE DEF x, y
<1>3. CASE x.ret = TRUE
  BY <1>1, <1>2, <1>3 DEF Passed
<1>4. CASE x.ret = FALSE
  <2>1. Ended(x, y)
    BY <1>2, DoneIs DEF y
  <2>2. r = y
    BY <1>1, <1>4
  <2>3. SBut(q.s, y.s, EndFields) /\ MBut(q.m, y.m, EndM)
    BY <1>2, <1>4, <2>1
       DEF Ended, Only, SBut, SFields, MBut, MFields, EndM, EndFields,
           Forgotten
  <2>4. /\ x.s.segplay = q.s.segplay /\ x.s.program = q.s.program
        /\ x.s.onetrk = q.s.onetrk
        /\ x.s.plan = q.s.plan /\ x.app = q.app
    BY <1>2, <1>4 DEF SBut, SFields
  <2>5. RunOut(q, y)
    <3>1. Typed(y) /\ y.app = q.app
      BY <2>1, <2>4 DEF Ended, Only
    <3>2. y.s.program = (q.s.program /\ ~ q.s.onetrk) /\ (~ q.s.onetrk => y.s.plan = q.s.plan)
      BY <2>1, <2>4 DEF Ended
    <3>3. y.s.segplay = (IF q.s.segplay = "A" THEN "NONE" ELSE q.s.segplay)
      BY <2>1, <2>4 DEF Ended
    <3> QED BY <2>1, <2>3, <3>1, <3>2, <3>3 DEF RunOut, Ended, Only
  <2> QED BY <1>2, <1>4, <2>2, <2>5 DEF Passed
<1> QED BY <1>2, <1>3, <1>4

-----------------------------------------------------------------------------
(* Unreadable blocks, and slioc_get_playstatus as a whole. *)

(* Behind an unreadable block. *)
Skipped(q, r) ==
  /\ Only(q, r, {}, {"sav_end"}) /\ r.s = q.s /\ r.ret \in BOOLEAN
  /\ IF r.ret THEN /\ r.d.st = "playing" /\ r.d.pos = q.s.pos + ErrSkip
                   /\ r.d.end = Clip(q.m.sav_msf) /\ r.d.pos < r.d.end
              ELSE r.d = q.d

(* slioc_play_recov. *)
LEMMA RecoverIs ==
  ASSUME Sane, NEW q, Typed(q), q.d.st # "empty", NEW w \in World
  PROVE  Skipped(q, Recover(q, w))
<1> SUFFICES ASSUME NEW r, r = Recover(q, w) PROVE Skipped(q, r)
  OBVIOUS
<1> DEFINE from == q.s.pos + ErrSkip
<1>1. from \in Nat /\ q.m.sav_msf \in Int /\ q.m.sav_end \in Int
  <2>1. q.s.pos \in Block /\ q.m.sav_end \in Block /\ q.m.sav_msf \in Int
    BY Parts DEF Curstat, Statics
  <2> QED BY <2>1, Blks DEF Block
<1>2. r = Ret(q, FALSE) \/ r = PlayTo(q, w, from, q.m.sav_msf, q.m.sav_end)
  BY Zenon DEF Recover, PlayRecov
<1>3. CASE r = Ret(q, FALSE)
  <2>1. /\ r \in State /\ r.s = q.s /\ r.m = q.m /\ r.d = q.d /\ r.app = q.app
        /\ r.ret = FALSE
    BY <1>3, RetIs DEF Typed
  <2> QED BY <2>1, SameS, SameM DEF Skipped, Only, Typed
<1>4. CASE r = PlayTo(q, w, from, q.m.sav_msf, q.m.sav_end)
  <2> HIDE DEF from
  <2>1. Played(q, r, from, q.m.sav_msf, q.m.sav_end)
    BY <1>1, <1>4, PlayToIs
  <2>2. /\ Only(q, r, {}, Sav) /\ r.s = q.s /\ r.m.sav_msf = q.m.sav_msf
    BY <2>1 DEF Played
  <2>3. /\ r.ret \in BOOLEAN
        /\ IF r.ret THEN /\ r.d.st = "playing" /\ r.d.pos = from
                         /\ r.d.end = Clip(q.m.sav_msf) /\ r.d.pos < r.d.end
                    ELSE r.d = q.d
    <3>1. CASE from < Clip(q.m.sav_msf) /\ from < Clip(q.m.sav_end)
      BY <2>1, <3>1 DEF Played
    <3>2. CASE ~(from < Clip(q.m.sav_msf) /\ from < Clip(q.m.sav_end))
      BY <2>1, <3>2 DEF Played
    <3> QED BY <3>1, <3>2
  <2>4. MBut(q.m, r.m, {"sav_end"})
    BY <2>2 DEF Only, MBut, MFields, Sav
  <2> QED BY <2>2, <2>3, <2>4, SameS DEF Skipped, Only, from
<1> QED BY <1>2, <1>3, <1>4

(* A state brought up to date, whose piece has ended. *)
StatusFields == {"nostatcnt", "errcnt", "errblk"}

Based(q, b) ==
  /\ Only(q, b, PlaceFields, StatusFields \cup {"fake_stop", "sav_end"})
  /\ At(q, b)
  /\ b.m.fake_stop = FALSE
  /\ b.d.pos = q.d.pos /\ b.d.end = q.d.end
  /\ b.d.st = IF q.d.st \in {"done", "error"} THEN "idle" ELSE q.d.st

(* The piece ends, of a state that is up to date. *)
Ends(q, w, r) == \E b : Based(q, b) /\ Passed(b, w, r)

(* The same before a forced end is taken back. *)
UpToDate(q, b) ==
  /\ Only(q, b, PlaceFields, StatusFields \cup {"sav_end"}) /\ At(q, b)
  /\ b.d.pos = q.d.pos /\ b.d.end = q.d.end
  /\ b.d.st = IF q.d.st \in {"done", "error"} THEN "idle" ELSE q.d.st

(* An end, forced or not. *)
LEMMA GoOnOrStopIs ==
  ASSUME Sane, NEW q, NEW b, Typed(q), q.d.st # "empty", NEW w \in World,
         Listed(q) => q.s.segplay # "AB", UpToDate(q, b)
  PROVE  Ends(q, w, GoOnOrStop(b, w))
<1> SUFFICES ASSUME NEW r, r = GoOnOrStop(b, w) PROVE Ends(q, w, r)
  OBVIOUS
<1> DEFINE M == [b.m EXCEPT !.nostatcnt = 0, !.fake_stop = FALSE]
           x == [b EXCEPT !.m.nostatcnt = 0, !.m.fake_stop = FALSE]
<1>0. Typed(b)
  BY DEF UpToDate, Only
<1>1. /\ M \in Statics /\ MBut(b.m, M, {"nostatcnt", "fake_stop"})
      /\ M.fake_stop = FALSE
  BY <1>0, Parts, ZenonT(30) DEF Statics, MBut, MFields
<1>2. x = WithSM(b, b.s, M)
  BY <1>0, Parts DEF WithSM, State
<1>3. r = OrDone(AfterEnd(x, w), w)
  BY DEF GoOnOrStop
<1> HIDE DEF M, x
<1>4. Typed(x) /\ x.app = b.app /\ x.s = b.s /\ x.m = M /\ x.d = b.d
  BY <1>0, <1>1, <1>2, WithSMIs, Parts
<1>5. Based(q, x)
  <2>1. SBut(q.s, x.s, PlaceFields) /\ At(q, x)
    BY <1>4 DEF UpToDate, Only, At
  <2>2. MBut(q.m, x.m, StatusFields \cup {"fake_stop", "sav_end"})
    BY <1>1, <1>4 DEF UpToDate, Only, MBut, MFields, StatusFields
  <2> QED BY <1>1, <1>4, <2>1, <2>2 DEF UpToDate, Based, Only
<1>6. Listed(x) => x.s.segplay # "AB"
  BY <1>5 DEF Based, Only, SBut, SFields, PlaceFields, Listed
<1>7. x.d.st # "empty"
  BY <1>4 DEF UpToDate
<1>8. Passed(x, w, r)
  BY <1>3, <1>4, <1>6, <1>7, GoOnIs
<1> QED BY <1>5, <1>8 DEF Ends

(* An unreadable block is left behind, or the piece has ended. *)
Skips(q, r) ==
  /\ Only(q, r, PlaceFields, StatusFields \cup {"sav_end"}) /\ At(q, r)
  /\ r.ret = TRUE
  /\ r.d.st = "playing" /\ r.d.pos = q.d.pos + ErrSkip
  /\ r.d.end = Clip(q.m.sav_msf)
  /\ r.d.pos < r.d.end

(* An unreadable block, or one too many. *)
LEMMA AfterErrorIs ==
  ASSUME Sane, NEW q, NEW a, Typed(q), q.d.st = "error", NEW w \in World,
         Listed(q) => q.s.segplay # "AB", Subq(q, a)
  PROVE  Skips(q, AfterError(a, w)) \/ Ends(q, w, AfterError(a, w))
<1> DEFINE M == [a.m EXCEPT !.nostatcnt = 0, !.errcnt = @ + 1, !.errblk = a.s.pos]
           x == [a EXCEPT !.m.nostatcnt = 0, !.m.errcnt = @ + 1, !.m.errblk = a.s.pos]
           y == Recover(x, w)
           r == AfterError(a, w)
<1>0. Typed(a)
  BY DEF Subq, Only
<1>1. M \in Statics /\ MBut(a.m, M, StatusFields)
  <2>1. a.m.errcnt + 1 \in Nat /\ a.s.pos \in Block /\ a.m \in Statics
    BY <1>0, Parts DEF Statics, Curstat
  <2> QED BY <2>1 DEF Statics, MBut, MFields, StatusFields
<1>2. x = WithSM(a, a.s, M)
  BY <1>0, Parts DEF WithSM, State
<1>3. r = IF y.ret THEN y ELSE GoOnOrStop(y, w)
  BY Zenon DEF AfterError, OrGoOn
<1> HIDE DEF M, x, r
<1>4. Typed(x) /\ x.app = a.app /\ x.s = a.s /\ x.m = M /\ x.d = a.d
  BY <1>0, <1>1, <1>2, WithSMIs, Parts
<1>5. /\ x.d.st = "idle" /\ x.d.pos = q.d.pos /\ x.d.end = q.d.end
      /\ a.app = q.app /\ a.s.pos = q.d.pos
  BY <1>4 DEF Subq, Only, At
<1>6. Skipped(x, y)
  BY <1>4, <1>5, RecoverIs
<1> HIDE DEF y
<1>7. SBut(q.s, y.s, PlaceFields) /\ At(q, y)
  BY <1>4, <1>6 DEF Subq, Skipped, Only, At
<1>8. MBut(q.m, y.m, StatusFields \cup {"sav_end"})
  BY <1>1, <1>4, <1>6 DEF Subq, Skipped, Only, MBut, MFields, StatusFields
<1>9. Only(q, y, PlaceFields, StatusFields \cup {"sav_end"})
  BY <1>4, <1>5, <1>6, <1>7, <1>8 DEF Skipped, Only
<1>10. CASE y.ret
  <2>1. x.m.sav_msf = q.m.sav_msf
    BY <1>1, <1>4 DEF Subq, Only, MBut, MFields, StatusFields
  <2>2. y.ret = TRUE /\ y.d.st = "playing" /\ y.d.pos = q.d.pos + ErrSkip /\ y.d.end = Clip(q.m.sav_msf)
        /\ y.d.pos < y.d.end
    BY <1>4, <1>5, <1>6, <1>10, <2>1 DEF Skipped
  <2>3. r = y
    BY <1>3, <1>10
  <2>4. Skips(q, y)
    BY <1>7, <1>9, <2>2 DEF Skips
  <2> QED BY <2>3, <2>4 DEF r
<1>11. CASE ~y.ret
  <2>1. y.d = x.d
    BY <1>6, <1>11 DEF Skipped
  <2>2. UpToDate(q, y)
    BY <1>5, <1>7, <1>9, <2>1 DEF UpToDate
  <2>3. Ends(q, w, GoOnOrStop(y, w))
    BY <2>2, GoOnOrStopIs
  <2>4. r = GoOnOrStop(y, w)
    BY <1>3, <1>11
  <2> QED BY <2>3, <2>4 DEF r
<1> QED BY <1>10, <1>11

(* slioc_get_playstatus. *)
Gone(q, r) ==
  /\ Only(q, r, DiscFields, {"insert_polling"} \cup Forgotten) /\ NoDisc(q, r)
  /\ r.d = q.d /\ r.ret = FALSE /\ r.m.sav_msf = 0
  /\ q.app = "xmcd" => r.m.insert_polling = TRUE
  /\ q.app = "cda" => r.m.insert_polling = q.m.insert_polling

(* The drive plays on or is paused. *)
Goes(q, r) ==
  /\ Only(q, r, PlaceFields, {"nostatcnt", "errcnt"}) /\ At(q, r) /\ r.d = q.d
  /\ r.ret = TRUE
  /\ q.m.fake_stop = FALSE /\ q.d.st \in {"playing", "paused"}
  /\ q.d.st = "paused" => q.s.mode = "PAUSE" \/ q.m.idx_pause

(* The drive has no status: once more, but not for ever. *)
Waits(q, r) ==
  /\ Only(q, r, PlaceFields, {"nostatcnt"}) /\ At(q, r) /\ r.d = q.d
  /\ r.ret = TRUE
  /\ q.m.fake_stop = FALSE /\ q.d.st = "idle"
  /\ r.m.nostatcnt = q.m.nostatcnt + 1

(* What a status may be: no disc, all is well, no answer, a skip, an end. *)
Status(q, w, r) ==
  \/ q.d.st = "empty" /\ Gone(q, r)
  \/ q.d.st # "empty" /\ Goes(q, r)
  \/ q.d.st # "empty" /\ Waits(q, r)
  \/ q.d.st = "error" /\ q.m.fake_stop = FALSE /\ Skips(q, r)
  \/ /\ q.d.st # "empty" /\ Ends(q, w, r)
     /\ q.m.fake_stop = TRUE \/ q.d.st # "playing"
     /\ q.m.fake_stop = TRUE \/ ~(q.d.st = "paused" /\ (q.s.mode = "PAUSE" \/ q.m.idx_pause))

(* slioc_get_playstatus. *)
LEMMA GetPlaystatusIs ==
  ASSUME Sane, NEW q, Typed(q), NEW w \in World, Listed(q) => q.s.segplay # "AB"
  PROVE  Status(q, w, GetPlaystatus(q, w))
<1> SUFFICES ASSUME NEW r, r = GetPlaystatus(q, w) PROVE Status(q, w, r)
  OBVIOUS
<1>0. q.m.fake_stop \in BOOLEAN /\ q.m.idx_pause \in BOOLEAN /\ q.m.nostatcnt \in Nat
      /\ q.d.st \in {"empty", "idle", "playing", "paused", "done", "error"}
  BY Parts DEF Statics, Drive
<1>1. CASE q.d.st = "empty"
  <2> DEFINE a == DiscReady(q)
  <2>1. r = NoAnswer(a)
    BY <1>1, Taken DEF GetPlaystatus, Command
  <2>2. Readied(q, a)
    BY DiscReadyIs
  <2> HIDE DEF a
  <2>3. Typed(a) /\ a.ret = FALSE
    BY <1>1, <2>2 DEF Readied, Only
  <2>4. r = ForgetEnd(a)
    BY <2>1, <2>3 DEF NoAnswer
  <2>5. Forgot(a, r)
    BY <2>3, <2>4, ForgetEndIs
  <2>6. /\ Only(q, a, DiscFields, {"insert_polling"}) /\ NoDisc(q, a)
        /\ a.d = q.d
        /\ q.app = "xmcd" => a.m.insert_polling = TRUE
        /\ q.app = "cda" => a.m.insert_polling = q.m.insert_polling
    BY <1>1, <2>2 DEF Readied
  <2>7. Only(q, r, DiscFields, {"insert_polling"} \cup Forgotten)
    BY <2>5, <2>6 DEF Forgot, Only, SBut, SFields, MBut, MFields, Forgotten
  <2>8. NoDisc(q, r)
    BY <2>5, <2>6 DEF Forgot, Only, SBut, SFields, NoDisc
  <2>9. r.m.insert_polling = a.m.insert_polling
    BY <2>5 DEF Forgot, Only, MBut, MFields, Forgotten
  <2> QED BY <1>1, <2>3, <2>5, <2>6, <2>7, <2>8, <2>9 DEF Forgot, Gone, Status
<1>2. CASE q.d.st # "empty"
  <2> DEFINE a == ReadSubq(q)
             st == StatusOf(q)
  <2>1. r = Answered(a, w, st)
    BY <1>2, Taken DEF GetPlaystatus, Command
  <2>2. Subq(q, a)
    BY ReadSubqIs
  <2> HIDE DEF a
  <2>3. /\ Typed(a) /\ a.m = q.m /\ a.app = q.app /\ a.s.pos \in Int
        /\ a.m.errblk \in Int /\ a.m.errcnt \in Nat
    <3>1. Typed(a) /\ a.m = q.m /\ a.app = q.app
      BY <2>2 DEF Subq, Only
    <3>2. a.s.pos \in Block /\ a.m.errblk \in Block /\ a.m.errcnt \in Nat
      BY <3>1, Parts DEF Curstat, Statics
    <3> QED BY <3>1, <3>2 DEF Block
  <2>4. a.d = [q.d EXCEPT !.st = a.d.st]
    <3>1. a.d \in Drive /\ q.d \in Drive
      BY <2>3, Parts
    <3> QED BY <2>2, <3>1 DEF Subq, Drive
  <2>4a. q.d.st \notin {"done", "error"} => a.d = q.d
    <3>1. a.d \in Drive /\ q.d \in Drive
      BY <2>3, Parts
    <3> QED BY <2>2, <3>1 DEF Subq, Drive
  <2>5. UpToDate(q, a)
    <3>1. MBut(q.m, a.m, StatusFields \cup {"sav_end"})
      BY <2>3, SameM
    <3> QED BY <2>2, <3>1 DEF Subq, UpToDate, Only
  <2>6. CASE st \in {"PLAYING", "PAUSED"}
    <3> DEFINE n == IF a.s.pos - a.m.errblk > ErrClear THEN 0 ELSE a.m.errcnt
               M == [a.m EXCEPT !.nostatcnt = 0, !.errcnt = n]
               x == [a EXCEPT !.m.nostatcnt = 0, !.m.errcnt = n]
    <3>1. r = Ret(x, TRUE)
      BY <2>1, <2>6 DEF Answered
    <3>2. n \in Nat
      BY <2>3
    <3> HIDE DEF n
    <3>3. M \in Statics /\ MBut(a.m, M, {"nostatcnt", "errcnt"})
      BY <2>3, <3>2, Parts, ZenonT(30) DEF Statics, MBut, MFields
    <3>4. x = WithSM(a, a.s, M)
      BY <2>3, Parts DEF WithSM, State
    <3> HIDE DEF M, x
    <3>5. Typed(x) /\ x.app = q.app /\ x.s = a.s /\ x.m = M /\ x.d = a.d
      BY <2>3, <3>3, <3>4, WithSMIs, Parts
    <3>6. /\ Typed(r) /\ r.app = q.app /\ r.s = a.s /\ r.m = M /\ r.d = a.d
          /\ r.ret = TRUE
      BY <3>1, <3>5, RetIs, ZenonT(30) DEF Typed
    <3>7. Only(q, r, PlaceFields, {"nostatcnt", "errcnt"}) /\ At(q, r)
      BY <2>2, <2>3, <3>3, <3>6 DEF Subq, Only, At
    <3>8. /\ q.m.fake_stop = FALSE /\ q.d.st \in {"playing", "paused"}
          /\ q.d.st = "paused" => q.s.mode = "PAUSE" \/ q.m.idx_pause
      BY <1>0, <2>6 DEF StatusOf
    <3> QED BY <1>2, <2>4a, <3>6, <3>7, <3>8 DEF Goes, Status
  <2>7. CASE st = "FAILED"
    <3>1. r = AfterError(a, w)
      BY <2>1, <2>7 DEF Answered
    <3>2. q.d.st = "error" /\ q.m.fake_stop = FALSE
      BY <1>0, <2>7 DEF StatusOf
    <3> QED BY <2>2, <3>1, <3>2, AfterErrorIs DEF Status
  <2>8. CASE st = "NOSTATUS" /\ a.m.nostatcnt < MaxNoStat
    <3> DEFINE M == [a.m EXCEPT !.nostatcnt = @ + 1]
               x == [a EXCEPT !.m.nostatcnt = @ + 1]
    <3>1. r = Ret(x, TRUE)
      BY <2>1, <2>8, <2>3, <1>0, Blks DEF Answered
    <3>3. /\ M \in Statics /\ MBut(a.m, M, {"nostatcnt"})
          /\ M.nostatcnt = a.m.nostatcnt + 1
      BY <2>3, Parts DEF Statics, MBut, MFields
    <3>4. x = WithSM(a, a.s, M)
      BY <2>3, Parts DEF WithSM, State
    <3> HIDE DEF M, x
    <3>5. Typed(x) /\ x.app = q.app /\ x.s = a.s /\ x.m = M /\ x.d = a.d
      BY <2>3, <3>3, <3>4, WithSMIs, Parts, SMTT(30)
    <3>6. /\ Typed(r) /\ r.app = q.app /\ r.s = a.s /\ r.m = M /\ r.d = a.d
          /\ r.ret = TRUE
      BY <3>1, <3>5, RetIs, ZenonT(30) DEF Typed
    <3>7. Only(q, r, PlaceFields, {"nostatcnt"}) /\ At(q, r)
      BY <2>2, <2>3, <3>3, <3>6 DEF Subq, Only, At
    <3>8. q.m.fake_stop = FALSE /\ q.d.st = "idle"
      BY <1>0, <1>2, <2>8 DEF StatusOf
    <3> QED BY <1>2, <2>3, <2>4a, <3>3, <3>6, <3>7, <3>8 DEF Waits, Status
  <2>9. CASE st \notin {"PLAYING", "PAUSED", "FAILED"} /\ ~(st = "NOSTATUS" /\ a.m.nostatcnt < MaxNoStat)
    <3>1. r = GoOnOrStop(a, w)
      BY <2>1, <2>9, <2>3, <1>0, Blks DEF Answered
    <3>2. Ends(q, w, r)
      BY <1>2, <2>5, <3>1, GoOnOrStopIs
    <3>3. /\ q.m.fake_stop = TRUE \/ q.d.st # "playing"
          /\ q.m.fake_stop = TRUE \/ ~(q.d.st = "paused" /\ (q.s.mode = "PAUSE" \/ q.m.idx_pause))
      BY <1>0, <2>9 DEF StatusOf
    <3> QED BY <1>2, <3>2, <3>3 DEF Status
  <2> HIDE DEF st
  <2> QED BY <2>6, <2>7, <2>8, <2>9
<1> QED BY <1>1, <1>2

-----------------------------------------------------------------------------
(* A status keeps Ok. *)

(* Equality of the fields that a frame leaves alone. *)
LEMMA Fields ==
  ASSUME NEW q, NEW r, NEW F, NEW G, Only(q, r, F, G)
  PROVE  /\ r.app = q.app
         /\ "mode" \notin F => r.s.mode = q.s.mode
         /\ "cur_trk" \notin F => r.s.cur_trk = q.s.cur_trk
         /\ "off" \notin F => r.s.off = q.s.off
         /\ "segplay" \notin F => r.s.segplay = q.s.segplay
         /\ "endpos" \notin F => r.s.endpos = q.s.endpos
         /\ "program" \notin F => r.s.program = q.s.program
         /\ "onetrk" \notin F => r.s.onetrk = q.s.onetrk
         /\ "shuffle" \notin F => r.s.shuffle = q.s.shuffle
         /\ "repeat" \notin F => r.s.repeat = q.s.repeat
         /\ "plan" \notin F => r.s.plan = q.s.plan
         /\ "order" \notin F => r.s.order = q.s.order
         /\ "prog_cnt" \notin F => r.s.prog_cnt = q.s.prog_cnt
         /\ "fake_stop" \notin G => r.m.fake_stop = q.m.fake_stop
         /\ "idx_pause" \notin G => r.m.idx_pause = q.m.idx_pause
         /\ "new_progshuf" \notin G => r.m.new_progshuf = q.m.new_progshuf
         /\ "stat_polling" \notin G => r.m.stat_polling = q.m.stat_polling
         /\ "stat_id" \notin G => r.m.stat_id = q.m.stat_id
         /\ "stray" \notin G => r.m.stray = q.m.stray
         /\ "ask" \notin G => r.m.ask = q.m.ask
         /\ "searching" \notin G => r.m.searching = q.m.searching
         /\ "search_id" \notin G => r.m.search_id = q.m.search_id
         /\ "sav_msf" \notin G => r.m.sav_msf = q.m.sav_msf
BY DEF Only, SBut, MBut, SFields, MFields

(* What the invariant speaks of, and the rest. *)
Idle == {"next_sam", "sav_end", "errcnt", "errblk", "nostatcnt", "insert_polling",
         "start_search", "start_addr"}

(* The timers are as they were. *)
TimersOf(q, r) ==
  /\ r.m.stat_polling = q.m.stat_polling /\ r.m.stat_id = q.m.stat_id
  /\ r.m.stray = q.m.stray

LEMMA ClippedMsf ==
  ASSUME NEW q, Typed(q)
  PROVE  /\ Clip(q.m.sav_msf) \in Int /\ q.d.end \in Int /\ q.d.pos \in Nat
         /\ q.s.endpos \in Nat
<1>1. /\ q.m.sav_msf \in Int /\ q.d.end \in Block /\ q.d.pos \in Block
      /\ q.s.endpos \in Block
  BY Parts DEF Typed, Statics, Drive, Curstat
<1> QED BY <1>1, Clipped DEF Block

(* Nothing is playing and nothing is to come. *)
LEMMA StoppedOk ==
  ASSUME NEW q, NEW r, NEW o, Typed(r), Flags(r, o), Lists(r), Resumable(r, o),
         r.s.mode \in {"STOP", "NODISC"}, r.d.st \notin {"playing", "error"}
  PROVE  Ok(r, o)
BY DEF Ok, Entered, On, Quiet, InSeg, InEntries

(* A block lies in one track. *)
LEMMA SameTrack ==
  ASSUME NEW t \in Track, NEW u \in Track, NEW b \in Nat,
         Toc[t] <= b, b < TrackEnd(t), Toc[u] <= b, b < TrackEnd(u)
  PROVE  t = u
BY TrackAtIs

(* No disc. *)
LEMMA GoneOk ==
  ASSUME Sane, NEW q, NEW r, NEW o, Typed(q), Ok(q, o), q.d.st = "empty",
         Gone(q, r)
  PROVE  Ok(r, o) /\ r.s.mode = "NODISC" /\ r.s.off = 0 /\ TimersOf(q, r)
<1> DEFINE G == {"insert_polling"} \cup Forgotten
<1>1. Only(q, r, DiscFields, G)
  BY DEF Gone
<1>2. /\ r.app = q.app /\ r.s.shuffle = q.s.shuffle
      /\ r.m.searching = q.m.searching
      /\ r.m.search_id = q.m.search_id /\ r.m.ask = q.m.ask /\ TimersOf(q, r)
  BY <1>1, Fields DEF DiscFields, Forgotten, TimersOf
<1>3. /\ r.s.onetrk = FALSE /\ r.s.program = FALSE /\ r.s.mode = "NODISC"
      /\ r.s.segplay = "NONE"
      /\ r.s.off = 0 /\ r.d.st = "empty" /\ Typed(r)
  BY <1>1 DEF Gone, NoDisc, Only
<1>4. Flags(r, o) /\ Lists(r) /\ Resumable(r, o)
  BY <1>2, <1>3 DEF Ok, Flags, Lists, Resumable, Heard, Listed, TimersOf
<1> QED BY <1>2, <1>3, <1>4, StoppedOk

(* The same place, shown anew. *)
LEMMA SamePlaceOk ==
  ASSUME Sane, NEW q, NEW r, NEW o, Typed(q), Ok(q, o), q.d.st # "empty",
         Listed(q) => q.s.mode # "PAUSE",
         Only(q, r, PlaceFields, StatusFields \cup {"fake_stop", "sav_end"}),
         At(q, r),
         r.d.pos = q.d.pos, r.d.end = q.d.end, r.d.st \in {q.d.st, "idle"}
  PROVE  Ok(r, o) /\ r.s.mode = q.s.mode /\ TimersOf(q, r)
<1>1. /\ r.app = q.app /\ r.s.shuffle = q.s.shuffle
      /\ r.m.searching = q.m.searching
      /\ r.m.search_id = q.m.search_id /\ r.m.ask = q.m.ask /\ TimersOf(q, r)
      /\ r.s.mode = q.s.mode /\ r.s.segplay = q.s.segplay
      /\ r.s.program = q.s.program
      /\ r.s.onetrk = q.s.onetrk /\ r.s.plan = q.s.plan
  BY Fields DEF PlaceFields, StatusFields, TimersOf
<1>1a. /\ r.s.order = q.s.order /\ r.s.prog_cnt = q.s.prog_cnt
       /\ r.s.repeat = q.s.repeat
       /\ r.s.endpos = q.s.endpos /\ r.m.new_progshuf = q.m.new_progshuf
       /\ r.m.sav_msf = q.m.sav_msf
  BY Fields DEF PlaceFields, StatusFields
<1>2. Flags(r, o) /\ Lists(r)
  BY <1>1 DEF Ok, Flags, Lists, Listed, TimersOf
<1>3. Entered(r) /\ Quiet(r) /\ InSeg(r) /\ Resumable(r, o)
  BY <1>1, <1>1a DEF Ok, Entered, On, Listed, Quiet, InSeg, Resumable, Heard
<1>4. InEntries(r, o)
  <2> SUFFICES ASSUME q.app = "xmcd", On(q), Listed(q), EntryOf(q) \in Audio
               PROVE  InEntry(r, o, EntryOf(q))
    BY <1>1, <1>1a DEF InEntries, InEntry, On, Listed, EntryOf
  <2>1. InEntry(q, o, EntryOf(q)) /\ q.s.mode = "PLAY"
    BY DEF Ok, InEntries, On
  <2>2. "warp" \in o => Within(q, EntryOf(q))
    BY <2>1 DEF InEntry
  <2>3. "warp" \in o => r.s.cur_trk = EntryOf(q)
    <3>1. EntryOf(q) \in Track /\ q.d.pos \in Nat
      BY ClippedMsf, Discs
    <3> QED BY <2>2, <3>1, SameTrack DEF At, Within
  <2> QED BY <1>1, <1>1a, <2>1, <2>3 DEF InEntry, Within, Heard
<1> QED BY <1>1, <1>2, <1>3, <1>4 DEF Ok

(* A block left behind. *)
LEMMA SkipsOk ==
  ASSUME Sane, NEW q, NEW r, NEW o, Typed(q), Ok(q, o), q.d.st = "error",
         Listed(q) => q.s.mode # "PAUSE", Skips(q, r)
  PROVE  /\ Ok(r, o) /\ r.s.mode = q.s.mode /\ q.s.mode \in {"PLAY", "SAMPLE"}
         /\ TimersOf(q, r)
<1> DEFINE G == StatusFields \cup {"sav_end"}
<1>0. Only(q, r, PlaceFields, G) /\ At(q, r)
  BY DEF Skips
<1>1. /\ r.app = q.app /\ r.s.shuffle = q.s.shuffle
      /\ r.m.searching = q.m.searching
      /\ r.m.search_id = q.m.search_id /\ r.m.ask = q.m.ask /\ TimersOf(q, r)
      /\ r.s.mode = q.s.mode /\ r.s.segplay = q.s.segplay
      /\ r.s.program = q.s.program
      /\ r.s.onetrk = q.s.onetrk /\ r.s.plan = q.s.plan
  BY <1>0, Fields DEF PlaceFields, StatusFields, TimersOf
<1>1a. /\ r.s.order = q.s.order /\ r.s.prog_cnt = q.s.prog_cnt
       /\ r.s.repeat = q.s.repeat
       /\ r.s.endpos = q.s.endpos /\ r.m.new_progshuf = q.m.new_progshuf
       /\ r.m.sav_msf = q.m.sav_msf
  BY <1>0, Fields DEF PlaceFields, StatusFields
<1>1b. /\ r.d.st = "playing" /\ r.d.pos = q.d.pos + ErrSkip
       /\ r.d.end = Clip(q.m.sav_msf)
       /\ r.d.pos < r.d.end
  BY DEF Skips
<1>1c. q.s.mode \in {"PLAY", "SAMPLE"}
  BY DEF Ok, Quiet
<1>1d. Clip(q.m.sav_msf) \in Int /\ q.d.pos \in Nat
  BY ClippedMsf
<1>2. Flags(r, o) /\ Lists(r)
  BY <1>1 DEF Ok, Flags, Lists, Listed, TimersOf
<1>3. Entered(r) /\ Quiet(r)
  BY <1>1, <1>1a, <1>1c DEF Ok, Entered, On, Listed, Quiet
<1>4. InSeg(r) /\ Resumable(r, o)
  BY <1>1, <1>1a, <1>1b, <1>1d DEF Ok, InSeg, On, Resumable, Heard
<1>5. InEntries(r, o)
  <2> SUFFICES ASSUME q.app = "xmcd", On(q), Listed(q), EntryOf(q) \in Audio
               PROVE  InEntry(r, o, EntryOf(q))
    BY <1>1, <1>1a DEF InEntries, InEntry, On, Listed, EntryOf
  <2> DEFINE t == EntryOf(q)
  <2>1. Within(q, t) /\ Clip(q.m.sav_msf) <= TrackEnd(t)
    BY DEF Ok, InEntries, InEntry, Heard
  <2>2. t \in Track /\ Toc[t] \in Nat /\ TrackEnd(t) \in Nat
    BY Discs, TrackBounds
  <2> HIDE DEF t
  <2>3. r.s.cur_trk = t
    BY <1>0, <1>1d, <2>1, <2>2, SameTrack DEF At, Within
  <2>4. Within(r, t)
    BY <1>1b, <1>1d, <2>1, <2>2, Blks DEF Within
  <2>5. r.d.end <= TrackEnd(t) /\ Clip(r.m.sav_msf) <= TrackEnd(t)
    BY <1>1a, <1>1b, <2>1
  <2>6. InEntry(r, o, t)
    BY <2>3, <2>4, <2>5 DEF InEntry
  <2> QED BY <2>6 DEF t
<1> QED BY <1>1, <1>1c, <1>2, <1>3, <1>4, <1>5 DEF Ok

(* The timers are as they were, or set. *)
Polls(q, r) ==
  TimersOf(q, r) \/ (q.app = "xmcd" /\ r.m.stat_polling = TRUE /\ r.m.stat_id = TRUE)

(* The next entry of a list. *)
LEMMA EntryOk ==
  ASSUME Sane, NEW q, NEW r, NEW o, NEW w \in World, Typed(q), Flags(q, o),
         Lists(q),
         On(q), Listed(q), HasAudio(q.s.order), Quiet(q), Resumable(q, o),
         ListFollowed(q, w, r), ~ Over(q, w)
  PROVE  Ok(r, o) /\ r.s.mode = q.s.mode /\ TimersOf(q, r) /\ r.ret = TRUE
<1> DEFINE F == EntryFields \cup {"off", "order"}
           G == Sav \cup {"new_progshuf"}
           n == From(q) + 1
           t == Ord(q, w)[n]
<1>1. Only(q, r, F, G) /\ r.s.mode = q.s.mode
  BY DEF ListFollowed
<1>2. /\ r.s.prog_cnt = n /\ r.s.order = Ord(q, w) /\ r.s.cur_trk = t
      /\ r.ret = TRUE
      /\ r.m.new_progshuf = (q.s.repeat /\ r.s.prog_cnt >= Len(r.s.order))
  BY DEF ListFollowed
<1>3. IF t \in DataTracks THEN r.d = q.d /\ r.m.sav_msf = q.m.sav_msf
      ELSE /\ r.m.sav_msf = TrackEnd(t)
           /\ r.d.pos = Toc[t] /\ r.d.end = Clip(TrackEnd(t))
           /\ r.d.st = IF q.s.mode = "PAUSE" THEN "paused" ELSE "playing"
  BY DEF ListFollowed
<1>4. n \in 1..Len(Ord(q, w)) /\ t \in Track /\ Len(Ord(q, w)) \in Nat
  BY OrdIs
<1>5. HasAudio(Ord(q, w))
  <2>1. w.order \in Orders
    BY DEF World
  <2> QED BY <2>1, OrderIs DEF Ord
<1> HIDE DEF n, t
<1>6. /\ r.app = q.app /\ r.s.shuffle = q.s.shuffle
      /\ r.m.searching = q.m.searching
      /\ r.m.search_id = q.m.search_id /\ r.m.ask = q.m.ask /\ TimersOf(q, r)
      /\ r.s.segplay = q.s.segplay /\ r.s.program = q.s.program
      /\ r.s.onetrk = q.s.onetrk /\ r.s.plan = q.s.plan
      /\ r.s.repeat = q.s.repeat
  BY <1>1, Fields DEF EntryFields, Sav, TimersOf
<1>7. Flags(r, o) /\ Lists(r)
  BY <1>1, <1>6 DEF Flags, Lists, Listed, TimersOf
<1>8. Entered(r)
  <2>1. /\ r.s.prog_cnt \in 1..Len(r.s.order) /\ HasAudio(r.s.order)
        /\ Len(r.s.order) \in Nat
    BY <1>2, <1>4, <1>5
  <2>2. r.m.new_progshuf => r.s.repeat /\ r.s.prog_cnt >= Len(r.s.order)
    BY <1>2, <1>6
  <2>3. r.m.new_progshuf => r.s.repeat /\ r.s.prog_cnt = Len(r.s.order)
    BY <2>1, <2>2
  <2> QED BY <2>1, <2>3 DEF Entered
<1>9. r.s.segplay = "NONE" /\ q.s.mode \in {"PLAY", "PAUSE"}
  BY <1>6 DEF Lists, On, Listed
<1>10. CASE t \in DataTracks
  <2>1. Quiet(r) /\ Resumable(r, o) /\ InSeg(r)
    BY <1>1, <1>3, <1>9, <1>10 DEF Quiet, Resumable, InSeg
  <2>2. InEntries(r, o)
    BY <1>2, <1>10 DEF InEntries, InEntry, EntryOf, Audio, t
  <2> QED BY <1>1, <1>2, <1>6, <1>7, <1>8, <2>1, <2>2 DEF Ok
<1>11. CASE t \notin DataTracks
  <2>1. /\ Clip(TrackEnd(t)) <= TrackEnd(t) /\ Toc[t] < TrackEnd(t)
        /\ Toc[t] \in Nat
    BY <1>4, TrackBounds, Clipped
  <2>1a. Clip(TrackEnd(t)) \in Int
    BY <1>4, TrackBounds, Clipped
  <2>2. Quiet(r) /\ Resumable(r, o) /\ InSeg(r)
    BY <1>1, <1>3, <1>9, <1>11, <2>1a DEF Quiet, Resumable, InSeg
  <2>3. /\ Within(r, t) /\ r.d.end <= TrackEnd(t)
        /\ Clip(r.m.sav_msf) <= TrackEnd(t)
    BY <1>3, <1>11, <2>1 DEF Within
  <2>4. EntryOf(r) = t
    BY <1>2 DEF EntryOf, t
  <2>5. InEntries(r, o)
    BY <1>2, <2>3, <2>4 DEF InEntries, InEntry
  <2> QED BY <1>1, <1>2, <1>6, <1>7, <1>8, <2>2, <2>5 DEF Ok
<1> QED BY <1>10, <1>11

(* A list that is over and repeated. *)
LEMMA OverOk ==
  ASSUME Sane, NEW q, NEW r, NEW o, NEW w \in World, Typed(q), Ok(q, o),
         Listed(q), On(q),
         ListFollowed(q, w, r), Over(q, w), r.ret = TRUE
  PROVE  Ok(r, o) /\ r.s.mode = q.s.mode /\ TimersOf(q, r)
<1> DEFINE F == {"off", "prog_cnt", "order"}
           G == {"new_progshuf"}
<1>1. /\ Only(q, r, F, G) /\ r.s.prog_cnt = From(q) /\ r.d = q.d
      /\ q.s.repeat = TRUE
      /\ r.s.order = Ord(q, w)
      /\ r.m.new_progshuf = (q.s.repeat /\ r.s.prog_cnt >= Len(r.s.order))
  BY DEF ListFollowed
<1>2. /\ q.s.prog_cnt \in 1..Len(q.s.order) /\ HasAudio(q.s.order)
      /\ Len(q.s.order) \in Nat
  BY Parts DEF Ok, Entered, Curstat
<1>3. q.m.new_progshuf = FALSE
  <2> SUFFICES ASSUME q.m.new_progshuf PROVE FALSE
    BY Parts DEF Statics
  <2>1. w.order \in Orders
    BY DEF World
  <2>2. HasAudio(Ord(q, w)) /\ Len(Ord(q, w)) > 0
    BY <1>2, <2>1, OrderIs DEF Ord
  <2>3. From(q) = 0
    BY DEF From
  <2> QED BY <2>2, <2>3, OrdIs DEF Over, Mute
<1>4. From(q) = q.s.prog_cnt /\ Ord(q, w) = q.s.order
  BY <1>3 DEF From, Ord
<1>5. q.s.prog_cnt >= Len(q.s.order)
  BY <1>3, <1>4 DEF Over, Mute
<1>6. q.s.prog_cnt = Len(q.s.order)
  BY <1>2, <1>5
<1>7. /\ r.app = q.app /\ r.s.shuffle = q.s.shuffle
      /\ r.m.searching = q.m.searching
      /\ r.m.search_id = q.m.search_id /\ r.m.ask = q.m.ask /\ TimersOf(q, r)
      /\ r.s.mode = q.s.mode /\ r.s.segplay = q.s.segplay
      /\ r.s.program = q.s.program
      /\ r.s.onetrk = q.s.onetrk /\ r.s.plan = q.s.plan
  BY <1>1, Fields DEF TimersOf
<1>7a. /\ r.s.order = q.s.order /\ r.s.prog_cnt = q.s.prog_cnt
       /\ r.s.repeat = q.s.repeat
       /\ r.s.endpos = q.s.endpos /\ r.m.sav_msf = q.m.sav_msf
       /\ r.s.cur_trk = q.s.cur_trk
  BY <1>1, <1>4, Fields
<1>8. Flags(r, o) /\ Lists(r)
  BY <1>7 DEF Ok, Flags, Lists, Listed, TimersOf
<1>9. Entered(r) /\ Quiet(r) /\ InSeg(r) /\ Resumable(r, o)
  BY <1>1, <1>2, <1>6, <1>7, <1>7a
     DEF Ok, Entered, On, Listed, Quiet, InSeg, Resumable
<1>10. InEntries(r, o)
  BY <1>1, <1>7, <1>7a DEF Ok, InEntries, InEntry, On, Listed, EntryOf, Within
<1> QED BY <1>7, <1>8, <1>9, <1>10 DEF Ok

(* A disc or a segment begins again. *)
LEMMA DiscOk ==
  ASSUME Sane, NEW q, NEW r, NEW o, Typed(q), Flags(q, o), Lists(q),
         On(q), ~ Listed(q), DiscFollowed(q, r), r.ret = TRUE
  PROVE  /\ Ok(r, o) /\ Polls(q, r)
         /\ \/ r.s.mode = q.s.mode
            \/ r.s.mode = "PLAY" /\ r.m.stat_polling = TRUE /\ r.m.stat_id = TRUE
<1> DEFINE F == PlaceFields \cup {"mode"}
           G == Sav \cup TimerFields
<1>1. Only(q, r, F, G) /\ r.d.end = Clip(r.m.sav_msf) /\ Typed(r)
  BY DEF DiscFollowed, Only
<1>2. /\ r.app = q.app /\ r.s.shuffle = q.s.shuffle
      /\ r.m.searching = q.m.searching
      /\ r.m.search_id = q.m.search_id /\ r.m.ask = q.m.ask
      /\ r.s.segplay = q.s.segplay /\ r.s.program = q.s.program
      /\ r.s.onetrk = q.s.onetrk /\ r.s.plan = q.s.plan
      /\ r.s.endpos = q.s.endpos
  BY <1>1, Fields DEF PlaceFields, Sav, TimerFields
<1>3. q.s.mode \in {"PLAY", "PAUSE"} /\ ~ Listed(r)
  BY <1>2 DEF On, Listed
<1>4. r.d.end \in Int /\ Clip(r.m.sav_msf) \in Int
  BY <1>1, ClippedMsf
<1>4a. r.d.st # "error"
  BY DEF DiscFollowed
<1>5. Entered(r) /\ InEntries(r, o) /\ Resumable(r, o)
  BY <1>1, <1>3, <1>4, <1>4a DEF Entered, InEntries, Resumable
<1>6. CASE q.s.segplay = "AB"
  <2>1. /\ r.s.mode = "PLAY" /\ r.d.st = "playing" /\ r.m.stat_polling = TRUE
        /\ r.m.sav_msf = q.s.endpos
        /\ IF q.app = "xmcd" THEN r.m.stat_id = TRUE
           ELSE r.m.stat_id = q.m.stat_id /\ r.m.stray = q.m.stray
    BY <1>6 DEF DiscFollowed
  <2>2. q.app = "xmcd"
    BY <1>6, Parts DEF Flags, Typed, State
  <2>3. q.s.endpos \in Nat
    BY ClippedMsf
  <2>4. Clip(q.s.endpos) <= q.s.endpos
    BY <2>3, Clipped
  <2>5. Quiet(r) /\ InSeg(r)
    BY <1>1, <1>2, <2>1, <2>4 DEF Quiet, InSeg
  <2>6. Flags(r, o) /\ Lists(r)
    BY <1>2, <1>3, <2>1, <2>2 DEF Flags, Lists, Listed
  <2> QED BY <1>5, <2>1, <2>2, <2>5, <2>6 DEF Ok, Polls
<1>7. CASE q.s.segplay # "AB"
  <2>1. /\ r.s.mode = q.s.mode /\ MBut(q.m, r.m, Sav)
        /\ r.d.st = IF q.s.mode = "PAUSE" THEN "paused" ELSE "playing"
    BY <1>7 DEF DiscFollowed
  <2>2. TimersOf(q, r)
    BY <2>1 DEF MBut, MFields, Sav, TimersOf
  <2>3. Quiet(r) /\ InSeg(r)
    BY <1>2, <1>3, <1>7, <2>1 DEF Quiet, InSeg
  <2>4. Flags(r, o) /\ Lists(r)
    BY <1>2, <1>3, <2>1, <2>2 DEF Flags, Lists, Listed, TimersOf
  <2> QED BY <1>5, <2>1, <2>2, <2>3, <2>4 DEF Ok, Polls
<1> QED BY <1>6, <1>7

(* The next track is sampled. *)
LEMMA SampleOk ==
  ASSUME Sane, NEW q, NEW r, NEW o, Typed(q), Ok(q, o),
         q.s.mode = "SAMPLE", SampleRun(q, r), r.ret = TRUE
  PROVE  Ok(r, o) /\ r.s.mode = q.s.mode /\ TimersOf(q, r)
<1> DEFINE G == {"next_sam"} \cup Sav
<1>1. Only(q, r, {}, G) /\ Typed(r)
  BY DEF SampleRun, Only
<1>2. \/ r.d = q.d /\ r.m.sav_msf = q.m.sav_msf
      \/ r.d.st = "playing" /\ r.d.end = Clip(r.m.sav_msf)
  BY DEF SampleRun
<1>3. /\ r.app = q.app /\ r.s.shuffle = q.s.shuffle
      /\ r.m.searching = q.m.searching
      /\ r.m.search_id = q.m.search_id /\ r.m.ask = q.m.ask /\ TimersOf(q, r)
      /\ r.s.mode = q.s.mode /\ r.s.segplay = q.s.segplay
      /\ r.s.program = q.s.program
      /\ r.s.onetrk = q.s.onetrk /\ r.s.plan = q.s.plan
  BY <1>1, Fields DEF Sav, TimersOf
<1>4. Flags(r, o) /\ Lists(r)
  BY <1>3 DEF Ok, Flags, Lists, Listed, TimersOf
<1>5. Clip(r.m.sav_msf) \in Int
  BY <1>1, ClippedMsf
<1>6. Entered(r) /\ InEntries(r, o) /\ InSeg(r) /\ Quiet(r)
  BY <1>3 DEF Entered, InEntries, InSeg, Quiet, On
<1>7. Resumable(r, o)
  BY <1>2, <1>5 DEF Ok, Resumable
<1> QED BY <1>3, <1>4, <1>6, <1>7 DEF Ok

(* Nothing follows. *)
LEMMA OverStopOk ==
  ASSUME Sane, NEW q, NEW r, NEW o, Typed(q), Ok(q, o), RunOut(q, r)
  PROVE  /\ Ok(r, o) /\ r.s.mode = "STOP" /\ r.s.off = 0 /\ TimersOf(q, r)
         /\ r.ret = FALSE
         /\ r.d.st \in {"idle", "paused"}
<1>1. /\ Only(q, r, EndFields, EndM) /\ Typed(r) /\ r.ret = FALSE
      /\ r.s.mode = "STOP" /\ r.s.segplay = (IF q.s.segplay = "A" THEN "NONE" ELSE q.s.segplay)
      /\ r.s.off = 0 /\ r.s.onetrk = FALSE /\ (~ q.s.onetrk => r.s.plan = q.s.plan)
      /\ r.d.st \in StoppedAs
  BY DEF RunOut, Only
<1>2. r.s.program => q.s.program /\ ~ q.s.onetrk
  <2>1. r.s.program = (q.s.program /\ ~ q.s.onetrk)
    BY DEF RunOut
  <2> QED BY <2>1
<1>3. /\ r.app = q.app /\ r.s.shuffle = q.s.shuffle
      /\ r.m.searching = q.m.searching
      /\ r.m.search_id = q.m.search_id /\ r.m.ask = q.m.ask /\ TimersOf(q, r)
  BY <1>1, Fields DEF EndFields, EndM, Forgotten, TimersOf
<1>4. Flags(r, o) /\ Lists(r)
  BY <1>1, <1>2, <1>3 DEF Ok, Flags, Lists, Listed, TimersOf
<1>5. r.d.st \in {"idle", "paused"}
  BY <1>1, Blks
<1>6. Resumable(r, o)
  BY <1>1, <1>5 DEF Resumable, Heard
<1> QED BY <1>1, <1>3, <1>4, <1>5, <1>6, StoppedOk

(* What follows an end that nobody forced. *)
Went(q, r) ==
  /\ Polls(q, r) /\ r.ret \in BOOLEAN
  /\ r.ret = FALSE => r.s.mode \in {"STOP", "NODISC"} /\ r.s.off = 0
  /\ r.ret = TRUE => /\ \/ r.s.mode = q.s.mode
                        \/ r.s.mode = "PLAY" /\ r.m.stat_polling = TRUE /\ r.m.stat_id = TRUE
                     /\ r.d.st # "empty"
                     /\ r.s.mode \in {"STOP", "NODISC"} => r.d.st = "idle"
  /\ r.s.mode = "NODISC" => r.d.st = "empty" \/ r.s.mode = q.s.mode

(* The end of a piece. *)
LEMMA PassedOk ==
  ASSUME Sane, NEW q, NEW r, NEW o, NEW w \in World, Typed(q), Ok(q, o),
         q.d.st \notin {"empty", "error"}, Passed(q, w, r)
  PROVE  Ok(r, o) /\ Went(q, r)
<1>1. CASE RunOut(q, r)
  BY <1>1, OverStopOk DEF Went, Polls
<1>2. CASE q.s.mode = "SAMPLE" /\ SampleRun(q, r) /\ r.ret = TRUE
  <2>1. Ok(r, o) /\ r.s.mode = q.s.mode /\ TimersOf(q, r)
    BY <1>2, SampleOk
  <2>2. r.d.st # "empty"
    BY <1>2 DEF SampleRun
  <2> QED BY <1>2, <2>1, <2>2 DEF Went, Polls
<1>3. CASE /\ q.s.mode \in {"PLAY", "PAUSE"} /\ Listed(q) /\ ListFollowed(q, w, r) /\ r.ret = TRUE
  <2>0. On(q) /\ HasAudio(q.s.order)
    BY <1>3 DEF On, Ok, Entered
  <2>1. CASE Over(q, w)
    <3>1. Ok(r, o) /\ r.s.mode = q.s.mode /\ TimersOf(q, r)
      BY <1>3, <2>0, <2>1, OverOk
    <3>2. r.d = q.d
      BY <1>3, <2>1 DEF ListFollowed
    <3> QED BY <1>3, <3>1, <3>2 DEF Went, Polls
  <2>2. CASE ~ Over(q, w)
    <3>0. Flags(q, o) /\ Lists(q) /\ Quiet(q) /\ Resumable(q, o)
      BY DEF Ok
    <3>1. Ok(r, o) /\ r.s.mode = q.s.mode /\ TimersOf(q, r)
      BY <1>3, <2>0, <2>2, <3>0, EntryOk
    <3>2. r.d = q.d \/ r.d.st \in {"paused", "playing"}
      BY <1>3, <2>2 DEF ListFollowed
    <3> QED BY <1>3, <3>1, <3>2 DEF Went, Polls
  <2> QED BY <2>1, <2>2
<1>4. CASE /\ q.s.mode \in {"PLAY", "PAUSE"} /\ ~ Listed(q) /\ DiscFollowed(q, r) /\ r.ret = TRUE
  <2>1. /\ Ok(r, o) /\ Polls(q, r)
        /\ \/ r.s.mode = q.s.mode
           \/ r.s.mode = "PLAY" /\ r.m.stat_polling = TRUE /\ r.m.stat_id = TRUE
    BY <1>4, DiscOk DEF Ok, On
  <2>2. r.d.st # "empty"
    BY <1>4 DEF DiscFollowed
  <2> QED BY <1>4, <2>1, <2>2 DEF Went
<1> QED BY <1>1, <1>2, <1>3, <1>4 DEF Passed, GoneOn

(* A status that no end was forced for. *)
LEMMA StatusOk ==
  ASSUME Sane, NEW q, NEW o, NEW w \in World, Typed(q), Ok(q, o), Unforced(q),
         Listed(q) => q.s.mode # "PAUSE"
  PROVE  LET r == GetPlaystatus(q, w)
         IN  /\ Typed(r) /\ Ok(r, o) /\ Unforced(r) /\ Went(q, r) /\ Status(q, w, r)
             /\ q.d.st = "empty" => r.s.mode = "NODISC" /\ r.d.st = "empty"
<1> DEFINE r == GetPlaystatus(q, w)
<1>1. Listed(q) => q.s.segplay # "AB"
  BY DEF Ok, Lists
<1>2. Status(q, w, r)
  BY <1>1, GetPlaystatusIs
<1> HIDE DEF r
<1>3. CASE q.d.st = "empty" /\ Gone(q, r)
  <2>1. Ok(r, o) /\ r.s.mode = "NODISC" /\ r.s.off = 0 /\ TimersOf(q, r)
    BY <1>3, GoneOk
  <2>2. Typed(r) /\ Unforced(r)
    <3>1. Only(q, r, DiscFields, {"insert_polling"} \cup Forgotten)
      BY <1>3 DEF Gone
    <3>2. Unforced(r)
      BY <3>1, Fields DEF Unforced, Forgotten
    <3> QED BY <3>1, <3>2 DEF Only
  <2>3. r.ret = FALSE /\ r.d = q.d
    BY <1>3 DEF Gone
  <2> QED BY <1>2, <1>3, <2>1, <2>2, <2>3 DEF Went, Polls, r
<1>4. CASE q.d.st # "empty" /\ (Goes(q, r) \/ Waits(q, r))
  <2>1. /\ Only(q, r, PlaceFields, {"nostatcnt", "errcnt"}) /\ At(q, r)
        /\ r.d = q.d /\ r.ret = TRUE
    BY <1>4 DEF Goes, Waits, Only, MBut
  <2>2. Only(q, r, PlaceFields, StatusFields \cup {"fake_stop", "sav_end"})
    BY <2>1 DEF Only, MBut, StatusFields
  <2>3. Ok(r, o) /\ r.s.mode = q.s.mode /\ TimersOf(q, r)
    BY <1>4, <2>1, <2>2, SamePlaceOk
  <2>4. r.s.mode \in {"STOP", "NODISC"} => r.d.st = "idle"
    BY <1>4, <2>1, <2>3 DEF Goes, Waits, Ok, Quiet, Unforced
  <2>5. Typed(r) /\ Unforced(r)
    <3>1. Unforced(r)
      BY <2>1, Fields DEF Unforced
    <3> QED BY <2>1, <3>1 DEF Only
  <2> QED BY <1>2, <1>4, <2>1, <2>3, <2>4, <2>5 DEF Went, Polls, r
<1>5. CASE q.d.st = "error" /\ q.m.fake_stop = FALSE /\ Skips(q, r)
  <2>1. /\ Ok(r, o) /\ r.s.mode = q.s.mode /\ q.s.mode \in {"PLAY", "SAMPLE"}
        /\ TimersOf(q, r)
    BY <1>5, SkipsOk
  <2>2. /\ Only(q, r, PlaceFields, StatusFields \cup {"sav_end"})
        /\ r.ret = TRUE /\ r.d.st = "playing"
    BY <1>5 DEF Skips
  <2>3. Typed(r) /\ Unforced(r)
    <3>1. Unforced(r)
      BY <2>2, Fields DEF Unforced, StatusFields
    <3> QED BY <2>2, <3>1 DEF Only
  <2> QED BY <1>2, <1>5, <2>1, <2>2, <2>3 DEF Went, Polls, r
<1>6. CASE q.d.st # "empty" /\ Ends(q, w, r) /\ q.d.st # "playing"
  <2>1. PICK b : Based(q, b) /\ Passed(b, w, r)
    BY <1>6 DEF Ends
  <2>2. /\ Only(q, b, PlaceFields, StatusFields \cup {"fake_stop", "sav_end"})
        /\ At(q, b)
        /\ b.d.pos = q.d.pos /\ b.d.end = q.d.end /\ b.d.st \in {q.d.st, "idle"}
        /\ b.d.st # "error" /\ b.m.fake_stop = FALSE /\ Typed(b)
    BY <2>1 DEF Based, Only
  <2>3. Ok(b, o) /\ b.s.mode = q.s.mode /\ TimersOf(q, b)
    BY <1>6, <2>2, SamePlaceOk
  <2>4. b.m.idx_pause = FALSE /\ b.app = q.app
    BY <2>2, Fields DEF Unforced, StatusFields
  <2>5. Ok(r, o) /\ Went(b, r)
    BY <1>6, <2>1, <2>2, <2>3, PassedOk
  <2>6. Went(q, r)
    BY <2>3, <2>4, <2>5 DEF Went, Polls, TimersOf
  <2>7. Typed(r) /\ Unforced(r)
    <3>1. CASE RunOut(b, r)
      <4>1. Only(b, r, EndFields, EndM)
        BY <3>1 DEF RunOut
      <4>2. Unforced(r)
        BY <2>2, <2>4, <4>1, Fields DEF Unforced, EndM, Forgotten
      <4> QED BY <4>1, <4>2 DEF Only
    <3>2. CASE SampleRun(b, r)
      <4>1. Only(b, r, {}, {"next_sam"} \cup Sav)
        BY <3>2 DEF SampleRun
      <4>2. Unforced(r)
        BY <2>2, <2>4, <4>1, Fields DEF Unforced, Sav
      <4> QED BY <4>1, <4>2 DEF Only
    <3>3. CASE ListFollowed(b, w, r)
      <4>1. CASE Over(b, w)
        <5>1. Only(b, r, {"off", "prog_cnt", "order"}, {"new_progshuf"})
          BY <3>3, <4>1 DEF ListFollowed
        <5>2. Unforced(r)
          BY <2>2, <2>4, <5>1, Fields DEF Unforced
        <5> QED BY <5>1, <5>2 DEF Only
      <4>2. CASE ~ Over(b, w)
        <5>1. Only(b, r, EntryFields \cup {"off", "order"}, Sav \cup {"new_progshuf"})
          BY <3>3, <4>2 DEF ListFollowed
        <5>2. Unforced(r)
          BY <2>2, <2>4, <5>1, Fields DEF Unforced, Sav
        <5> QED BY <5>1, <5>2 DEF Only
      <4> QED BY <4>1, <4>2
    <3>4. CASE DiscFollowed(b, r)
      <4>1. Only(b, r, PlaceFields \cup {"mode"}, Sav \cup TimerFields)
        BY <3>4 DEF DiscFollowed
      <4>2. Unforced(r)
        BY <2>2, <2>4, <4>1, Fields DEF Unforced, Sav, TimerFields
      <4> QED BY <4>1, <4>2 DEF Only
    <3> QED BY <2>1, <3>1, <3>2, <3>3, <3>4 DEF Passed, GoneOn
  <2> QED BY <1>2, <1>6, <2>5, <2>6, <2>7 DEF r
<1> QED BY <1>2, <1>3, <1>4, <1>5, <1>6 DEF Status, Unforced

-----------------------------------------------------------------------------
(* The invariant between commands, and what a stop needs of it. *)

(* A poll that is on has a timer. *)
Ticks(q) == q.app = "xmcd" /\ q.m.stat_polling => q.m.stat_id \/ q.m.stray > 0

(* What a stop needs, ... *)
Stoppable(q, o) ==
  /\ Typed(q) /\ Flags(q, o) /\ Lists(q) /\ Resumable(q, o) /\ Unforced(q)
  /\ Ticks(q)

(* ... and a stopped state whose drive may not have stopped yet. *)
Nearly(q, o) == Stoppable(q, o) /\ Timed(q, o) /\ Placed(q, o)

(* The return value does not matter to Inv ... *)
LEMMA SameInv ==
  ASSUME NEW q, NEW o, Inv(q, o), NEW r, r \in State, r.s = q.s, r.m = q.m,
         r.d = q.d, r.app = q.app
  PROVE  Inv(r, o)
<1>2. Typed(r) /\ Unforced(r) /\ Timed(r, o) /\ Placed(r, o)
  BY DEF Inv, Typed, Unforced, Timed, Placed
<1>3. Flags(r, o) /\ Lists(r) /\ Entered(r) /\ Quiet(r)
  BY DEF Inv, Ok, Flags, Lists, Entered, Quiet, On, Listed
<1>4. InSeg(r) /\ InEntries(r, o) /\ Resumable(r, o)
  BY DEF Inv, Ok, InSeg, InEntries, InEntry, EntryOf, Within, Resumable, On,
         Listed
<1> QED BY <1>2, <1>3, <1>4 DEF Inv, Ok

(* ... so that another one may be returned. *)
LEMMA RetInv ==
  ASSUME NEW q, NEW o, Inv(q, o), NEW b \in BOOLEAN
  PROVE  Inv(Ret(q, b), o)
<1> DEFINE r == Ret(q, b)
<1>1. r \in State /\ r.s = q.s /\ r.m = q.m /\ r.d = q.d /\ r.app = q.app
  BY RetIs DEF Inv, Typed
<1> HIDE DEF r
<1> QED BY <1>1, SameInv DEF r

(* A change of settings. *)
Settings == {"new_progshuf", "ask"} \cup Idle

(* Inv does not speak of those. *)
LEMMA SettingInv ==
  ASSUME NEW q, NEW r, NEW o, NEW F, Inv(q, o), Only(q, r, F, Settings),
         r.d = q.d,
         "mode" \notin F, "off" \notin F, Lists(r),
         q.app = "cda" => r.s.segplay = "NONE" /\ r.s.onetrk = FALSE /\ r.m.ask = "no",
         On(q) /\ Listed(r) => /\ Listed(q) /\ r.s.order = q.s.order /\ r.s.prog_cnt = q.s.prog_cnt
                               /\ r.s.cur_trk = q.s.cur_trk,
         On(q) /\ Listed(r) /\ r.m.new_progshuf =>
           r.s.repeat /\ q.m.new_progshuf,
         On(q) /\ r.s.segplay = "AB" => q.s.segplay = "AB" /\ r.s.endpos = q.s.endpos
  PROVE  Inv(r, o)
<1>1. /\ r.app = q.app /\ r.s.mode = q.s.mode /\ r.s.off = q.s.off
      /\ r.m.fake_stop = q.m.fake_stop
      /\ r.m.idx_pause = q.m.idx_pause /\ TimersOf(q, r)
      /\ r.m.searching = q.m.searching
      /\ r.m.search_id = q.m.search_id /\ r.m.sav_msf = q.m.sav_msf
  BY Fields DEF TimersOf, Settings, Idle
<1>2. Typed(r)
  BY DEF Only
<1>3. Unforced(r) /\ Timed(r, o) /\ Placed(r, o)
  BY <1>1 DEF Inv, Unforced, Timed, Placed, TimersOf
<1>4. Flags(r, o) /\ Quiet(r) /\ Resumable(r, o)
  BY <1>1 DEF Inv, Ok, Flags, Quiet, Resumable, TimersOf
<1>5. InSeg(r)
  BY <1>1 DEF Inv, Ok, InSeg, On
<1>6. Entered(r)
  BY <1>1 DEF Inv, Ok, Entered, On
<1>7. InEntries(r, o)
  BY <1>1 DEF Inv, Ok, InEntries, InEntry, EntryOf, Within, On
<1> QED BY <1>2, <1>3, <1>4, <1>5, <1>6, <1>7 DEF Inv, Ok

(* slioc_disc_ready. *)
LEMMA ReadyInv ==
  ASSUME Sane, NEW q, NEW o, Typed(q), Flags(q, o), Unforced(q), Ticks(q),
         Resumable(q, o),
         q.d.st = "empty"
  PROVE  LET r == DiscReady(q)
         IN  Inv(r, o) /\ r.ret = FALSE /\ r.s.mode = "NODISC" /\ r.d.st = "empty" /\ NoDisc(q, r)
             /\ r.m.ask = q.m.ask
<1> DEFINE r == DiscReady(q)
<1>1. /\ r.d = q.d /\ Only(q, r, DiscFields, {"insert_polling"}) /\ NoDisc(q, r)
      /\ r.ret = FALSE
  BY DiscReadyIs DEF Readied
<1> HIDE DEF r
<1>2. /\ r.app = q.app /\ r.s.shuffle = q.s.shuffle
      /\ r.m.searching = q.m.searching
      /\ r.m.search_id = q.m.search_id /\ r.m.ask = q.m.ask /\ TimersOf(q, r)
      /\ r.m.fake_stop = q.m.fake_stop /\ r.m.idx_pause = q.m.idx_pause
      /\ r.m.sav_msf = q.m.sav_msf
  BY <1>1, Fields DEF DiscFields, TimersOf
<1>3. /\ r.s.onetrk = FALSE /\ r.s.program = FALSE /\ r.s.mode = "NODISC"
      /\ r.s.segplay = "NONE"
      /\ r.s.off = 0 /\ r.d.st = "empty" /\ Typed(r)
  BY <1>1 DEF NoDisc, Only
<1>4. Flags(r, o) /\ Lists(r) /\ Resumable(r, o)
  BY <1>2, <1>3 DEF Flags, Lists, Resumable, Heard, Listed, TimersOf
<1>5. Ok(r, o)
  BY <1>3, <1>4, StoppedOk
<1>6. Unforced(r) /\ Timed(r, o) /\ Placed(r, o)
  BY <1>2, <1>3 DEF Unforced, Ticks, Timed, Placed, TimersOf
<1> QED BY <1>1, <1>2, <1>3, <1>5, <1>6 DEF Inv, r

(* disc_ready, with a disc. *)
LEMMA DiscReadyInv ==
  ASSUME Sane, NEW q, NEW o, Inv(q, o), q.d.st # "empty"
  PROVE  LET r == DiscReady(q)
         IN  /\ Inv(r, o) /\ r.ret = TRUE /\ r.d = q.d /\ Only(q, r, {"mode"}, {})
             /\ r.s.mode = IF q.s.mode = "NODISC" THEN "STOP" ELSE q.s.mode
<1> DEFINE r == DiscReady(q)
<1>0. Typed(q)
  BY DEF Inv
<1>1. /\ r.d = q.d /\ Only(q, r, {"mode"}, {}) /\ r.ret = TRUE
      /\ r.s.mode = IF q.s.mode = "NODISC" THEN "STOP" ELSE q.s.mode
  BY <1>0, DiscReadyIs DEF Readied
<1> HIDE DEF r
<1>2. /\ r.app = q.app /\ r.s.shuffle = q.s.shuffle
      /\ r.m.searching = q.m.searching
      /\ r.m.search_id = q.m.search_id /\ r.m.ask = q.m.ask /\ TimersOf(q, r)
      /\ r.m.fake_stop = q.m.fake_stop /\ r.m.idx_pause = q.m.idx_pause
      /\ r.m.sav_msf = q.m.sav_msf
      /\ r.s.segplay = q.s.segplay /\ r.s.program = q.s.program
      /\ r.s.off = q.s.off
      /\ r.s.onetrk = q.s.onetrk /\ r.s.plan = q.s.plan
  BY <1>1, Fields DEF TimersOf
<1>2a. /\ r.s.order = q.s.order /\ r.s.prog_cnt = q.s.prog_cnt
       /\ r.s.repeat = q.s.repeat
       /\ r.s.endpos = q.s.endpos /\ r.m.new_progshuf = q.m.new_progshuf
       /\ r.s.cur_trk = q.s.cur_trk
  BY <1>1, Fields
<1>3. Typed(r) /\ Unforced(r)
  BY <1>1, <1>2 DEF Only, Inv, Unforced
<1>4. Flags(r, o) /\ Lists(r) /\ Resumable(r, o) /\ Quiet(r)
  BY <1>1, <1>2 DEF Inv, Ok, Flags, Lists, Listed, TimersOf, Resumable, Quiet
<1>5. Timed(r, o) /\ Placed(r, o)
  BY <1>1, <1>2 DEF Inv, Timed, Placed, TimersOf
<1>6. CASE q.s.mode = "NODISC"
  BY <1>1, <1>3, <1>4, <1>5, <1>6, StoppedOk DEF Inv, Quiet, r
<1>7. CASE q.s.mode # "NODISC"
  <2>1. Entered(r) /\ InSeg(r)
    BY <1>1, <1>2, <1>2a, <1>7 DEF Inv, Ok, Entered, InSeg, On, Listed
  <2>2. InEntries(r, o)
    BY <1>1, <1>2, <1>2a, <1>7
       DEF Inv, Ok, InEntries, InEntry, EntryOf, Within, On, Listed
  <2> QED BY <1>1, <1>3, <1>4, <1>5, <2>1, <2>2 DEF Inv, Ok, r
<1> QED BY <1>6, <1>7

(* Inv is enough for a stop. *)
LEMMA InvNearly ==
  ASSUME NEW q, NEW o, Inv(q, o)
  PROVE  Nearly(q, o) /\ Stoppable(q, o)
BY DEF Inv, Nearly, Stoppable, Ticks, Timed, Ok

-----------------------------------------------------------------------------
(* slioc_stop. *)

(* slioc_stop, with a disc in the drive. *)
StopFields == {"mode", "cur_trk", "pos", "off", "plan", "order", "prog_cnt", "program", "onetrk"}

StopsTo(q, b, r) ==
  /\ Only(q, r, StopFields, {"stat_polling", "stat_id"})
  /\ r.s.mode = "STOP" /\ r.s.cur_trk = 0 /\ r.s.off = 0 /\ r.s.prog_cnt = 0
  /\ r.s.onetrk = FALSE
  /\ r.s.program = (q.s.program /\ ~ q.s.onetrk)
  /\ ~ q.s.onetrk => r.s.plan = q.s.plan /\ r.s.order = q.s.order
  /\ r.m.stat_polling = FALSE
  /\ r.m.stat_id = (q.m.stat_id /\ ~ q.m.stat_polling)
  /\ r.d.pos = q.d.pos /\ r.d.end = q.d.end
  /\ IF b THEN r.d.st \in StoppedAs ELSE r.d = q.d

(* What it changes. *)
LEMMA SlStopIs ==
  ASSUME Sane, NEW q, Typed(q), q.d.st # "empty", NEW w \in World,
         NEW b \in BOOLEAN
  PROVE  StopsTo(q, b, SlStop(q, w, b))
<1> SUFFICES ASSUME NEW r, r = SlStop(q, w, b) PROVE StopsTo(q, b, r)
  OBVIOUS
<1> DEFINE x == DiscReady(q)
           y == StopDisc(x, w, b)
           z == StopStatPoll(y)
           v == ResetCurstat(z)
<1>1. Only(q, x, {"mode"}, {}) /\ x.ret = TRUE /\ x.d = q.d
  BY DiscReadyIs DEF Readied
<1>2. y = IF b THEN StartStop(x, w) ELSE x
  BY <1>1 DEF StopDisc
<1> HIDE DEF x
<1>3. /\ Only(q, y, {"mode"}, {}) /\ y.ret = TRUE /\ y.d.pos = q.d.pos
      /\ y.d.end = q.d.end
      /\ IF b THEN y.d.st \in StoppedAs ELSE y.d = q.d
  <2>1. CASE b
    <3>1. Typed(x)
      BY <1>1 DEF Only
    <3>2. Halted(x, y)
      BY <1>2, <2>1, <3>1, StartStopIs
    <3> QED BY <1>1, <2>1, <3>2 DEF Halted, Only
  <2>2. CASE ~ b
    BY <1>1, <1>2, <2>2
  <2> QED BY <2>1, <2>2
<1>4. r = Mode(v, "STOP")
  BY <1>3 DEF SlStop, Stopped, x
<1> HIDE DEF y
<1>5. StatPollStopped(y, z)
  BY <1>3, StopStatPollIs DEF Only
<1> HIDE DEF z
<1>6. Reset(z, v)
  BY <1>5, ResetCurstatIs DEF StatPollStopped, Only
<1> HIDE DEF v
<1>7. Only(v, r, {"mode"}, {}) /\ r.s.mode = "STOP" /\ r.d = v.d
  <2>1. Typed(v) /\ "STOP" \in Modes
    BY <1>6 DEF Reset, Only, Modes
  <2> QED BY <1>4, <2>1, ModeIs
<1>8. /\ SBut(q.s, y.s, {"mode"}) /\ MBut(q.m, y.m, {}) /\ y.app = q.app
  BY <1>3 DEF Only
<1>9. /\ SBut(y.s, z.s, {}) /\ MBut(y.m, z.m, {"stat_polling", "stat_id"})
      /\ z.app = y.app /\ z.d = y.d
      /\ z.m.stat_polling = FALSE
      /\ z.m.stat_id = (y.m.stat_id /\ ~ y.m.stat_polling)
  BY <1>5 DEF StatPollStopped, Only
<1>10. /\ SBut(z.s, v.s, StopFields) /\ MBut(z.m, v.m, {}) /\ v.app = z.app
       /\ v.d = z.d
  BY <1>6 DEF Reset, Only, SBut, SFields, StopFields
<1>11. /\ SBut(v.s, r.s, {"mode"}) /\ MBut(v.m, r.m, {}) /\ r.app = v.app
       /\ Typed(r)
  BY <1>7 DEF Only
<1>12. SBut(q.s, r.s, StopFields)
  BY <1>8, <1>9, <1>10, <1>11 DEF SBut, SFields, StopFields
<1>13. MBut(q.m, r.m, {"stat_polling", "stat_id"})
  BY <1>8, <1>9, <1>10, <1>11 DEF MBut, MFields
<1>14. Only(q, r, StopFields, {"stat_polling", "stat_id"})
  BY <1>8, <1>9, <1>10, <1>11, <1>12, <1>13 DEF Only
<1>15. /\ r.m.stat_polling = FALSE
       /\ r.m.stat_id = (q.m.stat_id /\ ~ q.m.stat_polling)
  BY <1>8, <1>9, <1>10, <1>11 DEF MBut, MFields
<1>16. /\ z.s.program = q.s.program /\ z.s.onetrk = q.s.onetrk
       /\ z.s.plan = q.s.plan /\ z.s.order = q.s.order
  BY <1>8, <1>9 DEF SBut, SFields
<1>17. /\ r.s.program = v.s.program /\ r.s.onetrk = v.s.onetrk
       /\ r.s.plan = v.s.plan /\ r.s.order = v.s.order
       /\ r.s.cur_trk = v.s.cur_trk /\ r.s.off = v.s.off
       /\ r.s.prog_cnt = v.s.prog_cnt
  BY <1>11 DEF SBut, SFields
<1>18. /\ v.s.cur_trk = 0 /\ v.s.off = 0 /\ v.s.prog_cnt = 0
       /\ v.s.onetrk = FALSE
       /\ v.s.program = (z.s.program /\ ~ z.s.onetrk)
       /\ ~ z.s.onetrk => v.s.plan = z.s.plan /\ v.s.order = z.s.order
  BY <1>6 DEF Reset
<1>19. r.d = y.d
  BY <1>7, <1>9, <1>10
<1> QED BY <1>3, <1>7, <1>14, <1>15, <1>16, <1>17, <1>18, <1>19 DEF StopsTo

(* It leaves a stopped player, and a silent drive if told to. *)
LEMMA StopNearly ==
  ASSUME Sane, NEW q, NEW o, Stoppable(q, o), NEW b \in BOOLEAN, NEW r,
         StopsTo(q, b, r),
         q.d.st # "empty"
  PROVE  /\ Nearly(r, o) /\ r.s.mode = "STOP" /\ r.s.off = 0
         /\ ~ r.m.stat_polling
         /\ r.d.st # "empty" /\ (b => Inv(r, o))
         /\ Listed(r) => Listed(q) /\ r.s.order = q.s.order /\ r.s.plan = q.s.plan
         /\ r.s.segplay = q.s.segplay /\ r.app = q.app
         /\ r.s.shuffle = q.s.shuffle
         /\ r.m.ask = q.m.ask
<1>1. Only(q, r, StopFields, {"stat_polling", "stat_id"})
  BY DEF StopsTo
<1>2. /\ r.app = q.app /\ r.s.segplay = q.s.segplay /\ r.s.endpos = q.s.endpos
      /\ r.s.shuffle = q.s.shuffle /\ r.m.ask = q.m.ask /\ r.m.stray = q.m.stray
      /\ r.m.searching = q.m.searching /\ r.m.search_id = q.m.search_id
      /\ r.m.fake_stop = q.m.fake_stop /\ r.m.idx_pause = q.m.idx_pause
      /\ r.m.sav_msf = q.m.sav_msf
  BY <1>1, Fields DEF StopFields
<1>3. /\ Typed(r) /\ r.s.mode = "STOP" /\ r.s.off = 0
      /\ r.m.stat_polling = FALSE /\ r.s.onetrk = FALSE
  BY <1>1 DEF Only, StopsTo
<1>4. r.d.st # "empty" /\ (b => r.d.st \notin {"playing", "error"})
  BY Blks DEF StopsTo
<1>5. Flags(r, o)
  BY <1>2, <1>3 DEF Stoppable, Flags, StopsTo
<1>6. /\ q.s.shuffle \in BOOLEAN /\ q.s.program \in BOOLEAN
      /\ q.s.onetrk \in BOOLEAN
  BY Parts DEF Stoppable, Curstat
<1>7. Listed(r) => Listed(q) /\ r.s.order = q.s.order /\ r.s.plan = q.s.plan
  BY <1>2, <1>6 DEF Listed, StopsTo, Stoppable, Lists
<1>8. Lists(r)
  BY <1>2, <1>3, <1>6, <1>7 DEF Stoppable, Lists, StopsTo, Listed
<1>9. Resumable(r, o)
  <2>1. StoppedAs = {"idle"} /\ r.d.st \in Heard => q.d.st \in Heard
    BY DEF StopsTo, Heard
  <2>2. r.d.st = "error" => q.d.st = "error"
    BY Blks DEF StopsTo
  <2> QED BY <1>2, <2>1, <2>2 DEF Stoppable, Resumable, StopsTo
<1>10. Unforced(r) /\ Timed(r, o) /\ Placed(r, o)
  BY <1>2, <1>3 DEF Stoppable, Unforced, Timed, Placed
<1>11. Nearly(r, o)
  BY <1>3, <1>5, <1>8, <1>9, <1>10 DEF Nearly, Stoppable, Ticks, Timed
<1>12. b => Inv(r, o)
  BY <1>3, <1>4, <1>5, <1>8, <1>9, <1>10, StoppedOk DEF Inv
<1> QED BY <1>2, <1>3, <1>4, <1>7, <1>11, <1>12

(* slioc_stop without a disc. *)
LEMMA StopEmpty ==
  ASSUME Sane, NEW q, NEW o, Stoppable(q, o), NEW w, NEW b \in BOOLEAN,
         q.d.st = "empty"
  PROVE  LET r == SlStop(q, w, b)
         IN  Inv(r, o) /\ r.s.mode = "NODISC" /\ r.d.st = "empty" /\ NoDisc(q, r) /\ r.m.ask = q.m.ask
             /\ r.app = q.app
<1> DEFINE r == SlStop(q, w, b)
           x == DiscReady(q)
<1>1. /\ Inv(x, o) /\ x.ret = FALSE /\ x.s.mode = "NODISC" /\ x.d.st = "empty"
      /\ NoDisc(q, x) /\ x.m.ask = q.m.ask
  BY ReadyInv DEF Stoppable
<1>2. x.app = q.app
  BY DiscReadyIs DEF Stoppable, Readied, Only
<1>3. r = x
  BY <1>1 DEF SlStop, StopDisc, Stopped
<1> QED BY <1>1, <1>2, <1>3

(* ... and at the end of a command. *)
LEMMA StopInv ==
  ASSUME Sane, NEW q, NEW o, Stoppable(q, o), NEW w \in World
  PROVE  Inv(SlStop(q, w, TRUE), o)
<1>1. CASE q.d.st = "empty"
  BY <1>1, StopEmpty
<1>2. CASE q.d.st # "empty"
  <2>1. StopsTo(q, TRUE, SlStop(q, w, TRUE))
    BY <1>2, SlStopIs DEF Stoppable
  <2> QED BY <1>2, <2>1, StopNearly
<1> QED BY <1>1, <1>2

-----------------------------------------------------------------------------
(* Starts of a list, a segment and a disc. *)

(* The order is to begin anew, or not. *)
LEMMA NewShufIs ==
  ASSUME NEW q, Typed(q), NEW b \in BOOLEAN
  PROVE  LET r == [q EXCEPT !.m.new_progshuf = b]
         IN  /\ Only(q, r, {}, {"new_progshuf"}) /\ r.d = q.d /\ r.ret = q.ret /\ r.s = q.s
             /\ r.m.new_progshuf = b
<1> DEFINE r == [q EXCEPT !.m.new_progshuf = b]
           M == [q.m EXCEPT !.new_progshuf = b]
<1>1. r = WithSM(q, q.s, M)
  BY Parts DEF WithSM, State
<1>2. M \in Statics /\ MBut(q.m, M, {"new_progshuf"}) /\ M.new_progshuf = b
  BY Parts DEF Statics, MBut, MFields
<1> HIDE DEF M, r
<1>3. /\ Typed(r) /\ r.app = q.app /\ r.s = q.s /\ r.m = M /\ r.d = q.d
      /\ r.ret = q.ret
  BY <1>1, <1>2, WithSMIs, Parts
<1>4. Only(q, r, {}, {"new_progshuf"}) /\ r.m.new_progshuf = b
  BY <1>2, <1>3, SameS DEF Only
<1> QED BY <1>3, <1>4 DEF r

(* What a start from stop makes of the state, but for the poll timer. *)
Starts(q, r, o) ==
  /\ Typed(r) /\ Flags(r, o) /\ Lists(r) /\ Entered(r) /\ InSeg(r)
  /\ InEntries(r, o)
  /\ Resumable(r, o) /\ Unforced(r) /\ Polls(q, r)
  /\ r.app = q.app /\ r.s.off = q.s.off /\ r.d.st # "empty"
  /\ IF r.ret = TRUE THEN r.s.mode = "PLAY"
     ELSE /\ r.ret = FALSE /\ r.d = q.d /\ TimersOf(q, r) /\ r.s.mode \in {"STOP", "PLAY"}
          /\ r.s.mode = "PLAY" => q.s.off # 0

(* What no start changes. *)
StartsSame(q, r) ==
  /\ r.app = q.app /\ r.s.off = q.s.off
  /\ r.s.segplay = q.s.segplay /\ r.s.program = q.s.program
  /\ r.s.onetrk = q.s.onetrk
  /\ r.s.shuffle = q.s.shuffle /\ r.s.plan = q.s.plan
  /\ r.m.fake_stop = q.m.fake_stop /\ r.m.idx_pause = q.m.idx_pause
  /\ r.m.ask = q.m.ask
  /\ r.m.searching = q.m.searching /\ r.m.search_id = q.m.search_id
  /\ TimersOf(q, r)

(* A list starts with its first entry. *)
LEMMA StartListOk ==
  ASSUME Sane, NEW q, NEW o, Plain(o), Nearly(q, o), q.s.mode = "STOP",
         q.d.st # "empty", Listed(q),
         NEW w \in World
  PROVE  /\ Starts(q, RunProg([q EXCEPT !.m.new_progshuf = TRUE], w), o)
         /\ (q.s.shuffle \/ HasAudio(q.s.order)) /\ q.s.off = 0
              => RunProg([q EXCEPT !.m.new_progshuf = TRUE], w).ret = TRUE
<1> DEFINE x == [q EXCEPT !.m.new_progshuf = TRUE]
           r == RunProg(x, w)
<1>0. Typed(q)
  BY DEF Nearly, Stoppable
<1>1. /\ Only(q, x, {}, {"new_progshuf"}) /\ x.d = q.d /\ x.s = q.s
      /\ x.m.new_progshuf = TRUE
  BY <1>0, NewShufIs
<1> HIDE DEF x
<1>2. Typed(x) /\ Listed(x) /\ x.s.mode = "STOP"
  BY <1>1 DEF Only, Listed
<1>3. ProgRun(x, w, r)
  BY <1>1, <1>2, RunProgIs
<1> HIDE DEF r
<1> DEFINE t == Ord(x, w)[From(x) + 1]
<1>4. /\ From(x) = 0 /\ Ord(x, w) \in Seq(Track) /\ Len(Ord(x, w)) \in Nat
      /\ ~ Over(x, w) => 1 \in 1..Len(Ord(x, w)) /\ t \in Track
      /\ Over(x, w) \in BOOLEAN
  BY <1>1, <1>2, OrdIs DEF From
<1>5. /\ q.s.shuffle => Ord(x, w) = w.order
      /\ ~ q.s.shuffle => Ord(x, w) = q.s.order
  BY <1>1 DEF Ord
<1>6. ~ Over(x, w) => HasAudio(Ord(x, w))
  BY <1>1 DEF Over, Mute
<1>7. q.s.shuffle \/ HasAudio(q.s.order) => HasAudio(Ord(x, w)) /\ ~ Over(x, w)
  <2>1. q.s.shuffle => HasAudio(Ord(x, w))
    BY <1>5, OrderIs DEF World
  <2>2. HasAudio(Ord(x, w)) => 0 < Len(Ord(x, w))
    BY <1>4 DEF HasAudio
  <2> QED BY <1>4, <1>5, <2>1, <2>2 DEF Over, Mute
<1>8. Only(x, r, EntryFields \cup {"order"}, Sav \cup {"new_progshuf"})
  BY <1>3 DEF ProgRun, Only, SBut, SFields, MBut, MFields, EntryFields, Sav
<1>9. StartsSame(q, r)
  <2>1. StartsSame(x, r)
    BY <1>8, Fields DEF StartsSame, EntryFields, Sav, TimersOf
  <2>2. StartsSame(q, x)
    BY <1>1, Fields DEF StartsSame, TimersOf
  <2> QED BY <2>1, <2>2 DEF StartsSame, TimersOf
<1>10. Typed(r) /\ Unforced(r) /\ Polls(q, r)
  BY <1>8, <1>9 DEF Only, Nearly, Stoppable, Unforced, StartsSame, Polls
<1>11. q.s.segplay = "NONE" /\ r.s.segplay = "NONE" /\ Listed(r)
  BY <1>9 DEF Nearly, Stoppable, Lists, StartsSame, Listed
<1>12. CASE Over(x, w)
  <2>1. /\ Only(x, r, {"prog_cnt", "order"}, {"new_progshuf"}) /\ r.d = x.d
        /\ r.ret = FALSE
    BY <1>3, <1>12 DEF ProgRun
  <2>2. /\ r.s.mode = "STOP" /\ r.m.sav_msf = x.m.sav_msf
        /\ x.m.sav_msf = q.m.sav_msf
    BY <1>1, <1>2, <2>1, Fields
  <2>3. Flags(r, o) /\ Lists(r) /\ Resumable(r, o)
    BY <1>1, <1>9, <2>1, <2>2
       DEF Nearly, Stoppable, Flags, Lists, Listed, Resumable, StartsSame,
           TimersOf
  <2>4. Entered(r) /\ InSeg(r) /\ InEntries(r, o)
    BY <2>2 DEF Entered, InSeg, InEntries, On
  <2> QED BY <1>1, <1>7, <1>9, <1>10, <1>12, <2>1, <2>2, <2>3, <2>4
             DEF Starts, StartsSame, r, x
<1>13. CASE ~ Over(x, w)
  <2>1. /\ r.s.order = Ord(x, w) /\ r.m.new_progshuf = FALSE /\ r.s.prog_cnt = 1
        /\ r.s.cur_trk = t
        /\ r.s.mode = "PLAY" /\ EntryPlays(x, r, t)
    BY <1>2, <1>3, <1>4, <1>13 DEF ProgRun
  <2>2. /\ t \in Track /\ 1 \in 1..Len(r.s.order) /\ HasAudio(r.s.order)
        /\ EntryOf(r) = t
    BY <1>4, <1>6, <1>13, <2>1 DEF EntryOf
  <2>3. Entered(r) /\ InSeg(r)
    BY <1>11, <2>1, <2>2 DEF Entered, InSeg
  <2>4. Flags(r, o) /\ Lists(r)
    BY <1>9, <1>11, <2>1
       DEF Nearly, Stoppable, Flags, Lists, Listed, StartsSame, TimersOf
  <2> DEFINE ok == Toc[t] + q.s.off < Clip(TrackEnd(t))
  <2>5. ok => Toc[t] + q.s.off < TrackEnd(t) /\ Clip(TrackEnd(t)) <= TrackEnd(t) /\ Toc[t] <= Toc[t] + q.s.off
    <3>1. Toc[t] \in Nat /\ TrackEnd(t) \in Nat /\ q.s.off \in Nat
      BY <1>0, <2>2, TrackBounds, Parts DEF Curstat, Block
    <3>2. Clip(TrackEnd(t)) <= TrackEnd(t) /\ Clip(TrackEnd(t)) \in Nat
      BY <3>1, Clipped
    <3> QED BY <3>1, <3>2
  <2>6. x.s.off = q.s.off /\ x.m.sav_msf = q.m.sav_msf
    BY <1>1, Fields
  <2> HIDE DEF t
  <2>7. CASE t \in DataTracks
    <3>1. r.ret = TRUE /\ r.d = q.d /\ r.m.sav_msf = q.m.sav_msf
      BY <1>1, <2>1, <2>6, <2>7 DEF EntryPlays
    <3>2. Resumable(r, o) /\ InEntries(r, o)
      BY <2>2, <2>7, <3>1
         DEF Nearly, Stoppable, Resumable, InEntries, InEntry, Audio
    <3> QED BY <1>9, <1>10, <2>1, <2>3, <2>4, <3>1, <3>2
               DEF Starts, StartsSame, r, x
  <2>8. CASE t \notin DataTracks /\ ok
    <3>1. /\ r.ret = TRUE /\ r.m.sav_msf = TrackEnd(t) /\ r.d.st = "playing"
          /\ r.d.pos = Toc[t] + q.s.off /\ r.d.end = Clip(TrackEnd(t))
      BY <1>2, <2>1, <2>6, <2>8 DEF EntryPlays
    <3>2. InEntry(r, o, t)
      BY <2>1, <2>5, <2>8, <3>1 DEF InEntry, Within
    <3>2a. Clip(TrackEnd(t)) <= Clip(TrackEnd(t))
      BY <2>2, TrackBounds, Clipped
    <3>3. Resumable(r, o) /\ InEntries(r, o)
      BY <2>2, <3>1, <3>2, <3>2a DEF Resumable, InEntries
    <3> QED BY <1>9, <1>10, <2>1, <2>3, <2>4, <3>1, <3>3
               DEF Starts, StartsSame, r, x
  <2>9. CASE t \notin DataTracks /\ ~ ok
    <3>1. r.ret = FALSE /\ r.d = q.d /\ r.m.sav_msf = q.m.sav_msf
      BY <1>1, <2>1, <2>6, <2>9 DEF EntryPlays
    <3>2. q.s.off # 0
      <4>1. Toc[t] < Clip(TrackEnd(t)) /\ Toc[t] \in Nat
        BY <2>2, LongTrack, TrackBounds
      <4> QED BY <2>9, <4>1
    <3>3. q.app = "xmcd" => "warp" \notin o /\ q.d.st = "idle"
      BY <3>2 DEF Nearly, Stoppable, Placed, Plain
    <3>4. Resumable(r, o) /\ InEntries(r, o)
      BY <1>9, <3>1, <3>3
         DEF Nearly, Stoppable, Resumable, InEntries, InEntry, Heard,
             StartsSame
    <3> QED BY <1>9, <1>10, <2>1, <2>3, <2>4, <3>1, <3>2, <3>4
               DEF Starts, StartsSame, r, x
  <2> QED BY <2>7, <2>8, <2>9
<1> QED BY <1>4, <1>12, <1>13

(* A segment starts. *)
LEMMA StartAbOk ==
  ASSUME Sane, NEW q, NEW o, Nearly(q, o), q.s.mode = "STOP", q.d.st # "empty",
         ~ Listed(q),
         q.s.segplay = "AB", NEW w \in World
  PROVE  Starts(q, RunAb(q, w), o)
<1> DEFINE r == RunAb(q, w)
<1>0. Typed(q) /\ q.app = "xmcd"
  BY Parts DEF Nearly, Stoppable, Flags, State
<1>1. AbRun(q, r)
  BY <1>0, RunAbIs
<1> HIDE DEF r
<1>2. CASE q.s.startpos + MinPlayBlks >= q.s.endpos
  <2>1. Only(q, r, {}, {}) /\ r.ret = FALSE /\ r.d = q.d
    BY <1>1, <1>2 DEF AbRun
  <2>2. StartsSame(q, r) /\ r.s.mode = "STOP" /\ r.m.sav_msf = q.m.sav_msf
    BY <2>1, Fields DEF StartsSame, TimersOf
  <2>3. Flags(r, o) /\ Lists(r) /\ Resumable(r, o) /\ Unforced(r) /\ Polls(q, r)
    BY <2>1, <2>2
       DEF Nearly, Stoppable, Flags, Lists, Listed, Resumable, StartsSame,
           TimersOf, Unforced, Polls
  <2>4. Entered(r) /\ InSeg(r) /\ InEntries(r, o)
    BY <2>2 DEF Entered, InSeg, InEntries, On
  <2> QED BY <2>1, <2>2, <2>3, <2>4 DEF Starts, StartsSame, Only, r
<1>3. CASE ~ (q.s.startpos + MinPlayBlks >= q.s.endpos)
  <2>1. /\ Only(q, r, {"mode"}, TimerFields \cup Sav) /\ r.ret = TRUE
        /\ r.s.mode = "PLAY" /\ r.m.stat_polling = TRUE /\ r.m.stat_id = TRUE
        /\ r.m.sav_msf = q.s.endpos /\ r.d.st = "playing"
        /\ r.d.end = Clip(q.s.endpos)
    BY <1>0, <1>1, <1>3 DEF AbRun
  <2>2. /\ r.app = q.app /\ r.s.off = q.s.off /\ r.s.endpos = q.s.endpos
        /\ r.s.segplay = q.s.segplay /\ r.s.program = q.s.program
        /\ r.s.onetrk = q.s.onetrk
        /\ r.s.shuffle = q.s.shuffle /\ r.s.plan = q.s.plan
        /\ r.m.fake_stop = q.m.fake_stop /\ r.m.idx_pause = q.m.idx_pause
        /\ r.m.ask = q.m.ask
        /\ r.m.searching = q.m.searching /\ r.m.search_id = q.m.search_id
    BY <2>1, Fields DEF TimerFields, Sav
  <2>3. Flags(r, o) /\ Lists(r) /\ Unforced(r) /\ Polls(q, r)
    BY <1>0, <2>1, <2>2
       DEF Nearly, Stoppable, Flags, Lists, Listed, Unforced, Polls
  <2>4. q.s.endpos \in Nat
    BY <1>0, Parts DEF Curstat, Block
  <2>5. Clip(q.s.endpos) <= q.s.endpos /\ Clip(q.s.endpos) <= Clip(q.s.endpos)
    BY <2>4, Clipped
  <2>6. Entered(r) /\ InEntries(r, o)
    BY <2>2 DEF Entered, InEntries, Listed
  <2>7. InSeg(r) /\ Resumable(r, o)
    BY <2>1, <2>2, <2>5 DEF InSeg, Resumable
  <2> QED BY <2>1, <2>2, <2>3, <2>6, <2>7 DEF Starts, Only, r
<1> QED BY <1>2, <1>3

(* Where a disc starts: at the track chosen, or at the first. *)
StartTrack(q) == IF q.s.cur_trk = 0 THEN 1 ELSE q.s.cur_trk

(* It plays to its end; a data track is refused. *)
StartedNormal(q, r) ==
  LET t == StartTrack(q)
  IN  IF t \in Audio /\ Toc[t] + q.s.off < Clip(Leadout)
      THEN /\ Only(q, r, {"segplay", "cur_trk", "mode"}, Sav) /\ r.s.segplay = "NONE"
           /\ r.s.mode = "PLAY" /\ r.ret = TRUE /\ r.m.sav_msf = Leadout
           /\ r.d.st = "playing" /\ r.d.end = Clip(Leadout)
      ELSE /\ Only(q, r, {"segplay", "cur_trk", "mode"}, {"sav_end"}) /\ r.s.segplay = "NONE"
           /\ r.s.mode = "STOP" /\ r.ret = FALSE /\ r.d = q.d

(* The start of a disc, field by field, ... *)
LEMMA StartNormalIs ==
  ASSUME Sane, NEW q, Typed(q), q.s.mode = "STOP", q.d.st # "empty",
         NEW w \in World
  PROVE  StartedNormal(q, StartNormal(q, w))
<1> SUFFICES ASSUME NEW r, r = StartNormal(q, w) PROVE StartedNormal(q, r)
  OBVIOUS
<1> DEFINE t == StartTrack(q)
           S == [q.s EXCEPT !.segplay = "NONE", !.cur_trk = t]
           x == [NoSegment(q) EXCEPT !.s.cur_trk = t]
           y == Mode(x, "PLAY")
           z == DoPlayaudio(y, w, Toc[t] + q.s.off, Leadout)
<1>1. t \in Track /\ t \in {0} \cup Track
  BY Parts, Discs DEF StartTrack, Curstat
<1> HIDE DEF t
<1>2. /\ S \in Curstat /\ SBut(q.s, S, {"segplay", "cur_trk"})
      /\ S.segplay = "NONE"
  BY <1>1, Parts DEF Curstat, SBut, SFields
<1>3. x = WithSM(q, S, q.m)
  BY Parts DEF WithSM, State, NoSegment
<1>4. r = IF t \in DataTracks THEN Ret(x, FALSE) ELSE OrStopped(z)
  <2>1. q.s.off = x.s.off
    BY <1>1, Parts DEF NoSegment, State, Curstat
  <2> QED BY <2>1 DEF StartNormal, StartTrack, t
<1> HIDE DEF S, x
<1>5. Typed(x) /\ x.app = q.app /\ x.s = S /\ x.m = q.m /\ x.d = q.d
  BY <1>2, <1>3, WithSMIs, Parts
<1>6. /\ Only(q, x, {"segplay", "cur_trk", "mode"}, {}) /\ x.s.segplay = "NONE"
      /\ x.s.mode = "STOP" /\ x.s.off = q.s.off
  <2>1. /\ SBut(q.s, x.s, {"segplay", "cur_trk", "mode"}) /\ x.s.mode = "STOP"
        /\ x.s.off = q.s.off
    BY <1>2, <1>5 DEF SBut, SFields
  <2> QED BY <1>2, <1>5, <2>1, SameM DEF Only
<1>7. Only(x, y, {"mode"}, {}) /\ y.s.mode = "PLAY" /\ y.d = q.d
  BY <1>5, ModeIs DEF Modes
<1> HIDE DEF y
<1>8. Toc[t] + q.s.off \in Nat /\ Leadout \in Int /\ Toc[t] \in Nat
  <2>1. q.s.off \in Block /\ Leadout \in Nat
    BY Parts, Discs DEF Curstat
  <2>2. Toc[t] \in Nat
    BY <1>1, TrackBounds
  <2>3. q.s.off \in Nat
    BY <2>1 DEF Block
  <2> QED BY <2>1, <2>2, <2>3
<1>9. Plays(y, z, Toc[t] + q.s.off, Leadout)
  BY <1>7, <1>8, DoPlayaudioIs DEF Only
<1> HIDE DEF z
<1>10. Only(q, y, {"segplay", "cur_trk", "mode"}, {}) /\ y.s.segplay = "NONE"
  <2>1. SBut(q.s, y.s, {"segplay", "cur_trk", "mode"}) /\ y.s.segplay = "NONE"
    BY <1>6, <1>7 DEF Only, SBut, SFields
  <2>2. MBut(q.m, y.m, {}) /\ Typed(y) /\ y.app = q.app
    BY <1>6, <1>7 DEF Only, MBut, MFields
  <2> QED BY <2>1, <2>2 DEF Only
<1>11. /\ Only(q, z, {"segplay", "cur_trk", "mode"}, Sav)
       /\ z.s.segplay = "NONE" /\ z.s.mode = "PLAY"
  <2>1. z.s = y.s /\ Typed(z) /\ z.app = y.app /\ MBut(y.m, z.m, Sav)
    BY <1>9 DEF Plays, Only
  <2>2. MBut(q.m, z.m, Sav)
    BY <1>10, <2>1 DEF Only, MBut, MFields
  <2> QED BY <1>7, <1>10, <2>1, <2>2 DEF Only
<1> DEFINE a == Toc[t] + q.s.off < Clip(Leadout)
<1>12. a => z.ret = TRUE /\ z.m.sav_msf = Leadout /\ z.d.st = "playing" /\ z.d.end = Clip(Leadout)
  BY <1>9 DEF Plays
<1>13. ~ a => z.ret = FALSE /\ z.d = q.d /\ z.m.sav_msf = y.m.sav_msf
  BY <1>7, <1>9 DEF Plays
<1> HIDE DEF a
<1>14. CASE t \in DataTracks
  <2>1. /\ r.ret = FALSE /\ r.s = x.s /\ r.m = x.m /\ r.d = x.d /\ r.app = x.app
        /\ r \in State
    BY <1>4, <1>5, <1>14, RetIs, ZenonT(30) DEF Typed
  <2>2. Typed(r)
    BY <1>5, <2>1 DEF Typed
  <2>3. Only(q, r, {"segplay", "cur_trk", "mode"}, {"sav_end"})
    BY <1>6, <2>1, <2>2 DEF Only, MBut
  <2> QED BY <1>5, <1>6, <1>14, <2>1, <2>3 DEF StartedNormal, Audio, t
<1>15. CASE t \notin DataTracks /\ a
  <2>1. r = z
    BY <1>4, <1>12, <1>15 DEF OrStopped
  <2> QED BY <1>1, <1>11, <1>12, <1>15, <2>1 DEF StartedNormal, Audio, t, a
<1>16. CASE t \notin DataTracks /\ ~ a
  <2>1. r = Mode(z, "STOP")
    BY <1>4, <1>13, <1>16 DEF OrStopped
  <2>2. /\ Only(z, r, {"mode"}, {}) /\ r.s.mode = "STOP" /\ r.d = z.d
        /\ r.ret = z.ret /\ r.m = z.m
    BY <1>11, <2>1, ModeIs DEF Modes, Only
  <2>3. SBut(q.s, r.s, {"segplay", "cur_trk", "mode"}) /\ r.s.segplay = "NONE"
    BY <1>11, <2>2 DEF Only, SBut, SFields
  <2>4. z.m.sav_msf = q.m.sav_msf
    BY <1>10, <1>13, <1>16 DEF Only, MBut, MFields
  <2>5. MBut(q.m, r.m, {"sav_end"})
    BY <1>11, <2>2, <2>4 DEF Only, MBut, MFields, Sav
  <2>6. Only(q, r, {"segplay", "cur_trk", "mode"}, {"sav_end"})
    BY <1>11, <2>2, <2>3, <2>5 DEF Only
  <2> QED BY <1>13, <1>16, <2>2, <2>3, <2>6 DEF StartedNormal, t, a
<1> QED BY <1>14, <1>15, <1>16

(* ... and as a start. *)
LEMMA StartNormalOk ==
  ASSUME Sane, NEW q, NEW o, Nearly(q, o), q.s.mode = "STOP", q.d.st # "empty",
         ~ Listed(q),
         NEW w \in World
  PROVE  /\ Starts(q, StartNormal(q, w), o)
         /\ StartTrack(q) \in Audio /\ Toc[StartTrack(q)] + q.s.off < Clip(Leadout)
              => StartNormal(q, w).ret = TRUE
<1> DEFINE r == StartNormal(q, w)
<1>1. StartedNormal(q, r)
  BY StartNormalIs DEF Nearly, Stoppable
<1> HIDE DEF r
<1>2. Only(q, r, {"segplay", "cur_trk", "mode"}, Sav) /\ r.s.segplay = "NONE"
  BY <1>1 DEF StartedNormal, Only, MBut, Sav
<1>3. /\ r.app = q.app /\ r.s.off = q.s.off /\ r.s.program = q.s.program
      /\ r.s.onetrk = q.s.onetrk
      /\ r.s.shuffle = q.s.shuffle /\ r.s.plan = q.s.plan
      /\ r.m.fake_stop = q.m.fake_stop /\ r.m.idx_pause = q.m.idx_pause
      /\ r.m.ask = q.m.ask
      /\ r.m.searching = q.m.searching /\ r.m.search_id = q.m.search_id
      /\ TimersOf(q, r)
  BY <1>2, Fields DEF TimersOf, Sav
<1>4. r.s.mode \in {"STOP", "PLAY"}
  BY <1>1 DEF StartedNormal
<1>5. Flags(r, o) /\ Lists(r) /\ Unforced(r) /\ Polls(q, r)
  BY <1>2, <1>3, <1>4
     DEF Nearly, Stoppable, Flags, Lists, Listed, Unforced, Polls, TimersOf
<1>6. Entered(r) /\ InSeg(r) /\ InEntries(r, o)
  BY <1>2, <1>3 DEF Entered, InSeg, InEntries, Listed
<1> DEFINE t == StartTrack(q)
           ok == t \in Audio /\ Toc[t] + q.s.off < Clip(Leadout)
<1>7. CASE ok
  <2>1. /\ r.ret = TRUE /\ r.s.mode = "PLAY" /\ r.m.sav_msf = Leadout
        /\ r.d.st = "playing" /\ r.d.end = Clip(Leadout)
    BY <1>1, <1>7 DEF StartedNormal
  <2>2. Clip(Leadout) <= Clip(Leadout)
    BY Discs, Clipped
  <2>3. Resumable(r, o)
    BY <2>1, <2>2 DEF Resumable
  <2> QED BY <1>2, <1>3, <1>5, <1>6, <2>1, <2>3 DEF Starts, Only, r
<1>8. CASE ~ ok
  <2>1. r.ret = FALSE /\ r.s.mode = "STOP" /\ r.d = q.d
    BY <1>1, <1>8 DEF StartedNormal
  <2>2. Only(q, r, {"segplay", "cur_trk", "mode"}, {"sav_end"})
    BY <1>1, <1>8 DEF StartedNormal
  <2>3. r.m.sav_msf = q.m.sav_msf
    BY <2>2, Fields
  <2>4. Resumable(r, o)
    BY <2>1, <2>3 DEF Nearly, Stoppable, Resumable
  <2> QED BY <1>2, <1>3, <1>5, <1>6, <1>8, <2>1, <2>4 DEF Starts, Only, r
<1> QED BY <1>7, <1>8

(* A start of a disc or of a list that cannot be refused. *)
Certain(q) ==
  IF Listed(q) THEN (q.s.shuffle \/ HasAudio(q.s.order)) /\ q.s.off = 0
  ELSE /\ q.s.segplay # "AB" /\ StartTrack(q) \in Audio
       /\ Toc[StartTrack(q)] + q.s.off < Clip(Leadout)

(* All three. *)
LEMMA StartPlayOk ==
  ASSUME Sane, NEW q, NEW o, Plain(o), Nearly(q, o), q.s.mode = "STOP",
         q.d.st # "empty",
         NEW w \in World
  PROVE  Starts(q, StartPlay(q, w), o) /\ (Certain(q) => StartPlay(q, w).ret = TRUE)
<1>1. CASE Listed(q)
  <2>1. StartPlay(q, w) = RunProg([q EXCEPT !.m.new_progshuf = TRUE], w)
    BY <1>1 DEF StartPlay
  <2> QED BY <1>1, <2>1, StartListOk DEF Certain
<1>2. CASE ~ Listed(q) /\ q.s.segplay = "AB"
  <2>1. StartPlay(q, w) = RunAb(q, w)
    BY <1>2 DEF StartPlay
  <2> QED BY <1>2, <2>1, StartAbOk DEF Certain
<1>3. CASE ~ Listed(q) /\ q.s.segplay # "AB"
  <2>1. StartPlay(q, w) = StartNormal(q, w)
    BY <1>3 DEF StartPlay
  <2> QED BY <1>3, <2>1, StartNormalOk DEF Certain
<1> QED BY <1>1, <1>2, <1>3

(* A start and its poll. *)
LEMMA StartInv ==
  ASSUME Sane, NEW q, NEW o, Plain(o), Nearly(q, o), q.s.mode = "STOP",
         q.d.st # "empty",
         Quiet(q) \/ Certain(q), NEW w \in World
  PROVE  Inv(StatPollIf(StartPlay(q, w)), o)
<1> DEFINE x == StartPlay(q, w)
           r == StatPollIf(x)
<1>1. Starts(q, x, o) /\ (Certain(q) => x.ret = TRUE)
  BY StartPlayOk
<1> HIDE DEF x
<1>2. CASE x.ret = TRUE
  <2>1. Typed(x) /\ x.s.mode = "PLAY" /\ x.app = q.app
    BY <1>1, <1>2 DEF Starts
  <2>2. StatPollStarted(x, StartStatPoll(x)) /\ r = StartStatPoll(x)
    BY <1>2, <2>1, StartStatPollIs DEF StatPollIf
  <2> HIDE DEF r
  <2>3. Only(x, r, {}, TimerFields) /\ r.d = x.d /\ r.m.stat_polling = TRUE
    BY <2>2 DEF StatPollStarted, TimerFields
  <2>3a. IF x.app = "xmcd" THEN r.m.stat_id = TRUE
         ELSE r.m.stat_id = x.m.stat_id /\ r.m.stray = x.m.stray
    BY <2>2 DEF StatPollStarted
  <2>4. /\ r.app = x.app /\ r.m.searching = x.m.searching
        /\ r.m.search_id = x.m.search_id /\ r.m.ask = x.m.ask
        /\ r.m.fake_stop = x.m.fake_stop /\ r.m.idx_pause = x.m.idx_pause
        /\ r.m.sav_msf = x.m.sav_msf
        /\ r.m.new_progshuf = x.m.new_progshuf /\ Typed(r)
    BY <2>3, Fields DEF TimerFields, Only
  <2>4a. /\ r.s.mode = x.s.mode /\ r.s.off = x.s.off
         /\ r.s.segplay = x.s.segplay /\ r.s.endpos = x.s.endpos
         /\ r.s.program = x.s.program /\ r.s.onetrk = x.s.onetrk
         /\ r.s.shuffle = x.s.shuffle
         /\ r.s.plan = x.s.plan /\ r.s.order = x.s.order
         /\ r.s.prog_cnt = x.s.prog_cnt
         /\ r.s.repeat = x.s.repeat /\ r.s.cur_trk = x.s.cur_trk
    BY <2>3, Fields
  <2>5. r.app \in {"xmcd", "cda"} /\ Unforced(r)
    BY <1>1, <2>4, Parts DEF Starts, Unforced, State, Typed
  <2>6. Flags(r, o) /\ Lists(r) /\ Quiet(r) /\ Resumable(r, o)
    BY <1>1, <2>1, <2>3, <2>3a, <2>4, <2>4a, <2>5
       DEF Starts, Flags, Lists, Listed, Quiet, Resumable
  <2>7. Entered(r) /\ InSeg(r) /\ InEntries(r, o)
    BY <1>1, <2>3, <2>4, <2>4a
       DEF Starts, Entered, InSeg, InEntries, InEntry, EntryOf, Within, On,
           Listed
  <2>8. Timed(r, o) /\ Placed(r, o)
    BY <2>1, <2>3, <2>3a, <2>4, <2>4a DEF Timed, Placed
  <2> QED BY <2>4, <2>5, <2>6, <2>7, <2>8 DEF Inv, Ok, r, x
<1>3. CASE x.ret # TRUE
  <2>1. r = x /\ x.ret = FALSE
    BY <1>1, <1>3 DEF StatPollIf, Starts
  <2>2. /\ x.d = q.d /\ TimersOf(q, x) /\ x.s.mode \in {"STOP", "PLAY"}
        /\ x.app = q.app /\ x.s.off = q.s.off
        /\ x.s.mode = "PLAY" => q.s.off # 0
    BY <1>1, <2>1 DEF Starts
  <2>3. Quiet(q)
    BY <1>1, <2>1
  <2>4. Quiet(x)
    BY <2>2, <2>3 DEF Quiet
  <2>5. Timed(x, o) /\ Placed(x, o)
    BY <2>2 DEF Nearly, Timed, Placed, TimersOf
  <2> QED BY <1>1, <2>1, <2>4, <2>5 DEF Starts, Inv, Ok, x
<1> QED BY <1>2, <1>3

(* slioc_play_pause from play, ... *)
LEMMA PauseInv ==
  ASSUME Sane, NEW q, NEW o, Inv(q, o), q.s.mode = "PLAY", NEW w \in World
  PROVE  Inv(ModeIf(StopPollIf(PauseResume(q, w, FALSE)), "PAUSE"), o)
<1> DEFINE x == PauseResume(q, w, FALSE)
           y == StopStatPoll(x)
           r == Mode(y, "PAUSE")
           z == ModeIf(StopPollIf(x), "PAUSE")
<1>0. Typed(q)
  BY DEF Inv
<1>1. Toggled(q, x, FALSE)
  BY <1>0, PauseResumeIs
<1> HIDE DEF x
<1>2. CASE q.d.st \notin {"playing", "paused"}
  <2>1. /\ z = x /\ x.d = q.d /\ x.s = q.s /\ x.m = q.m /\ x.app = q.app
        /\ x \in State
    BY <1>1, <1>2 DEF Toggled, Typed, StopPollIf, ModeIf
  <2> QED BY <2>1, SameInv DEF x
<1>3. CASE q.d.st \in {"playing", "paused"}
  <2>1. /\ Typed(x) /\ x.s = q.s /\ x.m = q.m /\ x.app = q.app /\ x.ret = TRUE
        /\ x.d.pos = q.d.pos /\ x.d.end = q.d.end /\ x.d.st = "paused"
    BY <1>1, <1>3 DEF Toggled
  <2>2. StatPollStopped(x, y)
    BY <2>1, StopStatPollIs
  <2>3. z = r
    BY <2>1, <2>2 DEF StopPollIf, ModeIf, StatPollStopped
  <2> HIDE DEF y, z
  <2>4. Only(y, r, {"mode"}, {}) /\ r.s.mode = "PAUSE" /\ r.d = y.d
    <3>1. Typed(y) /\ "PAUSE" \in Modes
      BY <2>2 DEF StatPollStopped, Only, Modes
    <3> QED BY <3>1, ModeIs
  <2> HIDE DEF r
  <2>5. /\ Only(q, r, {"mode"}, {"stat_polling", "stat_id"})
        /\ r.m.stat_polling = FALSE
        /\ r.m.stat_id = (q.m.stat_id /\ ~ q.m.stat_polling)
    <3>1. SBut(q.s, r.s, {"mode"})
      BY <2>1, <2>2, <2>4 DEF StatPollStopped, Only, SBut, SFields
    <3>2. MBut(q.m, r.m, {"stat_polling", "stat_id"})
      BY <2>1, <2>2, <2>4 DEF StatPollStopped, Only, MBut, MFields
    <3>3. r.m.stat_polling = y.m.stat_polling /\ r.m.stat_id = y.m.stat_id
      BY <2>4, Fields
    <3> QED BY <2>1, <2>2, <2>4, <3>1, <3>2, <3>3 DEF StatPollStopped, Only
  <2>6. r.d.st = "paused" /\ r.d.pos = q.d.pos /\ r.d.end = q.d.end
    BY <2>1, <2>2, <2>4 DEF StatPollStopped
  <2>7. /\ r.app = q.app /\ r.s.segplay = q.s.segplay /\ r.s.endpos = q.s.endpos
        /\ r.s.program = q.s.program
        /\ r.s.onetrk = q.s.onetrk /\ r.s.shuffle = q.s.shuffle
        /\ r.s.plan = q.s.plan /\ r.m.ask = q.m.ask
        /\ r.m.stray = q.m.stray /\ r.m.searching = q.m.searching
        /\ r.m.search_id = q.m.search_id
    BY <2>5, Fields
  <2>8. /\ r.s.order = q.s.order /\ r.s.prog_cnt = q.s.prog_cnt
        /\ r.s.repeat = q.s.repeat
        /\ r.s.cur_trk = q.s.cur_trk /\ r.m.new_progshuf = q.m.new_progshuf
        /\ r.m.sav_msf = q.m.sav_msf /\ r.m.fake_stop = q.m.fake_stop
        /\ r.m.idx_pause = q.m.idx_pause
    BY <2>5, Fields
  <2>9. Typed(r) /\ Unforced(r) /\ Timed(r, o) /\ Placed(r, o) /\ Quiet(r)
    BY <2>4, <2>5, <2>6, <2>7, <2>8
       DEF Only, Inv, Unforced, Timed, Placed, Quiet
  <2>10. Flags(r, o) /\ Lists(r)
    BY <2>4, <2>5, <2>7, <2>8 DEF Inv, Ok, Flags, Lists, Listed
  <2>11. Entered(r) /\ InSeg(r) /\ Resumable(r, o)
    BY <1>3, <2>6, <2>7, <2>8
       DEF Inv, Ok, Entered, InSeg, Resumable, On, Listed, Heard
  <2>12. InEntries(r, o)
    BY <1>3, <2>4, <2>6, <2>7, <2>8
       DEF Inv, Ok, InEntries, InEntry, EntryOf, Within, On, Listed, Heard
  <2> QED BY <2>3, <2>9, <2>10, <2>11, <2>12 DEF Inv, Ok, z, x
<1> QED BY <1>2, <1>3

(* ... and from pause. *)
LEMMA ResumeInv ==
  ASSUME Sane, NEW q, NEW o, Inv(q, o), q.s.mode = "PAUSE", NEW w \in World
  PROVE  Inv(StatPollIf(ModeIf(PauseResume(q, w, TRUE), "PLAY")), o)
<1> DEFINE x == PauseResume(q, w, TRUE)
           y == Mode(x, "PLAY")
           r == StartStatPoll(y)
           z == StatPollIf(ModeIf(x, "PLAY"))
<1>0. Typed(q)
  BY DEF Inv
<1>1. Toggled(q, x, TRUE)
  BY <1>0, PauseResumeIs
<1> HIDE DEF x
<1>2. CASE q.d.st \notin {"playing", "paused"}
  <2>1. /\ z = x /\ x.d = q.d /\ x.s = q.s /\ x.m = q.m /\ x.app = q.app
        /\ x \in State
    BY <1>1, <1>2 DEF Toggled, Typed, StatPollIf, ModeIf
  <2> QED BY <2>1, SameInv DEF x
<1>3. CASE q.d.st \in {"playing", "paused"}
  <2>1. /\ Typed(x) /\ x.s = q.s /\ x.m = q.m /\ x.app = q.app /\ x.ret = TRUE
        /\ x.d.pos = q.d.pos /\ x.d.end = q.d.end /\ x.d.st = "playing"
    BY <1>1, <1>3 DEF Toggled
  <2>2. /\ Only(x, y, {"mode"}, {}) /\ y.s.mode = "PLAY" /\ y.d = x.d
        /\ y.ret = TRUE
    BY <2>1, ModeIs DEF Modes
  <2>3. z = r
    BY <2>1, <2>2 DEF StatPollIf, ModeIf
  <2> HIDE DEF y, z
  <2>4. StatPollStarted(y, r)
    BY <2>2, StartStatPollIs DEF Only
  <2> HIDE DEF r
  <2>5. /\ Only(q, r, {"mode"}, TimerFields) /\ r.m.stat_polling = TRUE
        /\ r.s.mode = "PLAY"
        /\ IF q.app = "xmcd" THEN r.m.stat_id = TRUE
           ELSE r.m.stat_id = q.m.stat_id /\ r.m.stray = q.m.stray
    <3>1. SBut(q.s, r.s, {"mode"}) /\ r.s.mode = "PLAY"
      BY <2>1, <2>2, <2>4 DEF StatPollStarted, Only, SBut, SFields
    <3>2. MBut(q.m, r.m, TimerFields)
      BY <2>1, <2>2, <2>4 DEF StatPollStarted, Only, MBut, MFields, TimerFields
    <3>3. y.m.stat_id = x.m.stat_id /\ y.m.stray = x.m.stray
      BY <2>2, Fields
    <3> QED BY <2>1, <2>2, <2>4, <3>1, <3>2, <3>3 DEF StatPollStarted, Only
  <2>6. r.d.st = "playing" /\ r.d.pos = q.d.pos /\ r.d.end = q.d.end
    BY <2>1, <2>2, <2>4 DEF StatPollStarted
  <2>7. /\ r.app = q.app /\ r.s.segplay = q.s.segplay /\ r.s.endpos = q.s.endpos
        /\ r.s.program = q.s.program
        /\ r.s.onetrk = q.s.onetrk /\ r.s.shuffle = q.s.shuffle
        /\ r.s.plan = q.s.plan /\ r.m.ask = q.m.ask
        /\ r.m.searching = q.m.searching /\ r.m.search_id = q.m.search_id
    BY <2>5, Fields DEF TimerFields
  <2>8. /\ r.s.order = q.s.order /\ r.s.prog_cnt = q.s.prog_cnt
        /\ r.s.repeat = q.s.repeat
        /\ r.s.cur_trk = q.s.cur_trk /\ r.m.new_progshuf = q.m.new_progshuf
        /\ r.m.sav_msf = q.m.sav_msf /\ r.m.fake_stop = q.m.fake_stop
        /\ r.m.idx_pause = q.m.idx_pause
    BY <2>5, Fields DEF TimerFields
  <2>9. Typed(r) /\ Unforced(r) /\ Timed(r, o) /\ Placed(r, o) /\ Quiet(r)
    BY <2>5, <2>6, <2>7, <2>8 DEF Only, Inv, Unforced, Timed, Placed, Quiet
  <2>9a. q.app \in {"xmcd", "cda"}
    BY <1>0, Parts DEF State
  <2>10. Flags(r, o) /\ Lists(r)
    BY <2>5, <2>7, <2>8, <2>9a DEF Inv, Ok, Flags, Lists, Listed
  <2>11. Entered(r) /\ InSeg(r) /\ Resumable(r, o)
    BY <1>3, <2>6, <2>7, <2>8
       DEF Inv, Ok, Entered, InSeg, Resumable, On, Listed, Heard
  <2>12. InEntries(r, o)
    BY <1>3, <2>5, <2>6, <2>7, <2>8
       DEF Inv, Ok, InEntries, InEntry, EntryOf, Within, On, Listed, Heard
  <2> QED BY <2>3, <2>9, <2>10, <2>11, <2>12 DEF Inv, Ok, z, x
<1> QED BY <1>2, <1>3

-----------------------------------------------------------------------------
(* The play/pause button of slioc. *)

(* What no part of the invariant speaks of. *)
LEMMA FrameInv ==
  ASSUME NEW q, NEW r, NEW o, Inv(q, o), Only(q, r, {"pos", "startpos"}, Idle),
         r.d = q.d
  PROVE  Inv(r, o)
<1>1. Only(q, r, {"pos", "startpos"}, Settings)
  BY DEF Only, MBut, Settings
<1>2. /\ r.app = q.app /\ r.s.segplay = q.s.segplay /\ r.s.endpos = q.s.endpos
      /\ r.s.program = q.s.program
      /\ r.s.onetrk = q.s.onetrk /\ r.s.shuffle = q.s.shuffle
      /\ r.s.plan = q.s.plan /\ r.m.ask = q.m.ask
      /\ r.s.mode = q.s.mode
  BY Fields DEF Idle
<1>3. /\ r.s.order = q.s.order /\ r.s.prog_cnt = q.s.prog_cnt
      /\ r.s.repeat = q.s.repeat
      /\ r.s.cur_trk = q.s.cur_trk /\ r.m.new_progshuf = q.m.new_progshuf
  BY Fields DEF Idle
<1>4. Lists(r)
  BY <1>2 DEF Inv, Ok, Lists, Listed
<1>5. q.app = "cda" => r.s.segplay = "NONE" /\ r.s.onetrk = FALSE /\ r.m.ask = "no"
  BY <1>2 DEF Inv, Ok, Flags
<1>6. On(q) /\ Listed(r) =>
        /\ Listed(q) /\ r.s.order = q.s.order /\ r.s.prog_cnt = q.s.prog_cnt
        /\ r.s.cur_trk = q.s.cur_trk
        /\ r.m.new_progshuf => r.s.repeat /\ q.m.new_progshuf
  BY <1>2, <1>3 DEF Inv, Ok, Entered, Listed
<1>7. On(q) /\ r.s.segplay = "AB" => q.s.segplay = "AB" /\ r.s.endpos = q.s.endpos
  BY <1>2
<1> QED BY <1>1, <1>4, <1>5, <1>6, <1>7, SettingInv

(* The status of a sampling. *)
LEMMA SampleStatus ==
  ASSUME Sane, NEW q, NEW o, Inv(q, o), q.s.mode = "SAMPLE", NEW w \in World
  PROVE  LET g == GetPlaystatus(q, w)
         IN  Inv(g, o) /\ g.ret \in BOOLEAN /\ (g.ret = TRUE => g.s.mode = "SAMPLE" /\ g.d.st # "empty")
<1> DEFINE g == GetPlaystatus(q, w)
<1>0. Typed(q) /\ Ok(q, o) /\ Unforced(q) /\ Timed(q, o) /\ Placed(q, o) /\ q.app = "xmcd" /\ "sample" \in o
      /\ q.m.stat_polling
  BY Parts DEF Inv, Ok, Flags, State, Timed
<1>1. Typed(g) /\ Ok(g, o) /\ Unforced(g) /\ Went(q, g) /\ Status(q, w, g)
  BY <1>0, StatusOk
<1> HIDE DEF g
<1>2. /\ g.m.stat_polling /\ (g.m.stat_id \/ g.m.stray > 0) /\ g.ret \in BOOLEAN
      /\ g.s.mode # "PAUSE" /\ (g.s.mode = "NODISC" => g.d.st = "empty")
      /\ g.s.mode \in {"STOP", "NODISC"} => g.s.off = 0
      /\ g.ret = TRUE => g.d.st # "empty"
  BY <1>0, <1>1 DEF Went, Polls, TimersOf, Timed
<1>3. Timed(g, o) /\ Placed(g, o)
  BY <1>0, <1>2 DEF Timed, Placed
<1>4. g.ret = TRUE => g.s.mode = "SAMPLE"
  <2>1. CASE q.d.st = "empty" /\ Gone(q, g)
    BY <2>1 DEF Gone
  <2>2. CASE Goes(q, g) \/ Waits(q, g)
    <3>1. Only(q, g, PlaceFields, {"nostatcnt", "errcnt"})
      BY <2>2 DEF Goes, Waits, Only, MBut
    <3> QED BY <3>1, Fields DEF PlaceFields
  <2>3. CASE Skips(q, g)
    <3>1. Only(q, g, PlaceFields, StatusFields \cup {"sav_end"})
      BY <2>3 DEF Skips
    <3> QED BY <3>1, Fields DEF PlaceFields
  <2>4. CASE Ends(q, w, g)
    <3>1. PICK b : Based(q, b) /\ Passed(b, w, g)
      BY <2>4 DEF Ends
    <3>2. Only(q, b, PlaceFields, StatusFields \cup {"fake_stop", "sav_end"})
      BY <3>1 DEF Based
    <3>3. b.s.mode = "SAMPLE"
      BY <3>2, Fields DEF PlaceFields
    <3>4. g.ret = TRUE => Only(b, g, {}, {"next_sam"} \cup Sav)
      BY <3>1, <3>3 DEF Passed, GoneOn, RunOut, SampleRun
    <3>5. g.ret = TRUE => g.s.mode = b.s.mode
      BY <3>4 DEF Only, SBut, SFields
    <3> QED BY <3>3, <3>5
  <2> QED BY <1>1, <2>1, <2>2, <2>3, <2>4 DEF Status
<1> QED BY <1>1, <1>2, <1>3, <1>4 DEF Inv, g

(* ... and from sampling: the player goes on where it is. *)
LEMMA UnsampleInv ==
  ASSUME Sane, NEW q, NEW o, Inv(q, o), q.s.mode = "SAMPLE", NEW w \in World
  PROVE  Inv(ModeIf(PlayOnIf(GetPlaystatus(q, w), w, Leadout), "PLAY"), o)
<1> DEFINE g == GetPlaystatus(q, w)
           x == DoPlayaudio(g, w, g.s.pos, Leadout)
           r == Mode(x, "PLAY")
           z == ModeIf(PlayOnIf(g, w, Leadout), "PLAY")
<1>1. Inv(g, o) /\ g.ret \in BOOLEAN /\ (g.ret = TRUE => g.s.mode = "SAMPLE" /\ g.d.st # "empty")
  BY SampleStatus
<1> HIDE DEF g
<1>2. CASE g.ret = FALSE
  BY <1>1, <1>2 DEF PlayOnIf, ModeIf, g
<1>3. CASE g.ret = TRUE
  <2>1. /\ ~ Listed(g) /\ g.s.segplay = "NONE" /\ g.s.pos \in Nat
        /\ g.m.stat_polling /\ g.app = "xmcd"
        /\ Typed(g) /\ g.m.stat_polling \in BOOLEAN
    <3>1. /\ g.s.pos \in Block /\ g.app \in {"xmcd", "cda"} /\ Typed(g)
          /\ g.m.stat_polling \in BOOLEAN
      BY <1>1, Parts, SMTT(30) DEF Inv, Curstat, State, Statics
    <3> QED BY <1>1, <1>3, <3>1 DEF Inv, Ok, Lists, Flags, Timed, Block
  <2>2. Plays(g, x, g.s.pos, Leadout)
    BY <1>1, <1>3, <2>1, DoPlayaudioIs, Discs
  <2>3. z = ModeIf(x, "PLAY")
    BY <1>3, <2>1 DEF PlayOnIf, PlayOn
  <2> HIDE DEF x
  <2>4. CASE ~ (g.s.pos < Clip(Leadout))
    <3>1. /\ x.ret = FALSE /\ x.d = g.d /\ x.m.sav_msf = g.m.sav_msf
          /\ Only(g, x, {}, Sav)
      BY <2>2, <2>4 DEF Plays
    <3>2. Only(g, x, {"pos", "startpos"}, Idle)
      BY <3>1 DEF Only, SBut, MBut, MFields, Sav, Idle
    <3>3. Inv(x, o)
      BY <1>1, <3>1, <3>2, FrameInv
    <3> QED BY <2>3, <3>1, <3>3 DEF ModeIf, g
  <2>5. CASE g.s.pos < Clip(Leadout)
    <3>1. /\ x.ret = TRUE /\ x.d.st = "playing" /\ x.d.end = Clip(Leadout)
          /\ x.m.sav_msf = Leadout
          /\ Only(g, x, {}, Sav)
      BY <2>2, <2>5 DEF Plays
    <3>2. z = r
      BY <2>3, <3>1 DEF ModeIf
    <3> HIDE DEF z
    <3>3. /\ Only(x, r, {"mode"}, {}) /\ r.s.mode = "PLAY" /\ r.d = x.d
          /\ r.m = x.m
      BY <3>1, ModeIs DEF Modes, Only
    <3> HIDE DEF r
    <3>4. Only(g, r, {"mode"}, Sav)
      BY <3>1, <3>3 DEF Only, SBut, SFields, MBut
    <3>5. /\ r.app = g.app /\ r.s.segplay = g.s.segplay
          /\ r.s.program = g.s.program
          /\ r.s.onetrk = g.s.onetrk /\ r.s.shuffle = g.s.shuffle
          /\ r.s.plan = g.s.plan
          /\ r.m.ask = g.m.ask /\ TimersOf(g, r)
          /\ r.m.searching = g.m.searching /\ r.m.search_id = g.m.search_id
          /\ r.m.fake_stop = g.m.fake_stop /\ r.m.idx_pause = g.m.idx_pause
          /\ Typed(r)
      BY <3>4, Fields DEF Sav, TimersOf, Only
    <3>6. /\ Flags(r, o) /\ Lists(r) /\ Unforced(r) /\ Timed(r, o)
          /\ Placed(r, o) /\ Quiet(r)
      BY <1>1, <2>1, <3>3, <3>5
         DEF Inv, Ok, Flags, Lists, Listed, Unforced, Timed, Placed, TimersOf,
             Quiet
    <3>7. Entered(r) /\ InSeg(r) /\ InEntries(r, o)
      BY <2>1, <3>5 DEF Entered, InSeg, InEntries, Listed
    <3>8. Clip(Leadout) <= Clip(Leadout)
      BY Discs, Clipped
    <3>9. Resumable(r, o)
      BY <3>1, <3>3, <3>8 DEF Resumable
    <3> QED BY <3>2, <3>5, <3>6, <3>7, <3>9 DEF Inv, Ok, z, g
  <2> QED BY <2>4, <2>5
<1> QED BY <1>1, <1>2, <1>3

(* slioc_play_pause and the play/pause button. *)
LEMMA PlayPauseInv ==
  ASSUME Sane, NEW q, NEW o, Plain(o), NEW w \in World,
         Inv(q, o) \/ (Nearly(q, o) /\ q.s.mode = "STOP" /\ (Quiet(q) \/ Certain(q)))
  PROVE  Inv(SlPlayPause(q, w), o)
<1> DEFINE x == DiscReady(q)
<1>1. CASE q.d.st = "empty"
  <2>0. Stoppable(q, o)
    BY InvNearly DEF Nearly
  <2>1. Inv(x, o) /\ x.ret = FALSE
    BY <1>1, <2>0, ReadyInv DEF Stoppable
  <2> QED BY <2>1 DEF SlPlayPause, PlayPauseReady
<1>2. CASE q.d.st # "empty" /\ Inv(q, o)
  <2>1. /\ Inv(x, o) /\ x.ret = TRUE /\ x.d = q.d /\ x.s.mode # "NODISC"
        /\ x.s.mode \in Modes
    <3>1. Inv(x, o) /\ x.ret = TRUE /\ x.d = q.d /\ x.s.mode # "NODISC"
      BY <1>2, DiscReadyInv
    <3> HIDE DEF x
    <3> QED BY <3>1, Parts DEF Inv, Curstat, Modes
  <2> HIDE DEF x
  <2>2. Nearly(x, o) /\ Quiet(x)
    BY <2>1, InvNearly DEF Inv, Ok
  <2>3. Inv(PlayPauseReady(x, w), o)
    <3>1. CASE x.s.mode = "PLAY"
      BY <2>1, <3>1, PauseInv DEF PlayPauseReady
    <3>2. CASE x.s.mode = "PAUSE"
      BY <2>1, <3>2, ResumeInv DEF PlayPauseReady
    <3>3. CASE x.s.mode = "STOP"
      BY <1>2, <2>1, <2>2, <3>3, StartInv DEF PlayPauseReady
    <3>4. CASE x.s.mode = "SAMPLE"
      BY <2>1, <3>4, UnsampleInv DEF PlayPauseReady
    <3> QED BY <2>1, <3>1, <3>2, <3>3, <3>4 DEF Modes
  <2> QED BY <2>3 DEF SlPlayPause, x
<1>3. CASE q.d.st # "empty" /\ Nearly(q, o) /\ q.s.mode = "STOP" /\ (Quiet(q) \/ Certain(q))
  <2>1. Typed(q) /\ q \in State
    BY <1>3, Parts DEF Nearly, Stoppable
  <2>2. x = Ret(q, TRUE)
    BY <1>3 DEF DiscReady
  <2>3. /\ x \in State /\ x.s = q.s /\ x.m = q.m /\ x.d = q.d /\ x.app = q.app
        /\ x.ret = TRUE
    BY <2>1, <2>2, RetIs
  <2> HIDE DEF x
  <2>4. /\ Typed(x) /\ Flags(x, o) /\ Lists(x) /\ Resumable(x, o) /\ Unforced(x)
        /\ Ticks(x)
    BY <1>3, <2>3
       DEF Typed, Nearly, Stoppable, Flags, Lists, Listed, Resumable, Unforced,
           Ticks
  <2>5. Timed(x, o) /\ Placed(x, o) /\ (Quiet(x) \/ Certain(x))
    BY <1>3, <2>3 DEF Nearly, Timed, Placed, Quiet, Certain, Listed, StartTrack
  <2>6. Nearly(x, o)
    BY <2>4, <2>5 DEF Nearly, Stoppable
  <2>7. Inv(StatPollIf(StartPlay(x, w)), o)
    BY <1>3, <2>3, <2>5, <2>6, StartInv
  <2> QED BY <1>3, <2>3, <2>7 DEF SlPlayPause, PlayPauseReady, x
<1> QED BY <1>1, <1>2, <1>3

-----------------------------------------------------------------------------
(* Program, shuffle and the list of one track. *)

(* What makes a list. *)
ListFields == {"segplay", "program", "onetrk", "shuffle", "plan", "order", "prog_cnt"}

(* Only the list changes. *)
Tidied(q, r) == Only(q, r, ListFields, {}) /\ r.d = q.d

(* Two such changes are one, ... *)
LEMMA TidiedTwice ==
  ASSUME NEW q, NEW x, NEW r, Tidied(q, x), Tidied(x, r)
  PROVE  Tidied(q, r)
<1>1. SBut(q.s, r.s, ListFields)
  BY DEF Tidied, Only, SBut, SFields
<1>2. MBut(q.m, r.m, {})
  BY DEF Tidied, Only, MBut, MFields
<1> QED BY <1>1, <1>2 DEF Tidied, Only

(* ... no change is one, ... *)
LEMMA TidiedNone ==
  ASSUME NEW q, Typed(q)
  PROVE  Tidied(q, q)
BY SameS, SameM DEF Tidied, Only

(* ... and the drive and the timers are not concerned. *)
LEMMA TidiedNearly ==
  ASSUME NEW q, NEW r, NEW o, Tidied(q, r), Lists(r),
         q.app = "cda" => r.s.segplay = "NONE" /\ r.s.onetrk = FALSE
  PROVE  /\ r.s.mode = q.s.mode /\ r.s.off = q.s.off /\ r.d = q.d
         /\ r.app = q.app /\ r.m.ask = q.m.ask
         /\ Quiet(q) => Quiet(r)
         /\ Stoppable(q, o) => Stoppable(r, o)
         /\ Nearly(q, o) => Nearly(r, o)
<1>1. Only(q, r, ListFields, {}) /\ r.d = q.d
  BY DEF Tidied
<1>2. /\ r.app = q.app /\ r.s.mode = q.s.mode /\ r.s.off = q.s.off
      /\ r.m.fake_stop = q.m.fake_stop
      /\ r.m.idx_pause = q.m.idx_pause /\ TimersOf(q, r)
      /\ r.m.searching = q.m.searching
      /\ r.m.search_id = q.m.search_id /\ r.m.sav_msf = q.m.sav_msf
      /\ r.m.ask = q.m.ask /\ Typed(r)
  BY <1>1, Fields DEF TimersOf, ListFields, Only
<1>3. Stoppable(q, o) => Stoppable(r, o)
  BY <1>1, <1>2 DEF Stoppable, Flags, Resumable, Unforced, Ticks, TimersOf
<1>4. Nearly(q, o) => Nearly(r, o)
  BY <1>1, <1>2, <1>3 DEF Nearly, Timed, Placed, TimersOf
<1> QED BY <1>1, <1>2, <1>3, <1>4 DEF Quiet

(* A stopped state with a silent drive needs no more. *)
LEMMA QuietInv ==
  ASSUME NEW q, NEW o, Nearly(q, o), q.s.mode \in {"STOP", "NODISC"}, Quiet(q)
  PROVE  Inv(q, o)
<1>1. q.d.st \notin {"playing", "error"}
  BY DEF Quiet
<1> QED BY <1>1, StoppedOk DEF Nearly, Stoppable, Inv

(* A playing list that is left, or played on without a segment. *)
LEMMA TidiedInv ==
  ASSUME NEW q, NEW r, NEW o, Inv(q, o), Tidied(q, r), Lists(r),
         r.s.segplay \in {q.s.segplay, "NONE"}, q.app = "cda" => r.s.onetrk = FALSE,
         On(q) /\ Listed(r) => Listed(q) /\ r.s.order = q.s.order /\ r.s.prog_cnt = q.s.prog_cnt
  PROVE  Inv(r, o)
<1>1. Only(q, r, ListFields, {}) /\ r.d = q.d
  BY DEF Tidied
<1>2. Only(q, r, ListFields, Settings)
  BY <1>1 DEF Only, MBut
<1>3. /\ r.s.repeat = q.s.repeat /\ r.s.cur_trk = q.s.cur_trk
      /\ r.m.new_progshuf = q.m.new_progshuf
      /\ r.m.ask = q.m.ask /\ r.s.endpos = q.s.endpos
  BY <1>1, Fields DEF ListFields
<1>4. q.app = "cda" => r.s.segplay = "NONE" /\ r.s.onetrk = FALSE /\ r.m.ask = "no"
  BY <1>3 DEF Inv, Ok, Flags
<1>5. On(q) /\ Listed(r) =>
        /\ Listed(q) /\ r.s.order = q.s.order /\ r.s.prog_cnt = q.s.prog_cnt
        /\ r.s.cur_trk = q.s.cur_trk
        /\ r.m.new_progshuf => r.s.repeat /\ q.m.new_progshuf
  BY <1>3 DEF Inv, Ok, Entered
<1>6. On(q) /\ r.s.segplay = "AB" => q.s.segplay = "AB" /\ r.s.endpos = q.s.endpos
  BY <1>3
<1>7. "mode" \notin ListFields /\ "off" \notin ListFields
  BY DEF ListFields
<1> QED BY <1>1, <1>2, <1>4, <1>5, <1>6, <1>7, SettingInv

(* The segment goes. *)
LEMMA NoSegmentIs ==
  ASSUME NEW q, Typed(q)
  PROVE  LET r == NoSegment(q)
         IN  /\ Tidied(q, r) /\ Only(q, r, {"segplay"}, {}) /\ r.s.segplay = "NONE" /\ r.ret = q.ret
             /\ (Lists(q) => Lists(r))
<1> DEFINE r == NoSegment(q)
           S == [q.s EXCEPT !.segplay = "NONE"]
<1>1. S \in Curstat /\ SBut(q.s, S, {"segplay"}) /\ S.segplay = "NONE"
  BY Parts DEF Curstat, SBut, SFields
<1>2. r = WithSM(q, S, q.m)
  BY Parts DEF WithSM, State, NoSegment
<1> HIDE DEF S, r
<1>3. /\ Typed(r) /\ r.app = q.app /\ r.s = S /\ r.m = q.m /\ r.d = q.d
      /\ r.ret = q.ret
  BY <1>1, <1>2, WithSMIs, Parts
<1>4. Only(q, r, {"segplay"}, {}) /\ r.s.segplay = "NONE"
  BY <1>1, <1>3, SameM DEF Only
<1>5. Tidied(q, r)
  BY <1>3, <1>4 DEF Tidied, Only, SBut, ListFields
<1>6. /\ r.app = q.app /\ r.s.mode = q.s.mode /\ r.s.program = q.s.program
      /\ r.s.onetrk = q.s.onetrk
      /\ r.s.shuffle = q.s.shuffle /\ r.s.plan = q.s.plan
  BY <1>4, Fields
<1>7. Lists(q) => Lists(r)
  BY <1>4, <1>6 DEF Lists, Listed
<1> QED BY <1>3, <1>4, <1>5, <1>7 DEF r

(* slioc_shuffle without a program. *)
Shuffled(q, b, r) ==
  /\ Tidied(q, r) /\ Lists(r) /\ r.s.program = FALSE /\ r.s.onetrk = FALSE
  /\ r.s.plan = q.s.plan
  /\ r.s.segplay \in {q.s.segplay, "NONE"}
  /\ ~ b => r.s.shuffle = FALSE
  /\ b /\ On(q) /\ Listed(r) => Listed(q) /\ r.s.order = q.s.order /\ r.s.prog_cnt = q.s.prog_cnt
  /\ b /\ q.s.mode \in {"STOP", "NODISC"} /\ q.s.segplay # "A" => r.s.shuffle = TRUE /\ r.s.segplay = "NONE"

(* slioc_shuffle. *)
LEMMA SlShuffleIs ==
  ASSUME NEW q, Typed(q), Lists(q), q.s.program = FALSE, NEW b \in BOOLEAN
  PROVE  Shuffled(q, b, SlShuffle(q, b))
<1> SUFFICES ASSUME NEW r, r = SlShuffle(q, b) PROVE Shuffled(q, b, r)
  OBVIOUS
<1> DEFINE x == NoSegment(q)
           y == [x EXCEPT !.s.shuffle = b, !.s.order = IF b THEN @ ELSE Nil]
           new == IF b THEN x.s.order ELSE Nil
           S == [x.s EXCEPT !.shuffle = b, !.order = new]
           stays == q.s.segplay = "A" \/ (q.s.mode \in Active /\ b)
<1>0. q.s.shuffle \in BOOLEAN /\ q.s.onetrk = FALSE /\ q.s.mode \in Modes
  BY Parts DEF Curstat, Lists, Modes
<1>1. r = IF stays THEN q ELSE y
  BY <1>0, NilIs DEF SlShuffle
<1>2. /\ Tidied(q, x) /\ x.s.segplay = "NONE" /\ Lists(x) /\ Typed(x)
      /\ Only(q, x, {"segplay"}, {})
  BY NoSegmentIs DEF Only
<1> HIDE DEF x
<1>3. /\ x.s.program = FALSE /\ x.s.onetrk = FALSE /\ x.s.plan = q.s.plan
      /\ x.s.mode = q.s.mode /\ x.app = q.app
      /\ x.s.order = q.s.order /\ x.s.prog_cnt = q.s.prog_cnt
  BY <1>0, <1>2, Fields
<1>4. y = WithSM(x, S, x.m) /\ new \in Seq(Track)
  BY <1>2, Parts, NilIs DEF WithSM, State, Curstat
<1> HIDE DEF new
<1>5. S \in Curstat /\ SBut(x.s, S, {"shuffle", "order"}) /\ S.shuffle = b
  BY <1>2, <1>4, Parts, ZenonT(30) DEF Curstat, SBut, SFields
<1> HIDE DEF S, y
<1>6. Typed(y) /\ y.app = x.app /\ y.s = S /\ y.m = x.m /\ y.d = x.d
  BY <1>2, <1>4, <1>5, WithSMIs, Parts
<1>7. Only(x, y, {"shuffle", "order"}, {}) /\ y.s.shuffle = b
  BY <1>5, <1>6, SameM DEF Only
<1>8. Tidied(x, y)
  BY <1>6, <1>7 DEF Tidied, Only, SBut, ListFields
<1>9. Tidied(q, y)
  BY <1>2, <1>8, TidiedTwice
<1>10. /\ y.s.program = FALSE /\ y.s.onetrk = FALSE /\ y.s.plan = q.s.plan
       /\ y.s.mode = q.s.mode /\ y.app = q.app
       /\ y.s.segplay = "NONE"
  BY <1>2, <1>3, <1>7, Fields
<1> HIDE DEF stays
<1>11. CASE stays
  <2>1. r = q
    BY <1>1, <1>11
  <2>2. ~ b => q.s.shuffle = FALSE
    BY <1>0, <1>11 DEF stays, Lists, Listed
  <2>3. q.s.mode \in {"STOP", "NODISC"} => q.s.segplay = "A"
    BY <1>11 DEF stays, Active
  <2> QED BY <1>0, <2>1, <2>2, <2>3, TidiedNone DEF Shuffled, Listed
<1>12. CASE ~ stays
  <2>1. r = y
    BY <1>1, <1>12
  <2>2. b => ~ On(q)
    BY <1>12 DEF stays, On, Active
  <2>3. y.s.mode = "SAMPLE" => b = FALSE
    BY <1>10, <1>12 DEF stays, Active
  <2>4. Lists(y)
    BY <1>7, <1>10, <2>3 DEF Lists, Listed
  <2> QED BY <1>7, <1>9, <1>10, <2>1, <2>2, <2>4 DEF Shuffled
<1> QED BY <1>11, <1>12

(* dbprog_clrpgm and its parts: a program, and the list of one track, go. *)
Dropped(q, r) ==
  /\ Tidied(q, r) /\ Lists(r) /\ r.s.program = FALSE /\ r.s.onetrk = FALSE
  /\ r.s.segplay \in {q.s.segplay, "NONE"}

(* The list of one track goes, with its program. *)
LEMMA EndOnetrkIs ==
  ASSUME NEW q, Typed(q), Lists(q)
  PROVE  LET r == EndOnetrk(q)
         IN  /\ Tidied(q, r) /\ Lists(r) /\ r.s.onetrk = FALSE /\ r.s.segplay = q.s.segplay
             /\ r.s.shuffle = q.s.shuffle
             /\ r.s.program = (q.s.program /\ ~ q.s.onetrk)
             /\ ~ q.s.onetrk => r = q
<1> DEFINE r == EndOnetrk(q)
           x == [q EXCEPT !.s.onetrk = FALSE]
           S == [q.s EXCEPT !.onetrk = FALSE]
<1>0. /\ q.s.onetrk \in BOOLEAN /\ q.s.program \in BOOLEAN
      /\ q.s.shuffle \in BOOLEAN
  BY Parts DEF Curstat
<1>1. S \in Curstat /\ SBut(q.s, S, {"onetrk"}) /\ S.onetrk = FALSE
  BY Parts DEF Curstat, SBut, SFields
<1>2. x = WithSM(q, S, q.m)
  BY Parts DEF WithSM, State
<1>3. r = IF q.s.onetrk THEN ProgClear(x) ELSE q
  BY DEF EndOnetrk
<1> HIDE DEF S, x, r
<1>4. Typed(x) /\ x.app = q.app /\ x.s = S /\ x.m = q.m /\ x.d = q.d
  BY <1>1, <1>2, WithSMIs, Parts
<1>5. Only(q, x, {"onetrk"}, {}) /\ x.s.onetrk = FALSE
  BY <1>1, <1>4, SameM DEF Only
<1>6. CASE q.s.onetrk
  <2>1. Cleared(x, r)
    BY <1>3, <1>4, <1>6, ProgClearIs
  <2>2. /\ Only(x, r, {"plan", "order", "prog_cnt", "program"}, {}) /\ r.d = x.d
        /\ r.s.program = FALSE
    BY <2>1 DEF Cleared
  <2>3. Tidied(q, x) /\ Tidied(x, r)
    BY <1>4, <1>5, <2>2 DEF Tidied, Only, SBut, ListFields
  <2>4. Tidied(q, r)
    BY <2>3, TidiedTwice
  <2>5. /\ r.s.onetrk = FALSE /\ r.s.segplay = x.s.segplay
        /\ r.s.shuffle = x.s.shuffle /\ r.s.mode = x.s.mode
    BY <1>5, <2>2, Fields
  <2>6. /\ x.s.segplay = q.s.segplay /\ x.s.shuffle = q.s.shuffle
        /\ x.s.mode = q.s.mode
    BY <1>5, Fields
  <2>7. Lists(r)
    BY <1>6, <2>2, <2>5, <2>6 DEF Lists, Listed
  <2> QED BY <1>6, <2>2, <2>4, <2>5, <2>6, <2>7 DEF r
<1>7. CASE ~ q.s.onetrk
  <2>1. r = q
    BY <1>3, <1>7
  <2> QED BY <1>0, <1>7, <2>1, TidiedNone DEF r
<1> QED BY <1>6, <1>7

(* The shuffle goes. *)
LEMMA NoShuffleIs ==
  ASSUME NEW q, Typed(q), Lists(q)
  PROVE  LET r == NoShuffle(q)
         IN  /\ Tidied(q, r) /\ Lists(r) /\ r.s.shuffle = FALSE /\ r.s.segplay \in {q.s.segplay, "NONE"}
             /\ r.s.program = q.s.program /\ r.s.onetrk = q.s.onetrk
             /\ r.s.plan = q.s.plan
<1> DEFINE r == NoShuffle(q)
<1>1. CASE q.s.shuffle
  <2>1. q.s.program = FALSE /\ q.s.onetrk = FALSE
    BY <1>1, Parts DEF Lists, Curstat
  <2>2. Shuffled(q, FALSE, r)
    BY <1>1, <2>1, SlShuffleIs DEF NoShuffle
  <2> HIDE DEF r
  <2> QED BY <2>1, <2>2 DEF Shuffled, r
<1>2. CASE ~ q.s.shuffle
  <2>1. r = q /\ q.s.shuffle = FALSE
    BY <1>2, Parts DEF NoShuffle, Curstat
  <2> QED BY <2>1, TidiedNone
<1> QED BY <1>1, <1>2

(* The program goes. *)
LEMMA ProgClearDrops ==
  ASSUME NEW q, Typed(q), Lists(q), q.s.onetrk = FALSE
  PROVE  /\ Dropped(q, ProgClear(q)) /\ ProgClear(q).s.shuffle = q.s.shuffle
         /\ ProgClear(q).s.segplay = q.s.segplay
<1> DEFINE r == ProgClear(q)
<1>1. Cleared(q, r)
  BY ProgClearIs
<1> HIDE DEF r
<1>2. /\ Only(q, r, {"plan", "order", "prog_cnt", "program"}, {}) /\ r.d = q.d
      /\ r.s.program = FALSE
  BY <1>1 DEF Cleared
<1>3. Tidied(q, r)
  BY <1>2 DEF Tidied, Only, SBut, ListFields
<1>4. /\ r.s.onetrk = FALSE /\ r.s.segplay = q.s.segplay
      /\ r.s.shuffle = q.s.shuffle /\ r.s.mode = q.s.mode
  BY <1>2, Fields
<1>5. Lists(r)
  BY <1>2, <1>4 DEF Lists, Listed
<1> QED BY <1>2, <1>3, <1>4, <1>5 DEF Dropped, r

(* A program is there. *)
Planned(q, plan) == [q EXCEPT !.s.plan = plan, !.s.program = TRUE]

(* It excludes a segment, a shuffle and sampling. *)
LEMMA PlanIs ==
  ASSUME NEW q, Typed(q), NEW plan \in Seq(Track), plan # Nil, Lists(q),
         q.s.shuffle = FALSE,
         q.s.segplay = "NONE", q.s.mode # "SAMPLE"
  PROVE  LET r == Planned(q, plan) IN
         /\ Tidied(q, r) /\ Lists(r) /\ r.s.program = TRUE
         /\ r.s.onetrk = q.s.onetrk
         /\ r.s.shuffle = FALSE /\ r.s.plan = plan /\ r.s.segplay = "NONE"
         /\ Only(q, r, {"plan", "program"}, {})
<1> DEFINE r == Planned(q, plan)
           S == [q.s EXCEPT !.plan = plan, !.program = TRUE]
<1>1. /\ S \in Curstat /\ SBut(q.s, S, {"plan", "program"}) /\ S.plan = plan
      /\ S.program = TRUE
  BY Parts DEF Curstat, SBut, SFields
<1>2. r = WithSM(q, S, q.m)
  BY Parts DEF WithSM, State, Planned
<1> HIDE DEF S, r
<1>3. Typed(r) /\ r.app = q.app /\ r.s = S /\ r.m = q.m /\ r.d = q.d
  BY <1>1, <1>2, WithSMIs, Parts
<1>4. /\ Only(q, r, {"plan", "program"}, {}) /\ r.s.plan = plan
      /\ r.s.program = TRUE
  BY <1>1, <1>3, SameM DEF Only
<1>5. Tidied(q, r)
  BY <1>3, <1>4 DEF Tidied, Only, SBut, ListFields
<1>6. /\ r.s.onetrk = q.s.onetrk /\ r.s.segplay = q.s.segplay
      /\ r.s.shuffle = q.s.shuffle /\ r.s.mode = q.s.mode
  BY <1>4, Fields
<1> QED BY <1>3, <1>4, <1>5, <1>6 DEF Lists, Listed, r

(* dbprog_pgmseq_txtchg. *)
LEMMA TextIs ==
  ASSUME NEW q, Typed(q), Lists(q), NEW plan \in Seq(Track),
         q.s.mode # "SAMPLE" \/ plan = Nil
  PROVE  LET r == PgmseqTxtchg(q, plan)
         IN  /\ Tidied(q, r) /\ Lists(r) /\ r.s.onetrk = FALSE /\ r.s.shuffle = FALSE
             /\ r.s.segplay = "NONE"
             /\ plan = Nil => r.s.program = FALSE
<1> DEFINE r == PgmseqTxtchg(q, plan)
           x == EndOnetrk(q)
           y == NoShuffle(x)
           z == NoSegment(y)
<1>1. Tidied(q, x) /\ Lists(x) /\ x.s.onetrk = FALSE
  BY EndOnetrkIs
<1> HIDE DEF x
<1>2. Tidied(x, y) /\ Lists(y) /\ y.s.shuffle = FALSE /\ y.s.onetrk = FALSE
  BY <1>1, NoShuffleIs DEF Tidied, Only
<1> HIDE DEF y
<1>3. /\ Tidied(y, z) /\ Lists(z) /\ z.s.segplay = "NONE"
      /\ Only(y, z, {"segplay"}, {})
  BY <1>2, NoSegmentIs DEF Tidied, Only
<1>4. r = IF plan = Nil THEN ProgClear(z) ELSE [z EXCEPT !.s.plan = plan, !.s.program = TRUE]
  BY NilIs DEF PgmseqTxtchg, x, y
<1> HIDE DEF z, r
<1>5. z.s.shuffle = FALSE /\ z.s.onetrk = FALSE
  BY <1>2, <1>3, Fields
<1>6. Tidied(q, z) /\ Typed(z) /\ z.s.mode = q.s.mode
  <2>1. Tidied(q, z)
    BY <1>1, <1>2, <1>3, TidiedTwice
  <2>2. Only(q, z, ListFields, {})
    BY <2>1 DEF Tidied
  <2>3. Typed(z)
    BY <2>2 DEF Only
  <2>4. z.s.mode = q.s.mode
    BY <2>2, Fields DEF ListFields
  <2> QED BY <2>1, <2>3, <2>4
<1>7. CASE plan = Nil
  <2>1. r = ProgClear(z)
    BY <1>4, <1>7
  <2>2. Dropped(z, r) /\ r.s.shuffle = FALSE /\ r.s.segplay = "NONE"
    BY <1>3, <1>5, <1>6, <2>1, ProgClearDrops
  <2> QED BY <1>6, <2>2, TidiedTwice DEF Dropped, r
<1>8. CASE plan # Nil
  <2>1. r = Planned(z, plan)
    BY <1>4, <1>8 DEF Planned
  <2>1a. z.s.mode # "SAMPLE"
    BY <1>6, <1>8
  <2>2. /\ Tidied(z, r) /\ Lists(r) /\ r.s.onetrk = FALSE /\ r.s.shuffle = FALSE
        /\ r.s.segplay = "NONE"
    BY <1>3, <1>5, <1>6, <1>8, <2>1, <2>1a, PlanIs
  <2> QED BY <1>6, <1>8, <2>2, TidiedTwice DEF r
<1> QED BY <1>7, <1>8

(* The text of the program is emptied. *)
LEMMA ClearTextIs ==
  ASSUME NEW q, Typed(q), Lists(q), q.app = "xmcd"
  PROVE  Dropped(q, ClearText(q)) /\ (q.s.shuffle = FALSE => ClearText(q).s.shuffle = FALSE)
<1> DEFINE r == ClearText(q)
<1>1. CASE q.s.plan = Nil
  <2>1. r = q
    BY <1>1, NilIs DEF ClearText
  <2>2. q.s.program = FALSE /\ q.s.onetrk = FALSE
    BY <1>1, Parts DEF Lists, Curstat
  <2> QED BY <2>1, <2>2, TidiedNone DEF Dropped
<1>2. CASE q.s.plan # Nil
  <2>1. r = PgmseqTxtchg(q, Nil)
    BY <1>2, NilIs DEF ClearText
  <2> HIDE DEF r
  <2>2. /\ Tidied(q, r) /\ Lists(r) /\ r.s.onetrk = FALSE /\ r.s.shuffle = FALSE
        /\ r.s.segplay = "NONE" /\ r.s.program = FALSE
    BY <2>1, NilIs, TextIs
  <2> QED BY <2>2 DEF Dropped, r
<1> QED BY <1>1, <1>2

(* dbprog_clrpgm. *)
LEMMA ClrpgmIs ==
  ASSUME NEW q, Typed(q), Lists(q), q.app = "xmcd"
  PROVE  Dropped(q, Clrpgm(q)) /\ (q.s.shuffle = FALSE => Clrpgm(q).s.shuffle = FALSE)
<1> DEFINE x == EndOnetrk(q)
           r == ClearText(x)
<1>1. /\ Tidied(q, x) /\ Lists(x) /\ x.s.segplay = q.s.segplay
      /\ x.s.shuffle = q.s.shuffle
  BY EndOnetrkIs
<1>2. Clrpgm(q) = r
  BY DEF Clrpgm
<1> HIDE DEF x
<1>3. Typed(x) /\ x.app = q.app
  BY <1>1 DEF Tidied, Only
<1>4. Dropped(x, r) /\ (q.s.shuffle = FALSE => r.s.shuffle = FALSE)
  BY <1>1, <1>3, ClearTextIs
<1> HIDE DEF r
<1> QED BY <1>1, <1>2, <1>4, TidiedTwice DEF Dropped

(* The list is left. *)
LEMMA NoListIs ==
  ASSUME NEW q, Typed(q), Lists(q), q.app = "xmcd"
  PROVE  LET r == NoList(q)
         IN  /\ Tidied(q, r) /\ Lists(r) /\ ~ Listed(r) /\ r.s.onetrk = FALSE
             /\ r.s.segplay \in {q.s.segplay, "NONE"}
             /\ ~ Listed(q) => r = q
<1> DEFINE r == NoList(q)
<1>0. /\ q.s.program \in BOOLEAN /\ q.s.shuffle \in BOOLEAN
      /\ q.s.onetrk \in BOOLEAN
  BY Parts DEF Curstat
<1>1. CASE q.s.shuffle
  <2>1. q.s.program = FALSE
    BY <1>0, <1>1 DEF Lists
  <2>2. Shuffled(q, FALSE, r)
    BY <1>1, <2>1, SlShuffleIs DEF NoList
  <2> HIDE DEF r
  <2> QED BY <1>1, <2>2 DEF Shuffled, Listed, r
<1>2. CASE ~ q.s.shuffle /\ q.s.program
  <2>1. r = Clrpgm(q)
    BY <1>2 DEF NoList
  <2> HIDE DEF r
  <2>2. Dropped(q, r) /\ r.s.shuffle = FALSE
    BY <1>0, <1>2, <2>1, ClrpgmIs
  <2> QED BY <1>2, <2>2 DEF Dropped, Listed, r
<1>3. CASE ~ q.s.shuffle /\ ~ q.s.program
  <2>1. r = q /\ q.s.onetrk = FALSE
    BY <1>0, <1>3 DEF NoList, Lists
  <2> QED BY <1>3, <2>1, TidiedNone DEF Listed
<1> QED BY <1>1, <1>2, <1>3

-----------------------------------------------------------------------------
(* The play/pause and stop buttons of cdfunc.c. *)

(* The order is that of the program. *)
Ordered(q) == [NoSegment(q) EXCEPT !.s.order = q.s.plan]

(* It is, and there is no segment. *)
LEMMA OrderedIs ==
  ASSUME NEW q, Typed(q), Lists(q)
  PROVE  LET r == Ordered(q)
         IN  /\ Tidied(q, r) /\ Lists(r) /\ r.s.program = q.s.program /\ r.s.shuffle = q.s.shuffle
             /\ r.s.order = q.s.plan /\ r.s.segplay = "NONE"
             /\ r.s.onetrk = q.s.onetrk
<1> DEFINE r == Ordered(q)
           x == NoSegment(q)
           S == [x.s EXCEPT !.order = q.s.plan]
<1>1. /\ Tidied(q, x) /\ Only(q, x, {"segplay"}, {}) /\ x.s.segplay = "NONE"
      /\ Lists(x) /\ Typed(x)
  BY NoSegmentIs DEF Tidied, Only
<1>2. r = WithSM(x, S, x.m)
  <2>1. x \in State
    BY <1>1 DEF Typed
  <2> HIDE DEF x
  <2> QED BY <2>1, Parts DEF WithSM, State, Ordered, x
<1> HIDE DEF x
<1>3. S \in Curstat /\ SBut(x.s, S, {"order"}) /\ S.order = q.s.plan
  <2>1. q.s.plan \in Seq(Track) /\ x.s \in Curstat
    BY <1>1, Parts DEF Curstat
  <2> QED BY <2>1 DEF Curstat, SBut, SFields
<1> HIDE DEF S, r
<1>4. Typed(r) /\ r.app = x.app /\ r.s = S /\ r.m = x.m /\ r.d = x.d
  BY <1>1, <1>2, <1>3, WithSMIs, Parts
<1>5. Only(x, r, {"order"}, {}) /\ r.s.order = q.s.plan
  BY <1>3, <1>4, SameM DEF Only
<1>6. Tidied(x, r)
  BY <1>4, <1>5 DEF Tidied, Only, SBut, ListFields
<1>7. Tidied(q, r)
  BY <1>1, <1>6, TidiedTwice
<1>8. /\ r.s.segplay = x.s.segplay /\ r.s.program = x.s.program
      /\ r.s.shuffle = x.s.shuffle
      /\ r.s.onetrk = x.s.onetrk /\ r.s.mode = x.s.mode /\ r.s.plan = x.s.plan
      /\ r.app = x.app
  BY <1>5, Fields
<1>9. /\ x.s.program = q.s.program /\ x.s.shuffle = q.s.shuffle
      /\ x.s.onetrk = q.s.onetrk
  BY <1>1, Fields
<1>10. Lists(r)
  BY <1>1, <1>8 DEF Lists, Listed
<1> QED BY <1>1, <1>5, <1>7, <1>8, <1>9, <1>10 DEF r

(* The play/pause button. *)
Sure(q) == IF q.s.program THEN HasAudio(q.s.plan) /\ q.s.off = 0 ELSE Certain(q)

(* From the invariant, or from a stop that has prepared a play. *)
LEMMA PlayButtonInv ==
  ASSUME Sane, NEW q, NEW o, Plain(o), NEW w \in World,
         Inv(q, o) \/ (Nearly(q, o) /\ q.s.mode = "STOP" /\ (Quiet(q) \/ Sure(q)))
  PROVE  Inv(CdPlayPause(q, w), o)
<1>1. Nearly(q, o)
  BY InvNearly
<1>2. /\ ~ Searching(q) /\ Typed(q) /\ Lists(q) /\ q.s.program \in BOOLEAN
      /\ q.app = "cda" => q.s.onetrk = FALSE
  BY <1>1, Parts DEF Nearly, Stoppable, Flags, Searching, Curstat
<1>3. CASE q.s.mode = "STOP" /\ q.s.program
  <2> DEFINE x == Ordered(q)
  <2>1. /\ Tidied(q, x) /\ Lists(x) /\ x.s.program = q.s.program
        /\ x.s.shuffle = q.s.shuffle
        /\ x.s.order = q.s.plan /\ x.s.segplay = "NONE"
        /\ x.s.onetrk = q.s.onetrk
    BY <1>2, OrderedIs
  <2>2. CdPlayPause(q, w) = SlPlayPause(x, w)
    BY <1>2, <1>3 DEF CdPlayPause, Ordered
  <2> HIDE DEF x
  <2>3. q.app = "cda" => x.s.onetrk = FALSE
    BY <1>2, <2>1
  <2>4. Nearly(x, o) /\ x.s.mode = "STOP" /\ x.s.off = q.s.off /\ (Quiet(q) => Quiet(x))
    BY <1>1, <1>3, <2>1, <2>3, TidiedNearly DEF Tidied, Only
  <2>5. Quiet(x) \/ Certain(x)
    BY <1>3, <2>1, <2>4 DEF Sure, Certain, Listed, Inv, Ok
  <2> QED BY <2>2, <2>4, <2>5, PlayPauseInv
<1>4. CASE ~ (q.s.mode = "STOP" /\ q.s.program)
  <2>1. CdPlayPause(q, w) = SlPlayPause(q, w)
    BY <1>2, <1>4 DEF CdPlayPause
  <2>2. Inv(q, o) \/ (Nearly(q, o) /\ q.s.mode = "STOP" /\ (Quiet(q) \/ Certain(q)))
    BY <1>4 DEF Sure
  <2> QED BY <2>1, <2>2, PlayPauseInv
<1> QED BY <1>3, <1>4

(* The stop button. *)
LEMMA StopButtonInv ==
  ASSUME Sane, NEW q, NEW o, Inv(q, o), NEW w \in World
  PROVE  Inv(CdStop(q, w), o)
<1> DEFINE x == IF q.s.segplay = "A" THEN NoSegment(q) ELSE q
<1>1. ~ Searching(q) /\ Typed(q) /\ Lists(q) /\ Stoppable(q, o) /\ (q.app = "cda" => q.s.onetrk = FALSE)
  BY InvNearly DEF Inv, Ok, Flags, Searching
<1>2. Stoppable(x, o)
  <2>1. CASE q.s.segplay = "A"
    <3> DEFINE y == NoSegment(q)
    <3>1. /\ Tidied(q, y) /\ Only(q, y, {"segplay"}, {}) /\ y.s.segplay = "NONE"
          /\ Lists(y)
      BY <1>1, NoSegmentIs
    <3> HIDE DEF y
    <3>2. y.s.onetrk = q.s.onetrk
      BY <3>1, Fields
    <3>3. Stoppable(y, o)
      BY <1>1, <3>1, <3>2, TidiedNearly
    <3> QED BY <2>1, <3>3 DEF y
  <2>2. CASE q.s.segplay # "A"
    BY <1>1, <2>2
  <2> QED BY <2>1, <2>2
<1>3. CdStop(q, w) = SlStop(x, w, TRUE)
  BY <1>1 DEF CdStop
<1> HIDE DEF x
<1> QED BY <1>2, <1>3, StopInv

-----------------------------------------------------------------------------
(* Moves within what is being played; previous and next. *)

(* Another place is shown. *)
LEMMA MoveInv ==
  ASSUME NEW q, NEW r, NEW o, Inv(q, o),
         Only(q, r, {"cur_trk", "pos", "off", "startpos"}, Idle), r.d = q.d,
         q.app = "xmcd" /\ On(q) /\ Listed(q) => r.s.cur_trk = q.s.cur_trk,
         q.app = "xmcd" /\ q.s.mode \in {"STOP", "NODISC"} => r.s.off \in {0, q.s.off}
  PROVE  Inv(r, o) /\ r.s.mode = q.s.mode
<1>1. /\ r.app = q.app /\ r.s.segplay = q.s.segplay /\ r.s.endpos = q.s.endpos
      /\ r.s.program = q.s.program
      /\ r.s.onetrk = q.s.onetrk /\ r.s.shuffle = q.s.shuffle
      /\ r.s.plan = q.s.plan /\ r.m.ask = q.m.ask
      /\ r.s.mode = q.s.mode /\ TimersOf(q, r)
  BY Fields DEF Idle, TimersOf
<1>2. /\ r.s.order = q.s.order /\ r.s.prog_cnt = q.s.prog_cnt
      /\ r.s.repeat = q.s.repeat
      /\ r.m.new_progshuf = q.m.new_progshuf /\ r.m.searching = q.m.searching
      /\ r.m.search_id = q.m.search_id
      /\ r.m.sav_msf = q.m.sav_msf /\ r.m.fake_stop = q.m.fake_stop
      /\ r.m.idx_pause = q.m.idx_pause
  BY Fields DEF Idle
<1>3. Typed(r)
  BY DEF Only
<1>4. Unforced(r) /\ Timed(r, o) /\ Placed(r, o)
  BY <1>1, <1>2 DEF Inv, Unforced, Timed, Placed, TimersOf
<1>5. Flags(r, o) /\ Lists(r) /\ Entered(r) /\ Quiet(r)
  BY <1>1, <1>2 DEF Inv, Ok, Flags, Lists, Listed, Entered, On, Quiet, TimersOf
<1>6. InSeg(r) /\ Resumable(r, o)
  BY <1>1, <1>2 DEF Inv, Ok, InSeg, On, Resumable
<1>7. InEntries(r, o)
  BY <1>1, <1>2 DEF Inv, Ok, InEntries, InEntry, EntryOf, Within, On, Listed
<1> QED BY <1>1, <1>3, <1>4, <1>5, <1>6, <1>7 DEF Inv, Ok

(* A play of a paused player that was taken is followed by a pause. *)
LEMMA KeepPausedIs ==
  ASSUME Sane, NEW q, Typed(q), q.d.st # "empty", NEW w \in World,
         NEW from \in Nat, NEW to \in Int
  PROVE  Enters(q, KeepPaused(DoPlayaudio(q, w, from, to), w), from, to)
<1> DEFINE a == DoPlayaudio(q, w, from, to)
           b == PauseResume(a, w, FALSE)
           r == KeepPaused(a, w)
<1>1. Plays(q, a, from, to)
  BY DoPlayaudioIs
<1> HIDE DEF a
<1>2. Typed(a) /\ a.s = q.s /\ a.ret \in BOOLEAN /\ a.app = q.app
  BY <1>1, Parts DEF Plays, Only
<1>3. Toggled(a, b, FALSE)
  BY <1>2, PauseResumeIs
<1>4. r = IF a.ret /\ a.s.mode = "PAUSE" THEN b ELSE a
  BY DEF KeepPaused
<1> HIDE DEF b, r
<1>5. CASE q.s.mode # "PAUSE" \/ ~ (from < Clip(to))
  <2>1. r = a
    BY <1>1, <1>2, <1>4, <1>5 DEF Plays
  <2> QED BY <1>1, <1>5, <2>1 DEF Plays, Enters, r, a
<1>6. CASE q.s.mode = "PAUSE" /\ from < Clip(to)
  <2>1. /\ a.ret = TRUE /\ a.m.sav_msf = to /\ a.d.st = "playing"
        /\ a.d.pos = from
        /\ a.d.end = Clip(to)
    BY <1>1, <1>6 DEF Plays
  <2>2. r = b
    BY <1>2, <1>4, <1>6, <2>1
  <2>3. Typed(b) /\ b.s = q.s /\ b.m = a.m /\ b.d.st = "paused" /\ b.d.pos = from /\ b.d.end = Clip(to)
        /\ b.app = q.app /\ b.ret = TRUE
    BY <1>2, <1>3, <2>1 DEF Toggled
  <2>4. Only(q, b, {}, Sav)
    BY <1>1, <2>3, SameS DEF Plays, Only
  <2>5. Enters(q, b, from, to)
    BY <1>6, <2>1, <2>3, <2>4 DEF Enters
  <2> QED BY <2>2, <2>5 DEF r, a
<1> QED BY <1>5, <1>6

(* A play within what is being played. *)
Inside(q, from, to) ==
  /\ q.s.segplay = "AB" => to <= q.s.endpos
  /\ q.app = "xmcd" /\ Listed(q) /\ EntryOf(q) \in Audio => Toc[EntryOf(q)] <= from /\ to = TrackEnd(EntryOf(q))

(* It keeps the invariant. *)
LEMMA EntersInv ==
  ASSUME Sane, NEW q, NEW r, NEW o, Inv(q, o), On(q), NEW from \in Nat,
         NEW to \in Nat, Inside(q, from, to),
         Enters(q, r, from, to)
  PROVE  Inv(r, o)
<1>0. Only(q, r, {}, Sav) /\ r.s = q.s
  BY DEF Enters
<1>1. CASE ~ (from < Clip(to))
  <2>1. r.d = q.d /\ r.m.sav_msf = q.m.sav_msf
    BY <1>1 DEF Enters
  <2>2. Only(q, r, {"pos", "startpos"}, Idle)
    BY <1>0, <2>1 DEF Only, SBut, MBut, MFields, Sav, Idle
  <2> QED BY <2>1, <2>2, FrameInv
<1>2. CASE from < Clip(to)
  <2>1. /\ r.m.sav_msf = to /\ r.d.pos = from /\ r.d.end = Clip(to)
        /\ r.d.st = IF q.s.mode = "PAUSE" THEN "paused" ELSE "playing"
    BY <1>2 DEF Enters
  <2>2. Clip(to) <= to /\ Clip(to) <= Clip(to) /\ from < to
    BY <1>2, Clipped
  <2>3. /\ r.app = q.app /\ r.m.ask = q.m.ask /\ TimersOf(q, r)
        /\ r.m.searching = q.m.searching
        /\ r.m.search_id = q.m.search_id /\ r.m.fake_stop = q.m.fake_stop
        /\ r.m.idx_pause = q.m.idx_pause
        /\ r.m.new_progshuf = q.m.new_progshuf
    BY <1>0, Fields DEF Sav, TimersOf
  <2>4. Typed(r)
    BY <1>0 DEF Only
  <2>5. Unforced(r) /\ Timed(r, o) /\ Placed(r, o) /\ Quiet(r)
    BY <1>0, <2>1, <2>3 DEF Inv, Unforced, Timed, Placed, TimersOf, Quiet, On
  <2>6a. Flags(r, o)
    BY <1>0, <2>3 DEF Inv, Ok, Flags, TimersOf
  <2>6b. Lists(r)
    BY <1>0, <2>3 DEF Inv, Ok, Lists, Listed
  <2>6c. Entered(r)
    BY <1>0, <2>3 DEF Inv, Ok, Entered, On, Listed
  <2>6. Flags(r, o) /\ Lists(r) /\ Entered(r)
    BY <2>6a, <2>6b, <2>6c
  <2>7a. Clip(to) \in Int /\ q.s.endpos \in Nat
    BY Clipped, ClippedMsf DEF Inv
  <2>7b. InSeg(r)
    BY <1>0, <2>1, <2>2, <2>7a DEF Inside, InSeg
  <2>7c. Resumable(r, o)
    BY <2>1, <2>2, <2>7a DEF Resumable
  <2>7. InSeg(r) /\ Resumable(r, o)
    BY <2>7b, <2>7c
  <2>8. InEntries(r, o)
    <3>1. CASE q.app = "xmcd" /\ Listed(q) /\ EntryOf(q) \in Audio
      BY <1>0, <2>1, <2>2, <2>3, <3>1
         DEF Inside, Inv, Ok, InEntries, InEntry, EntryOf, Within, On, Listed
    <3>2. CASE ~ (q.app = "xmcd" /\ Listed(q) /\ EntryOf(q) \in Audio)
      BY <1>0, <2>3, <3>2 DEF InEntries, InEntry, EntryOf, Listed
    <3> QED BY <3>1, <3>2
  <2> QED BY <2>4, <2>5, <2>6, <2>7, <2>8 DEF Inv, Ok
<1> QED BY <1>1, <1>2

(* A sampling that is left goes on as play. *)
LEMMA UnsampledInv ==
  ASSUME NEW q, NEW o, Inv(q, o)
  PROVE  LET r == Unsampled(q)
         IN  /\ Inv(r, o) /\ Only(q, r, {"mode"}, {}) /\ r.d = q.d /\ r.ret = q.ret
             /\ r.s.mode = IF q.s.mode = "SAMPLE" THEN "PLAY" ELSE q.s.mode
<1> DEFINE r == Unsampled(q)
<1>0. Typed(q)
  BY DEF Inv
<1>1. CASE q.s.mode = "SAMPLE"
  <2>1. r = Mode(q, "PLAY")
    BY <1>1 DEF Unsampled
  <2>2. /\ Only(q, r, {"mode"}, {}) /\ r.s.mode = "PLAY" /\ r.d = q.d
        /\ r.ret = q.ret /\ r.m = q.m
    BY <1>0, <2>1, ModeIs DEF Modes
  <2> HIDE DEF r
  <2>3. /\ r.app = q.app /\ r.s.segplay = q.s.segplay
        /\ r.s.program = q.s.program
        /\ r.s.onetrk = q.s.onetrk /\ r.s.shuffle = q.s.shuffle
        /\ r.s.plan = q.s.plan
    BY <2>2, Fields
  <2>4. ~ Listed(q) /\ q.s.segplay = "NONE"
    BY <1>1 DEF Inv, Ok, Lists
  <2>5. /\ Flags(r, o) /\ Lists(r) /\ Unforced(r) /\ Timed(r, o) /\ Placed(r, o)
        /\ Quiet(r) /\ Resumable(r, o)
    BY <1>1, <2>2, <2>3, <2>4
       DEF Inv, Ok, Flags, Lists, Listed, Unforced, Timed, Placed, Quiet,
           Resumable
  <2>6. Entered(r) /\ InSeg(r) /\ InEntries(r, o)
    BY <2>3, <2>4 DEF Entered, InSeg, InEntries, Listed
  <2>7. Typed(r)
    BY <2>2 DEF Only
  <2> QED BY <1>1, <2>2, <2>5, <2>6, <2>7 DEF Inv, Ok, r
<1>2. CASE q.s.mode # "SAMPLE"
  <2>1. r = q
    BY <1>2 DEF Unsampled
  <2>2. Only(q, q, {"mode"}, {})
    BY <1>0, SameS, SameM DEF Only
  <2> QED BY <1>2, <2>1, <2>2
<1> QED BY <1>1, <1>2

(* The order is stepped back. *)
Back(q, r) ==
  /\ Only(q, r, {"prog_cnt"}, {"new_progshuf"}) /\ r.d = q.d /\ r.ret = q.ret
  /\ r.s.prog_cnt < Len(q.s.order) /\ r.s.prog_cnt <= q.s.prog_cnt
  /\ r.m.new_progshuf = FALSE

(* The step back of previous. *)
LEMMA StepBackIs ==
  ASSUME NEW q, Typed(q), q.s.prog_cnt <= Len(q.s.order),
         q.s.prog_cnt > 0 \/ (q.s.prog_cnt < Len(q.s.order) /\ q.m.new_progshuf = FALSE)
  PROVE  Back(q, StepBack(q))
<1> SUFFICES ASSUME NEW r, r = StepBack(q) PROVE Back(q, r)
  OBVIOUS
<1>0. q.s.prog_cnt \in Nat /\ q.s.order \in Seq(Track) /\ Len(q.s.order) \in Nat
  BY Parts DEF Curstat
<1>1. CASE q.s.prog_cnt > 0
  <2> DEFINE S == [q.s EXCEPT !.prog_cnt = @ - 1]
             M == [q.m EXCEPT !.new_progshuf = FALSE]
  <2>1. /\ S \in Curstat /\ SBut(q.s, S, {"prog_cnt"})
        /\ S.prog_cnt = q.s.prog_cnt - 1
    BY <1>0, <1>1, Parts DEF Curstat, SBut, SFields
  <2>2. /\ M \in Statics /\ MBut(q.m, M, {"new_progshuf"})
        /\ M.new_progshuf = FALSE
    BY Parts, ZenonT(30) DEF Statics, MBut, MFields
  <2>3. r = WithSM(q, S, M)
    BY <1>1, Parts DEF StepBack, WithSM, State
  <2> HIDE DEF S, M
  <2>4. /\ Typed(r) /\ r.app = q.app /\ r.ret = q.ret /\ r.s = S /\ r.m = M
        /\ r.d = q.d
    BY <2>1, <2>2, <2>3, WithSMIs
  <2> QED BY <1>0, <1>1, <2>1, <2>2, <2>4 DEF Back, Only
<1>2. CASE ~ (q.s.prog_cnt > 0)
  <2>1. r = q
    BY <1>2 DEF StepBack
  <2> QED BY <1>0, <1>2, <2>1, SameS, SameM DEF Back, Only
<1> QED BY <1>1, <1>2

(* A list that is told to go on before its track has ended. *)
Forced(q, t) == [q EXCEPT !.m.fake_stop = TRUE, !.s.cur_trk = t]

(* A forced end in a list that has a next entry. *)
LEMMA FakeEndInv ==
  ASSUME Sane, NEW q, NEW o, Typed(q), Flags(q, o), Lists(q), Quiet(q),
         Resumable(q, o),
         Timed(q, o), q.m.idx_pause = FALSE, q.m.fake_stop = TRUE, On(q),
         Listed(q),
         HasAudio(q.s.order), q.d.st # "empty", NEW w \in World, ~ Over(q, w)
  PROVE  Inv(GetPlaystatus(q, w), o)
<1> SUFFICES ASSUME NEW r, r = GetPlaystatus(q, w) PROVE Inv(r, o)
  OBVIOUS
<1>1. Status(q, w, r)
  BY GetPlaystatusIs DEF Lists
<1>2. Ends(q, w, r)
  BY <1>1 DEF Status, Goes, Waits
<1>3. PICK b : Based(q, b) /\ Passed(b, w, r)
  BY <1>2 DEF Ends
<1>4. Only(q, b, PlaceFields, StatusFields \cup {"fake_stop", "sav_end"})
  BY <1>3 DEF Based
<1>5. /\ b.app = q.app /\ b.s.mode = q.s.mode /\ b.s.segplay = q.s.segplay
      /\ b.s.program = q.s.program
      /\ b.s.onetrk = q.s.onetrk /\ b.s.shuffle = q.s.shuffle
      /\ b.s.plan = q.s.plan
      /\ b.s.order = q.s.order /\ b.s.prog_cnt = q.s.prog_cnt
  BY <1>4, Fields DEF PlaceFields
<1>6. /\ b.m.idx_pause = q.m.idx_pause /\ b.m.new_progshuf = q.m.new_progshuf
      /\ TimersOf(q, b)
      /\ b.m.ask = q.m.ask /\ b.m.searching = q.m.searching
      /\ b.m.search_id = q.m.search_id
      /\ b.m.sav_msf = q.m.sav_msf
  BY <1>4, Fields DEF StatusFields, TimersOf
<1>7. Typed(b) /\ b.m.fake_stop = FALSE /\ b.d.end = q.d.end
      /\ b.d.st = IF q.d.st \in {"done", "error"} THEN "idle" ELSE q.d.st
  BY <1>3 DEF Based, Only
<1>8. On(b) /\ Listed(b) /\ HasAudio(b.s.order)
  BY <1>5 DEF On, Listed
<1>9. ~ Over(b, w)
  BY <1>5, <1>6 DEF Over, Mute, From, Ord
<1>10. ListFollowed(b, w, r)
  BY <1>3, <1>8, <1>9 DEF Passed, GoneOn, On
<1>11. Flags(b, o) /\ Lists(b)
  BY <1>5, <1>6 DEF Flags, Lists, Listed, TimersOf
<1>12. Quiet(b) /\ Resumable(b, o)
  BY <1>5, <1>6, <1>7 DEF Quiet, Resumable, Heard
<1>13. Ok(r, o) /\ r.s.mode = b.s.mode /\ TimersOf(b, r)
  BY <1>7, <1>8, <1>9, <1>10, <1>11, <1>12, EntryOk
<1>14. Only(b, r, EntryFields \cup {"off", "order"}, Sav \cup {"new_progshuf"})
  BY <1>9, <1>10 DEF ListFollowed
<1>15. Typed(r)
  BY <1>14 DEF Only
<1>16. Unforced(r)
  BY <1>6, <1>7, <1>14, Fields DEF Unforced, Sav
<1>17. r.app = q.app
  BY <1>5, <1>14 DEF Only
<1>18. Timed(r, o) /\ Placed(r, o)
  BY <1>5, <1>6, <1>8, <1>13, <1>17 DEF Timed, Placed, TimersOf, On
<1> QED BY <1>13, <1>15, <1>16, <1>18 DEF Inv

(* Nothing else changes. *)
LEMMA ForcedIs ==
  ASSUME NEW q, Typed(q), NEW t \in Track
  PROVE  LET r == Forced(q, t)
         IN  /\ Only(q, r, {"cur_trk"}, {"fake_stop"}) /\ r.m.fake_stop = TRUE /\ r.d = q.d
<1> DEFINE r == Forced(q, t)
           S == [q.s EXCEPT !.cur_trk = t]
           M == [q.m EXCEPT !.fake_stop = TRUE]
<1>1. S \in Curstat /\ SBut(q.s, S, {"cur_trk"})
  BY Parts, SMTT(30) DEF Curstat, SBut, SFields
<1>2. M \in Statics /\ MBut(q.m, M, {"fake_stop"}) /\ M.fake_stop = TRUE
  BY Parts, ZenonT(30) DEF Statics, MBut, MFields
<1>3. r = WithSM(q, S, M)
  BY Parts DEF Forced, WithSM, State
<1> HIDE DEF S, M, r
<1>4. /\ Typed(r) /\ r.app = q.app /\ r.ret = q.ret /\ r.s = S /\ r.m = M
      /\ r.d = q.d
  BY <1>1, <1>2, <1>3, WithSMIs
<1> QED BY <1>1, <1>2, <1>4 DEF Only, r

(* The list stands between two of its entries. *)
Between(q, r) ==
  /\ Only(q, r, {"prog_cnt", "cur_trk"}, {"new_progshuf", "fake_stop"})
  /\ r.d = q.d

(* A list that stands there, told to go on. *)
LEMMA BetweenInv ==
  ASSUME Sane, NEW q, NEW r, NEW o, Inv(q, o), On(q), Listed(q), Between(q, r),
         r.m.fake_stop = TRUE,
         q.d.st # "empty", NEW w \in World, ~ Over(r, w)
  PROVE  Inv(GetPlaystatus(r, w), o)
<1>1. Only(q, r, {"prog_cnt", "cur_trk"}, {"new_progshuf", "fake_stop"})
  BY DEF Between
<1>2. /\ r.app = q.app /\ r.s.mode = q.s.mode /\ r.s.segplay = q.s.segplay
      /\ r.s.program = q.s.program
      /\ r.s.onetrk = q.s.onetrk /\ r.s.shuffle = q.s.shuffle
      /\ r.s.plan = q.s.plan
      /\ r.s.order = q.s.order
  BY <1>1, Fields
<1>3. /\ r.m.idx_pause = q.m.idx_pause /\ TimersOf(q, r)
      /\ r.m.ask = q.m.ask /\ r.m.searching = q.m.searching
      /\ r.m.search_id = q.m.search_id
      /\ r.m.sav_msf = q.m.sav_msf
  BY <1>1, Fields DEF TimersOf
<1>4. Typed(r) /\ r.d = q.d
  BY <1>1 DEF Between, Only
<1>5. Flags(r, o) /\ Lists(r)
  BY <1>2, <1>3 DEF Inv, Ok, Flags, Lists, Listed, TimersOf
<1>6. Quiet(r) /\ Resumable(r, o) /\ On(r) /\ Listed(r) /\ HasAudio(r.s.order)
  BY <1>2, <1>3, <1>4 DEF Inv, Ok, Quiet, Resumable, On, Listed, Entered
<1>7. Timed(r, o) /\ r.m.idx_pause = FALSE
  BY <1>2, <1>3, <1>4 DEF Inv, Timed, TimersOf, Unforced
<1> QED BY <1>4, <1>5, <1>6, <1>7, FakeEndInv

(* The next entry is a track. *)
LEMMA EntryTyped ==
  ASSUME NEW q, Typed(q), q.s.prog_cnt < Len(q.s.order)
  PROVE  EntryAt(q) \in Track /\ q.s.prog_cnt + 1 \in 1..Len(q.s.order)
<1>1. q.s.prog_cnt \in Nat /\ q.s.order \in Seq(Track) /\ Len(q.s.order) \in Nat
  BY Parts DEF Curstat
<1> QED BY <1>1 DEF EntryAt

(* Previous in a list. *)
LEMMA PrevInListInv ==
  ASSUME Sane, NEW q, NEW o, Inv(q, o), On(q), Listed(q), q.d.st # "empty",
         NEW w \in World
  PROVE  Inv(PrevInList(StepBack(q), w), o)
<1> DEFINE a == StepBack(q)
           b == IF AtBegin(a, EntryAt(a)) THEN StepBack(a) ELSE a
           c == Forced(b, EntryAt(b))
<1>1. /\ Typed(q) /\ q.s.prog_cnt \in 1..Len(q.s.order) /\ q.s.segplay = "NONE"
  BY DEF Inv, Ok, Entered, Lists
<1>1a. q.s.order \in Seq(Track) /\ Len(q.s.order) \in Nat
  BY <1>1, Parts DEF Curstat
<1>1b. q.s.prog_cnt > 0 /\ q.s.prog_cnt <= Len(q.s.order)
  BY <1>1, <1>1a
<1>2. Back(q, a)
  BY <1>1, <1>1b, StepBackIs
<1>2a. Only(q, a, {"prog_cnt"}, {"new_progshuf"})
  BY <1>2 DEF Back
<1>2b. a.s.order = q.s.order /\ a.s.segplay = q.s.segplay
  BY <1>2a, Fields
<1> HIDE DEF a
<1>3. /\ Typed(a) /\ a.s.order = q.s.order /\ a.s.prog_cnt < Len(a.s.order)
      /\ a.m.new_progshuf = FALSE
      /\ a.s.segplay = "NONE"
  BY <1>1, <1>2, <1>2b DEF Back, Only
<1>3a. a.s.prog_cnt \in Nat
  BY <1>3, Parts DEF Curstat
<1>4. /\ Only(q, b, {"prog_cnt"}, {"new_progshuf"}) /\ b.d = q.d
      /\ b.s.prog_cnt < Len(q.s.order)
      /\ b.m.new_progshuf = FALSE
  <2>1. CASE b = a
    BY <1>2, <2>1 DEF Back
  <2>2. CASE b = StepBack(a)
    <3>0. a.s.prog_cnt <= Len(a.s.order)
      BY <1>1a, <1>3, <1>3a
    <3>1. Back(a, b)
      BY <1>3, <2>2, <3>0, StepBackIs
    <3>2. Only(q, b, {"prog_cnt"}, {"new_progshuf"})
      BY <1>2, <3>1 DEF Back, Only, SBut, SFields, MBut, MFields
    <3> QED BY <1>2, <1>3, <3>1, <3>2 DEF Back
  <2> QED BY <2>1, <2>2
<1> HIDE DEF b
<1>5a. b.s.order = q.s.order /\ b.s.segplay = q.s.segplay
  BY <1>4, Fields
<1>5. /\ Typed(b) /\ b.s.order = q.s.order /\ b.s.segplay = "NONE"
  BY <1>1, <1>4, <1>5a DEF Only
<1>6. EntryAt(b) \in Track /\ b.s.prog_cnt + 1 \in 1..Len(b.s.order)
  BY <1>4, <1>5, EntryTyped
<1>7. NoAb(b) = b
  BY <1>5 DEF NoAb
<1>8. PrevInList(a, w) = FakeStop(b, w)
  BY <1>7 DEF PrevInList, b
<1>9. FakeStop(b, w) = GetPlaystatus(c, w)
  BY DEF FakeStop, Forced
<1>10. /\ Only(b, c, {"cur_trk"}, {"fake_stop"}) /\ c.m.fake_stop = TRUE
       /\ c.d = b.d
  BY <1>5, <1>6, ForcedIs
<1> HIDE DEF c
<1>11. Between(q, c)
  <2>1. SBut(q.s, c.s, {"prog_cnt", "cur_trk"})
    BY <1>4, <1>10 DEF Only, SBut, SFields
  <2>2. MBut(q.m, c.m, {"new_progshuf", "fake_stop"})
    BY <1>4, <1>10 DEF Only, MBut, MFields
  <2> QED BY <1>4, <1>10, <2>1, <2>2 DEF Between, Only
<1>12. /\ c.m.new_progshuf = FALSE /\ c.s.order = q.s.order
       /\ c.s.prog_cnt = b.s.prog_cnt
  BY <1>4, <1>5, <1>10, Fields
<1>12a. b.s.prog_cnt \in Nat
  BY <1>5, Parts DEF Curstat
<1>13. ~ Over(c, w)
  BY <1>1a, <1>4, <1>12, <1>12a DEF Over, Mute, From, Ord
<1> QED BY <1>8, <1>9, <1>10, <1>11, <1>13, BetweenInv DEF a

(* The list is told to go on, perhaps anew. *)
Skipping(q, b) == [q EXCEPT !.m.new_progshuf = b, !.m.fake_stop = TRUE]

(* Nothing else changes. *)
LEMMA SkippingIs ==
  ASSUME NEW q, Typed(q), NEW b \in BOOLEAN
  PROVE  LET r == Skipping(q, b)
         IN  /\ Only(q, r, {}, {"new_progshuf", "fake_stop"}) /\ r.m.fake_stop = TRUE /\ r.d = q.d
             /\ r.s = q.s /\ r.m.new_progshuf = b
<1> DEFINE r == Skipping(q, b)
           M == [q.m EXCEPT !.new_progshuf = b, !.fake_stop = TRUE]
<1>2. /\ M \in Statics /\ MBut(q.m, M, {"new_progshuf", "fake_stop"})
      /\ M.fake_stop = TRUE /\ M.new_progshuf = b
  BY Parts, ZenonT(30) DEF Statics, MBut, MFields
<1>3. r = WithSM(q, q.s, M)
  BY Parts DEF Skipping, WithSM, State
<1> HIDE DEF M, r
<1>4. /\ Typed(r) /\ r.app = q.app /\ r.ret = q.ret /\ r.s = q.s /\ r.m = M
      /\ r.d = q.d
  BY <1>2, <1>3, WithSMIs, Parts
<1> QED BY <1>2, <1>4, SameS DEF Only, r

(* Next in a list. *)
LEMMA NextInListInv ==
  ASSUME Sane, NEW q, NEW o, Inv(q, o), On(q), Listed(q), q.d.st # "empty",
         NEW w \in World
  PROVE  Inv(NextInList(q, w), o)
<1> DEFINE over == q.s.prog_cnt >= Len(q.s.order)
           b == q.m.new_progshuf \/ over
           c == Skipping(q, b)
<1>1. /\ Typed(q) /\ q.s.prog_cnt \in 1..Len(q.s.order) /\ HasAudio(q.s.order)
  BY DEF Inv, Ok, Entered
<1>1a. /\ q.s.order \in Seq(Track) /\ Len(q.s.order) \in Nat
       /\ q.m.new_progshuf \in BOOLEAN
  BY <1>1, Parts DEF Curstat, Statics
<1>2. CASE over /\ ~ q.s.repeat
  <2>1. NextInList(q, w) = q
    BY <1>2 DEF NextInList
  <2> QED BY <2>1
<1>3. CASE ~ (over /\ ~ q.s.repeat)
  <2>1. NextInList(q, w) = GetPlaystatus(c, w)
    BY <1>3 DEF NextInList, Skipping
  <2>2. b \in BOOLEAN
    BY <1>1a
  <2>3. /\ Only(q, c, {}, {"new_progshuf", "fake_stop"}) /\ c.m.fake_stop = TRUE
        /\ c.d = q.d
        /\ c.s = q.s /\ c.m.new_progshuf = b
    BY <1>1, <2>2, SkippingIs
  <2> HIDE DEF c
  <2>4. Between(q, c)
    BY <2>3 DEF Between, Only, SBut, MBut
  <2>5. ~ Over(c, w)
    <3>1. CASE b
      <4>1. HasAudio(Ord(c, w)) /\ Ord(c, w) \in Seq(Track)
        <5>1. w.order \in Orders
          BY DEF World
        <5>2. HasAudio(w.order) /\ w.order \in Seq(Track)
          BY <5>1, OrderIs
        <5> QED BY <1>1, <1>1a, <2>3, <5>2 DEF Ord
      <4>2. Len(Ord(c, w)) \in Nat /\ Len(Ord(c, w)) > 0
        BY <4>1 DEF HasAudio
      <4>3. From(c) = 0 /\ ~ Mute(c, w)
        BY <2>3, <3>1, <4>1 DEF From, Mute
      <4> QED BY <4>2, <4>3 DEF Over
    <3>2. CASE ~ b
      BY <1>1, <1>1a, <2>3, <3>2 DEF Over, Mute, From, Ord
    <3> QED BY <3>1, <3>2
  <2> QED BY <2>1, <2>3, <2>4, <2>5, BetweenInv
<1> QED BY <1>2, <1>3

(* ... and a greatest one if it has a bound. *)
LEMMA Greatest ==
  ASSUME NEW T \in SUBSET Nat, T # {}, NEW n \in Nat, \A m \in T : m < n
  PROVE  \E x \in T : \A m \in T : m <= x
<1> DEFINE U == {n - m : m \in T}
<1>1. U \in SUBSET Nat /\ U # {}
  <2>1. ASSUME NEW m \in T PROVE n - m \in Nat
    <3>1. m \in Nat /\ m < n
      OBVIOUS
    <3> QED BY <3>1
  <2> QED BY <2>1
<1>2. PICK u \in U : \A v \in U : u <= v
  BY <1>1, Least
<1>3. PICK x \in T : u = n - x
  BY <1>2
<1>4. ASSUME NEW m \in T PROVE m <= x
  <2>1. u <= n - m
    BY <1>2
  <2>2. m \in Nat /\ x \in Nat
    OBVIOUS
  <2> QED BY <1>3, <2>1, <2>2
<1> QED BY <1>4

(* What disc_ready leaves to a command. *)
Awake(q) == q.ret \in BOOLEAN /\ (q.ret = TRUE => q.d.st # "empty" /\ q.s.mode # "NODISC")

(* disc_ready leaves that, with or without a disc. *)
LEMMA AwakeInv ==
  ASSUME Sane, NEW q, NEW o, Inv(q, o)
  PROVE  Inv(DiscReady(q), o) /\ Awake(DiscReady(q))
<1>1. CASE q.d.st = "empty"
  BY <1>1, ReadyInv DEF Inv, Ok, Awake, Ticks, Timed
<1>2. CASE q.d.st # "empty"
  <2> DEFINE r == DiscReady(q)
  <2>1. /\ Inv(r, o) /\ r.ret = TRUE /\ r.d = q.d
        /\ r.s.mode = IF q.s.mode = "NODISC" THEN "STOP" ELSE q.s.mode
    BY <1>2, DiscReadyInv
  <2> HIDE DEF r
  <2>2. Awake(r)
    BY <1>2, <2>1 DEF Awake
  <2> QED BY <2>1, <2>2 DEF r
<1> QED BY <1>1, <1>2

(* A track is shown. *)
Shown(q, t) == [q EXCEPT !.s.cur_trk = t]

(* Nothing else changes. *)
LEMMA ShownIs ==
  ASSUME NEW q, Typed(q), NEW t \in {0} \cup Track
  PROVE  LET r == Shown(q, t)
         IN  Only(q, r, {"cur_trk"}, {}) /\ r.d = q.d /\ r.ret = q.ret /\ r.m = q.m /\ r.s.cur_trk = t
<1> DEFINE r == Shown(q, t)
           S == [q.s EXCEPT !.cur_trk = t]
<1>1. S \in Curstat /\ SBut(q.s, S, {"cur_trk"}) /\ S.cur_trk = t
  BY Parts DEF Curstat, SBut, SFields
<1>3. r = WithSM(q, S, q.m)
  BY Parts DEF Shown, WithSM, State
<1> HIDE DEF S, r
<1>4. /\ Typed(r) /\ r.app = q.app /\ r.ret = q.ret /\ r.s = S /\ r.m = q.m
      /\ r.d = q.d
  BY <1>1, <1>3, WithSMIs, Parts
<1> QED BY <1>1, <1>4, SameM DEF Only, r

(* Outside a list Inv does not speak of it. *)
LEMMA ShownInv ==
  ASSUME NEW q, NEW o, Inv(q, o), NEW t \in {0} \cup Track,
         ~ (q.app = "xmcd" /\ On(q) /\ Listed(q))
  PROVE  Inv(Shown(q, t), o)
<1> DEFINE r == Shown(q, t)
<1>0. Typed(q)
  BY DEF Inv
<1>1. Only(q, r, {"cur_trk"}, {}) /\ r.d = q.d
  BY <1>0, ShownIs
<1> HIDE DEF r
<1>2. Only(q, r, {"cur_trk", "pos", "off", "startpos"}, Idle)
  BY <1>1 DEF Only, SBut, MBut
<1>3. r.s.off = q.s.off
  BY <1>1, Fields
<1> QED BY <1>1, <1>2, <1>3, MoveInv DEF r

(* A segment is left. *)
LEMMA NoAbInv ==
  ASSUME NEW q, NEW o, Inv(q, o)
  PROVE  LET r == NoAb(q)
         IN  /\ Inv(r, o) /\ Only(q, r, {"segplay"}, {}) /\ r.d = q.d /\ r.ret = q.ret /\ r.s.segplay # "AB"
             /\ Tidied(q, r)
<1> DEFINE r == NoAb(q)
<1>0. Typed(q) /\ Lists(q) /\ (q.app = "cda" => q.s.onetrk = FALSE)
  BY DEF Inv, Ok, Flags
<1>1. CASE q.s.segplay = "AB"
  <2> DEFINE x == NoSegment(q)
  <2>1. r = x
    BY <1>1 DEF NoAb
  <2>2. /\ Tidied(q, x) /\ Only(q, x, {"segplay"}, {}) /\ x.s.segplay = "NONE"
        /\ x.ret = q.ret
        /\ Lists(x)
    BY <1>0, NoSegmentIs
  <2> HIDE DEF x
  <2>3. x.s.onetrk = q.s.onetrk /\ x.s.program = q.s.program /\ x.s.shuffle = q.s.shuffle
        /\ x.s.order = q.s.order /\ x.s.prog_cnt = q.s.prog_cnt
    BY <2>2, Fields
  <2>4. Inv(x, o)
    BY <1>0, <2>2, <2>3, TidiedInv DEF Listed
  <2>5. x.d = q.d
    BY <2>2 DEF Tidied
  <2> HIDE DEF r
  <2> QED BY <2>1, <2>2, <2>4, <2>5 DEF r
<1>2. CASE q.s.segplay # "AB"
  <2>1. r = q
    BY <1>2 DEF NoAb
  <2>2. Only(q, q, {"segplay"}, {})
    BY <1>0, SameS, SameM DEF Only
  <2>3. Tidied(q, q)
    BY <1>0, TidiedNone
  <2> HIDE DEF r
  <2> QED BY <1>2, <2>1, <2>2, <2>3 DEF r
<1> QED BY <1>1, <1>2

(* Play goes on from another place of the disc. *)
Moved(q, t, from) == [q EXCEPT !.s.cur_trk = t, !.s.pos = from, !.s.off = 0]

(* It is not spoken of either. *)
LEMMA MovedInv ==
  ASSUME NEW q, NEW o, Inv(q, o), On(q), ~ Listed(q), NEW t \in Track,
         NEW from \in Block
  PROVE  LET r == Moved(q, t, from)
         IN  Inv(r, o) /\ Only(q, r, {"cur_trk", "pos", "off"}, {}) /\ r.d = q.d
<1> DEFINE r == Moved(q, t, from)
           S == [q.s EXCEPT !.cur_trk = t, !.pos = from, !.off = 0]
<1>0. Typed(q)
  BY DEF Inv
<1>1. S \in Curstat /\ SBut(q.s, S, {"cur_trk", "pos", "off"}) /\ S.off = 0
  <2>1. 0 \in Block /\ q.s \in Curstat
    BY <1>0, Parts, Discs DEF Block
  <2> QED BY <2>1 DEF Curstat, SBut, SFields
<1>3. r = WithSM(q, S, q.m)
  BY <1>0, Parts DEF Moved, WithSM, State
<1> HIDE DEF S, r
<1>4. /\ Typed(r) /\ r.app = q.app /\ r.ret = q.ret /\ r.s = S /\ r.m = q.m
      /\ r.d = q.d
  BY <1>0, <1>1, <1>3, WithSMIs, Parts
<1>5. Only(q, r, {"cur_trk", "pos", "off"}, {})
  BY <1>1, <1>4, SameM DEF Only
<1>6. Only(q, r, {"cur_trk", "pos", "off", "startpos"}, Idle)
  BY <1>5 DEF Only, SBut, MBut
<1>7. Inv(r, o)
  BY <1>1, <1>4, <1>6, MoveInv
<1> QED BY <1>4, <1>5, <1>7 DEF r

(* A play from there to the end of the disc. *)
LEMMA GoToInv ==
  ASSUME Sane, NEW q, NEW o, Inv(q, o), On(q), ~ Listed(q), q.s.segplay # "AB",
         q.d.st # "empty",
         NEW t \in Track, NEW from \in Block, NEW w \in World
  PROVE  Inv(GoTo(q, w, t, from), o)
<1> DEFINE m == Moved(q, t, from)
           r == KeepPaused(DoPlayaudio(m, w, from, Leadout), w)
<1>1. GoTo(q, w, t, from) = r
  BY DEF GoTo, Moved
<1>2. Inv(m, o) /\ Only(q, m, {"cur_trk", "pos", "off"}, {}) /\ m.d = q.d
  BY MovedInv
<1> HIDE DEF m
<1>3. /\ m.s.mode = q.s.mode /\ m.s.segplay = q.s.segplay
      /\ m.s.program = q.s.program /\ m.s.shuffle = q.s.shuffle
  BY <1>2, Fields
<1>4. Typed(m) /\ from \in Nat /\ Leadout \in Nat
  BY <1>2, Discs DEF Inv, Block
<1>5. Enters(m, r, from, Leadout)
  BY <1>2, <1>4, KeepPausedIs
<1>6. On(m) /\ Inside(m, from, Leadout)
  BY <1>3 DEF On, Inside, Listed
<1> HIDE DEF r
<1>7. Inv(r, o)
  BY <1>2, <1>4, <1>5, <1>6, EntersInv
<1> QED BY <1>1, <1>7

(* The clip is a number of blocks. *)
LEMMA ClipBlock ==
  ASSUME Sane
  PROVE  ClipFrames \in Block
<1>1. Toc[1] + ClipFrames < Toc[1 + 1] /\ Toc[1] = 0
  BY Discs DEF Sane
<1>2. TrackEnd(1) <= Leadout /\ TrackEnd(1) = Toc[1 + 1] /\ TrackEnd(1) \in Nat
  BY Discs, TrackBounds
<1> QED BY <1>1, <1>2, Blks, Discs DEF Block

(* Previous on a disc. *)
LEMMA PrevOnDiscInv ==
  ASSUME Sane, NEW q, NEW o, Inv(q, o), On(q), ~ Listed(q), q.d.st # "empty",
         NEW w \in World
  PROVE  Inv(PrevOnDisc(q, w), o)
<1> DEFINE t == IF q.s.cur_trk = 0 THEN TrackAt(w.index) ELSE q.s.cur_trk
           before == {u \in Audio : u < t}
           to == IF AtBegin(q, t) /\ before # {}
                 THEN CHOOSE u \in before : \A v \in before : v <= u ELSE t
           from == IF AtBegin(q, t) /\ t = 1 THEN ClipFrames ELSE Toc[to]
           x == NoAb(q)
<1>1. PrevOnDisc(q, w) = GoTo(x, w, to, from)
  BY DEF PrevOnDisc
<1>2. t \in Track
  <2>1. q.s.cur_trk \in {0} \cup Track
    BY Parts DEF Inv, Curstat
  <2>2. w.index \in Indexes
    BY DEF World
  <2>3. w.index \in 0..Leadout - 1
    BY <2>2, Blks
  <2>4. TrackAt(w.index) \in Track
    BY <2>3, TrackAtBlk
  <2> QED BY <2>1, <2>4
<1> HIDE DEF t
<1>3. to \in Track
  <2>1. before \in SUBSET Nat /\ t \in Nat /\ before \subseteq Track
    BY <1>2, Discs
  <2>2. CASE before # {}
    <3>1. \E x1 \in before : \A m \in before : m <= x1
      BY <2>1, <2>2, Greatest
    <3>2. (CHOOSE u \in before : \A v \in before : v <= u) \in before
      BY <3>1
    <3> QED BY <1>2, <2>1, <3>2
  <2>3. CASE before = {}
    BY <1>2, <2>3
  <2> QED BY <2>2, <2>3
<1> HIDE DEF to
<1>4. from \in Block
  <2>1. Toc[to] \in Block
    BY <1>3, TrackBounds, Discs DEF Block
  <2> QED BY <2>1, ClipBlock
<1> HIDE DEF from
<1>5. /\ Inv(x, o) /\ Only(q, x, {"segplay"}, {}) /\ x.d = q.d
      /\ x.s.segplay # "AB"
  BY NoAbInv
<1> HIDE DEF x
<1>6. On(x) /\ ~ Listed(x)
  BY <1>5, Fields DEF On, Listed
<1> QED BY <1>1, <1>3, <1>4, <1>5, <1>6, GoToInv

(* Next on a disc. *)
LEMMA NextOnDiscInv ==
  ASSUME Sane, NEW q, NEW o, Inv(q, o), On(q), ~ Listed(q), q.d.st # "empty",
         q.s.segplay # "AB",
         NEW w \in World
  PROVE  Inv(NextOnDisc(q, w), o)
<1> DEFINE after == {u \in Audio : u > q.s.cur_trk}
           t == CHOOSE u \in after : \A v \in after : u <= v
<1>1. CASE q.s.cur_trk = 0 \/ after = {}
  <2>1. NextOnDisc(q, w) = q
    BY <1>1 DEF NextOnDisc
  <2> QED BY <2>1
<1>2. CASE ~ (q.s.cur_trk = 0 \/ after = {})
  <2>1. NextOnDisc(q, w) = GoTo(q, w, t, Toc[t])
    BY <1>2 DEF NextOnDisc
  <2>2. after \in SUBSET Nat /\ after \subseteq Track
    BY Discs
  <2>3. \E u \in after : \A v \in after : u <= v
    BY <1>2, <2>2, Least
  <2>4. t \in after
    BY <2>3
  <2>5. t \in Track
    BY <2>2, <2>4
  <2> HIDE DEF t
  <2>6. Toc[t] \in Block
    BY <2>5, TrackBounds, Discs DEF Block
  <2> QED BY <2>1, <2>5, <2>6, GoToInv
<1> QED BY <1>1, <1>2

(* Previous, behind disc_ready. *)
LEMMA PrevReadyInv ==
  ASSUME Sane, NEW q, NEW o, Inv(q, o), Awake(q), NEW w \in World
  PROVE  Inv(PrevReady(q, w), o)
<1>0. /\ q.s.mode \in Modes /\ q.ret \in BOOLEAN
      /\ q.s.cur_trk \in {0} \cup Track
  BY Parts DEF Inv, Curstat, Modes, Awake
<1>1. CASE ~ q.ret
  BY <1>1 DEF PrevReady
<1>2. CASE q.ret /\ q.s.mode = "STOP"
  <2>1. PrevReady(q, w) = IF Listed(q) THEN q ELSE Shown(q, SelectPrev(q.s.cur_trk))
    BY <1>2 DEF PrevReady, Shown
  <2>2. SelectPrev(q.s.cur_trk) \in Track
    BY <1>0, Discs DEF SelectPrev, Greater, Track
  <2>3. Inv(Shown(q, SelectPrev(q.s.cur_trk)), o)
    BY <1>2, <2>2, ShownInv DEF On
  <2> QED BY <2>1, <2>3
<1>3. CASE q.ret /\ q.s.mode # "STOP" /\ Listed(q)
  <2>1. On(q) /\ q.d.st # "empty" /\ q.s.mode # "SAMPLE"
    BY <1>0, <1>3 DEF Awake, Modes, Inv, Ok, Lists, On
  <2>2. Unsampled(q) = q
    BY <2>1 DEF Unsampled
  <2>3. PrevReady(q, w) = PrevInList(StepBack(q), w)
    BY <1>3, <2>2 DEF PrevReady
  <2> QED BY <1>3, <2>1, <2>3, PrevInListInv
<1>4. CASE q.ret /\ q.s.mode # "STOP" /\ ~ Listed(q)
  <2> DEFINE x == Unsampled(q)
  <2>1. PrevReady(q, w) = PrevOnDisc(x, w)
    BY <1>4 DEF PrevReady
  <2>2. /\ Inv(x, o) /\ Only(q, x, {"mode"}, {}) /\ x.d = q.d
        /\ x.s.mode = IF q.s.mode = "SAMPLE" THEN "PLAY" ELSE q.s.mode
    BY UnsampledInv
  <2> HIDE DEF x
  <2>3. x.s.program = q.s.program /\ x.s.shuffle = q.s.shuffle
    BY <2>2, Fields
  <2>4. On(x) /\ ~ Listed(x) /\ x.d.st # "empty"
    BY <1>0, <1>4, <2>2, <2>3 DEF On, Listed, Awake, Modes
  <2> QED BY <2>1, <2>2, <2>4, PrevOnDiscInv
<1> QED BY <1>1, <1>2, <1>3, <1>4

(* Next, behind disc_ready. *)
LEMMA NextReadyInv ==
  ASSUME Sane, NEW q, NEW o, Inv(q, o), Awake(q), NEW w \in World
  PROVE  Inv(NextReady(q, w), o)
<1>0. /\ q.s.mode \in Modes /\ q.ret \in BOOLEAN
      /\ q.s.cur_trk \in {0} \cup Track
  BY Parts DEF Inv, Curstat, Modes, Awake
<1>1. CASE ~ q.ret
  BY <1>1 DEF NextReady
<1>2. CASE q.ret /\ q.s.mode = "STOP"
  <2>1. NextReady(q, w) = IF Listed(q) THEN q ELSE Shown(q, SelectNext(q.s.cur_trk))
    BY <1>2 DEF NextReady, Shown
  <2>2. SelectNext(q.s.cur_trk) \in Track
    BY <1>0, Discs DEF SelectNext, Lesser, Track
  <2>3. Inv(Shown(q, SelectNext(q.s.cur_trk)), o)
    BY <1>2, <2>2, ShownInv DEF On
  <2> QED BY <2>1, <2>3
<1>3. CASE q.ret /\ q.s.mode # "STOP" /\ Listed(q)
  <2>1. On(q) /\ q.d.st # "empty" /\ q.s.mode # "SAMPLE"
    BY <1>0, <1>3 DEF Awake, Modes, Inv, Ok, Lists, On
  <2>2. Unsampled(q) = q
    BY <2>1 DEF Unsampled
  <2>3. NextReady(q, w) = NextInList(q, w)
    BY <1>3, <2>2 DEF NextReady
  <2> QED BY <1>3, <2>1, <2>3, NextInListInv
<1>4. CASE q.ret /\ q.s.mode # "STOP" /\ ~ Listed(q)
  <2> DEFINE x == Unsampled(q)
             y == NoAb(x)
  <2>1. NextReady(q, w) = NextOnDisc(y, w)
    BY <1>4 DEF NextReady
  <2>2. /\ Inv(x, o) /\ Only(q, x, {"mode"}, {}) /\ x.d = q.d
        /\ x.s.mode = IF q.s.mode = "SAMPLE" THEN "PLAY" ELSE q.s.mode
    BY UnsampledInv
  <2> HIDE DEF x
  <2>3. x.s.program = q.s.program /\ x.s.shuffle = q.s.shuffle
    BY <2>2, Fields
  <2>4. On(x) /\ ~ Listed(x) /\ x.d.st # "empty"
    BY <1>0, <1>4, <2>2, <2>3 DEF On, Listed, Awake, Modes
  <2>5. /\ Inv(y, o) /\ Only(x, y, {"segplay"}, {}) /\ y.d = x.d
        /\ y.s.segplay # "AB"
    BY <2>2, NoAbInv
  <2> HIDE DEF y
  <2>6. On(y) /\ ~ Listed(y) /\ y.d.st # "empty"
    BY <2>4, <2>5, Fields DEF On, Listed
  <2> QED BY <2>1, <2>5, <2>6, NextOnDiscInv
<1> QED BY <1>1, <1>2, <1>3, <1>4

-----------------------------------------------------------------------------
(* Index search. *)

(* An index search, and where it has come to. *)
SeekM == Sav \cup {"nostatcnt", "errcnt", "idx_pause"}

(* Only the place and what a play saves have changed. *)
Sought(q, r) == Only(q, r, PlaceFields, SeekM)

(* Twice is the same as once. *)
LEMMA SoughtTwice ==
  ASSUME NEW q, NEW x, NEW r, Sought(q, x), Sought(x, r)
  PROVE  Sought(q, r)
BY DEF Sought, Only, SBut, SFields, MBut, MFields

(* A search on a disc keeps the invariant. *)
LEMMA SoughtInv ==
  ASSUME Sane, NEW q, NEW r, NEW o, Inv(q, o), On(q), ~ Listed(q),
         q.s.segplay # "AB", Sought(q, r),
         r.m.idx_pause = FALSE, Quiet(r), r.d.st \in Heard => Clip(r.m.sav_msf) <= r.d.end,
         r.d.st = "error" => q.d.st = "error"
  PROVE  Inv(r, o)
<1>0. Only(q, r, PlaceFields, SeekM)
  BY DEF Sought
<1>1. /\ r.app = q.app /\ r.s.segplay = q.s.segplay /\ r.s.endpos = q.s.endpos
      /\ r.s.program = q.s.program
      /\ r.s.onetrk = q.s.onetrk /\ r.s.shuffle = q.s.shuffle
      /\ r.s.plan = q.s.plan /\ r.m.ask = q.m.ask
      /\ r.s.mode = q.s.mode /\ TimersOf(q, r)
  BY <1>0, Fields DEF PlaceFields, SeekM, Sav, TimersOf
<1>2. /\ r.s.repeat = q.s.repeat
      /\ r.m.new_progshuf = q.m.new_progshuf /\ r.m.searching = q.m.searching
      /\ r.m.search_id = q.m.search_id
      /\ r.m.fake_stop = q.m.fake_stop
  BY <1>0, Fields DEF PlaceFields, SeekM, Sav
<1>3. Typed(r)
  BY <1>0 DEF Only
<1>4. Unforced(r) /\ Timed(r, o) /\ Placed(r, o)
  BY <1>1, <1>2 DEF Inv, Unforced, Timed, Placed, TimersOf, On
<1>5. Flags(r, o) /\ Lists(r)
  BY <1>1, <1>2 DEF Inv, Ok, Flags, Lists, Listed, TimersOf
<1>6. Entered(r) /\ InSeg(r) /\ InEntries(r, o)
  BY <1>1 DEF Entered, InSeg, InEntries, Listed
<1>7. Resumable(r, o)
  BY DEF Resumable, Inv, Ok
<1> QED BY <1>3, <1>4, <1>5, <1>6, <1>7 DEF Inv, Ok

(* The pause after the search is allowed for. *)
Pausing(q, b) == [q EXCEPT !.m.idx_pause = b]

(* Nothing else changes. *)
LEMMA PausingIs ==
  ASSUME NEW q, Typed(q), NEW b \in BOOLEAN
  PROVE  LET r == Pausing(q, b)
         IN  /\ Sought(q, r) /\ r.d = q.d /\ r.s = q.s /\ r.ret = q.ret /\ r.m.idx_pause = b
             /\ r.m.fake_stop = q.m.fake_stop /\ r.m.sav_msf = q.m.sav_msf
<1> DEFINE r == Pausing(q, b)
           M == [q.m EXCEPT !.idx_pause = b]
<1>2. M \in Statics /\ MBut(q.m, M, SeekM) /\ M.idx_pause = b /\ M.fake_stop = q.m.fake_stop
      /\ M.sav_msf = q.m.sav_msf
  BY Parts DEF Statics, MBut, MFields, SeekM, Sav
<1>3. r = WithSM(q, q.s, M)
  BY Parts DEF Pausing, WithSM, State
<1> HIDE DEF M, r
<1>4. /\ Typed(r) /\ r.app = q.app /\ r.ret = q.ret /\ r.s = q.s /\ r.m = M
      /\ r.d = q.d
  BY <1>2, <1>3, WithSMIs, Parts
<1> QED BY <1>2, <1>4, SameS DEF Sought, Only, r

(* An index is a place on the disc. *)
LEMMA IndexIs ==
  ASSUME NEW w \in World
  PROVE  /\ w.index \in 0..Leadout - 1 /\ w.index \in Nat /\ w.index \in Block
         /\ TrackEnd(TrackAt(w.index)) \in Block /\ w.index < Leadout
<1>1. w.index \in Indexes
  BY DEF World
<1>2. w.index \in 0..Leadout - 1
  BY <1>1, Blks
<1>3. w.index \in Nat /\ w.index \in Block
  <2>1. Leadout \in Nat
    BY Discs
  <2> QED BY <1>2, <2>1 DEF Block
<1>4. TrackAt(w.index) \in Track
  BY <1>2, TrackAtBlk
<1>5. TrackEnd(TrackAt(w.index)) \in Block
  <2>1. Leadout \in Nat
    BY Discs
  <2>2. /\ TrackEnd(TrackAt(w.index)) \in Nat
        /\ TrackEnd(TrackAt(w.index)) <= Leadout
    BY <1>4, TrackBounds
  <2> QED BY <2>1, <2>2 DEF Block
<1>6. w.index < Leadout
  BY <1>2, Discs
<1> QED BY <1>2, <1>3, <1>5, <1>6

(* The drive plays from the index to the end of its track. *)
Found(q, w, r) ==
  /\ Typed(r) /\ r.s = q.s /\ r.m = q.m /\ r.app = q.app
  /\ IF q.d.st = "empty" THEN r.d = q.d /\ r.ret = FALSE
     ELSE /\ r.ret = TRUE /\ r.d.st = "playing" /\ r.d.pos = w.index
          /\ r.d.end = TrackEnd(TrackAt(w.index))

(* slioc_play_trkidx. *)
LEMMA PlayTrkidxIs ==
  ASSUME Sane, NEW q, Typed(q), NEW w \in World
  PROVE  Found(q, w, PlayTrkidx(q, w))
<1> SUFFICES ASSUME NEW r, r = PlayTrkidx(q, w) PROVE Found(q, w, r)
  OBVIOUS
<1> DEFINE D == [st |-> "playing", pos |-> w.index, end |-> TrackEnd(TrackAt(w.index))]
<1>1. CASE q.d.st = "empty"
  <2>1. r = Ret(q, FALSE)
    BY <1>1, Taken DEF PlayTrkidx, Command
  <2> QED BY <1>1, <2>1, RetIs DEF Found, Typed
<1>2. CASE q.d.st # "empty"
  <2>1. r = Ret(WithD(q, D), TRUE)
    BY <1>2, Taken DEF PlayTrkidx, Command, WithD
  <2>3. /\ TrackEnd(TrackAt(w.index)) \in Block /\ w.index \in Block
        /\ w.index < Leadout
    BY IndexIs
  <2>3a. \A i \in Block : i \in Int
    BY Discs DEF Block
  <2>4. D \in Drive /\ D.pos < Leadout /\ D.end \in Block
    BY <2>3, <2>3a DEF Drive
  <2> HIDE DEF D
  <2> DEFINE x == WithD(q, D)
  <2>5. x \in State /\ x.s = q.s /\ x.m = q.m /\ x.d = D /\ x.app = q.app
    BY <2>4, WithDIs DEF Typed
  <2>6. r = Ret(x, TRUE)
    BY <2>1
  <2> HIDE DEF x
  <2>7. /\ Typed(r) /\ r.s = q.s /\ r.m = q.m /\ r.d = D /\ r.app = q.app
        /\ r.ret = TRUE
    BY <2>4, <2>5, <2>6, RetIs DEF Typed
  <2> QED BY <1>2, <2>7 DEF Found, D
<1> QED BY <1>1, <1>2

(* Behind the block of an index there is an end, clipped or not. *)
LEMMA IndexEnd ==
  ASSUME Sane, NEW i \in 0..Leadout - 1, ~ (i < Clip(Leadout)), NEW e \in Int
  PROVE  Clip(e) <= TrackEnd(TrackAt(i))
<1>1. i < TrackEnd(TrackAt(i)) /\ TrackEnd(TrackAt(i)) \in Nat
  BY TrackAtBlk, TrackBounds
<1>2. Clip(e) <= Clip(Leadout) /\ Clip(e) \in Nat /\ Clip(Leadout) \in Nat
  <2>1. Clip(e) <= Clip(Leadout)
    BY Discs, Blks DEF Clip, Lesser, Greater
  <2> QED BY <2>1, Clipped, Discs
<1> QED BY <1>1, <1>2

(* A pause that stays is seen as such. *)
LEMMA PausedStatus ==
  ASSUME Sane, NEW q, Typed(q), NEW w \in World, ~ Listed(q),
         q.m.fake_stop = FALSE,
         q.d.st = "paused", q.s.mode = "PAUSE" \/ q.m.idx_pause
  PROVE  LET r == GetPlaystatus(q, w)
         IN  /\ Sought(q, r) /\ r.d = q.d /\ r.ret = TRUE /\ r.s.pos = q.d.pos
             /\ r.m.idx_pause = q.m.idx_pause /\ r.m.fake_stop = q.m.fake_stop
             /\ r.s.mode = q.s.mode
             /\ r.m.sav_msf = q.m.sav_msf
<1> DEFINE r == GetPlaystatus(q, w)
<1>1. Status(q, w, r)
  BY GetPlaystatusIs
<1> HIDE DEF r
<1>2. Goes(q, r)
  BY <1>1 DEF Status, Waits
<1>3. /\ Only(q, r, PlaceFields, {"nostatcnt", "errcnt"}) /\ At(q, r)
      /\ r.d = q.d /\ r.ret = TRUE
  BY <1>2 DEF Goes
<1>4. /\ r.m.idx_pause = q.m.idx_pause /\ r.m.fake_stop = q.m.fake_stop
      /\ r.s.mode = q.s.mode
      /\ r.m.sav_msf = q.m.sav_msf
  BY <1>3, Fields DEF PlaceFields
<1>5. Sought(q, r)
  BY <1>3 DEF Sought, Only, MBut, SeekM
<1> QED BY <1>3, <1>4, <1>5 DEF At, r

(* Previous and next index. *)
LEMMA IndexInv ==
  ASSUME Sane, NEW q, NEW o, Inv(q, o), NEW w \in World
  PROVE  Inv(Index(q, w), o)
<1> DEFINE u == Unsampled(q)
           a == NoAb(u)
           b == PlayTrkidx(a, w)
           c0 == Pausing(b, TRUE)
           c == HoldIf(b, w)
           d == StatusIf(c, w)
           e == PlayOnIf(d, w, Leadout)
           f == Pausing(e, FALSE)
           h == KeepPaused(f, w)
           g == GetPlaystatus(h, w)
           r == Index(q, w)
<1>0. ~ Searching(q) /\ q.s.mode \in Modes /\ Typed(q)
  BY Parts DEF Inv, Ok, Flags, Searching, Curstat, Modes
<1>1. CASE Listed(q) \/ q.s.mode \notin {"SAMPLE", "PLAY", "PAUSE"}
  <2>1. r = q
    BY <1>1 DEF Index
  <2> QED BY <2>1
<1>2. CASE ~ (Listed(q) \/ q.s.mode \notin {"SAMPLE", "PLAY", "PAUSE"})
  <2>1. r = IF f.ret /\ f.s.mode = "PAUSE" THEN g ELSE f
    BY <1>0, <1>2 DEF Index, Pausing
  <2>2. /\ Inv(u, o) /\ Only(q, u, {"mode"}, {}) /\ u.d = q.d
        /\ u.s.mode = IF q.s.mode = "SAMPLE" THEN "PLAY" ELSE q.s.mode
    BY UnsampledInv
  <2> HIDE DEF r, u
  <2>3. On(u) /\ ~ Listed(u)
    <3>1. u.s.program = q.s.program /\ u.s.shuffle = q.s.shuffle
      BY <2>2, Fields
    <3> QED BY <1>2, <2>2, <3>1 DEF On, Listed
  <2>4. Inv(a, o) /\ Only(u, a, {"segplay"}, {}) /\ a.s.segplay # "AB"
    BY <2>2, NoAbInv
  <2> HIDE DEF a
  <2>5. /\ On(a) /\ ~ Listed(a) /\ Typed(a) /\ a.m.idx_pause = FALSE
        /\ a.m.fake_stop = FALSE
    <3>1. /\ a.s.program = u.s.program /\ a.s.shuffle = u.s.shuffle
          /\ a.s.mode = u.s.mode
      BY <2>4, Fields
    <3> QED BY <2>3, <2>4, <3>1 DEF On, Listed, Inv, Unforced
  <2>6. Found(a, w, b)
    BY <2>5, PlayTrkidxIs
  <2> HIDE DEF b
  <2>7. Typed(b) /\ b.s = a.s /\ b.m = a.m /\ b.app = a.app /\ b.ret \in BOOLEAN
    BY <2>6, Parts DEF Found
  <2>8. CASE a.d.st = "empty"
    <3>1. b.d = a.d /\ b.ret = FALSE
      BY <2>6, <2>8 DEF Found
    <3>2. e = b
      BY <3>1 DEF HoldIf, StatusIf, PlayOnIf
    <3>3. Inv(b, o)
      BY <2>4, <2>7, <3>1, SameInv DEF Typed
    <3> HIDE DEF e
    <3>4. /\ Sought(b, f) /\ f.d = b.d /\ f.s = b.s /\ f.ret = b.ret
          /\ f.m.idx_pause = FALSE
      BY <2>7, <3>2, PausingIs
    <3> HIDE DEF f
    <3>5. /\ On(b) /\ ~ Listed(b) /\ b.s.segplay # "AB" /\ Quiet(f)
          /\ f.d.st \notin Heard
      BY <2>4, <2>5, <2>7, <2>8, <3>1, <3>4 DEF On, Listed, Quiet, Heard
    <3>6. Inv(f, o)
      BY <3>3, <3>4, <3>5, SoughtInv
    <3> QED BY <2>1, <3>1, <3>4, <3>6 DEF r
  <2>9. CASE a.d.st # "empty"
    <3>1. /\ b.ret = TRUE /\ b.d.st = "playing" /\ b.d.pos = w.index
          /\ b.d.end = TrackEnd(TrackAt(w.index))
      BY <2>6, <2>9 DEF Found
    <3>2. /\ Sought(b, c0) /\ c0.d = b.d /\ c0.s = b.s /\ c0.m.idx_pause = TRUE
          /\ c0.m.fake_stop = b.m.fake_stop
      BY <2>7, PausingIs
    <3>3. c = PauseResume(c0, w, FALSE)
      BY <3>1 DEF HoldIf, Pausing
    <3> HIDE DEF c0, c
    <3>4. Toggled(c0, c, FALSE)
      BY <3>2, <3>3, PauseResumeIs DEF Sought, Only
    <3>5. Typed(c) /\ c.s = c0.s /\ c.m = c0.m /\ c.app = c0.app /\ c.ret = TRUE /\ c.d.st = "paused"
          /\ c.d.pos = w.index /\ c.d.end = b.d.end
      BY <3>1, <3>2, <3>4 DEF Toggled
    <3>6. Sought(a, c)
      BY <2>7, <3>2, <3>5 DEF Sought, Only
    <3>7. /\ ~ Listed(c) /\ c.m.fake_stop = FALSE /\ c.m.idx_pause = TRUE
          /\ c.s.mode = a.s.mode
      BY <2>5, <2>7, <3>2, <3>5 DEF Listed
    <3>8. d = GetPlaystatus(c, w)
      BY <3>5 DEF StatusIf
    <3> HIDE DEF d
    <3>9. /\ Sought(c, d) /\ d.d = c.d /\ d.ret = TRUE /\ d.s.pos = w.index
          /\ d.s.mode = a.s.mode
          /\ d.m.fake_stop = FALSE
      BY <3>5, <3>7, <3>8, PausedStatus
    <3>10. ~ Listed(d) /\ Typed(d)
      <4>1. Only(c, d, PlaceFields, SeekM)
        BY <3>9 DEF Sought
      <4>2. d.s.program = c.s.program /\ d.s.shuffle = c.s.shuffle
        BY <4>1, Fields DEF PlaceFields
      <4> QED BY <3>7, <4>1, <4>2 DEF Listed, Only
    <3>11. e = DoPlayaudio(d, w, w.index, Leadout)
      BY <3>9, <3>10 DEF PlayOnIf, PlayOn
    <3>12. w.index \in 0..Leadout - 1 /\ w.index \in Nat
      BY IndexIs
    <3>13. Plays(d, e, w.index, Leadout)
      BY <3>5, <3>9, <3>10, <3>11, <3>12, DoPlayaudioIs, Discs
    <3> HIDE DEF e
    <3>14. Typed(e) /\ e.s = d.s /\ Only(d, e, {}, Sav)
      BY <3>13 DEF Plays, Only
    <3>15. Sought(d, e) /\ e.m.fake_stop = d.m.fake_stop
      BY <3>14 DEF Sought, Only, SBut, MBut, MFields, SeekM, Sav
    <3>16. /\ Sought(e, f) /\ f.d = e.d /\ f.s = e.s /\ f.ret = e.ret
           /\ f.m.idx_pause = FALSE
           /\ f.m.fake_stop = e.m.fake_stop /\ f.m.sav_msf = e.m.sav_msf
      BY <3>14, PausingIs
    <3> HIDE DEF f
    <3>17. Sought(a, f)
      BY <3>6, <3>9, <3>15, <3>16, SoughtTwice
    <3>18. /\ f.s.mode = a.s.mode /\ f.m.fake_stop = FALSE /\ Typed(f)
           /\ ~ Listed(f)
      BY <3>9, <3>10, <3>14, <3>15, <3>16 DEF Sought, Only, Listed
    <3>19. CASE ~ (w.index < Clip(Leadout))
      <4>1. e.ret = FALSE /\ e.d = d.d
        BY <3>13, <3>19 DEF Plays
      <4>2. f.m.sav_msf \in Int
        BY <3>18, Parts DEF Statics
      <4>3. Clip(f.m.sav_msf) <= f.d.end
        BY <3>1, <3>5, <3>9, <3>12, <3>16, <3>19, <4>1, <4>2, IndexEnd
      <4>4. Quiet(f) /\ f.d.st # "error"
        BY <3>5, <3>9, <3>16, <4>1 DEF Quiet
      <4>5. Inv(f, o)
        BY <2>4, <2>5, <3>16, <3>17, <4>3, <4>4, SoughtInv
      <4> QED BY <2>1, <3>16, <4>1, <4>5 DEF r
    <3>20. CASE w.index < Clip(Leadout)
      <4>1. /\ e.ret = TRUE /\ e.m.sav_msf = Leadout /\ e.d.st = "playing"
            /\ e.d.end = Clip(Leadout)
        BY <3>13, <3>20 DEF Plays
      <4>2. Clip(Leadout) <= Clip(Leadout)
        BY Clipped, Discs
      <4>3. CASE f.s.mode # "PAUSE"
        <5>1. Quiet(f)
          BY <2>5, <3>18, <4>3 DEF Quiet, On
        <5>2. Inv(f, o)
          BY <2>4, <2>5, <3>16, <3>17, <4>1, <4>2, <5>1, SoughtInv
        <5> QED BY <2>1, <4>3, <5>2 DEF r
      <4>4. CASE f.s.mode = "PAUSE"
        <5>1. r = g
          BY <2>1, <3>16, <4>1, <4>4
        <5>2. h = PauseResume(f, w, FALSE)
          BY <3>16, <4>1, <4>4 DEF KeepPaused
        <5> HIDE DEF h
        <5>3. Toggled(f, h, FALSE)
          BY <3>18, <5>2, PauseResumeIs
        <5>4. /\ Typed(h) /\ h.s = f.s /\ h.m = f.m /\ h.app = f.app
              /\ h.d.st = "paused" /\ h.d.end = f.d.end
          BY <3>16, <4>1, <5>3 DEF Toggled
        <5>5. Sought(a, h)
          BY <3>17, <5>4 DEF Sought, Only
        <5>6. ~ Listed(h) /\ h.m.fake_stop = FALSE /\ h.s.mode = "PAUSE"
          BY <3>18, <4>4, <5>4 DEF Listed
        <5>7. /\ Sought(h, g) /\ g.d = h.d /\ g.m.idx_pause = h.m.idx_pause
              /\ g.m.sav_msf = h.m.sav_msf
          BY <5>4, <5>6, PausedStatus
        <5> HIDE DEF g
        <5>8. Sought(a, g)
          BY <5>5, <5>7, SoughtTwice
        <5>9. /\ Quiet(g) /\ g.d.st # "error" /\ g.m.idx_pause = FALSE
              /\ Clip(g.m.sav_msf) <= g.d.end
          BY <3>16, <4>1, <4>2, <5>4, <5>7 DEF Quiet
        <5>10. Inv(g, o)
          BY <2>4, <2>5, <5>8, <5>9, SoughtInv
        <5> QED BY <5>1, <5>10 DEF r
      <4> QED BY <4>3, <4>4
    <3> QED BY <3>19, <3>20
  <2> QED BY <2>8, <2>9
<1> QED BY <1>1, <1>2

-----------------------------------------------------------------------------
(* Sampling, and the buttons around it. *)

(* The sample button. *)
Sampling(q, i) == [q EXCEPT !.s.cur_trk = i + 1, !.s.mode = "SAMPLE", !.m.next_sam = i]

(* Only the mode, the track and the next one change. *)
LEMMA SamplingIs ==
  ASSUME NEW q, Typed(q), NEW i \in Nat, i + 1 \in Track
  PROVE  LET r == Sampling(q, i)
         IN  Only(q, r, {"cur_trk", "mode"}, {"next_sam"}) /\ r.d = q.d /\ r.s.mode = "SAMPLE"
<1> DEFINE r == Sampling(q, i)
           S == [q.s EXCEPT !.cur_trk = i + 1, !.mode = "SAMPLE"]
           M == [q.m EXCEPT !.next_sam = i]
<1>1. S \in Curstat /\ SBut(q.s, S, {"cur_trk", "mode"}) /\ S.mode = "SAMPLE"
  BY Parts DEF Curstat, SBut, SFields
<1>2. M \in Statics /\ MBut(q.m, M, {"next_sam"})
  BY Parts DEF Statics, MBut, MFields
<1>3. r = WithSM(q, S, M)
  BY Parts DEF Sampling, WithSM, State
<1> HIDE DEF S, M, r
<1>4. Typed(r) /\ r.app = q.app /\ r.s = S /\ r.m = M /\ r.d = q.d
  BY <1>1, <1>2, <1>3, WithSMIs
<1> QED BY <1>1, <1>2, <1>4 DEF Only, r

(* The next sample keeps the invariant. *)
LEMMA RunSampleInv ==
  ASSUME Sane, NEW q, NEW o, Inv(q, o), q.s.mode = "SAMPLE", q.d.st # "empty",
         NEW w \in World
  PROVE  Inv(RunSample(q, w), o)
<1> DEFINE r == RunSample(q, w)
<1>0. Typed(q) /\ Ok(q, o)
  BY DEF Inv
<1>1. SampleRun(q, r)
  BY <1>0, RunSampleIs
<1> HIDE DEF r
<1>2. Only(q, r, {}, {"next_sam"} \cup Sav)
  BY <1>1 DEF SampleRun
<1>3. r.ret \in BOOLEAN /\ Typed(r)
  BY <1>2, Parts DEF Only
<1>4. CASE r.ret = FALSE
  <2>1. r.d = q.d /\ r.m.sav_msf = q.m.sav_msf
    BY <1>1, <1>4 DEF SampleRun
  <2>2. Only(q, r, {"pos", "startpos"}, Idle)
    BY <1>2, <2>1 DEF Only, SBut, MBut, MFields, Sav, Idle
  <2> QED BY <2>1, <2>2, FrameInv DEF r
<1>5. CASE r.ret = TRUE
  <2>1. Ok(r, o) /\ r.s.mode = q.s.mode /\ TimersOf(q, r)
    BY <1>0, <1>1, <1>5, SampleOk
  <2>2. /\ r.m.fake_stop = q.m.fake_stop /\ r.m.idx_pause = q.m.idx_pause
        /\ r.app = q.app
    BY <1>2, Fields DEF Sav
  <2>3. Unforced(r) /\ Timed(r, o) /\ Placed(r, o)
    BY <2>1, <2>2 DEF Inv, Unforced, Timed, Placed, TimersOf
  <2> QED BY <1>3, <2>1, <2>3 DEF Inv, r
<1> QED BY <1>3, <1>4, <1>5

(* Sampling begins or goes on. *)
LEMMA SampledInv ==
  ASSUME NEW q, NEW r, NEW o, Inv(q, o), q.app = "xmcd", "sample" \in o,
         ~ Listed(q), q.s.segplay = "NONE",
         Only(q, r, {"cur_trk", "mode"}, {"next_sam"} \cup TimerFields),
         r.d = q.d, r.s.mode = "SAMPLE",
         r.m.stat_polling, r.m.stat_id \/ r.m.stray > 0
  PROVE  Inv(r, o)
<1>1. /\ r.app = q.app /\ r.s.segplay = q.s.segplay /\ r.s.program = q.s.program
      /\ r.s.onetrk = q.s.onetrk /\ r.s.shuffle = q.s.shuffle
      /\ r.s.plan = q.s.plan /\ r.m.ask = q.m.ask
  BY Fields DEF TimerFields
<1>2. /\ r.m.searching = q.m.searching /\ r.m.search_id = q.m.search_id
      /\ r.m.sav_msf = q.m.sav_msf /\ r.m.fake_stop = q.m.fake_stop
      /\ r.m.idx_pause = q.m.idx_pause
  BY Fields DEF TimerFields
<1>3. Typed(r)
  BY DEF Only
<1>4. Unforced(r) /\ Timed(r, o) /\ Placed(r, o)
  BY <1>1, <1>2 DEF Inv, Unforced, Timed, Placed
<1>5. Flags(r, o) /\ Lists(r)
  BY <1>1, <1>2 DEF Inv, Ok, Flags, Lists, Listed
<1>6. Entered(r) /\ InSeg(r) /\ InEntries(r, o) /\ Quiet(r)
  BY DEF Entered, InSeg, InEntries, On, Quiet
<1>7. Resumable(r, o)
  BY <1>2 DEF Inv, Ok, Resumable
<1> QED BY <1>3, <1>4, <1>5, <1>6, <1>7 DEF Inv, Ok

(* The sample button, behind disc_ready, ... *)
LEMMA SampleReadyInv ==
  ASSUME Sane, NEW q, NEW o, Plain(o), Inv(q, o), Awake(q), q.app = "xmcd",
         "sample" \in o, NEW w \in World
  PROVE  Inv(SampleReady(q, w), o)
<1> DEFINE i == IF q.s.cur_trk > 0 /\ q.s.cur_trk + 1 \in Track THEN q.s.cur_trk ELSE 0
           b == IF q.s.mode = "STOP" THEN StartStatPoll(q) ELSE q
           x == Sampling(b, i)
           r == SampleReady(q, w)
<1>0. /\ q.s.mode \in Modes /\ q.ret \in BOOLEAN
      /\ q.s.cur_trk \in {0} \cup Track /\ Typed(q)
  BY Parts DEF Inv, Curstat, Modes, Awake
<1>1. CASE ~q.ret \/ Listed(q) \/ q.s.segplay # "NONE" \/ q.s.mode = "PAUSE"
  <2>1. ~ (q.ret /\ q.s.mode = "SAMPLE")
    BY <1>1 DEF Inv, Ok, Lists
  <2>2. r = q
    BY <1>1, <2>1 DEF SampleReady
  <2> QED BY <2>2
<1>2. CASE q.ret /\ q.s.mode = "SAMPLE" /\ ~ Listed(q) /\ q.s.segplay = "NONE"
  <2>1. r = SlPlayPause(q, w)
    BY <1>2 DEF SampleReady
  <2> HIDE DEF r
  <2> QED BY <2>1, PlayPauseInv DEF r
<1>3. CASE ~ (~q.ret \/ Listed(q) \/ q.s.segplay # "NONE" \/ q.s.mode = "PAUSE") /\ q.s.mode # "SAMPLE"
  <2>1. r = RunSample(x, w)
    BY <1>3 DEF SampleReady, Sampling
  <2> HIDE DEF r
  <2>2. i \in Nat /\ i + 1 \in Track
    <3>1. CASE q.s.cur_trk > 0 /\ q.s.cur_trk + 1 \in Track
      <4>1. i = q.s.cur_trk
        BY <3>1
      <4>2. q.s.cur_trk \in Nat
        <5>1. \A t \in Track : t \in Nat
          BY Discs
        <5> QED BY <1>0, <5>1
      <4> HIDE DEF i
      <4> QED BY <3>1, <4>1, <4>2
    <3>2. CASE ~ (q.s.cur_trk > 0 /\ q.s.cur_trk + 1 \in Track)
      <4>1. i = 0
        BY <3>2
      <4> HIDE DEF i
      <4> QED BY <4>1, Discs
    <3> QED BY <3>1, <3>2
  <2> HIDE DEF i
  <2>3. Only(q, b, {}, TimerFields) /\ b.d = q.d /\ b.m.stat_polling /\ (b.m.stat_id \/ b.m.stray > 0)
    <3>1. CASE q.s.mode = "STOP"
      <4>1. StatPollStarted(q, StartStatPoll(q))
        BY <1>0, StartStatPollIs
      <4>2. b = StartStatPoll(q)
        BY <3>1
      <4> HIDE DEF b
      <4> QED BY <4>1, <4>2 DEF StatPollStarted, TimerFields
    <3>2. CASE q.s.mode # "STOP"
      <4>1. b = q /\ q.s.mode = "PLAY"
        BY <1>0, <1>3, <3>2 DEF Awake, Modes
      <4>2. q.m.stat_polling /\ (q.m.stat_id \/ q.m.stray > 0)
        BY <4>1 DEF Inv, Timed
      <4> HIDE DEF b
      <4> QED BY <1>0, <4>1, <4>2, SameS, SameM DEF Only
    <3> QED BY <3>1, <3>2
  <2> HIDE DEF b
  <2>4. Typed(b)
    BY <2>3 DEF Only
  <2>5. /\ Only(b, x, {"cur_trk", "mode"}, {"next_sam"}) /\ x.d = b.d
        /\ x.s.mode = "SAMPLE"
    BY <2>2, <2>4, SamplingIs
  <2> HIDE DEF x
  <2>6. Only(q, x, {"cur_trk", "mode"}, {"next_sam"} \cup TimerFields)
    BY <2>3, <2>5 DEF Only, SBut, SFields, MBut, MFields
  <2>7. /\ x.m.stat_polling = b.m.stat_polling /\ x.m.stat_id = b.m.stat_id
        /\ x.m.stray = b.m.stray
    BY <2>5, Fields
  <2>8. Inv(x, o)
    BY <1>3, <2>3, <2>5, <2>6, <2>7, SampledInv
  <2>9. x.d.st # "empty"
    BY <1>3, <2>3, <2>5 DEF Awake
  <2> QED BY <2>1, <2>5, <2>8, <2>9, RunSampleInv DEF r
<1> QED BY <1>0, <1>1, <1>2, <1>3

(* ... and as a whole. *)
LEMMA SampleInv ==
  ASSUME Sane, NEW q, NEW o, Plain(o), Inv(q, o), q.app = "xmcd",
         "sample" \in o, NEW w \in World
  PROVE  Inv(CdSample(q, w), o)
<1> DEFINE x == DiscReady(q)
<1>1. CdSample(q, w) = SampleReady(x, w)
  BY DEF CdSample, Inv, Ok, Flags, Searching
<1>2. Inv(x, o) /\ Awake(x)
  BY AwakeInv
<1>3. Readied(q, x)
  BY DiscReadyIs DEF Inv
<1> HIDE DEF x
<1>4. x.app = "xmcd"
  BY <1>3 DEF Readied, Only
<1> QED BY <1>1, <1>2, <1>4, SampleReadyInv

(* Previous and next. *)
LEMMA PrevtrkInv ==
  ASSUME Sane, NEW q, NEW o, Inv(q, o), NEW w \in World
  PROVE  Inv(CdPrevtrk(q, w), o)
<1>1. CdPrevtrk(q, w) = PrevReady(DiscReady(q), w)
  BY DEF CdPrevtrk, Inv, Ok, Flags, Searching
<1> QED BY <1>1, AwakeInv, PrevReadyInv

(* The next-track button. *)
LEMMA NexttrkInv ==
  ASSUME Sane, NEW q, NEW o, Inv(q, o), NEW w \in World
  PROVE  Inv(CdNexttrk(q, w), o)
<1>1. CdNexttrk(q, w) = NextReady(DiscReady(q), w)
  BY DEF CdNexttrk, Inv, Ok, Flags, Searching
<1> QED BY <1>1, AwakeInv, NextReadyInv

(* The poll has another interval. *)
LEMMA IconInv ==
  ASSUME NEW q, NEW o, Inv(q, o), q.app = "xmcd", NEW b \in BOOLEAN
  PROVE  Inv(Icon(q, b), o)
<1> DEFINE x == StopStatPoll(q)
           r == StartStatPoll(x)
<1>1. CASE ~ (q.s.mode = "PLAY" /\ ~ b)
  <2>1. Icon(q, b) = q
    BY <1>1 DEF Icon
  <2> QED BY <2>1
<1>2. CASE q.s.mode = "PLAY" /\ ~ b
  <2>1. Icon(q, b) = r
    BY <1>2 DEF Icon
  <2>2. StatPollStopped(q, x)
    BY StopStatPollIs DEF Inv
  <2> HIDE DEF x
  <2>3. Typed(x)
    BY <2>2 DEF StatPollStopped, Only
  <2>4. StatPollStarted(x, r)
    BY <2>3, StartStatPollIs
  <2> HIDE DEF r
  <2>5. Only(q, r, {}, TimerFields) /\ r.d = q.d
    BY <2>2, <2>4
       DEF StatPollStopped, StatPollStarted, Only, SBut, SFields, MBut,
           MFields, TimerFields
  <2>6. r.m.stat_polling = TRUE /\ r.m.stat_id = TRUE
    BY <2>2, <2>4 DEF StatPollStopped, StatPollStarted, Only
  <2>7. /\ r.app = q.app /\ r.s.segplay = q.s.segplay /\ r.s.endpos = q.s.endpos
        /\ r.s.program = q.s.program
        /\ r.s.onetrk = q.s.onetrk /\ r.s.shuffle = q.s.shuffle
        /\ r.s.plan = q.s.plan /\ r.m.ask = q.m.ask
        /\ r.s.mode = q.s.mode /\ r.s.cur_trk = q.s.cur_trk
    BY <2>5, Fields DEF TimerFields
  <2>8. /\ r.s.order = q.s.order /\ r.s.prog_cnt = q.s.prog_cnt
        /\ r.s.repeat = q.s.repeat
        /\ r.m.new_progshuf = q.m.new_progshuf /\ r.m.searching = q.m.searching
        /\ r.m.search_id = q.m.search_id
        /\ r.m.sav_msf = q.m.sav_msf /\ r.m.fake_stop = q.m.fake_stop
        /\ r.m.idx_pause = q.m.idx_pause
    BY <2>5, Fields DEF TimerFields
  <2>9. Typed(r)
    BY <2>5 DEF Only
  <2>10. Unforced(r) /\ Timed(r, o) /\ Placed(r, o)
    BY <1>2, <2>6, <2>7, <2>8 DEF Inv, Unforced, Timed, Placed
  <2>11. Flags(r, o) /\ Lists(r)
    BY <2>7, <2>8 DEF Inv, Ok, Flags, Lists, Listed
  <2>12. Entered(r) /\ Quiet(r)
    BY <2>5, <2>7, <2>8 DEF Inv, Ok, Entered, On, Listed, Quiet
  <2>13. InSeg(r) /\ Resumable(r, o)
    BY <2>5, <2>7, <2>8 DEF Inv, Ok, InSeg, On, Resumable
  <2>14. InEntries(r, o)
    BY <2>5, <2>7, <2>8
       DEF Inv, Ok, InEntries, InEntry, EntryOf, Within, On, Listed
  <2> QED BY <2>1, <2>9, <2>10, <2>11, <2>12, <2>13, <2>14 DEF Inv, Ok
<1> QED BY <1>1, <1>2

(* The eject button. *)
LEMMA EjectInv ==
  ASSUME Sane, NEW q, NEW o, Inv(q, o), NEW w \in World
  PROVE  Inv(LoadEject(q, w), o)
<1> DEFINE a == StartStop(q, w)
           b == StopStatPoll(a)
           c == ResetDisc(b)
           d == IF Takes(q, w, "stop") THEN WithSt(c, "empty") ELSE c
           r == StartInsertPoll(d)
<1>1. LoadEject(q, w) = r
  BY DEF LoadEject, Inv, Ok, Flags, Searching, WithSt
<1>2. Halted(q, a)
  BY StartStopIs DEF Inv
<1> HIDE DEF a
<1>3. Typed(a)
  BY <1>2 DEF Halted
<1>4. StatPollStopped(a, b)
  BY <1>3, StopStatPollIs
<1> HIDE DEF b
<1>5. Typed(b)
  BY <1>4 DEF StatPollStopped, Only
<1>6. Only(b, c, DiscFields, {}) /\ NoDisc(b, c) /\ c.d = b.d
  BY <1>5, ResetDiscIs
<1> HIDE DEF c
<1>7. Typed(d) /\ d.s = c.s /\ d.m = c.m /\ d.app = c.app /\ d.d.st = "empty"
  <2>0. Typed(c)
    BY <1>6 DEF Only
  <2>1. CASE q.d.st = "empty"
    <3>1. d = c
      BY <2>1 DEF Takes
    <3>2. c.d.st = "empty"
      BY <1>2, <1>4, <1>6, <2>1 DEF Halted, StatPollStopped
    <3> QED BY <2>0, <3>1, <3>2
  <2>2. CASE q.d.st # "empty"
    <3>1. d = WithSt(c, "empty")
      BY <2>2, Taken DEF Command
    <3>2. SameButSt(c, WithSt(c, "empty"), "empty")
      BY <2>0, WithStIs
    <3> QED BY <3>1, <3>2 DEF SameButSt
  <2> QED BY <2>1, <2>2
<1> HIDE DEF d
<1>8. Only(d, r, {}, {"insert_polling"}) /\ r.d = d.d
  BY <1>7, InsertPollIs
<1> HIDE DEF r
<1>9. Only(q, r, DiscFields, {"insert_polling", "stat_polling", "stat_id"})
  <2>1. SBut(q.s, r.s, DiscFields)
    BY <1>2, <1>4, <1>6, <1>7, <1>8
       DEF Halted, StatPollStopped, Only, SBut, SFields
  <2>2. MBut(q.m, r.m, {"insert_polling", "stat_polling", "stat_id"})
    BY <1>2, <1>4, <1>6, <1>7, <1>8
       DEF Halted, StatPollStopped, Only, MBut, MFields
  <2> QED BY <1>2, <1>4, <1>6, <1>7, <1>8, <2>1, <2>2
             DEF Halted, StatPollStopped, Only
<1>10. NoDisc(q, r) /\ r.d.st = "empty"
  BY <1>6, <1>7, <1>8 DEF NoDisc, Only, SBut, SFields
<1>11. r.m.stat_polling = FALSE /\ (r.m.stat_id => q.m.stat_id)
  BY <1>2, <1>4, <1>6, <1>7, <1>8, ZenonT(30)
     DEF Halted, StatPollStopped, Only, MBut, MFields
<1>12. /\ r.app = q.app /\ r.s.shuffle = q.s.shuffle
       /\ r.m.searching = q.m.searching
      /\ r.m.search_id = q.m.search_id /\ r.m.ask = q.m.ask
      /\ r.m.stray = q.m.stray
      /\ r.m.fake_stop = q.m.fake_stop /\ r.m.idx_pause = q.m.idx_pause
      /\ r.m.sav_msf = q.m.sav_msf
  BY <1>9, Fields DEF DiscFields
<1>13. /\ r.s.onetrk = FALSE /\ r.s.program = FALSE /\ r.s.mode = "NODISC"
       /\ r.s.segplay = "NONE"
      /\ r.s.off = 0 /\ Typed(r) /\ r.m.stat_id \in BOOLEAN
  BY <1>9, <1>10, Parts DEF NoDisc, Only, Statics
<1>14. Flags(r, o) /\ Lists(r) /\ Resumable(r, o)
  BY <1>10, <1>11, <1>12, <1>13
     DEF Inv, Ok, Flags, Lists, Resumable, Heard, Listed
<1>15. Ok(r, o)
  BY <1>10, <1>13, <1>14, StoppedOk
<1>16. Unforced(r) /\ Timed(r, o) /\ Placed(r, o)
  BY <1>11, <1>12, <1>13 DEF Inv, Unforced, Timed, Placed
<1> QED BY <1>1, <1>13, <1>15, <1>16 DEF Inv

-----------------------------------------------------------------------------
(* Repeat and the A-B button. *)

(* slioc_repeat. *)
LEMMA RepeatIs ==
  ASSUME NEW q, Typed(q), NEW b \in BOOLEAN
  PROVE  LET r == SlRepeat(q, b)
         IN  /\ Only(q, r, {"repeat"}, {"new_progshuf"}) /\ r.d = q.d /\ r.s.repeat = b
             /\ r.m.new_progshuf = (q.m.new_progshuf /\ b)
<1> DEFINE S == [q.s EXCEPT !.repeat = b]
           c == q.m.new_progshuf /\ b
           M == [q.m EXCEPT !.new_progshuf = c]
           r == SlRepeat(q, b)
<1>1. S \in Curstat /\ SBut(q.s, S, {"repeat"}) /\ S.repeat = b
  BY Parts DEF Curstat, SBut, SFields
<1>2. M \in Statics /\ MBut(q.m, M, {"new_progshuf"}) /\ M.new_progshuf = c
  BY Parts DEF Statics, MBut, MFields
<1>3. r = WithSM(q, S, M)
  BY Parts DEF SlRepeat, WithSM, State
<1> HIDE DEF S, M, c, r
<1>4. Typed(r) /\ r.app = q.app /\ r.s = S /\ r.m = M /\ r.d = q.d
  BY <1>1, <1>2, <1>3, WithSMIs
<1>5. Only(q, r, {"repeat"}, {"new_progshuf"}) /\ r.d = q.d /\ r.s.repeat = b
  BY <1>1, <1>2, <1>4 DEF Only
<1>6. r.m.new_progshuf = c
  BY <1>2, <1>4
<1> QED BY <1>5, <1>6 DEF r, c

(* It keeps the invariant: a new order is due only in repeat. *)
LEMMA RepeatInv ==
  ASSUME NEW q, NEW o, Inv(q, o), NEW b \in BOOLEAN
  PROVE  Inv(SlRepeat(q, b), o)
<1> SUFFICES ASSUME NEW r, r = SlRepeat(q, b)
             PROVE  Inv(r, o)
  OBVIOUS
<1>1. /\ Only(q, r, {"repeat"}, {"new_progshuf"}) /\ r.d = q.d /\ r.s.repeat = b
      /\ r.m.new_progshuf = (q.m.new_progshuf /\ b)
  BY RepeatIs DEF Inv
<1>2. /\ r.app = q.app /\ r.s.mode = q.s.mode /\ r.s.cur_trk = q.s.cur_trk
      /\ r.s.segplay = q.s.segplay
      /\ r.s.endpos = q.s.endpos /\ r.s.program = q.s.program
      /\ r.s.onetrk = q.s.onetrk
      /\ r.s.shuffle = q.s.shuffle /\ r.s.plan = q.s.plan
      /\ r.s.order = q.s.order
      /\ r.s.prog_cnt = q.s.prog_cnt /\ r.m.ask = q.m.ask
  BY <1>1, Fields
<1>3. Only(q, r, {"repeat"}, Settings)
  BY <1>1 DEF Only, MBut, MFields, Settings
<1>4. Lists(r)
  BY <1>2 DEF Inv, Ok, Lists, Listed
<1>5. q.app = "cda" => r.s.segplay = "NONE" /\ r.s.onetrk = FALSE /\ r.m.ask = "no"
  BY <1>2 DEF Inv, Ok, Flags
<1>6. Listed(r) <=> Listed(q)
  BY <1>2 DEF Listed
<1>7. r.m.new_progshuf => r.s.repeat /\ q.m.new_progshuf
  BY <1>1
<1> QED BY <1>1, <1>2, <1>3, <1>4, <1>5, <1>6, <1>7, SettingInv

(* The start of a segment. *)
Begun(q) == [q EXCEPT !.s.startpos = q.s.pos, !.s.segplay = "A"]

(* The start of a segment is taken. *)
LEMMA BegunInv ==
  ASSUME NEW q, NEW o, Inv(q, o), q.app = "xmcd", q.s.mode = "PLAY", ~ Listed(q)
  PROVE  Inv(Begun(q), o)
<1> DEFINE S == [q.s EXCEPT !.startpos = q.s.pos, !.segplay = "A"]
           r == Begun(q)
<1>1. S \in Curstat /\ SBut(q.s, S, {"startpos", "segplay"}) /\ S.segplay = "A"
  BY Parts DEF Inv, Curstat, SBut, SFields
<1>2. r = WithSM(q, S, q.m)
  BY Parts DEF Begun, WithSM, State, Inv
<1>2a. Typed(q) /\ q.m \in Statics
  BY Parts DEF Inv
<1> HIDE DEF S, r
<1>3. Typed(r) /\ r.app = q.app /\ r.s = S /\ r.m = q.m /\ r.d = q.d
  BY <1>1, <1>2, <1>2a, WithSMIs
<1>4. Only(q, r, {"startpos", "segplay"}, Settings) /\ r.s.segplay = "A"
  BY <1>1, <1>3, SameM DEF Only
<1>5. /\ r.s.mode = q.s.mode /\ r.s.program = q.s.program
      /\ r.s.onetrk = q.s.onetrk
      /\ r.s.shuffle = q.s.shuffle /\ r.s.plan = q.s.plan
  BY <1>4, Fields
<1>6. Lists(r)
  BY <1>4, <1>5 DEF Inv, Ok, Lists, Listed
<1>7. ~ Listed(r)
  BY <1>5 DEF Listed
<1>8. Inv(r, o)
  BY <1>3, <1>4, <1>6, <1>7, SettingInv
<1> QED BY <1>8 DEF r

(* The end of a segment is taken. *)
LEMMA EndedIs ==
  ASSUME NEW q, Typed(q)
  PROVE  LET r == SetEnd(q)
         IN  Only(q, r, {"endpos", "segplay"}, {}) /\ r.d = q.d /\ r.m = q.m /\ r.s.segplay = "AB"
<1> DEFINE S == [q.s EXCEPT !.endpos = q.s.pos, !.segplay = "AB"]
           r == SetEnd(q)
<1>1. S \in Curstat /\ SBut(q.s, S, {"endpos", "segplay"}) /\ S.segplay = "AB"
  BY Parts DEF Curstat, SBut, SFields
<1>2. r = WithSM(q, S, q.m)
  BY Parts DEF SetEnd, WithSM, State
<1>2a. q.m \in Statics
  BY Parts
<1> HIDE DEF S, r
<1>3. Typed(r) /\ r.app = q.app /\ r.s = S /\ r.m = q.m /\ r.d = q.d
  BY <1>1, <1>2, <1>2a, WithSMIs
<1>4. /\ Only(q, r, {"endpos", "segplay"}, {}) /\ r.d = q.d /\ r.m = q.m
      /\ r.s.segplay = "AB"
  BY <1>1, <1>3, SameM DEF Only
<1> QED BY <1>4 DEF r

(* A status makes no list. *)
LEMMA StatusUnlisted ==
  ASSUME NEW q, NEW w, NEW r, Status(q, w, r), ~ Listed(q), q.s.mode = "PLAY"
  PROVE  ~ Listed(r)
<1>1. CASE Gone(q, r)
  <2>1. r.s.shuffle = q.s.shuffle
    BY <1>1, Fields DEF Gone, DiscFields
  <2> QED BY <1>1, <2>1 DEF Gone, NoDisc, Listed
<1>2. CASE Only(q, r, PlaceFields, StatusFields \cup {"sav_end"})
  <2>1. r.s.shuffle = q.s.shuffle /\ r.s.program = q.s.program
    BY <1>2, Fields DEF PlaceFields
  <2> QED BY <2>1 DEF Listed
<1>3. CASE Ends(q, w, r)
  <2>1. PICK b : Based(q, b) /\ Passed(b, w, r)
    BY <1>3 DEF Ends
  <2>2. /\ b.s.shuffle = q.s.shuffle /\ b.s.program = q.s.program
        /\ b.s.mode = q.s.mode
    BY <2>1, Fields DEF Based, PlaceFields
  <2>3. ~ Listed(b) /\ b.s.mode = "PLAY"
    BY <2>2 DEF Listed
  <2>4. CASE DiscFollowed(b, r)
    <3>1. r.s.shuffle = b.s.shuffle /\ r.s.program = b.s.program
      BY <2>4, Fields DEF DiscFollowed, PlaceFields
    <3> QED BY <2>3, <3>1 DEF Listed
  <2>5. CASE RunOut(b, r)
    <3>1. r.s.shuffle = b.s.shuffle
      BY <2>5, Fields DEF RunOut, EndFields
    <3> QED BY <2>3, <2>5, <3>1 DEF Listed, RunOut
  <2> QED BY <2>1, <2>3, <2>4, <2>5 DEF Passed, GoneOn
<1>4. Goes(q, r) \/ Waits(q, r) \/ Skips(q, r) => Only(q, r, PlaceFields, StatusFields \cup {"sav_end"})
  BY DEF Goes, Waits, Skips, Only, SBut, MBut, MFields, StatusFields
<1> QED BY <1>1, <1>2, <1>3, <1>4 DEF Status

(* The end of a segment. *)
LEMMA EndedStoppable ==
  ASSUME NEW q, NEW o, Stoppable(q, o), q.app = "xmcd", ~ Listed(q),
         q.s.mode # "SAMPLE"
  PROVE  Stoppable(SetEnd(q), o)
<1> SUFFICES ASSUME NEW r, r = SetEnd(q)
             PROVE  Stoppable(r, o)
  OBVIOUS
<1>1. Typed(q)
  BY DEF Stoppable
<1>2. /\ Only(q, r, {"endpos", "segplay"}, {}) /\ r.d = q.d /\ r.m = q.m
      /\ r.s.segplay = "AB"
  BY <1>1, EndedIs
<1>3. /\ r.app = q.app /\ r.s.mode = q.s.mode /\ r.s.program = q.s.program
      /\ r.s.onetrk = q.s.onetrk
      /\ r.s.shuffle = q.s.shuffle /\ r.s.plan = q.s.plan
  BY <1>2, Fields
<1>4. Typed(r)
  BY <1>2 DEF Only
<1>5. Flags(r, o) /\ Lists(r)
  BY <1>2, <1>3 DEF Stoppable, Flags, Lists, Listed
<1>6. Resumable(r, o) /\ Unforced(r) /\ Ticks(r)
  BY <1>2, <1>3 DEF Stoppable, Resumable, Unforced, Ticks
<1> QED BY <1>4, <1>5, <1>6 DEF Stoppable

(* Then the play stops. *)
LEMMA SegmentEndInv ==
  ASSUME Sane, NEW q, NEW o, Inv(q, o), q.app = "xmcd", q.s.mode = "PLAY",
         ~ Listed(q), NEW w \in World
  PROVE  Inv(SlStop(SetEnd(GetPlaystatus(q, w)), w, TRUE), o)
<1> DEFINE g == GetPlaystatus(q, w)
<1>1. Typed(q) /\ Ok(q, o) /\ Unforced(q)
  BY DEF Inv
<1>2. Typed(g) /\ Ok(g, o) /\ Unforced(g) /\ Went(q, g) /\ Status(q, w, g)
  BY <1>1, StatusOk
<1> HIDE DEF g
<1>3. ~ Listed(g)
  BY <1>2, StatusUnlisted
<1>4. Polls(q, g) /\ g.ret \in BOOLEAN
  BY <1>2 DEF Went
<1>5. g.s.mode # "SAMPLE"
  BY <1>2, <1>4 DEF Went
<1>6. Ticks(q) /\ Flags(g, o) /\ q.app = "xmcd"
  BY <1>2 DEF Inv, Timed, Ticks, Ok
<1>7. g.app = "xmcd"
  BY <1>1, <1>6 DEF Ok, Flags
<1>8. Ticks(g)
  BY <1>4, <1>6 DEF Polls, Ticks, TimersOf
<1>9. Stoppable(g, o)
  BY <1>2, <1>8 DEF Stoppable, Ok
<1>10. Stoppable(SetEnd(g), o)
  BY <1>3, <1>5, <1>7, <1>9, EndedStoppable
<1>11. Inv(SlStop(SetEnd(g), w, TRUE), o)
  BY <1>10, StopInv
<1> QED BY <1>11 DEF g

(* The A-B button. *)
LEMMA AbInv ==
  ASSUME Sane, NEW q, NEW o, Inv(q, o), q.app = "xmcd", NEW w \in World
  PROVE  Inv(CdAb(q, w), o)
<1>0. ~ Searching(q) /\ Typed(q) /\ Lists(q)
  BY DEF Inv, Ok, Flags, Searching
<1>1. CASE q.s.segplay = "NONE"
  <2>1. CASE q.s.mode = "PLAY" /\ ~ Listed(q)
    <3>1. CdAb(q, w) = Begun(q)
      BY <1>0, <1>1, <2>1 DEF CdAb, Begun
    <3> QED BY <2>1, <3>1, BegunInv
  <2>2. CASE ~ (q.s.mode = "PLAY" /\ ~ Listed(q))
    <3>1. CdAb(q, w) = q
      BY <1>0, <1>1, <2>2 DEF CdAb
    <3> QED BY <3>1
  <2> QED BY <2>1, <2>2
<1>2. CASE q.s.segplay = "A"
  <2>1. CASE q.s.mode = "PLAY" /\ ~ Listed(q)
    <3>1. CdAb(q, w) = SlStop(SetEnd(GetPlaystatus(q, w)), w, TRUE)
      BY <1>0, <1>2, <2>1 DEF CdAb
    <3> QED BY <2>1, <3>1, SegmentEndInv
  <2>2. CASE ~ (q.s.mode = "PLAY" /\ ~ Listed(q))
    <3>1. CdAb(q, w) = q
      BY <1>0, <1>2, <2>2 DEF CdAb
    <3> QED BY <3>1
  <2> QED BY <2>1, <2>2
<1>3. CASE q.s.segplay = "AB"
  <2> DEFINE x == NoSegment(q)
  <2>1. CdAb(q, w) = SlStop(x, w, TRUE)
    BY <1>0, <1>3 DEF CdAb
  <2>2. Tidied(q, x) /\ Lists(x)
    BY <1>0, NoSegmentIs
  <2> HIDE DEF x
  <2>3. Stoppable(q, o)
    BY InvNearly
  <2>4. Stoppable(x, o)
    BY <2>2, <2>3, TidiedNearly
  <2> QED BY <2>1, <2>4, StopInv
<1> QED BY <1>0, <1>1, <1>2, <1>3, Parts DEF Curstat

-----------------------------------------------------------------------------
(* The warp slider. *)

(* A stop that is no command to the player. *)
LEMMA HaltInv ==
  ASSUME Sane, NEW q, NEW r, NEW o, Inv(q, o), On(q), StoppedAs = {"idle"},
         Halted(q, r)
  PROVE  Inv(r, o)
<1>1. /\ Typed(r) /\ r.s = q.s /\ r.m = q.m /\ r.app = q.app
      /\ r.d.pos = q.d.pos /\ r.d.end = q.d.end /\ (r.d = q.d \/ (q.d.st # "empty" /\ r.d.st = "idle"))
  BY DEF Halted
<1>2. CASE r.d = q.d
  BY <1>1, <1>2, SameInv DEF Typed
<1>3. CASE q.d.st # "empty" /\ r.d.st = "idle"
  <2>1. Unforced(r) /\ Timed(r, o) /\ Placed(r, o)
    BY <1>1, <1>3 DEF Inv, Unforced, Timed, Placed, On
  <2>2. Flags(r, o) /\ Lists(r) /\ Entered(r) /\ Quiet(r)
    BY <1>1, <1>3 DEF Inv, Ok, Flags, Lists, Listed, Entered, On, Quiet
  <2>3. InSeg(r) /\ Resumable(r, o)
    BY <1>1, <1>3 DEF InSeg, Resumable, Heard
  <2>4. InEntries(r, o)
    BY <1>1, <1>3
       DEF Inv, Ok, InEntries, InEntry, EntryOf, Within, On, Listed, Heard
  <2> QED BY <1>1, <2>1, <2>2, <2>3, <2>4 DEF Inv, Ok
<1> QED BY <1>1, <1>2, <1>3

(* A play that finds no disc. *)
LEMMA NoPlayInv ==
  ASSUME NEW q, NEW r, NEW o, Inv(q, o), q.d.st = "empty", Only(q, r, {}, Sav),
         r.s = q.s, r.d = q.d
  PROVE  Inv(r, o)
<1>1. /\ r.app = q.app /\ r.m.new_progshuf = q.m.new_progshuf
      /\ r.m.fake_stop = q.m.fake_stop
      /\ r.m.idx_pause = q.m.idx_pause /\ TimersOf(q, r)
      /\ r.m.searching = q.m.searching
      /\ r.m.search_id = q.m.search_id /\ r.m.ask = q.m.ask
  BY Fields DEF TimersOf, Sav
<1>2. Typed(r)
  BY DEF Only
<1>3. Unforced(r) /\ Timed(r, o) /\ Placed(r, o)
  BY <1>1 DEF Inv, Unforced, Timed, Placed, TimersOf
<1>4. Flags(r, o) /\ Lists(r) /\ Entered(r) /\ Quiet(r)
  BY <1>1 DEF Inv, Ok, Flags, Lists, Listed, Entered, On, Quiet, TimersOf
<1>5. InSeg(r) /\ Resumable(r, o)
  BY DEF InSeg, Resumable, Heard
<1>6. InEntries(r, o)
  BY <1>1 DEF Inv, Ok, InEntries, InEntry, EntryOf, Within, On, Listed, Heard
<1> QED BY <1>2, <1>3, <1>4, <1>5, <1>6 DEF Inv, Ok

(* The end of the warp slider's play, ... *)
WarpHigh(q) == IF Listed(q) THEN TrackEnd(q.s.cur_trk) ELSE Leadout

(* ... its start ... *)
WarpFrom(q, at) == IF q.s.segplay = "AB" THEN Greater(at, q.s.startpos) ELSE at

(* ... and its end in a segment. *)
WarpEnd(q) == IF q.s.segplay = "AB" THEN Lesser(WarpHigh(q), q.s.endpos) ELSE WarpHigh(q)

(* They are within what is being played. *)
LEMMA WarpIs ==
  ASSUME NEW q, NEW o, Inv(q, o), On(q), q.app = "xmcd", "warp" \in o,
         NEW at \in Nat,
         q.s.cur_trk \in Track, Toc[q.s.cur_trk] <= at
  PROVE  /\ WarpFrom(q, at) \in Nat /\ WarpEnd(q) \in Nat
         /\ Inside(q, WarpFrom(q, at), WarpEnd(q))
<1>0. q.s.startpos \in Nat /\ q.s.endpos \in Nat
  BY Parts DEF Inv, Curstat, Block
<1>1. TrackEnd(q.s.cur_trk) \in Nat /\ Leadout \in Nat
  BY TrackBounds, Discs
<1>2. WarpHigh(q) \in Nat /\ (Listed(q) => WarpHigh(q) = TrackEnd(q.s.cur_trk))
  BY <1>1 DEF WarpHigh
<1>3. WarpFrom(q, at) \in Nat /\ WarpEnd(q) \in Nat
  BY <1>0, <1>2 DEF WarpFrom, WarpEnd, Greater, Lesser
<1>4. q.s.segplay = "AB" => WarpEnd(q) <= q.s.endpos
  BY <1>0, <1>2 DEF WarpEnd, Lesser
<1>5. Listed(q) => WarpEnd(q) = TrackEnd(q.s.cur_trk) /\ WarpFrom(q, at) = at
  BY <1>2 DEF Inv, Ok, Lists, WarpEnd, WarpFrom
<1>6. Listed(q) /\ EntryOf(q) \in Audio => q.s.cur_trk = EntryOf(q)
  BY DEF Inv, Ok, InEntries, InEntry
<1> QED BY <1>3, <1>4, <1>5, <1>6 DEF Inside

(* ... and the play. *)
LEMMA PlayWarpInv ==
  ASSUME Sane, NEW q, NEW o, Plain(o), Inv(q, o), On(q), q.app = "xmcd",
         "warp" \in o, NEW at \in Nat,
         q.s.cur_trk \in Track, Toc[q.s.cur_trk] <= at, NEW w \in World
  PROVE  LET r == PlayWarp(q, w, at) IN Inv(r, o) /\ r.s = q.s
<1> DEFINE r == PlayWarp(q, w, at)
           from == WarpFrom(q, at)
           to == WarpEnd(q)
           d == DoPlayaudio(q, w, from, to)
<1>0. Typed(q) /\ StoppedAs = {"idle"} /\ q.s.cur_trk # 0
  BY Discs DEF Inv, Plain, Track
<1>1. r = IF to - MinPlayBlks < from THEN StartStop(q, w) ELSE KeepPaused(d, w)
  BY <1>0 DEF PlayWarp, WarpFrom, WarpEnd, WarpHigh
<1>2. from \in Nat /\ to \in Nat /\ Inside(q, from, to)
  BY WarpIs
<1> HIDE DEF from, to, r
<1>3. CASE to - MinPlayBlks < from
  <2>1. Halted(q, StartStop(q, w))
    BY <1>0, StartStopIs
  <2>2. Halted(q, r)
    BY <1>1, <1>3, <2>1
  <2>3. Inv(r, o) /\ r.s = q.s
    BY <1>0, <2>2, HaltInv DEF Halted
  <2> QED BY <2>3 DEF r
<1>4. CASE ~ (to - MinPlayBlks < from) /\ q.d.st # "empty"
  <2>1. Enters(q, KeepPaused(d, w), from, to)
    BY <1>0, <1>2, <1>4, KeepPausedIs
  <2>2. Enters(q, r, from, to)
    BY <1>1, <1>4, <2>1
  <2>3. r.s = q.s /\ Inv(r, o)
    BY <1>2, <2>2, EntersInv DEF Enters
  <2> QED BY <2>3 DEF r
<1>5. CASE ~ (to - MinPlayBlks < from) /\ q.d.st = "empty"
  <2>1. Played(q, PlayTo(q, w, from, to, to), from, to, to)
    BY <1>0, <1>2, PlayToIs
  <2>2. Played(q, d, from, to, to)
    BY <2>1 DEF DoPlayaudio
  <2> HIDE DEF d
  <2>3. d.ret = FALSE /\ d.d = q.d /\ d.s = q.s /\ Only(q, d, {}, Sav)
    BY <1>5, <2>2 DEF Played
  <2>4. r = d
    BY <1>1, <1>5, <2>3 DEF KeepPaused
  <2>5. Inv(r, o) /\ r.s = q.s
    BY <1>5, <2>3, <2>4, NoPlayInv
  <2> QED BY <2>5 DEF r
<1> QED BY <1>3, <1>4, <1>5

(* A track and a place in it are chosen. *)
Placing(q, t, off) ==
  [q EXCEPT !.s.cur_trk = t, !.s.off = off, !.s.pos = Lesser(Toc[t] + off, Leadout)]

(* Nothing else changes. *)
LEMMA PlacingIs ==
  ASSUME NEW q, Typed(q), NEW t \in Track, NEW off \in Nat,
         Toc[t] + off < TrackEnd(t)
  PROVE  LET r == Placing(q, t, off)
         IN  /\ Only(q, r, PlaceFields, {}) /\ r.d = q.d /\ r.ret = q.ret /\ r.m = q.m
             /\ r.s.cur_trk = t /\ r.s.off = off /\ r.s.pos = Toc[t] + off
             /\ r.s.pos \in Nat
<1> DEFINE pos == Lesser(Toc[t] + off, Leadout)
           S == [q.s EXCEPT !.cur_trk = t, !.off = off, !.pos = pos]
           r == Placing(q, t, off)
<1>0. /\ Toc[t] \in Nat /\ TrackEnd(t) \in Nat /\ TrackEnd(t) <= Leadout
      /\ Leadout \in Nat
  BY TrackBounds, Discs
<1>1. pos = Toc[t] + off /\ pos \in Block /\ off \in Block /\ pos \in Nat
  BY <1>0 DEF Lesser, Block
<1> HIDE DEF pos
<1>2. S \in Curstat
  BY <1>1, Parts, ZenonT(30) DEF Curstat
<1>3. SBut(q.s, S, PlaceFields) /\ S.cur_trk = t /\ S.off = off /\ S.pos = pos
  BY <1>1, Parts DEF Curstat, SBut, SFields, PlaceFields
<1>4. r = WithSM(q, S, q.m)
  BY Parts DEF Placing, WithSM, State, pos
<1>5. q.m \in Statics
  BY Parts
<1> HIDE DEF S, r
<1>6. /\ Typed(r) /\ r.app = q.app /\ r.s = S /\ r.m = q.m /\ r.d = q.d
      /\ r.ret = q.ret
  BY <1>2, <1>4, <1>5, WithSMIs
<1>7. Only(q, r, PlaceFields, {})
  BY <1>3, <1>6, SameM DEF Only
<1> QED BY <1>1, <1>3, <1>6, <1>7 DEF r

(* The warp slider. *)
LEMMA LeftInv ==
  ASSUME NEW q, NEW o, Inv(q, o), q.app = "xmcd"
  PROVE  LET r == NoList(q)
         IN  /\ Inv(r, o) /\ ~ Listed(r) /\ r.s.mode = q.s.mode /\ r.d = q.d /\ r.app = q.app
             /\ r.s.cur_trk = q.s.cur_trk
<1> SUFFICES ASSUME NEW r, r = NoList(q)
             PROVE  /\ Inv(r, o) /\ ~ Listed(r) /\ r.s.mode = q.s.mode
                    /\ r.d = q.d /\ r.app = q.app
                    /\ r.s.cur_trk = q.s.cur_trk
  OBVIOUS
<1>1. Typed(q) /\ Lists(q)
  BY DEF Inv, Ok
<1>2. /\ Tidied(q, r) /\ Lists(r) /\ ~ Listed(r) /\ r.s.onetrk = FALSE
      /\ r.s.segplay \in {q.s.segplay, "NONE"}
  BY <1>1, NoListIs
<1>3. Inv(r, o)
  BY <1>2, TidiedInv
<1>4. Only(q, r, ListFields, {}) /\ r.d = q.d
  BY <1>2 DEF Tidied
<1>5. r.s.mode = q.s.mode /\ r.app = q.app /\ r.s.cur_trk = q.s.cur_trk
  BY <1>4, Fields DEF ListFields
<1> QED BY <1>2, <1>3, <1>4, <1>5

(* The slider is let go at a place of the track, ... *)
LEMMA WarpToInv ==
  ASSUME Sane, NEW q, NEW o, Plain(o), Inv(q, o), On(q), q.app = "xmcd",
         "warp" \in o,
         NEW t \in Track, NEW off \in Nat, Toc[t] + off < TrackEnd(t),
         NEW w \in World,
         Listed(q) => q.s.cur_trk = t
  PROVE  LET r == WarpTo(q, w, t, off)
         IN  Inv(r, o) /\ r.s.cur_trk = t /\ (Listed(r) => Listed(q)) /\ r.s.mode = q.s.mode
             /\ r.app = q.app
<1> DEFINE y == Placing(q, t, off)
           r == PlayWarp(y, w, y.s.pos)
<1>1. /\ Only(q, y, PlaceFields, {}) /\ y.d = q.d
      /\ y.s.cur_trk = t /\ y.s.pos = Toc[t] + off /\ y.s.pos \in Nat
  BY PlacingIs DEF Inv
<1> HIDE DEF y
<1>2. /\ y.s.mode = q.s.mode /\ y.s.program = q.s.program
      /\ y.s.shuffle = q.s.shuffle /\ y.app = q.app
  BY <1>1, Fields DEF PlaceFields
<1>3. Only(q, y, {"cur_trk", "pos", "off", "startpos"}, Idle)
  BY <1>1 DEF Only, SBut, MBut, SFields, PlaceFields
<1>4. ~ (q.s.mode \in {"STOP", "NODISC"})
  BY DEF On
<1>5. Inv(y, o)
  BY <1>1, <1>3, <1>4, MoveInv
<1>6. On(y)
  BY <1>2 DEF On
<1>7. Toc[y.s.cur_trk] <= y.s.pos /\ y.s.cur_trk \in Track
  BY <1>1, TrackBounds
<1>8. Inv(r, o) /\ r.s = y.s
  BY <1>1, <1>2, <1>5, <1>6, <1>7, PlayWarpInv
<1>9. WarpTo(q, w, t, off) = r
  <2>1. WarpTo(q, w, t, off) = SlWarp(y, w)
    BY DEF WarpTo, y, Placing
  <2>2. SlWarp(y, w) = PlayWarp(Unsample(y, w), w, y.s.pos)
    BY <1>6 DEF SlWarp, Active, On
  <2>3. Unsample(y, w) = y
    BY <1>6 DEF Unsample, On
  <2> QED BY <2>1, <2>2, <2>3
<1> HIDE DEF r
<1>10. r.app = q.app
  BY <1>2, <1>5, <1>8 DEF Inv, Ok, Flags
<1> QED BY <1>1, <1>2, <1>8, <1>9, <1>10 DEF Listed

(* ... and as a whole. *)
LEMMA WarpInv ==
  ASSUME Sane, NEW q, NEW o, Plain(o), Inv(q, o), q.app = "xmcd", "warp" \in o,
         q.s.mode # "STOP",
         NEW t \in Track, NEW off \in 0..TrackEnd(t) - Toc[t] - 1,
         NEW w \in World
  PROVE  Inv(CdWarp(q, w, t, off), o)
<1> DEFINE x == IF t # q.s.cur_trk THEN NoList(q) ELSE q
           y == WarpTo(x, w, t, off)
           r == Shown(y, q.s.cur_trk)
<1>1. CASE q.s.mode = "NODISC"
  BY <1>1 DEF CdWarp
<1>2. CASE q.s.mode # "NODISC"
  <2>1. On(q)
    BY <1>2, Parts DEF Inv, Ok, Flags, Plain, On, Curstat
  <2>2. CdWarp(q, w, t, off) = r
    BY <1>2 DEF CdWarp, Shown
  <2>3. /\ Inv(x, o) /\ x.s.mode = q.s.mode /\ x.app = q.app
        /\ x.s.cur_trk = q.s.cur_trk
        /\ Listed(x) => x.s.cur_trk = t
    BY LeftInv
  <2> HIDE DEF x
  <2>4. off \in Nat /\ Toc[t] + off < TrackEnd(t) /\ On(x)
    BY <2>1, <2>3, TrackBounds DEF On
  <2>5. Inv(y, o) /\ y.s.cur_trk = t /\ (Listed(y) => Listed(x)) /\ y.app = "xmcd" /\ y.s.mode = q.s.mode
    BY <2>3, <2>4, WarpToInv
  <2> HIDE DEF y
  <2>6. q.s.cur_trk \in {0} \cup Track /\ Typed(y)
    BY <2>5, Parts DEF Inv, Curstat
  <2>7. Only(y, r, {"cur_trk"}, {}) /\ r.d = y.d /\ r.s.cur_trk = q.s.cur_trk
    BY <2>6, ShownIs
  <2> HIDE DEF r
  <2>8. Only(y, r, {"cur_trk", "pos", "off", "startpos"}, Idle)
    BY <2>7 DEF Only, SBut, MBut
  <2>9. Listed(y) => r.s.cur_trk = y.s.cur_trk
    BY <2>3, <2>5, <2>7
  <2>10. y.s.mode \notin {"STOP", "NODISC"}
    BY <1>2, <2>5
  <2>11. Inv(r, o)
    BY <2>5, <2>7, <2>8, <2>9, <2>10, MoveInv
  <2> QED BY <2>2, <2>11
<1> QED BY <1>1, <1>2

-----------------------------------------------------------------------------
(* The keypad. *)

(* A stopped state shows another place. *)
LEMMA MovedNearly ==
  ASSUME NEW q, NEW r, NEW o, Nearly(q, o), Only(q, r, PlaceFields, {}),
         r.d = q.d, r.m = q.m,
         q.app = "xmcd" => r.s.off = 0
  PROVE  /\ Nearly(r, o) /\ r.s.mode = q.s.mode /\ r.app = q.app
         /\ (Listed(r) <=> Listed(q)) /\ r.s.segplay = q.s.segplay /\ r.s.program = q.s.program
         /\ r.s.shuffle = q.s.shuffle /\ r.s.plan = q.s.plan
         /\ r.s.order = q.s.order
<1>1. /\ r.app = q.app /\ r.s.mode = q.s.mode /\ r.s.segplay = q.s.segplay
      /\ r.s.program = q.s.program
      /\ r.s.onetrk = q.s.onetrk /\ r.s.shuffle = q.s.shuffle
      /\ r.s.plan = q.s.plan
      /\ r.s.order = q.s.order
  BY Fields DEF PlaceFields
<1>2. Typed(r)
  BY DEF Only
<1>3. Flags(r, o) /\ Lists(r)
  BY <1>1 DEF Nearly, Stoppable, Flags, Lists, Listed
<1>4. Resumable(r, o) /\ Unforced(r) /\ Ticks(r) /\ Timed(r, o) /\ Placed(r, o)
  BY <1>1 DEF Nearly, Stoppable, Resumable, Unforced, Ticks, Timed, Placed
<1> QED BY <1>1, <1>2, <1>3, <1>4 DEF Nearly, Stoppable, Listed

(* The play button after the choice of a track. *)
LEMMA PlayFromInv ==
  ASSUME Sane, NEW q, NEW o, Plain(o), NEW t \in Audio, NEW w \in World,
         q.app = "xmcd",
         \/ Inv(q, o) /\ q.s.mode \in {"STOP", "NODISC"}
         \/ Nearly(q, o) /\ q.s.mode = "STOP" /\ ~ Listed(q) /\ q.s.segplay # "AB"
  PROVE  Inv(PlayFrom(q, w, t, 0), o)
<1> DEFINE y == Placing(q, t, 0)
<1>0. /\ t \in Track /\ t \in Nat /\ t # 0 /\ Toc[t] + 0 < TrackEnd(t)
      /\ Toc[t] + 0 < Clip(Leadout)
  <2>1. t \in Track
    BY Discs
  <2>2. t \in Nat /\ t # 0
    BY <2>1, Discs DEF Track
  <2>3. Toc[t] \in Nat /\ Toc[t] < TrackEnd(t) /\ Toc[t] < Clip(Leadout)
    BY <2>1, TrackBounds, LongTrack
  <2>4. Toc[t] + 0 = Toc[t]
    BY <2>3
  <2> QED BY <2>1, <2>2, <2>3, <2>4
<1>1. PlayFrom(q, w, t, 0) = CdPlayPause(y, w)
  BY DEF PlayFrom, Placing
<1>2. Typed(q)
  BY DEF Inv, Nearly, Stoppable
<1>3. /\ Only(q, y, PlaceFields, {}) /\ y.d = q.d /\ y.m = q.m
      /\ y.s.cur_trk = t /\ y.s.off = 0
  BY <1>0, <1>2, PlacingIs
<1> HIDE DEF y
<1>4. CASE Inv(q, o) /\ q.s.mode \in {"STOP", "NODISC"}
  <2>1. Only(q, y, {"cur_trk", "pos", "off", "startpos"}, Idle)
    BY <1>3 DEF Only, SBut, MBut, SFields, PlaceFields
  <2>2. ~ On(q)
    BY <1>4 DEF On
  <2>3. Inv(y, o)
    BY <1>3, <1>4, <2>1, <2>2, MoveInv
  <2> QED BY <1>1, <2>3, PlayButtonInv
<1>5. CASE Nearly(q, o) /\ q.s.mode = "STOP" /\ ~ Listed(q) /\ q.s.segplay # "AB"
  <2>1. /\ Nearly(y, o) /\ y.s.mode = q.s.mode /\ (Listed(y) <=> Listed(q)) /\ y.s.segplay = q.s.segplay
    BY <1>3, <1>5, MovedNearly
  <2>2. StartTrack(y) = t
    BY <1>0, <1>3 DEF StartTrack
  <2>3. Certain(y)
    BY <1>0, <1>3, <1>5, <2>1, <2>2 DEF Certain
  <2>4. Sure(y)
    BY <1>5, <2>1, <2>3 DEF Sure, Listed
  <2> QED BY <1>1, <1>5, <2>1, <2>4, PlayButtonInv
<1> QED BY <1>4, <1>5

(* A stop that keeps the list. *)
Kept(q, r, o) ==
  /\ Nearly(r, o) /\ r.s.mode = "STOP" /\ r.s.off = 0 /\ r.s.cur_trk = 0
  /\ r.d.st # "empty"
  /\ (Listed(r) => Listed(q) /\ r.s.order = q.s.order /\ r.s.plan = q.s.plan)
  /\ r.s.segplay = q.s.segplay /\ r.app = q.app /\ r.s.shuffle = q.s.shuffle
  /\ r.m.ask = q.m.ask

(* slioc_stop of a drive that goes on. *)
LEMMA StopKept ==
  ASSUME Sane, NEW q, NEW o, Stoppable(q, o), NEW w \in World, q.d.st # "empty"
  PROVE  Kept(q, SlStop(q, w, FALSE), o)
<1> SUFFICES ASSUME NEW r, r = SlStop(q, w, FALSE)
             PROVE  Kept(q, r, o)
  OBVIOUS
<1>1. StopsTo(q, FALSE, r)
  BY SlStopIs DEF Stoppable
<1>2. FALSE \in BOOLEAN
  OBVIOUS
<1>3. Nearly(r, o) /\ r.s.mode = "STOP" /\ r.s.off = 0 /\ r.d.st # "empty"
  BY <1>1, <1>2, StopNearly
<1>4. Listed(r) => Listed(q) /\ r.s.order = q.s.order /\ r.s.plan = q.s.plan
  BY <1>1, <1>2, StopNearly
<1>5. /\ r.s.segplay = q.s.segplay /\ r.app = q.app /\ r.s.shuffle = q.s.shuffle
      /\ r.m.ask = q.m.ask
  BY <1>1, <1>2, StopNearly
<1>6. r.s.cur_trk = 0
  BY <1>1 DEF StopsTo
<1> QED BY <1>3, <1>4, <1>5, <1>6 DEF Kept

(* The keypad. *)
LEMMA AnewInv ==
  ASSUME Sane, NEW q, NEW o, Plain(o), Inv(q, o), ~ Listed(q), q.app = "xmcd",
         NEW t \in Audio,
         NEW w \in World
  PROVE  Inv(PlayFrom(SlStop(NoAb(q), w, FALSE), w, t, 0), o)
<1> DEFINE x == NoAb(q)
           s == SlStop(x, w, FALSE)
<1>1. Inv(x, o) /\ Only(q, x, {"segplay"}, {}) /\ x.s.segplay # "AB"
  BY NoAbInv
<1> HIDE DEF x
<1>2. x.s.program = q.s.program /\ x.s.shuffle = q.s.shuffle /\ x.app = q.app
  BY <1>1, Fields
<1>3. ~ Listed(x) /\ Stoppable(x, o) /\ Typed(x)
  BY <1>1, <1>2, InvNearly DEF Listed, Inv
<1>4. CASE x.d.st = "empty"
  <2>1. Inv(s, o) /\ s.s.mode = "NODISC" /\ s.app = x.app
    BY <1>3, <1>4, StopEmpty
  <2> HIDE DEF s
  <2>1a. Inv(s, o) /\ s.s.mode \in {"STOP", "NODISC"} /\ s.app = "xmcd"
    BY <1>2, <2>1
  <2>2. Inv(PlayFrom(s, w, t, 0), o)
    BY <2>1a, PlayFromInv
  <2> QED BY <2>2 DEF s, x
<1>5. CASE x.d.st # "empty"
  <2>1. Kept(x, s, o)
    BY <1>3, <1>5, StopKept
  <2> HIDE DEF s
  <2>4. ~ Listed(s) /\ s.s.segplay # "AB" /\ s.app = "xmcd"
    BY <1>1, <1>2, <1>3, <2>1 DEF Kept
  <2>5. Inv(PlayFrom(s, w, t, 0), o)
    BY <2>1, <2>4, PlayFromInv DEF Kept
  <2> QED BY <2>5 DEF s, x
<1> QED BY <1>4, <1>5

(* A track is entered. *)
LEMMA KeypadInv ==
  ASSUME Sane, NEW q, NEW o, Plain(o), Inv(q, o), q.app = "xmcd",
         NEW t \in Audio, NEW w \in World
  PROVE  Inv(KeypadEnter(q, w, t, 0), o)
<1> DEFINE x == NoList(q)
<1>1. CASE q.s.mode = "NODISC"
  BY <1>1 DEF KeypadEnter
<1>2. CASE q.s.mode # "NODISC"
  <2>1. KeypadEnter(q, w, t, 0) = KeypadTrack(x, w, t, 0)
    BY <1>2 DEF KeypadEnter
  <2>2. Inv(x, o) /\ ~ Listed(x) /\ x.s.mode = q.s.mode /\ x.app = "xmcd"
    BY LeftInv
  <2>3. x.s.mode \in {"STOP", "PLAY", "PAUSE", "SAMPLE"}
    BY <1>2, <2>2, Parts DEF Inv, Curstat
  <2> HIDE DEF x
  <2>4. Inv(PlayFrom(SlStop(NoAb(x), w, FALSE), w, t, 0), o)
    BY <2>2, AnewInv
  <2>5. CASE x.s.mode \in {"PLAY", "SAMPLE"}
    BY <2>1, <2>4, <2>5 DEF KeypadTrack
  <2>6. CASE x.s.mode = "PAUSE"
    <3>1. KeypadTrack(x, w, t, 0) = CdPlayPause(PlayFrom(SlStop(NoAb(x), w, FALSE), w, t, 0), w)
      BY <2>6 DEF KeypadTrack
    <3> QED BY <2>1, <2>4, <3>1, PlayButtonInv
  <2>7. CASE x.s.mode = "STOP"
    <3>1. KeypadTrack(x, w, t, 0) = PlayFrom(x, w, t, 0)
      BY <2>7 DEF KeypadTrack
    <3>2. Inv(PlayFrom(x, w, t, 0), o)
      BY <2>2, <2>7, PlayFromInv
    <3> QED BY <2>1, <3>1, <3>2
  <2> QED BY <2>3, <2>5, <2>6, <2>7
<1> QED BY <1>1, <1>2

-----------------------------------------------------------------------------
(* Shuffle, with its question. *)

(* The question of the program. *)
Asked(q, a) == [q EXCEPT !.m.ask = a]

(* The question is asked or answered. *)
LEMMA AskedInv ==
  ASSUME NEW q, NEW o, Inv(q, o),
         NEW a \in {"no", "NODISC", "STOP", "PLAY", "PAUSE", "SAMPLE"},
         q.app = "cda" => a = "no"
  PROVE  LET r == Asked(q, a) IN Inv(r, o) /\ r.s = q.s /\ r.d = q.d /\ r.app = q.app
<1> DEFINE M == [q.m EXCEPT !.ask = a]
           r == Asked(q, a)
<1>0. Typed(q) /\ q.s \in Curstat
  BY Parts DEF Inv
<1>1. M \in Statics /\ MBut(q.m, M, {"ask"}) /\ M.ask = a
  BY <1>0, Parts DEF Statics, MBut, MFields
<1>2. r = WithSM(q, q.s, M)
  BY <1>0, Parts DEF Asked, WithSM, State
<1> HIDE DEF M, r
<1>3. Typed(r) /\ r.app = q.app /\ r.s = q.s /\ r.m = M /\ r.d = q.d
  BY <1>0, <1>1, <1>2, WithSMIs
<1>4. Only(q, r, {}, Settings) /\ r.m.ask = a
  BY <1>1, <1>3, SameS DEF Only, MBut, Settings
<1>5. r.m.new_progshuf = q.m.new_progshuf
  BY <1>1, <1>3 DEF MBut, MFields
<1>6. Lists(r)
  BY <1>3 DEF Inv, Ok, Lists, Listed
<1>7. q.app = "cda" => r.s.segplay = "NONE" /\ r.s.onetrk = FALSE /\ r.m.ask = "no"
  BY <1>3, <1>4 DEF Inv, Ok, Flags
<1>8. On(q) /\ Listed(r) /\ r.m.new_progshuf => r.s.repeat /\ q.m.new_progshuf
  BY <1>3, <1>5 DEF Inv, Ok, Entered, Listed
<1>9. Listed(r) => Listed(q)
  BY <1>3 DEF Listed
<1>10. Inv(r, o)
  BY <1>3, <1>4, <1>6, <1>7, <1>8, <1>9, SettingInv
<1> QED BY <1>3, <1>10 DEF r

(* The shuffle takes the place of a program. *)
ShuffleSet(q) == SlShuffle(NoSegment(IF q.s.program THEN Clrpgm(q) ELSE q), TRUE)

(* There is no program then. *)
LEMMA ShuffleSetIs ==
  ASSUME NEW q, Typed(q), Lists(q), q.app = "xmcd"
  PROVE  LET r == ShuffleSet(q)
         IN  /\ Tidied(q, r) /\ Lists(r) /\ r.s.program = FALSE /\ r.s.segplay = "NONE"
             /\ On(q) /\ Listed(r) => Listed(q) /\ r.s.order = q.s.order /\ r.s.prog_cnt = q.s.prog_cnt
             /\ q.s.mode \in {"STOP", "NODISC"} => r.s.shuffle = TRUE
<1> DEFINE x == IF q.s.program THEN Clrpgm(q) ELSE q
           y == NoSegment(x)
           r == SlShuffle(y, TRUE)
<1>1. /\ Tidied(q, x) /\ Lists(x) /\ x.s.program = FALSE
      /\ Listed(x) => x = q
  <2>1. CASE q.s.program
    <3>1. Dropped(q, Clrpgm(q)) /\ (q.s.shuffle = FALSE => Clrpgm(q).s.shuffle = FALSE)
      BY ClrpgmIs
    <3>2. q.s.shuffle = FALSE
      BY <2>1, Parts DEF Lists, Curstat
    <3>3. x = Clrpgm(q)
      BY <2>1
    <3> HIDE DEF x
    <3> QED BY <3>1, <3>2, <3>3 DEF Dropped, Listed
  <2>2. CASE ~ q.s.program
    <3>1. x = q
      BY <2>2
    <3>2. q.s.program = FALSE
      BY <2>2, Parts DEF Curstat
    <3>3. Tidied(q, q)
      BY TidiedNone
    <3> HIDE DEF x
    <3> QED BY <3>1, <3>2, <3>3
  <2> QED BY <2>1, <2>2
<1> HIDE DEF x
<1>2. Typed(x)
  BY <1>1 DEF Tidied, Only
<1>3. /\ Tidied(x, y) /\ Only(x, y, {"segplay"}, {}) /\ y.s.segplay = "NONE"
      /\ Lists(y)
  BY <1>1, <1>2, NoSegmentIs
<1> HIDE DEF y
<1>4. y.s.program = x.s.program /\ y.s.shuffle = x.s.shuffle /\ y.s.order = x.s.order
      /\ y.s.prog_cnt = x.s.prog_cnt /\ Typed(y)
  BY <1>3, Fields DEF Only
<1>5. y.s.program = FALSE /\ TRUE \in BOOLEAN
  BY <1>1, <1>4
<1>6. Shuffled(y, TRUE, r)
  BY <1>3, <1>4, <1>5, SlShuffleIs
<1> HIDE DEF r
<1>7. Tidied(q, y)
  BY <1>1, <1>3, TidiedTwice
<1>8. Tidied(q, r)
  BY <1>6, <1>7, TidiedTwice DEF Shuffled
<1>9. y.s.mode = q.s.mode
  BY <1>7, Fields DEF Tidied, ListFields
<1>10. On(y) <=> On(q)
  BY <1>9 DEF On
<1>11. Lists(r) /\ r.s.program = FALSE /\ r.s.segplay = "NONE"
  BY <1>3, <1>6 DEF Shuffled
<1>12. q.s.mode \in {"STOP", "NODISC"} => r.s.shuffle = TRUE
  BY <1>3, <1>6, <1>9 DEF Shuffled
<1>13. On(q) /\ Listed(r) => Listed(y) /\ r.s.order = y.s.order /\ r.s.prog_cnt = y.s.prog_cnt
  BY <1>6, <1>10 DEF Shuffled
<1>14. Listed(y) => Listed(x)
  BY <1>4 DEF Listed
<1>15. On(q) /\ Listed(r) => Listed(q) /\ r.s.order = q.s.order /\ r.s.prog_cnt = q.s.prog_cnt
  BY <1>1, <1>4, <1>13, <1>14
<1>16. ShuffleSet(q) = r
  BY DEF ShuffleSet, r, y, x
<1> QED BY <1>8, <1>11, <1>12, <1>15, <1>16

(* It keeps the invariant. *)
LEMMA ShuffleSetInv ==
  ASSUME NEW q, NEW o, Inv(q, o), q.app = "xmcd"
  PROVE  Inv(ShuffleSet(q), o)
<1> DEFINE r == ShuffleSet(q)
<1>1. Typed(q) /\ Lists(q)
  BY DEF Inv, Ok
<1>2. /\ Tidied(q, r) /\ Lists(r) /\ r.s.segplay = "NONE"
      /\ On(q) /\ Listed(r) => Listed(q) /\ r.s.order = q.s.order /\ r.s.prog_cnt = q.s.prog_cnt
  BY <1>1, ShuffleSetIs
<1> HIDE DEF r
<1>3. Inv(r, o)
  BY <1>2, TidiedInv
<1> QED BY <1>3 DEF r

(* The shuffle button. *)
LEMMA ShuffleInv ==
  ASSUME NEW q, NEW o, Inv(q, o), q.app = "xmcd"
  PROVE  Inv(CdShuffle(q), o)
<1>0. /\ Typed(q) /\ Lists(q) /\ q.s.mode \in Modes /\ q.s.shuffle \in BOOLEAN
      /\ q.s.program \in BOOLEAN
  BY Parts DEF Inv, Ok, Curstat, Modes
<1> DEFINE asks == q.s.mode \in Active \/ q.s.segplay = "AB" \/ (q.s.program /\ ~ q.s.onetrk)
<1>1. CASE q.s.shuffle
  <2> DEFINE r == SlShuffle(q, FALSE)
  <2>1. CdShuffle(q) = r
    BY <1>1 DEF CdShuffle
  <2>2. q.s.program = FALSE /\ FALSE \in BOOLEAN
    BY <1>0, <1>1 DEF Lists
  <2>3. Shuffled(q, FALSE, r)
    BY <1>0, <2>2, SlShuffleIs
  <2> HIDE DEF r
  <2>4. /\ Tidied(q, r) /\ Lists(r) /\ ~ Listed(r)
        /\ r.s.segplay \in {q.s.segplay, "NONE"}
    BY <2>3 DEF Shuffled, Listed
  <2>5. Inv(r, o)
    BY <2>4, TidiedInv
  <2> QED BY <2>1, <2>5
<1>2. CASE ~ q.s.shuffle /\ asks
  <2>1. CdShuffle(q) = Asked(q, q.s.mode)
    BY <1>2 DEF CdShuffle, Asked
  <2>2. q.s.mode \in {"no", "NODISC", "STOP", "PLAY", "PAUSE", "SAMPLE"}
    BY <1>0 DEF Modes
  <2> QED BY <2>1, <2>2, AskedInv
<1>3. CASE ~ q.s.shuffle /\ ~ asks
  <2>1. CdShuffle(q) = ShuffleSet(q)
    BY <1>3 DEF CdShuffle, ShuffleSet
  <2> QED BY <2>1, ShuffleSetInv
<1> QED BY <1>1, <1>2, <1>3

(* The answer to its question. *)
LEMMA RestartInv ==
  ASSUME Sane, NEW q, NEW o, Plain(o), Inv(q, o), q.app = "xmcd",
         NEW w \in World
  PROVE  Inv(CdPlayPause(Shown(ShuffleSet(SlStop(q, w, FALSE)), 0), w), o)
<1> DEFINE s == SlStop(q, w, FALSE)
           x == ShuffleSet(s)
           y == Shown(x, 0)
<1>0. Stoppable(q, o)
  BY InvNearly
<1>1. CASE q.d.st = "empty"
  <2>1. Inv(s, o) /\ s.s.mode = "NODISC" /\ s.app = "xmcd"
    BY <1>0, <1>1, StopEmpty
  <2> HIDE DEF s
  <2>2. Inv(x, o)
    BY <2>1, ShuffleSetInv
  <2>3. Typed(s) /\ Lists(s)
    BY <2>1 DEF Inv, Ok
  <2>4. Tidied(s, x)
    BY <2>1, <2>3, ShuffleSetIs
  <2> HIDE DEF x
  <2>5. ~ On(x)
    <3>1. x.s.mode = s.s.mode
      BY <2>4, Fields DEF Tidied, ListFields
    <3> QED BY <2>1, <3>1 DEF On
  <2>6. Inv(y, o)
    BY <2>2, <2>5, ShownInv
  <2> HIDE DEF y
  <2>7. Inv(CdPlayPause(y, w), o)
    BY <2>6, PlayButtonInv
  <2> QED BY <2>7 DEF y, x, s
<1>2. CASE q.d.st # "empty"
  <2>1. Nearly(s, o) /\ s.s.mode = "STOP" /\ s.s.off = 0 /\ s.app = "xmcd"
    <3>1. Kept(q, s, o)
      BY <1>0, <1>2, StopKept
    <3> HIDE DEF s
    <3> QED BY <3>1 DEF Kept
  <2> HIDE DEF s
  <2>2. Typed(s) /\ Lists(s)
    BY <2>1 DEF Nearly, Stoppable
  <2>3. /\ Tidied(s, x) /\ Lists(x) /\ x.s.program = FALSE /\ x.s.shuffle = TRUE
    BY <2>1, <2>2, ShuffleSetIs
  <2> HIDE DEF x
  <2>4. /\ Nearly(x, o) /\ x.s.mode = s.s.mode /\ x.s.off = s.s.off
        /\ x.app = s.app
    BY <2>1, <2>3, TidiedNearly
  <2>5. Typed(x)
    BY <2>4 DEF Nearly, Stoppable
  <2>6. Only(x, y, {"cur_trk"}, {}) /\ y.d = x.d /\ y.m = x.m
    BY <2>5, ShownIs
  <2> HIDE DEF y
  <2>7. y.s.off = x.s.off
    BY <2>6, Fields
  <2>8. Only(x, y, PlaceFields, {})
    BY <2>6 DEF Only, SBut, PlaceFields
  <2>9. /\ Nearly(y, o) /\ y.s.mode = x.s.mode /\ y.s.program = x.s.program
        /\ y.s.shuffle = x.s.shuffle
    BY <2>1, <2>4, <2>6, <2>7, <2>8, MovedNearly
  <2>10. Sure(y) /\ y.s.mode = "STOP"
    BY <2>1, <2>3, <2>4, <2>7, <2>9 DEF Sure, Certain, Listed
  <2>11. Inv(CdPlayPause(y, w), o)
    BY <2>9, <2>10, PlayButtonInv
  <2> QED BY <2>11 DEF y, x, s
<1> QED BY <1>1, <1>2

(* The question is answered "yes". *)
LEMMA ShuffleYesInv ==
  ASSUME Sane, NEW q, NEW o, Plain(o), Inv(q, o), q.app = "xmcd",
         NEW w \in World
  PROVE  Inv(ShuffleYes(q, w), o)
<1> DEFINE a == Asked(q, "no")
           c == CdPlayPause(Shown(ShuffleSet(SlStop(a, w, FALSE)), 0), w)
<1>1. Inv(a, o) /\ a.app = "xmcd"
  BY AskedInv
<1>2. ShuffleYes(q, w) = CASE q.m.ask = "PAUSE" -> CdPlayPause(c, w)
                           [] q.m.ask \in {"PLAY", "SAMPLE"} -> c
                           [] OTHER -> ShuffleSet(a)
  BY DEF ShuffleYes, ShuffleSet, Shown, Asked
<1> HIDE DEF a
<1>3. Inv(c, o)
  BY <1>1, RestartInv
<1> HIDE DEF c
<1>4. Inv(CdPlayPause(c, w), o)
  BY <1>3, PlayButtonInv
<1>5. Inv(ShuffleSet(a), o)
  BY <1>1, ShuffleSetInv
<1>6. CASE q.m.ask = "PAUSE"
  BY <1>2, <1>4, <1>6
<1>7. CASE q.m.ask \in {"PLAY", "SAMPLE"}
  BY <1>2, <1>3, <1>7
<1>8. CASE q.m.ask \notin {"PAUSE", "PLAY", "SAMPLE"}
  BY <1>2, <1>5, <1>8
<1> QED BY <1>6, <1>7, <1>8

-----------------------------------------------------------------------------
(* The program and track windows. *)

(* The text of the program. *)
LEMMA ProgramInv ==
  ASSUME NEW q, NEW o, Inv(q, o), q.app = "xmcd", q.s.mode = "STOP",
         NEW plan \in Seq(Track)
  PROVE  Inv(PgmseqTxtchg(q, plan), o)
<1> DEFINE r == PgmseqTxtchg(q, plan)
<1>1. Typed(q) /\ Lists(q) /\ Nearly(q, o) /\ Quiet(q)
  BY InvNearly DEF Inv, Ok
<1>2. Tidied(q, r) /\ Lists(r)
  BY <1>1, TextIs
<1> HIDE DEF r
<1>3. Nearly(r, o) /\ Quiet(r) /\ r.s.mode = q.s.mode
  BY <1>1, <1>2, TidiedNearly
<1>4. Inv(r, o)
  BY <1>3, QuietInv
<1> QED BY <1>4 DEF r

(* A list of one track takes the place of everything. *)
OneTrack(q, t) == [q EXCEPT !.s.onetrk = TRUE, !.s.program = TRUE, !.s.plan = <<t>>]

(* The list is that track. *)
LEMMA OneTrackIs ==
  ASSUME NEW q, Typed(q), NEW t \in Track, Lists(q), q.s.shuffle = FALSE,
         q.s.segplay = "NONE",
         q.s.mode # "SAMPLE"
  PROVE  LET r == OneTrack(q, t)
         IN  Tidied(q, r) /\ Lists(r) /\ r.s.program = TRUE /\ r.s.plan = <<t>>
<1> DEFINE S == [q.s EXCEPT !.onetrk = TRUE, !.program = TRUE, !.plan = <<t>>]
           r == OneTrack(q, t)
<1>1. <<t>> \in Seq(Track) /\ <<t>> # Nil
  BY DEF Nil
<1>2. S \in Curstat
  BY <1>1, Parts DEF Curstat
<1>3. /\ SBut(q.s, S, {"onetrk", "program", "plan"})
      /\ S.onetrk = TRUE /\ S.program = TRUE /\ S.plan = <<t>>
  BY <1>1, Parts DEF Curstat, SBut, SFields
<1>4. r = WithSM(q, S, q.m)
  BY Parts DEF OneTrack, WithSM, State
<1>5. q.m \in Statics
  BY Parts
<1> HIDE DEF S, r
<1>6. Typed(r) /\ r.app = q.app /\ r.s = S /\ r.m = q.m /\ r.d = q.d
  BY <1>2, <1>4, <1>5, WithSMIs
<1>7. Only(q, r, {"onetrk", "program", "plan"}, {})
  BY <1>3, <1>6, SameM DEF Only
<1>8. /\ r.s.segplay = q.s.segplay /\ r.s.shuffle = q.s.shuffle
      /\ r.s.mode = q.s.mode
  BY <1>7, Fields
<1>9. Lists(r)
  BY <1>1, <1>3, <1>6, <1>8 DEF Lists, Listed
<1>10. Tidied(q, r)
  BY <1>6, <1>7 DEF Tidied, Only, SBut, ListFields
<1> QED BY <1>3, <1>6, <1>9, <1>10 DEF r

(* All lists and segments are gone. *)
Emptied(q) == NoSegment(NoShuffle(ProgClear(ClearText(q))))

(* They are. *)
LEMMA EmptiedIs ==
  ASSUME NEW q, Typed(q), Lists(q), q.app = "xmcd"
  PROVE  LET r == Emptied(q)
         IN  Tidied(q, r) /\ Lists(r) /\ r.s.shuffle = FALSE /\ r.s.segplay = "NONE"
<1> DEFINE a == ClearText(q)
           b == ProgClear(a)
           c == NoShuffle(b)
           r == NoSegment(c)
<1>1. Dropped(q, a)
  BY ClearTextIs
<1> HIDE DEF a
<1>2. Tidied(q, a) /\ Typed(a) /\ Lists(a) /\ a.s.onetrk = FALSE
  BY <1>1 DEF Dropped, Tidied, Only
<1>3. Dropped(a, b)
  BY <1>2, ProgClearDrops
<1> HIDE DEF b
<1>4. Tidied(a, b) /\ Typed(b) /\ Lists(b)
  BY <1>3 DEF Dropped, Tidied, Only
<1>5. Tidied(b, c) /\ Lists(c) /\ c.s.shuffle = FALSE
  BY <1>4, NoShuffleIs
<1> HIDE DEF c
<1>6. Typed(c)
  BY <1>5 DEF Tidied, Only
<1>7. /\ Tidied(c, r) /\ Only(c, r, {"segplay"}, {}) /\ r.s.segplay = "NONE"
      /\ Lists(r)
  BY <1>5, <1>6, NoSegmentIs
<1> HIDE DEF r
<1>8. r.s.shuffle = c.s.shuffle
  BY <1>7, Fields
<1>9. Tidied(q, b)
  BY <1>2, <1>4, TidiedTwice
<1>10. Tidied(q, c)
  BY <1>5, <1>9, TidiedTwice
<1>11. Tidied(q, r)
  BY <1>7, <1>10, TidiedTwice
<1>12. Emptied(q) = r
  BY DEF Emptied, r, c, b, a
<1> QED BY <1>5, <1>7, <1>8, <1>11, <1>12

(* A double click in the track list, of a player that has been stopped, ... *)
LEMMA OneTrackInv ==
  ASSUME Sane, NEW q, NEW o, Plain(o), NEW t \in Audio, NEW w \in World,
         q.app = "xmcd",
         \/ Inv(q, o) /\ q.s.mode \in {"STOP", "NODISC"}
         \/ Nearly(q, o) /\ q.s.mode = "STOP" /\ q.s.off = 0
  PROVE  Inv(CdPlayPause(OneTrack(Emptied(q), t), w), o)
<1> DEFINE x == Emptied(q)
           y == OneTrack(x, t)
<1>1. Typed(q) /\ Lists(q) /\ Nearly(q, o)
  <2>1. Nearly(q, o)
    BY InvNearly
  <2> QED BY <2>1 DEF Nearly, Stoppable
<1>2. Tidied(q, x) /\ Lists(x) /\ x.s.shuffle = FALSE /\ x.s.segplay = "NONE"
  BY <1>1, EmptiedIs
<1> HIDE DEF x
<1>3. Typed(x) /\ x.s.mode = q.s.mode /\ x.app = q.app
  BY <1>2, Fields DEF Tidied, Only, ListFields
<1>4. x.s.mode # "SAMPLE" /\ t \in Track
  BY <1>3, Discs
<1>5. Tidied(x, y) /\ Lists(y) /\ y.s.program = TRUE /\ y.s.plan = <<t>>
  BY <1>2, <1>3, <1>4, OneTrackIs
<1> HIDE DEF y
<1>6. Tidied(q, y)
  BY <1>2, <1>5, TidiedTwice
<1>7. Nearly(y, o) /\ y.s.mode = q.s.mode /\ y.s.off = q.s.off /\ (Quiet(q) => Quiet(y))
  BY <1>1, <1>5, <1>6, TidiedNearly
<1>8. CASE Inv(q, o) /\ q.s.mode \in {"STOP", "NODISC"}
  <2>1. Quiet(y)
    BY <1>7, <1>8 DEF Inv, Ok
  <2>2. Inv(y, o)
    BY <1>7, <1>8, <2>1, QuietInv
  <2>3. Inv(CdPlayPause(y, w), o)
    BY <2>2, PlayButtonInv
  <2> QED BY <2>3 DEF y, x
<1>9. CASE q.s.mode = "STOP" /\ q.s.off = 0
  <2>1. HasAudio(<<t>>)
    BY DEF HasAudio
  <2>2. Sure(y) /\ y.s.mode = "STOP"
    BY <1>5, <1>7, <1>9, <2>1 DEF Sure
  <2>3. Inv(CdPlayPause(y, w), o)
    BY <1>7, <2>2, PlayButtonInv
  <2> QED BY <2>3 DEF y, x
<1> QED BY <1>8, <1>9

(* ... and of any. *)
LEMMA ListPlayInv ==
  ASSUME Sane, NEW q, NEW o, Plain(o), Inv(q, o), q.app = "xmcd",
         q.s.mode # "NODISC", NEW t \in Audio,
         NEW w \in World
  PROVE  Inv(TrklistPlay(q, w, t), o)
<1> DEFINE h == IF q.s.mode # "STOP" THEN SlStop(q, w, FALSE) ELSE q
<1>1. TrklistPlay(q, w, t) = CdPlayPause(OneTrack(Emptied(h), t), w)
  BY DEF TrklistPlay, PlayOneTrack, OneTrack, Emptied
<1>2. Stoppable(q, o)
  BY InvNearly
<1>3. CASE q.s.mode = "STOP"
  <2>1. h = q
    BY <1>3
  <2> HIDE DEF h
  <2> QED BY <1>1, <1>3, <2>1, OneTrackInv
<1>4. CASE q.s.mode # "STOP" /\ q.d.st = "empty"
  <2>1. h = SlStop(q, w, FALSE)
    BY <1>4
  <2>2. Inv(h, o) /\ h.s.mode = "NODISC" /\ h.app = q.app
    BY <1>2, <1>4, <2>1, StopEmpty
  <2> HIDE DEF h
  <2>3. Inv(h, o) /\ h.s.mode \in {"STOP", "NODISC"} /\ h.app = "xmcd"
    BY <2>2
  <2> QED BY <1>1, <2>3, OneTrackInv
<1>5. CASE q.s.mode # "STOP" /\ q.d.st # "empty"
  <2>1. h = SlStop(q, w, FALSE)
    BY <1>5
  <2>2. Kept(q, h, o)
    BY <1>2, <1>5, <2>1, StopKept
  <2> HIDE DEF h
  <2>3. Nearly(h, o) /\ h.s.mode = "STOP" /\ h.s.off = 0 /\ h.app = "xmcd"
    BY <2>2 DEF Kept
  <2> QED BY <1>1, <2>3, OneTrackInv
<1> QED BY <1>3, <1>4, <1>5

-----------------------------------------------------------------------------
(* The segments window. *)

(* The bounds of a segment. *)
Marked(q, a, b) == [q EXCEPT !.s.onetrk = FALSE, !.s.startpos = a, !.s.endpos = b]

(* Nothing else changes. *)
LEMMA MarkedIs ==
  ASSUME NEW q, Typed(q), NEW a \in Block, NEW b \in Block
  PROVE  LET r == Marked(q, a, b)
         IN  /\ Only(q, r, {"onetrk", "startpos", "endpos"}, {}) /\ r.d = q.d /\ r.m = q.m
             /\ r.s.onetrk = FALSE
<1> DEFINE S == [q.s EXCEPT !.onetrk = FALSE, !.startpos = a, !.endpos = b]
           r == Marked(q, a, b)
<1>1. /\ S \in Curstat /\ SBut(q.s, S, {"onetrk", "startpos", "endpos"})
      /\ S.onetrk = FALSE
  BY Parts DEF Curstat, SBut, SFields
<1>2. r = WithSM(q, S, q.m)
  BY Parts DEF Marked, WithSM, State
<1>3. q.m \in Statics
  BY Parts
<1> HIDE DEF S, r
<1>4. Typed(r) /\ r.app = q.app /\ r.s = S /\ r.m = q.m /\ r.d = q.d
  BY <1>1, <1>2, <1>3, WithSMIs
<1>5. Only(q, r, {"onetrk", "startpos", "endpos"}, {})
  BY <1>1, <1>4, SameM DEF Only
<1> QED BY <1>1, <1>4, <1>5 DEF r

(* A stop does not mind. *)
LEMMA MarkedNearly ==
  ASSUME NEW q, NEW o, NEW a \in Block, NEW b \in Block, Stoppable(q, o)
  PROVE  LET r == Marked(q, a, b)
         IN  /\ Stoppable(r, o) /\ (Nearly(q, o) => Nearly(r, o)) /\ (Quiet(q) => Quiet(r))
             /\ r.s.onetrk = FALSE /\ r.s.mode = q.s.mode /\ r.app = q.app
             /\ r.d = q.d
<1> SUFFICES ASSUME NEW r, r = Marked(q, a, b)
             PROVE  /\ Stoppable(r, o) /\ (Nearly(q, o) => Nearly(r, o)) /\ (Quiet(q) => Quiet(r))
                    /\ r.s.onetrk = FALSE /\ r.s.mode = q.s.mode
                    /\ r.app = q.app /\ r.d = q.d
  OBVIOUS
<1>1. /\ Only(q, r, {"onetrk", "startpos", "endpos"}, {}) /\ r.d = q.d
      /\ r.m = q.m
      /\ r.s.onetrk = FALSE
  BY MarkedIs DEF Stoppable
<1>2. /\ r.app = q.app /\ r.s.mode = q.s.mode /\ r.s.segplay = q.s.segplay
      /\ r.s.program = q.s.program
      /\ r.s.shuffle = q.s.shuffle /\ r.s.plan = q.s.plan /\ r.s.off = q.s.off
  BY <1>1, Fields
<1>3. Typed(r)
  BY <1>1 DEF Only
<1>4. Flags(r, o) /\ Lists(r)
  BY <1>1, <1>2 DEF Stoppable, Flags, Lists, Listed
<1>5. Resumable(r, o) /\ Unforced(r) /\ Ticks(r) /\ (Quiet(q) => Quiet(r))
  BY <1>1, <1>2 DEF Stoppable, Resumable, Unforced, Ticks, Quiet
<1>6. Nearly(q, o) => Timed(r, o) /\ Placed(r, o)
  BY <1>1, <1>2 DEF Nearly, Timed, Placed
<1> QED BY <1>1, <1>2, <1>3, <1>4, <1>5, <1>6 DEF Stoppable, Nearly

(* What a stop leaves of the shuffle. *)
LEMMA StopEmptyShuffle ==
  ASSUME NEW q, Typed(q), q.d.st = "empty", NEW w, NEW b \in BOOLEAN
  PROVE  SlStop(q, w, b).s.shuffle = q.s.shuffle
<1> DEFINE x == DiscReady(q)
<1>1. Readied(q, x)
  BY DiscReadyIs
<1> HIDE DEF x
<1>2. Only(q, x, DiscFields, {"insert_polling"}) /\ x.ret = FALSE
  BY <1>1 DEF Readied
<1>3. x.s.shuffle = q.s.shuffle
  BY <1>2, Fields DEF DiscFields
<1>4. SlStop(q, w, b) = x
  BY <1>2 DEF SlStop, Stopped, StopDisc, x
<1> QED BY <1>3, <1>4

(* Without a list a stop needs no more. *)
LEMMA HaltedInv ==
  ASSUME Sane, NEW q, NEW o, Stoppable(q, o), ~ Listed(q), NEW w \in World
  PROVE  LET r == SlStop(q, w, TRUE)
         IN  Inv(r, o) /\ r.s.mode \in {"STOP", "NODISC"} /\ ~ Listed(r) /\ r.app = q.app
<1> DEFINE r == SlStop(q, w, TRUE)
<1>0. Typed(q) /\ TRUE \in BOOLEAN
  BY DEF Stoppable
<1>1. Inv(r, o)
  BY StopInv
<1>2. CASE q.d.st = "empty"
  <2>1. NoDisc(q, r) /\ r.app = q.app
    BY <1>0, <1>2, StopEmpty
  <2>2. r.s.shuffle = q.s.shuffle
    BY <1>0, <1>2, StopEmptyShuffle
  <2> HIDE DEF r
  <2>3. r.s.mode \in {"STOP", "NODISC"} /\ ~ Listed(r) /\ r.app = q.app
    BY <2>1, <2>2 DEF NoDisc, Listed
  <2> QED BY <1>1, <2>3 DEF r
<1>3. CASE q.d.st # "empty"
  <2>1. StopsTo(q, TRUE, r)
    BY <1>0, <1>3, SlStopIs
  <2> HIDE DEF r
  <2>2. r.s.mode = "STOP"
    BY <2>1 DEF StopsTo
  <2>3. Listed(r) => Listed(q)
    BY <1>0, <1>3, <2>1, StopNearly
  <2>4. r.app = q.app
    BY <2>1 DEF StopsTo, Only
  <2> QED BY <1>1, <2>2, <2>3, <2>4 DEF r
<1> QED BY <1>2, <1>3

(* A segment chosen in the segments window: the lists go, ... *)
Unlisted(q, a, b) == NoShuffle(ProgClear(Marked(ClearText(q), a, b)))

(* There is no list then. *)
LEMMA UnlistedIs ==
  ASSUME NEW q, NEW o, Stoppable(q, o), q.app = "xmcd", NEW a \in Block,
         NEW b \in Block
  PROVE  LET r == Unlisted(q, a, b)
         IN  /\ Stoppable(r, o) /\ ~ Listed(r) /\ r.s.mode = q.s.mode /\ r.app = q.app /\ r.d = q.d
             /\ (Nearly(q, o) => Nearly(r, o)) /\ (Quiet(q) => Quiet(r))
<1> DEFINE x == ClearText(q)
           y == Marked(x, a, b)
           z == ProgClear(y)
           r == NoShuffle(z)
<1>0. Typed(q) /\ Lists(q)
  BY DEF Stoppable
<1>1. Tidied(q, x) /\ Lists(x)
  BY <1>0, ClearTextIs DEF Dropped
<1>2. q.app = "cda" => x.s.segplay = "NONE" /\ x.s.onetrk = FALSE
  OBVIOUS
<1> HIDE DEF x
<1>3. /\ Stoppable(x, o) /\ x.s.mode = q.s.mode /\ x.app = q.app /\ x.d = q.d
      /\ (Nearly(q, o) => Nearly(x, o)) /\ (Quiet(q) => Quiet(x))
  BY <1>1, <1>2, TidiedNearly
<1>4. /\ Stoppable(y, o) /\ (Nearly(x, o) => Nearly(y, o)) /\ (Quiet(x) => Quiet(y))
      /\ y.s.onetrk = FALSE /\ y.s.mode = x.s.mode /\ y.app = x.app /\ y.d = x.d
  BY <1>3, MarkedNearly
<1> HIDE DEF y
<1>5. Typed(y) /\ Lists(y) /\ y.app = "xmcd"
  BY <1>3, <1>4 DEF Stoppable
<1>6. Dropped(y, z)
  BY <1>4, <1>5, ProgClearDrops
<1> HIDE DEF z
<1>7. Tidied(y, z) /\ Lists(z) /\ z.s.program = FALSE /\ Typed(z)
  BY <1>6 DEF Dropped, Tidied, Only
<1>8. /\ Tidied(z, r) /\ Lists(r) /\ r.s.shuffle = FALSE
      /\ r.s.program = z.s.program
  BY <1>7, NoShuffleIs
<1> HIDE DEF r
<1>9. Tidied(y, r)
  BY <1>7, <1>8, TidiedTwice
<1>10. y.app = "cda" => r.s.segplay = "NONE" /\ r.s.onetrk = FALSE
  BY <1>5
<1>11. /\ Stoppable(r, o) /\ r.s.mode = y.s.mode /\ r.app = y.app /\ r.d = y.d
       /\ (Nearly(y, o) => Nearly(r, o)) /\ (Quiet(y) => Quiet(r))
  BY <1>4, <1>8, <1>9, <1>10, TidiedNearly
<1>12. ~ Listed(r)
  BY <1>7, <1>8 DEF Listed
<1>13. Unlisted(q, a, b) = r
  BY DEF Unlisted, r, z, y, x
<1> QED BY <1>3, <1>4, <1>11, <1>12, <1>13

(* ... and the stopped player is set to it. *)
Segmented(q) == [q EXCEPT !.s.segplay = "AB"]

(* It keeps the invariant. *)
LEMMA SegmentedInv ==
  ASSUME NEW q, NEW o, Inv(q, o), q.s.mode \in {"STOP", "NODISC"}, ~ Listed(q),
         q.app = "xmcd"
  PROVE  Inv(Segmented(q), o)
<1> DEFINE S == [q.s EXCEPT !.segplay = "AB"]
           r == Segmented(q)
<1>0. Typed(q) /\ Lists(q) /\ Quiet(q) /\ Nearly(q, o) /\ q.m \in Statics
  BY InvNearly, Parts DEF Inv, Ok
<1>1. S \in Curstat /\ SBut(q.s, S, {"segplay"}) /\ S.segplay = "AB"
  BY <1>0, Parts DEF Curstat, SBut, SFields
<1>2. r = WithSM(q, S, q.m)
  BY <1>0, Parts DEF Segmented, WithSM, State
<1> HIDE DEF S, r
<1>3. Typed(r) /\ r.app = q.app /\ r.s = S /\ r.m = q.m /\ r.d = q.d
  BY <1>0, <1>1, <1>2, WithSMIs
<1>4. Only(q, r, {"segplay"}, {})
  BY <1>1, <1>3, SameM DEF Only
<1>5. r.s.mode = q.s.mode /\ r.s.program = q.s.program /\ r.s.onetrk = q.s.onetrk
      /\ r.s.shuffle = q.s.shuffle /\ r.s.plan = q.s.plan
  BY <1>4, Fields
<1>6. Lists(r)
  BY <1>0, <1>5 DEF Lists, Listed
<1>7. Tidied(q, r)
  BY <1>3, <1>4 DEF Tidied, Only, SBut, ListFields
<1>8. Nearly(r, o) /\ Quiet(r)
  BY <1>0, <1>6, <1>7, TidiedNearly
<1>9. Inv(r, o)
  BY <1>5, <1>8, QuietInv
<1> QED BY <1>9 DEF r

(* The segments window as a whole. *)
LEMMA SegmentInv ==
  ASSUME Sane, NEW q, NEW o, Inv(q, o), q.app = "xmcd", q.s.mode # "NODISC",
         NEW a \in Block, NEW b \in Block, NEW w \in World
  PROVE  Inv(SegmentsSelect(q, w, a, b), o)
<1> DEFINE x == Unlisted(q, a, b)
           h == IF x.s.mode # "STOP" THEN SlStop(x, w, TRUE) ELSE x
<1>1. SegmentsSelect(q, w, a, b) = Segmented(h)
  BY DEF SegmentsSelect, Unlisted, Marked, Segmented
<1>2. Stoppable(q, o) /\ Nearly(q, o) /\ Quiet(q)
  BY InvNearly DEF Inv, Ok
<1>3. /\ Stoppable(x, o) /\ ~ Listed(x) /\ x.s.mode = q.s.mode /\ x.app = "xmcd"
      /\ Nearly(x, o) /\ Quiet(x)
  BY <1>2, UnlistedIs
<1> HIDE DEF x
<1>4. CASE x.s.mode = "STOP"
  <2>1. h = x
    BY <1>4
  <2>2. Inv(x, o)
    BY <1>3, <1>4, QuietInv
  <2> HIDE DEF h
  <2> QED BY <1>1, <1>3, <1>4, <2>1, <2>2, SegmentedInv
<1>5. CASE x.s.mode # "STOP"
  <2>1. h = SlStop(x, w, TRUE)
    BY <1>5
  <2>2. /\ Inv(h, o) /\ h.s.mode \in {"STOP", "NODISC"} /\ ~ Listed(h)
        /\ h.app = x.app
    BY <1>3, <2>1, HaltedInv
  <2> HIDE DEF h
  <2> QED BY <1>1, <1>3, <2>2, SegmentedInv
<1> QED BY <1>4, <1>5

-----------------------------------------------------------------------------
(* The daemon of cda. *)

(* The daemon of cda brings the state up to date, ... *)
LEMMA CdaStatusInv ==
  ASSUME Sane, NEW q, NEW o, Inv(q, o), q.app = "cda", q.s.mode = "PLAY",
         NEW w \in World
  PROVE  Inv(GetPlaystatus(q, w), o)
<1> DEFINE r == GetPlaystatus(q, w)
<1>1. Typed(q) /\ Ok(q, o) /\ Unforced(q)
  BY DEF Inv
<1>2. Typed(r) /\ Ok(r, o) /\ Unforced(r)
  BY <1>1, StatusOk
<1> HIDE DEF r
<1>3. r.app = "cda"
  BY <1>1, <1>2 DEF Ok, Flags
<1>4. Inv(r, o)
  BY <1>2, <1>3 DEF Inv, Timed, Placed
<1> QED BY <1>4 DEF r

(* The status, or disc_ready, before a command. *)
LEMMA UpdateInv ==
  ASSUME Sane, NEW q, NEW o, Inv(q, o), q.app = "cda", NEW w \in World,
         NEW due \in BOOLEAN
  PROVE  LET r == Update(q, w, due) IN Inv(r, o) /\ r.app = "cda"
<1> DEFINE r == Update(q, w, due)
<1>1. CASE q.s.mode = "NODISC"
  <2>1. r = DiscReady(q)
    BY <1>1 DEF Update
  <2>2. Inv(r, o)
    BY <2>1, AwakeInv
  <2> HIDE DEF r
  <2>3. r.app = "cda"
    BY <2>2 DEF Inv, Ok, Flags
  <2> QED BY <2>2, <2>3 DEF r
<1>2. CASE q.s.mode = "PLAY" /\ due
  <2>1. r = GetPlaystatus(q, w)
    BY <1>2 DEF Update
  <2>2. Inv(r, o)
    BY <1>2, <2>1, CdaStatusInv
  <2> HIDE DEF r
  <2>3. r.app = "cda"
    BY <2>2 DEF Inv, Ok, Flags
  <2> QED BY <2>2, <2>3 DEF r
<1>3. CASE q.s.mode # "NODISC" /\ ~ (q.s.mode = "PLAY" /\ due)
  <2>1. r = q
    BY <1>3 DEF Update
  <2> QED BY <2>1
<1> QED BY <1>1, <1>2, <1>3

(* ... and plays from a track and a place, ... *)
LEMMA AtTrackIs ==
  ASSUME NEW q, Typed(q), NEW t \in {0} \cup Track
  PROVE  LET r == AtTrack(q, t)
         IN  /\ Only(q, r, PlaceFields, {}) /\ r.d = q.d /\ r.m = q.m /\ r.s.off = q.s.off
             /\ r.s.cur_trk = IF t = 0 THEN q.s.cur_trk ELSE t
<1>1. CASE t = 0
  <2>1. AtTrack(q, t) = q
    BY <1>1 DEF AtTrack
  <2> QED BY <1>1, <2>1, SameS, SameM DEF Only
<1>2. CASE t # 0
  <2> DEFINE r == AtTrack(q, t)
  <2>1. r = Shown(q, t)
    BY <1>2 DEF AtTrack, Shown
  <2>2. Only(q, r, {"cur_trk"}, {}) /\ r.d = q.d /\ r.m = q.m /\ r.s.cur_trk = t
    BY <2>1, ShownIs
  <2> HIDE DEF r
  <2>3. r.s.off = q.s.off
    BY <2>2, Fields
  <2>4. Only(q, r, PlaceFields, {})
    BY <2>2 DEF Only, SBut, PlaceFields
  <2> QED BY <1>2, <2>2, <2>3, <2>4 DEF r
<1> QED BY <1>1, <1>2

(* The place of a play command is taken. *)
LEMMA AtPlaceIs ==
  ASSUME NEW q, Typed(q), NEW t \in {0} \cup Track, NEW off \in Int,
         t # 0 /\ off # NoPlace => off \in Nat /\ Toc[t] + off < Leadout
  PROVE  LET r == AtPlace(q, t, off)
         IN  /\ Only(q, r, PlaceFields, {}) /\ r.d = q.d /\ r.m = q.m /\ r.s.cur_trk = q.s.cur_trk
             /\ r.s.off = IF t = 0 \/ off = NoPlace THEN q.s.off ELSE off
<1>1. CASE t = 0 \/ off = NoPlace
  <2>1. AtPlace(q, t, off) = q
    BY <1>1 DEF AtPlace
  <2> QED BY <1>1, <2>1, SameS, SameM DEF Only
<1>2. CASE ~ (t = 0 \/ off = NoPlace)
  <2> DEFINE pos == Toc[t] + off
             S == [q.s EXCEPT !.off = off, !.pos = pos]
             r == AtPlace(q, t, off)
  <2>0. /\ Toc[t] \in Nat /\ Leadout \in Nat /\ off \in Nat
        /\ Toc[t] + off < Leadout
    BY <1>2, TrackBounds, Discs
  <2>1. pos \in Block /\ off \in Block
    BY <2>0 DEF Block
  <2> HIDE DEF pos
  <2>2. S \in Curstat
    BY <2>1, Parts DEF Curstat
  <2>3. SBut(q.s, S, PlaceFields) /\ S.cur_trk = q.s.cur_trk /\ S.off = off
    BY <2>1, Parts DEF Curstat, SBut, SFields, PlaceFields
  <2>4. r = WithSM(q, S, q.m)
    BY <1>2, Parts DEF AtPlace, WithSM, State, pos
  <2>5. q.m \in Statics
    BY Parts
  <2> HIDE DEF S, r
  <2>6. Typed(r) /\ r.app = q.app /\ r.s = S /\ r.m = q.m /\ r.d = q.d
    BY <2>2, <2>4, <2>5, WithSMIs
  <2>7. Only(q, r, PlaceFields, {})
    BY <2>3, <2>6, SameM DEF Only
  <2> QED BY <1>2, <2>3, <2>6, <2>7 DEF r
<1> QED BY <1>1, <1>2

(* Inv does not speak of the place in the daemon. *)
LEMMA PlaceInv ==
  ASSUME NEW q, NEW r, NEW o, Inv(q, o), q.app = "cda",
         Only(q, r, PlaceFields, {}), r.d = q.d
  PROVE  Inv(r, o)
<1>1. Only(q, r, {"cur_trk", "pos", "off", "startpos"}, Idle)
  BY DEF Only, SBut, MBut, PlaceFields
<1> QED BY <1>1, MoveInv

(* Stopping first leaves a start that cannot be refused, ... *)
LEMMA StopFirstInv ==
  ASSUME Sane, NEW q, NEW o, Plain(o), Inv(q, o), q.app = "cda",
         q.s.mode = "PLAY",
         NEW t \in {0} \cup Audio, t # 0 => ~ Listed(q), NEW off \in Int,
         t # 0 /\ off # NoPlace => off \in Nat /\ Toc[t] + off < Clip(TrackEnd(t)), NEW w \in World
  PROVE  Inv(SlPlayPause(AtPlace(StopFirst(q, w, t), t, off), w), o)
<1> DEFINE x == AtTrack(q, t)
           s == SlStop(x, w, FALSE)
           z == AtTrack(s, t)
           y == AtPlace(z, t, off)
<1>0. /\ t \in {0} \cup Track /\ Typed(q)
      /\ t # 0 /\ off # NoPlace => off \in Nat /\ Toc[t] + off < Leadout
      /\ t # 0 => /\ Toc[t] < Clip(Leadout) /\ Toc[t] \in Nat
                  /\ off # NoPlace => Toc[t] + off < Clip(Leadout)
  <2>1. t \in {0} \cup Track /\ Typed(q)
    BY Discs DEF Inv
  <2>2. ASSUME t # 0
        PROVE  /\ Toc[t] < Clip(Leadout) /\ Toc[t] \in Nat
               /\ off # NoPlace => off \in Nat /\ Toc[t] + off < Clip(Leadout) /\ Toc[t] + off < Leadout
    <3>1. t \in Track /\ Leadout \in Int
      BY <2>1, <2>2, Discs
    <3>2. /\ Toc[t] < Clip(Leadout) /\ Toc[t] \in Nat /\ TrackEnd(t) \in Nat
          /\ TrackEnd(t) <= Leadout
      BY <3>1, LongTrack, TrackBounds
    <3>3. TrackEnd(t) \in Int
      BY <3>2
    <3>4. Clip(TrackEnd(t)) <= Clip(Leadout) /\ Clip(TrackEnd(t)) \in Int
      BY <3>1, <3>2, <3>3, Clipped
    <3>5. Clip(Leadout) <= Leadout /\ Clip(Leadout) \in Int
      BY <3>1, Clipped
    <3> QED BY <2>2, <3>1, <3>2, <3>4, <3>5
  <2> QED BY <2>1, <2>2
<1>1. StopFirst(q, w, t) = z
  BY DEF StopFirst
<1>2. Only(q, x, PlaceFields, {}) /\ x.d = q.d
  BY <1>0, AtTrackIs
<1> HIDE DEF x
<1>3. Inv(x, o)
  BY <1>2, PlaceInv
<1>4. x.app = "cda" /\ x.s.mode = "PLAY" /\ (Listed(x) <=> Listed(q))
  BY <1>2, Fields DEF PlaceFields, Listed
<1>5. Stoppable(x, o)
  BY <1>3, InvNearly
<1>6. CASE x.d.st = "empty"
  <2>1. Inv(s, o) /\ s.app = "cda"
    BY <1>4, <1>5, <1>6, StopEmpty
  <2> HIDE DEF s
  <2>2. Only(s, z, PlaceFields, {}) /\ z.d = s.d
    BY <1>0, <2>1, AtTrackIs DEF Inv
  <2> HIDE DEF z
  <2>3. Inv(z, o) /\ z.app = "cda"
    BY <2>1, <2>2, PlaceInv DEF Only
  <2>4. Only(z, y, PlaceFields, {}) /\ y.d = z.d
    BY <1>0, <2>3, AtPlaceIs DEF Inv
  <2> HIDE DEF y
  <2>5. Inv(y, o)
    BY <2>3, <2>4, PlaceInv
  <2>6. Inv(SlPlayPause(y, w), o)
    BY <2>5, PlayPauseInv
  <2> QED BY <1>1, <2>6 DEF y
<1>7. CASE x.d.st # "empty"
  <2>1. Kept(x, s, o)
    BY <1>5, <1>7, StopKept
  <2> HIDE DEF s
  <2>5. Typed(s) /\ s.app = "cda"
    BY <1>4, <2>1 DEF Kept, Nearly, Stoppable
  <2>6. /\ Only(s, z, PlaceFields, {}) /\ z.d = s.d /\ z.m = s.m /\ z.s.off = 0
        /\ z.s.cur_trk = t
    <3>1. s.s.off = 0 /\ s.s.cur_trk = 0
      BY <2>1 DEF Kept
    <3> QED BY <1>0, <2>5, <3>1, AtTrackIs
  <2> HIDE DEF z
  <2>7. Nearly(z, o) /\ z.s.mode = "STOP" /\ z.app = "cda" /\ (Listed(z) <=> Listed(s))
        /\ z.s.segplay = s.s.segplay /\ z.s.order = s.s.order
    <3>1. Nearly(s, o) /\ s.s.mode = "STOP"
      BY <2>1 DEF Kept
    <3> QED BY <2>5, <2>6, <3>1, MovedNearly
  <2>8. Typed(z)
    BY <2>7 DEF Nearly, Stoppable
  <2>9. /\ Only(z, y, PlaceFields, {}) /\ y.d = z.d /\ y.m = z.m
        /\ y.s.cur_trk = t
        /\ y.s.off = IF t = 0 \/ off = NoPlace THEN 0 ELSE off
    BY <1>0, <2>6, <2>8, AtPlaceIs
  <2> HIDE DEF y
  <2>10. Nearly(y, o) /\ y.s.mode = "STOP" /\ (Listed(y) <=> Listed(z))
         /\ y.s.segplay = z.s.segplay /\ y.s.order = z.s.order
    BY <2>7, <2>9, MovedNearly
  <2>11. Certain(y)
    <3>1. CASE Listed(y)
      <4>1. t = 0 /\ Listed(x) /\ y.s.order = x.s.order
        BY <1>4, <2>1, <2>7, <2>10, <3>1 DEF Kept
      <4>2. HasAudio(x.s.order)
        BY <1>3, <1>4, <4>1 DEF Inv, Ok, Entered, On
      <4>3. HasAudio(y.s.order) /\ y.s.off = 0
        BY <2>9, <4>1, <4>2
      <4> QED BY <3>1, <4>3 DEF Certain
    <3>2. CASE ~ Listed(y)
      <4>1. y.s.segplay # "AB"
        BY <1>3, <1>4, <2>1, <2>7, <2>10 DEF Kept, Inv, Ok, Flags
      <4>2. /\ StartTrack(y) \in Audio
            /\ Toc[StartTrack(y)] + y.s.off < Clip(Leadout)
        <5>1. CASE t = 0
          <6>1. StartTrack(y) = 1 /\ y.s.off = 0
            BY <2>9, <5>1 DEF StartTrack
          <6>2. 1 \in Audio /\ 1 \in Track /\ Toc[1] = 0
            BY <1>3, <1>4, Discs DEF Inv, Ok, Flags, Plain
          <6>3. Toc[1] < Clip(Leadout)
            BY <6>2, LongTrack
          <6> QED BY <6>1, <6>2, <6>3
        <5>2. CASE t # 0
          <6>1. StartTrack(y) = t /\ t \in Audio
            BY <2>9, <5>2 DEF StartTrack
          <6>2. Toc[t] + y.s.off < Clip(Leadout)
            <7>1. CASE off = NoPlace
              <8>1. y.s.off = 0
                BY <2>9, <7>1
              <8> QED BY <1>0, <5>2, <8>1
            <7>2. CASE off # NoPlace
              <8>1. y.s.off = off
                BY <2>9, <5>2, <7>2
              <8> QED BY <1>0, <5>2, <7>2, <8>1
            <7> QED BY <7>1, <7>2
          <6> QED BY <6>1, <6>2
        <5> QED BY <5>1, <5>2
      <4> QED BY <3>2, <4>1, <4>2 DEF Certain
    <3> QED BY <3>1, <3>2
  <2>12. Inv(SlPlayPause(y, w), o)
    BY <2>10, <2>11, PlayPauseInv
  <2> QED BY <1>1, <2>12 DEF y
<1> QED BY <1>6, <1>7

(* The commands of cda: play, ... *)
LEMMA CdaPlayInv ==
  ASSUME Sane, NEW q, NEW o, Plain(o), Inv(q, o), q.app = "cda",
         NEW t \in {0} \cup Audio,
         NEW off \in Int, t # 0 /\ off # NoPlace => off \in Nat /\ Toc[t] + off < Clip(TrackEnd(t)),
         NEW w \in World
  PROVE  Inv(DoPlay(q, w, t, off), o)
<1>0. /\ t \in {0} \cup Track /\ Typed(q) /\ ~ Beyond(t, off)
      /\ t # 0 /\ off # NoPlace => off \in Nat /\ Toc[t] + off < Leadout
  <2>1. t \in {0} \cup Track /\ Typed(q)
    BY Discs DEF Inv
  <2>2. ASSUME t # 0, off # NoPlace
        PROVE  /\ off \in Nat /\ Toc[t] + off < Leadout
               /\ ~ (off >= TrackEnd(t) - Toc[t])
    <3>1. t \in Track /\ off \in Nat /\ Toc[t] + off < Clip(TrackEnd(t))
      BY <2>1, <2>2
    <3>2. /\ Toc[t] \in Nat /\ TrackEnd(t) \in Nat /\ TrackEnd(t) <= Leadout
          /\ Leadout \in Nat
      BY <3>1, TrackBounds, Discs
    <3>3. TrackEnd(t) \in Int /\ TrackEnd(t) >= 0
      BY <3>2
    <3>4. Clip(TrackEnd(t)) <= TrackEnd(t) /\ Clip(TrackEnd(t)) \in Int
      BY <3>3, Clipped
    <3> QED BY <3>1, <3>2, <3>4
  <2> QED BY <2>1, <2>2 DEF Beyond
<1>1. CASE q.s.mode = "NODISC"
  BY <1>1 DEF DoPlay
<1>2. CASE q.s.mode # "NODISC" /\ t # 0 /\ (q.s.shuffle \/ q.s.prog_cnt > 0)
  <2> DEFINE x == AtTrack(q, t)
  <2>1. DoPlay(q, w, t, off) = IF q.s.mode = "PLAY" THEN q ELSE x
    BY <1>2 DEF DoPlay
  <2>2. Only(q, x, PlaceFields, {}) /\ x.d = q.d
    BY <1>0, AtTrackIs
  <2> HIDE DEF x
  <2>3. Inv(x, o)
    BY <2>2, PlaceInv
  <2> QED BY <2>1, <2>3
<1>3. CASE q.s.mode # "NODISC" /\ ~ (t # 0 /\ (q.s.shuffle \/ q.s.prog_cnt > 0))
  <2>1. DoPlay(q, w, t, off) = SlPlayPause(AtPlace(StopFirst(q, w, t), t, off), w)
    BY <1>0, <1>3 DEF DoPlay
  <2>2. CASE q.s.mode = "PLAY"
    <3>1. t # 0 => ~ Listed(q)
      <4>1. On(q)
        BY <2>2 DEF On
      <4>2. t # 0 => ~ (q.s.prog_cnt > 0)
        BY <1>3
      <4>3. Listed(q) => q.s.prog_cnt \in 1..Len(q.s.order)
        BY <4>1 DEF Inv, Ok, Entered
      <4> QED BY <4>2, <4>3
    <3> QED BY <2>1, <2>2, <3>1, StopFirstInv
  <2>3. CASE q.s.mode # "PLAY"
    <3> DEFINE x == AtTrack(q, t)
               y == AtPlace(x, t, off)
    <3>1. StopFirst(q, w, t) = x
      BY <2>3 DEF StopFirst
    <3>2. Only(q, x, PlaceFields, {}) /\ x.d = q.d
      BY <1>0, AtTrackIs
    <3> HIDE DEF x
    <3>3. Inv(x, o) /\ x.app = "cda" /\ Typed(x)
      BY <3>2, PlaceInv DEF Only
    <3>4. Only(x, y, PlaceFields, {}) /\ y.d = x.d
      BY <1>0, <3>3, AtPlaceIs
    <3> HIDE DEF y
    <3>5. Inv(y, o)
      BY <3>3, <3>4, PlaceInv
    <3>6. Inv(SlPlayPause(y, w), o)
      BY <3>5, PlayPauseInv
    <3> QED BY <2>1, <3>1, <3>6 DEF y
  <2> QED BY <2>2, <2>3
<1> QED BY <1>1, <1>2, <1>3

(* ... pause, previous, next and index, ... *)
LEMMA CdaPauseInv ==
  ASSUME Sane, NEW q, NEW o, Plain(o), Inv(q, o), NEW w \in World
  PROVE  Inv(DoPause(q, w), o)
BY PlayPauseInv DEF DoPause

(* The place is shown as that of a track. *)
RewoundTo(q, blk) == [q EXCEPT !.s.pos = blk]

(* It does not matter. *)
LEMMA RewoundInv ==
  ASSUME NEW q, NEW o, Inv(q, o)
  PROVE  Inv(Rewound(q), o)
<1>1. CASE ~ (q.s.cur_trk > 1)
  BY <1>1 DEF Rewound
<1>2. CASE q.s.cur_trk > 1
  <2> DEFINE blk == Toc[q.s.cur_trk]
             S == [q.s EXCEPT !.pos = blk]
             r == RewoundTo(q, blk)
  <2>1. q.s \in Curstat /\ q.m \in Statics /\ q \in State /\ Typed(q)
    BY Parts DEF Inv
  <2>2. q.s.cur_trk \in Track
    <3>1. q.s.cur_trk \in {0} \cup Track
      BY <2>1 DEF Curstat
    <3> QED BY <1>2, <3>1
  <2>3. blk \in Block
    <3>1. Leadout \in Nat
      BY Discs
    <3>2. blk \in Nat /\ TrackEnd(q.s.cur_trk) \in Nat /\ blk < TrackEnd(q.s.cur_trk)
          /\ TrackEnd(q.s.cur_trk) <= Leadout
      BY <2>2, TrackBounds
    <3> QED BY <3>1, <3>2 DEF Block
  <2>4. Rewound(q) = r
    BY <1>2 DEF Rewound, RewoundTo
  <2> HIDE DEF blk
  <2>5. S \in Curstat /\ SBut(q.s, S, {"pos", "startpos"})
    BY <2>1, <2>3 DEF Curstat, SBut, SFields
  <2>6. r = WithSM(q, S, q.m)
    BY <2>1 DEF RewoundTo, WithSM, State
  <2> HIDE DEF S, r
  <2>7. Typed(r) /\ r.app = q.app /\ r.s = S /\ r.m = q.m /\ r.d = q.d
    BY <2>1, <2>5, <2>6, WithSMIs
  <2>8. Only(q, r, {"pos", "startpos"}, Idle)
    BY <2>5, <2>7, SameM DEF Only
  <2> QED BY <2>4, <2>7, <2>8, FrameInv
<1> QED BY <1>1, <1>2

(* cda track previous, ... *)
LEMMA CdaPrevInv ==
  ASSUME Sane, NEW q, NEW o, Inv(q, o), NEW w \in World
  PROVE  Inv(DoPrev(q, w), o)
<1>1. Inv(Rewound(q), o)
  BY RewoundInv
<1>2. Inv(DiscReady(Rewound(q)), o) /\ Awake(DiscReady(Rewound(q)))
  BY <1>1, AwakeInv
<1>3. Inv(PrevReady(DiscReady(Rewound(q)), w), o)
  BY <1>2, PrevReadyInv
<1> QED BY <1>3 DEF DoPrev

(* ... next, ... *)
LEMMA CdaNextInv ==
  ASSUME Sane, NEW q, NEW o, Inv(q, o), NEW w \in World
  PROVE  Inv(DoNext(q, w), o)
<1>1. Inv(NextReady(DiscReady(q), w), o)
  BY AwakeInv, NextReadyInv
<1> QED BY <1>1 DEF DoNext

(* ... index, ... *)
LEMMA CdaIndexInv ==
  ASSUME Sane, NEW q, NEW o, Inv(q, o), NEW w \in World
  PROVE  Inv(DoIndex(q, w), o)
BY IndexInv DEF DoIndex

(* ... program, shuffle, stop and eject. *)
Ordering(q, plan, b) == [q EXCEPT !.s.order = plan, !.s.program = b]

(* It is a list of the daemon. *)
LEMMA OrderingIs ==
  ASSUME NEW q, Typed(q), Lists(q), q.app = "cda", q.s.onetrk = FALSE,
         q.s.segplay = "NONE",
         q.s.mode # "SAMPLE", q.s.shuffle = FALSE, NEW plan \in Seq(Track),
         NEW b \in BOOLEAN
  PROVE  LET r == Ordering(q, plan, b)
         IN  Tidied(q, r) /\ Lists(r) /\ r.s.program = b /\ r.s.shuffle = FALSE /\ r.s.segplay = "NONE"
             /\ r.s.onetrk = FALSE
<1> DEFINE S == [q.s EXCEPT !.order = plan, !.program = b]
           r == Ordering(q, plan, b)
<1>1. S \in Curstat /\ SBut(q.s, S, {"order", "program"}) /\ S.program = b
  BY Parts DEF Curstat, SBut, SFields
<1>2. r = WithSM(q, S, q.m)
  BY Parts DEF Ordering, WithSM, State
<1>3. q.m \in Statics
  BY Parts
<1> HIDE DEF S, r
<1>4. Typed(r) /\ r.app = q.app /\ r.s = S /\ r.m = q.m /\ r.d = q.d
  BY <1>1, <1>2, <1>3, WithSMIs
<1>5. Only(q, r, {"order", "program"}, {})
  BY <1>1, <1>4, SameM DEF Only
<1>6. /\ r.s.mode = q.s.mode /\ r.s.segplay = q.s.segplay
      /\ r.s.onetrk = q.s.onetrk
      /\ r.s.shuffle = q.s.shuffle
  BY <1>5, Fields
<1>7. Lists(r)
  BY <1>4, <1>6 DEF Lists, Listed
<1>8. Tidied(q, r)
  BY <1>4, <1>5 DEF Tidied, Only, SBut, ListFields
<1> QED BY <1>1, <1>4, <1>6, <1>7, <1>8 DEF r

(* A program is written while stopped. *)
LEMMA CdaDefineInv ==
  ASSUME NEW q, NEW o, Inv(q, o), q.app = "cda", q.s.mode = "STOP",
         NEW plan \in Seq(Track)
  PROVE  Inv(DoDefine(q, plan), o)
<1>1. CASE q.s.shuffle
  BY <1>1 DEF DoDefine
<1>2. CASE ~ q.s.shuffle
  <2> DEFINE r == Ordering(q, plan, TRUE)
  <2>1. DoDefine(q, plan) = r
    BY <1>2 DEF DoDefine, Ordering
  <2>2. /\ Typed(q) /\ Lists(q) /\ Nearly(q, o) /\ Quiet(q)
        /\ q.s.onetrk = FALSE /\ q.s.segplay = "NONE"
    BY InvNearly DEF Inv, Ok, Flags
  <2>3. q.s.shuffle = FALSE /\ TRUE \in BOOLEAN
    BY <1>2, <2>2, Parts DEF Curstat
  <2>4. Tidied(q, r) /\ Lists(r) /\ r.s.segplay = "NONE" /\ r.s.onetrk = FALSE
    BY <2>2, <2>3, OrderingIs
  <2> HIDE DEF r
  <2>5. Nearly(r, o) /\ Quiet(r) /\ r.s.mode = q.s.mode
    BY <2>2, <2>4, TidiedNearly
  <2>6. Inv(r, o)
    BY <2>5, QuietInv
  <2> QED BY <2>1, <2>6
<1> QED BY <1>1, <1>2

(* It is cleared. *)
LEMMA CdaClearInv ==
  ASSUME NEW q, NEW o, Inv(q, o), q.app = "cda"
  PROVE  Inv(DoClear(q), o)
<1>1. CASE q.s.mode = "NODISC" \/ q.s.shuffle
  BY <1>1 DEF DoClear
<1>2. CASE ~ (q.s.mode = "NODISC" \/ q.s.shuffle)
  <2> DEFINE r == Ordering(q, Nil, FALSE)
  <2>1. DoClear(q) = r
    BY <1>2 DEF DoClear, Ordering, Nil
  <2>2. /\ Typed(q) /\ Lists(q) /\ q.s.onetrk = FALSE /\ q.s.segplay = "NONE"
        /\ q.s.mode # "SAMPLE"
    BY DEF Inv, Ok, Flags
  <2>3. q.s.shuffle = FALSE /\ FALSE \in BOOLEAN /\ Nil \in Seq(Track)
    BY <1>2, <2>2, NilIs, Parts DEF Curstat
  <2>4. /\ Tidied(q, r) /\ Lists(r) /\ r.s.segplay = "NONE"
        /\ r.s.onetrk = FALSE
        /\ r.s.program = FALSE /\ r.s.shuffle = FALSE
    BY <2>2, <2>3, OrderingIs
  <2> HIDE DEF r
  <2>5. ~ Listed(r)
    BY <2>4 DEF Listed
  <2>6. Inv(r, o)
    BY <2>4, <2>5, TidiedInv
  <2> QED BY <2>1, <2>6
<1> QED BY <1>1, <1>2

(* cda shuffle. *)
LEMMA CdaShuffleInv ==
  ASSUME NEW q, NEW o, Inv(q, o), q.app = "cda", NEW b \in BOOLEAN
  PROVE  Inv(DoShuffle(q, b), o)
<1>1. CASE q.s.program \/ q.s.mode \notin {"NODISC", "STOP"}
  BY <1>1 DEF DoShuffle
<1>2. CASE ~ (q.s.program \/ q.s.mode \notin {"NODISC", "STOP"})
  <2> DEFINE r == SlShuffle(q, b)
  <2>1. DoShuffle(q, b) = r
    BY <1>2 DEF DoShuffle
  <2>2. Typed(q) /\ Lists(q) /\ q.s.program = FALSE /\ ~ On(q)
    BY <1>2, Parts DEF Inv, Ok, Curstat, On
  <2>3. Shuffled(q, b, r)
    BY <2>2, SlShuffleIs
  <2> HIDE DEF r
  <2>4. /\ Tidied(q, r) /\ Lists(r) /\ r.s.segplay \in {q.s.segplay, "NONE"}
        /\ r.s.onetrk = FALSE
    BY <2>3 DEF Shuffled
  <2>5. Inv(r, o)
    BY <2>2, <2>4, TidiedInv
  <2> QED BY <2>1, <2>5
<1> QED BY <1>1, <1>2

(* cda disc eject. *)
LEMMA CdaEjectInv ==
  ASSUME Sane, NEW q, NEW o, Inv(q, o), NEW w \in World
  PROVE  Inv(DoEject(q, w), o)
BY EjectInv DEF DoEject

(* cda stop. *)
LEMMA CdaStopInv ==
  ASSUME Sane, NEW q, NEW o, Inv(q, o), NEW w \in World
  PROVE  Inv(DoStop(q, w), o)
BY InvNearly, StopInv DEF DoStop

-----------------------------------------------------------------------------
(* The timers. *)

(* A timer goes off, or is given up. *)
LEMMA TickedOk ==
  ASSUME NEW q, NEW r, NEW o, Ok(q, o), Unforced(q), q.app = "xmcd",
         Only(q, r, {}, TimerFields), r.d = q.d
  PROVE  /\ Typed(r) /\ Ok(r, o) /\ Unforced(r) /\ r.app = "xmcd"
         /\ r.s.mode = q.s.mode /\ r.s.off = q.s.off /\ (Listed(r) <=> Listed(q))
<1>1. /\ r.app = q.app /\ r.s.mode = q.s.mode /\ r.s.cur_trk = q.s.cur_trk
      /\ r.s.segplay = q.s.segplay
      /\ r.s.endpos = q.s.endpos /\ r.s.program = q.s.program
      /\ r.s.onetrk = q.s.onetrk
      /\ r.s.shuffle = q.s.shuffle /\ r.s.plan = q.s.plan /\ r.s.off = q.s.off
  BY Fields
<1>2. /\ r.s.order = q.s.order /\ r.s.prog_cnt = q.s.prog_cnt
      /\ r.s.repeat = q.s.repeat
      /\ r.m.ask = q.m.ask /\ r.m.new_progshuf = q.m.new_progshuf
      /\ r.m.fake_stop = q.m.fake_stop
      /\ r.m.idx_pause = q.m.idx_pause /\ r.m.searching = q.m.searching
      /\ r.m.search_id = q.m.search_id /\ r.m.sav_msf = q.m.sav_msf
  BY Fields DEF TimerFields
<1>3. Listed(r) <=> Listed(q)
  BY <1>1 DEF Listed
<1>4. Flags(r, o) /\ Lists(r)
  BY <1>1, <1>2 DEF Ok, Flags, Lists, Listed
<1>5. Entered(r) /\ Quiet(r)
  BY <1>1, <1>2 DEF Ok, Entered, On, Listed, Quiet
<1>6. InSeg(r) /\ Resumable(r, o)
  BY <1>1, <1>2 DEF Ok, InSeg, On, Resumable
<1>7. InEntries(r, o)
  BY <1>1, <1>2 DEF Ok, InEntries, InEntry, EntryOf, Within, On, Listed
<1>8. Typed(r) /\ Unforced(r)
  BY <1>2 DEF Only, Unforced
<1> QED BY <1>1, <1>3, <1>4, <1>5, <1>6, <1>7, <1>8 DEF Ok

(* A timer goes off: the one that is known, ... *)
Due(q) == [q EXCEPT !.m.stat_id = FALSE]

(* ... or one that is not, ... *)
DueStray(q) == [q EXCEPT !.m.stray = @ - 1]

(* ... and there may be nothing to poll. *)
Unpolled(q) == [q EXCEPT !.m.stat_polling = FALSE]

(* Only the timer changes. *)
LEMMA DueIs ==
  ASSUME NEW q, Typed(q)
  PROVE  LET r == Due(q) IN Only(q, r, {}, TimerFields) /\ r.d = q.d /\ r.m.stat_polling = q.m.stat_polling
<1> DEFINE M == [q.m EXCEPT !.stat_id = FALSE]
           r == Due(q)
<1>1. /\ M \in Statics /\ MBut(q.m, M, TimerFields)
      /\ M.stat_polling = q.m.stat_polling /\ q.s \in Curstat
  BY Parts, ZenonT(30) DEF Statics, MBut, MFields, TimerFields
<1>2. r = WithSM(q, q.s, M)
  BY Parts DEF Due, WithSM, State
<1> HIDE DEF M, r
<1>3. Typed(r) /\ r.app = q.app /\ r.s = q.s /\ r.m = M /\ r.d = q.d
  BY <1>1, <1>2, WithSMIs
<1>4. Only(q, r, {}, TimerFields)
  BY <1>1, <1>3, SameS DEF Only
<1> QED BY <1>1, <1>3, <1>4 DEF r

(* Only the number of timers changes. *)
LEMMA DueStrayIs ==
  ASSUME NEW q, Typed(q), q.m.stray > 0
  PROVE  LET r == DueStray(q) IN Only(q, r, {}, TimerFields) /\ r.d = q.d /\ r.m.stat_polling = q.m.stat_polling
<1> DEFINE n == q.m.stray - 1
           M == [q.m EXCEPT !.stray = n]
           r == DueStray(q)
<1>0. q.m \in Statics /\ q.s \in Curstat
  BY Parts
<1>1. n \in 0..MaxStray
  BY <1>0, Blks DEF Statics
<1> HIDE DEF n
<1>2. /\ M \in Statics /\ MBut(q.m, M, TimerFields)
      /\ M.stat_polling = q.m.stat_polling
  BY <1>0, <1>1 DEF Statics, MBut, MFields, TimerFields
<1>3. r = WithSM(q, q.s, M)
  BY <1>0, Parts DEF DueStray, WithSM, State, n
<1> HIDE DEF M, r
<1>4. Typed(r) /\ r.app = q.app /\ r.s = q.s /\ r.m = M /\ r.d = q.d
  BY <1>0, <1>2, <1>3, WithSMIs
<1>5. Only(q, r, {}, TimerFields)
  BY <1>2, <1>4, SameS DEF Only
<1> QED BY <1>2, <1>4, <1>5 DEF r

(* Only the poll changes. *)
LEMMA UnpolledIs ==
  ASSUME NEW q, Typed(q)
  PROVE  LET r == Unpolled(q) IN Only(q, r, {}, TimerFields) /\ r.d = q.d /\ r.m.stat_polling = FALSE
<1> DEFINE M == [q.m EXCEPT !.stat_polling = FALSE]
           r == Unpolled(q)
<1>1. /\ M \in Statics /\ MBut(q.m, M, TimerFields) /\ M.stat_polling = FALSE
      /\ q.s \in Curstat
  BY Parts, ZenonT(30) DEF Statics, MBut, MFields, TimerFields
<1>2. r = WithSM(q, q.s, M)
  BY Parts DEF Unpolled, WithSM, State
<1> HIDE DEF M, r
<1>3. Typed(r) /\ r.app = q.app /\ r.s = q.s /\ r.m = M /\ r.d = q.d
  BY <1>1, <1>2, WithSMIs
<1>4. Only(q, r, {}, TimerFields)
  BY <1>1, <1>3, SameS DEF Only
<1> QED BY <1>1, <1>3, <1>4 DEF r

(* The poll of the status. *)
LEMMA PollInv ==
  ASSUME Sane, NEW q, NEW x, NEW o, Inv(q, o), q.app = "xmcd",
         Only(q, x, {}, TimerFields), x.d = q.d,
         x.m.stat_polling = q.m.stat_polling, NEW w \in World
  PROVE  Inv(Poll(x, w), o)
<1> DEFINE g == GetPlaystatus(x, w)
<1>0. /\ Typed(x) /\ Ok(x, o) /\ Unforced(x) /\ x.app = "xmcd"
      /\ x.s.mode = q.s.mode /\ x.s.off = q.s.off /\ (Listed(x) <=> Listed(q))
  BY TickedOk DEF Inv, Ok
<1>1. CASE ~ x.m.stat_polling
  <2>1. Poll(x, w) = x
    BY <1>1 DEF Poll
  <2>2. Timed(x, o) /\ Placed(x, o)
    BY <1>0, <1>1 DEF Inv, Timed, Placed
  <2> QED BY <1>0, <2>1, <2>2 DEF Inv
<1>2. CASE x.m.stat_polling
  <2>0. /\ q.s.mode # "PAUSE" /\ (q.s.mode = "STOP" => "sample" \in o)
        /\ q.s.mode = "NODISC" => q.d.st = "empty"
    BY <1>2 DEF Inv, Timed
  <2>1. /\ Typed(g) /\ Ok(g, o) /\ Unforced(g) /\ Went(x, g)
        /\ x.d.st = "empty" => g.s.mode = "NODISC" /\ g.d.st = "empty"
    BY <1>0, <2>0, StatusOk
  <2>2. Poll(x, w) = IF g.ret THEN AddStatTimer(g) ELSE Unpolled(g)
    BY <1>2, Parts, <2>1 DEF Poll, Unpolled, State
  <2> HIDE DEF g
  <2>3. g.app = "xmcd" /\ g.m.stat_polling
    <3>1. g.app = "xmcd"
      BY <1>0, <2>1 DEF Ok, Flags
    <3>2. g.m.stat_polling
      BY <1>2, <2>1 DEF Went, Polls, TimersOf
    <3> QED BY <3>1, <3>2
  <2>4. CASE g.ret = TRUE
    <3> DEFINE r == AddStatTimer(g)
    <3>1. StatPollStarted(g, r)
      BY <2>1, <2>3, AddStatTimerIs
    <3> HIDE DEF r
    <3>2. /\ Only(g, r, {}, TimerFields) /\ r.d = g.d /\ r.m.stat_polling = TRUE
          /\ r.m.stat_id = TRUE
      BY <2>3, <3>1 DEF StatPollStarted, TimerFields
    <3>3. /\ Typed(r) /\ Ok(r, o) /\ Unforced(r) /\ r.s.mode = g.s.mode
          /\ r.s.off = g.s.off
      BY <2>1, <2>3, <3>2, TickedOk
    <3>4. /\ g.s.mode = q.s.mode \/ g.s.mode = "PLAY"
          /\ g.d.st # "empty" /\ (g.s.mode \in {"STOP", "NODISC"} => g.d.st = "idle")
          /\ g.s.mode = "NODISC" => g.s.mode = q.s.mode
      BY <1>0, <2>1, <2>4 DEF Went
    <3>5. g.s.mode # "NODISC"
      BY <2>0, <2>1, <3>4
    <3>6. Timed(r, o) /\ Placed(r, o)
      BY <2>0, <3>2, <3>3, <3>4, <3>5 DEF Timed, Placed
    <3> QED BY <2>2, <2>4, <3>3, <3>6 DEF Inv, r
  <2>5. CASE g.ret = FALSE
    <3> DEFINE r == Unpolled(g)
    <3>1. Only(g, r, {}, TimerFields) /\ r.d = g.d /\ r.m.stat_polling = FALSE
      BY <2>1, UnpolledIs
    <3> HIDE DEF r
    <3>2. /\ Typed(r) /\ Ok(r, o) /\ Unforced(r) /\ r.s.mode = g.s.mode
          /\ r.s.off = g.s.off
      BY <2>1, <2>3, <3>1, TickedOk
    <3>3. g.s.mode \in {"STOP", "NODISC"} /\ g.s.off = 0
      BY <2>1, <2>5 DEF Went
    <3>4. Timed(r, o) /\ Placed(r, o)
      BY <3>1, <3>2, <3>3 DEF Timed, Placed
    <3> QED BY <2>2, <2>5, <3>2, <3>4 DEF Inv, r
  <2> QED BY <2>1, <2>4, <2>5 DEF Went
<1> QED BY <1>1, <1>2

(* The poll for a disc. *)
Watched(q, b) == [q EXCEPT !.m.insert_polling = b]

(* Inv does not speak of it. *)
LEMMA WatchedInv ==
  ASSUME NEW q, NEW o, Inv(q, o), NEW b \in BOOLEAN
  PROVE  Inv(Watched(q, b), o)
<1> DEFINE M == [q.m EXCEPT !.insert_polling = b]
           r == Watched(q, b)
<1>0. q.m \in Statics /\ q.s \in Curstat /\ Typed(q)
  BY Parts DEF Inv
<1>1. M \in Statics /\ MBut(q.m, M, Idle)
  BY <1>0 DEF Statics, MBut, MFields, Idle
<1>2. r = WithSM(q, q.s, M)
  BY <1>0, Parts DEF Watched, WithSM, State
<1> HIDE DEF M, r
<1>3. Typed(r) /\ r.app = q.app /\ r.s = q.s /\ r.m = M /\ r.d = q.d
  BY <1>0, <1>1, <1>2, WithSMIs
<1>4. Only(q, r, {"pos", "startpos"}, Idle)
  BY <1>1, <1>3, SameS DEF Only
<1>5. Inv(r, o)
  BY <1>3, <1>4, FrameInv
<1> QED BY <1>5 DEF r

-----------------------------------------------------------------------------
(* The drive and its disc. *)

(* The drive plays on, comes to the end or fails. *)
LEMMA PlayingInv ==
  ASSUME NEW q, NEW r, NEW o, Inv(q, o), q.d.st = "playing", Typed(r),
         r.s = q.s, r.m = q.m, r.app = q.app, r.d.end = q.d.end,
         r.d.st \in {"playing", "done", "error"}, r.d.st = "error" => "error" \in o,
         r.d.pos = q.d.pos \/ (r.d.pos = q.d.pos + 1 /\ r.d.pos < r.d.end)
  PROVE  Inv(r, o)
<1>1. q.s.mode \in {"PLAY", "SAMPLE"}
  BY DEF Inv, Ok, Quiet
<1>2. Unforced(r) /\ Timed(r, o) /\ Placed(r, o)
  BY <1>1 DEF Inv, Unforced, Timed, Placed
<1>3. Flags(r, o) /\ Lists(r) /\ Entered(r) /\ Quiet(r) /\ Resumable(r, o)
  BY <1>1
     DEF Inv, Ok, Flags, Lists, Entered, Quiet, Resumable, On, Listed, Heard
<1>4. InSeg(r)
  BY DEF Inv, Ok, InSeg, On, Heard
<1>5. InEntries(r, o)
  <2> SUFFICES ASSUME r.app = "xmcd", On(r), Listed(r) PROVE InEntry(r, o, EntryOf(r))
    BY DEF InEntries
  <2>1. InEntry(q, o, EntryOf(q)) /\ EntryOf(q) = EntryOf(r)
    BY DEF Inv, Ok, InEntries, On, Listed, EntryOf
  <2> DEFINE t == EntryOf(r)
  <2>2. SUFFICES ASSUME t \in Audio
                 PROVE  /\ Within(r, t) /\ r.d.end <= TrackEnd(t)
                        /\ Clip(r.m.sav_msf) <= TrackEnd(t)
                        /\ "warp" \in o => r.s.cur_trk = t
    BY DEF InEntry
  <2>3. t \in Track
    BY <2>2, Discs
  <2> HIDE DEF t
  <2>4. Toc[t] \in Nat /\ TrackEnd(t) \in Nat
    BY <2>3, TrackBounds
  <2>5. q.d.pos \in Nat /\ q.d.end \in Int
    BY ClippedMsf DEF Inv
  <2>6. /\ Within(q, t) /\ q.d.end <= TrackEnd(t)
        /\ Clip(q.m.sav_msf) <= TrackEnd(t)
        /\ "warp" \in o => q.s.cur_trk = t
    BY <2>1, <2>2 DEF InEntry, Heard, t
  <2>7. Within(r, t)
    BY <2>4, <2>5, <2>6 DEF Within
  <2> QED BY <2>6, <2>7
<1> QED BY <1>2, <1>3, <1>4, <1>5 DEF Inv, Ok

(* The drive plays a block. *)
Turned(q) == [q EXCEPT !.d.pos = @ + 1]

(* It has not come to its end. *)
LEMMA TurnedInv ==
  ASSUME NEW q, NEW o, Inv(q, o), q.d.st = "playing", q.d.pos + 1 < q.d.end
  PROVE  Inv(Turned(q), o)
<1>1. /\ Typed(q) /\ q \in State /\ q.d \in Drive /\ q.d.end \in Block
      /\ q.d.pos \in Block
  BY Parts DEF Inv, Typed, Drive
<1>2. Leadout \in Nat
  BY Discs
<1>3. q.d.pos + 1 \in Block /\ q.d.pos + 1 < Leadout
  BY <1>1, <1>2 DEF Block
<1> DEFINE x == [q.d EXCEPT !.pos = q.d.pos + 1]
           r == WithD(q, x)
<1>4. x \in Drive /\ x.st = q.d.st /\ x.end = q.d.end /\ x.pos = q.d.pos + 1
  BY <1>1, <1>3 DEF Drive
<1>5. Turned(q) = r
  BY <1>1 DEF Turned, WithD, State
<1> HIDE DEF x
<1>6. r \in State /\ r.s = q.s /\ r.m = q.m /\ r.d = x /\ r.app = q.app
  BY <1>1, <1>4, WithDIs
<1> HIDE DEF r
<1>7. Typed(r)
  BY <1>1, <1>3, <1>4, <1>6 DEF Typed
<1>8. Inv(r, o)
  BY <1>4, <1>6, <1>7, PlayingInv
<1> QED BY <1>5, <1>8

(* The drive has come to its end, or to a block that it cannot read. *)
Finished(q, st) == [q EXCEPT !.d.st = st]

(* It is where it was. *)
LEMMA FinishedInv ==
  ASSUME NEW q, NEW o, Inv(q, o), q.d.st = "playing",
         NEW st \in {"done", "error"}, st = "error" => "error" \in o
  PROVE  Inv(Finished(q, st), o)
<1>1. /\ Typed(q) /\ q \in State /\ q.d \in Drive /\ q.d.end \in Block
      /\ q.d.pos < Leadout
  BY Parts DEF Inv, Typed
<1> DEFINE x == [q.d EXCEPT !.st = st]
           r == WithD(q, x)
<1>4. x \in Drive /\ x.st = st /\ x.end = q.d.end /\ x.pos = q.d.pos
  BY <1>1 DEF Drive
<1>5. Finished(q, st) = r
  BY <1>1 DEF Finished, WithD, State
<1> HIDE DEF x
<1>6. r \in State /\ r.s = q.s /\ r.m = q.m /\ r.d = x /\ r.app = q.app
  BY <1>1, <1>4, WithDIs
<1> HIDE DEF r
<1>7. Typed(r)
  BY <1>1, <1>4, <1>6 DEF Typed
<1>8. Inv(r, o)
  BY <1>4, <1>6, <1>7, PlayingInv
<1> QED BY <1>5, <1>8

(* The disc is taken out, ... *)
Still(st) == [st |-> st, pos |-> 0, end |-> 0]

(* Only the drive changes. *)
LEMMA StillIs ==
  ASSUME NEW q, Typed(q), NEW st \in {"empty", "idle"}
  PROVE  LET r == [q EXCEPT !.d = Still(st)]
         IN  Typed(r) /\ r.s = q.s /\ r.m = q.m /\ r.app = q.app /\ r.d.st = st
<1>1. q \in State
  BY Parts
<1>2. Leadout \in Nat /\ Leadout > 0
  BY Discs
<1> DEFINE x == Still(st)
<1>3. x \in Drive /\ x.st = st /\ x.pos = 0 /\ x.end = 0 /\ 0 \in Block
  BY <1>2 DEF Drive, Block, Still
<1> HIDE DEF x
<1> DEFINE r == WithD(q, x)
<1>4. r \in State /\ r.s = q.s /\ r.m = q.m /\ r.d = x /\ r.app = q.app
  BY <1>1, <1>3, WithDIs
<1> HIDE DEF r
<1>5. Typed(r)
  BY <1>2, <1>3, <1>4 DEF Typed
<1> QED BY <1>3, <1>4, <1>5 DEF r, WithD, x

(* Nobody has noticed yet. *)
LEMMA RemovedInv ==
  ASSUME NEW q, NEW o, Inv(q, o), q.d.st # "empty"
  PROVE  Inv([q EXCEPT !.d = Still("empty")], o)
<1> DEFINE r == [q EXCEPT !.d = Still("empty")]
<1>0. Typed(q)
  BY DEF Inv
<1>1. Typed(r) /\ r.s = q.s /\ r.m = q.m /\ r.app = q.app /\ r.d.st = "empty"
  BY <1>0, StillIs
<1> HIDE DEF r
<1>2. Unforced(r) /\ Timed(r, o) /\ Placed(r, o)
  BY <1>1 DEF Inv, Unforced, Timed, Placed
<1>3. Flags(r, o) /\ Lists(r) /\ Entered(r) /\ Quiet(r) /\ Resumable(r, o)
  BY <1>1
     DEF Inv, Ok, Flags, Lists, Entered, Quiet, Resumable, On, Listed, Heard
<1>4. InSeg(r) /\ InEntries(r, o)
  BY <1>1 DEF Inv, Ok, InSeg, InEntries, InEntry, EntryOf, On, Listed, Heard
<1> QED BY <1>1, <1>2, <1>3, <1>4 DEF Inv, Ok, r

(* ... and another is put in. *)
LEMMA InsertedInv ==
  ASSUME NEW q, NEW o, Inv(q, o), q.d.st = "empty",
         IF q.app = "cda" THEN q.s.mode # "PLAY"
         ELSE q.m.stat_polling => ~ q.m.stat_id /\ q.m.stray = 0
  PROVE  Inv([q EXCEPT !.d = Still("idle")], o)
<1> DEFINE r == [q EXCEPT !.d = Still("idle")]
<1>0. Typed(q)
  BY DEF Inv
<1>1. Typed(r) /\ r.s = q.s /\ r.m = q.m /\ r.app = q.app /\ r.d.st = "idle"
  BY <1>0, StillIs
<1> HIDE DEF r
<1>1a. /\ q.m.stray \in Nat /\ q.app \in {"xmcd", "cda"}
       /\ q.m.stat_polling \in BOOLEAN
  BY <1>0, Parts, Blks DEF Statics, State
<1>2. q.app = "xmcd" => ~ q.m.stat_polling /\ q.s.mode \notin {"PLAY", "SAMPLE"}
  BY <1>1a DEF Inv, Timed
<1>3. Unforced(r) /\ Timed(r, o) /\ Placed(r, o)
  BY <1>1, <1>2 DEF Inv, Unforced, Timed, Placed
<1>4. Flags(r, o) /\ Lists(r) /\ Entered(r) /\ Quiet(r) /\ Resumable(r, o)
  BY <1>1
     DEF Inv, Ok, Flags, Lists, Entered, Quiet, Resumable, On, Listed, Heard
<1>5. InSeg(r) /\ InEntries(r, o)
  BY <1>1, <1>2
     DEF Inv, Ok, InSeg, InEntries, InEntry, EntryOf, On, Listed, Heard
<1> QED BY <1>1, <1>3, <1>4, <1>5 DEF Inv, Ok, r

-----------------------------------------------------------------------------
(* The actions. *)

(* The first state: no disc has been looked for, or it is stopped. *)
LEMMA InitInv ==
  ASSUME Sane, Init
  PROVE  Inv(p, ops)
<1>1. Leadout \in Nat /\ Leadout > 0 /\ 0 \in Block /\ MaxStray \in Nat
  BY Discs, Blks, Zero
<1>2. Nil \in Seq(Track) /\ <<>> = Nil
  BY NilIs
<1>3. p.s \in Curstat
  BY <1>1, <1>2 DEF Init, Curstat
<1>4. p.m \in Statics
  BY <1>1 DEF Init, Statics
<1>5. p.d \in Drive
  BY <1>1 DEF Init, Drive
<1>6. Typed(p)
  BY <1>1, <1>3, <1>4, <1>5 DEF Init, State, Typed
<1>7. Flags(p, ops) /\ Lists(p) /\ Resumable(p, ops)
  BY DEF Init, Flags, Lists, Resumable, Heard, Listed
<1>8. Ok(p, ops)
  BY <1>6, <1>7, StoppedOk DEF Init
<1>9. Unforced(p) /\ Timed(p, ops) /\ Placed(p, ops)
  BY DEF Init, Unforced, Timed, Placed
<1> QED BY <1>6, <1>8, <1>9 DEF Inv

(* The commands of xmcd: ... *)
LEMMA GivenInv ==
  ASSUME NEW op, NEW q, Inv(q, ops), Given(op, q)
  PROVE  Inv(p', ops)
BY RetInv DEF Given

(* A click that is counted. *)
LEMMA ClickedInv ==
  ASSUME NEW op, NEW q, Inv(q, ops), Clicked(op, q)
  PROVE  Inv(p', ops)
BY GivenInv DEF Clicked

(* No data track is chosen. *)
LEMMA ChosenIs ==
  ASSUME NEW t \in Track, Chosen(t), Plain(ops)
  PROVE  t \in Audio
BY DEF Chosen, Plain

(* The buttons of the main window. *)
LEMMA ButtonsInv ==
  ASSUME Sane, Plain(ops), Inv(p, ops),
         PlayPause \/ Stop \/ Prevtrk \/ Nexttrk \/ IndexSearch \/ Sample \/ Ab \/ Eject
  PROVE  Inv(p', ops)
<1>1. CASE PlayPause
  <2>1. PICK w \in World : Given("play", CdPlayPause(p, w)) BY <1>1 DEF PlayPause
  <2>2. Inv(CdPlayPause(p, w), ops) BY PlayButtonInv
  <2> QED BY <2>1, <2>2, GivenInv
<1>2. CASE Stop
  <2>1. PICK w \in World : Given("stop", CdStop(p, w)) BY <1>2 DEF Stop
  <2>2. Inv(CdStop(p, w), ops) BY StopButtonInv
  <2> QED BY <2>1, <2>2, GivenInv
<1>3. CASE Prevtrk
  <2>1. PICK w \in World : Given("prev", CdPrevtrk(p, w)) BY <1>3 DEF Prevtrk
  <2>2. Inv(CdPrevtrk(p, w), ops) BY PrevtrkInv
  <2> QED BY <2>1, <2>2, GivenInv
<1>4. CASE Nexttrk
  <2>1. PICK w \in World : Given("next", CdNexttrk(p, w)) BY <1>4 DEF Nexttrk
  <2>2. Inv(CdNexttrk(p, w), ops) BY NexttrkInv
  <2> QED BY <2>1, <2>2, GivenInv
<1>5. CASE IndexSearch
  <2>1. PICK w \in World : Given("index", Index(p, w)) BY <1>5 DEF IndexSearch
  <2>2. Inv(Index(p, w), ops) BY IndexInv
  <2> QED BY <2>1, <2>2, GivenInv
<1>6. CASE Sample
  <2>1. PICK w \in World : Given("sample", CdSample(p, w)) BY <1>6 DEF Sample
  <2>2. p.app = "xmcd" /\ "sample" \in ops BY <2>1 DEF Given
  <2>3. Inv(CdSample(p, w), ops) BY <2>2, SampleInv
  <2> QED BY <2>1, <2>3, GivenInv
<1>7. CASE Ab
  <2>1. PICK w \in World : Given("ab", CdAb(p, w)) BY <1>7 DEF Ab
  <2>2. p.app = "xmcd" BY <2>1 DEF Given
  <2>3. Inv(CdAb(p, w), ops) BY <2>2, AbInv
  <2> QED BY <2>1, <2>3, GivenInv
<1>8. CASE Eject
  <2>1. PICK w \in World : Given("eject", LoadEject(p, w)) BY <1>8 DEF Eject
  <2>2. Inv(LoadEject(p, w), ops) BY EjectInv
  <2> QED BY <2>1, <2>2, GivenInv
<1> QED BY <1>1, <1>2, <1>3, <1>4, <1>5, <1>6, <1>7, <1>8

(* ... the slider, the keypad, the windows and the switches, ... *)
LEMMA WindowsInv ==
  ASSUME Sane, Plain(ops), Inv(p, ops),
         Warp \/ Keypad \/ Shuffle \/ Repeat \/ EditProgram \/ ListPlay \/ Segment \/ Iconify
  PROVE  Inv(p', ops)
<1>1. CASE Warp
  <2>1. PICK w \in World, t \in Track : \E off \in 0..TrackEnd(t) - Toc[t] - 1 :
           /\ (p.s.mode = "STOP" => "preset" \in ops)
           /\ Clicked("warp", CdWarp(p, w, t, off))
    BY <1>1 DEF Warp
  <2>2. PICK off \in 0..TrackEnd(t) - Toc[t] - 1 :
           (p.s.mode = "STOP" => "preset" \in ops) /\ Clicked("warp", CdWarp(p, w, t, off))
    BY <2>1
  <2>3. p.app = "xmcd" /\ "warp" \in ops /\ p.s.mode # "STOP"
    BY <2>2 DEF Clicked, Given, Plain
  <2>4. Inv(CdWarp(p, w, t, off), ops)
    BY <2>3, WarpInv
  <2> QED BY <2>2, <2>4, ClickedInv
<1>2. CASE Keypad
  <2>1. PICK w \in World, t \in Track : Chosen(t) /\ Clicked("keypad", KeypadEnter(p, w, t, 0))
    BY <1>2 DEF Keypad
  <2>2. t \in Audio /\ p.app = "xmcd"
    BY <2>1, ChosenIs DEF Clicked, Given
  <2>3. Inv(KeypadEnter(p, w, t, 0), ops)
    BY <2>2, KeypadInv
  <2> QED BY <2>1, <2>3, ClickedInv
<1>3. CASE Shuffle
  <2>1. p.app = "xmcd"
    BY <1>3 DEF Shuffle, Clicked, Given
  <2>2. Inv(CdShuffle(p), ops)
    BY <2>1, ShuffleInv
  <2> QED BY <1>3, <2>2, ClickedInv DEF Shuffle
<1>4. CASE Repeat
  <2>1. Inv(SlRepeat(p, ~ p.s.repeat), ops)
    BY RepeatInv
  <2> QED BY <1>4, <2>1, ClickedInv DEF Repeat
<1>5. CASE EditProgram
  <2>1. PICK plan \in Programs \cup {<<>>} :
           p.s.mode = "STOP" /\ Clicked("program", PgmseqTxtchg(p, plan))
    BY <1>5 DEF EditProgram
  <2>2. p.app = "xmcd" /\ plan \in Seq(Track)
    BY <2>1, Blks, NilIs DEF Clicked, Given
  <2>3. Inv(PgmseqTxtchg(p, plan), ops)
    BY <2>1, <2>2, ProgramInv
  <2> QED BY <2>1, <2>3, ClickedInv
<1>6. CASE ListPlay
  <2>1. PICK w \in World, t \in Track :
           /\ p.s.mode # "NODISC" /\ Chosen(t)
           /\ Clicked("list", TrklistPlay(p, w, t))
    BY <1>6 DEF ListPlay
  <2>2. t \in Audio /\ p.app = "xmcd"
    BY <2>1, ChosenIs DEF Clicked, Given
  <2>3. Inv(TrklistPlay(p, w, t), ops)
    BY <2>1, <2>2, ListPlayInv
  <2> QED BY <2>1, <2>3, ClickedInv
<1>7. CASE Segment
  <2>1. PICK w \in World, a \in Block, b \in Block :
           p.s.mode # "NODISC" /\ Clicked("segment", SegmentsSelect(p, w, a, b))
    BY <1>7 DEF Segment
  <2>2. p.app = "xmcd"
    BY <2>1 DEF Clicked, Given
  <2>3. Inv(SegmentsSelect(p, w, a, b), ops)
    BY <2>1, <2>2, SegmentInv
  <2> QED BY <2>1, <2>3, ClickedInv
<1>8. CASE Iconify
  <2>1. PICK b \in BOOLEAN : Clicked("icon", Icon(p, b))
    BY <1>8 DEF Iconify
  <2>2. p.app = "xmcd"
    BY <2>1 DEF Clicked, Given
  <2>3. Inv(Icon(p, b), ops)
    BY <2>2, IconInv
  <2> QED BY <2>1, <2>3, ClickedInv
<1> QED BY <1>1, <1>2, <1>3, <1>4, <1>5, <1>6, <1>7, <1>8

(* ... and the answer to a question. *)
LEMMA AnswerInv ==
  ASSUME Sane, Plain(ops), Inv(p, ops), Answer
  PROVE  Inv(p', ops)
<1>1. p.app = "xmcd"
  <2>1. p.app \in {"xmcd", "cda"} /\ (p.app = "cda" => p.m.ask = "no")
    BY Parts DEF Inv, Ok, Flags, State
  <2> QED BY <2>1 DEF Answer
<1>2. CASE \E w \in World : p' = Ret(ShuffleYes(p, w), FALSE)
  <2>1. PICK w \in World : p' = Ret(ShuffleYes(p, w), FALSE)
    BY <1>2
  <2>2. Inv(ShuffleYes(p, w), ops)
    BY <1>1, ShuffleYesInv
  <2> QED BY <2>1, <2>2, RetInv
<1>3. CASE p' = [p EXCEPT !.m.ask = "no"]
  <2>1. Inv(Asked(p, "no"), ops)
    BY AskedInv
  <2> QED BY <1>3, <2>1 DEF Asked
<1> QED BY <1>2, <1>3 DEF Answer

(* What a search would do. *)
LEMMA NoSearch ==
  ASSUME Plain(ops), Inv(p, ops), Search \/ LetGo \/ SearchTimer
  PROVE  FALSE
<1>1. p.m.searching = "no" /\ p.m.search_id = FALSE
  BY DEF Inv, Ok, Flags
<1>2. CASE Search
  BY <1>2 DEF Search, Given, Plain
<1>3. CASE LetGo
  BY <1>1, <1>3 DEF LetGo, Searching
<1>4. CASE SearchTimer
  BY <1>1, <1>4 DEF SearchTimer
<1> QED BY <1>2, <1>3, <1>4

(* The timers. *)
LEMMA TimersInv ==
  ASSUME Sane, Plain(ops), Inv(p, ops), StatPoll \/ StrayPoll \/ InsertPoll
  PROVE  Inv(p', ops)
<1>0. Typed(p)
  BY DEF Inv
<1>1. p.app \in {"xmcd", "cda"} /\ (p.app = "cda" => p.m.stat_id = FALSE /\ p.m.stray = 0)
  BY Parts, <1>0 DEF Inv, Ok, Flags, State
<1>2. CASE StatPoll
  <2>1. PICK w \in World : p' = Ret(Poll(Due(p), w), FALSE)
    BY <1>2 DEF StatPoll, Due
  <2>2. p.app = "xmcd"
    BY <1>1, <1>2 DEF StatPoll
  <2> DEFINE x == Due(p)
  <2>3. /\ Only(p, x, {}, TimerFields) /\ x.d = p.d
        /\ x.m.stat_polling = p.m.stat_polling
    BY <1>0, DueIs
  <2> HIDE DEF x
  <2>4. Inv(Poll(x, w), ops)
    BY <2>2, <2>3, PollInv
  <2> QED BY <2>1, <2>4, RetInv DEF x
<1>3. CASE StrayPoll
  <2>1. PICK w \in World : p' = Ret(Poll(DueStray(p), w), FALSE)
    BY <1>3 DEF StrayPoll, DueStray
  <2>2. p.app = "xmcd" /\ p.m.stray > 0
    BY <1>1, <1>3 DEF StrayPoll
  <2> DEFINE x == DueStray(p)
  <2>3. /\ Only(p, x, {}, TimerFields) /\ x.d = p.d
        /\ x.m.stat_polling = p.m.stat_polling
    BY <1>0, <2>2, DueStrayIs
  <2> HIDE DEF x
  <2>4. Inv(Poll(x, w), ops)
    BY <2>2, <2>3, PollInv
  <2> QED BY <2>1, <2>4, RetInv DEF x
<1>4. CASE InsertPoll
  <2> DEFINE q == DiscReady(p)
  <2>1. p' = Ret(Watched(q, ~ q.ret), FALSE)
    BY <1>4 DEF InsertPoll, Watched
  <2>2. Inv(q, ops) /\ Awake(q)
    BY AwakeInv
  <2> HIDE DEF q
  <2>3. Inv(Watched(q, ~ q.ret), ops)
    BY <2>2, WatchedInv
  <2> QED BY <2>1, <2>3, RetInv
<1> QED BY <1>2, <1>3, <1>4

(* The drive. *)
LEMMA DriveInv ==
  ASSUME Inv(p, ops), DriveStep \/ DriveError \/ Remove \/ Insert
  PROVE  Inv(p', ops)
<1>1. CASE DriveStep
  <2>1. CASE p.d.pos + 1 < p.d.end
    BY <1>1, <2>1, TurnedInv DEF DriveStep, Turned
  <2>2. CASE ~ (p.d.pos + 1 < p.d.end)
    <3>1. Inv(Finished(p, "done"), ops)
      BY <1>1, FinishedInv DEF DriveStep
    <3> QED BY <1>1, <2>2, <3>1 DEF DriveStep, Finished
  <2> QED BY <2>1, <2>2
<1>2. CASE DriveError
  <2>1. Inv(Finished(p, "error"), ops)
    BY <1>2, FinishedInv DEF DriveError
  <2> QED BY <1>2, <2>1 DEF DriveError, Finished
<1>3. CASE Remove
  BY <1>3, RemovedInv DEF Remove, Still
<1>4. CASE Insert
  BY <1>4, InsertedInv DEF Insert, Still
<1> QED BY <1>1, <1>2, <1>3, <1>4

(* The commands of cda's clients. *)
LEMMA ServedInv ==
  ASSUME NEW op, NEW q, Inv(q, ops), Served(op, q)
  PROVE  Inv(p', ops)
BY RetInv DEF Served

(* A command of the daemon finds what the update leaves. *)
LEMMA ReadyInvs ==
  ASSUME Sane, Inv(p, ops), p.app = "cda", NEW w \in World, NEW q \in Ready(w)
  PROVE  Inv(q, ops) /\ q.app = "cda" /\ (p.s.mode = "STOP" => q = p)
<1>1. PICK due \in BOOLEAN : q = Update(p, w, due)
  BY DEF Ready
<1>2. LET r == Update(p, w, due) IN Inv(r, ops) /\ r.app = "cda"
  BY UpdateInv
<1>3. p.s.mode = "STOP" => Update(p, w, due) = p
  BY DEF Update
<1> QED BY <1>1, <1>2, <1>3

(* A place that is given with a track is one that can be played from. *)
LEMMA PlaceIs ==
  ASSUME NEW t \in Track, NEW off \in 0..TrackEnd(t) - Toc[t],
         ~ Unplayed(t, off), off # NoPlace
  PROVE  off \in Nat /\ Toc[t] + off < Clip(TrackEnd(t))
<1>1. t # 0 /\ Toc[t] \in Nat /\ TrackEnd(t) \in Nat
  BY TrackBounds DEF Track
<1>2. Clip(TrackEnd(t)) \in Nat
  BY <1>1, Clipped
<1> QED BY <1>1, <1>2 DEF Unplayed

(* cda play. *)
LEMMA PlaysInv ==
  ASSUME Sane, Plain(ops), Inv(p, ops), CdaPlay
  PROVE  Inv(p', ops)
<1>1. PICK w \in World : \E q \in Ready(w), t \in {0} \cup Track :
        \E off \in {NoPlace} \cup IF t = 0 THEN {} ELSE 0..TrackEnd(t) - Toc[t] :
           /\ t = 0 \/ Chosen(t)
           /\ Unplayed(t, off) => "beyond" \in ops
           /\ Served("play", DoPlay(q, w, t, off))
  BY DEF CdaPlay
<1>2. PICK q \in Ready(w), t \in {0} \cup Track :
        \E off \in {NoPlace} \cup IF t = 0 THEN {} ELSE 0..TrackEnd(t) - Toc[t] :
           /\ t = 0 \/ Chosen(t)
           /\ Unplayed(t, off) => "beyond" \in ops
           /\ Served("play", DoPlay(q, w, t, off))
  BY <1>1
<1>3. PICK off \in {NoPlace} \cup IF t = 0 THEN {} ELSE 0..TrackEnd(t) - Toc[t] :
           /\ t = 0 \/ Chosen(t)
           /\ Unplayed(t, off) => "beyond" \in ops
           /\ Served("play", DoPlay(q, w, t, off))
  BY <1>2
<1>4. p.app = "cda"
  BY <1>3 DEF Served
<1>5. Inv(q, ops) /\ q.app = "cda"
  BY <1>4, ReadyInvs
<1>6. t \in {0} \cup Audio
  BY <1>3, ChosenIs
<1>7. ~ Unplayed(t, off)
  BY <1>3 DEF Plain
<1>8. t # 0 /\ off # NoPlace => off \in Nat /\ Toc[t] + off < Clip(TrackEnd(t))
  <2> SUFFICES ASSUME t # 0, off # NoPlace PROVE off \in Nat /\ Toc[t] + off < Clip(TrackEnd(t))
    OBVIOUS
  <2>1. t \in Track /\ off \in 0..TrackEnd(t) - Toc[t]
    BY <1>3
  <2> QED BY <2>1, <1>7, PlaceIs
<1>9. off \in Int
  <2>1. CASE t = 0 BY <2>1 DEF NoPlace
  <2>2. CASE t # 0 BY <2>2 DEF NoPlace
  <2> QED BY <2>1, <2>2
<1>10. Inv(DoPlay(q, w, t, off), ops)
  BY <1>5, <1>6, <1>8, <1>9, CdaPlayInv
<1> QED BY <1>3, <1>10, ServedInv

(* The other commands that move the play, ... *)
LEMMA ServicesInv ==
  ASSUME Sane, Plain(ops), Inv(p, ops),
         CdaPause \/ CdaStop \/ CdaTrack \/ CdaIndex \/ CdaDisc
  PROVE  Inv(p', ops)
<1>1. CASE CdaPause
  <2>1. PICK w \in World : \E q \in Ready(w) : Served("pause", DoPause(q, w)) BY <1>1 DEF CdaPause
  <2>2. PICK q \in Ready(w) : Served("pause", DoPause(q, w)) BY <2>1
  <2>3. Inv(q, ops) BY <2>2, ReadyInvs DEF Served
  <2>4. Inv(DoPause(q, w), ops) BY <2>3, CdaPauseInv
  <2> QED BY <2>2, <2>4, ServedInv
<1>2. CASE CdaStop
  <2>1. PICK w \in World : \E q \in Ready(w) : Served("stop", DoStop(q, w)) BY <1>2 DEF CdaStop
  <2>2. PICK q \in Ready(w) : Served("stop", DoStop(q, w)) BY <2>1
  <2>3. Inv(q, ops) BY <2>2, ReadyInvs DEF Served
  <2>4. Inv(DoStop(q, w), ops) BY <2>3, CdaStopInv
  <2> QED BY <2>2, <2>4, ServedInv
<1>3. CASE CdaTrack
  <2>1. PICK w \in World : \E q \in Ready(w) :
           Served("prev", DoPrev(q, w)) \/ Served("next", DoNext(q, w)) BY <1>3 DEF CdaTrack
  <2>2. PICK q \in Ready(w) : Served("prev", DoPrev(q, w)) \/ Served("next", DoNext(q, w)) BY <2>1
  <2>3. Inv(q, ops) BY <2>2, ReadyInvs DEF Served
  <2>4. Inv(DoPrev(q, w), ops) BY <2>3, CdaPrevInv
  <2>5. Inv(DoNext(q, w), ops) BY <2>3, CdaNextInv
  <2> QED BY <2>2, <2>4, <2>5, ServedInv
<1>4. CASE CdaIndex
  <2>1. PICK w \in World : \E q \in Ready(w) : Served("index", DoIndex(q, w)) BY <1>4 DEF CdaIndex
  <2>2. PICK q \in Ready(w) : Served("index", DoIndex(q, w)) BY <2>1
  <2>3. Inv(q, ops) BY <2>2, ReadyInvs DEF Served
  <2>4. Inv(DoIndex(q, w), ops) BY <2>3, CdaIndexInv
  <2> QED BY <2>2, <2>4, ServedInv
<1>5. CASE CdaDisc
  <2>1. PICK w \in World : \E q \in Ready(w) : Served("eject", DoEject(q, w)) BY <1>5 DEF CdaDisc
  <2>2. PICK q \in Ready(w) : Served("eject", DoEject(q, w)) BY <2>1
  <2>3. Inv(q, ops) BY <2>2, ReadyInvs DEF Served
  <2>4. Inv(DoEject(q, w), ops) BY <2>3, CdaEjectInv
  <2> QED BY <2>2, <2>4, ServedInv
<1> QED BY <1>1, <1>2, <1>3, <1>4, <1>5

(* ... those that change the list, and the poll. *)
LEMMA SwitchesInv ==
  ASSUME Sane, Plain(ops), Inv(p, ops),
         CdaProgram \/ CdaShuffle \/ CdaRepeat \/ CdaPoll
  PROVE  Inv(p', ops)
<1>1. CASE CdaProgram
  <2>1. PICK w \in World : \E q \in Ready(w) :
          \/ \E plan \in Programs : /\ p.s.mode = "STOP" \/ "edit" \in ops
                                    /\ Served("program", DoDefine(q, plan))
          \/ Served("program", DoClear(q))
    BY <1>1 DEF CdaProgram
  <2>2. PICK q \in Ready(w) :
          \/ \E plan \in Programs : /\ p.s.mode = "STOP" \/ "edit" \in ops
                                    /\ Served("program", DoDefine(q, plan))
          \/ Served("program", DoClear(q))
    BY <2>1
  <2>3. Inv(q, ops) /\ q.app = "cda" /\ (p.s.mode = "STOP" => q = p)
    BY <2>2, ReadyInvs DEF Served
  <2>4. CASE Served("program", DoClear(q))
    <3>1. Inv(DoClear(q), ops) BY <2>3, CdaClearInv
    <3> QED BY <2>4, <3>1, ServedInv
  <2>5. CASE \E plan \in Programs : (p.s.mode = "STOP" \/ "edit" \in ops)
                                    /\ Served("program", DoDefine(q, plan))
    <3>1. PICK plan \in Programs : (p.s.mode = "STOP" \/ "edit" \in ops)
                                   /\ Served("program", DoDefine(q, plan))
      BY <2>5
    <3>2. q.s.mode = "STOP" /\ plan \in Seq(Track)
      BY <2>3, <3>1, Blks DEF Plain
    <3>3. Inv(DoDefine(q, plan), ops) BY <2>3, <3>2, CdaDefineInv
    <3> QED BY <3>1, <3>3, ServedInv
  <2> QED BY <2>2, <2>4, <2>5
<1>2. CASE CdaShuffle
  <2>1. PICK w \in World : \E q \in Ready(w), b \in BOOLEAN : Served("shuffle", DoShuffle(q, b))
    BY <1>2 DEF CdaShuffle
  <2>2. PICK q \in Ready(w), b \in BOOLEAN : Served("shuffle", DoShuffle(q, b)) BY <2>1
  <2>3. Inv(q, ops) /\ q.app = "cda" BY <2>2, ReadyInvs DEF Served
  <2>4. Inv(DoShuffle(q, b), ops) BY <2>3, CdaShuffleInv
  <2> QED BY <2>2, <2>4, ServedInv
<1>3. CASE CdaRepeat
  <2>1. PICK w \in World : \E q \in Ready(w), b \in BOOLEAN : Served("repeat", SlRepeat(q, b))
    BY <1>3 DEF CdaRepeat
  <2>2. PICK q \in Ready(w), b \in BOOLEAN : Served("repeat", SlRepeat(q, b)) BY <2>1
  <2>3. Inv(q, ops) BY <2>2, ReadyInvs DEF Served
  <2>4. Inv(SlRepeat(q, b), ops) BY <2>3, RepeatInv
  <2> QED BY <2>2, <2>4, ServedInv
<1>4. CASE CdaPoll
  <2>1. PICK w \in World : p' = Ret(Update(p, w, TRUE), FALSE) BY <1>4 DEF CdaPoll
  <2>2. LET r == Update(p, w, TRUE) IN Inv(r, ops) /\ r.app = "cda"
    BY <1>4, UpdateInv DEF CdaPoll
  <2> QED BY <2>1, <2>2, RetInv
<1> QED BY <1>1, <1>2, <1>3, <1>4

(* Every step. *)
LEMMA NextInv ==
  ASSUME Sane, Plain(ops), Inv(p, ops), Next
  PROVE  Inv(p', ops)
<1>1. CASE PlayPause \/ Stop \/ Prevtrk \/ Nexttrk \/ IndexSearch \/ Sample \/ Ab \/ Eject
  BY <1>1, ButtonsInv
<1>2. CASE Warp \/ Keypad \/ Shuffle \/ Repeat \/ EditProgram \/ ListPlay \/ Segment \/ Iconify
  BY <1>2, WindowsInv
<1>3. CASE Answer
  BY <1>3, AnswerInv
<1>4. CASE Search \/ LetGo \/ SearchTimer
  BY <1>4, NoSearch
<1>5. CASE CdaPlay
  BY <1>5, PlaysInv
<1>6. CASE CdaPause \/ CdaStop \/ CdaTrack \/ CdaIndex \/ CdaDisc
  BY <1>6, ServicesInv
<1>7. CASE CdaProgram \/ CdaShuffle \/ CdaRepeat \/ CdaPoll
  BY <1>7, SwitchesInv
<1>8. CASE StatPoll \/ StrayPoll \/ InsertPoll
  BY <1>8, TimersInv
<1>9. CASE DriveStep \/ DriveError \/ Remove \/ Insert
  BY <1>9, DriveInv
<1> QED BY <1>1, <1>2, <1>3, <1>4, <1>5, <1>6, <1>7, <1>8, <1>9 DEF Next

(* The user stays the same. *)
LEMMA OpsKept ==
  ASSUME Next
  PROVE  ops' = ops /\ (calls' = calls \/ calls' = calls + 1)
<1>1. /\ \A op, q : Given(op, q) => ops' = ops /\ calls' = calls + 1
      /\ \A op, q : Clicked(op, q) => ops' = ops /\ calls' = calls + 1
      /\ \A op, q : Served(op, q) => ops' = ops /\ calls' = calls + 1
  BY DEF Given, Clicked, Served, Counted
<1>2. CASE PlayPause \/ Stop \/ Prevtrk \/ Nexttrk \/ IndexSearch \/ Sample \/ Ab \/ Eject
  BY <1>1, <1>2
     DEF PlayPause, Stop, Prevtrk, Nexttrk, IndexSearch, Sample, Ab, Eject
<1>3. CASE Warp \/ Keypad \/ Shuffle \/ Repeat \/ EditProgram \/ ListPlay \/ Segment \/ Iconify
  BY <1>1, <1>3
     DEF Warp, Keypad, Shuffle, Repeat, EditProgram, ListPlay, Segment, Iconify
<1>4. CASE Search
  BY <1>1, <1>4 DEF Search
<1>5. CASE CdaPlay \/ CdaPause \/ CdaStop \/ CdaTrack \/ CdaIndex \/ CdaDisc
  BY <1>1, <1>5 DEF CdaPlay, CdaPause, CdaStop, CdaTrack, CdaIndex, CdaDisc
<1>6. CASE CdaProgram \/ CdaShuffle \/ CdaRepeat
  BY <1>1, <1>6 DEF CdaProgram, CdaShuffle, CdaRepeat
<1>7. CASE \/ LetGo \/ Answer \/ CdaPoll \/ StatPoll \/ StrayPoll \/ InsertPoll \/ SearchTimer
           \/ DriveStep \/ DriveError \/ Remove \/ Insert
  BY <1>7 DEF LetGo, Answer, CdaPoll, StatPoll, StrayPoll, InsertPoll, SearchTimer, DriveStep,
              DriveError, Remove, Insert, Counted
<1> QED BY <1>2, <1>3, <1>4, <1>5, <1>6, <1>7 DEF Next

-----------------------------------------------------------------------------
(* The invariant, and what follows from it. *)

(* What holds in every state. *)
LEMMA SettledAlways ==
  ASSUME Sane
  PROVE  Spec /\ Plain(ops) => []Settled
<1>1. Init /\ Plain(ops) => Settled
  BY InitInv DEF Settled, Init
<1>2. Settled /\ [Next]_vars => Settled'
  <2>1. ASSUME Settled, Next PROVE Settled'
    <3>1. Inv(p', ops)
      BY <2>1, NextInv DEF Settled
    <3>2. ops' = ops /\ calls' \in Nat
      BY <2>1, OpsKept DEF Settled
    <3> QED BY <2>1, <3>1, <3>2 DEF Settled
  <2>2. ASSUME Settled, UNCHANGED vars PROVE Settled'
    BY <2>2 DEF Settled, vars
  <2> QED BY <2>1, <2>2
<1> QED BY <1>1, <1>2, PTL DEF Spec

(* Every variable of the player keeps its type, and with it the bounds of  *)
(* every counter of slioc.c: positions, the order and its length, the      *)
(* retries.                                                                *)
THEOREM PlayerTypeCorrect ==
  ASSUME Sane
  PROVE  Spec /\ Plain(ops) => []TypeOK
<1>1. Settled => TypeOK
  BY Parts DEF Settled, TypeOK, Inv
<1> QED BY <1>1, SettledAlways, PTL

(* What plays in xmcd is watched: whenever the window shows a play or a    *)
(* sampling, a timer for slioc_stat_poll is set that will notice its end   *)
(* (the calls of slioc_start_stat_poll and its counterpart are spread over *)
(* play_pause, run_ab, stop, sample and the poll itself).                  *)
THEOREM PolledHolds ==
  ASSUME Sane
  PROVE  Spec /\ Plain(ops) => []Polled
<1>1. Settled => Polled
  BY DEF Settled, Polled, Inv, Timed
<1> QED BY <1>1, SettledAlways, PTL

(* What does not play is not heard: as long as the window shows a stop, a  *)
(* pause or no disc, the drive does not play.                              *)
THEOREM SilentHolds ==
  ASSUME Sane
  PROVE  Spec /\ Plain(ops) => []Silent
<1>1. Settled => Silent
  BY DEF Settled, Silent, Inv, Ok, Quiet
<1> QED BY <1>1, SettledAlways, PTL

(* A segment is kept: what plays in A-B mode ends at the end of the        *)
(* segment at the latest, whatever was skipped, repeated or started anew.  *)
THEOREM InSegmentHolds ==
  ASSUME Sane
  PROVE  Spec /\ Plain(ops) => []InSegment
<1>1. Settled => InSegment
  BY DEF Settled, InSegment, Inv, Ok, InSeg, On, Heard
<1> QED BY <1>1, SettledAlways, PTL

(* A list is kept: in a program or a shuffle of xmcd the drive is in the   *)
(* track of the entry that is being played, and plays no further. (The     *)
(* daemon may play a list from a place given with "cda play", and then     *)
(* refuses what TLC shows under "Disagreements".)                          *)
THEOREM InListHolds ==
  ASSUME Sane
  PROVE  Spec /\ Plain(ops) => []("daemon" \notin ops => InList)
<1>1. Settled => ("daemon" \notin ops => InList)
  <2> SUFFICES ASSUME Settled, "daemon" \notin ops,
                      p.s.mode \in {"PLAY", "PAUSE"}, Listed(p)
               PROVE  /\ p.s.prog_cnt \in 1..Len(p.s.order)
                      /\ p.d.st \in {"playing", "paused"} /\ EntryOf(p) \in Audio
                           => Toc[EntryOf(p)] <= p.d.pos /\ p.d.end <= TrackEnd(EntryOf(p))
    BY DEF InList, EntryOf
  <2>1. p.s.prog_cnt \in 1..Len(p.s.order)
    BY DEF Settled, Inv, Ok, Entered, On
  <2>2. InEntry(p, ops, EntryOf(p))
    BY DEF Settled, Inv, Ok, Flags, InEntries, On
  <2> QED BY <2>1, <2>2 DEF InEntry, Within, Heard
<1> QED BY <1>1, SettledAlways, PTL

-----------------------------------------------------------------------------
(* What a step does to the order and to what is left: a status, ... *)

(* What a step that leaves them alone does not count. *)
LEMMA Counts ==
  ASSUME NEW q, NEW r, NEW F, NEW G, Only(q, r, F, G)
  PROVE  /\ "next_sam" \notin G => r.m.next_sam = q.m.next_sam
         /\ "nostatcnt" \notin G => r.m.nostatcnt = q.m.nostatcnt
BY DEF Only, MBut, MFields

(* TakesTurn, of a step that is given by its two states. *)
Turns(q, r) ==
  /\ Listed(q) /\ q.s.mode = "PLAY" /\ r.s.mode = "PLAY"
  /\ (q.d.st \in {"done", "idle"} /\ r.d.st = "playing") \/ r.s.prog_cnt # q.s.prog_cnt
  => /\ q.d.st # "playing"
     /\ \/ r.s.prog_cnt = q.s.prog_cnt + 1
        \/ q.s.repeat /\ r.s.prog_cnt = 1 /\ q.s.prog_cnt = Len(q.s.order)

(* A drive that is not playing. *)
Standing == {"idle", "paused", "done", "error"}

(* GoesOn, likewise. *)
Onward(q, r) ==
  /\ ~ q.s.repeat /\ q.d.st \in Standing /\ q.s.mode \in {"PLAY", "SAMPLE"} /\ r.s.mode = q.s.mode
  => \/ q.m.new_progshuf /\ ~ r.m.new_progshuf
     \/ /\ r.m.new_progshuf = q.m.new_progshuf
        /\ \/ Left(r) < Left(q)
           \/ /\ Left(r) = Left(q)
              /\ \/ r.m.nostatcnt = q.m.nostatcnt + 1
                 \/ q.d.st = "error" /\ q.d.pos < r.d.pos /\ r.d.end <= q.d.end

(* What a status only shows. *)
LEMMA BasedFields ==
  ASSUME NEW q, NEW b, Based(q, b)
  PROVE  /\ Typed(b) /\ b.s.mode = q.s.mode /\ b.s.program = q.s.program
         /\ b.s.shuffle = q.s.shuffle
         /\ b.s.order = q.s.order /\ b.s.prog_cnt = q.s.prog_cnt
         /\ b.s.repeat = q.s.repeat
         /\ b.m.new_progshuf = q.m.new_progshuf /\ b.m.next_sam = q.m.next_sam
         /\ b.d.st = IF q.d.st \in {"done", "error"} THEN "idle" ELSE q.d.st
<1>1. Only(q, b, PlaceFields, StatusFields \cup {"fake_stop", "sav_end"})
  BY DEF Based
<1>2. /\ b.s.mode = q.s.mode /\ b.s.program = q.s.program
      /\ b.s.shuffle = q.s.shuffle
      /\ b.s.order = q.s.order /\ b.s.prog_cnt = q.s.prog_cnt
      /\ b.s.repeat = q.s.repeat
      /\ b.m.new_progshuf = q.m.new_progshuf
  BY <1>1, Fields DEF PlaceFields, StatusFields
<1>3. b.m.next_sam = q.m.next_sam
  BY <1>1, Counts DEF StatusFields
<1> QED BY <1>1, <1>2, <1>3 DEF Only, Based

(* A new sequence is not over before it has begun. *)
LEMMA FreshIs ==
  ASSUME Sane, NEW q, NEW w \in World, Typed(q), Listed(q), HasAudio(q.s.order),
         q.m.new_progshuf
  PROVE  ~ Over(q, w)
<1>1. w.order \in Orders
  BY DEF World
<1>2. HasAudio(w.order)
  BY <1>1, OrderIs
<1>3. HasAudio(Ord(q, w))
  BY <1>2 DEF Ord
<1>4. Len(Ord(q, w)) \in Nat
  BY OrdIs
<1>5. Len(Ord(q, w)) > 0
  BY <1>3, <1>4 DEF HasAudio
<1> QED BY <1>3, <1>4, <1>5 DEF Over, Mute, From

(* A status plays the entries in turn. *)
LEMMA TurnsStatus ==
  ASSUME Sane, NEW q, NEW o, NEW w \in World, Typed(q), Ok(q, o), Unforced(q),
         NEW r, Status(q, w, r)
  PROVE  Turns(q, r)
<1> SUFFICES ASSUME Listed(q), q.s.mode = "PLAY", r.s.mode = "PLAY",
                    (q.d.st \in {"done", "idle"} /\ r.d.st = "playing") \/ r.s.prog_cnt # q.s.prog_cnt
             PROVE  /\ q.d.st # "playing"
                    /\ \/ r.s.prog_cnt = q.s.prog_cnt + 1
                       \/ q.s.repeat /\ r.s.prog_cnt = 1 /\ q.s.prog_cnt = Len(q.s.order)
  BY DEF Turns
<1>0. q.m.fake_stop = FALSE /\ q.m.idx_pause = FALSE
  BY DEF Unforced
<1>1. CASE Gone(q, r)
  BY <1>1 DEF Gone, NoDisc
<1>2. CASE Goes(q, r)
  <2>1. r.s.prog_cnt = q.s.prog_cnt
    BY <1>2, Fields DEF Goes, PlaceFields
  <2> QED BY <1>2, <2>1 DEF Goes
<1>3. CASE Waits(q, r)
  <2>1. r.s.prog_cnt = q.s.prog_cnt
    BY <1>3, Fields DEF Waits, PlaceFields
  <2> QED BY <1>3, <2>1 DEF Waits
<1>4. CASE q.d.st = "error" /\ Skips(q, r)
  <2>1. Only(q, r, PlaceFields, StatusFields \cup {"sav_end"})
    BY <1>4 DEF Skips
  <2>2. r.s.prog_cnt = q.s.prog_cnt
    BY <2>1, Fields DEF PlaceFields
  <2> QED BY <1>4, <2>2
<1>5. CASE q.d.st # "empty" /\ Ends(q, w, r) /\ (q.m.fake_stop = TRUE \/ q.d.st # "playing")
  <2>1. PICK b : Based(q, b) /\ Passed(b, w, r)
    BY <1>5 DEF Ends
  <2>2. /\ Typed(b) /\ b.s.mode = q.s.mode /\ b.s.program = q.s.program
        /\ b.s.shuffle = q.s.shuffle
        /\ b.s.order = q.s.order /\ b.s.prog_cnt = q.s.prog_cnt
        /\ b.s.repeat = q.s.repeat
        /\ b.m.new_progshuf = q.m.new_progshuf
        /\ b.d.st = IF q.d.st \in {"done", "error"} THEN "idle" ELSE q.d.st
    BY <2>1, BasedFields
  <2>3. ListFollowed(b, w, r)
    BY <2>1, <2>2 DEF Passed, GoneOn, RunOut, Listed
  <2>4. On(q) /\ HasAudio(q.s.order) /\ (q.m.new_progshuf => q.s.repeat /\ q.s.prog_cnt = Len(q.s.order))
    BY DEF On, Ok, Entered
  <2>5. b.m.new_progshuf => ~ Over(b, w)
    BY <2>2, <2>4, FreshIs DEF Listed
  <2>6. CASE Over(b, w)
    BY <1>0, <1>5, <2>2, <2>3, <2>5, <2>6 DEF ListFollowed, From
  <2>7. CASE ~ Over(b, w)
    <3>1. r.s.prog_cnt = From(b) + 1
      BY <2>3, <2>7 DEF ListFollowed
    <3> QED BY <1>0, <1>5, <2>2, <2>4, <3>1 DEF From
  <2> QED BY <2>6, <2>7
<1> QED BY <1>1, <1>2, <1>3, <1>4, <1>5 DEF Status

(* What is left depends on these alone. *)
LEMMA LeftSame ==
  ASSUME NEW q, NEW r, r.s.mode = q.s.mode, r.s.program = q.s.program,
         r.s.shuffle = q.s.shuffle,
         r.s.order = q.s.order, r.s.prog_cnt = q.s.prog_cnt,
         r.m.next_sam = q.m.next_sam
  PROVE  Left(r) = Left(q)
BY DEF Left, Listed

(* A status uses up something. *)
LEMMA GoesStatus ==
  ASSUME Sane, ErrSkip > 0, NEW q, NEW o, "error" \in o => StoppedAs = {"idle"},
         NEW w \in World, Typed(q), Ok(q, o), Unforced(q), NEW r,
         Status(q, w, r)
  PROVE  Onward(q, r)
<1> SUFFICES ASSUME ~ q.s.repeat, q.d.st \in Standing,
                    q.s.mode \in {"PLAY", "SAMPLE"},
                    r.s.mode = q.s.mode
             PROVE  \/ q.m.new_progshuf /\ ~ r.m.new_progshuf
                    \/ /\ r.m.new_progshuf = q.m.new_progshuf
                       /\ \/ Left(r) < Left(q)
                          \/ /\ Left(r) = Left(q)
                             /\ \/ r.m.nostatcnt = q.m.nostatcnt + 1
                                \/ q.d.st = "error" /\ q.d.pos < r.d.pos /\ r.d.end <= q.d.end
  BY DEF Onward
<1>0. q.m.fake_stop = FALSE /\ q.m.idx_pause = FALSE
  BY DEF Unforced
<1>1. CASE Gone(q, r)
  BY <1>1 DEF Gone, NoDisc
<1>2. CASE Goes(q, r)
  BY <1>0, <1>2 DEF Goes, Standing
<1>3. CASE Waits(q, r)
  <2>1. /\ Only(q, r, PlaceFields, {"nostatcnt"})
        /\ r.m.nostatcnt = q.m.nostatcnt + 1
    BY <1>3 DEF Waits
  <2>2. /\ r.s.program = q.s.program /\ r.s.shuffle = q.s.shuffle
        /\ r.s.order = q.s.order
        /\ r.s.prog_cnt = q.s.prog_cnt /\ r.m.new_progshuf = q.m.new_progshuf
    BY <2>1, Fields DEF PlaceFields
  <2>3. r.m.next_sam = q.m.next_sam
    BY <2>1, Counts
  <2> QED BY <2>1, <2>2, <2>3, LeftSame
<1>4. CASE q.d.st = "error" /\ Skips(q, r)
  <2>1. Only(q, r, PlaceFields, StatusFields \cup {"sav_end"})
    BY <1>4 DEF Skips
  <2>2. /\ r.s.program = q.s.program /\ r.s.shuffle = q.s.shuffle
        /\ r.s.order = q.s.order
        /\ r.s.prog_cnt = q.s.prog_cnt /\ r.m.new_progshuf = q.m.new_progshuf
    BY <2>1, Fields DEF PlaceFields, StatusFields
  <2>3. r.m.next_sam = q.m.next_sam
    BY <2>1, Counts DEF StatusFields
  <2>4. r.d.pos = q.d.pos + ErrSkip /\ r.d.end = Clip(q.m.sav_msf)
    BY <1>4 DEF Skips
  <2>5. q.d.pos \in Nat /\ ErrSkip \in Nat
    BY Blks, ClippedMsf
  <2>6. q.d.pos < r.d.pos
    BY <2>4, <2>5
  <2>7. r.d.end <= q.d.end
    BY <1>4, <2>4 DEF Ok, Resumable, Heard
  <2> QED BY <1>4, <2>2, <2>3, <2>6, <2>7, LeftSame
<1>5. CASE q.d.st # "empty" /\ Ends(q, w, r)
  <2>1. PICK b : Based(q, b) /\ Passed(b, w, r)
    BY <1>5 DEF Ends
  <2>2. /\ Typed(b) /\ b.s.mode = q.s.mode /\ b.s.program = q.s.program
        /\ b.s.shuffle = q.s.shuffle
        /\ b.s.order = q.s.order /\ b.s.prog_cnt = q.s.prog_cnt
        /\ b.s.repeat = q.s.repeat
        /\ b.m.new_progshuf = q.m.new_progshuf /\ b.m.next_sam = q.m.next_sam
    BY <2>1, BasedFields
  <2>3. GoneOn(b, w, r)
    BY <2>1, <2>2 DEF Passed, RunOut
  <2>4. /\ q.m.next_sam \in Nat /\ q.s.prog_cnt \in Nat /\ Len(Toc) \in Nat
        /\ Len(q.s.order) \in Nat
    <3>1. /\ q.m.next_sam \in Nat /\ q.s.prog_cnt \in Nat
          /\ q.s.order \in Seq(Track)
      BY Parts DEF Statics, Curstat
    <3> QED BY <3>1, Discs
  <2>5. CASE b.s.mode = "SAMPLE" /\ SampleRun(b, r) /\ r.ret = TRUE
    <3>1. r.m.next_sam = q.m.next_sam + 1
      BY <2>2, <2>5 DEF SampleRun
    <3>2. r.m.new_progshuf = q.m.new_progshuf
      <4>1. Only(b, r, {}, {"next_sam"} \cup Sav)
        BY <2>5 DEF SampleRun
      <4> QED BY <2>2, <4>1, Fields DEF Sav
    <3>3. Left(r) < Left(q)
      BY <2>2, <2>4, <2>5, <3>1 DEF Left
    <3> QED BY <3>2, <3>3
  <2>6. CASE Listed(b) /\ ListFollowed(b, w, r) /\ r.ret = TRUE /\ b.s.mode \in {"PLAY", "PAUSE"}
    <3>1. ~ Over(b, w)
      BY <2>2, <2>6 DEF ListFollowed
    <3>2. /\ Only(b, r, EntryFields \cup {"off", "order"}, Sav \cup {"new_progshuf"})
          /\ r.s.prog_cnt = From(b) + 1 /\ r.s.order = Ord(b, w)
          /\ r.m.new_progshuf = (b.s.repeat /\ r.s.prog_cnt >= Len(r.s.order))
      BY <2>6, <3>1 DEF ListFollowed
    <3>3. r.s.program = b.s.program /\ r.s.shuffle = b.s.shuffle
      BY <3>2, Fields DEF EntryFields
    <3>4. ~ q.m.new_progshuf
      BY <2>2, <2>6 DEF Ok, Entered, On, Listed
    <3>5. r.s.order = q.s.order /\ r.s.prog_cnt = q.s.prog_cnt + 1
      BY <2>2, <3>2, <3>4 DEF From, Ord
    <3>6. Left(r) < Left(q)
      BY <2>2, <2>4, <2>6, <3>3, <3>5 DEF Left, Listed
    <3>7. r.m.new_progshuf = FALSE /\ q.m.new_progshuf = FALSE
      <4>1. q.m.new_progshuf \in BOOLEAN /\ q.s.repeat \in BOOLEAN
        BY Parts DEF Statics, Curstat
      <4> QED BY <2>2, <3>2, <3>4, <4>1
    <3> QED BY <3>6, <3>7
  <2>7. CASE DiscFollowed(b, r) /\ r.ret = TRUE
    BY <2>2, <2>7 DEF DiscFollowed
  <2> QED BY <2>2, <2>3, <2>5, <2>6, <2>7 DEF GoneOn
<1> QED BY <1>1, <1>2, <1>3, <1>4, <1>5 DEF Status

-----------------------------------------------------------------------------
(* ... and every other step. *)

(* What a timer does to its own fields is not seen by the list. *)
SameBut(q, r) ==
  /\ r.s.mode = q.s.mode /\ r.s.program = q.s.program
  /\ r.s.shuffle = q.s.shuffle
  /\ r.s.order = q.s.order /\ r.s.prog_cnt = q.s.prog_cnt
  /\ r.s.repeat = q.s.repeat
  /\ r.m.new_progshuf = q.m.new_progshuf /\ r.m.next_sam = q.m.next_sam
  /\ r.m.nostatcnt = q.m.nostatcnt /\ r.d = q.d

(* A timer that goes off changes none of it. *)
LEMMA TimersSame ==
  ASSUME NEW q, NEW r, Only(q, r, {}, TimerFields), r.d = q.d
  PROVE  SameBut(q, r)
<1>1. /\ r.s.mode = q.s.mode /\ r.s.program = q.s.program
      /\ r.s.shuffle = q.s.shuffle
      /\ r.s.order = q.s.order /\ r.s.prog_cnt = q.s.prog_cnt
      /\ r.s.repeat = q.s.repeat
      /\ r.m.new_progshuf = q.m.new_progshuf
  BY Fields DEF TimerFields
<1>2. r.m.next_sam = q.m.next_sam /\ r.m.nostatcnt = q.m.nostatcnt
  BY Counts DEF TimerFields
<1> QED BY <1>1, <1>2 DEF SameBut

(* So a step may be seen without it. *)
LEMMA StepsSame ==
  ASSUME NEW q, NEW x, NEW g, NEW r, SameBut(q, x), SameBut(g, r)
  PROVE  /\ Turns(x, g) => Turns(q, r)
         /\ Onward(x, g) => Onward(q, r)
<1>1. Left(x) = Left(q) /\ Left(r) = Left(g)
  BY LeftSame DEF SameBut
<1>2. Turns(x, g) => Turns(q, r)
  BY DEF SameBut, Turns, Listed
<1>3. Onward(x, g) => Onward(q, r)
  BY <1>1 DEF SameBut, Onward
<1> QED BY <1>2, <1>3

(* A status of what plays. *)
LEMMA StatusSteps ==
  ASSUME Sane, NEW q, NEW o, NEW w \in World, Typed(q), Ok(q, o), Unforced(q),
         q.s.mode \in {"PLAY", "SAMPLE"}
  PROVE  Turns(q, GetPlaystatus(q, w)) /\ (Mends(o) => Onward(q, GetPlaystatus(q, w)))
<1> DEFINE r == GetPlaystatus(q, w)
<1>1. Status(q, w, r)
  BY StatusOk
<1> HIDE DEF r
<1>2. Turns(q, r)
  BY <1>1, TurnsStatus
<1>3. Mends(o) => Onward(q, r)
  BY <1>1, GoesStatus DEF Mends
<1> QED BY <1>2, <1>3 DEF r

(* slioc_stat_poll. *)
LEMMA PollSteps ==
  ASSUME Sane, NEW q, NEW x, NEW o, Inv(q, o), q.app = "xmcd",
         Only(q, x, {}, TimerFields), x.d = q.d,
         x.m.stat_polling = q.m.stat_polling, NEW w \in World,
         q.s.mode \in {"PLAY", "SAMPLE"}
  PROVE  LET r == Ret(Poll(x, w), FALSE) IN Turns(q, r) /\ (Mends(o) => Onward(q, r))
<1> DEFINE g == GetPlaystatus(x, w)
           h == Poll(x, w)
           r == Ret(h, FALSE)
<1>1. Typed(x) /\ Ok(x, o) /\ Unforced(x) /\ x.s.mode = q.s.mode
  BY TickedOk DEF Inv
<1>2. Typed(g) /\ Turns(x, g) /\ (Mends(o) => Onward(x, g))
  <2>1. x.s.mode \in {"PLAY", "SAMPLE"}
    BY <1>1
  <2>2. Listed(x) => x.s.mode # "PAUSE"
    BY <2>1
  <2>3. Typed(g)
    BY <1>1, <2>2, StatusOk
  <2> HIDE DEF g
  <2> QED BY <1>1, <2>1, <2>3, StatusSteps DEF g
<1>3. x.m.stat_polling = TRUE /\ g.ret \in BOOLEAN
  <2>1. q.m.stat_polling \in BOOLEAN
    BY Parts DEF Inv, Statics
  <2>2. g.ret \in BOOLEAN
    BY <1>2, Parts
  <2> QED BY <2>1, <2>2 DEF Inv, Timed
<1>4. g.app = "xmcd" /\ g.m.stat_polling = TRUE
  <2>0. Listed(x) => x.s.mode # "PAUSE"
    BY <1>1
  <2>1. Went(x, g) /\ Ok(g, o)
    BY <1>1, <2>0, StatusOk
  <2> HIDE DEF g
  <2>2. g.m.stat_polling = TRUE
    BY <1>3, <2>1 DEF Went, Polls, TimersOf
  <2>3. g.app = q.app
    BY <2>1 DEF Inv, Ok, Flags
  <2> QED BY <2>2, <2>3
<1>5. h = IF g.ret THEN AddStatTimer(g) ELSE Unpolled(g)
  BY <1>2, <1>3, Parts DEF Poll, Unpolled, State
<1> HIDE DEF g, h
<1>6. Typed(h) /\ SameBut(g, h)
  <2>1. CASE g.ret
    <3> DEFINE a == AddStatTimer(g)
    <3>1. StatPollStarted(g, a)
      BY <1>2, <1>4, AddStatTimerIs
    <3> HIDE DEF a
    <3>2. Only(g, a, {}, TimerFields) /\ a.d = g.d
      BY <3>1 DEF StatPollStarted, TimerFields
    <3>3. Typed(a) /\ SameBut(g, a)
      BY <3>2, TimersSame DEF Only
    <3> QED BY <1>5, <2>1, <3>3 DEF a
  <2>2. CASE ~ g.ret
    <3> DEFINE a == Unpolled(g)
    <3>1. Only(g, a, {}, TimerFields) /\ a.d = g.d
      BY <1>2, UnpolledIs
    <3> HIDE DEF a
    <3>2. Typed(a) /\ SameBut(g, a)
      BY <3>1, TimersSame DEF Only
    <3> QED BY <1>5, <2>2, <3>2 DEF a
  <2> QED BY <2>1, <2>2
<1>7. SameBut(g, r)
  <2>1. r.s = h.s /\ r.m = h.m /\ r.d = h.d
    BY <1>6, RetIs DEF Typed
  <2> QED BY <1>6, <2>1 DEF SameBut
<1>8. SameBut(q, x)
  BY TimersSame
<1> HIDE DEF r
<1>9. (Turns(x, g) => Turns(q, r)) /\ (Onward(x, g) => Onward(q, r))
  BY <1>7, <1>8, StepsSame
<1>10. Turns(q, r) /\ (Mends(o) => Onward(q, r))
  BY <1>2, <1>9
<1> QED BY <1>10 DEF r, h

(* The update by the daemon of cda. *)
LEMMA UpdateSteps ==
  ASSUME Sane, NEW q, NEW o, Inv(q, o), NEW w \in World, q.s.mode = "PLAY",
         q.app = "cda"
  PROVE  LET r == Ret(Update(q, w, TRUE), FALSE) IN Turns(q, r) /\ (Mends(o) => Onward(q, r))
<1> DEFINE g == GetPlaystatus(q, w)
           r == Ret(Update(q, w, TRUE), FALSE)
<1>1. r = Ret(g, FALSE)
  BY DEF Update
<1>2. Typed(q) /\ Ok(q, o) /\ Unforced(q)
  BY DEF Inv
<1>3. Turns(q, g) /\ (Mends(o) => Onward(q, g))
  BY <1>2, StatusSteps
<1>4. Typed(g)
  BY <1>2, StatusOk
<1> HIDE DEF g, r
<1>5. r.s = g.s /\ r.m = g.m /\ r.d = g.d
  BY <1>1, <1>4, RetIs DEF Typed
<1>6. SameBut(g, r) /\ SameBut(q, q)
  BY <1>5 DEF SameBut
<1>7. (Turns(q, g) => Turns(q, r)) /\ (Onward(q, g) => Onward(q, r))
  BY <1>6, StepsSame
<1>8. Turns(q, r) /\ (Mends(o) => Onward(q, r))
  BY <1>3, <1>7
<1> QED BY <1>8 DEF r

(* The steps that are no command. *)
LEMMA Uncounted ==
  ASSUME Next, calls' = calls, calls \in Nat
  PROVE  \/ LetGo \/ Answer \/ CdaPoll \/ StatPoll \/ StrayPoll \/ InsertPoll \/ SearchTimer
         \/ DriveStep \/ Insert
<1>1. /\ \A op, q : ~ Given(op, q)
      /\ \A op, q : ~ Clicked(op, q)
      /\ \A op, q : ~ Served(op, q)
      /\ ~ Counted
  <2>1. ~ Counted
    BY DEF Counted
  <2> QED BY <2>1 DEF Given, Clicked, Served
<1>2. ~ (PlayPause \/ Stop \/ Prevtrk \/ Nexttrk \/ IndexSearch \/ Sample \/ Ab \/ Eject)
  BY <1>1 DEF PlayPause, Stop, Prevtrk, Nexttrk, IndexSearch, Sample, Ab, Eject
<1>3. ~ (Warp \/ Keypad \/ Shuffle \/ Repeat \/ EditProgram \/ ListPlay \/ Segment \/ Iconify)
  BY <1>1
     DEF Warp, Keypad, Shuffle, Repeat, EditProgram, ListPlay, Segment, Iconify
<1>4. ~ Search
  BY <1>1 DEF Search
<1>5. ~ (CdaPlay \/ CdaPause \/ CdaStop \/ CdaTrack \/ CdaIndex \/ CdaDisc)
  BY <1>1 DEF CdaPlay, CdaPause, CdaStop, CdaTrack, CdaIndex, CdaDisc
<1>6. ~ (CdaProgram \/ CdaShuffle \/ CdaRepeat)
  BY <1>1 DEF CdaProgram, CdaShuffle, CdaRepeat
<1>7. ~ (DriveError \/ Remove)
  BY <1>1 DEF DriveError, Remove
<1> QED BY <1>2, <1>3, <1>4, <1>5, <1>6, <1>7 DEF Next

(* The drive, and the disc, take no turn. *)
LEMMA QuietSteps ==
  ASSUME Sane, Plain(ops), Inv(p, ops), InsertPoll \/ DriveStep \/ Insert,
         p.s.mode \in {"PLAY", "SAMPLE"}
  PROVE  /\ Turns(p, p')
         /\ p'.m.insert_polling = p.m.insert_polling => Onward(p, p')
<1>0. Typed(p) /\ p \in State /\ p.d \in Drive /\ p.m \in Statics
  BY Parts DEF Inv
<1>1. CASE InsertPoll
  <2> DEFINE q == DiscReady(p)
             x == Watched(q, ~ q.ret)
  <2>1. p' = Ret(x, FALSE) /\ p.m.insert_polling
    BY <1>1 DEF InsertPoll, Watched
  <2>2. Readied(p, q)
    BY <1>0, DiscReadyIs
  <2> HIDE DEF q
  <2>3. Typed(q)
    BY <2>2 DEF Readied, Only
  <2>4. Typed(x) /\ x.s = q.s /\ x.d = q.d /\ x.m.insert_polling = ~ q.ret
    <3> DEFINE M == [q.m EXCEPT !.insert_polling = ~ q.ret]
    <3>1. M \in Statics /\ M.insert_polling = ~ q.ret
      BY <2>3, Parts, ZenonT(30) DEF Statics
    <3>2. x = WithSM(q, q.s, M)
      BY <2>3, Parts DEF Watched, WithSM, State
    <3> HIDE DEF M, x
    <3> QED BY <2>3, <3>1, <3>2, WithSMIs, Parts
  <2> HIDE DEF x
  <2>5. p'.s = q.s /\ p'.d = q.d /\ p'.m.insert_polling = ~ q.ret
    BY <2>1, <2>4, RetIs DEF Typed
  <2>6. CASE p.d.st = "empty"
    <3>1. p'.s.mode = "NODISC"
      BY <2>2, <2>5, <2>6 DEF Readied, NoDisc
    <3> QED BY <3>1 DEF Turns, Onward
  <2>7. CASE p.d.st # "empty"
    <3>1. Only(p, q, {"mode"}, {}) /\ q.ret = TRUE /\ q.d = p.d
      BY <2>2, <2>7 DEF Readied
    <3>2. q.s.prog_cnt = p.s.prog_cnt
      BY <3>1, Fields
    <3> QED BY <2>1, <2>5, <3>1, <3>2 DEF Turns
  <2> QED BY <2>6, <2>7
<1>2. CASE DriveStep
  <2>1. p.d.st = "playing" /\ p'.s = p.s
    BY <1>0, <1>2 DEF DriveStep, State
  <2> QED BY <2>1 DEF Turns, Onward, Standing
<1>3. CASE Insert
  <2>1. p.d.st = "empty" /\ p'.s = p.s
    BY <1>0, <1>3 DEF Insert, State
  <2> QED BY <2>1 DEF Turns, Onward, Standing
<1> QED BY <1>1, <1>2, <1>3

(* Every step that is not a command, of what plays. *)
LEMMA StepsInv ==
  ASSUME Sane, Settled, Next, calls' = calls, p.m.ask = "no",
         p.s.mode \in {"PLAY", "SAMPLE"}
  PROVE  /\ Turns(p, p')
         /\ Mends(ops) /\ p'.m.insert_polling = p.m.insert_polling => Onward(p, p')
<1>0. Inv(p, ops) /\ Plain(ops) /\ Typed(p)
  BY DEF Settled, Inv
<1>1. \/ LetGo \/ Answer \/ CdaPoll \/ StatPoll \/ StrayPoll \/ InsertPoll \/ SearchTimer
      \/ DriveStep \/ Insert
  BY Uncounted DEF Settled
<1>2. CASE LetGo \/ SearchTimer
  BY <1>0, <1>2, NoSearch
<1>3. CASE Answer
  BY <1>3 DEF Answer
<1>4. CASE CdaPoll
  <2>1. PICK w \in World : p' = Ret(Update(p, w, TRUE), FALSE)
    BY <1>4 DEF CdaPoll
  <2>2. p.app = "cda" /\ p.s.mode = "PLAY"
    BY <1>0, <1>4 DEF CdaPoll, Inv, Ok, Flags
  <2> QED BY <1>0, <2>1, <2>2, UpdateSteps
<1>5. p.app \in {"xmcd", "cda"} /\ (p.app = "cda" => p.m.stat_id = FALSE /\ p.m.stray = 0)
  BY <1>0, Parts DEF Inv, Ok, Flags, State
<1>6. CASE StatPoll
  <2>1. PICK w \in World : p' = Ret(Poll(Due(p), w), FALSE)
    BY <1>6 DEF StatPoll, Due
  <2>2. p.app = "xmcd"
    BY <1>5, <1>6 DEF StatPoll
  <2> DEFINE x == Due(p)
  <2>3. /\ Only(p, x, {}, TimerFields) /\ x.d = p.d
        /\ x.m.stat_polling = p.m.stat_polling
    BY <1>0, DueIs
  <2> HIDE DEF x
  <2>4. LET r == Ret(Poll(x, w), FALSE) IN Turns(p, r) /\ (Mends(ops) => Onward(p, r))
    BY <1>0, <2>2, <2>3, PollSteps
  <2> QED BY <2>1, <2>4 DEF x
<1>7. CASE StrayPoll
  <2>1. PICK w \in World : p' = Ret(Poll(DueStray(p), w), FALSE)
    BY <1>7 DEF StrayPoll, DueStray
  <2>2. p.app = "xmcd" /\ p.m.stray > 0
    BY <1>5, <1>7 DEF StrayPoll
  <2> DEFINE x == DueStray(p)
  <2>3. /\ Only(p, x, {}, TimerFields) /\ x.d = p.d
        /\ x.m.stat_polling = p.m.stat_polling
    BY <1>0, <2>2, DueStrayIs
  <2> HIDE DEF x
  <2>4. LET r == Ret(Poll(x, w), FALSE) IN Turns(p, r) /\ (Mends(ops) => Onward(p, r))
    BY <1>0, <2>2, <2>3, PollSteps
  <2> QED BY <2>1, <2>4 DEF x
<1>8. CASE InsertPoll \/ DriveStep \/ Insert
  BY <1>0, <1>8, QuietSteps
<1> QED BY <1>1, <1>2, <1>3, <1>4, <1>6, <1>7, <1>8

(* A list goes on in its order: as long as it plays, the position in the   *)
(* order moves only when the drive has stopped playing, and then to the    *)
(* next entry, or in repeat from the last to the first; no entry is played *)
(* twice or left out.                                                      *)
THEOREM InTurnHolds ==
  ASSUME Sane
  PROVE  Spec /\ Plain(ops) => InTurn
<1>1. Settled /\ [Next]_vars => [TakesTurn]_vars
  <2> SUFFICES ASSUME Settled, Next, calls' = calls, p.m.ask = "no", Listed(p),
                      p.s.mode = "PLAY", p'.s.mode = "PLAY",
                      \/ p.d.st \in {"done", "idle"} /\ p'.d.st = "playing"
                      \/ p'.s.prog_cnt # p.s.prog_cnt
               PROVE  /\ p.d.st # "playing"
                      /\ \/ p'.s.prog_cnt = p.s.prog_cnt + 1
                         \/ /\ p.s.repeat /\ p'.s.prog_cnt = 1
                            /\ p.s.prog_cnt = Len(p.s.order)
    BY DEF TakesTurn
  <2>1. Turns(p, p')
    BY StepsInv
  <2> QED BY <2>1 DEF Turns
<1> QED BY <1>1, SettledAlways, PTL DEF Spec, InTurn

(* Playing comes to its end: each status that finds the drive at rest      *)
(* begins the order anew, or uses up an entry or a track that is left, or  *)
(* one of the empty answers that are let pass, or leaves an unreadable     *)
(* block behind. So there is no endless poll of a drive at rest.           *)
THEOREM ProceedsHolds ==
  ASSUME Sane
  PROVE  Spec /\ Plain(ops) /\ Mends(ops) => Proceeds
<1>1. Settled /\ Mends(ops) /\ [Next]_vars => [GoesOn]_vars
  <2> SUFFICES ASSUME Settled, Mends(ops), Next, calls' = calls, p.m.ask = "no",
                      ~ p.s.repeat, p.d.st \in Standing,
                      p'.m.insert_polling = p.m.insert_polling,
                      p.s.mode \in {"PLAY", "SAMPLE"}, p'.s.mode = p.s.mode
               PROVE  \/ p.m.new_progshuf /\ ~ p'.m.new_progshuf
                      \/ /\ p'.m.new_progshuf = p.m.new_progshuf
                         /\ \/ Left(p') < Left(p)
                            \/ /\ Left(p') = Left(p)
                               /\ \/ p'.m.nostatcnt = p.m.nostatcnt + 1
                                  \/ p.d.st = "error" /\ p.d.pos < p'.d.pos
                                     /\ p'.d.end <= p.d.end
    BY DEF GoesOn, Standing
  <2>1. Onward(p, p')
    BY StepsInv
  <2> QED BY <2>1 DEF Onward
<1>2. Mends(ops) /\ [Next]_vars => Mends(ops)'
  <2>1. ASSUME Mends(ops), Next PROVE Mends(ops)'
    BY <2>1, OpsKept DEF Mends
  <2>2. ASSUME Mends(ops), UNCHANGED vars PROVE Mends(ops)'
    BY <2>2 DEF Mends, vars
  <2> QED BY <2>1, <2>2
<1> QED BY <1>1, <1>2, SettledAlways, PTL DEF Spec, Proceeds
=============================================================================
