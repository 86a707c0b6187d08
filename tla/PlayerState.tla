----------------------------- MODULE PlayerState -----------------------------
(***************************************************************************)
(* The player: the state that the commands of the user and the timers of   *)
(* slioc.c share, the drive they command, and the routines that both are   *)
(* built from.  A routine takes the state before it to the state after it; *)
(* the state's field "ret" is what the routine returned.  All a routine    *)
(* cannot know (whether the drive takes a command, the next random play    *)
(* order) comes in its argument w, the world.                              *)
(*                                                                         *)
(* Positions are blocks of the disc, in units coarse enough for TLC.       *)
(***************************************************************************)
EXTENDS Integers, Sequences

CONSTANTS
  Toc,           \* first block of each track, and the lead-out's
  DataTracks,    \* the tracks that hold no audio
  Orders,        \* the play orders that shuffling can draw
  Programs,      \* the programs that the user can write
  Indexes,       \* blocks that an index search can lead to
  StoppedAs,     \* what the drive can call itself after a stop
  Faults,        \* the commands that the drive may fail to take
  ClipFrames,    \* di_clip_frames
  MinPlayBlks,   \* app_data.min_playblks
  PrevThreshold, \* app_data.prev_threshold
  SkipBlks,      \* app_data.skip_blks
  SrchBlks,      \* MAX_SRCH_BLKS
  SampleBlks,    \* app_data.sample_blks
  ErrSkip,       \* ERR_SKIPBLKS
  ErrClear,      \* ERR_CLRTHRESH
  MaxRecover,    \* MAX_RECOVERR
  MaxNoStat,     \* empty answers that slioc_get_playstatus lets pass
  MaxStray       \* bound on the count of stray timers

Track     == 1..Len(Toc) - 1
Leadout   == Toc[Len(Toc)]
Audio     == Track \ DataTracks
Block     == 0..Leadout

ASSUME TocAssumption ==
  /\ Len(Toc) \in Nat /\ Len(Toc) > 1 /\ Toc[1] = 0 /\ Leadout \in Nat
  /\ \A t \in Track : Toc[t] \in Nat /\ Toc[t] < Toc[t + 1]
  /\ DataTracks \subseteq Track
  /\ Orders \subseteq Seq(Audio) /\ Programs \subseteq Seq(Track)
  /\ Indexes \subseteq 0..Leadout - 1 /\ StoppedAs \subseteq {"idle", "paused"}
  /\ Faults \subseteq {"play", "pause", "stop", "status"}
ASSUME BlksAssumption ==
  /\ {ClipFrames, MinPlayBlks, PrevThreshold, SkipBlks, SrchBlks, SampleBlks,
      ErrSkip, ErrClear, MaxRecover, MaxNoStat} \subseteq Nat
  /\ MaxStray \in Nat

Lesser(a, b)  == IF a < b THEN a ELSE b
Greater(a, b) == IF a > b THEN a ELSE b
TrackAt(blk)  == CHOOSE t \in Track : Toc[t] <= blk /\ blk < Toc[t + 1]
TrackEnd(t)   == Toc[t + 1]
-----------------------------------------------------------------------------
(* What the world answers during one handler: the commands the drive takes,*)
(* what it calls itself after a stop, the next random order, and the block *)
(* where a track/index play begins.                                        *)
Command == {"play", "pause", "stop", "status"}
World   == [takes : {S \in SUBSET Command : Command \ Faults \subseteq S},
            stopped : StoppedAs, order : Orders, index : Indexes]

Takes(p, w, cmd) == cmd \in w.takes /\ p.d.st # "empty"

Ret(p, b) == [p EXCEPT !.ret = b]
-----------------------------------------------------------------------------
(* Commands to the drive. *)
StartStop(p, w) ==
  IF Takes(p, w, "stop") THEN Ret([p EXCEPT !.d.st = w.stopped], TRUE)
                         ELSE Ret(p, FALSE)

PauseResume(p, w, resume) ==
  IF Takes(p, w, "pause") /\ p.d.st \in {"playing", "paused"}
  THEN Ret([p EXCEPT !.d.st = IF resume THEN "playing" ELSE "paused"], TRUE)
  ELSE Ret(p, FALSE)

(* A play of no more blocks than are clipped from the end is refused before*)
(* the drive sees it.  The end is kept for the recovery from errors, in    *)
(* blocks and as the time that the drive is given, which differ once a     *)
(* recovery has clipped the blocks again.                                  *)
Clip(to) == Greater(Lesser(to, Leadout) - ClipFrames, 0)
PlayTo(p, w, from, msf, blk) ==
  LET kept == [p EXCEPT !.m.sav_msf = msf, !.m.sav_end = Clip(blk)]
  IN  IF from >= Clip(msf) THEN Ret(p, FALSE)
      ELSE IF from >= Clip(blk) THEN Ret([p EXCEPT !.m.sav_msf = msf], FALSE)
      ELSE IF Takes(p, w, "play")
           THEN Ret([kept EXCEPT !.d = [st |-> "playing", pos |-> from,
                                        end |-> Clip(msf)]], TRUE)
           ELSE Ret(kept, FALSE)
DoPlayaudio(p, w, from, to) == PlayTo(p, w, from, to, to)

(* PLAY AUDIO TRACK/INDEX: the drive finds the index by itself. *)
PlayTrkidx(p, w) ==
  IF Takes(p, w, "play")
  THEN Ret([p EXCEPT !.d = [st |-> "playing", pos |-> w.index,
                            end |-> TrackEnd(TrackAt(w.index))]], TRUE)
  ELSE Ret(p, FALSE)
-----------------------------------------------------------------------------
(* Timers.  stat_id is whether the timer that slioc_stat_id names is still *)
(* to go off; stray counts those whose id has been overwritten, which      *)
(* nothing can cancel any more.  The daemon of cda has no timers.          *)
AddStatTimer(p) ==
  IF p.app = "cda" THEN p ELSE
  [p EXCEPT !.m.stray = IF p.m.stat_id THEN Lesser(@ + 1, MaxStray) ELSE @,
            !.m.stat_id = TRUE]
StartStatPoll(p) == AddStatTimer([p EXCEPT !.m.stat_polling = TRUE])
StopStatPoll(p) ==
  IF p.m.stat_polling
  THEN [p EXCEPT !.m.stat_polling = FALSE, !.m.stat_id = FALSE]
  ELSE p
StartInsertPoll(p) == [p EXCEPT !.m.insert_polling = @ \/ p.app = "xmcd"]
-----------------------------------------------------------------------------
ProgClear(p) ==
  [p EXCEPT !.s.plan = <<>>, !.s.order = <<>>, !.s.prog_cnt = 0,
            !.s.program = FALSE]
(* di_reset_curstat: nothing is playing, and the program that a double     *)
(* click on one track made is over.                                        *)
ResetCurstat(p) ==
  LET q == [p EXCEPT !.s.cur_trk = 0, !.s.pos = 0, !.s.off = 0,
                     !.s.prog_cnt = 0, !.s.onetrk = FALSE]
  IN  IF p.s.onetrk THEN ProgClear(q) ELSE q
(* ... with clear_toc and eject. *)
ResetDisc(p) ==
  [ProgClear(ResetCurstat(p)) EXCEPT !.s.mode = "NODISC",
                                     !.s.segplay = "NONE"]
ForgetEnd(p) ==
  [p EXCEPT !.m.sav_end = 0, !.m.sav_msf = 0, !.m.errcnt = 0, !.m.errblk = 0]

(* slioc_disc_ready, of a device that is open. *)
DiscReady(p) ==
  CASE p.d.st = "empty" -> Ret(StartInsertPoll(ResetDisc(p)), FALSE)
    [] p.d.st # "empty" /\ p.s.mode = "NODISC" ->
         Ret([p EXCEPT !.s.mode = "STOP"], TRUE)
    [] OTHER -> Ret(p, TRUE)
-----------------------------------------------------------------------------
(* The type of the state. *)
Curstat ==
  [mode : {"NODISC", "STOP", "PLAY", "PAUSE", "SAMPLE"},
   cur_trk : {0} \cup Track, pos : Block, off : Block,
   segplay : {"NONE", "A", "AB"}, startpos : Block, endpos : Block,
   program : BOOLEAN, onetrk : BOOLEAN, shuffle : BOOLEAN, repeat : BOOLEAN,
   plan : Seq(Track), order : Seq(Track), prog_cnt : Nat]
Statics ==
  [fake_stop : BOOLEAN, new_progshuf : BOOLEAN, idx_pause : BOOLEAN,
   next_sam : Nat, sav_end : Block, sav_msf : Int, errcnt : Nat, errblk : Block,
   nostatcnt : Nat, stat_polling : BOOLEAN, stat_id : BOOLEAN,
   stray : 0..MaxStray, insert_polling : BOOLEAN,
   searching : {"no", "rew", "ff"}, search_id : BOOLEAN,
   start_search : BOOLEAN, start_addr : Int,
   ask : {"no", "NODISC", "STOP", "PLAY", "PAUSE", "SAMPLE"}]
Drive ==
  [st : {"empty", "idle", "playing", "paused", "done", "error"},
   pos : Block, end : Int]
State == [s : Curstat, m : Statics, d : Drive, ret : BOOLEAN,
          app : {"xmcd", "cda"}]
=============================================================================
