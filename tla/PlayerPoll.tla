------------------------------ MODULE PlayerPoll ------------------------------
(***************************************************************************)
(* slioc_get_playstatus and what it starts when the drive has come to the  *)
(* end of what it was told to play: the next track of a program, of a      *)
(* shuffle or of a sampling, the same segment or disc again, or the rest   *)
(* of the segment behind an unreadable block.  The poll timers call it,    *)
(* and so do commands of the user.                                         *)
(***************************************************************************)
EXTENDS PlayerState

RunAb(p, w) ==
  IF p.s.startpos + MinPlayBlks >= p.s.endpos THEN Ret(p, FALSE)
  ELSE DoPlayaudio(StartStatPoll([p EXCEPT !.s.mode = "PLAY"]), w,
                   p.s.startpos, p.s.endpos)

(* Mutant: next_sam is only counted up for a track that can be played. *)
RunSampleStays(p, w) ==
  LET t == p.m.next_sam + 1
      q == IF t \notin Track THEN Ret(p, FALSE)
           ELSE IF t \in DataTracks THEN Ret(p, TRUE)
           ELSE DoPlayaudio(p, w, Toc[t], Toc[t] + SampleBlks)
  IN  [q EXCEPT !.m.next_sam = IF ~q.ret THEN 0
                               ELSE IF t \in DataTracks THEN @ ELSE @ + 1]
(* next_sam is an index into trkinfo, which starts at 0. *)
RunSample(p, w) ==
  LET t == p.m.next_sam + 1
      q == IF t \notin Track THEN Ret(p, FALSE)
           ELSE IF t \in DataTracks THEN Ret(p, TRUE)
           ELSE DoPlayaudio(p, w, Toc[t], Toc[t] + SampleBlks)
  IN  [q EXCEPT !.m.next_sam = IF q.ret THEN @ + 1 ELSE 0]

HasAudio(order) == \E i \in 1..Len(order) : order[i] \in Audio
(* Mutant: the request for a new sequence is not cleared. *)
NewSequenceAgain(p, w) ==
  LET order == IF p.s.shuffle THEN w.order ELSE p.s.order
  IN  IF p.m.new_progshuf
      THEN Ret([p EXCEPT !.s.prog_cnt = 0, !.s.order = order], HasAudio(order))
      ELSE Ret(p, TRUE)
(* A new sequence: the shuffle draws one, the program starts over.  One of *)
(* data tracks only is refused.                                            *)
NewSequence(p, w) ==
  LET order == IF p.s.shuffle THEN w.order ELSE p.s.order
  IN  IF p.m.new_progshuf
      THEN Ret([p EXCEPT !.m.new_progshuf = FALSE, !.s.prog_cnt = 0,
                         !.s.order = order], HasAudio(order))
      ELSE Ret(p, TRUE)

(* The play of a paused player is followed by a pause. *)
ThenPause(p, w) ==
  IF p.s.mode = "PAUSE" THEN Ret(PauseResume(p, w, FALSE), p.ret) ELSE p
PlayEntry(p, w, t) ==
  LET q == [p EXCEPT !.s.prog_cnt = @ + 1, !.s.cur_trk = t,
                     !.s.pos = Lesser(Toc[t] + p.s.off, Leadout),
                     !.s.mode = IF @ = "PAUSE" THEN @ ELSE "PLAY"]
  IN  (* A data track is not played: the next status moves on from it. *)
      IF t \in DataTracks THEN Ret(q, TRUE)
      ELSE ThenPause(DoPlayaudio(q, w, Toc[t] + p.s.off, TrackEnd(t)), w)
NextEntry(p, w) ==
  IF ~p.ret \/ p.s.prog_cnt >= Len(p.s.order) THEN Ret(p, FALSE)
  ELSE PlayEntry(p, w, p.s.order[p.s.prog_cnt + 1])
RunProg(p, w) ==
  IF p.s.shuffle \/ p.s.program THEN NextEntry(NewSequence(p, w), w)
  ELSE Ret(p, FALSE)

RunRepeat(p, w) ==
  IF p.s.shuffle \/ p.s.program
  THEN Ret([p EXCEPT !.m.new_progshuf = @ \/ p.s.prog_cnt >= Len(p.s.order)],
           TRUE)
  ELSE ThenPause(DoPlayaudio([p EXCEPT !.s.cur_trk = 1, !.s.pos = 0], w,
                             Toc[1], Leadout), w)

(* slioc_play_recov: go on a little behind the block that failed. *)
PlayRecov(p, w, blk) ==
  IF blk + ErrSkip > p.m.sav_msf \/ blk + ErrSkip >= p.m.sav_end
  THEN Ret(p, FALSE)
  ELSE PlayTo(p, w, blk + ErrSkip, p.m.sav_msf, p.m.sav_end)
-----------------------------------------------------------------------------
(* What the drive says of itself.  It reports an end, and an error, once.  *)
(* A pause that nobody asked for is what some drives call a stop, and an   *)
(* end can be forced.                                                      *)
StatusOf(p) ==
  CASE p.m.fake_stop -> "COMPLETED"
    [] ~p.m.fake_stop /\ p.d.st = "playing" -> "PLAYING"
    [] ~p.m.fake_stop /\ p.d.st = "paused" ->
         IF p.s.mode # "PAUSE" /\ ~p.m.idx_pause THEN "COMPLETED" ELSE "PAUSED"
    [] ~p.m.fake_stop /\ p.d.st = "done" -> "COMPLETED"
    [] ~p.m.fake_stop /\ p.d.st = "error" -> "FAILED"
    [] ~p.m.fake_stop /\ p.d.st \in {"idle", "empty"} -> "NOSTATUS"
ReadSubq(p) ==
  LET t == TrackAt(p.d.pos)
  IN  [p EXCEPT !.s.pos = p.d.pos, !.s.cur_trk = t,
                !.s.off = p.d.pos - Toc[t],
                !.d.st = IF @ \in {"done", "error"} THEN "idle" ELSE @]

(* The end of what was being played: ret says whether something follows. *)
FollowProg(p, w)   == IF p.s.shuffle \/ p.s.program THEN RunProg(p, w) ELSE p
FollowRepeat(p, w) == IF p.s.repeat THEN RunRepeat(p, w) ELSE p
FollowAb(p, w) ==
  IF p.s.repeat /\ p.s.segplay = "AB" THEN RunAb(p, w) ELSE p
AfterEnd(p, w) ==
  CASE p.s.mode = "SAMPLE" -> RunSample(p, w)
    [] p.s.mode \in {"PLAY", "PAUSE"} ->
         FollowAb(FollowRepeat(FollowProg(Ret([p EXCEPT !.s.off = 0], FALSE),
                                          w), w), w)
    [] OTHER -> Ret(p, FALSE)

(* Nothing follows: the state goes to stop and the disc spins down. *)
Done(p, w) ==
  Ret(StartStop([ForgetEnd(ResetCurstat(p)) EXCEPT
                   !.s.mode = "STOP",
                   !.s.segplay = IF @ = "A" THEN "NONE" ELSE @], w), FALSE)
OrDone(p, w) == IF p.ret THEN p ELSE Done(p, w)
GoOnOrStop(p, w) ==
  OrDone(AfterEnd([p EXCEPT !.m.nostatcnt = 0, !.m.fake_stop = FALSE], w), w)

(* An error: skip the block, a limited number of times. *)
Recover(p, w) ==
  IF p.m.errcnt > MaxRecover THEN Ret(p, FALSE) ELSE PlayRecov(p, w, p.s.pos)
OrGoOn(p, w) == IF p.ret THEN p ELSE GoOnOrStop(p, w)
AfterError(p, w) ==
  OrGoOn(Recover([p EXCEPT !.m.nostatcnt = 0, !.m.errcnt = @ + 1,
                           !.m.errblk = p.s.pos], w), w)

(* The disc may have gone: else the next status is hoped for. *)
NoAnswer(p) == IF p.ret THEN p ELSE ForgetEnd(p)
(* The answer st, with which p is brought up to date. *)
Answered(p, w, st) ==
  CASE st \in {"PLAYING", "PAUSED"} ->
         Ret([p EXCEPT !.m.nostatcnt = 0,
                       !.m.errcnt = IF p.s.pos - p.m.errblk > ErrClear
                                    THEN 0 ELSE @], TRUE)
    [] st = "FAILED" -> AfterError(p, w)
    [] st = "NOSTATUS" /\ p.m.nostatcnt < MaxNoStat ->
         Ret([p EXCEPT !.m.nostatcnt = @ + 1], TRUE)
    [] OTHER -> GoOnOrStop(p, w)
(* Returns whether polling is to go on. *)
GetPlaystatus(p, w) ==
  IF Takes(p, w, "status") THEN Answered(ReadSubq(p), w, StatusOf(p))
                           ELSE NoAnswer(DiscReady(p))
=============================================================================
