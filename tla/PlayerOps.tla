------------------------------ MODULE PlayerOps ------------------------------
(***************************************************************************)
(* The commands of the user: the callbacks of the main window, the keypad, *)
(* the track list and the program window (cdfunc.c, dbprog.c) with the     *)
(* functions of slioc.c that they call.  Each takes the state before the   *)
(* callback to the state after it.                                         *)
(***************************************************************************)
EXTENDS PlayerPoll

Listed(p)    == p.s.program \/ p.s.shuffle
Mode(p, m)   == [p EXCEPT !.s.mode = m]
(* Mutant: the segment is kept. *)
NoSegmentKeeps(p) == p
(* curstat.segplay is reset. *)
NoSegment(p) == [p EXCEPT !.s.segplay = "NONE"]
(* A timer of the search that is running, and none of the cursor keys. *)
Searching(p) == p.m.searching # "no"

(* Mutant: plays through the end of the track. *)
PlayOnThrough(p, w, to) == DoPlayaudio(p, w, p.s.pos, to)
(* Play on from where the state says we are: to the end of the track in a  *)
(* program or shuffle, else to the given end.                              *)
PlayOn(p, w, to) ==
  IF Listed(p)
  THEN IF p.s.cur_trk = 0 THEN Ret(p, FALSE)
       ELSE DoPlayaudio(p, w, p.s.pos, TrackEnd(p.s.cur_trk))
  ELSE DoPlayaudio(p, w, p.s.pos, to)
(* Mutant: the drive is left playing. *)
KeepPausedNot(p, w) == p
(* A play of a paused player that was taken is followed by a pause. *)
KeepPaused(p, w) ==
  IF p.ret /\ p.s.mode = "PAUSE" THEN PauseResume(p, w, FALSE) ELSE p
(* What follows when a routine has returned TRUE. *)
ModeIf(p, m)     == IF p.ret THEN Mode(p, m) ELSE p
StatPollIf(p)    == IF p.ret THEN StartStatPoll(p) ELSE p
StopPollIf(p)    == IF p.ret THEN StopStatPoll(p) ELSE p
PlayOnIf(p, w, to) == IF p.ret THEN PlayOn(p, w, to) ELSE p
-----------------------------------------------------------------------------
(* slioc_play_pause. *)
OrStopped(p) == IF p.ret THEN p ELSE Mode(p, "STOP")
StartNormal(p, w) ==
  LET t == IF p.s.cur_trk = 0 THEN 1 ELSE p.s.cur_trk
      q == [NoSegment(p) EXCEPT !.s.cur_trk = t]
  IN  IF t \in DataTracks THEN Ret(q, FALSE)
      ELSE OrStopped(DoPlayaudio(Mode(q, "PLAY"), w, Toc[t] + p.s.off,
                                 Leadout))
StartPlay(p, w) ==
  CASE Listed(p) -> RunProg([p EXCEPT !.m.new_progshuf = TRUE], w)
    [] ~Listed(p) /\ p.s.segplay = "AB" -> RunAb(p, w)
    [] OTHER -> StartNormal(p, w)
PlayPauseReady(p, w) ==
  CASE ~p.ret -> p
    [] p.ret /\ p.s.mode = "PLAY" ->
         ModeIf(StopPollIf(PauseResume(p, w, FALSE)), "PAUSE")
    [] p.ret /\ p.s.mode = "PAUSE" ->
         StatPollIf(ModeIf(PauseResume(p, w, TRUE), "PLAY"))
    [] p.ret /\ p.s.mode = "STOP" -> StatPollIf(StartPlay(p, w))
    [] p.ret /\ p.s.mode = "SAMPLE" ->
         ModeIf(PlayOnIf(GetPlaystatus(p, w), w, Leadout), "PLAY")
SlPlayPause(p, w) == PlayPauseReady(DiscReady(p), w)

(* The play order of a program is read from its text whenever the play     *)
(* button starts it.                                                       *)
CdPlayPause(p, w) ==
  IF Searching(p) THEN p
  ELSE SlPlayPause(IF p.s.mode = "STOP" /\ p.s.program
                   THEN [NoSegment(p) EXCEPT !.s.order = p.s.plan] ELSE p, w)
-----------------------------------------------------------------------------
StopDisc(p, w, stop_disc) ==
  IF p.ret /\ stop_disc THEN StartStop(p, w) ELSE p
Stopped(p) ==
  IF p.ret THEN Mode(ResetCurstat(StopStatPoll(p)), "STOP") ELSE p
SlStop(p, w, stop_disc) == Stopped(StopDisc(DiscReady(p), w, stop_disc))
CdStop(p, w) ==
  IF Searching(p) THEN p
  ELSE SlStop(IF p.s.segplay = "A" THEN NoSegment(p) ELSE p, w, TRUE)

(* A track selected before playing. *)
SelectPrev(t) == Greater(t - 1, 1)
SelectNext(t) == Lesser(t + 1, Len(Toc) - 1)

(* Previous and next leave sampling, and a segment. *)
Unsampled(p)  == IF p.s.mode = "SAMPLE" THEN Mode(p, "PLAY") ELSE p
NoAb(p)       == IF p.s.segplay = "AB" THEN NoSegment(p) ELSE p
GoTo(p, w, t, from) ==
  KeepPaused(DoPlayaudio([p EXCEPT !.s.cur_trk = t, !.s.pos = from,
                                   !.s.off = 0], w, from, Leadout), w)

(* At the beginning of a track (prev_threshold), previous is the track     *)
(* before.  In a list the order is stepped back behind the entry that is   *)
(* playing, and run_prog steps it forward again.                           *)
AtBegin(p, t) == p.s.pos - Toc[t] <= PrevThreshold
StepBack(p) ==
  IF p.s.prog_cnt > 0
  THEN [p EXCEPT !.s.prog_cnt = @ - 1, !.m.new_progshuf = FALSE] ELSE p
EntryAt(p)  == p.s.order[p.s.prog_cnt + 1]
FakeStop(p, w) ==
  GetPlaystatus([p EXCEPT !.m.fake_stop = TRUE, !.s.cur_trk = EntryAt(p)], w)
PrevInList(p, w) ==
  FakeStop(NoAb(IF AtBegin(p, EntryAt(p)) THEN StepBack(p) ELSE p), w)
(* Before the first status of a segment there is no current track, and the *)
(* entry before the table of tracks is read: any block.                    *)
PrevOnDisc(p, w) ==
  LET t == IF p.s.cur_trk = 0 THEN TrackAt(w.index) ELSE p.s.cur_trk
      before == {u \in Audio : u < t}
      to == IF AtBegin(p, t) /\ before # {}
            THEN CHOOSE u \in before : \A v \in before : v <= u ELSE t
  IN  GoTo(NoAb(p), w, to,
           IF AtBegin(p, t) /\ t = 1 THEN ClipFrames ELSE Toc[to])
PrevReady(p, w) ==
  CASE ~p.ret -> p
    [] p.ret /\ p.s.mode = "STOP" ->
         IF Listed(p) THEN p ELSE [p EXCEPT !.s.cur_trk = SelectPrev(@)]
    [] p.ret /\ p.s.mode # "STOP" /\ Listed(p) ->
         PrevInList(StepBack(Unsampled(p)), w)
    [] OTHER -> PrevOnDisc(Unsampled(p), w)
CdPrevtrk(p, w) == IF Searching(p) THEN p ELSE PrevReady(DiscReady(p), w)

NextInList(p, w) ==
  LET over == p.s.prog_cnt >= Len(p.s.order)
  IN  IF over /\ ~p.s.repeat THEN p
      ELSE GetPlaystatus([p EXCEPT !.m.new_progshuf = @ \/ over,
                                   !.m.fake_stop = TRUE], w)
NextOnDisc(p, w) ==
  LET after == {u \in Audio : u > p.s.cur_trk}
      t == CHOOSE u \in after : \A v \in after : u <= v
  IN  IF p.s.cur_trk = 0 \/ after = {} THEN p ELSE GoTo(p, w, t, Toc[t])
NextReady(p, w) ==
  CASE ~p.ret -> p
    [] p.ret /\ p.s.mode = "STOP" ->
         IF Listed(p) THEN p ELSE [p EXCEPT !.s.cur_trk = SelectNext(@)]
    [] p.ret /\ p.s.mode # "STOP" /\ Listed(p) -> NextInList(Unsampled(p), w)
    [] OTHER -> NextOnDisc(NoAb(Unsampled(p)), w)
CdNexttrk(p, w) == IF Searching(p) THEN p ELSE NextReady(DiscReady(p), w)
-----------------------------------------------------------------------------
(* Previous and next index: the drive finds the index, is paused there to  *)
(* learn its block, and plays from that block.  Every way out clears       *)
(* slioc_idx_pause, the last before the pause of a paused player.          *)
HoldIf(p, w) ==
  IF p.ret THEN PauseResume([p EXCEPT !.m.idx_pause = TRUE], w, FALSE) ELSE p
StatusIf(p, w) == IF p.ret THEN GetPlaystatus(p, w) ELSE p
Index(p, w) ==
  LET Found(q) == PlayOnIf(StatusIf(HoldIf(q, w), w), w, Leadout)
      End(q) == [q EXCEPT !.m.idx_pause = FALSE]
      Rest(q) == IF q.ret /\ q.s.mode = "PAUSE"
                 THEN GetPlaystatus(KeepPaused(q, w), w) ELSE q
  IN  IF Searching(p) \/ Listed(p) \/ p.s.mode \notin {"SAMPLE", "PLAY", "PAUSE"}
      THEN p ELSE Rest(End(Found(PlayTrkidx(NoAb(Unsampled(p)), w))))

(* Sampling starts behind the track that is playing or was selected. *)
SampleReady(p, w) ==
  LET i == IF p.s.cur_trk > 0 /\ p.s.cur_trk + 1 \in Track
           THEN p.s.cur_trk ELSE 0
  IN  CASE ~p.ret \/ Listed(p) \/ p.s.segplay # "NONE" \/ p.s.mode = "PAUSE" -> p
        [] p.ret /\ p.s.mode = "SAMPLE" -> SlPlayPause(p, w)
        [] OTHER ->
             RunSample([IF p.s.mode = "STOP" THEN StartStatPoll(p) ELSE p
                          EXCEPT !.s.cur_trk = i + 1, !.s.mode = "SAMPLE",
                                 !.m.next_sam = i], w)
CdSample(p, w) == IF Searching(p) THEN p ELSE SampleReady(DiscReady(p), w)

(* The a->b button: start, end, and off again. *)
SetEnd(p) == [p EXCEPT !.s.endpos = p.s.pos, !.s.segplay = "AB"]
CdAb(p, w) ==
  LET normal == p.s.mode = "PLAY" /\ ~Listed(p)
  IN  CASE Searching(p) -> p
        [] ~Searching(p) /\ p.s.segplay = "NONE" ->
             IF normal THEN [p EXCEPT !.s.startpos = p.s.pos,
                                      !.s.segplay = "A"] ELSE p
        [] ~Searching(p) /\ p.s.segplay = "A" ->
             IF normal THEN SlStop(SetEnd(GetPlaystatus(p, w)), w, TRUE)
             ELSE p
        [] ~Searching(p) /\ p.s.segplay = "AB" -> SlStop(NoSegment(p), w, TRUE)
=============================================================================
