---------------------------- MODULE PlayerModes ----------------------------
(***************************************************************************)
(* The rest of the user's commands: the search buttons with their timer,   *)
(* the warp slider, the keypad, the track list, the program, shuffle,      *)
(* repeat and segment settings, and the eject button.                      *)
(***************************************************************************)
EXTENDS PlayerOps

(* One piece of a search: back within the track of a program or within the *)
(* segment, ...                                                            *)
RewPiece(p, w) ==
  LET first == p.m.start_search
      i    == Greater((IF first THEN p.s.pos ELSE p.m.start_addr) - SkipBlks,
                      ClipFrames)
      low  == CASE Listed(p) -> Toc[Greater(p.s.cur_trk, 1)]
                [] ~Listed(p) /\ p.s.segplay = "AB" -> p.s.startpos
                [] OTHER -> 0
      addr == Greater(i, low)
  IN  DoPlayaudio([p EXCEPT !.m.start_search = FALSE, !.m.start_addr = addr],
                  w, addr, addr + SrchBlks)
(* ... or forward to the end of the same. *)
FfPiece(p, w) ==
  LET first == p.m.start_search
      from == (IF first THEN p.s.pos ELSE p.m.start_addr) + SkipBlks
      high == IF Listed(p) /\ p.s.cur_trk > 0 THEN TrackEnd(p.s.cur_trk)
                                              ELSE Leadout
      to   == Lesser(from + SrchBlks, high)
      end  == IF p.s.segplay = "AB" THEN Lesser(to, p.s.endpos) ELSE to
      addr == IF end < from + SrchBlks \/ from + SrchBlks = high
              THEN end - SkipBlks ELSE from
  IN  DoPlayaudio([p EXCEPT !.m.start_search = FALSE, !.m.start_addr = addr],
                  w, addr, end)
(* slioc_run_rew and slioc_run_ff, which the search timer calls again. *)
Piece(p, w) ==
  IF ~p.ret THEN p
  ELSE [IF p.m.searching = "rew" THEN RewPiece(p, w) ELSE FfPiece(p, w)
          EXCEPT !.m.search_id = TRUE]
RunSearch(p, w) ==
  Piece(GetPlaystatus([p EXCEPT !.m.search_id = FALSE], w), w)

(* A search does nothing but set the flag unless something is playing. *)
Active == {"SAMPLE", "PLAY", "PAUSE"}
Unsample(p, w) == IF p.s.mode = "SAMPLE" THEN SlPlayPause(p, w) ELSE p
StartSearch(p, w) ==
  RunSearch([IF p.s.mode = "PLAY" THEN StopStatPoll(p) ELSE p
               EXCEPT !.m.start_search = TRUE], w)
Press(p, w, dir) ==
  LET q == [p EXCEPT !.m.searching = dir]
  IN  IF p.s.mode \in Active THEN StartSearch(Unsample(q, w), w) ELSE q

(* The release plays on from the block the search has reached, whatever    *)
(* the status says.                                                        *)
Resumed(p, w) ==
  CASE ~p.ret -> p
    [] p.ret /\ p.s.mode = "PAUSE" -> KeepPaused(p, w)
    [] p.ret /\ p.s.mode # "PAUSE" -> StartStatPoll(p)
PlayOut(p, w, dir) ==
  LET segment == dir = "ff" /\ ~Listed(p) /\ p.s.segplay = "AB"
  IN  IF segment /\ p.s.pos + MinPlayBlks > p.s.endpos THEN p
      ELSE Resumed(PlayOn(p, w, IF segment THEN p.s.endpos ELSE Leadout), w)
StopSearch(p, w, dir) ==
  PlayOut(GetPlaystatus([p EXCEPT !.m.search_id = FALSE], w), w, dir)
Release(p, w) ==
  LET q == [p EXCEPT !.m.searching = "no"]
  IN  IF p.s.mode \in Active THEN StopSearch(Unsample(q, w), w, p.m.searching)
                             ELSE q
(* The buttons: pressing one releases the other. *)
CdSearch(p, w, dir) ==
  IF Searching(p) THEN Press(Ret(Release(p, w), FALSE), w, dir)
                  ELSE Press(p, w, dir)
-----------------------------------------------------------------------------
(* slioc_shuffle. *)
SlShuffle(p, enable) ==
  CASE p.s.segplay = "A" -> p
    [] p.s.segplay # "A" /\ p.s.mode \in {"STOP", "NODISC"} /\ p.s.program -> p
    [] p.s.segplay # "A" /\ p.s.mode \in Active /\ enable -> p
    [] OTHER -> [NoSegment(p) EXCEPT !.s.shuffle = enable,
                                     !.s.order = IF enable THEN @ ELSE <<>>]
SlRepeat(p, enable) ==
  [p EXCEPT !.s.repeat = enable, !.m.new_progshuf = @ /\ enable]

(* The program's text changes (dbprog_pgmseq_txtchg). *)
EndOnetrk(p) ==
  IF p.s.onetrk THEN ProgClear([p EXCEPT !.s.onetrk = FALSE]) ELSE p
NoShuffle(p) == IF p.s.shuffle THEN SlShuffle(p, FALSE) ELSE p
PgmseqTxtchg(p, plan) ==
  LET q == NoSegment(NoShuffle(EndOnetrk(p)))
  IN  IF plan = <<>> THEN ProgClear(q)
      ELSE [q EXCEPT !.s.plan = plan, !.s.program = TRUE]
ClearText(p) == IF p.s.plan = <<>> THEN p ELSE PgmseqTxtchg(p, <<>>)
Clrpgm(p) == ClearText(EndOnetrk(p))

(* The user agrees to leave the program or the shuffle. *)
NoList(p) == IF p.s.shuffle THEN SlShuffle(p, FALSE)
             ELSE IF p.s.program THEN Clrpgm(p) ELSE p

(* The shuffle button.  What it is about to do depends on the mode before  *)
(* it asks the user, and is done after the user has agreed.                *)
CdShuffle(p) ==
  LET asks == \/ p.s.mode \in Active \/ p.s.segplay = "AB"
              \/ p.s.program /\ ~p.s.onetrk
  IN  CASE p.s.shuffle -> SlShuffle(p, FALSE)
        [] ~p.s.shuffle /\ asks -> [p EXCEPT !.m.ask = p.s.mode]
        [] OTHER ->
             SlShuffle(NoSegment(IF p.s.program THEN Clrpgm(p) ELSE p), TRUE)
ShuffleYes(p, w) ==
  LET a == [p EXCEPT !.m.ask = "no"]
      Set(q) == SlShuffle(NoSegment(IF q.s.program THEN Clrpgm(q) ELSE q),
                          TRUE)
      Restart(q) == CdPlayPause([Set(q) EXCEPT !.s.cur_trk = 0], w)
  IN  CASE p.m.ask = "PAUSE" -> CdPlayPause(Restart(SlStop(a, w, FALSE)), w)
        [] p.m.ask \in {"PLAY", "SAMPLE"} -> Restart(SlStop(a, w, FALSE))
        [] OTHER -> Set(a)

(* A track of the keypad, from off. *)
PlayFrom(p, w, t, off) ==
  CdPlayPause([p EXCEPT !.s.cur_trk = t, !.s.off = off,
                        !.s.pos = Lesser(Toc[t] + off, Leadout)], w)
KeypadTrack(p, w, t, off) ==
  CASE p.s.mode \in {"PLAY", "SAMPLE"} ->
         PlayFrom(SlStop(NoAb(p), w, FALSE), w, t, off)
    [] p.s.mode = "PAUSE" ->
         CdPlayPause(PlayFrom(SlStop(NoAb(p), w, FALSE), w, t, off), w)
    [] OTHER -> PlayFrom(p, w, t, off)
KeypadEnter(p, w, t, off) ==
  IF p.s.mode = "NODISC" THEN p ELSE KeypadTrack(NoList(p), w, t, off)

(* A double click in the track list plays that one track. *)
PlayOneTrack(p, w, t) ==
  CdPlayPause([p EXCEPT !.s.onetrk = TRUE, !.s.program = TRUE,
                        !.s.plan = <<t>>], w)
TrklistPlay(p, w, t) ==
  LET Halt(q) == IF q.s.mode # "STOP" THEN SlStop(q, w, FALSE) ELSE q
  IN  PlayOneTrack(NoSegment(NoShuffle(ProgClear(ClearText(Halt(p))))), w, t)

(* A segment chosen in the segments window. *)
SegmentsSelect(p, w, a, b) ==
  LET Chosen(q) == [q EXCEPT !.s.onetrk = FALSE, !.s.startpos = a,
                             !.s.endpos = b]
      Halt(q) == IF q.s.mode # "STOP" THEN SlStop(q, w, TRUE) ELSE q
  IN  [Halt(NoShuffle(ProgClear(Chosen(ClearText(p)))))
         EXCEPT !.s.segplay = "AB"]
-----------------------------------------------------------------------------
(* The warp slider, let go at off in track t: the current one, or one of   *)
(* the keypad.                                                             *)
PlayWarp(p, w, at) ==
  LET high == IF Listed(p) THEN TrackEnd(p.s.cur_trk) ELSE Leadout
      seg  == p.s.segplay = "AB"
      from == IF seg THEN Greater(at, p.s.startpos) ELSE at
      to   == IF seg THEN Lesser(high, p.s.endpos) ELSE high
  IN  CASE Listed(p) /\ p.s.cur_trk = 0 -> p
        [] OTHER -> IF to - MinPlayBlks < from THEN StartStop(p, w)
                    ELSE KeepPaused(DoPlayaudio(p, w, from, to), w)
SlWarp(p, w) ==
  IF p.s.mode \in Active THEN PlayWarp(Unsample(p, w), w, p.s.pos) ELSE p
WarpTo(p, w, t, off) ==
  SlWarp([p EXCEPT !.s.cur_trk = t, !.s.off = off,
                   !.s.pos = Lesser(Toc[t] + off, Leadout)], w)
CdWarp(p, w, t, off) ==
  CASE p.s.mode = "NODISC" -> p
    [] p.s.mode = "STOP" -> WarpTo(p, w, t, off)
    [] OTHER -> [WarpTo(IF t # p.s.cur_trk THEN NoList(p) ELSE p, w, t, off)
                   EXCEPT !.s.cur_trk = p.s.cur_trk]
-----------------------------------------------------------------------------
(* slioc_load_eject with a drive that ejects; loading is by hand. *)
LoadEject(p, w) ==
  LET Out(q) == IF Takes(p, w, "stop") THEN [q EXCEPT !.d.st = "empty"] ELSE q
  IN  IF Searching(p) THEN p
      ELSE StartInsertPoll(Out(ResetDisc(StopStatPoll(StartStop(p, w)))))

(* Mutant: the poll is not started again. *)
IconStops(p, iconified) ==
  IF p.s.mode = "PLAY" /\ ~iconified THEN StopStatPoll(p) ELSE p
(* The main window is iconified or opened: a new interval for the poll. *)
Icon(p, iconified) ==
  IF p.s.mode = "PLAY" /\ ~iconified THEN StartStatPoll(StopStatPoll(p)) ELSE p
=============================================================================
