------------------------------ MODULE PlayerCda ------------------------------
(***************************************************************************)
(* The commands of cda's daemon that change what plays: the service        *)
(* functions of cda.c over the functions of slioc.c.  There is no window   *)
(* here, no sampling, segment or search, and no timer: the state is        *)
(* brought up to date before a command, and while the daemon waits for     *)
(* one.                                                                    *)
(***************************************************************************)
EXTENDS PlayerModes

(* Before a command, and by the poll.  Before a command a playing disc is  *)
(* asked at most once a second (due).                                      *)
Update(p, w, due) ==
  CASE p.s.mode = "NODISC" -> DiscReady(p)
    [] p.s.mode = "PLAY" /\ due -> GetPlaystatus(p, w)
    [] OTHER -> p

(* play, with a track (or 0) and a place in it (or NoPlace): a disc that   *)
(* plays is stopped first, which forgets the track.  In a pause the place  *)
(* that is asked for is set, and playing goes on where it was.             *)
NoPlace        == -1
AtTrack(p, t)  == IF t = 0 THEN p ELSE [p EXCEPT !.s.cur_trk = t]
AtPlace(p, t, off) ==
  IF t = 0 \/ off = NoPlace THEN p
  ELSE [p EXCEPT !.s.off = off, !.s.pos = Toc[t] + off]
StopFirst(p, w, t) ==
  IF p.s.mode = "PLAY" THEN AtTrack(SlStop(AtTrack(p, t), w, FALSE), t)
                       ELSE AtTrack(p, t)
(* A place behind the track is refused, when the stop has been made. *)
Beyond(t, off) == t # 0 /\ off # NoPlace /\ off >= TrackEnd(t) - Toc[t]
DoPlay(p, w, t, off) ==
  CASE p.s.mode = "NODISC" -> p
    [] p.s.mode # "NODISC" /\ t # 0 /\ (p.s.shuffle \/ p.s.prog_cnt > 0) ->
         IF p.s.mode = "PLAY" THEN p ELSE AtTrack(p, t)
    [] OTHER -> LET q == StopFirst(p, w, t)
                IN  IF Beyond(t, off) THEN q
                    ELSE SlPlayPause(AtPlace(q, t, off), w)

DoPause(p, w) == IF p.s.mode = "PLAY" THEN SlPlayPause(p, w) ELSE p
DoStop(p, w)  == SlStop(p, w, TRUE)

(* track: previous is always the track before, but on the first track.     *)
Rewound(p) ==
  IF p.s.cur_trk > 1 THEN [p EXCEPT !.s.pos = Toc[p.s.cur_trk]] ELSE p
DoPrev(p, w) ==
  IF p.s.mode = "PLAY" THEN PrevReady(DiscReady(Rewound(p)), w) ELSE p
DoNext(p, w) == IF p.s.mode = "PLAY" THEN NextReady(DiscReady(p), w) ELSE p
DoIndex(p, w) ==
  IF p.s.mode = "PLAY" /\ p.s.order = <<>> THEN Index(p, w) ELSE p

(* program: the order is changed at once, whatever plays. *)
DoDefine(p, plan) ==
  IF p.s.mode = "NODISC" \/ p.s.shuffle THEN p
  ELSE [p EXCEPT !.s.order = plan, !.s.program = TRUE]
DoClear(p) ==
  IF p.s.mode = "NODISC" \/ p.s.shuffle THEN p
  ELSE [p EXCEPT !.s.order = <<>>, !.s.program = FALSE]

DoShuffle(p, enable) ==
  IF p.s.program \/ p.s.mode \notin {"NODISC", "STOP"} THEN p
  ELSE SlShuffle(p, enable)
DoEject(p, w) == IF p.s.mode = "NODISC" THEN p ELSE LoadEject(p, w)
=============================================================================
