-------------------------------- MODULE PlayerInv ----------------------------
(***************************************************************************)
(* The inductive invariant of the player, and the conditions under which   *)
(* the theorems of PlayerProofs hold.                                      *)
(* The invariant is about the state between two callbacks or commands. In  *)
(* the middle of one only parts of it hold; they have names of their own.  *)
(***************************************************************************)
EXTENDS Player

-----------------------------------------------------------------------------
(* What the disc and the drive are like: commands are taken, the clip at   *)
(* the end of a play (CLIP_FRAMES, 10) is no more than the smallest piece  *)
(* worth playing (minimumPlayBlocks, 25 by default), a shuffled order is   *)
(* not empty (there is an audio track), and every track is longer than the *)
(* clip.                                                                   *)

Sane == /\ Faults = {} /\ ClipFrames <= MinPlayBlks /\ <<>> \notin Orders
        /\ \A t \in Track : Toc[t] + ClipFrames < Toc[t + 1]

-----------------------------------------------------------------------------
(* The users the theorems are about. Out of the operations that the model  *)
(* has, those that the README lists under "Disagreements" with the name in *)
(* quotes are left out, and so is search, whose release knows no segment.  *)
(* Warp and sampling are not both given: a warp at the end of a sampling   *)
(* goes on after it has stopped the play. A warp is for drives that do not *)
(* call a stopped disc paused, and the daemon plays discs that begin with  *)
(* an audio track.                                                         *)

Plain(o) ==
  /\ o \cap {"search", "preset", "data", "beyond", "edit"} = {}
  /\ ~ ({"warp", "sample"} \subseteq o)
  /\ "warp" \in o => StoppedAs = {"idle"}
  /\ "daemon" \in o => 1 \in Audio

-----------------------------------------------------------------------------
(* Types: those of TypeOK, and a drive that is within the disc. *)

Typed(q) == q \in State /\ q.d.pos < Leadout /\ q.d.end \in Block

(* A disc or a list is being played, or paused in it. *)
On(q) == q.s.mode \in {"PLAY", "PAUSE"}

(* No end is forced, and no index search pauses, between two commands. *)
Unforced(q) == q.m.fake_stop = FALSE /\ q.m.idx_pause = FALSE

(* No search is under way. The daemon has no segment, sampling, list of    *)
(* one track, timer or question.                                           *)
Flags(q, o) ==
  /\ q.m.searching = "no" /\ q.m.search_id = FALSE
  /\ q.app = IF "daemon" \in o THEN "cda" ELSE "xmcd"
  /\ q.app = "cda" => /\ q.s.segplay = "NONE" /\ q.s.mode # "SAMPLE" /\ q.s.onetrk = FALSE
                      /\ q.m.stat_id = FALSE /\ q.m.stray = 0 /\ q.m.ask = "no"
  /\ q.s.mode = "SAMPLE" => "sample" \in o

(* The empty list. *)
Nil == <<>>

(* A list leaves no room for a segment or sampling, a program and a        *)
(* shuffle exclude each other, and a program of xmcd is never empty.       *)
Lists(q) ==
  /\ q.app = "xmcd" /\ q.s.program => q.s.plan # Nil
  /\ q.s.onetrk => q.s.program
  /\ ~ (q.s.program /\ q.s.shuffle)
  /\ Listed(q) => q.s.segplay = "NONE" /\ q.s.mode # "SAMPLE"
  /\ q.s.mode = "SAMPLE" => q.s.segplay = "NONE"

(* The position in the order that is playing is one of its entries, and    *)
(* the order has something to play; only a repeated order that has come to *)
(* its end will be started anew.                                           *)
Entered(q) == On(q) /\ Listed(q) =>
  /\ q.s.prog_cnt \in 1..Len(q.s.order) /\ HasAudio(q.s.order)
  /\ q.m.new_progshuf => q.s.repeat /\ q.s.prog_cnt = Len(q.s.order)

(* The drive is heard only when the mode says so. *)
Quiet(q) == q.s.mode \notin {"PLAY", "SAMPLE"} => q.d.st \notin {"playing", "error"}

Heard == {"playing", "paused", "error"}

(* In a segment, what plays ends in it, and so does what would be played   *)
(* on behind an unreadable block (sav_msf).                                *)
InSeg(q) ==
  On(q) /\ q.s.segplay = "AB" /\ q.d.st \in Heard
    => q.d.end <= q.s.endpos /\ Clip(q.m.sav_msf) <= q.s.endpos

Within(q, t) == Toc[t] <= q.d.pos /\ q.d.pos < TrackEnd(t)

(* The drive is in the track, and what plays, or would be played on, ends  *)
(* in it. With the warp slider, whose end is that of cur_trk, the display  *)
(* shows the track that plays, also when the drive is idle there.          *)
InEntry(q, o, t) ==
  t \in Audio =>
    /\ q.d.st \in Heard => Within(q, t) /\ q.d.end <= TrackEnd(t) /\ Clip(q.m.sav_msf) <= TrackEnd(t)
    /\ "warp" \in o => /\ q.s.cur_trk = t
                       /\ q.d.st # "empty" /\ q.s.mode = "PLAY" => Within(q, t)

EntryOf(q) == q.s.order[q.s.prog_cnt]

(* In a list of xmcd that is the track of the entry at prog_cnt. *)
InEntries(q, o) ==
  q.app = "xmcd" /\ On(q) /\ Listed(q) => InEntry(q, o, EntryOf(q))

(* What is played on behind an unreadable block ends no later than what    *)
(* was playing. (Not so for a drive that calls a stopped disc paused: the  *)
(* resume would then play to an end kept from before.)                     *)
Resumable(q, o) ==
  /\ q.d.st = "error" => "error" \in o
  /\ ("error" \in o => StoppedAs = {"idle"})
       => ("error" \in o /\ q.d.st \in Heard => Clip(q.m.sav_msf) <= q.d.end)

(* What holds in the middle of a status, too. *)
Ok(q, o) ==
  /\ Flags(q, o) /\ Lists(q) /\ Entered(q) /\ Quiet(q)
  /\ InSeg(q) /\ InEntries(q, o) /\ Resumable(q, o)

-----------------------------------------------------------------------------
(* The timers: a poll that is on has a timer, PLAY and SAMPLE have a poll  *)
(* and PAUSE none. Sampling that has stopped by itself leaves a poll       *)
(* behind.                                                                 *)

Timed(q, o) == q.app = "xmcd" =>
  /\ q.m.stat_polling => q.m.stat_id \/ q.m.stray > 0
  /\ q.s.mode \in {"PLAY", "SAMPLE"} => q.m.stat_polling
  /\ q.s.mode = "PAUSE" => ~ q.m.stat_polling
  /\ q.m.stat_polling /\ q.s.mode = "STOP" => "sample" \in o
  /\ q.m.stat_polling /\ q.s.mode = "NODISC" => q.d.st = "empty"

(* No place is kept for the next play while stopped, but for the end of a  *)
(* sampling, which sets it back when its poll comes.                       *)
Placed(q, o) == q.app = "xmcd" /\ q.s.mode \in {"STOP", "NODISC"} =>
  q.s.off = 0 \/ ("sample" \in o /\ q.m.stat_polling /\ q.d.st \in {"idle", "empty"})

(* The invariant of a state between two steps ... *)
Inv(q, o) == Typed(q) /\ Ok(q, o) /\ Unforced(q) /\ Timed(q, o) /\ Placed(q, o)

(* ... and of the specification. *)
Settled == /\ ops \in OpSets /\ calls \in Nat
           /\ Plain(ops) /\ Inv(p, ops)

-----------------------------------------------------------------------------
(* The condition under which playing proceeds: the skip over an unreadable *)
(* block is not nothing, and a drive with such blocks does not call a      *)
(* stopped disc paused.                                                    *)

Mends(o) == ErrSkip > 0 /\ ("error" \in o => StoppedAs = {"idle"})
=============================================================================
