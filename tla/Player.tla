------------------------------- MODULE Player -------------------------------
(***************************************************************************)
(* The player on one drive: in xmcd the user's commands, the timers that   *)
(* poll the drive and step a search, and the question that a change of     *)
(* mode asks; in the daemon of cda the commands of its clients and its own *)
(* poll; and the drive itself, which plays, ends, fails to read a block    *)
(* and loses its disc by its own button.  Every callback of the X toolkit, *)
(* and every command of the daemon, runs to its end before the next: an    *)
(* action is one of them.                                                  *)
(***************************************************************************)
EXTENDS PlayerCda

CONSTANTS OpSets,   \* sets of things the user and the disc may do
          MaxCalls, \* bound on commands, errors and removals of the disc
          MaxServed \* ... of the daemon of cda

VARIABLES p,        \* the player: see State
          ops,      \* what this user and this disc may do
          calls     \* how many commands, errors and removals so far

vars == <<p, ops, calls>>

Init ==
  /\ ops \in OpSets
  /\ p = [s |-> [mode |-> "NODISC", cur_trk |-> 0, pos |-> 0, off |-> 0,
                 segplay |-> "NONE", startpos |-> 0, endpos |-> 0,
                 program |-> FALSE, onetrk |-> FALSE, shuffle |-> FALSE,
                 repeat |-> FALSE, plan |-> <<>>, order |-> <<>>,
                 prog_cnt |-> 0],
          m |-> [fake_stop |-> FALSE, new_progshuf |-> FALSE,
                 idx_pause |-> FALSE, next_sam |-> 0, sav_end |-> 0,
                 sav_msf |-> 0, errcnt |-> 0, errblk |-> 0, nostatcnt |-> 0,
                 stat_polling |-> FALSE, stat_id |-> FALSE, stray |-> 0,
                 insert_polling |-> "daemon" \notin ops, searching |-> "no",
                 search_id |-> FALSE, start_search |-> FALSE,
                 start_addr |-> 0, ask |-> "no"],
          d |-> [st |-> "idle", pos |-> 0, end |-> 0], ret |-> FALSE,
          app |-> IF "daemon" \in ops THEN "cda" ELSE "xmcd"]
  /\ calls = 0
-----------------------------------------------------------------------------
(* The commands.  A question of the program holds every window; the mouse  *)
(* that holds a search button down can give no command but the search's,   *)
(* the keys that still can are refused by their callbacks.                 *)
Counted == /\ calls < (IF p.app = "cda" THEN MaxServed ELSE MaxCalls)
           /\ calls' = calls + 1 /\ UNCHANGED ops
Given(op, q) ==
  /\ op \in ops /\ p.app = "xmcd" /\ p.m.ask = "no"
  /\ Counted /\ p' = Ret(q, FALSE)
Clicked(op, q) == ~Searching(p) /\ Given(op, q)

(* A data track, and a place within a track before playing, are chosen     *)
(* only where the set of operations says so.                               *)
Chosen(t) == t \in Audio \/ "data" \in ops

PlayPause == \E w \in World : Given("play", CdPlayPause(p, w))
Stop      == \E w \in World : Given("stop", CdStop(p, w))
Prevtrk   == \E w \in World : Given("prev", CdPrevtrk(p, w))
Nexttrk   == \E w \in World : Given("next", CdNexttrk(p, w))
IndexSearch == \E w \in World : Given("index", Index(p, w))
Sample    == \E w \in World : Given("sample", CdSample(p, w))
Ab        == \E w \in World : Given("ab", CdAb(p, w))
Search    == \E w \in World, dir \in {"rew", "ff"} :
               p.m.searching # dir /\ Given("search", CdSearch(p, w, dir))
Warp      == \E w \in World, t \in Track :
               \E off \in 0..TrackEnd(t) - Toc[t] - 1 :
                 /\ Chosen(t) /\ (p.s.mode = "STOP" => "preset" \in ops)
                 /\ Clicked("warp", CdWarp(p, w, t, off))
Keypad    == \E w \in World, t \in Track :
               Chosen(t) /\ Clicked("keypad", KeypadEnter(p, w, t, 0))
Shuffle   == Clicked("shuffle", CdShuffle(p))
Repeat    == Clicked("repeat", SlRepeat(p, ~p.s.repeat))
EditProgram == \E plan \in Programs \cup {<<>>} :
                 /\ p.s.mode = "STOP" /\ plan # p.s.plan
                 /\ Clicked("program", PgmseqTxtchg(p, plan))
ListPlay  == \E w \in World, t \in Track :
               /\ p.s.mode # "NODISC" /\ Chosen(t)
               /\ Clicked("list", TrklistPlay(p, w, t))
Segment   == \E w \in World, a \in Block, b \in Block :
               /\ p.s.mode # "NODISC" /\ a + MinPlayBlks < b
               /\ Clicked("segment", SegmentsSelect(p, w, a, b))
Eject     == \E w \in World : Given("eject", LoadEject(p, w))
Iconify   == \E b \in BOOLEAN : Clicked("icon", Icon(p, b))

(* What ends what a command began. *)
LetGo == /\ Searching(p) /\ UNCHANGED <<ops, calls>>
         /\ \E w \in World : p' = Ret(Release(p, w), FALSE)
Answer == /\ p.m.ask # "no" /\ UNCHANGED <<ops, calls>>
          /\ \/ \E w \in World : p' = Ret(ShuffleYes(p, w), FALSE)
             \/ p' = [p EXCEPT !.m.ask = "no"]
-----------------------------------------------------------------------------
(* The commands of cda's clients, each after an update of the state, and   *)
(* what the daemon does while there are none.  A place behind the last     *)
(* block of its track that is played ("beyond"), and a program while a     *)
(* disc plays ("edit"), are asked for only where the set of operations     *)
(* says so.                                                                *)
Ready(w) == {Update(p, w, due) : due \in BOOLEAN}
Unplayed(t, off) == t # 0 /\ off # NoPlace /\ Toc[t] + off >= Clip(TrackEnd(t))
Served(op, q) ==
  op \in ops /\ p.app = "cda" /\ Counted /\ p' = Ret(q, FALSE)

CdaPlay    == \E w \in World : \E q \in Ready(w), t \in {0} \cup Track :
                \E off \in {NoPlace} \cup
                     IF t = 0 THEN {} ELSE 0..TrackEnd(t) - Toc[t] :
                  /\ t = 0 \/ Chosen(t)
                  /\ Unplayed(t, off) => "beyond" \in ops
                  /\ Served("play", DoPlay(q, w, t, off))
CdaPause   == \E w \in World : \E q \in Ready(w) : Served("pause", DoPause(q, w))
CdaStop    == \E w \in World : \E q \in Ready(w) : Served("stop", DoStop(q, w))
CdaTrack   == \E w \in World : \E q \in Ready(w) :
                Served("prev", DoPrev(q, w)) \/ Served("next", DoNext(q, w))
CdaIndex   == \E w \in World : \E q \in Ready(w) : Served("index", DoIndex(q, w))
CdaProgram == \E w \in World : \E q \in Ready(w) :
                \/ \E plan \in Programs :
                     /\ p.s.mode = "STOP" \/ "edit" \in ops
                     /\ Served("program", DoDefine(q, plan))
                \/ Served("program", DoClear(q))
CdaShuffle == \E w \in World : \E q \in Ready(w), b \in BOOLEAN :
                Served("shuffle", DoShuffle(q, b))
CdaRepeat  == \E w \in World : \E q \in Ready(w), b \in BOOLEAN :
                Served("repeat", SlRepeat(q, b))
CdaDisc    == \E w \in World : \E q \in Ready(w) : Served("eject", DoEject(q, w))
CdaPoll    == /\ p.app = "cda" /\ UNCHANGED <<ops, calls>>
              /\ \E w \in World : p' = Ret(Update(p, w, TRUE), FALSE)
-----------------------------------------------------------------------------
(* The timers. *)
Poll(q, w) ==
  LET g == GetPlaystatus(q, w)
  IN  CASE ~q.m.stat_polling -> q
        [] q.m.stat_polling /\ g.ret -> AddStatTimer(g)
        [] q.m.stat_polling /\ ~g.ret -> [g EXCEPT !.m.stat_polling = FALSE]
StatPoll ==
  /\ p.m.stat_id /\ UNCHANGED <<ops, calls>>
  /\ \E w \in World : p' = Ret(Poll([p EXCEPT !.m.stat_id = FALSE], w), FALSE)
StrayPoll ==
  /\ p.m.stray > 0 /\ UNCHANGED <<ops, calls>>
  /\ \E w \in World : p' = Ret(Poll([p EXCEPT !.m.stray = @ - 1], w), FALSE)
InsertPoll ==
  /\ p.m.insert_polling /\ UNCHANGED <<ops, calls>>
  /\ LET q == DiscReady(p)
     IN  p' = Ret([q EXCEPT !.m.insert_polling = ~q.ret], FALSE)
SearchTimer ==
  /\ p.m.search_id /\ UNCHANGED <<ops, calls>>
  /\ \E w \in World : p' = Ret(RunSearch(p, w), FALSE)
-----------------------------------------------------------------------------
(* The drive.  The search timer (skip_pause) is faster than the shortest   *)
(* piece of a search, so the drive stands still under it.                  *)
DriveStep ==
  /\ p.d.st = "playing" /\ ~p.m.search_id /\ UNCHANGED <<ops, calls>>
  /\ p' = IF p.d.pos + 1 < p.d.end THEN [p EXCEPT !.d.pos = @ + 1]
                                   ELSE [p EXCEPT !.d.st = "done"]
DriveError ==
  /\ "error" \in ops /\ p.d.st = "playing" /\ Counted
  /\ p' = [p EXCEPT !.d.st = "error"]
Remove ==
  /\ "remove" \in ops /\ p.d.st # "empty" /\ Counted
  /\ p' = [p EXCEPT !.d = [st |-> "empty", pos |-> 0, end |-> 0]]
Insert ==
  /\ p.d.st = "empty" /\ UNCHANGED <<ops, calls>>
  /\ ~p.m.search_id
  /\ IF p.app = "cda" THEN p.s.mode # "PLAY"
     ELSE p.m.stat_polling => ~p.m.stat_id /\ p.m.stray = 0
  /\ p' = [p EXCEPT !.d = [st |-> "idle", pos |-> 0, end |-> 0]]

Next ==
  \/ PlayPause \/ Stop \/ Prevtrk \/ Nexttrk \/ IndexSearch \/ Sample \/ Ab
  \/ Search \/ Warp \/ Keypad \/ Shuffle \/ Repeat \/ EditProgram \/ ListPlay
  \/ Segment \/ Eject \/ Iconify \/ LetGo \/ Answer
  \/ CdaPlay \/ CdaPause \/ CdaStop \/ CdaTrack \/ CdaIndex \/ CdaProgram
  \/ CdaShuffle \/ CdaRepeat \/ CdaDisc \/ CdaPoll
  \/ StatPoll \/ StrayPoll \/ InsertPoll \/ SearchTimer
  \/ DriveStep \/ DriveError \/ Remove \/ Insert

Spec == Init /\ [][Next]_vars
-----------------------------------------------------------------------------
TypeOK == p \in State /\ calls \in Nat /\ ops \in OpSets

(* What the window shows as playing is watched by a timer: nothing else    *)
(* would see the end of it.  (The daemon polls as long as it runs.)        *)
Polled ==
  p.app = "xmcd" /\ p.s.mode \in {"PLAY", "SAMPLE"} /\ ~Searching(p)
    => p.m.stat_polling /\ (p.m.stat_id \/ p.m.stray > 0)

(* While the window shows stop or pause, no music is heard, but for the    *)
(* pieces of a search.                                                     *)
Silent ==
  p.s.mode \in {"STOP", "PAUSE"} /\ ~Searching(p) => p.d.st # "playing"

(* In a program or shuffle the drive is told to play the listed track and  *)
(* no other, wherever commands, errors and repeats have led.               *)
InList ==
  (p.s.mode \in {"PLAY", "PAUSE"} /\ Listed(p)
     /\ ~Searching(p) /\ ~p.m.fake_stop) =>
    /\ p.s.prog_cnt \in 1..Len(p.s.order)
    /\ LET t == p.s.order[p.s.prog_cnt]
       IN  p.d.st \in {"playing", "paused"} /\ t \in Audio
             => Toc[t] <= p.d.pos /\ p.d.end <= TrackEnd(t)

(* A segment is not played beyond its end. *)
InSegment ==
  p.s.mode \in {"PLAY", "PAUSE"} /\ p.s.segplay = "AB" /\ p.d.st = "playing"
    => p.d.end <= p.s.endpos

(* The timers play a program or shuffle in turn: they go on only when the  *)
(* drive has ended the track before (run_prog from get_playstatus), to the *)
(* next one, or from the last to the first of a repeat: no track is cut    *)
(* short, left out or played again.                                        *)
TakesTurn ==
  LET go == /\ calls' = calls /\ p.m.ask = "no" /\ ~Searching(p)
            /\ Listed(p) /\ ~p.m.fake_stop
            /\ p.s.mode = "PLAY" /\ p'.s.mode = "PLAY"
      starts == p.d.st \in {"done", "idle"} /\ p'.d.st = "playing"
  IN  go /\ (starts \/ p'.s.prog_cnt # p.s.prog_cnt) =>
        /\ p.d.st # "playing"
        /\ \/ p'.s.prog_cnt = p.s.prog_cnt + 1
           \/ /\ p.s.repeat /\ p'.s.prog_cnt = 1
              /\ p.s.prog_cnt = Len(p.s.order)
InTurn == [][TakesTurn]_vars

(* Playing that is left alone and not repeated comes to its end: a status  *)
(* that finds the drive not playing goes on to what is left of the list or *)
(* of the sampling, goes on behind the block that failed, or lets one of   *)
(* the MaxNoStat empty answers pass.  All of these run out; Polled says    *)
(* that there is such a status, and the drive comes to the end of a piece. *)
Left(q) == CASE q.s.mode = "SAMPLE" -> Len(Toc) - q.m.next_sam
             [] q.s.mode # "SAMPLE" /\ Listed(q) -> Len(q.s.order) - q.s.prog_cnt
             [] OTHER -> 0
GoesOn ==
  LET alone == /\ calls' = calls /\ p.m.ask = "no" /\ ~Searching(p)
               /\ ~p.s.repeat /\ p.d.st \in {"idle", "paused", "done", "error"}
               /\ p'.m.insert_polling = p.m.insert_polling
               /\ p.s.mode \in {"PLAY", "SAMPLE"} /\ p'.s.mode = p.s.mode
  IN  alone =>
        \/ p.m.new_progshuf /\ ~p'.m.new_progshuf
        \/ /\ p'.m.new_progshuf = p.m.new_progshuf
           /\ \/ Left(p') < Left(p)
              \/ /\ Left(p') = Left(p)
                 /\ \/ p'.m.nostatcnt = p.m.nostatcnt + 1
                    \/ p.d.st = "error" /\ p.d.pos < p'.d.pos
                       /\ p'.d.end <= p.d.end
Proceeds == [][GoesOn]_vars
=============================================================================
