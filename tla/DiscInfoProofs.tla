--------------------------- MODULE DiscInfoProofs ---------------------------
(***************************************************************************)
(* Proofs about DiscInfo, for any number of discs, children, calls under   *)
(* way and operations and any settings, by induction on Inv.               *)
(***************************************************************************)
EXTENDS DiscInfo, TLAPS

LoadAt == {"read", "rest", "wait"}
Aside  == {"ask"}
Running(y, k) == y.kids[k].st \in {"query", "select"}
At(s, S) == \E i \in 1..Len(s) : s[i].at \in S

(* A call that reads a pipe or waits for a child has one, a question is    *)
(* the user's; the child that Stop load would cancel is not forgotten, and *)
(* what a child looks up is a disc.                                        *)
Frames(s) ==
  \A i \in 1..Len(s) : /\ s[i].at \in LoadAt => s[i].kid # 0 /\ s[i].pid # 0
                       /\ s[i].at = "ask" => s[i].by = "user"
Live(y) ==
  /\ y.pid # 0 => y.kids[y.pid].st # "free"
  /\ \A k \in Slot : Running(y, k) \/ y.kids[k].out # "empty" =>
                        y.kids[k].disc \in Disc
Typed(y)  == y \in State /\ Frames(y.stack) /\ Live(y)

(* While an answer is awaited, or the reload button is insensitive though  *)
(* the disc was looked up, there is a call, or a dialog, whose end changes *)
(* that ...                                                                *)
Able(y) == y.disc # NoDisc /\ y.looked = y.disc => y.reload_btn
Waits(y) ==
  /\ y.qmode = "WAIT" => At(y.stack, LoadAt)
  /\ ~Able(y) => At(y.stack, LoadAt \cup {"reg"}) \/ "match" \in y.dlg
                        \/ "auth" \in y.dlg
(* ... and what is shown is waited for. *)
Shown(y) ==
  /\ \A d \in y.dlg : At(y.stack, {d})
  /\ y.ask # "no" => At(y.stack, {"ask"})

(* Of the calls that load or choose, the innermost is a load of child k,   *)
(* or (chosen) the choice from its list.                                   *)
Guarded(s, k, chosen) ==
  \E i \in 1..Len(s) :
    /\ \A j \in 1..(i - 1) : s[j].at \in Aside
    /\ \/ s[i].at \in LoadAt /\ s[i].pid = k
       \/ s[i].at = "match" /\ chosen
Chosen(y) == y.pipe # 0 /\ "match" \in y.dlg
Only(y) == \A k \in Slot : Running(y, k) => y.pid = k /\ y.disc # NoDisc
AllGuarded(y) == \A k \in Slot : Running(y, k) => Guarded(y.stack, k, Chosen(y))
One(y) ==
  /\ Only(y) /\ AllGuarded(y)
  /\ y.disc # NoDisc => y.open

(* What watches for a disc, or has looked it up; by: who asked for a call  *)
(* that is about to return or to begin.                                    *)
Watch(y, by) ==
  /\ y.disc = NoDisc => /\ y.timer /\ ~y.loaded /\ by = "user"
                        /\ \A i \in 1..Len(y.stack) : y.stack[i].by = "user"
  /\ y.disc # NoDisc => y.open
  /\ y.polling => \/ y.timer \/ by = "insert"
                  \/ \E i \in 1..Len(y.stack) : y.stack[i].by = "insert"
Looked(y) == y.disc # NoDisc => y.looked = y.disc

(* A call has nothing more to read. *)
Quiet(y, f) == ~Running(y, f.kid) /\ (f.at = "read" => y.kids[f.kid].out = "empty")

(* All the text there is has been read for this disc, once, and no child   *)
(* has more to come ...                                                    *)
Text0(y) ==
  /\ y.info = <<>> \/ y.info = <<y.disc>>
  /\ y.match \/ y.qmode = "MATCH" => y.info # <<>>
Children(y) ==
  \A k \in Slot :
    /\ y.kids[k].out \in {"match", "none", "reg"} => y.kids[k].st = "done"
    /\ Running(y, k) => y.kids[k].disc = y.disc /\ y.info = <<>>
Calls(y) ==
  \A i \in 1..Len(y.stack) : y.stack[i].at \in LoadAt =>
    LET f == y.stack[i]
    IN  /\ f.kid = f.pid /\ y.disc # NoDisc
        /\ y.kids[f.kid].st # "free" /\ y.kids[f.kid].disc = y.disc
        /\ f.at = "read" => y.info = <<>> \/ y.kids[f.kid].out # "match"
        /\ f.kid = y.pipe => ~Running(y, f.kid)
Source(y) == /\ Text0(y) /\ Children(y) /\ Calls(y)
             /\ y.pipe # 0 => y.kids[y.pipe].st # "free"
(* ... for any call but the innermost, and the one that the question       *)
(* whether to stop it is about.                                            *)
Over(y, f)  == f.at \in LoadAt => f.at # "rest" /\ Quiet(y, f)
AllOver(y)  == \A i \in 1..Len(y.stack) : Over(y, y.stack[i])
RestOver(y) == \A i \in 1..Len(y.stack) : i > 1 => Over(y, y.stack[i])
Later(y) ==
  \A i \in 1..Len(y.stack) : i > 1 /\ y.stack[i].at \in LoadAt =>
    /\ y.stack[i].at # "rest"
    /\ Quiet(y, y.stack[i]) \/
         (i = 2 /\ y.stack[1].at = "ask" /\ y.ask # "reload")

Calmed(e) == {"prompt", "calm"} \subseteq e /\ "helper" \notin e

Inv(y, e) ==
  /\ Typed(y) /\ Waits(y) /\ Shown(y)
  /\ "helper" \notin e => One(y)
  /\ "calm" \in e => Watch(y, "user") /\ Looked(y)
  /\ Calmed(e) => Source(y) /\ Later(y)

(* In the middle of a step, when a call that by asked for has been taken   *)
(* off the stack or is to be put on it: the call returns, ...              *)
Held(y, by, e) ==
  /\ Typed(y) /\ Shown(y)
  /\ "helper" \notin e => Only(y) /\ (y.disc # NoDisc => y.open)
  /\ "calm" \in e => Watch(y, by)
  /\ Calmed(e) => Source(y)
Midway(y, by, e) == Held(y, by, e) /\ (Calmed(e) => Later(y))
(* ... or what has been read is worked on, the others being over, ...      *)
Between(y, by, e) == Held(y, by, e) /\ (Calmed(e) => AllOver(y))
(* ... or a lookup begins, the others having nothing to read yet.          *)
Paused(y) ==
  \A i \in 1..Len(y.stack) : y.stack[i].at \in LoadAt =>
    /\ y.stack[i].at # "rest"
    /\ y.stack[i].at = "read" => y.kids[y.stack[i].kid].out = "empty"
Ready(y, by, e) == Held(y, by, e) /\ (Calmed(e) => Paused(y))
-----------------------------------------------------------------------------
(* The stack of calls with one more on it, and without the innermost. *)
LEMMA PushSeq ==
  ASSUME NEW s \in Seq(Frame), NEW f \in Frame, NEW t, t = <<f>> \o s
  PROVE  /\ t \in Seq(Frame) /\ t # <<>> /\ Len(t) = Len(s) + 1 /\ Len(s) \in Nat
         /\ t[1] = f /\ 1 \in 1..Len(t)
         /\ \A i \in 1..Len(s) : i + 1 \in 1..Len(t) /\ t[i + 1] = s[i]
         /\ \A i \in 1..Len(t) : i = 1 \/ (i > 1 /\ i - 1 \in 1..Len(s)
                                          /\ (i - 1) + 1 = i /\ t[i] = s[i - 1])
<1> HIDE DEF Frame
<1>1. /\ t \in Seq(Frame) /\ Len(t) = Len(s) + 1 /\ Len(s) \in Nat /\ t[1] = f
      /\ \A i \in 1..Len(s) : t[i + 1] = s[i]
  OBVIOUS
<1>2. \A i \in 1..Len(t) : i = 1 \/ (i > 1 /\ i - 1 \in 1..Len(s) /\ (i - 1) + 1 = i)
  BY <1>1
<1>3. \A i \in 1..Len(t) : i = 1 \/ t[i] = s[i - 1]
  BY <1>1, <1>2
<1> QED BY <1>1, <1>2, <1>3

LEMMA PopSeq ==
  ASSUME NEW s \in Seq(Frame), s # <<>>
  PROVE  /\ Tail(s) \in Seq(Frame) /\ Len(s) \in Nat \ {0}
         /\ Len(Tail(s)) = Len(s) - 1
         /\ Head(s) = s[1] /\ s[1] \in Frame /\ 1 \in 1..Len(s)
         /\ \A i \in 1..Len(Tail(s)) :
              /\ i + 1 \in 1..Len(s) /\ i + 1 > 1 /\ Tail(s)[i] = s[i + 1]
         /\ \A i \in 1..Len(s) :
              i = 1 \/ (i - 1 \in 1..Len(Tail(s)) /\ Tail(s)[i - 1] = s[i])
<1> HIDE DEF Frame
<1>1. /\ Tail(s) \in Seq(Frame) /\ Len(s) \in Nat \ {0}
      /\ Len(Tail(s)) = Len(s) - 1 /\ Head(s) = s[1] /\ s[1] \in Frame
      /\ \A i \in 1..Len(Tail(s)) : Tail(s)[i] = s[i + 1]
  OBVIOUS
<1>2. \A i \in 1..Len(s) : i = 1 \/ (i - 1 \in 1..Len(Tail(s)) /\ (i - 1) + 1 = i)
  BY <1>1
<1>3. \A i \in 1..Len(s) : i = 1 \/ Tail(s)[i - 1] = s[i]
  BY <1>1, <1>2
<1> QED BY <1>1, <1>2, <1>3

(* The fields of a state. *)
LEMMA Fields ==
  ASSUME NEW y \in State
  PROVE  /\ y.disc \in Disc \cup {NoDisc} /\ y.drive \in Disc \cup {NoDisc}
         /\ y.open \in BOOLEAN /\ y.polling \in BOOLEAN /\ y.timer \in BOOLEAN
         /\ y.loaded \in BOOLEAN /\ y.qmode \in {"NONE", "WAIT", "MATCH", "ERR"}
         /\ y.reload_btn \in BOOLEAN /\ y.info \in Seq(Disc)
         /\ y.match \in BOOLEAN /\ y.needreg \in BOOLEAN
         /\ y.list \in {0} \cup Slot /\ y.pipe \in {0} \cup Slot
         /\ y.pid \in {0} \cup Slot /\ y.stack \in Seq(Frame)
         /\ y.dlg \subseteq Dialogs /\ y.ask \in Asks
         /\ y.kids \in [Slot -> Kid] /\ 0 \notin Slot
         /\ y.looked \in Disc \cup {NoDisc} /\ y.reloads \in Nat
BY DiscAssumption DEF State, Slot

(* What a function that is about something else leaves alone. *)
OfDisc(y) == <<y.disc, y.drive, y.open, y.timer, y.looked, y.reloads>>
OfWatch(y) == <<y.polling, y.loaded>>
OfShow(y) == <<y.qmode, y.reload_btn, y.dlg>>
OfText(y) == <<y.info, y.match, y.needreg>>
OfKids(y) == <<y.kids, y.pid>>
OfList(y) == <<y.list, y.pipe>>

(* Of the children, c is cancelled. *)
Without(kids, c) ==
  [k \in Slot |-> IF k = c THEN [kids[k] EXCEPT !.st = "done"] ELSE kids[k]]
KidsCancelled(y, z) == z.kids = Without(y.kids, y.pid) /\ z.pid = 0

LEMMA KidDone ==
  ASSUME NEW m \in Kid, NEW d, d = [m EXCEPT !.st = "done"]
  PROVE  d \in Kid /\ d.st = "done" /\ d.out = m.out /\ d.disc = m.disc
BY DEF Kid

LEMMA WithoutKids ==
  ASSUME NEW kids \in [Slot -> Kid], NEW c
  PROVE  /\ Without(kids, c) \in [Slot -> Kid]
         /\ \A k \in Slot : k # c => Without(kids, c)[k] = kids[k]
         /\ \A k \in Slot : /\ k = c => Without(kids, c)[k].st = "done"
                            /\ Without(kids, c)[k].st \in {"done", kids[k].st}
                            /\ Without(kids, c)[k].out = kids[k].out
                            /\ Without(kids, c)[k].disc = kids[k].disc
<1>1. Without(kids, c) \in [Slot -> Kid]
  BY KidDone DEF Without
<1>2. \A k \in Slot : k # c => Without(kids, c)[k] = kids[k]
  BY DEF Without
<1>3. ASSUME NEW k \in Slot, k = c
      PROVE  /\ Without(kids, c)[k].st = "done"
             /\ Without(kids, c)[k].out = kids[k].out
             /\ Without(kids, c)[k].disc = kids[k].disc
  <2>1. Without(kids, c)[k] = [kids[k] EXCEPT !.st = "done"]
    BY <1>3 DEF Without
  <2>2. kids[k] \in Kid
    OBVIOUS
  <2> HIDE DEF Without
  <2> QED BY <2>1, <2>2, KidDone
<1> HIDE DEF Without
<1> QED BY <1>1, <1>2, <1>3

LEMMA CancelFacts ==
  ASSUME NEW y \in State, NEW z, z = Cancel(y)
  PROVE  /\ z \in State /\ KidsCancelled(y, z)
         /\ OfDisc(z) = OfDisc(y) /\ OfWatch(z) = OfWatch(y)
         /\ OfShow(z) = OfShow(y) /\ OfText(z) = OfText(y)
         /\ OfList(z) = OfList(y) /\ z.stack = y.stack /\ z.ask = y.ask
<1>0. y.kids \in [Slot -> Kid] /\ y.pid \in {0} \cup Slot /\ 0 \notin Slot
  BY Fields
<1>1. CASE y.pid = 0
  <2>1. z = y
    BY <1>1 DEF Cancel
  <2>2. y.kids = Without(y.kids, y.pid)
    BY <1>0, <1>1 DEF Without
  <2> QED BY <1>1, <2>1, <2>2 DEF KidsCancelled
<1>2. CASE y.pid # 0
  <2>1. z = [y EXCEPT !.kids = [y.kids EXCEPT ![y.pid] =
                                  [y.kids[y.pid] EXCEPT !.st = "done"]],
                      !.pid = 0]
    BY <1>2 DEF Cancel
  <2>2. [y.kids EXCEPT ![y.pid] = [y.kids[y.pid] EXCEPT !.st = "done"]]
          = Without(y.kids, y.pid)
    BY <1>0, <1>2 DEF Without
  <2>3. Without(y.kids, y.pid) \in [Slot -> Kid]
    BY <1>0, WithoutKids
  <2> HIDE DEF Without
  <2>4. z = [y EXCEPT !.kids = Without(y.kids, y.pid), !.pid = 0]
    BY <2>1, <2>2
  <2> QED BY ZenonT(60), <2>3, <2>4 DEF State, KidsCancelled, OfDisc, OfWatch, OfShow, OfText, OfList
<1> QED BY <1>1, <1>2

LEMMA FreeMatchlistFacts ==
  ASSUME NEW y \in State, NEW z, z = FreeMatchlist(y)
  PROVE  /\ z \in State /\ z.list = 0 /\ z.pipe = 0
         /\ OfDisc(z) = OfDisc(y) /\ OfWatch(z) = OfWatch(y)
         /\ OfShow(z) = OfShow(y) /\ OfText(z) = OfText(y)
         /\ OfKids(z) = OfKids(y) /\ z.stack = y.stack /\ z.ask = y.ask
BY DEF FreeMatchlist, State, OfDisc, OfWatch, OfShow, OfText, OfKids

(* One field is set. *)
LEMMA SetQmode ==
  ASSUME NEW y \in State, NEW v \in {"NONE", "WAIT", "MATCH", "ERR"},
         NEW z, z = [y EXCEPT !.qmode = v]
  PROVE  /\ z \in State /\ z.qmode = v /\ z.reload_btn = y.reload_btn
         /\ z.dlg = y.dlg /\ z.stack = y.stack /\ z.ask = y.ask
         /\ OfDisc(z) = OfDisc(y) /\ OfWatch(z) = OfWatch(y)
         /\ OfText(z) = OfText(y) /\ OfKids(z) = OfKids(y) /\ OfList(z) = OfList(y)
BY DEF State, OfDisc, OfWatch, OfText, OfKids, OfList

LEMMA SetButton ==
  ASSUME NEW y \in State, NEW v \in BOOLEAN, NEW z, z = [y EXCEPT !.reload_btn = v]
  PROVE  /\ z \in State /\ z.qmode = y.qmode /\ z.reload_btn = v
         /\ z.dlg = y.dlg /\ z.stack = y.stack /\ z.ask = y.ask
         /\ OfDisc(z) = OfDisc(y) /\ OfWatch(z) = OfWatch(y)
         /\ OfText(z) = OfText(y) /\ OfKids(z) = OfKids(y) /\ OfList(z) = OfList(y)
BY DEF State, OfDisc, OfWatch, OfText, OfKids, OfList

LEMMA SetAsk ==
  ASSUME NEW y \in State, NEW a \in Asks, NEW z, z = [y EXCEPT !.ask = a]
  PROVE  /\ z \in State /\ z.ask = a /\ z.stack = y.stack
         /\ OfDisc(z) = OfDisc(y) /\ OfWatch(z) = OfWatch(y)
         /\ OfShow(z) = OfShow(y) /\ OfText(z) = OfText(y)
         /\ OfKids(z) = OfKids(y) /\ OfList(z) = OfList(y)
BY DEF State, OfDisc, OfWatch, OfShow, OfText, OfKids, OfList

LEMMA DbclearFacts ==
  ASSUME NEW y \in State, NEW z, z = Dbclear(y)
  PROVE  /\ z \in State /\ KidsCancelled(y, z) /\ z.list = 0 /\ z.pipe = 0
         /\ OfDisc(z) = OfDisc(y) /\ OfWatch(z) = OfWatch(y)
         /\ z.qmode = "NONE" /\ (Able(y) => Able(z)) /\ z.dlg = y.dlg
         /\ z.info = <<>> /\ ~z.match /\ ~z.needreg
         /\ z.stack = y.stack /\ z.ask = y.ask
<1> DEFINE c == Cancel(y)
           e == <<>>
           d == [c EXCEPT !.info = e, !.match = FALSE, !.needreg = FALSE]
           w == FreeMatchlist(d)
<1>1. /\ c \in State /\ KidsCancelled(y, c)
      /\ OfDisc(c) = OfDisc(y) /\ OfWatch(c) = OfWatch(y)
      /\ OfShow(c) = OfShow(y) /\ c.stack = y.stack /\ c.ask = y.ask
  BY CancelFacts
<1> HIDE DEF c
<1>2. e \in Seq(Disc)
  OBVIOUS
<1> HIDE DEF e
<1>3. /\ d \in State /\ OfKids(d) = OfKids(c)
      /\ OfDisc(d) = OfDisc(c) /\ OfWatch(d) = OfWatch(c)
      /\ OfShow(d) = OfShow(c) /\ d.stack = c.stack /\ d.ask = c.ask
      /\ d.info = e /\ ~d.match /\ ~d.needreg
  <2>1. d \in State
    <3> DEFINE f == [c EXCEPT !.info = e]
               g == [f EXCEPT !.match = FALSE]
    <3>1. f \in State
      BY <1>1, <1>2 DEF State
    <3>2. d = [g EXCEPT !.needreg = FALSE]
      OBVIOUS
    <3> HIDE DEF d, f
    <3>3. g \in State
      BY ZenonT(60), <3>1 DEF State
    <3> HIDE DEF g
    <3> QED BY <3>2, <3>3 DEF State
  <2>2. d.info = e /\ ~d.match /\ ~d.needreg
    BY <1>1 DEF State
  <2>3. OfKids(d) = OfKids(c) /\ OfDisc(d) = OfDisc(c) /\ OfWatch(d) = OfWatch(c)
    BY <1>1 DEF State, OfDisc, OfWatch, OfKids
  <2>4. OfShow(d) = OfShow(c) /\ d.stack = c.stack /\ d.ask = c.ask
    BY <1>1 DEF State, OfShow
  <2> QED BY <2>1, <2>2, <2>3, <2>4
<1> HIDE DEF d
<1>4. /\ w \in State /\ w.list = 0 /\ w.pipe = 0 /\ OfKids(w) = OfKids(d)
      /\ OfDisc(w) = OfDisc(d) /\ OfWatch(w) = OfWatch(d)
      /\ OfShow(w) = OfShow(d) /\ w.stack = d.stack /\ w.ask = d.ask
      /\ OfText(w) = OfText(d)
  BY <1>3, FreeMatchlistFacts
<1> DEFINE b == w.reload_btn /\ y.disc # NoDisc
           v == [w EXCEPT !.qmode = "NONE"]
<1>5. z = [v EXCEPT !.reload_btn = b]
  BY DEF Dbclear, CdinfoClear, c, d, e
<1> HIDE DEF w
<1>6. /\ v \in State /\ v.qmode = "NONE" /\ v.reload_btn = w.reload_btn
      /\ v.dlg = w.dlg /\ v.stack = w.stack /\ v.ask = w.ask
      /\ OfDisc(v) = OfDisc(w) /\ OfWatch(v) = OfWatch(w)
      /\ OfText(v) = OfText(w) /\ OfKids(v) = OfKids(w) /\ OfList(v) = OfList(w)
  BY <1>4, SetQmode
<1> HIDE DEF v
<1>7. b \in BOOLEAN /\ (b <=> w.reload_btn /\ y.disc # NoDisc)
  BY <1>4, Fields
<1> HIDE DEF b
<1>8. /\ z \in State /\ z.qmode = v.qmode /\ z.reload_btn = b
      /\ z.dlg = v.dlg /\ z.stack = v.stack /\ z.ask = v.ask
      /\ OfDisc(z) = OfDisc(v) /\ OfWatch(z) = OfWatch(v)
      /\ OfText(z) = OfText(v) /\ OfKids(z) = OfKids(v) /\ OfList(z) = OfList(v)
  BY <1>5, <1>6, <1>7, SetButton
<1>9. Able(y) => Able(z)
  <2>1. z.disc = y.disc /\ z.looked = y.looked /\ w.reload_btn = y.reload_btn
    BY <1>1, <1>3, <1>4, <1>6, <1>8 DEF OfDisc, OfShow
  <2> QED BY <1>7, <1>8, <2>1 DEF Able
<1>10. z.list = 0 /\ z.pipe = 0
  BY <1>4, <1>6, <1>8 DEF OfList
<1> QED BY <1>1, <1>3, <1>4, <1>6, <1>8, <1>9, <1>10
        DEF OfShow, OfText, OfKids, KidsCancelled, e

LEMMA ReturnFacts ==
  ASSUME NEW y \in State, NEW by \in Caller, NEW z, z = Return(y, by)
  PROVE  /\ z \in State
         /\ OfDisc(z) = OfDisc(y) /\ OfShow(z) = OfShow(y)
         /\ OfText(z) = OfText(y) /\ OfKids(z) = OfKids(y)
         /\ OfList(z) = OfList(y) /\ z.stack = y.stack /\ z.ask = y.ask
         /\ z.loaded <=> y.loaded \/ by # "user"
         /\ z.polling <=> y.polling /\ by # "insert"
<1> DEFINE l == y.loaded \/ by # "user"
           p == y.polling /\ by # "insert"
<1>1. l \in BOOLEAN /\ p \in BOOLEAN
  OBVIOUS
<1>2. z = [y EXCEPT !.loaded = l, !.polling = p]
  BY DEF Return
<1> HIDE DEF l, p
<1>3. z \in State /\ z.loaded = l /\ z.polling = p
  <2> DEFINE m == [y EXCEPT !.loaded = l]
  <2>1. m \in State /\ m.loaded = l
    BY SMTT(40), <1>1 DEF State
  <2>2. z = [m EXCEPT !.polling = p]
    BY <1>2
  <2> HIDE DEF m
  <2>3. z \in State /\ z.polling = p
    <3>1. z \in State
      BY ZenonT(60), <1>1, <2>1, <2>2 DEF State
    <3>2. z.polling = p
      BY <2>1, <2>2 DEF State
    <3> QED BY <3>1, <3>2
  <2>4. z.loaded = m.loaded
    BY <2>1, <2>2 DEF State
  <2> QED BY <2>1, <2>3, <2>4
<1>4. /\ OfDisc(z) = OfDisc(y) /\ OfShow(z) = OfShow(y)
      /\ OfText(z) = OfText(y) /\ OfKids(z) = OfKids(y)
      /\ OfList(z) = OfList(y) /\ z.stack = y.stack /\ z.ask = y.ask
  BY <1>2 DEF State, OfDisc, OfShow, OfText, OfKids, OfList
<1> QED BY <1>3, <1>4 DEF l, p

LEMMA StopAskedFacts ==
  ASSUME NEW y \in State, NEW z, z = StopAsked(y)
  PROVE  /\ z \in State
         /\ OfDisc(z) = OfDisc(y) /\ OfWatch(z) = OfWatch(y)
         /\ OfShow(z) = OfShow(y) /\ OfText(z) = OfText(y)
         /\ OfKids(z) = OfKids(y) /\ OfList(z) = OfList(y)
         /\ z.stack = y.stack /\ z.ask \in {"no", y.ask}
<1>1. \E a \in Asks : a \in {"no", y.ask} /\ z = [y EXCEPT !.ask = a]
  BY Fields DEF StopAsked, Asks
<1>2. PICK a \in Asks : a \in {"no", y.ask} /\ z = [y EXCEPT !.ask = a]
  BY <1>1
<1> QED BY <1>2, SetAsk

(* What has been found is shown. *)
Outcome0(y, code) ==
  [StopAsked(y) EXCEPT !.qmode = Outcome(y, code), !.reload_btn = TRUE]
LEMMA OutcomeFacts ==
  ASSUME NEW y \in State, NEW code \in {"ok", "auth", "err"},
         NEW z, z = Outcome0(y, code)
  PROVE  /\ z \in State
         /\ z.qmode \in {"NONE", "MATCH", "ERR"} /\ (z.qmode = "MATCH" => y.match)
         /\ z.reload_btn /\ z.dlg = y.dlg /\ z.ask \in {"no", y.ask}
         /\ OfDisc(z) = OfDisc(y) /\ OfWatch(z) = OfWatch(y)
         /\ OfText(z) = OfText(y) /\ OfKids(z) = OfKids(y)
         /\ OfList(z) = OfList(y) /\ z.stack = y.stack
<1> DEFINE a == StopAsked(y)
           q == Outcome(y, code)
           t == TRUE
           m == [a EXCEPT !.qmode = q]
<1>1. /\ a \in State /\ OfShow(a) = OfShow(y) /\ a.ask \in {"no", y.ask}
      /\ OfDisc(a) = OfDisc(y) /\ OfWatch(a) = OfWatch(y)
      /\ OfText(a) = OfText(y) /\ OfKids(a) = OfKids(y)
      /\ OfList(a) = OfList(y) /\ a.stack = y.stack
  BY StopAskedFacts
<1>2. q \in {"NONE", "MATCH", "ERR"} /\ (q = "MATCH" => y.match)
  BY Fields DEF Outcome
<1>3. z = [m EXCEPT !.reload_btn = t]
  BY DEF Outcome0
<1> HIDE DEF a, q
<1>4. /\ m \in State /\ m.qmode = q /\ m.dlg = a.dlg
      /\ m.stack = a.stack /\ m.ask = a.ask
      /\ OfDisc(m) = OfDisc(a) /\ OfWatch(m) = OfWatch(a)
      /\ OfText(m) = OfText(a) /\ OfKids(m) = OfKids(a) /\ OfList(m) = OfList(a)
  BY <1>1, <1>2, SetQmode
<1> HIDE DEF m
<1>5. t \in BOOLEAN
  OBVIOUS
<1>8. t = TRUE
  OBVIOUS
<1> HIDE DEF t
<1>6. /\ z \in State /\ z.qmode = m.qmode /\ z.reload_btn = t /\ z.dlg = m.dlg
      /\ z.stack = m.stack /\ z.ask = m.ask
      /\ OfDisc(z) = OfDisc(m) /\ OfWatch(z) = OfWatch(m)
      /\ OfText(z) = OfText(m) /\ OfKids(z) = OfKids(m) /\ OfList(z) = OfList(m)
  BY <1>3, <1>4, <1>5, SetButton
<1>7. a.dlg = y.dlg
  BY <1>1 DEF OfShow
<1> QED BY <1>1, <1>2, <1>4, <1>6, <1>7, <1>8

(* The disc is at the head of the history. *)
Entered(y) == [y EXCEPT !.pid = 0, !.hist = y.disc]
LEMMA EnteredFacts ==
  ASSUME NEW y \in State, NEW z, z = Entered(y)
  PROVE  /\ z \in State /\ z.pid = 0 /\ z.kids = y.kids
         /\ OfDisc(z) = OfDisc(y) /\ OfWatch(z) = OfWatch(y)
         /\ OfShow(z) = OfShow(y) /\ OfText(z) = OfText(y)
         /\ OfList(z) = OfList(y) /\ z.stack = y.stack /\ z.ask = y.ask
<1>1. z \in State
  BY Fields DEF Entered, State
<1>2. /\ z.pid = 0 /\ z.kids = y.kids
      /\ OfDisc(z) = OfDisc(y) /\ OfWatch(z) = OfWatch(y)
      /\ OfShow(z) = OfShow(y) /\ OfText(z) = OfText(y)
      /\ OfList(z) = OfList(y) /\ z.stack = y.stack /\ z.ask = y.ask
  BY DEF Entered, State, OfDisc, OfWatch, OfShow, OfText, OfList
<1> QED BY <1>1, <1>2

LEMMA PushFacts ==
  ASSUME NEW y \in State, NEW f \in Frame, NEW z, z = Push(y, f)
  PROVE  /\ z \in State /\ z.stack = <<f>> \o y.stack /\ z.ask = y.ask
         /\ OfDisc(z) = OfDisc(y) /\ OfWatch(z) = OfWatch(y)
         /\ OfShow(z) = OfShow(y) /\ OfText(z) = OfText(y)
         /\ OfKids(z) = OfKids(y) /\ OfList(z) = OfList(y)
<1> DEFINE t == <<f>> \o y.stack
<1>1. t \in Seq(Frame)
  BY Fields, PushSeq
<1>2. z = [y EXCEPT !.stack = t]
  BY DEF Push
<1> HIDE DEF t
<1>3. z \in State /\ z.stack = t /\ z.ask = y.ask
  BY ZenonT(60), <1>1, <1>2 DEF State
<1>4. /\ OfDisc(z) = OfDisc(y) /\ OfWatch(z) = OfWatch(y)
      /\ OfShow(z) = OfShow(y) /\ OfText(z) = OfText(y)
      /\ OfKids(z) = OfKids(y) /\ OfList(z) = OfList(y)
  BY <1>2 DEF State, OfDisc, OfWatch, OfShow, OfText, OfKids, OfList
<1> QED BY <1>3, <1>4 DEF t

LEMMA PopFacts ==
  ASSUME NEW y \in State, y.stack # <<>>, NEW z, z = Pop(y)
  PROVE  /\ z \in State /\ z.stack = Tail(y.stack) /\ z.ask = y.ask
         /\ OfDisc(z) = OfDisc(y) /\ OfWatch(z) = OfWatch(y)
         /\ OfShow(z) = OfShow(y) /\ OfText(z) = OfText(y)
         /\ OfKids(z) = OfKids(y) /\ OfList(z) = OfList(y)
<1> DEFINE t == Tail(y.stack)
<1>1. t \in Seq(Frame)
  BY Fields, PopSeq
<1>2. z = [y EXCEPT !.stack = t]
  BY DEF Pop
<1> HIDE DEF t
<1>3. z \in State /\ z.stack = t /\ z.ask = y.ask
  BY ZenonT(60), <1>1, <1>2 DEF State
<1>4. /\ OfDisc(z) = OfDisc(y) /\ OfWatch(z) = OfWatch(y)
      /\ OfShow(z) = OfShow(y) /\ OfText(z) = OfText(y)
      /\ OfKids(z) = OfKids(y) /\ OfList(z) = OfList(y)
  BY <1>2 DEF State, OfDisc, OfWatch, OfShow, OfText, OfKids, OfList
<1> QED BY <1>3, <1>4 DEF t

LEMMA PopupFacts ==
  ASSUME NEW y \in State, NEW d \in Dialogs, NEW by \in Caller,
         NEW z, z = Popup(y, d, by)
  PROVE  /\ z \in State /\ z.stack = <<Call(d, 0, by)>> \o y.stack
         /\ Call(d, 0, by) \in Frame /\ Call(d, 0, by).at = d
         /\ Call(d, 0, by).by = by
         /\ z.ask = y.ask /\ z.qmode = "NONE" /\ z.reload_btn = y.reload_btn
         /\ z.dlg = y.dlg \cup {d}
         /\ OfDisc(z) = OfDisc(y) /\ OfWatch(z) = OfWatch(y)
         /\ OfText(z) = OfText(y) /\ OfKids(z) = OfKids(y) /\ OfList(z) = OfList(y)
<1> DEFINE D == y.dlg \cup {d}
           b == [y EXCEPT !.qmode = "NONE", !.dlg = D]
           f == Call(d, 0, by)
<1>1. D \subseteq Dialogs
  BY Fields
<1> HIDE DEF D
<1>2. b \in State /\ b.qmode = "NONE" /\ b.dlg = D /\ b.ask = y.ask
      /\ b.reload_btn = y.reload_btn /\ b.stack = y.stack
  BY ZenonT(60), <1>1 DEF State
<1>3. /\ OfDisc(b) = OfDisc(y) /\ OfWatch(b) = OfWatch(y)
      /\ OfText(b) = OfText(y) /\ OfKids(b) = OfKids(y) /\ OfList(b) = OfList(y)
  BY DEF State, OfDisc, OfWatch, OfText, OfKids, OfList
<1>4. f \in Frame /\ f.at = d /\ f.by = by
  BY DEF Call, Frame
<1>5. z = Push(b, f)
  BY DEF Popup, D
<1> HIDE DEF b, f
<1>6. /\ z \in State /\ z.stack = <<f>> \o b.stack /\ z.ask = b.ask
      /\ OfDisc(z) = OfDisc(b) /\ OfWatch(z) = OfWatch(b)
      /\ OfShow(z) = OfShow(b) /\ OfText(z) = OfText(b)
      /\ OfKids(z) = OfKids(b) /\ OfList(z) = OfList(b)
  BY <1>2, <1>4, <1>5, PushFacts
<1>7. z.qmode = "NONE" /\ z.reload_btn = y.reload_btn /\ z.dlg = D
  BY <1>2, <1>6 DEF OfShow
<1> QED BY <1>2, <1>3, <1>4, <1>6, <1>7 DEF D, f

-----------------------------------------------------------------------------
(* What Inv says of the stack, when a call is put on it or taken off. *)
LEMMA PushStack ==
  ASSUME NEW s \in Seq(Frame), NEW f \in Frame, NEW t, t = <<f>> \o s
  PROVE  /\ /\ Frames(s)
            /\ f.at \in LoadAt => f.kid # 0 /\ f.pid # 0
            /\ f.at = "ask" => f.by = "user"
            => Frames(t)
         /\ \A S : At(s, S) \/ f.at \in S => At(t, S)
         /\ \A k, c : f.at \in LoadAt /\ f.pid = k => Guarded(t, k, c)
         /\ \A k, c : f.at = "match" /\ c => Guarded(t, k, c)
         /\ \A k, c : f.at \in Aside /\ Guarded(s, k, c) => Guarded(t, k, c)
<1>1. /\ t \in Seq(Frame) /\ Len(t) = Len(s) + 1 /\ Len(s) \in Nat
      /\ t[1] = f /\ 1 \in 1..Len(t)
      /\ \A i \in 1..Len(s) : i + 1 \in 1..Len(t) /\ t[i + 1] = s[i]
      /\ \A i \in 1..Len(t) : i = 1 \/ (i > 1 /\ i - 1 \in 1..Len(s)
                                       /\ t[i] = s[i - 1])
  BY PushSeq
<1>2. ASSUME Frames(s), f.at \in LoadAt => f.kid # 0 /\ f.pid # 0,
             f.at = "ask" => f.by = "user"
      PROVE  Frames(t)
  <2> SUFFICES ASSUME NEW i \in 1..Len(t)
               PROVE  /\ t[i].at \in LoadAt => t[i].kid # 0 /\ t[i].pid # 0
                      /\ t[i].at = "ask" => t[i].by = "user"
    BY DEF Frames
  <2>1. CASE i = 1
    BY <1>1, <1>2, <2>1
  <2>2. CASE i # 1
    BY <1>1, <1>2, <2>2 DEF Frames
  <2> QED BY <2>1, <2>2
<1>3. \A S : At(s, S) \/ f.at \in S => At(t, S)
  BY <1>1 DEF At
<1>4. \A j \in 1..(1 - 1) : FALSE
  OBVIOUS
<1>5. \A k, c : f.at \in LoadAt /\ f.pid = k => Guarded(t, k, c)
  BY <1>1, <1>4 DEF Guarded
<1>6. \A k, c : f.at = "match" /\ c => Guarded(t, k, c)
  BY <1>1, <1>4 DEF Guarded
<1>7. ASSUME NEW k, NEW c, f.at \in Aside, Guarded(s, k, c)
      PROVE  Guarded(t, k, c)
  <2>1. PICK i \in 1..Len(s) :
          /\ \A j \in 1..(i - 1) : s[j].at \in Aside
          /\ \/ s[i].at \in LoadAt /\ s[i].pid = k
             \/ s[i].at = "match" /\ c
    BY <1>7 DEF Guarded
  <2>2. \A j \in 1..((i + 1) - 1) : t[j].at \in Aside
    <3> SUFFICES ASSUME NEW j \in 1..((i + 1) - 1) PROVE t[j].at \in Aside
      OBVIOUS
    <3>1. CASE j = 1
      BY <1>1, <1>7, <3>1
    <3>2. CASE j # 1
      <4>1. j \in 1..Len(t) /\ j - 1 \in 1..(i - 1)
        BY <1>1, <3>2
      <4> QED BY <1>1, <2>1, <3>2, <4>1
    <3> QED BY <3>1, <3>2
  <2>3. i + 1 \in 1..Len(t) /\ t[i + 1] = s[i]
    BY <1>1
  <2> QED BY <2>1, <2>2, <2>3 DEF Guarded
<1> QED BY <1>2, <1>3, <1>5, <1>6, <1>7

LEMMA PopStack ==
  ASSUME NEW s \in Seq(Frame), s # <<>>
  PROVE  /\ Frames(s) => Frames(Tail(s))
         /\ \A S : At(s, S) /\ s[1].at \notin S => At(Tail(s), S)
         /\ \A k, c : Guarded(s, k, c) /\ s[1].at \in LoadAt => s[1].pid = k
         /\ \A k, c : Guarded(s, k, c) /\ s[1].at = "match" => c
         /\ \A k, c : Guarded(s, k, c) /\ s[1].at \in Aside => Guarded(Tail(s), k, c)
         /\ \A k, c : Guarded(s, k, c) => s[1].at \in LoadAt \cup Aside \cup {"match"}
<1> DEFINE t == Tail(s)
<1>1. /\ t \in Seq(Frame) /\ Len(s) \in Nat \ {0} /\ Len(t) = Len(s) - 1
      /\ 1 \in 1..Len(s)
      /\ \A i \in 1..Len(t) : i + 1 \in 1..Len(s) /\ i + 1 > 1 /\ t[i] = s[i + 1]
      /\ \A i \in 1..Len(s) : i = 1 \/ (i - 1 \in 1..Len(t) /\ t[i - 1] = s[i])
  BY PopSeq
<1> HIDE DEF t
<1>2. ASSUME Frames(s) PROVE Frames(t)
  <2>1. ASSUME NEW i \in 1..Len(t)
        PROVE  i + 1 \in 1..Len(s) /\ t[i] = s[i + 1]
    BY <1>1
  <2> QED BY ONLY <1>2, <2>1 DEF Frames
<1>3. \A S : At(s, S) /\ s[1].at \notin S => At(t, S)
  BY <1>1 DEF At
<1>4. ASSUME NEW k, NEW c, Guarded(s, k, c)
      PROVE  /\ s[1].at \in LoadAt => s[1].pid = k
             /\ s[1].at = "match" => c
             /\ s[1].at \in Aside => Guarded(t, k, c)
             /\ s[1].at \in LoadAt \cup Aside \cup {"match"}
  <2>1. PICK i \in 1..Len(s) :
          /\ \A j \in 1..(i - 1) : s[j].at \in Aside
          /\ \/ s[i].at \in LoadAt /\ s[i].pid = k
             \/ s[i].at = "match" /\ c
    BY <1>4 DEF Guarded
  <2>2. CASE i = 1
    BY <2>1, <2>2 DEF LoadAt, Aside
  <2>3. CASE i # 1
    <3>1. s[1].at \in Aside
      <4>1. 1 \in 1..(i - 1)
        BY <1>1, <2>3
      <4> QED BY <2>1, <4>1
    <3>2. \A j \in 1..((i - 1) - 1) : t[j].at \in Aside
      <4> SUFFICES ASSUME NEW j \in 1..((i - 1) - 1) PROVE t[j].at \in Aside
        OBVIOUS
      <4>1. j \in 1..Len(t) /\ j + 1 \in 1..(i - 1)
        BY <1>1
      <4> QED BY <1>1, <2>1, <4>1
    <3>3. i - 1 \in 1..Len(t) /\ t[i - 1] = s[i]
      BY <1>1, <2>3
    <3> QED BY <2>1, <3>1, <3>2, <3>3 DEF Guarded, LoadAt, Aside
  <2> QED BY <2>2, <2>3
<1> QED BY <1>2, <1>3, <1>4 DEF t

LEMMA GuardedMore ==
  ASSUME NEW s, NEW k, NEW c, NEW d, Guarded(s, k, c), c => d
  PROVE  Guarded(s, k, d)
BY DEF Guarded
-----------------------------------------------------------------------------
(* A call returns. *)
LEMMA ReturnInv ==
  ASSUME NEW y, NEW e, NEW by \in Caller,
         Midway(y, by, e), Waits(y), "calm" \in e => Looked(y),
         "helper" \notin e => AllGuarded(y),
         NEW z, z = Return(y, by)
  PROVE  Inv(z, e)
<1>1. y \in State /\ Frames(y.stack) /\ Shown(y)
  BY DEF Midway, Held, Typed
<1>2. /\ z \in State
      /\ OfDisc(z) = OfDisc(y) /\ OfShow(z) = OfShow(y)
      /\ OfText(z) = OfText(y) /\ OfKids(z) = OfKids(y)
      /\ OfList(z) = OfList(y) /\ z.stack = y.stack /\ z.ask = y.ask
      /\ z.loaded <=> y.loaded \/ by # "user"
      /\ z.polling <=> y.polling /\ by # "insert"
  BY <1>1, ReturnFacts
<1>3. /\ z.qmode = y.qmode /\ z.reload_btn = y.reload_btn /\ z.dlg = y.dlg
      /\ z.disc = y.disc /\ z.looked = y.looked
  BY <1>2 DEF OfShow, OfDisc
<1>4. Typed(z) /\ Waits(z) /\ Shown(z)
  <2>1. Live(z)
    BY <1>2 DEF Midway, Held, Typed, Live, Running, OfKids
  <2> QED BY <1>1, <1>2, <1>3, <2>1 DEF Typed, Waits, Able, Shown
<1>5. "helper" \notin e => One(z)
  BY <1>2, <1>3 DEF Midway, Held, AllGuarded, One, Only, Running, Chosen,
                    OfDisc, OfKids, OfList
<1>6. "calm" \in e => Watch(z, "user") /\ Looked(z)
  BY <1>2 DEF Midway, Held, Watch, Looked, OfDisc
<1>7. ASSUME Calmed(e) PROVE Source(z) /\ Later(z)
  <2>1. Source(y) /\ Later(y)
    BY <1>7 DEF Midway, Held
  <2>2. /\ z.kids = y.kids /\ z.pipe = y.pipe /\ z.info = y.info
        /\ z.match = y.match /\ z.disc = y.disc /\ z.qmode = y.qmode
    BY <1>2, <1>3 DEF OfText, OfKids, OfList, OfDisc
  <2>3. Text0(z) /\ Children(z)
    BY <2>1, <2>2 DEF Source, Text0, Children, Running
  <2>4. Calls(z) /\ (z.pipe # 0 => z.kids[z.pipe].st # "free")
    BY <1>2, <2>1, <2>2 DEF Source, Calls, Running
  <2>5. \A g : Quiet(z, g) <=> Quiet(y, g)
    BY <2>2 DEF Quiet, Running
  <2>6. Later(z)
    BY <1>2, <2>1, <2>5 DEF Later
  <2> QED BY <2>3, <2>4, <2>6 DEF Source
<1> QED BY <1>4, <1>5, <1>6, <1>7 DEF Inv

(* Children are at most cancelled, and perhaps the text cleared: what is    *)
(* read of the children stays as it was.                                   *)
LEMMA SourceKept ==
  ASSUME NEW y \in State, Frames(y.stack), Source(y), NEW z \in State,
         \A k \in Slot :
           /\ z.kids[k].out = y.kids[k].out /\ z.kids[k].disc = y.kids[k].disc
           /\ z.kids[k].st \in {"done", y.kids[k].st},
         z.stack = y.stack, z.disc = y.disc,
         z.pipe \in {0, y.pipe}, Text0(z), z.info \in {<<>>, y.info}
  PROVE  /\ Source(z) /\ (AllOver(y) => AllOver(z)) /\ (Paused(y) => Paused(z))
         /\ z.ask \in {"no", y.ask} => (Later(y) => Later(z))
<1>1. /\ y.kids \in [Slot -> Kid] /\ y.stack \in Seq(Frame) /\ 0 \notin Slot
      /\ y.pipe \in {0} \cup Slot
  BY Fields
<1>2. \A k \in Slot :
        /\ z.kids[k].out = y.kids[k].out /\ z.kids[k].disc = y.kids[k].disc
        /\ z.kids[k].st \in {"done", y.kids[k].st}
  OBVIOUS
<1>3. \A k \in Slot : Running(z, k) => Running(y, k)
  BY <1>2 DEF Running
<1>4. Children(z)
  BY <1>2, <1>3 DEF Source, Children
<1>5. \A i \in 1..Len(y.stack) : y.stack[i].at \in LoadAt => y.stack[i].kid \in Slot
  <2>1. \A i \in 1..Len(y.stack) : y.stack[i] \in Frame
    BY <1>1
  <2>2. \A f \in Frame : f.kid \in {0} \cup Slot
    BY DEF Frame
  <2> QED BY <2>1, <2>2 DEF Frames
<1>6. Calls(z)
  <2> SUFFICES ASSUME NEW i \in 1..Len(y.stack), y.stack[i].at \in LoadAt,
                      NEW f, f = y.stack[i]
               PROVE  /\ f.kid = f.pid /\ z.disc # NoDisc
                      /\ z.kids[f.kid].st # "free" /\ z.kids[f.kid].disc = z.disc
                      /\ f.at = "read" => z.info = <<>> \/ z.kids[f.kid].out # "match"
                      /\ f.kid = z.pipe => ~Running(z, f.kid)
    BY DEF Calls
  <2>1. /\ f.kid = f.pid /\ y.disc # NoDisc
        /\ y.kids[f.kid].st # "free" /\ y.kids[f.kid].disc = y.disc
        /\ f.at = "read" => y.info = <<>> \/ y.kids[f.kid].out # "match"
        /\ f.kid = y.pipe => ~Running(y, f.kid)
    BY DEF Source, Calls
  <2>2. f.kid \in Slot
    BY <1>5
  <2> QED BY <1>1, <1>2, <1>3, <2>1, <2>2
<1>7. z.pipe # 0 => z.kids[z.pipe].st # "free"
  BY <1>1, <1>2 DEF Source
<1>8. ASSUME NEW f \in Frame, f.kid # 0, Quiet(y, f) PROVE Quiet(z, f)
  <2>1. f.kid \in Slot
    BY <1>8 DEF Frame
  <2> QED BY <1>2, <1>3, <1>8, <2>1 DEF Quiet
<1>9. \A i \in 1..Len(y.stack) : y.stack[i] \in Frame /\
        (y.stack[i].at \in LoadAt => y.stack[i].kid # 0)
  BY <1>1 DEF Frames
<1>10. AllOver(y) => AllOver(z)
  BY <1>8, <1>9 DEF AllOver, Over
<1>11. Paused(y) => Paused(z)
  BY <1>2, <1>5 DEF Paused
<1>12. z.ask \in {"no", y.ask} => (Later(y) => Later(z))
  BY <1>8, <1>9 DEF Later
<1> QED BY <1>1, <1>2, <1>4, <1>6, <1>7, <1>10, <1>11, <1>12 DEF Source

(* The child whose list is shown is told what was chosen. *)
LEMMA ChooseFacts ==
  ASSUME NEW y \in State, y.pipe # 0, NEW tag \in {0, 1}, NEW z, z = Choose(y, tag)
  PROVE  /\ z \in State /\ z.pid = y.pid
         /\ \A k \in Slot :
              /\ z.kids[k].st = y.kids[k].st /\ z.kids[k].out = y.kids[k].out
              /\ z.kids[k].disc = y.kids[k].disc
         /\ OfDisc(z) = OfDisc(y) /\ OfWatch(z) = OfWatch(y)
         /\ OfShow(z) = OfShow(y) /\ OfText(z) = OfText(y)
         /\ OfList(z) = OfList(y) /\ z.stack = y.stack /\ z.ask = y.ask
<1> DEFINE s == IF tag = 0 THEN "none" ELSE "one"
           K == [y.kids EXCEPT ![y.pipe] = [y.kids[y.pipe] EXCEPT !.sel = s]]
<1>1. y.kids \in [Slot -> Kid] /\ y.pipe \in Slot
  BY Fields
<1>2. \A k \in Kid : [k EXCEPT !.sel = s] \in Kid
  BY DEF Kid
<1>3. /\ K \in [Slot -> Kid]
      /\ \A k \in Slot : /\ K[k].st = y.kids[k].st /\ K[k].out = y.kids[k].out
                         /\ K[k].disc = y.kids[k].disc
  <2>1. K \in [Slot -> Kid]
    BY <1>1, <1>2
  <2>2. \A k \in Slot : k # y.pipe => K[k] = y.kids[k]
    BY <1>1
  <2>3. \A k \in Kid : /\ [k EXCEPT !.sel = s].st = k.st
                       /\ [k EXCEPT !.sel = s].out = k.out
                       /\ [k EXCEPT !.sel = s].disc = k.disc
    BY DEF Kid
  <2>4. K[y.pipe] = [y.kids[y.pipe] EXCEPT !.sel = s]
    BY <1>1
  <2> QED BY <1>1, <2>1, <2>2, <2>3, <2>4
<1>4. z = [y EXCEPT !.kids = K]
  BY DEF Choose
<1> HIDE DEF K
<1>5. z \in State /\ z.kids = K /\ z.pid = y.pid
  BY ZenonT(60), <1>3, <1>4 DEF State
<1>6. /\ OfDisc(z) = OfDisc(y) /\ OfWatch(z) = OfWatch(y)
      /\ OfShow(z) = OfShow(y) /\ OfText(z) = OfText(y)
      /\ OfList(z) = OfList(y) /\ z.stack = y.stack /\ z.ask = y.ask
  BY <1>4 DEF State, OfDisc, OfWatch, OfShow, OfText, OfList
<1> QED BY <1>3, <1>5, <1>6

LEMMA HeldKept ==
  ASSUME NEW y, NEW by, NEW e, Held(y, by, e), NEW z \in State,
         \A k \in Slot :
           /\ z.kids[k].out = y.kids[k].out /\ z.kids[k].disc = y.kids[k].disc
           /\ z.kids[k].st \in {"done", y.kids[k].st},
         z.pid \in {0, y.pid},
         "helper" \notin e /\ z.pid # y.pid => \A k \in Slot : ~Running(z, k),
         z.stack = y.stack, z.dlg \subseteq y.dlg,
         z.ask \in {"no", y.ask}, z.disc = y.disc, z.open = y.open,
         z.timer = y.timer, OfWatch(z) = OfWatch(y),
         z.pipe \in {0, y.pipe}, z.info \in {<<>>, y.info},
         Text0(y) => Text0(z)
  PROVE  /\ Held(z, by, e)
         /\ Calmed(e) => /\ AllOver(y) => AllOver(z)
                         /\ Paused(y) => Paused(z)
                         /\ Later(y) => Later(z)
<1>1. y \in State /\ Frames(y.stack) /\ Live(y) /\ Shown(y)
  BY DEF Held, Typed
<1>2. y.pid \in {0} \cup Slot
  BY <1>1, Fields
<1>3. \A k \in Slot : Running(z, k) => Running(y, k)
  BY DEF Running
<1>4. Typed(z) /\ Shown(z)
  <2>1. Live(z)
    BY <1>1, <1>2, <1>3 DEF Live
  <2> QED BY <1>1, <2>1 DEF Typed, Shown
<1>5. "helper" \notin e => Only(z) /\ (z.disc # NoDisc => z.open)
  BY <1>3 DEF Held, Only
<1>6. "calm" \in e => Watch(z, by)
  BY DEF Held, Watch, OfWatch
<1>7. ASSUME Calmed(e)
      PROVE  /\ Source(z) /\ (AllOver(y) => AllOver(z)) /\ (Paused(y) => Paused(z))
             /\ Later(y) => Later(z)
  <2>1. Source(y) /\ Text0(z)
    BY <1>7 DEF Held, Source
  <2> QED BY <1>1, <2>1, SourceKept
<1> QED BY <1>4, <1>5, <1>6, <1>7 DEF Held

(* Where no child runs and no call reads, all are over. *)
LEMMA PausedOver ==
  ASSUME NEW y \in State, Frames(y.stack), Paused(y), \A k \in Slot : ~Running(y, k)
  PROVE  AllOver(y)
<1>1. \A i \in 1..Len(y.stack) : y.stack[i] \in Frame
  BY Fields
<1>2. \A g \in Frame : g.kid # 0 => g.kid \in Slot
  BY DEF Frame
<1>3. \A i \in 1..Len(y.stack) : y.stack[i].at \in LoadAt => y.stack[i].kid \in Slot
  BY <1>1, <1>2 DEF Frames
<1> QED BY <1>3 DEF Paused, AllOver, Over, Quiet

(* The lookup that runs is cancelled; where no call reads, all are over. *)
LEMMA CancelledHeld ==
  ASSUME NEW y, NEW by, NEW e, Held(y, by, e), NEW z \in State,
         KidsCancelled(y, z), z.stack = y.stack, z.dlg \subseteq y.dlg,
         z.ask \in {"no", y.ask}, z.disc = y.disc, z.open = y.open,
         z.timer = y.timer, OfWatch(z) = OfWatch(y),
         z.pipe \in {0, y.pipe}, z.info \in {<<>>, y.info},
         Text0(y) => Text0(z)
  PROVE  /\ Held(z, by, e)
         /\ Calmed(e) => /\ Paused(y) => AllOver(z)
                         /\ Later(y) => Later(z)
         /\ "helper" \notin e => \A k \in Slot : ~Running(z, k)
         /\ \A k \in Slot : Running(z, k) => Running(y, k)
<1>1. y \in State /\ Frames(y.stack)
  BY DEF Held, Typed
<1>2. /\ y.kids \in [Slot -> Kid] /\ z.kids = Without(y.kids, y.pid) /\ z.pid = 0
      /\ y.stack \in Seq(Frame)
  BY <1>1, Fields DEF KidsCancelled
<1>3. \A k \in Slot :
        /\ z.kids[k].out = y.kids[k].out /\ z.kids[k].disc = y.kids[k].disc
        /\ z.kids[k].st \in {"done", y.kids[k].st}
        /\ k = y.pid => z.kids[k].st = "done"
  BY <1>2, WithoutKids
<1>4. \A k \in Slot : Running(z, k) => Running(y, k) /\ k # y.pid
  BY <1>3 DEF Running
<1>5. "helper" \notin e => \A k \in Slot : ~Running(z, k)
  BY <1>4 DEF Held, Only
<1>6. /\ Held(z, by, e)
      /\ Calmed(e) => /\ AllOver(y) => AllOver(z)
                      /\ Paused(y) => Paused(z)
                      /\ Later(y) => Later(z)
  BY <1>2, <1>3, <1>5, HeldKept
<1>7. ASSUME Calmed(e), Paused(y) PROVE AllOver(z)
  <2>1. Paused(z) /\ "helper" \notin e
    BY <1>6, <1>7 DEF Calmed
  <2> QED BY <1>1, <1>5, <2>1, PausedOver
<1> QED BY <1>4, <1>5, <1>6, <1>7

(* When all are over, they are over but for what Later allows. *)
LEMMA BetweenMidway ==
  ASSUME NEW y, NEW by, NEW e, Between(y, by, e)
  PROVE  Midway(y, by, e) /\ Ready(y, by, e)
BY DEF Between, Midway, Ready, AllOver, Over, Paused, Quiet, Later

(* A call of by is put on the stack: of a dialog, or of a load whose child *)
(* has not been read.                                                      *)
Pushed(y, by, f, z) ==
  /\ f \in Frame /\ f.by = by /\ f.at # "ask"
  /\ f.at \in LoadAt => f.kid # 0 /\ f.pid # 0
  /\ z \in State /\ z.stack = <<f>> \o y.stack
  /\ OfDisc(z) = OfDisc(y) /\ OfWatch(z) = OfWatch(y) /\ OfText(z) = OfText(y)
  /\ z.pid = y.pid /\ z.pipe = y.pipe /\ z.ask = y.ask
  /\ \A k \in Slot : /\ z.kids[k].st = y.kids[k].st
                     /\ z.kids[k].out = y.kids[k].out
                     /\ z.kids[k].disc = y.kids[k].disc
  /\ \A d \in z.dlg : d \in y.dlg \/ d = f.at
  /\ z.qmode = "MATCH" => y.qmode = "MATCH"
  /\ z.qmode = "WAIT" => f.at \in LoadAt \/ At(y.stack, LoadAt)
  /\ \/ z.reload_btn \/ f.at \in LoadAt \cup {"reg"}
     \/ "match" \in z.dlg \/ "auth" \in z.dlg
Unread(y, f) ==
  /\ f.kid = f.pid /\ y.disc # NoDisc
  /\ y.kids[f.kid].st # "free" /\ y.kids[f.kid].disc = y.disc
  /\ y.info = <<>> /\ f.kid # y.pipe

LEMMA PushInv ==
  ASSUME NEW y, NEW by, NEW e, Between(y, by, e), "calm" \in e => Looked(y),
         NEW f, NEW z, Pushed(y, by, f, z),
         "helper" \notin e => AllGuarded(z),
         Calmed(e) => (f.at \in LoadAt => Unread(y, f))
  PROVE  Inv(z, e)
<1> USE DEF Pushed
<1>1. y \in State /\ Frames(y.stack) /\ Shown(y)
  BY DEF Between, Held, Typed
<1>2. y.stack \in Seq(Frame) /\ y.pipe \in {0} \cup Slot /\ f.kid \in {0} \cup Slot
  BY <1>1, Fields DEF Frame
<1>3. /\ z.stack \in Seq(Frame) /\ z.stack[1] = f /\ 1 \in 1..Len(z.stack)
      /\ \A i \in 1..Len(y.stack) :
           i + 1 \in 1..Len(z.stack) /\ z.stack[i + 1] = y.stack[i]
      /\ \A i \in 1..Len(z.stack) :
           i = 1 \/ (i > 1 /\ i - 1 \in 1..Len(y.stack) /\ z.stack[i] = y.stack[i - 1])
  BY <1>2, PushSeq
<1>4. Typed(z)
  <2>1. Live(z)
    BY <1>1, Fields DEF Between, Held, Typed, Live, Running
  <2> QED BY <1>1, <1>2, <2>1, PushStack DEF Typed
<1>5. \A S : At(y.stack, S) \/ f.at \in S => At(z.stack, S)
  BY <1>2, PushStack
<1>6. Waits(z) /\ Shown(z)
  BY <1>1, <1>5 DEF Waits, Able, Shown
<1>7. "helper" \notin e => One(z)
  BY DEF Between, Held, One, AllGuarded, Only, Running, OfDisc
<1>8. ASSUME "calm" \in e PROVE Watch(z, "user") /\ Looked(z)
  <2>1. Watch(y, by) /\ Looked(y)
    BY <1>8 DEF Between, Held
  <2>2. /\ z.disc = y.disc /\ z.open = y.open /\ z.timer = y.timer
        /\ z.looked = y.looked /\ z.polling = y.polling /\ z.loaded = y.loaded
    BY DEF OfDisc, OfWatch
  <2>3. y.disc = NoDisc => \A i \in 1..Len(z.stack) : z.stack[i].by = "user"
    BY <1>3, <2>1 DEF Watch
  <2>4. by = "insert" \/ (\E i \in 1..Len(y.stack) : y.stack[i].by = "insert")
          => \E i \in 1..Len(z.stack) : z.stack[i].by = "insert"
    BY <1>3
  <2> QED BY <2>1, <2>2, <2>3, <2>4 DEF Watch, Looked
<1>9. ASSUME Calmed(e) PROVE Source(z) /\ Later(z)
  <2>1. Source(y) /\ AllOver(y)
    BY <1>9 DEF Between, Held
  <2>2. z.disc = y.disc /\ z.info = y.info /\ z.match = y.match
    BY DEF OfDisc, OfText
  <2>3. \A k \in Slot : Running(z, k) <=> Running(y, k)
    BY DEF Running
  <2>4. \A g \in Frame : g.kid # 0 => g.kid \in Slot
    BY DEF Frame
  <2>5. \A i \in 1..Len(y.stack) : y.stack[i] \in Frame
    BY <1>2
  <2>6. Text0(z) /\ Children(z)
    BY <2>1, <2>2, <2>3 DEF Source, Text0, Children
  <2>7. z.pipe # 0 => z.kids[z.pipe].st # "free"
    BY <1>2, <2>1 DEF Source
  <2>8. ASSUME NEW g \in Frame, g.kid # 0, Quiet(y, g) PROVE Quiet(z, g)
    BY <2>3, <2>4, <2>8 DEF Quiet
  <2>9. Calls(z)
    <3> SUFFICES ASSUME NEW i \in 1..Len(z.stack), z.stack[i].at \in LoadAt,
                        NEW g, g = z.stack[i]
                 PROVE  /\ g.kid = g.pid /\ z.disc # NoDisc
                        /\ z.kids[g.kid].st # "free" /\ z.kids[g.kid].disc = z.disc
                        /\ g.at = "read" => z.info = <<>> \/ z.kids[g.kid].out # "match"
                        /\ g.kid = z.pipe => ~Running(z, g.kid)
      BY DEF Calls
    <3>1. CASE i = 1
      BY <1>2, <1>3, <1>9, <2>2, <3>1 DEF Unread
    <3>2. CASE i # 1
      <4>1. i - 1 \in 1..Len(y.stack) /\ g = y.stack[i - 1]
        BY <1>3, <3>2
      <4>2. g.kid \in Slot
        BY <1>1, <2>4, <2>5, <4>1 DEF Frames
      <4>3. /\ g.kid = g.pid /\ y.disc # NoDisc
            /\ y.kids[g.kid].st # "free" /\ y.kids[g.kid].disc = y.disc
            /\ g.at = "read" => y.info = <<>> \/ y.kids[g.kid].out # "match"
            /\ g.kid = y.pipe => ~Running(y, g.kid)
        BY <2>1, <4>1 DEF Source, Calls
      <4>4. /\ z.kids[g.kid].st = y.kids[g.kid].st
            /\ z.kids[g.kid].out = y.kids[g.kid].out
            /\ z.kids[g.kid].disc = y.kids[g.kid].disc
        BY <4>2
      <4> QED BY <2>2, <2>3, <4>2, <4>3, <4>4
    <3> QED BY <3>1, <3>2
  <2>10. Later(z)
    BY <1>1, <1>3, <2>1, <2>5, <2>8 DEF AllOver, Over, Later, Frames
  <2> QED BY <2>6, <2>7, <2>9, <2>10 DEF Source
<1> QED BY <1>4, <1>6, <1>7, <1>8, <1>9 DEF Inv

(* The disc is entered into the history. *)
LEMMA HistNewInv ==
  ASSUME NEW y, NEW by \in Caller, NEW e, Between(y, by, e),
         "calm" \in e => Looked(y),
         y.qmode = "WAIT" => At(y.stack, LoadAt), y.reload_btn,
         "helper" \notin e => \A k \in Slot : ~Running(y, k),
         NEW z, z = HistNew(y, by)
  PROVE  Inv(z, e)
<1> DEFINE n == Entered(y)
           f == Call("hist", 0, by)
<1>1. y \in State
  BY DEF Between, Held, Typed
<1>2. z = Push(n, f) \/ z = Return(y, by)
  BY DEF HistNew, Entered
<1>3. CASE z = Return(y, by)
  <2>1. Midway(y, by, e) /\ Waits(y) /\ ("helper" \notin e => AllGuarded(y))
    BY BetweenMidway DEF Waits, Able, AllGuarded
  <2> QED BY <1>3, <2>1, ReturnInv
<1>4. CASE z = Push(n, f)
  <2>1. /\ n \in State /\ n.pid = 0 /\ n.kids = y.kids
        /\ OfDisc(n) = OfDisc(y) /\ OfWatch(n) = OfWatch(y)
        /\ OfShow(n) = OfShow(y) /\ OfText(n) = OfText(y)
        /\ OfList(n) = OfList(y) /\ n.stack = y.stack /\ n.ask = y.ask
    BY <1>1, EnteredFacts
  <2> HIDE DEF n
  <2>2. f \in Frame /\ f.at = "hist" /\ f.by = by
    BY DEF Call, Frame
  <2> HIDE DEF f
  <2>3. /\ z \in State /\ z.stack = <<f>> \o n.stack /\ z.ask = n.ask
        /\ OfDisc(z) = OfDisc(n) /\ OfWatch(z) = OfWatch(n)
        /\ OfShow(z) = OfShow(n) /\ OfText(z) = OfText(n)
        /\ OfKids(z) = OfKids(n) /\ OfList(z) = OfList(n)
    BY <1>4, <2>1, <2>2, PushFacts
  <2>4. /\ n.disc = y.disc /\ n.open = y.open /\ n.timer = y.timer
        /\ n.looked = y.looked /\ n.info = y.info /\ n.match = y.match
        /\ n.pipe = y.pipe /\ n.qmode = y.qmode /\ n.dlg = y.dlg
        /\ n.reload_btn = y.reload_btn
    BY <2>1 DEF OfDisc, OfShow, OfText, OfList
  <2>5. Text0(y) => Text0(n)
    BY <2>4 DEF Text0
  <2>6. \A k : Running(n, k) <=> Running(y, k)
    BY <2>1 DEF Running
  <2>7. Between(n, by, e)
    BY <2>1, <2>4, <2>5, <2>6, HeldKept DEF Between
  <2>8. /\ z.kids = n.kids /\ z.pid = n.pid /\ z.pipe = n.pipe /\ z.dlg = n.dlg
        /\ z.qmode = n.qmode /\ z.reload_btn = n.reload_btn
    BY <2>3 DEF OfShow, OfKids, OfList
  <2>9. f.at \notin LoadAt
    BY <2>2 DEF LoadAt
  <2>10. Pushed(n, by, f, z)
    <3>1. z.reload_btn
      BY <2>4, <2>8
    <3>2. z.qmode = "WAIT" => At(n.stack, LoadAt)
      BY <2>1, <2>4, <2>8
    <3> QED BY <2>2, <2>3, <2>4, <2>8, <2>9, <3>1, <3>2 DEF Pushed
  <2>11. "helper" \notin e => AllGuarded(z)
    BY <2>6, <2>8 DEF AllGuarded, Running
  <2>12. "calm" \in e => Looked(n)
    BY <2>4 DEF Looked
  <2> QED BY <2>7, <2>9, <2>10, <2>11, <2>12, PushInv
<1> QED BY <1>2, <1>3, <1>4

(* A load ends. *)
LEMMA OutcomeBetween ==
  ASSUME NEW y, NEW by \in Caller, NEW e, Between(y, by, e),
         "calm" \in e => Looked(y),
         "helper" \notin e => \A k \in Slot : ~Running(y, k),
         NEW code \in {"ok", "auth", "err"}, NEW z, z = Outcome0(y, code)
  PROVE  /\ Between(z, by, e) /\ ("calm" \in e => Looked(z))
         /\ z.qmode # "WAIT" /\ z.reload_btn /\ z.disc = y.disc
         /\ "helper" \notin e => \A k \in Slot : ~Running(z, k)
<1>1. y \in State
  BY DEF Between, Held, Typed
<1>2. /\ z \in State
      /\ z.qmode \in {"NONE", "MATCH", "ERR"} /\ (z.qmode = "MATCH" => y.match)
      /\ z.reload_btn /\ z.dlg = y.dlg /\ z.ask \in {"no", y.ask}
      /\ OfDisc(z) = OfDisc(y) /\ OfWatch(z) = OfWatch(y)
      /\ OfText(z) = OfText(y) /\ OfKids(z) = OfKids(y)
      /\ OfList(z) = OfList(y) /\ z.stack = y.stack
  BY <1>1, OutcomeFacts
<1>3. /\ z.disc = y.disc /\ z.open = y.open /\ z.timer = y.timer
      /\ z.looked = y.looked /\ z.info = y.info /\ z.match = y.match
      /\ z.kids = y.kids /\ z.pid = y.pid /\ z.pipe = y.pipe
  BY <1>2 DEF OfDisc, OfText, OfKids, OfList
<1>4. Text0(y) => Text0(z)
  BY <1>2, <1>3 DEF Text0
<1>5. Between(z, by, e)
  BY <1>2, <1>3, <1>4, HeldKept DEF Between
<1> QED BY <1>2, <1>3, <1>5 DEF Looked, Running

LEMMA LoadDoneInv ==
  ASSUME NEW y, NEW by \in Caller, NEW e, Between(y, by, e),
         "calm" \in e => Looked(y),
         "helper" \notin e => \A k \in Slot : ~Running(y, k),
         NEW code \in {"ok", "auth", "err"}, NEW z, z = LoadDone(y, code, by)
  PROVE  Inv(z, e)
<1> DEFINE m == Outcome0(y, code)
<1>1. z = HistNew(m, by)
  BY DEF LoadDone, Outcome0
<1>2. /\ Between(m, by, e) /\ ("calm" \in e => Looked(m))
      /\ m.qmode # "WAIT" /\ m.reload_btn
      /\ "helper" \notin e => \A k \in Slot : ~Running(m, k)
  BY OutcomeBetween
<1> HIDE DEF m
<1> QED BY <1>1, <1>2, HistNewInv

(* An entry of the list is chosen. *)
LEMMA MatchselInv ==
  ASSUME NEW v, NEW by \in Caller, NEW e, Ready(v, by, e), "calm" \in e => Looked(v),
         NEW tag \in {0, 1},
         Calmed(e) /\ ~Rejected(v) /\ v.kids[v.pipe].st # "done" => AllOver(v),
         "helper" \notin e /\ Rejected(v) => \A k \in Slot : ~Running(v, k),
         NEW z, z = MatchselOk(v, tag, by)
  PROVE  Inv(z, e)
<1> DEFINE q == IF tag = 0 THEN "NONE" ELSE "WAIT"
           D == v.dlg \ {"match"}
           y == [v EXCEPT !.dlg = D, !.tag = tag, !.qmode = q]
<1>1. v \in State /\ Frames(v.stack) /\ Shown(v)
  BY DEF Ready, Held, Typed
<1>2. /\ v.kids \in [Slot -> Kid] /\ v.pid \in {0} \cup Slot /\ 0 \notin Slot
      /\ v.pipe \in {0} \cup Slot /\ v.stack \in Seq(Frame) /\ v.dlg \subseteq Dialogs
  BY <1>1, Fields
<1>3. q \in {"NONE", "WAIT", "MATCH", "ERR"} /\ q # "MATCH"
  OBVIOUS
<1>4. /\ y \in State /\ y.dlg = D /\ y.qmode = q /\ y.reload_btn = v.reload_btn
      /\ OfDisc(y) = OfDisc(v) /\ OfWatch(y) = OfWatch(v) /\ OfText(y) = OfText(v)
      /\ OfKids(y) = OfKids(v) /\ OfList(y) = OfList(v) /\ y.stack = v.stack
      /\ y.ask = v.ask
  <2> DEFINE m == [v EXCEPT !.dlg = D]
             n == [m EXCEPT !.tag = tag]
  <2>1. D \subseteq Dialogs
    BY <1>2
  <2> HIDE DEF D, q
  <2>2. m \in State /\ m.dlg = D /\ m.reload_btn = v.reload_btn
    BY ZenonT(60), <1>1, <2>1 DEF State
  <2>3. /\ OfDisc(m) = OfDisc(v) /\ OfWatch(m) = OfWatch(v) /\ OfText(m) = OfText(v)
        /\ OfKids(m) = OfKids(v) /\ OfList(m) = OfList(v) /\ m.stack = v.stack
        /\ m.ask = v.ask
    BY <1>1 DEF State, OfDisc, OfWatch, OfText, OfKids, OfList
  <2> HIDE DEF m
  <2>4. n \in State /\ n.dlg = m.dlg /\ n.reload_btn = m.reload_btn
    BY <2>2 DEF State
  <2>5. /\ OfDisc(n) = OfDisc(m) /\ OfWatch(n) = OfWatch(m) /\ OfText(n) = OfText(m)
        /\ OfKids(n) = OfKids(m) /\ OfList(n) = OfList(m) /\ n.stack = m.stack
        /\ n.ask = m.ask
    BY <2>2 DEF State, OfDisc, OfWatch, OfText, OfKids, OfList
  <2>6. y = [n EXCEPT !.qmode = q]
    BY DEF m, n
  <2> HIDE DEF n, y
  <2>7. /\ y \in State /\ y.dlg = n.dlg /\ y.qmode = q /\ y.reload_btn = n.reload_btn
        /\ OfDisc(y) = OfDisc(n) /\ OfWatch(y) = OfWatch(n) /\ OfText(y) = OfText(n)
        /\ OfKids(y) = OfKids(n) /\ OfList(y) = OfList(n) /\ y.stack = n.stack
        /\ y.ask = n.ask
    BY <1>3, <2>4, <2>6, SetQmode
  <2> QED BY <2>2, <2>3, <2>4, <2>5, <2>7
<1>5. z = CASE Rejected(v) -> LoadDone(y, "err", by)
            [] ~Rejected(v) /\ v.kids[v.pipe].st = "done" ->
                 LoadDone(FreeMatchlist(Cancel(y)), "err", by)
            [] ~Rejected(v) /\ v.kids[v.pipe].st # "done" ->
                 Push(FreeMatchlist(Choose(y, tag)),
                      [Call("read", v.pipe, by) EXCEPT !.pid = v.pid, !.sel = TRUE])
  BY DEF MatchselOk
<1> HIDE DEF y
<1>6. /\ y.kids = v.kids /\ y.pid = v.pid /\ y.pipe = v.pipe /\ y.info = v.info
      /\ y.match = v.match /\ y.disc = v.disc /\ y.looked = v.looked
      /\ y.open = v.open
  BY <1>4 DEF OfKids, OfList, OfText, OfDisc
<1>7. \A k : Running(y, k) <=> Running(v, k)
  BY <1>6 DEF Running
<1>8. Ready(y, by, e) /\ (Calmed(e) /\ AllOver(v) => AllOver(y))
  <2>1. Text0(v) => Text0(y)
    BY <1>3, <1>4, <1>6 DEF Text0
  <2>2. y.timer = v.timer /\ Held(v, by, e)
    BY <1>4 DEF OfDisc, Ready
  <2> QED BY <1>4, <1>6, <2>1, <2>2, HeldKept DEF Ready
<1>9. "calm" \in e => Looked(y)
  BY <1>6 DEF Looked
<1>10. CASE Rejected(v)
  <2>1. z = LoadDone(y, "err", by)
    BY <1>5, <1>10
  <2>2. "helper" \notin e => \A k \in Slot : ~Running(y, k)
    BY <1>7, <1>10
  <2>3. Between(y, by, e)
    <3>1. ASSUME Calmed(e) PROVE AllOver(y)
      BY <1>1, <1>4, <1>8, <2>2, <3>1, PausedOver DEF Ready, Calmed
    <3> QED BY <1>8, <3>1 DEF Ready, Between
  <2> QED BY <1>9, <2>1, <2>2, <2>3, LoadDoneInv
<1>11. CASE ~Rejected(v) /\ v.kids[v.pipe].st = "done"
  <2> DEFINE c == Cancel(y)
             w == FreeMatchlist(c)
  <2>1. z = LoadDone(w, "err", by)
    BY <1>5, <1>11
  <2>2. /\ c \in State /\ KidsCancelled(y, c)
        /\ OfDisc(c) = OfDisc(y) /\ OfWatch(c) = OfWatch(y)
        /\ OfShow(c) = OfShow(y) /\ OfText(c) = OfText(y)
        /\ c.stack = y.stack /\ c.ask = y.ask
    BY <1>4, CancelFacts
  <2> HIDE DEF c
  <2>3. /\ w \in State /\ w.pipe = 0
        /\ OfDisc(w) = OfDisc(c) /\ OfWatch(w) = OfWatch(c)
        /\ OfShow(w) = OfShow(c) /\ OfText(w) = OfText(c)
        /\ OfKids(w) = OfKids(c) /\ w.stack = c.stack /\ w.ask = c.ask
    BY <2>2, FreeMatchlistFacts
  <2> HIDE DEF w
  <2>4. KidsCancelled(y, w)
    BY <2>2, <2>3 DEF KidsCancelled, OfKids
  <2>5. /\ w.info = y.info /\ w.match = y.match /\ w.qmode = y.qmode
        /\ w.dlg = y.dlg /\ w.disc = y.disc /\ w.looked = y.looked
    BY <2>2, <2>3 DEF OfText, OfShow, OfDisc
  <2>6. Text0(y) => Text0(w)
    BY <2>5 DEF Text0
  <2>7. Between(w, by, e) /\ ("helper" \notin e => \A k \in Slot : ~Running(w, k))
    <3>1. /\ Held(y, by, e) /\ w.open = y.open /\ w.timer = y.timer
          /\ OfWatch(w) = OfWatch(y) /\ w.stack = y.stack /\ w.ask = y.ask
      BY <1>8, <2>2, <2>3 DEF OfDisc, Ready
    <3>2. /\ Held(w, by, e) /\ (Calmed(e) => (Paused(y) => AllOver(w)))
          /\ "helper" \notin e => \A k \in Slot : ~Running(w, k)
      BY <2>3, <2>4, <2>5, <2>6, <3>1, CancelledHeld
    <3> QED BY <1>8, <3>2 DEF Ready, Between
  <2>8. "calm" \in e => Looked(w)
    BY <1>9, <2>5 DEF Looked
  <2> QED BY <2>1, <2>7, <2>8, LoadDoneInv
<1>12. CASE ~Rejected(v) /\ v.kids[v.pipe].st # "done"
  <2> DEFINE f == [Call("read", v.pipe, by) EXCEPT !.pid = v.pid, !.sel = TRUE]
             c == Choose(y, tag)
             w == FreeMatchlist(c)
  <2>1. z = Push(w, f)
    BY <1>5, <1>12
  <2>2. v.pipe \in Slot /\ v.pid \in Slot /\ v.pipe # 0 /\ v.pid # 0
    BY <1>2, <1>12 DEF Rejected
  <2>3. /\ f \in Frame /\ f.at = "read" /\ f.kid = v.pipe /\ f.pid = v.pid
        /\ f.by = by
    BY <2>2 DEF Call, Frame
  <2>4. /\ c \in State /\ c.pid = y.pid
        /\ \A k \in Slot :
             /\ c.kids[k].st = y.kids[k].st /\ c.kids[k].out = y.kids[k].out
             /\ c.kids[k].disc = y.kids[k].disc
        /\ OfDisc(c) = OfDisc(y) /\ OfWatch(c) = OfWatch(y)
        /\ OfShow(c) = OfShow(y) /\ OfText(c) = OfText(y)
        /\ c.stack = y.stack /\ c.ask = y.ask
    BY <1>4, <1>6, <2>2, ChooseFacts
  <2> HIDE DEF c, f
  <2>5. /\ w \in State /\ w.pipe = 0
        /\ OfDisc(w) = OfDisc(c) /\ OfWatch(w) = OfWatch(c)
        /\ OfShow(w) = OfShow(c) /\ OfText(w) = OfText(c)
        /\ OfKids(w) = OfKids(c) /\ w.stack = c.stack /\ w.ask = c.ask
    BY <2>4, FreeMatchlistFacts
  <2> HIDE DEF w
  <2>6. /\ z \in State /\ z.stack = <<f>> \o w.stack /\ z.ask = w.ask
        /\ OfDisc(z) = OfDisc(w) /\ OfWatch(z) = OfWatch(w)
        /\ OfShow(z) = OfShow(w) /\ OfText(z) = OfText(w)
        /\ OfKids(z) = OfKids(w) /\ OfList(z) = OfList(w)
    BY <2>1, <2>3, <2>5, PushFacts
  <2>7. /\ w.pid = y.pid /\ w.disc = y.disc /\ w.info = y.info /\ w.match = y.match
        /\ w.qmode = q /\ w.dlg = D /\ w.open = y.open /\ w.looked = y.looked
        /\ \A k \in Slot :
             /\ w.kids[k].st = y.kids[k].st /\ w.kids[k].out = y.kids[k].out
             /\ w.kids[k].disc = y.kids[k].disc
    BY <1>4, <2>4, <2>5 DEF OfKids, OfDisc, OfText, OfShow
  <2>8. \A k \in Slot : Running(w, k) <=> Running(y, k)
    BY <2>7 DEF Running
  <2>9. Between(w, by, e)
    <3>1. Text0(y) => Text0(w)
      BY <1>3, <1>4, <2>7 DEF Text0
    <3>2. /\ w.stack = y.stack /\ w.ask = y.ask /\ w.dlg = y.dlg
          /\ w.timer = y.timer /\ OfWatch(w) = OfWatch(y)
      BY <1>4, <2>4, <2>5, <2>7 DEF OfDisc
    <3>3. Held(y, by, e) /\ (Calmed(e) => AllOver(y))
      BY <1>8, <1>12 DEF Ready
    <3> QED BY <2>5, <2>7, <3>1, <3>2, <3>3, HeldKept DEF Between
  <2>10. "calm" \in e => Looked(w)
    BY <1>9, <2>7 DEF Looked
  <2>11. f.at \in LoadAt
    BY <2>3 DEF LoadAt
  <2>12. ASSUME "helper" \notin e PROVE AllGuarded(z)
    <3> SUFFICES ASSUME NEW k \in Slot, Running(z, k)
                 PROVE  Guarded(z.stack, k, Chosen(z))
      BY DEF AllGuarded
    <3>1. Running(w, k)
      BY <2>6 DEF Running, OfKids
    <3>2. k = f.pid
      BY <1>6, <1>8, <2>3, <2>8, <2>12, <3>1 DEF Ready, Held, Only
    <3>3. w.stack \in Seq(Frame)
      BY <1>2, <1>4, <2>4, <2>5
    <3> QED BY <2>3, <2>6, <2>11, <3>2, <3>3, PushStack
  <2>13. ASSUME Calmed(e) PROVE Unread(w, f)
    <3>1. Source(y) /\ "helper" \notin e
      BY <1>8, <2>13 DEF Ready, Held, Calmed
    <3>2. y.kids[v.pipe].st \notin {"free", "done"}
      BY <1>6, <1>12, <2>2, <3>1 DEF Source
    <3>3. Running(y, v.pipe)
      <4>1. y.kids[v.pipe] \in Kid
        BY <1>2, <1>6, <2>2
      <4>2. y.kids[v.pipe].st \in {"free", "query", "select", "done"}
        BY <4>1 DEF Kid
      <4> QED BY <3>2, <4>2 DEF Running
    <3>4. y.pid = v.pipe /\ y.disc # NoDisc
      BY <1>8, <2>2, <3>1, <3>3 DEF Ready, Held, Only
    <3>5. y.kids[v.pipe].disc = y.disc /\ y.info = <<>>
      BY <2>2, <3>1, <3>3 DEF Source, Children
    <3> QED BY <1>6, <2>2, <2>3, <2>5, <2>7, <3>2, <3>4, <3>5 DEF Unread
  <2>14. Pushed(w, by, f, z)
    <3>1. /\ z.qmode # "MATCH" /\ z.dlg = w.dlg /\ z.pid = w.pid /\ z.kids = w.kids
          /\ z.pipe = w.pipe
      BY <1>3, <2>6, <2>7 DEF OfShow, OfKids, OfList
    <3> QED BY <2>2, <2>3, <2>6, <2>11, <3>1 DEF Pushed
  <2> QED BY <2>1, <2>9, <2>10, <2>12, <2>13, <2>14, PushInv
<1> QED BY <1>10, <1>11, <1>12

(* What follows the end of a load, or of the reading when there is a list. *)
LEMMA FinishInv ==
  ASSUME NEW v, NEW by \in Caller, NEW e, Between(v, by, e), "calm" \in e => Looked(v),
         NEW code \in {"ok", "auth", "err"}, NEW single \in BOOLEAN,
         "helper" \notin e => \A k \in Slot : Running(v, k) =>
                                code = "ok" /\ v.list # 0 /\ v.pipe # 0,
         NEW z, z = Finish(v, code, by, single)
  PROVE  Inv(z, e)
<1> DEFINE y == StopAsked(v)
<1>1. v \in State
  BY DEF Between, Held, Typed
<1>2. /\ y \in State /\ y.stack = v.stack /\ y.ask \in {"no", v.ask}
      /\ OfDisc(y) = OfDisc(v) /\ OfWatch(y) = OfWatch(v)
      /\ OfShow(y) = OfShow(v) /\ OfText(y) = OfText(v)
      /\ OfKids(y) = OfKids(v) /\ OfList(y) = OfList(v)
  BY <1>1, StopAskedFacts
<1>3. z = CASE code = "auth" -> Popup(y, "auth", by)
            [] code = "ok" /\ v.list # 0 ->
                 IF single THEN MatchselOk(y, 1, by) ELSE Popup(y, "match", by)
            [] code = "ok" /\ v.list = 0 /\ v.needreg -> Popup(y, "reg", by)
            [] OTHER -> LoadDone(y, code, by)
  BY DEF Finish
<1> HIDE DEF y
<1>4. /\ y.kids = v.kids /\ y.pid = v.pid /\ y.pipe = v.pipe /\ y.info = v.info
      /\ y.match = v.match /\ y.disc = v.disc /\ y.looked = v.looked
      /\ y.dlg = v.dlg /\ y.qmode = v.qmode
  BY <1>2 DEF OfKids, OfList, OfText, OfDisc, OfShow
<1>5. \A k : Running(y, k) <=> Running(v, k)
  BY <1>4 DEF Running
<1>6. Between(y, by, e) /\ Ready(y, by, e)
  <2>1. Text0(v) => Text0(y)
    BY <1>4 DEF Text0
  <2>2. y.open = v.open /\ y.timer = v.timer /\ Held(v, by, e)
    BY <1>2 DEF OfDisc, Between
  <2>3. Between(y, by, e)
    BY <1>2, <1>4, <2>1, <2>2, HeldKept DEF Between
  <2> QED BY <2>3, BetweenMidway
<1>7. "calm" \in e => Looked(y)
  BY <1>4 DEF Looked
<1>8. ASSUME NEW d \in Dialogs, z = Popup(y, d, by),
             d \in {"reg", "auth"} \/ v.list # 0,
             "helper" \notin e => \A k \in Slot : Running(v, k) =>
                                    d = "match" /\ v.pipe # 0
      PROVE  Inv(z, e)
  <2> DEFINE f == Call(d, 0, by)
  <2>1. /\ z \in State /\ z.stack = <<f>> \o y.stack
        /\ f \in Frame /\ f.at = d /\ f.by = by
        /\ z.ask = y.ask /\ z.qmode = "NONE" /\ z.reload_btn = y.reload_btn
        /\ z.dlg = y.dlg \cup {d}
        /\ OfDisc(z) = OfDisc(y) /\ OfWatch(z) = OfWatch(y)
        /\ OfText(z) = OfText(y) /\ OfKids(z) = OfKids(y) /\ OfList(z) = OfList(y)
    BY SMTT(40), <1>2, <1>8, PopupFacts
  <2> HIDE DEF f
  <2>2. z.kids = y.kids /\ z.pid = y.pid /\ z.pipe = y.pipe
    BY <2>1 DEF OfKids, OfList
  <2>3. f.at \notin LoadAt
    BY <2>1 DEF LoadAt, Dialogs
  <2>4. ASSUME "helper" \notin e PROVE AllGuarded(z)
    <3> SUFFICES ASSUME NEW k \in Slot, Running(z, k)
                 PROVE  Guarded(z.stack, k, Chosen(z))
      BY DEF AllGuarded
    <3>1. d = "match" /\ v.pipe # 0
      BY <1>5, <1>8, <2>2, <2>4 DEF Running
    <3>2. f.at = "match" /\ Chosen(z)
      BY <1>4, <2>1, <2>2, <3>1 DEF Chosen
    <3>3. y.stack \in Seq(Frame)
      BY <1>2, Fields
    <3> QED BY <2>1, <3>2, <3>3, PushStack
  <2>5. Pushed(y, by, f, z)
    <3>1. f.at \in LoadAt \cup {"reg"} \/ "match" \in z.dlg \/ "auth" \in z.dlg
      BY <2>1 DEF Dialogs
    <3>2. f.at # "ask"
      BY <2>1 DEF Dialogs
    <3>3. \A c \in z.dlg : c \in y.dlg \/ c = f.at
      BY <2>1
    <3> QED BY <2>1, <2>2, <2>3, <3>1, <3>2, <3>3 DEF Pushed
  <2> QED BY <1>6, <1>7, <2>3, <2>4, <2>5, PushInv
<1>9. CASE code = "auth"
  <2>1. z = Popup(y, "auth", by)
    BY <1>3, <1>9
  <2> QED BY <1>8, <1>9, <2>1 DEF Dialogs
<1>10. CASE code = "ok" /\ v.list # 0
  <2>1. CASE single
    <3>1. z = MatchselOk(y, 1, by)
      BY <1>3, <1>10, <2>1
    <3>2. "helper" \notin e /\ Rejected(y) => \A k \in Slot : ~Running(y, k)
      <4>1. "helper" \notin e => Only(y)
        BY <1>6 DEF Between, Held
      <4>2. 0 \notin Slot
        BY DEF Slot
      <4> QED BY <1>4, <1>5, <4>1, <4>2 DEF Rejected, Only
    <3>3. Calmed(e) => AllOver(y)
      BY <1>6 DEF Between
    <3> QED BY <1>6, <1>7, <3>1, <3>2, <3>3, MatchselInv
  <2>2. CASE ~single
    <3>1. z = Popup(y, "match", by)
      BY <1>3, <1>10, <2>2
    <3> QED BY <1>8, <1>10, <3>1 DEF Dialogs
  <2> QED BY <2>1, <2>2
<1>11. CASE code # "auth" /\ ~(code = "ok" /\ v.list # 0)
  <2>1. "helper" \notin e => \A k \in Slot : ~Running(v, k)
    BY <1>11
  <2>2. CASE code = "ok" /\ v.list = 0 /\ v.needreg
    <3>1. z = Popup(y, "reg", by)
      BY <1>3, <2>2
    <3> QED BY <1>8, <2>1, <3>1 DEF Dialogs
  <2>3. CASE ~(code = "ok" /\ v.list = 0 /\ v.needreg)
    <3>1. z = LoadDone(y, code, by)
      BY <1>3, <1>11, <2>3
    <3>2. "helper" \notin e => \A k \in Slot : ~Running(y, k)
      BY <1>5, <2>1
    <3> QED BY <1>6, <1>7, <3>1, <3>2, LoadDoneInv
  <2> QED BY <2>2, <2>3
<1> QED BY <1>9, <1>10, <1>11

(* A child is started. *)
LEMMA NewKidFacts ==
  ASSUME NEW y, \E k \in Slot : y.kids[k].st = "free"
  PROVE  NewKid(y) \in Slot /\ y.kids[NewKid(y)].st = "free"
BY DEF NewKid

Begun(y, k) ==
  [y EXCEPT !.kids[k] = [FreeKid EXCEPT !.st = "query", !.disc = y.disc], !.pid = k]

LEMMA BegunFacts ==
  ASSUME NEW y \in State, NEW k \in Slot, NEW z, z = Begun(y, k)
  PROVE  /\ z \in State /\ z.pid = k
         /\ z.kids[k].st = "query" /\ z.kids[k].out = "empty" /\ z.kids[k].disc = y.disc
         /\ \A j \in Slot : j # k => z.kids[j] = y.kids[j]
         /\ OfDisc(z) = OfDisc(y) /\ OfWatch(z) = OfWatch(y)
         /\ OfShow(z) = OfShow(y) /\ OfText(z) = OfText(y)
         /\ OfList(z) = OfList(y) /\ z.stack = y.stack /\ z.ask = y.ask
<1> DEFINE m == [FreeKid EXCEPT !.st = "query", !.disc = y.disc]
           K == [y.kids EXCEPT ![k] = m]
<1>1. y.kids \in [Slot -> Kid] /\ y.disc \in Disc \cup {NoDisc}
  BY Fields
<1>2. m \in Kid /\ m.st = "query" /\ m.out = "empty" /\ m.disc = y.disc
  BY <1>1 DEF FreeKid, Kid
<1> HIDE DEF m
<1>3. K \in [Slot -> Kid] /\ K[k] = m /\ \A j \in Slot : j # k => K[j] = y.kids[j]
  BY <1>1, <1>2
<1>4. z = [y EXCEPT !.kids = K, !.pid = k]
  BY DEF Begun, m
<1> HIDE DEF K
<1>5. z \in State /\ z.kids = K /\ z.pid = k
  BY ZenonT(60), <1>3, <1>4 DEF State
<1>6. /\ OfDisc(z) = OfDisc(y) /\ OfWatch(z) = OfWatch(y)
      /\ OfShow(z) = OfShow(y) /\ OfText(z) = OfText(y)
      /\ OfList(z) = OfList(y) /\ z.stack = y.stack /\ z.ask = y.ask
  BY <1>4 DEF State, OfDisc, OfWatch, OfShow, OfText, OfList
<1> QED BY <1>2, <1>3, <1>5, <1>6

(* What a lookup begins with. *)
Cleared(y) == [Dbclear(y) EXCEPT !.qmode = "WAIT", !.reload_btn = FALSE,
                                 !.looked = y.disc]

LEMMA ClearedFacts ==
  ASSUME NEW y \in State, NEW z, z = Cleared(y)
  PROVE  /\ z \in State /\ KidsCancelled(y, z) /\ z.pipe = 0
         /\ z.disc = y.disc /\ z.open = y.open /\ z.timer = y.timer
         /\ z.looked = y.disc /\ OfWatch(z) = OfWatch(y)
         /\ z.qmode = "WAIT" /\ z.dlg = y.dlg
         /\ z.info = <<>> /\ ~z.match /\ z.stack = y.stack /\ z.ask = y.ask
<1> DEFINE d == Dbclear(y)
           f == FALSE
           w == y.disc
           a == [d EXCEPT !.qmode = "WAIT"]
           b == [a EXCEPT !.reload_btn = f]
<1>1. /\ d \in State /\ KidsCancelled(y, d) /\ d.pipe = 0
      /\ OfDisc(d) = OfDisc(y) /\ OfWatch(d) = OfWatch(y) /\ d.dlg = y.dlg
      /\ d.info = <<>> /\ ~d.match /\ d.stack = y.stack /\ d.ask = y.ask
  BY DbclearFacts
<1> HIDE DEF d
<1>2. /\ a \in State /\ a.qmode = "WAIT" /\ a.dlg = d.dlg /\ a.stack = d.stack
      /\ a.ask = d.ask /\ OfDisc(a) = OfDisc(d) /\ OfWatch(a) = OfWatch(d)
      /\ OfText(a) = OfText(d) /\ OfKids(a) = OfKids(d) /\ OfList(a) = OfList(d)
  BY <1>1, SetQmode
<1> HIDE DEF a
<1>3. /\ b \in State /\ b.qmode = a.qmode /\ b.dlg = a.dlg /\ b.stack = a.stack
      /\ b.ask = a.ask /\ OfDisc(b) = OfDisc(a) /\ OfWatch(b) = OfWatch(a)
      /\ OfText(b) = OfText(a) /\ OfKids(b) = OfKids(a) /\ OfList(b) = OfList(a)
  BY <1>2, SetButton
<1>4. z = [b EXCEPT !.looked = w]
  BY DEF Cleared, a, d
<1> HIDE DEF b
<1>5. w \in Disc \cup {NoDisc}
  BY Fields
<1> HIDE DEF w
<1>6. /\ z \in State /\ z.looked = w /\ z.qmode = b.qmode /\ z.dlg = b.dlg
      /\ z.stack = b.stack /\ z.ask = b.ask
  BY ZenonT(60), <1>3, <1>4, <1>5 DEF State
<1>7. z.disc = b.disc /\ z.open = b.open /\ z.timer = b.timer
  BY <1>3, <1>4 DEF State
<1>8. /\ OfWatch(z) = OfWatch(b) /\ OfText(z) = OfText(b)
      /\ OfKids(z) = OfKids(b) /\ OfList(z) = OfList(b)
  BY <1>3, <1>4 DEF State, OfWatch, OfText, OfKids, OfList
<1>9. z.disc = y.disc /\ z.open = y.open /\ z.timer = y.timer
  BY <1>1, <1>2, <1>3, <1>7 DEF OfDisc
<1>10. z.pipe = 0 /\ z.info = <<>> /\ ~z.match
  BY <1>1, <1>2, <1>3, <1>8 DEF OfText, OfList
<1>11. KidsCancelled(y, z)
  BY <1>1, <1>2, <1>3, <1>8 DEF OfKids, KidsCancelled
<1> QED BY <1>1, <1>2, <1>3, <1>6, <1>8, <1>9, <1>10, <1>11 DEF w

LEMMA DbGetInv ==
  ASSUME NEW v, NEW by \in Caller, NEW e, Ready(v, by, e),
         \E k \in Slot : v.kids[k].st = "free", NEW z, z = DbGet(v, by)
  PROVE  Inv(z, e)
<1> DEFINE y == Cleared(v)
<1>1. v \in State /\ Frames(v.stack) /\ Live(v)
  BY DEF Ready, Held, Typed
<1>2. /\ y \in State /\ KidsCancelled(v, y) /\ y.pipe = 0
      /\ y.disc = v.disc /\ y.open = v.open /\ y.timer = v.timer
      /\ y.looked = v.disc /\ OfWatch(y) = OfWatch(v)
      /\ y.qmode = "WAIT" /\ y.dlg = v.dlg
      /\ y.info = <<>> /\ ~y.match /\ y.stack = v.stack /\ y.ask = v.ask
  BY <1>1, ClearedFacts
<1>3. z = IF v.disc = NoDisc
            THEN Return([StopAsked(y) EXCEPT !.qmode = "ERR", !.reload_btn = TRUE], by)
            ELSE Start(y, NewKid(y), by)
  BY DEF DbGet, Cleared
<1> HIDE DEF y
<1>4. /\ Between(y, by, e) /\ Midway(y, by, e)
      /\ "helper" \notin e => \A k \in Slot : ~Running(y, k)
      /\ "helper" \notin e => AllGuarded(y)
  <2>1. Text0(y)
    BY <1>2 DEF Text0
  <2>2. /\ Held(y, by, e) /\ (Calmed(e) => (Paused(v) => AllOver(y)))
        /\ "helper" \notin e => \A k \in Slot : ~Running(y, k)
    BY <1>2, <2>1, CancelledHeld DEF Ready
  <2>3. Between(y, by, e)
    BY <2>2 DEF Ready, Between
  <2> QED BY <2>2, <2>3, BetweenMidway DEF AllGuarded
<1>5. Looked(y)
  BY <1>2 DEF Looked
<1>6. CASE v.disc = NoDisc
  <2> DEFINE m == Outcome0(y, "err")
  <2>1. z = Return(m, by)
    BY <1>3, <1>6 DEF Outcome0, Outcome
  <2>2. /\ Between(m, by, e) /\ ("calm" \in e => Looked(m))
        /\ m.qmode # "WAIT" /\ m.reload_btn
        /\ "helper" \notin e => \A k \in Slot : ~Running(m, k)
    BY <1>4, <1>5, OutcomeBetween
  <2> HIDE DEF m
  <2>3. Midway(m, by, e) /\ Waits(m) /\ ("helper" \notin e => AllGuarded(m))
    BY <2>2, BetweenMidway DEF Waits, Able, AllGuarded
  <2> QED BY <2>1, <2>2, <2>3, ReturnInv
<1>7. CASE v.disc # NoDisc
  <2> DEFINE k == NewKid(y)
             c == Begun(y, k)
             f == Call("read", k, by)
  <2>1. k \in Slot /\ y.kids[k].st = "free"
    <3>1. PICK j \in Slot : v.kids[j].st = "free"
      OBVIOUS
    <3>2. j # v.pid
      BY <1>1, <3>1, Fields DEF Live
    <3>3. y.kids[j] = v.kids[j]
      BY <1>1, <1>2, <3>2, Fields, WithoutKids DEF KidsCancelled
    <3> QED BY <3>1, <3>3, NewKidFacts
  <2>2. z = Push(c, f)
    BY <1>3, <1>7 DEF Start, Begun
  <2> HIDE DEF k
  <2>3. /\ c \in State /\ c.pid = k
        /\ c.kids[k].st = "query" /\ c.kids[k].out = "empty" /\ c.kids[k].disc = y.disc
        /\ \A j \in Slot : j # k => c.kids[j] = y.kids[j]
        /\ OfDisc(c) = OfDisc(y) /\ OfWatch(c) = OfWatch(y)
        /\ OfShow(c) = OfShow(y) /\ OfText(c) = OfText(y)
        /\ OfList(c) = OfList(y) /\ c.stack = y.stack /\ c.ask = y.ask
    BY <1>2, <2>1, BegunFacts
  <2>4. f \in Frame /\ f.at = "read" /\ f.kid = k /\ f.pid = k /\ f.by = by
    BY <2>1 DEF Call, Frame
  <2> HIDE DEF c, f
  <2>5. /\ c.disc = v.disc /\ c.open = y.open /\ c.looked = v.disc /\ c.pipe = 0
        /\ c.info = <<>> /\ ~c.match /\ c.qmode = "WAIT" /\ c.dlg = y.dlg
        /\ c.disc = y.disc
    BY <1>2, <2>3 DEF OfDisc, OfText, OfList, OfShow
  <2>6. \A j \in Slot : j # k => (Running(c, j) <=> Running(y, j))
    BY <2>3 DEF Running
  <2>7. Between(c, by, e)
    <3>1. Typed(c) /\ Shown(c)
      <4>1. Typed(y) /\ Shown(y)
        BY <1>4 DEF Between, Held
      <4>2. Live(c)
        <5>1. c.kids[k].disc \in Disc
          BY <1>1, <1>7, <2>3, <2>5, Fields
        <5>2. \A j \in Slot : j # k /\ (Running(c, j) \/ c.kids[j].out # "empty") =>
                c.kids[j].disc \in Disc
          BY <2>3, <2>6, <4>1 DEF Typed, Live
        <5> QED BY <2>3, <5>1, <5>2 DEF Live
      <4> QED BY <2>3, <2>5, <4>1, <4>2 DEF Typed, Shown
    <3>2. "helper" \notin e => Only(c) /\ (c.disc # NoDisc => c.open)
      BY <1>4, <1>7, <2>3, <2>5, <2>6 DEF Between, Held, Only
    <3>3. "calm" \in e => Watch(c, by)
      BY <1>4, <2>3 DEF Between, Held, Watch, OfDisc, OfWatch
    <3>4. ASSUME Calmed(e) PROVE Source(c) /\ AllOver(c)
      <4>1. Source(y) /\ AllOver(y) /\ "helper" \notin e
        BY <1>4, <3>4 DEF Between, Held, Calmed
      <4>2. Text0(c)
        BY <2>5 DEF Text0
      <4>3. Children(c)
        BY <1>4, <2>3, <2>5, <2>6, <4>1 DEF Source, Children
      <4>4. \A i \in 1..Len(y.stack) : y.stack[i].at \in LoadAt =>
              /\ y.stack[i].kid \in Slot /\ y.stack[i].kid # k
              /\ c.kids[y.stack[i].kid] = y.kids[y.stack[i].kid]
              /\ ~Running(c, y.stack[i].kid)
        <5>1. \A i \in 1..Len(y.stack) : y.stack[i] \in Frame
          BY <1>2, Fields
        <5>2. \A g \in Frame : g.kid # 0 => g.kid \in Slot
          BY DEF Frame
        <5>3. \A i \in 1..Len(y.stack) : y.stack[i].at \in LoadAt =>
                y.stack[i].kid \in Slot
          BY <1>1, <1>2, <5>1, <5>2 DEF Frames
        <5>4. \A i \in 1..Len(y.stack) : y.stack[i].at \in LoadAt =>
                y.kids[y.stack[i].kid].st # "free"
          BY <4>1 DEF Source, Calls
        <5> SUFFICES ASSUME NEW i \in 1..Len(y.stack), y.stack[i].at \in LoadAt
                     PROVE  /\ y.stack[i].kid \in Slot /\ y.stack[i].kid # k
                            /\ c.kids[y.stack[i].kid] = y.kids[y.stack[i].kid]
                            /\ ~Running(c, y.stack[i].kid)
          OBVIOUS
        <5>5. y.stack[i].kid \in Slot /\ y.stack[i].kid # k
          BY <2>1, <5>3, <5>4
        <5> QED BY <1>4, <2>3, <2>6, <4>1, <5>5
      <4>5. Calls(c)
        <5>1. \A i \in 1..Len(y.stack) : y.stack[i].at \in LoadAt =>
                /\ y.stack[i].kid = y.stack[i].pid
                /\ y.kids[y.stack[i].kid].st # "free"
                /\ y.kids[y.stack[i].kid].disc = y.disc
          BY <4>1 DEF Source, Calls
        <5> QED BY <1>7, <2>3, <2>5, <4>4, <5>1 DEF Calls
      <4>6. AllOver(c)
        BY <2>3, <4>1, <4>4 DEF AllOver, Over, Quiet
      <4> QED BY <2>5, <4>2, <4>3, <4>5, <4>6 DEF Source
    <3> QED BY <3>1, <3>2, <3>3, <3>4 DEF Between, Held
  <2>8. Looked(c)
    BY <2>5 DEF Looked
  <2>9. /\ z \in State /\ z.stack = <<f>> \o c.stack /\ z.ask = c.ask
        /\ OfDisc(z) = OfDisc(c) /\ OfWatch(z) = OfWatch(c)
        /\ OfShow(z) = OfShow(c) /\ OfText(z) = OfText(c)
        /\ OfKids(z) = OfKids(c) /\ OfList(z) = OfList(c)
    BY <2>2, <2>3, <2>4, PushFacts
  <2>10. f.at \in LoadAt /\ k # 0
    BY <2>1, <2>4 DEF LoadAt, Slot
  <2>11. Pushed(c, by, f, z)
    <3>1. /\ z.qmode = "WAIT" /\ z.dlg = c.dlg /\ z.pid = c.pid /\ z.kids = c.kids
          /\ z.pipe = c.pipe
      BY <2>5, <2>9 DEF OfShow, OfKids, OfList
    <3> QED BY <2>4, <2>9, <2>10, <3>1 DEF Pushed
  <2>12. ASSUME "helper" \notin e PROVE AllGuarded(z)
    <3> SUFFICES ASSUME NEW j \in Slot, Running(z, j)
                 PROVE  Guarded(z.stack, j, Chosen(z))
      BY DEF AllGuarded
    <3>1. Running(c, j)
      BY <2>9 DEF Running, OfKids
    <3>2. j = f.pid
      BY <1>4, <2>4, <2>6, <2>12, <3>1
    <3>3. c.stack \in Seq(Frame)
      BY <2>3, Fields
    <3> QED BY <2>4, <2>9, <2>10, <3>2, <3>3, PushStack
  <2>13. Unread(c, f)
    BY <1>7, <2>3, <2>4, <2>5, <2>10 DEF Unread
  <2> QED BY <2>7, <2>8, <2>11, <2>12, <2>13, PushInv
<1> QED BY <1>6, <1>7

-----------------------------------------------------------------------------
(* A child that is forgotten is referred to by nothing. *)
LEMMA ReapFacts ==
  ASSUME NEW y \in State, NEW z, z = Reap(y)
  PROVE  /\ z \in State /\ z.pid = y.pid /\ z.stack = y.stack /\ z.ask = y.ask
         /\ \A k \in Slot :
              \/ z.kids[k] = y.kids[k]
              \/ /\ z.kids[k].st = "free" /\ z.kids[k].out = "empty"
                 /\ y.kids[k].st = "done" /\ k # y.pid /\ k # y.pipe
                 /\ \A i \in 1..Len(y.stack) : k # y.stack[i].kid
         /\ OfDisc(z) = OfDisc(y) /\ OfWatch(z) = OfWatch(y)
         /\ OfShow(z) = OfShow(y) /\ OfText(z) = OfText(y) /\ OfList(z) = OfList(y)
<1> DEFINE used == {y.pid, y.pipe, y.list} \cup UNION {{f.kid, f.pid} : f \in
                     {y.stack[i] : i \in DOMAIN y.stack}}
           K == [k \in Slot |-> IF k \notin used /\ y.kids[k].st = "done"
                                  THEN FreeKid ELSE y.kids[k]]
<1>1. y.kids \in [Slot -> Kid] /\ y.stack \in Seq(Frame)
  BY Fields
<1>2. /\ y.pid \in used /\ y.pipe \in used
      /\ \A i \in 1..Len(y.stack) : y.stack[i].kid \in used
  <2>1. DOMAIN y.stack = 1..Len(y.stack)
    BY <1>1
  <2> QED BY <2>1
<1>3. z = [y EXCEPT !.kids = K]
  BY DEF Reap
<1> HIDE DEF used
<1>4. FreeKid \in Kid /\ FreeKid.st = "free" /\ FreeKid.out = "empty"
  BY DEF FreeKid, Kid
<1>5. K \in [Slot -> Kid]
  BY <1>1, <1>4
<1>6. \A k \in Slot : \/ K[k] = y.kids[k]
                      \/ K[k] = FreeKid /\ y.kids[k].st = "done" /\ k \notin used
  OBVIOUS
<1> HIDE DEF K
<1>7. z \in State /\ z.kids = K
  BY ZenonT(60), <1>3, <1>5 DEF State
<1>8. /\ OfDisc(z) = OfDisc(y) /\ OfWatch(z) = OfWatch(y)
      /\ OfShow(z) = OfShow(y) /\ OfText(z) = OfText(y) /\ OfList(z) = OfList(y)
      /\ z.pid = y.pid /\ z.stack = y.stack /\ z.ask = y.ask
  BY <1>3 DEF State, OfDisc, OfWatch, OfShow, OfText, OfList
<1>9. \A k \in Slot :
        \/ z.kids[k] = y.kids[k]
        \/ /\ z.kids[k].st = "free" /\ z.kids[k].out = "empty"
           /\ y.kids[k].st = "done" /\ k # y.pid /\ k # y.pipe
           /\ \A i \in 1..Len(y.stack) : k # y.stack[i].kid
  BY <1>2, <1>4, <1>6, <1>7
<1> QED BY <1>7, <1>8, <1>9

LEMMA ReapInv ==
  ASSUME NEW y, NEW e, Inv(y, e) PROVE Inv(Reap(y), e)
<1> DEFINE z == Reap(y)
<1>1. y \in State /\ Frames(y.stack) /\ Live(y) /\ Shown(y)
  BY DEF Inv, Typed
<1>2. /\ z \in State /\ z.pid = y.pid /\ z.stack = y.stack /\ z.ask = y.ask
      /\ \A k \in Slot :
           \/ z.kids[k] = y.kids[k]
           \/ /\ z.kids[k].st = "free" /\ z.kids[k].out = "empty"
              /\ y.kids[k].st = "done" /\ k # y.pid /\ k # y.pipe
              /\ \A i \in 1..Len(y.stack) : k # y.stack[i].kid
      /\ OfDisc(z) = OfDisc(y) /\ OfWatch(z) = OfWatch(y)
      /\ OfShow(z) = OfShow(y) /\ OfText(z) = OfText(y) /\ OfList(z) = OfList(y)
  BY <1>1, ReapFacts
<1> HIDE DEF z
<1>3. /\ z.disc = y.disc /\ z.open = y.open /\ z.timer = y.timer /\ z.looked = y.looked
      /\ z.dlg = y.dlg /\ z.qmode = y.qmode /\ z.reload_btn = y.reload_btn
      /\ z.info = y.info /\ z.match = y.match /\ z.pipe = y.pipe
  BY <1>2 DEF OfDisc, OfShow, OfText, OfList
<1>4. /\ \A k \in Slot : Running(z, k) <=> Running(y, k)
      /\ y.pid # 0 => z.kids[y.pid] = y.kids[y.pid]
      /\ y.pipe # 0 => z.kids[y.pipe] = y.kids[y.pipe]
  <2>1. y.pid \in {0} \cup Slot /\ y.pipe \in {0} \cup Slot
    BY <1>1, Fields
  <2> QED BY <1>2, <2>1 DEF Running
<1>5. \A i \in 1..Len(y.stack) : y.stack[i].at \in LoadAt =>
        /\ y.stack[i].kid \in Slot
        /\ z.kids[y.stack[i].kid] = y.kids[y.stack[i].kid]
  <2>1. \A i \in 1..Len(y.stack) : y.stack[i] \in Frame
    BY <1>1, Fields
  <2>2. \A g \in Frame : g.kid # 0 => g.kid \in Slot
    BY DEF Frame
  <2>3. \A i \in 1..Len(y.stack) : y.stack[i].at \in LoadAt => y.stack[i].kid \in Slot
    BY <1>1, <2>1, <2>2 DEF Frames
  <2> QED BY <1>2, <2>3
<1>6. Typed(z) /\ Waits(z) /\ Shown(z)
  <2>1. Live(z)
    <3>1. ASSUME NEW k \in Slot, Running(z, k) \/ z.kids[k].out # "empty"
          PROVE  z.kids[k].disc \in Disc
      <4>1. z.kids[k] = y.kids[k]
        BY <1>2, <3>1 DEF Running
      <4> QED BY <1>1, <1>4, <3>1, <4>1 DEF Live
    <3> QED BY <1>1, <1>2, <1>4, <3>1 DEF Live
  <2>2. Waits(z)
    BY <1>2, <1>3 DEF Inv, Waits, Able
  <2> QED BY <1>1, <1>2, <1>3, <2>1, <2>2 DEF Typed, Shown
<1>7. "helper" \notin e => One(z)
  BY <1>2, <1>3, <1>4 DEF Inv, One, Only, AllGuarded, Chosen
<1>8. "calm" \in e => Watch(z, "user") /\ Looked(z)
  BY <1>2, <1>3 DEF Inv, Watch, Looked, OfWatch
<1>9. ASSUME Calmed(e) PROVE Source(z) /\ Later(z)
  <2>1. Source(y) /\ Later(y)
    BY <1>9 DEF Inv
  <2>2. Text0(z)
    BY <1>3, <2>1 DEF Source, Text0
  <2>3. Children(z)
    <3> SUFFICES ASSUME NEW k \in Slot
                 PROVE  /\ z.kids[k].out \in {"match", "none", "reg"} =>
                             z.kids[k].st = "done"
                        /\ Running(z, k) => z.kids[k].disc = z.disc /\ z.info = <<>>
      BY DEF Children
    <3>1. CASE z.kids[k] = y.kids[k]
      BY <1>3, <1>4, <2>1, <3>1 DEF Source, Children
    <3>2. CASE z.kids[k].st = "free" /\ z.kids[k].out = "empty"
      BY <3>2 DEF Running
    <3> QED BY <1>2, <3>1, <3>2
  <2>4. Calls(z)
    <3> SUFFICES ASSUME NEW i \in 1..Len(y.stack), y.stack[i].at \in LoadAt,
                        NEW f, f = y.stack[i]
                 PROVE  /\ f.kid = f.pid /\ z.disc # NoDisc
                        /\ z.kids[f.kid].st # "free" /\ z.kids[f.kid].disc = z.disc
                        /\ f.at = "read" => z.info = <<>> \/ z.kids[f.kid].out # "match"
                        /\ f.kid = z.pipe => ~Running(z, f.kid)
      BY <1>2 DEF Calls
    <3>1. /\ f.kid = f.pid /\ y.disc # NoDisc
          /\ y.kids[f.kid].st # "free" /\ y.kids[f.kid].disc = y.disc
          /\ f.at = "read" => y.info = <<>> \/ y.kids[f.kid].out # "match"
          /\ f.kid = y.pipe => ~Running(y, f.kid)
      BY <2>1 DEF Source, Calls
    <3>2. f.kid \in Slot /\ z.kids[f.kid] = y.kids[f.kid]
      BY <1>5
    <3> QED BY <1>3, <1>4, <3>1, <3>2
  <2>5. Later(z)
    <3>1. \A i \in 1..Len(y.stack) : y.stack[i].at \in LoadAt =>
            (Quiet(z, y.stack[i]) <=> Quiet(y, y.stack[i]))
      BY <1>4, <1>5 DEF Quiet
    <3> QED BY <1>2, <2>1, <3>1 DEF Later
  <2> QED BY <1>3, <1>4, <2>1, <2>2, <2>3, <2>4, <2>5 DEF Source
<1> QED BY <1>6, <1>7, <1>8, <1>9 DEF Inv, z

-----------------------------------------------------------------------------
(* From the invariant to the middle of a step and back. *)
LEMMA InvHeld ==
  ASSUME NEW y, NEW e, Inv(y, e)
  PROVE  /\ Held(y, "user", e) /\ Midway(y, "user", e) /\ Waits(y)
         /\ y \in State /\ Frames(y.stack) /\ Shown(y)
         /\ "helper" \notin e => AllGuarded(y)
         /\ "calm" \in e => Looked(y)
BY DEF Inv, Held, Midway, One, Typed

LEMMA MidwayInv ==
  ASSUME NEW y, NEW e, Midway(y, "user", e), Waits(y),
         "helper" \notin e => AllGuarded(y), "calm" \in e => Looked(y)
  PROVE  Inv(y, e)
BY DEF Inv, Held, Midway, One

(* Nothing but what cancels a lookup or takes a question away. *)
LEMMA KeptInv ==
  ASSUME NEW y, NEW e, Inv(y, e), NEW z \in State,
         \A k \in Slot :
           /\ z.kids[k].out = y.kids[k].out /\ z.kids[k].disc = y.kids[k].disc
           /\ z.kids[k].st \in {"done", y.kids[k].st},
         z.pid \in {0, y.pid},
         "helper" \notin e /\ z.pid # y.pid => \A k \in Slot : ~Running(z, k),
         z.stack = y.stack, z.dlg \in {y.dlg, y.dlg \ {"reg"}},
         z.ask \in {"no", y.ask}, z.disc = y.disc, z.open = y.open,
         z.timer = y.timer, z.looked = y.looked, OfWatch(z) = OfWatch(y),
         z.pipe = y.pipe, OfText(z) = OfText(y),
         z.qmode = y.qmode, z.reload_btn = y.reload_btn
  PROVE  Inv(z, e)
<1>1. /\ Held(y, "user", e) /\ Midway(y, "user", e) /\ Waits(y)
      /\ "helper" \notin e => AllGuarded(y)
      /\ "calm" \in e => Looked(y)
  BY InvHeld
<1>2. z.info = y.info /\ z.match = y.match /\ z.dlg \subseteq y.dlg
  BY DEF OfText
<1>3. Text0(y) => Text0(z)
  BY <1>2 DEF Text0
<1>4. Midway(z, "user", e)
  BY <1>1, <1>2, <1>3, HeldKept DEF Midway
<1>5. "match" \in y.dlg <=> "match" \in z.dlg
  OBVIOUS
<1>6. "auth" \in y.dlg <=> "auth" \in z.dlg
  OBVIOUS
<1>7. Waits(z)
  BY <1>1, <1>5, <1>6 DEF Waits, Able
<1>8. \A k \in Slot : Running(z, k) => Running(y, k)
  BY DEF Running
<1>9. "helper" \notin e => AllGuarded(z)
  BY <1>1, <1>5, <1>8 DEF AllGuarded, Chosen
<1> QED BY <1>1, <1>4, <1>7, <1>9, MidwayInv DEF Looked

(* The lookup is cancelled, and nothing else but a question taken away. *)
LEMMA CancelledInv ==
  ASSUME NEW y, NEW e, Inv(y, e), NEW z \in State, KidsCancelled(y, z),
         z.stack = y.stack, z.dlg = y.dlg, z.ask \in {"no", y.ask},
         z.disc = y.disc, z.open = y.open,
         z.timer = y.timer, z.looked = y.looked, OfWatch(z) = OfWatch(y),
         z.pipe = y.pipe, OfText(z) = OfText(y),
         z.qmode = y.qmode, z.reload_btn = y.reload_btn
  PROVE  Inv(z, e)
<1>1. Held(y, "user", e) /\ y \in State
  BY InvHeld
<1>2. /\ y.kids \in [Slot -> Kid] /\ z.kids = Without(y.kids, y.pid) /\ z.pid = 0
  BY <1>1, Fields DEF KidsCancelled
<1>3. \A k \in Slot :
        /\ z.kids[k].out = y.kids[k].out /\ z.kids[k].disc = y.kids[k].disc
        /\ z.kids[k].st \in {"done", y.kids[k].st}
        /\ k = y.pid => z.kids[k].st = "done"
  BY <1>2, WithoutKids
<1>4. "helper" \notin e => \A k \in Slot : ~Running(z, k)
  BY <1>1, <1>3 DEF Held, Only, Running
<1> QED BY <1>2, <1>3, <1>4, KeptInv

(* When the innermost call waits, those under way have nothing to read. *)
Idle(y) ==
  y.stack # <<>> =>
    /\ y.stack[1].at = "read" => y.kids[y.stack[1].kid].out = "empty"
    /\ y.stack[1].at # "rest"
    /\ y.stack[1].at = "ask" => y.ask # "no"
LEMMA IdlePaused ==
  ASSUME NEW y \in State, Later(y), Idle(y),
         y.ask \in {"no", "reload"} \/ y.stack = <<>>
  PROVE  Paused(y)
<1>1. y.stack \in Seq(Frame)
  BY Fields
<1> SUFFICES ASSUME NEW i \in 1..Len(y.stack), y.stack[i].at \in LoadAt
             PROVE  /\ y.stack[i].at # "rest"
                    /\ y.stack[i].at = "read" => y.kids[y.stack[i].kid].out = "empty"
  BY DEF Paused
<1>2. y.stack # <<>>
  BY <1>1
<1>3. CASE i = 1
  BY <1>2, <1>3 DEF Idle
<1>4. CASE i # 1
  <2>1. i > 1
    BY <1>1, <1>4
  <2> QED BY <1>2, <2>1 DEF Later, Idle, Quiet
<1> QED BY <1>3, <1>4

-----------------------------------------------------------------------------
(* The disc is gone. *)
LEMMA ClearCdinfoFacts ==
  ASSUME NEW y \in State, NEW z, z = ClearCdinfo(y)
  PROVE  /\ z \in State /\ KidsCancelled(y, z) /\ z.pipe = 0 /\ ~z.loaded
         /\ OfDisc(z) = OfDisc(y) /\ z.polling = y.polling
         /\ z.qmode = "NONE" /\ z.dlg = y.dlg
         /\ z.info = <<>> /\ ~z.match /\ z.stack = y.stack /\ z.ask = y.ask
<1> DEFINE d == Dbclear(y)
           f == FALSE
<1>1. /\ d \in State /\ KidsCancelled(y, d) /\ d.pipe = 0
      /\ OfDisc(d) = OfDisc(y) /\ OfWatch(d) = OfWatch(y)
      /\ d.qmode = "NONE" /\ d.dlg = y.dlg
      /\ d.info = <<>> /\ ~d.match /\ d.stack = y.stack /\ d.ask = y.ask
  BY DbclearFacts
<1>2. z = [d EXCEPT !.loaded = f]
  BY DEF ClearCdinfo
<1> HIDE DEF d
<1>3. f \in BOOLEAN /\ ~f
  OBVIOUS
<1> HIDE DEF f
<1>4. z \in State /\ z.loaded = f
  <2>0. d \in State /\ f \in BOOLEAN
    BY <1>1, <1>3
  <2>1. z \in State
    BY ZenonT(60), <2>0, <1>2 DEF State
  <2>2. z.loaded = f
    BY <1>1, <1>2 DEF State
  <2> QED BY <2>1, <2>2
<1>5. /\ OfDisc(z) = OfDisc(d) /\ OfShow(z) = OfShow(d) /\ OfText(z) = OfText(d)
      /\ OfKids(z) = OfKids(d) /\ OfList(z) = OfList(d)
      /\ z.stack = d.stack /\ z.ask = d.ask /\ z.polling = d.polling
  BY <1>1, <1>2 DEF State, OfDisc, OfShow, OfText, OfKids, OfList
<1>6. /\ z.qmode = d.qmode /\ z.dlg = d.dlg /\ z.info = d.info
      /\ z.match = d.match /\ z.pipe = d.pipe
      /\ d.polling = y.polling
  BY <1>1, <1>5 DEF OfShow, OfText, OfList, OfWatch
<1>7. KidsCancelled(y, z)
  BY <1>1, <1>5 DEF KidsCancelled, OfKids
<1> QED BY <1>1, <1>3, <1>4, <1>5, <1>6, <1>7

NoDiscIn(g, o) == [g EXCEPT !.disc = NoDisc, !.looked = NoDisc, !.open = o]
LEMMA NoDiscInFacts ==
  ASSUME NEW g \in State, NEW o \in BOOLEAN, NEW z, z = NoDiscIn(g, o)
  PROVE  /\ z \in State /\ z.disc = NoDisc /\ z.looked = NoDisc /\ z.timer = g.timer
         /\ OfWatch(z) = OfWatch(g) /\ OfShow(z) = OfShow(g) /\ OfText(z) = OfText(g)
         /\ OfKids(z) = OfKids(g) /\ OfList(z) = OfList(g)
         /\ z.stack = g.stack /\ z.ask = g.ask
BY DEF NoDiscIn, State, OfWatch, OfShow, OfText, OfKids, OfList

LEMMA InsertPollFacts ==
  ASSUME NEW y \in State, NEW z, z = StartInsertPoll(y)
  PROVE  /\ z \in State /\ z.polling /\ (z.timer <=> y.timer \/ ~y.polling)
         /\ z.disc = y.disc /\ z.looked = y.looked /\ z.open = y.open
         /\ z.loaded = y.loaded /\ OfShow(z) = OfShow(y) /\ OfText(z) = OfText(y)
         /\ OfKids(z) = OfKids(y) /\ OfList(z) = OfList(y)
         /\ z.stack = y.stack /\ z.ask = y.ask
<1> DEFINE t == y.timer \/ ~y.polling
           b == TRUE
           m == [y EXCEPT !.timer = t]
<1>1. t \in BOOLEAN /\ b \in BOOLEAN /\ b
  OBVIOUS
<1>2. z = [m EXCEPT !.polling = b]
  BY DEF StartInsertPoll
<1> HIDE DEF t, b
<1>3. /\ m \in State /\ m.timer = t
      /\ m.disc = y.disc /\ m.looked = y.looked /\ m.open = y.open
      /\ m.loaded = y.loaded /\ m.stack = y.stack /\ m.ask = y.ask
  BY SMTT(40), <1>1 DEF State
<1>4. /\ OfShow(m) = OfShow(y) /\ OfText(m) = OfText(y)
      /\ OfKids(m) = OfKids(y) /\ OfList(m) = OfList(y)
  BY DEF State, OfShow, OfText, OfKids, OfList
<1> HIDE DEF m
<1>5. /\ z \in State /\ z.polling = b /\ z.timer = m.timer
      /\ z.disc = m.disc /\ z.looked = m.looked /\ z.open = m.open
      /\ z.loaded = m.loaded /\ z.stack = m.stack /\ z.ask = m.ask
  BY ZenonT(60), <1>1, <1>2, <1>3 DEF State
<1>6. /\ OfShow(z) = OfShow(m) /\ OfText(z) = OfText(m)
      /\ OfKids(z) = OfKids(m) /\ OfList(z) = OfList(m)
  BY <1>2, <1>3 DEF State, OfShow, OfText, OfKids, OfList
<1> QED BY <1>1, <1>3, <1>4, <1>5, <1>6 DEF t

(* Where there was a disc the lookup is cancelled and the text cleared;    *)
(* without a call under way, what is left watches for the next.            *)
LEMMA GoneInv ==
  ASSUME NEW y, NEW e, Inv(y, e), "calm" \in e => y.stack = <<>>, NEW z \in State,
         z.disc = NoDisc, z.looked = NoDisc,
         "calm" \in e => z.timer,
         z.stack = y.stack, z.ask = y.ask, z.dlg = y.dlg,
         IF y.open
           THEN /\ KidsCancelled(y, z) /\ z.pipe = 0 /\ z.info = <<>> /\ ~z.match
                /\ z.qmode = "NONE" /\ ~z.loaded
           ELSE /\ OfKids(z) = OfKids(y) /\ z.pipe = y.pipe /\ OfText(z) = OfText(y)
                /\ z.qmode = y.qmode /\ z.loaded = y.loaded
  PROVE  Inv(z, e)
<1>1. /\ Held(y, "user", e) /\ Waits(y)
      /\ y \in State /\ Frames(y.stack) /\ Live(y) /\ Shown(y)
      /\ "helper" \notin e => AllGuarded(y)
  BY InvHeld DEF Held, Typed
<1>2. y.kids \in [Slot -> Kid] /\ y.pid \in {0} \cup Slot
  BY <1>1, Fields
<1>3. /\ \A k \in Slot :
           /\ z.kids[k].out = y.kids[k].out /\ z.kids[k].disc = y.kids[k].disc
           /\ z.kids[k].st \in {"done", y.kids[k].st}
           /\ y.open /\ k = y.pid => z.kids[k].st = "done"
      /\ z.pid = IF y.open THEN 0 ELSE y.pid
  <2>1. CASE y.open
    BY <1>2, <2>1, WithoutKids DEF KidsCancelled
  <2>2. CASE ~y.open
    BY <2>2 DEF OfKids
  <2> QED BY <2>1, <2>2
<1>4. \A k \in Slot : Running(z, k) => Running(y, k)
  BY <1>3 DEF Running
<1>5. ASSUME "helper" \notin e, NEW k \in Slot PROVE ~Running(z, k)
  <2>1. Running(y, k) => y.pid = k /\ y.disc # NoDisc
    BY <1>1, <1>5 DEF Held, Only
  <2>2. y.disc # NoDisc => y.open
    BY <1>1, <1>5 DEF Held
  <2> QED BY <1>3, <1>4, <2>1, <2>2 DEF Running
<1>6. Typed(z)
  <2>1. Live(z)
    BY <1>1, <1>2, <1>3, <1>4 DEF Live
  <2> QED BY <1>1, <2>1 DEF Typed
<1>7. Waits(z) /\ Shown(z)
  BY <1>1 DEF Waits, Able, Shown
<1>8. "helper" \notin e => One(z)
  BY <1>5 DEF One, Only, AllGuarded
<1>9. ASSUME "calm" \in e PROVE Watch(z, "user") /\ Looked(z)
  <2>1. Len(z.stack) = 0 /\ 1..Len(z.stack) = {}
    BY <1>9
  <2>2. ~y.open => y.disc = NoDisc /\ ~y.loaded
    BY <1>1, <1>9 DEF Held, Watch
  <2> QED BY <1>9, <2>1, <2>2 DEF Watch, Looked
<1>10. ASSUME Calmed(e) PROVE Source(z) /\ Later(z)
  <2>1. Source(y) /\ "helper" \notin e /\ z.stack = <<>>
    BY <1>1, <1>10 DEF Held, Calmed
  <2>2. 1..Len(z.stack) = {}
    BY <2>1
  <2>3. ~y.open => y.disc = NoDisc
    BY <1>1, <1>10 DEF Held, Calmed
  <2>4. Text0(z)
    BY <2>1, <2>3 DEF Source, Text0, OfText
  <2>5. Children(z)
    BY <1>3, <1>5, <2>1 DEF Source, Children
  <2>6. z.pipe # 0 => z.kids[z.pipe].st # "free"
    BY <2>1 DEF Source, OfKids
  <2> QED BY <2>2, <2>4, <2>5, <2>6 DEF Source, Calls, Later
<1> QED BY <1>6, <1>7, <1>8, <1>9, <1>10 DEF Inv

EjectedIn(g, o) ==
  [g EXCEPT !.disc = NoDisc, !.looked = NoDisc, !.drive = NoDisc, !.open = o]
LEMMA EjectedInFacts ==
  ASSUME NEW g \in State, NEW o \in BOOLEAN, NEW z, z = EjectedIn(g, o)
  PROVE  /\ z \in State /\ z.disc = NoDisc /\ z.looked = NoDisc /\ z.timer = g.timer
         /\ OfWatch(z) = OfWatch(g) /\ OfShow(z) = OfShow(g) /\ OfText(z) = OfText(g)
         /\ OfKids(z) = OfKids(g) /\ OfList(z) = OfList(g)
         /\ z.stack = g.stack /\ z.ask = g.ask
BY DEF EjectedIn, State, OfWatch, OfShow, OfText, OfKids, OfList

LEMMA LoadEjectInv ==
  ASSUME NEW y, NEW e, Inv(y, e), "calm" \in e => y.stack = <<>>,
         NEW close \in BOOLEAN, NEW z, z = LoadEject(y, close)
  PROVE  Inv(z, e)
<1> DEFINE c == Cancel(y)
           n == EjectedIn(c, ~close)
           d == ClearCdinfo(n)
<1>1. y \in State /\ Held(y, "user", e)
  BY InvHeld
<1>2. /\ c \in State /\ KidsCancelled(y, c)
      /\ OfDisc(c) = OfDisc(y) /\ OfWatch(c) = OfWatch(y)
      /\ OfShow(c) = OfShow(y) /\ OfText(c) = OfText(y)
      /\ OfList(c) = OfList(y) /\ c.stack = y.stack /\ c.ask = y.ask
  BY <1>1, CancelFacts
<1>3. z = IF ~y.open THEN c ELSE StartInsertPoll(d)
  BY DEF LoadEject, EjectedIn
<1> HIDE DEF c
<1>4. CASE ~y.open
  <2>1. /\ c.disc = y.disc /\ c.open = y.open /\ c.timer = y.timer
        /\ c.looked = y.looked /\ c.pipe = y.pipe /\ c.qmode = y.qmode
        /\ c.reload_btn = y.reload_btn /\ c.dlg = y.dlg
    BY <1>2 DEF OfDisc, OfList, OfShow
  <2> QED BY <1>2, <1>3, <1>4, <2>1, CancelledInv
<1>5. CASE y.open
  <2>1. /\ n \in State /\ n.disc = NoDisc /\ n.looked = NoDisc /\ n.timer = c.timer
        /\ OfWatch(n) = OfWatch(c) /\ OfShow(n) = OfShow(c) /\ OfText(n) = OfText(c)
        /\ OfKids(n) = OfKids(c) /\ OfList(n) = OfList(c)
        /\ n.stack = c.stack /\ n.ask = c.ask
    BY <1>2, EjectedInFacts
  <2> HIDE DEF n
  <2>2. /\ d \in State /\ KidsCancelled(n, d) /\ d.pipe = 0 /\ ~d.loaded
        /\ OfDisc(d) = OfDisc(n) /\ d.polling = n.polling
        /\ d.qmode = "NONE" /\ d.dlg = n.dlg
        /\ d.info = <<>> /\ ~d.match /\ d.stack = n.stack /\ d.ask = n.ask
    BY <2>1, ClearCdinfoFacts
  <2> HIDE DEF d
  <2>3. /\ z \in State /\ z.polling /\ (z.timer <=> d.timer \/ ~d.polling)
        /\ z.disc = d.disc /\ z.looked = d.looked /\ z.open = d.open
        /\ z.loaded = d.loaded /\ OfShow(z) = OfShow(d) /\ OfText(z) = OfText(d)
        /\ OfKids(z) = OfKids(d) /\ OfList(z) = OfList(d)
        /\ z.stack = d.stack /\ z.ask = d.ask
    BY <1>3, <1>5, <2>2, InsertPollFacts
  <2>4. KidsCancelled(y, z)
    <3>1. \A K \in [Slot -> Kid] : Without(K, 0) = K
      BY Fields, <1>1 DEF Without
    <3>2. Without(y.kids, y.pid) \in [Slot -> Kid]
      BY <1>1, Fields, WithoutKids
    <3>3. z.kids = d.kids /\ z.pid = d.pid /\ n.kids = c.kids /\ n.pid = c.pid
      BY <2>1, <2>3 DEF OfKids
    <3> QED BY <1>2, <2>2, <3>1, <3>2, <3>3 DEF KidsCancelled
  <2>5. /\ z.pipe = 0 /\ z.info = <<>> /\ ~z.match /\ z.qmode = "NONE" /\ ~z.loaded
        /\ z.dlg = y.dlg /\ z.disc = NoDisc /\ z.looked = NoDisc
    BY <1>2, <2>1, <2>2, <2>3 DEF OfList, OfText, OfShow, OfWatch, OfDisc
  <2>6. ASSUME "calm" \in e PROVE z.timer
    <3>1. 1..Len(y.stack) = {}
      BY <2>6
    <3>2. Watch(y, "user")
      BY <1>1, <2>6 DEF Held
    <3>3. y.polling => y.timer
      BY <3>1, <3>2 DEF Watch
    <3>4. d.timer = y.timer /\ d.polling = y.polling
      BY <1>2, <2>1, <2>2 DEF OfDisc, OfWatch
    <3> QED BY <2>3, <3>3, <3>4
  <2> QED BY <1>2, <1>5, <2>1, <2>2, <2>3, <2>4, <2>5, <2>6, GoneInv
<1> QED BY <1>4, <1>5

(* The drive is looked at: for a disc that is gone, still there, or new. *)
LEMMA SetTimer ==
  ASSUME NEW y \in State, NEW t \in BOOLEAN, NEW z, z = [y EXCEPT !.timer = t]
  PROVE  /\ z \in State /\ z.timer = t /\ z.stack = y.stack /\ z.ask = y.ask
         /\ z.disc = y.disc /\ z.drive = y.drive /\ z.open = y.open
         /\ z.looked = y.looked
         /\ OfWatch(z) = OfWatch(y) /\ OfShow(z) = OfShow(y) /\ OfText(z) = OfText(y)
         /\ OfKids(z) = OfKids(y) /\ OfList(z) = OfList(y)
BY DEF State, OfWatch, OfShow, OfText, OfKids, OfList

LEMMA SetPolling ==
  ASSUME NEW y \in State, NEW t \in BOOLEAN, NEW z, z = [y EXCEPT !.polling = t]
  PROVE  /\ z \in State /\ z.polling = t /\ z.loaded = y.loaded
         /\ z.stack = y.stack /\ z.ask = y.ask
         /\ OfDisc(z) = OfDisc(y) /\ OfShow(z) = OfShow(y) /\ OfText(z) = OfText(y)
         /\ OfKids(z) = OfKids(y) /\ OfList(z) = OfList(y)
BY DEF State, OfDisc, OfShow, OfText, OfKids, OfList

NewDisc(y) ==
  [y EXCEPT !.open = TRUE, !.disc = y.drive, !.looked = NoDisc, !.pid = 0]
LEMMA NewDiscFacts ==
  ASSUME NEW y \in State, NEW z, z = NewDisc(y)
  PROVE  /\ z \in State /\ z.open /\ z.disc = y.drive /\ z.looked = NoDisc
         /\ z.pid = 0 /\ z.kids = y.kids /\ z.timer = y.timer /\ z.stack = y.stack /\ z.ask = y.ask
         /\ OfWatch(z) = OfWatch(y) /\ OfShow(z) = OfShow(y) /\ OfText(z) = OfText(y)
         /\ OfList(z) = OfList(y)
BY DEF NewDisc, State, OfWatch, OfShow, OfText, OfList

Polled(y, v, by) ==
  /\ v \in State /\ (v.timer <=> y.timer /\ by = "ready")
  /\ v.disc = y.disc /\ v.drive = y.drive /\ v.open = y.open /\ v.looked = y.looked
  /\ OfWatch(v) = OfWatch(y) /\ OfShow(v) = OfShow(y) /\ OfText(v) = OfText(y)
  /\ OfKids(v) = OfKids(y) /\ OfList(v) = OfList(y)
  /\ v.stack = y.stack /\ v.ask = y.ask

LEMMA DiscGoneInv ==
  ASSUME NEW y, NEW e, Inv(y, e), "calm" \in e => y.stack = <<>>,
         NEW by \in {"insert", "ready"}, NEW close \in BOOLEAN,
         NEW v, Polled(y, v, by), v.drive = NoDisc,
         NEW z, z = DiscReady(v, by, close)
  PROVE  Inv(z, e)
<1> DEFINE n == NoDiscIn(v, ~close)
           g == IF v.open THEN ClearCdinfo(n) ELSE n
           m == StartInsertPoll(g)
           t == m.timer \/ by = "insert"
<1>1. y \in State /\ Held(y, "user", e) /\ v \in State
  BY InvHeld DEF Polled
<1>2. z = [m EXCEPT !.timer = t]
  BY DEF DiscReady, NoDiscIn
<1>3. /\ n \in State /\ n.disc = NoDisc /\ n.looked = NoDisc /\ n.timer = v.timer
      /\ OfWatch(n) = OfWatch(v) /\ OfShow(n) = OfShow(v) /\ OfText(n) = OfText(v)
      /\ OfKids(n) = OfKids(v) /\ OfList(n) = OfList(v)
      /\ n.stack = v.stack /\ n.ask = v.ask
  BY <1>1, NoDiscInFacts
<1> HIDE DEF n
<1>4. /\ g \in State /\ OfDisc(g) = OfDisc(n) /\ g.polling = n.polling
      /\ g.dlg = n.dlg /\ g.stack = n.stack /\ g.ask = n.ask
      /\ IF v.open
           THEN /\ KidsCancelled(n, g) /\ g.pipe = 0 /\ g.info = <<>> /\ ~g.match
                /\ g.qmode = "NONE" /\ ~g.loaded
           ELSE /\ OfKids(g) = OfKids(n) /\ g.pipe = n.pipe /\ OfText(g) = OfText(n)
                /\ g.qmode = n.qmode /\ g.loaded = n.loaded
  <2>1. CASE v.open
    BY <1>3, <2>1, ClearCdinfoFacts
  <2>2. CASE ~v.open
    BY <1>3, <2>2
  <2> QED BY <2>1, <2>2
<1> HIDE DEF g
<1>5. /\ m \in State /\ m.polling /\ (m.timer <=> g.timer \/ ~g.polling)
      /\ m.disc = g.disc /\ m.looked = g.looked /\ m.open = g.open
      /\ m.loaded = g.loaded /\ OfShow(m) = OfShow(g) /\ OfText(m) = OfText(g)
      /\ OfKids(m) = OfKids(g) /\ OfList(m) = OfList(g)
      /\ m.stack = g.stack /\ m.ask = g.ask
  BY <1>4, InsertPollFacts
<1> HIDE DEF m
<1>6. t \in BOOLEAN /\ (t <=> m.timer \/ by = "insert")
  BY <1>5, Fields
<1> HIDE DEF t
<1>7. /\ z \in State /\ z.timer = t /\ z.stack = m.stack /\ z.ask = m.ask
      /\ z.disc = m.disc /\ z.looked = m.looked
      /\ OfWatch(z) = OfWatch(m) /\ OfShow(z) = OfShow(m) /\ OfText(z) = OfText(m)
      /\ OfKids(z) = OfKids(m) /\ OfList(z) = OfList(m)
  BY <1>2, <1>5, <1>6, SetTimer
<1>8. ASSUME "calm" \in e PROVE z.timer
  <2>1. 1..Len(y.stack) = {}
    BY <1>8
  <2>2. Watch(y, "user")
    BY <1>1, <1>8 DEF Held
  <2>3. y.polling => y.timer
    BY <2>1, <2>2 DEF Watch
  <2>4. g.timer = v.timer /\ g.polling = v.polling /\ v.polling = y.polling
    BY <1>3, <1>4 DEF OfDisc, OfWatch, Polled
  <2> QED BY <1>5, <1>6, <1>7, <2>3, <2>4 DEF Polled
<1>9. /\ z.stack = y.stack /\ z.ask = y.ask /\ z.dlg = y.dlg /\ v.open = y.open
      /\ z.disc = NoDisc /\ z.looked = NoDisc
      /\ z.kids = g.kids /\ z.pid = g.pid /\ z.pipe = g.pipe /\ OfText(z) = OfText(g)
      /\ z.qmode = g.qmode /\ z.loaded = g.loaded
  BY <1>3, <1>4, <1>5, <1>7 DEF OfShow, OfWatch, OfKids, OfList, OfDisc, Polled
<1>10. /\ n.kids = y.kids /\ n.pid = y.pid /\ n.pipe = y.pipe /\ OfText(n) = OfText(y)
       /\ n.qmode = y.qmode /\ n.loaded = y.loaded
  BY <1>3 DEF OfShow, OfWatch, OfKids, OfList, Polled
<1>11. IF y.open
         THEN /\ KidsCancelled(y, z) /\ z.pipe = 0 /\ z.info = <<>> /\ ~z.match
              /\ z.qmode = "NONE" /\ ~z.loaded
         ELSE /\ OfKids(z) = OfKids(y) /\ z.pipe = y.pipe /\ OfText(z) = OfText(y)
              /\ z.qmode = y.qmode /\ z.loaded = y.loaded
  <2>1. CASE y.open
    BY <1>1, <1>3, <1>4, <1>9, <1>10, <2>1 DEF KidsCancelled, OfText, Polled
  <2>2. CASE ~y.open
    BY <1>1, <1>3, <1>4, <1>9, <1>10, <2>2 DEF OfKids, Polled
  <2> QED BY <2>1, <2>2
<1> QED BY <1>7, <1>8, <1>9, <1>11, GoneInv

LEMMA DiscStaysInv ==
  ASSUME NEW y, NEW e, Inv(y, e), NEW by \in {"insert", "ready"},
         NEW v, Polled(y, v, by), v.disc # NoDisc,
         NEW t \in BOOLEAN, t <=> v.polling /\ by # "insert",
         NEW z, z = [v EXCEPT !.polling = t]
  PROVE  Inv(z, e)
<1>1. /\ y \in State /\ Held(y, "user", e) /\ v \in State
      /\ Frames(y.stack) /\ Live(y) /\ Shown(y) /\ Waits(y)
      /\ "helper" \notin e => AllGuarded(y)
      /\ "calm" \in e => Looked(y)
  BY InvHeld DEF Polled, Held, Typed
<1>2. /\ z \in State /\ z.polling = t /\ z.loaded = v.loaded
      /\ z.stack = v.stack /\ z.ask = v.ask
      /\ OfDisc(z) = OfDisc(v) /\ OfShow(z) = OfShow(v) /\ OfText(z) = OfText(v)
      /\ OfKids(z) = OfKids(v) /\ OfList(z) = OfList(v)
  BY <1>1, SetPolling
<1>3. /\ z.disc = y.disc /\ z.open = y.open /\ z.looked = y.looked
      /\ z.timer = v.timer /\ z.loaded = y.loaded /\ v.polling = y.polling
      /\ z.stack = y.stack /\ z.ask = y.ask /\ z.dlg = y.dlg /\ z.qmode = y.qmode
      /\ z.reload_btn = y.reload_btn /\ z.info = y.info /\ z.match = y.match
      /\ z.kids = y.kids /\ z.pid = y.pid /\ z.pipe = y.pipe
  BY <1>2 DEF Polled, OfDisc, OfWatch, OfShow, OfText, OfKids, OfList
<1>4. Typed(z) /\ Waits(z) /\ Shown(z)
  <2>1. Live(z)
    BY <1>1, <1>3 DEF Live, Running
  <2> QED BY <1>1, <1>2, <1>3, <2>1 DEF Typed, Waits, Able, Shown
<1>5. "helper" \notin e => One(z)
  BY <1>1, <1>3 DEF Held, One, Only, AllGuarded, Running, Chosen
<1>6. ASSUME "calm" \in e PROVE Watch(z, "user") /\ Looked(z)
  <2>1. Watch(y, "user")
    BY <1>1, <1>6 DEF Held
  <2>2. z.polling => y.polling /\ z.timer = y.timer
    BY <1>1, <1>2, <1>3, Fields DEF Polled
  <2> QED BY <1>1, <1>3, <1>6, <2>1, <2>2 DEF Watch, Looked, Polled
<1>7. ASSUME Calmed(e) PROVE Source(z) /\ Later(z)
  <2>1. Source(y) /\ Later(y)
    BY <1>7 DEF Inv
  <2>2. Text0(z)
    BY <1>3, <2>1 DEF Source, Text0
  <2> QED BY <1>1, <1>2, <1>3, <2>1, <2>2, SourceKept
<1> QED BY <1>4, <1>5, <1>6, <1>7 DEF Inv

LEMMA DiscNewInv ==
  ASSUME NEW y, NEW e, Inv(y, e), NEW by \in {"insert", "ready"},
         \E k \in Slot : y.kids[k].st = "free",
         NEW v, Polled(y, v, by), v.disc = NoDisc, v.drive # NoDisc,
         NEW z, z = IF v.loaded THEN Return(NewDisc(v), by)
                                ELSE DbGet(NewDisc(v), by)
  PROVE  Inv(z, e)
<1> DEFINE n == NewDisc(v)
<1>1. /\ y \in State /\ Held(y, "user", e) /\ v \in State
      /\ Frames(y.stack) /\ Live(y) /\ Shown(y) /\ Waits(y)
  BY InvHeld DEF Polled, Held, Typed
<1>2. /\ n \in State /\ n.open /\ n.disc = v.drive /\ n.looked = NoDisc
      /\ n.pid = 0 /\ n.kids = v.kids
      /\ n.timer = v.timer /\ n.stack = v.stack /\ n.ask = v.ask
      /\ OfWatch(n) = OfWatch(v) /\ OfShow(n) = OfShow(v) /\ OfText(n) = OfText(v)
      /\ OfList(n) = OfList(v)
  BY <1>1, NewDiscFacts
<1> HIDE DEF n
<1>3. /\ n.stack = y.stack /\ n.ask = y.ask /\ n.dlg = y.dlg /\ n.qmode = y.qmode
      /\ n.reload_btn = y.reload_btn /\ n.info = y.info /\ n.match = y.match
      /\ n.kids = y.kids /\ n.pipe = y.pipe /\ n.polling = y.polling
      /\ n.loaded = y.loaded /\ v.loaded = y.loaded /\ y.disc = NoDisc
      /\ n.disc # NoDisc
  BY <1>2 DEF Polled, OfWatch, OfShow, OfText, OfKids, OfList
<1>4. by \in Caller
  BY DEF Caller
<1>5. ASSUME "helper" \notin e, NEW k \in Slot PROVE ~Running(n, k)
  BY <1>1, <1>3, <1>5 DEF Held, Only, Running
<1>6. Typed(n) /\ Shown(n)
  <2>1. Live(n)
    BY <1>1, <1>2, <1>3 DEF Live, Running
  <2> QED BY <1>1, <1>2, <1>3, <2>1 DEF Typed, Shown
<1>7. CASE v.loaded
  <2>1. z = Return(n, by)
    BY <1>7 DEF n
  <2>2. /\ z \in State /\ OfDisc(z) = OfDisc(n) /\ OfShow(z) = OfShow(n)
        /\ OfText(z) = OfText(n) /\ OfKids(z) = OfKids(n)
        /\ OfList(z) = OfList(n) /\ z.stack = n.stack /\ z.ask = n.ask
    BY <1>2, <1>4, <2>1, ReturnFacts
  <2>3. /\ z.disc = n.disc /\ z.open = n.open /\ z.looked = n.looked /\ z.dlg = n.dlg /\ z.qmode = n.qmode
        /\ z.reload_btn = n.reload_btn /\ z.kids = n.kids /\ z.pid = n.pid
    BY <2>2 DEF OfDisc, OfShow, OfKids
  <2>4. "calm" \notin e
    BY <1>1, <1>3, <1>7 DEF Held, Watch
  <2>5. Typed(z) /\ Shown(z)
    <3>1. Live(z)
      BY <1>6, <2>3 DEF Typed, Live, Running
    <3> QED BY <1>6, <2>2, <2>3, <3>1 DEF Typed, Shown
  <2>6. Waits(z)
    BY <1>1, <1>2, <1>3, <2>2, <2>3 DEF Waits, Able
  <2>7. "helper" \notin e => One(z)
    BY <1>2, <1>5, <2>3 DEF One, Only, AllGuarded, Running
  <2> QED BY <2>4, <2>5, <2>6, <2>7 DEF Inv, Calmed
<1>8. CASE ~v.loaded
  <2>1. z = DbGet(n, by)
    BY <1>8 DEF n
  <2>2. "helper" \notin e => Only(n)
    BY <1>5 DEF Only
  <2>3. ASSUME "calm" \in e PROVE Watch(n, by)
    <3>1. Watch(y, "user")
      BY <1>1, <2>3 DEF Held
    <3>2. n.timer \/ by = "insert"
      BY <1>2, <1>3, <3>1 DEF Watch, Polled
    <3> QED BY <1>2, <1>3, <3>2 DEF Watch
  <2>4. ASSUME Calmed(e) PROVE Source(n) /\ Paused(n)
    <3>1. Source(y) /\ "helper" \notin e
      BY <1>1, <2>4 DEF Held, Calmed
    <3>2. y.info = <<>>
      <4>1. y.info \in Seq(Disc) /\ NoDisc \notin Disc
        BY <1>1, Fields, DiscAssumption
      <4>2. CASE y.info = <<y.disc>>
        <5>1. Len(y.info) = 1 /\ y.info[1] = NoDisc
          BY <1>3, <4>2
        <5> QED BY <4>1, <5>1
      <4> QED BY <3>1, <4>2 DEF Source, Text0
    <3>3. \A i \in 1..Len(n.stack) : n.stack[i].at \notin LoadAt
      BY <1>3, <3>1 DEF Source, Calls
    <3>4. Text0(n) /\ Children(n)
      BY <1>3, <1>5, <3>1, <3>2 DEF Source, Text0, Children
    <3>5. Calls(n) /\ Paused(n)
      BY <3>3 DEF Calls, Paused
    <3> QED BY <1>3, <3>1, <3>4, <3>5 DEF Source
  <2>5. Ready(n, by, e)
    BY <1>2, <1>6, <2>2, <2>3, <2>4 DEF Ready, Held
  <2>6. \E k \in Slot : n.kids[k].st = "free"
    BY <1>3
  <2> QED BY <1>4, <2>1, <2>5, <2>6, DbGetInv
<1> QED BY <1>7, <1>8

LEMMA DiscReadyInv ==
  ASSUME NEW y, NEW e, Inv(y, e), y.drive = NoDisc /\ "calm" \in e => y.stack = <<>>,
         \E k \in Slot : y.kids[k].st = "free",
         NEW by \in {"insert", "ready"}, NEW close \in BOOLEAN,
         NEW v, Polled(y, v, by), NEW z, z = DiscReady(v, by, close)
  PROVE  Inv(z, e)
<1>1. v \in State /\ v.drive = y.drive
  BY DEF Polled
<1>2. CASE v.drive = NoDisc
  BY <1>1, <1>2, DiscGoneInv
<1>3. CASE v.drive # NoDisc /\ v.disc # NoDisc
  <2> DEFINE t == v.polling /\ by # "insert"
  <2>1. z = [v EXCEPT !.polling = t]
    BY <1>3 DEF DiscReady
  <2>2. t \in BOOLEAN /\ (t <=> v.polling /\ by # "insert")
    OBVIOUS
  <2> HIDE DEF t
  <2> QED BY <1>3, <2>1, <2>2, DiscStaysInv
<1>4. CASE v.drive # NoDisc /\ v.disc = NoDisc
  <2>1. z = IF v.loaded THEN Return(NewDisc(v), by) ELSE DbGet(NewDisc(v), by)
    BY <1>4 DEF DiscReady, NewDisc
  <2> QED BY <1>4, <2>1, DiscNewInv
<1> QED BY <1>2, <1>3, <1>4

-----------------------------------------------------------------------------
(* The innermost call is a load: the others are over. *)
LEMMA TopLoad ==
  ASSUME NEW y, NEW e, Inv(y, e), y.stack # <<>>, y.stack[1].at \in LoadAt,
         NEW f, f = y.stack[1]
  PROVE  /\ f \in Frame /\ f.kid \in Slot /\ f.pid \in Slot /\ f.by \in Caller
         /\ "helper" \notin e => \A k \in Slot : Running(y, k) => k = f.pid
         /\ Calmed(e) =>
              /\ f.kid = f.pid /\ y.kids[f.kid].disc = y.disc /\ y.disc # NoDisc
              /\ y.kids[f.kid].st # "free"
              /\ \A k \in Slot : Running(y, k) => k = f.kid
              /\ RestOver(y)
<1>1. /\ y \in State /\ Frames(y.stack)
      /\ "helper" \notin e => AllGuarded(y)
  BY InvHeld
<1>2. y.stack \in Seq(Frame) /\ 1 \in 1..Len(y.stack) /\ f \in Frame
  BY <1>1, Fields, PopSeq
<1>3. f.kid \in Slot /\ f.pid \in Slot /\ f.by \in Caller
  BY <1>1, <1>2 DEF Frames, Frame
<1>4. "helper" \notin e => \A k \in Slot : Running(y, k) => k = f.pid
  BY <1>1, <1>2, PopStack DEF AllGuarded
<1>5. ASSUME Calmed(e)
      PROVE  /\ f.kid = f.pid /\ y.kids[f.kid].disc = y.disc /\ y.disc # NoDisc
             /\ y.kids[f.kid].st # "free"
             /\ \A k \in Slot : Running(y, k) => k = f.kid
             /\ RestOver(y)
  <2>1. Source(y) /\ Later(y) /\ "helper" \notin e
    BY <1>5 DEF Inv, Calmed
  <2>2. /\ f.kid = f.pid /\ y.kids[f.kid].disc = y.disc /\ y.disc # NoDisc
        /\ y.kids[f.kid].st # "free"
    BY <1>2, <2>1 DEF Source, Calls
  <2>3. RestOver(y)
    BY <2>1 DEF Later, RestOver, Over, LoadAt
  <2> QED BY <1>4, <2>1, <2>2, <2>3
<1> QED BY <1>2, <1>3, <1>4, <1>5

(* It is taken off the stack, and its child's list perhaps kept. *)
LEMMA PopBetween ==
  ASSUME NEW y, NEW e, Inv(y, e), y.stack # <<>>, y.stack[1].at \in LoadAt,
         NEW f, f = y.stack[1], NEW z \in State, z.stack = Tail(y.stack),
         z.kids = y.kids, z.pid \in {0, y.pid}, z.pipe \in {y.pipe, f.kid},
         "helper" \notin e /\ z.pid # y.pid => \A k \in Slot : ~Running(y, k),
         z.ask = y.ask, z.dlg = y.dlg, OfDisc(z) = OfDisc(y), OfWatch(z) = OfWatch(y),
         z.qmode = y.qmode, OfText(z) = OfText(y)
  PROVE  Between(z, f.by, e)
<1>1. /\ y \in State /\ Frames(y.stack) /\ Live(y) /\ Shown(y) /\ Held(y, "user", e)
      /\ "helper" \notin e => AllGuarded(y)
      /\ y.stack \in Seq(Frame)
  BY InvHeld, Fields DEF Held, Typed
<1>2. /\ f \in Frame /\ f.kid \in Slot /\ f.pid \in Slot /\ f.by \in Caller
      /\ Calmed(e) =>
           /\ f.kid = f.pid /\ y.kids[f.kid].disc = y.disc /\ y.disc # NoDisc
           /\ y.kids[f.kid].st # "free"
           /\ \A k \in Slot : Running(y, k) => k = f.kid
           /\ RestOver(y)
  BY TopLoad
<1>3. /\ Tail(y.stack) \in Seq(Frame)
      /\ \A i \in 1..Len(z.stack) :
           i + 1 \in 1..Len(y.stack) /\ i + 1 > 1 /\ z.stack[i] = y.stack[i + 1]
      /\ \A i \in 1..Len(y.stack) :
           i = 1 \/ (i - 1 \in 1..Len(z.stack) /\ z.stack[i - 1] = y.stack[i])
  BY <1>1, PopSeq
<1>4. /\ z.disc = y.disc /\ z.open = y.open /\ z.timer = y.timer
      /\ z.info = y.info /\ z.match = y.match
      /\ z.loaded = y.loaded /\ z.polling = y.polling
  BY DEF OfDisc, OfWatch, OfText
<1>5. \A k : Running(z, k) <=> Running(y, k)
  BY DEF Running
<1>6. Typed(z) /\ Shown(z)
  <2>1. Live(z)
    BY <1>1, <1>5 DEF Live
  <2>2. \A S : At(y.stack, S) /\ f.at \notin S => At(z.stack, S)
    BY <1>1, PopStack
  <2>3. Shown(z)
    <3>1. \A d \in y.dlg : f.at \notin {d}
      <4>1. y.dlg \subseteq Dialogs
        BY <1>1, Fields
      <4> QED BY <4>1 DEF Dialogs, LoadAt
    <3>2. f.at \notin {"ask"}
      BY DEF LoadAt
    <3> QED BY <1>1, <2>2, <3>1, <3>2 DEF Shown
  <2> QED BY <1>1, <2>1, <2>3, PopStack DEF Typed
<1>7. "helper" \notin e => Only(z) /\ (z.disc # NoDisc => z.open)
  BY <1>1, <1>4, <1>5 DEF Held, Only
<1>8. ASSUME "calm" \in e PROVE Watch(z, f.by)
  <2>1. Watch(y, "user") /\ 1 \in 1..Len(y.stack)
    BY <1>1, <1>8, PopSeq DEF Held
  <2>2. y.disc = NoDisc =>
          f.by = "user" /\ \A i \in 1..Len(z.stack) : z.stack[i].by = "user"
    BY <1>3, <2>1 DEF Watch
  <2>3. (\E i \in 1..Len(y.stack) : y.stack[i].by = "insert") =>
          f.by = "insert" \/ \E i \in 1..Len(z.stack) : z.stack[i].by = "insert"
    BY <1>3
  <2> QED BY <1>4, <2>1, <2>2, <2>3 DEF Watch
<1>9. ASSUME Calmed(e) PROVE Source(z) /\ AllOver(z)
  <2>1. Source(y) /\ RestOver(y)
    BY <1>1, <1>2, <1>9 DEF Held
  <2>2. \A g : Quiet(z, g) <=> Quiet(y, g)
    BY <1>5 DEF Quiet
  <2>3. AllOver(z)
    BY <1>3, <2>1, <2>2 DEF RestOver, AllOver, Over
  <2>4. Text0(z) /\ Children(z)
    BY <1>4, <1>5, <2>1 DEF Source, Text0, Children
  <2>5. Calls(z)
    <3> SUFFICES ASSUME NEW i \in 1..Len(z.stack), z.stack[i].at \in LoadAt,
                        NEW g, g = z.stack[i]
                 PROVE  /\ g.kid = g.pid /\ z.disc # NoDisc
                        /\ z.kids[g.kid].st # "free" /\ z.kids[g.kid].disc = z.disc
                        /\ g.at = "read" => z.info = <<>> \/ z.kids[g.kid].out # "match"
                        /\ g.kid = z.pipe => ~Running(z, g.kid)
      BY DEF Calls
    <3>1. i + 1 \in 1..Len(y.stack) /\ g = y.stack[i + 1]
      BY <1>3
    <3>2. /\ g.kid = g.pid /\ y.disc # NoDisc
          /\ y.kids[g.kid].st # "free" /\ y.kids[g.kid].disc = y.disc
          /\ g.at = "read" => y.info = <<>> \/ y.kids[g.kid].out # "match"
      BY <2>1, <3>1 DEF Source, Calls
    <3>3. ~Running(z, g.kid)
      BY <2>3 DEF AllOver, Over, Quiet
    <3> QED BY <1>4, <3>2, <3>3
  <2>6. z.pipe # 0 => z.kids[z.pipe].st # "free"
    BY <1>2, <1>9, <2>1 DEF Source
  <2> QED BY <2>3, <2>4, <2>5, <2>6 DEF Source
<1> QED BY <1>6, <1>7, <1>8, <1>9 DEF Between, Held

-----------------------------------------------------------------------------
(* The innermost call reads on. *)
SetTop(s, a) == [s EXCEPT ![1] = [s[1] EXCEPT !.at = a]]
LEMMA SetAt ==
  ASSUME NEW s \in Seq(Frame), s # <<>>, NEW a \in {"rest", "wait"},
         NEW t, t = SetTop(s, a)
  PROVE  /\ t \in Seq(Frame) /\ Len(t) = Len(s)
         /\ t[1] \in Frame /\ t[1].at = a /\ t[1].kid = s[1].kid
         /\ t[1].pid = s[1].pid /\ t[1].by = s[1].by
         /\ \A i \in 1..Len(s) : i = 1 \/ t[i] = s[i]
<1> DEFINE g == [s[1] EXCEPT !.at = a]
<1>1. s[1] \in Frame /\ 1 \in 1..Len(s)
  BY PopSeq
<1>2. /\ g \in Frame /\ g.at = a /\ g.kid = s[1].kid /\ g.pid = s[1].pid
      /\ g.by = s[1].by
  BY <1>1 DEF Frame
<1>3. t = [s EXCEPT ![1] = g]
  BY DEF SetTop
<1> HIDE DEF g, Frame
<1>4. /\ t \in Seq(Frame) /\ Len(t) = Len(s) /\ t[1] = g
      /\ \A i \in 1..Len(s) : i = 1 \/ t[i] = s[i]
  BY <1>1, <1>2, <1>3
<1> QED BY <1>2, <1>4

Moved(y, a) == [y EXCEPT !.stack[1].at = a]
LEMMA MovedFacts ==
  ASSUME NEW y \in State, y.stack # <<>>, NEW a \in {"rest", "wait"},
         NEW z, z = Moved(y, a)
  PROVE  /\ z \in State /\ Len(z.stack) = Len(y.stack)
         /\ z.stack[1].at = a /\ z.stack[1].kid = y.stack[1].kid
         /\ z.stack[1].pid = y.stack[1].pid /\ z.stack[1].by = y.stack[1].by
         /\ \A i \in 1..Len(y.stack) : i = 1 \/ z.stack[i] = y.stack[i]
         /\ OfDisc(z) = OfDisc(y) /\ OfWatch(z) = OfWatch(y)
         /\ OfShow(z) = OfShow(y) /\ OfText(z) = OfText(y)
         /\ OfKids(z) = OfKids(y) /\ OfList(z) = OfList(y) /\ z.ask = y.ask
<1> DEFINE t == SetTop(y.stack, a)
<1>1. y.stack \in Seq(Frame)
  BY Fields
<1>2. /\ t \in Seq(Frame) /\ Len(t) = Len(y.stack)
      /\ t[1].at = a /\ t[1].kid = y.stack[1].kid
      /\ t[1].pid = y.stack[1].pid /\ t[1].by = y.stack[1].by
      /\ \A i \in 1..Len(y.stack) : i = 1 \/ t[i] = y.stack[i]
  BY <1>1, SetAt
<1>3. z = [y EXCEPT !.stack = t]
  BY DEF Moved, SetTop
<1> HIDE DEF t
<1>4. z \in State /\ z.stack = t
  BY ZenonT(60), <1>2, <1>3 DEF State
<1>5. /\ OfDisc(z) = OfDisc(y) /\ OfWatch(z) = OfWatch(y)
      /\ OfShow(z) = OfShow(y) /\ OfText(z) = OfText(y)
      /\ OfKids(z) = OfKids(y) /\ OfList(z) = OfList(y) /\ z.ask = y.ask
  BY <1>3 DEF State, OfDisc, OfWatch, OfShow, OfText, OfKids, OfList
<1> QED BY <1>2, <1>4, <1>5

LEMMA TopInv ==
  ASSUME NEW y, NEW e, Inv(y, e), y.stack # <<>>,
         NEW f, f = y.stack[1], f.at \in LoadAt,
         NEW z \in State, Len(z.stack) = Len(y.stack), z.stack[1].at \in LoadAt,
         z.stack[1].kid = f.kid, z.stack[1].pid = f.pid, z.stack[1].by = f.by,
         \A i \in 1..Len(y.stack) : i = 1 \/ z.stack[i] = y.stack[i],
         \A k \in Slot :
           /\ z.kids[k].st = y.kids[k].st /\ z.kids[k].disc = y.kids[k].disc
           /\ z.kids[k].out \in {"empty", y.kids[k].out},
         z.pid = y.pid, z.pipe = y.pipe, z.ask = y.ask, OfDisc(z) = OfDisc(y),
         OfWatch(z) = OfWatch(y), OfShow(z) = OfShow(y),
         Calmed(e) =>
           /\ Text0(z)
           /\ z.info = <<>> \/ y.info # <<>> \/ \A k \in Slot : ~Running(y, k)
           /\ z.stack[1].at = "read" => z.info = <<>> \/ z.kids[f.kid].out # "match"
  PROVE  Inv(z, e)
<1>1. /\ y \in State /\ Frames(y.stack) /\ Live(y) /\ Shown(y) /\ Held(y, "user", e)
      /\ Waits(y) /\ ("helper" \notin e => AllGuarded(y))
      /\ ("calm" \in e => Looked(y))
  BY InvHeld DEF Held, Typed
<1>2. /\ y.stack \in Seq(Frame) /\ z.stack \in Seq(Frame) /\ y.pid \in {0} \cup Slot
      /\ 1 \in 1..Len(y.stack) /\ y.pipe \in {0} \cup Slot /\ 0 \notin Slot
  BY <1>1, Fields, PopSeq
<1>3. /\ f \in Frame /\ f.kid \in Slot /\ f.pid \in Slot /\ f.by \in Caller
      /\ Calmed(e) =>
           /\ f.kid = f.pid /\ y.kids[f.kid].disc = y.disc /\ y.disc # NoDisc
           /\ y.kids[f.kid].st # "free"
           /\ \A k \in Slot : Running(y, k) => k = f.kid
           /\ RestOver(y)
  BY TopLoad
<1>4. /\ z.disc = y.disc /\ z.open = y.open /\ z.timer = y.timer
      /\ z.looked = y.looked /\ z.dlg = y.dlg /\ z.qmode = y.qmode
      /\ z.reload_btn = y.reload_btn
      /\ z.loaded = y.loaded /\ z.polling = y.polling
  BY DEF OfDisc, OfWatch, OfShow
<1>5. \A k \in Slot : Running(z, k) <=> Running(y, k)
  BY DEF Running
<1>6. \A i \in 1..Len(y.stack) : i = 1 \/ z.stack[i] = y.stack[i]
  OBVIOUS
<1>7. \A S : At(y.stack, S) /\ (f.at \in S => LoadAt \subseteq S) => At(z.stack, S)
  BY <1>2, <1>6 DEF At
<1>8. Typed(z)
  <2>1. Live(z)
    BY <1>1, <1>2, <1>5 DEF Live
  <2>2. Frames(z.stack)
    <3> SUFFICES ASSUME NEW i \in 1..Len(y.stack)
                 PROVE  /\ z.stack[i].at \in LoadAt =>
                             z.stack[i].kid # 0 /\ z.stack[i].pid # 0
                        /\ z.stack[i].at = "ask" => z.stack[i].by = "user"
      BY DEF Frames
    <3>1. CASE i = 1
      BY <1>2, <1>3, <3>1 DEF LoadAt
    <3>2. CASE i # 1
      BY <1>1, <1>6, <3>2 DEF Frames
    <3> QED BY <3>1, <3>2
  <2> QED BY <2>1, <2>2 DEF Typed
<1>9. Shown(z) /\ Waits(z)
  <2>1. y.dlg \subseteq Dialogs
    BY <1>1, Fields
  <2>2. \A d \in y.dlg : f.at \notin {d}
    BY <2>1 DEF Dialogs, LoadAt
  <2>3. f.at \notin {"ask"}
    BY DEF LoadAt
  <2>4. Shown(z)
    BY <1>1, <1>4, <1>7, <2>2, <2>3 DEF Shown
  <2>5. At(z.stack, LoadAt) /\ At(z.stack, LoadAt \cup {"reg"})
    BY <1>2 DEF At
  <2> QED BY <2>4, <1>1, <1>4, <2>5 DEF Waits
<1>10. ASSUME "helper" \notin e PROVE One(z)
  <2>1. ASSUME NEW k \in Slot, Running(z, k)
        PROVE  Guarded(z.stack, k, Chosen(z))
    <3>1. k = f.pid
      <4>1. Guarded(y.stack, k, Chosen(y))
        BY <1>1, <1>5, <1>10, <2>1 DEF AllGuarded
      <4> QED BY <1>2, <4>1, PopStack
    <3>2. \A j \in 1..(1 - 1) : FALSE
      OBVIOUS
    <3> QED BY <1>2, <3>1, <3>2 DEF Guarded
  <2>2. Only(z) /\ (z.disc # NoDisc => z.open)
    BY <1>1, <1>4, <1>5, <1>10 DEF Held, Only
  <2> QED BY <2>1, <2>2 DEF One, AllGuarded
<1>11. ASSUME "calm" \in e PROVE Watch(z, "user") /\ Looked(z)
  <2>1. \A i \in 1..Len(y.stack) : z.stack[i].by = y.stack[i].by
    BY <1>6
  <2> QED BY <1>1, <1>4, <1>11, <2>1 DEF Held, Watch, Looked
<1>12. ASSUME Calmed(e) PROVE Source(z) /\ Later(z)
  <2>1. Source(y) /\ RestOver(y)
    BY <1>1, <1>3, <1>12 DEF Held
  <2>2. ASSUME NEW i \in 1..Len(y.stack), i # 1, y.stack[i].at \in LoadAt
        PROVE  /\ y.stack[i].kid \in Slot /\ z.stack[i] = y.stack[i]
               /\ y.stack[i].at # "rest" /\ Quiet(y, y.stack[i])
               /\ Quiet(z, z.stack[i])
    <3>1. i > 1
      BY <1>2, <2>2
    <3>2. y.stack[i].at # "rest" /\ Quiet(y, y.stack[i])
      BY <2>1, <2>2, <3>1 DEF RestOver, Over
    <3>3. y.stack[i] \in Frame
      BY <1>2
    <3>4. y.stack[i].kid \in Slot
      BY <1>1, <2>2, <3>3 DEF Frames, Frame
    <3> QED BY <1>5, <1>6, <2>2, <3>2, <3>4 DEF Quiet
  <2>3. Children(z)
    BY <1>4, <1>5, <1>12, <2>1 DEF Source, Children
  <2>4. z.pipe # 0 => z.kids[z.pipe].st # "free"
    BY <1>2, <2>1 DEF Source
  <2>5. Calls(z)
    <3> SUFFICES ASSUME NEW i \in 1..Len(y.stack), z.stack[i].at \in LoadAt,
                        NEW g, g = z.stack[i]
                 PROVE  /\ g.kid = g.pid /\ z.disc # NoDisc
                        /\ z.kids[g.kid].st # "free" /\ z.kids[g.kid].disc = z.disc
                        /\ g.at = "read" => z.info = <<>> \/ z.kids[g.kid].out # "match"
                        /\ g.kid = z.pipe => ~Running(z, g.kid)
      BY DEF Calls
    <3>1. CASE i = 1
      <4>1. f.kid = y.pipe => ~Running(y, f.kid)
        BY <1>2, <2>1 DEF Source, Calls
      <4> QED BY <1>3, <1>4, <1>5, <1>12, <3>1, <4>1
    <3>2. CASE i # 1
      <4>1. /\ y.stack[i].kid \in Slot /\ g = y.stack[i] /\ g.at # "rest"
            /\ Quiet(z, g)
        BY <1>6, <2>2, <3>2
      <4>2. /\ g.kid = g.pid /\ y.disc # NoDisc
            /\ y.kids[g.kid].st # "free" /\ y.kids[g.kid].disc = y.disc
        BY <2>1, <4>1 DEF Source, Calls
      <4> QED BY <1>4, <1>5, <4>1, <4>2 DEF Quiet
    <3> QED BY <3>1, <3>2
  <2>6. Later(z)
    BY <1>2, <1>6, <2>2 DEF Later
  <2> QED BY <1>12, <2>3, <2>4, <2>5, <2>6 DEF Source
<1> QED BY <1>8, <1>9, <1>10, <1>11, <1>12 DEF Inv

(* The list is shown, or the child's end is waited for. *)
Listed(p, k) == [p EXCEPT !.tag = 0, !.pipe = k]
LEMMA ListedFacts ==
  ASSUME NEW p \in State, NEW k \in Slot, NEW z, z = Listed(p, k)
  PROVE  /\ z \in State /\ z.pipe = k /\ z.list = p.list
         /\ OfDisc(z) = OfDisc(p) /\ OfWatch(z) = OfWatch(p)
         /\ OfShow(z) = OfShow(p) /\ OfText(z) = OfText(p)
         /\ OfKids(z) = OfKids(p) /\ z.stack = p.stack /\ z.ask = p.ask
BY DEF Listed, State, OfDisc, OfWatch, OfShow, OfText, OfKids

LEMMA EndReadInv ==
  ASSUME NEW y, NEW e, Inv(y, e), y.stack # <<>>, y.stack[1].at \in LoadAt,
         NEW single \in BOOLEAN, NEW z, z = EndRead(y, single)
  PROVE  Inv(z, e)
<1> DEFINE f == y.stack[1]
           p == Pop(y)
           m == Listed(p, f.kid)
           w == Moved(y, "wait")
<1>1. /\ y \in State /\ ("calm" \in e => Looked(y))
      /\ y.stack \in Seq(Frame) /\ 1 \in 1..Len(y.stack)
  BY InvHeld, Fields, PopSeq
<1>2. f \in Frame /\ f.kid \in Slot /\ f.pid \in Slot /\ f.by \in Caller
  BY TopLoad
<1>3. z = IF ~f.sel /\ y.list # 0 THEN Finish(m, "ok", f.by, single) ELSE w
  BY DEF EndRead, Listed, Moved
<1>4. CASE ~f.sel /\ y.list # 0
  <2>1. z = Finish(m, "ok", f.by, single)
    BY <1>3, <1>4
  <2>2. /\ p \in State /\ p.stack = Tail(y.stack) /\ p.ask = y.ask
        /\ OfDisc(p) = OfDisc(y) /\ OfWatch(p) = OfWatch(y)
        /\ OfShow(p) = OfShow(y) /\ OfText(p) = OfText(y)
        /\ OfKids(p) = OfKids(y) /\ OfList(p) = OfList(y)
    BY <1>1, PopFacts
  <2> HIDE DEF p
  <2>3. /\ m \in State /\ m.pipe = f.kid /\ m.list = p.list
        /\ OfDisc(m) = OfDisc(p) /\ OfWatch(m) = OfWatch(p)
        /\ OfShow(m) = OfShow(p) /\ OfText(m) = OfText(p)
        /\ OfKids(m) = OfKids(p) /\ m.stack = p.stack /\ m.ask = p.ask
    BY <1>2, <2>2, ListedFacts
  <2> HIDE DEF m
  <2>4. /\ m.kids = y.kids /\ m.pid = y.pid /\ m.dlg = y.dlg /\ m.qmode = y.qmode
        /\ m.list = y.list /\ m.disc = y.disc /\ m.looked = y.looked
    BY <2>2, <2>3 DEF OfKids, OfShow, OfList, OfDisc
  <2>5. Between(m, f.by, e)
    BY <2>2, <2>3, <2>4, PopBetween
  <2>6. "calm" \in e => Looked(m)
    BY <1>1, <2>4 DEF Looked
  <2>7. m.list # 0 /\ m.pipe # 0
    BY <1>2, <1>4, <2>3, <2>4 DEF Slot
  <2> HIDE DEF f
  <2> QED BY <1>2, <2>1, <2>5, <2>6, <2>7, FinishInv
<1>5. CASE ~(~f.sel /\ y.list # 0)
  <2>1. z = w
    BY <1>3, <1>5
  <2>2. /\ w \in State /\ Len(w.stack) = Len(y.stack)
        /\ w.stack[1].at = "wait" /\ w.stack[1].kid = y.stack[1].kid
        /\ w.stack[1].pid = y.stack[1].pid /\ w.stack[1].by = y.stack[1].by
        /\ \A i \in 1..Len(y.stack) : i = 1 \/ w.stack[i] = y.stack[i]
        /\ OfDisc(w) = OfDisc(y) /\ OfWatch(w) = OfWatch(y)
        /\ OfShow(w) = OfShow(y) /\ OfText(w) = OfText(y)
        /\ OfKids(w) = OfKids(y) /\ OfList(w) = OfList(y) /\ w.ask = y.ask
    BY <1>1, MovedFacts
  <2> HIDE DEF w
  <2>3. /\ w.kids = y.kids /\ w.pid = y.pid /\ w.pipe = y.pipe /\ w.info = y.info
        /\ w.match = y.match /\ w.qmode = y.qmode /\ w.disc = y.disc
    BY <2>2 DEF OfKids, OfList, OfText, OfShow, OfDisc
  <2>4. Calmed(e) => Text0(w)
    BY <2>3 DEF Inv, Source, Text0
  <2>5. w.stack[1].at \in LoadAt /\ w.stack[1].at # "read"
    BY <2>2 DEF LoadAt
  <2>6. w.info = <<>> \/ y.info # <<>> \/ \A k \in Slot : ~Running(y, k)
    BY <2>3
  <2>7. Inv(w, e)
    BY <2>2, <2>3, <2>4, <2>5, <2>6, TopInv
  <2> QED BY <2>1, <2>7
<1> QED BY <1>4, <1>5

(* What is read from the pipe. *)
LEMMA ConsumedFacts ==
  ASSUME NEW y \in State, y.stack[1].kid \in Slot, NEW z, z = Consumed(y)
  PROVE  /\ z \in State /\ z.pid = y.pid
         /\ z.kids[y.stack[1].kid].out = "empty"
         /\ \A k \in Slot : /\ z.kids[k].st = y.kids[k].st
                            /\ z.kids[k].disc = y.kids[k].disc
                            /\ z.kids[k].out \in {"empty", y.kids[k].out}
         /\ OfDisc(z) = OfDisc(y) /\ OfWatch(z) = OfWatch(y)
         /\ OfShow(z) = OfShow(y) /\ OfText(z) = OfText(y)
         /\ OfList(z) = OfList(y) /\ z.stack = y.stack /\ z.ask = y.ask
<1> DEFINE c == y.stack[1].kid
           m == [y.kids[c] EXCEPT !.out = "empty"]
           K == [y.kids EXCEPT ![c] = m]
<1>1. y.kids \in [Slot -> Kid] /\ c \in Slot /\ y.kids[c] \in Kid
  BY Fields
<1>2. z = [y EXCEPT !.kids = K]
  BY DEF Consumed
<1> HIDE DEF c
<1>3. /\ m \in Kid /\ m.out = "empty" /\ m.st = y.kids[c].st
      /\ m.disc = y.kids[c].disc
  BY <1>1 DEF Kid
<1> HIDE DEF m
<1>4. K \in [Slot -> Kid] /\ K[c] = m /\ \A k \in Slot : k # c => K[k] = y.kids[k]
  BY <1>1, <1>3
<1> HIDE DEF K
<1>5. z \in State /\ z.kids = K /\ z.pid = y.pid
  BY ZenonT(60), <1>2, <1>4 DEF State
<1>6. /\ OfDisc(z) = OfDisc(y) /\ OfWatch(z) = OfWatch(y)
      /\ OfShow(z) = OfShow(y) /\ OfText(z) = OfText(y)
      /\ OfList(z) = OfList(y) /\ z.stack = y.stack /\ z.ask = y.ask
  BY <1>2 DEF State, OfDisc, OfWatch, OfShow, OfText, OfList
<1> QED BY <1>1, <1>3, <1>4, <1>5, <1>6 DEF c

LEMMA TextFacts ==
  ASSUME NEW y \in State, Live(y), NEW c, c = y.stack[1].kid, c \in Slot,
         NEW first \in BOOLEAN, NEW z, z = Text(y, first)
  PROVE  /\ z \in State
         /\ IF y.kids[c].out = "match" /\ (first \/ y.info = <<>>)
              THEN z.info = Append(y.info, y.kids[c].disc) ELSE z.info = y.info
         /\ z.match = y.match /\ z.needreg = y.needreg
         /\ OfDisc(z) = OfDisc(y) /\ OfWatch(z) = OfWatch(y)
         /\ OfShow(z) = OfShow(y) /\ OfKids(z) = OfKids(y)
         /\ OfList(z) = OfList(y) /\ z.stack = y.stack /\ z.ask = y.ask
<1> DEFINE i == IF y.kids[c].out = "match" /\ (first \/ y.info = <<>>)
                  THEN Append(y.info, y.kids[c].disc) ELSE y.info
<1>1. y.info \in Seq(Disc)
  BY Fields
<1>2. y.kids[c].out # "empty" => y.kids[c].disc \in Disc
  BY DEF Live
<1>3. i \in Seq(Disc)
  BY <1>1, <1>2
<1>4. z = [y EXCEPT !.info = i]
  BY DEF Text
<1>5. IF y.kids[c].out = "match" /\ (first \/ y.info = <<>>)
        THEN i = Append(y.info, y.kids[c].disc) ELSE i = y.info
  OBVIOUS
<1> HIDE DEF i
<1>6. z \in State /\ z.info = i /\ z.match = y.match /\ z.needreg = y.needreg
  BY ZenonT(60), <1>3, <1>4 DEF State
<1>7. /\ OfDisc(z) = OfDisc(y) /\ OfWatch(z) = OfWatch(y)
      /\ OfShow(z) = OfShow(y) /\ OfKids(z) = OfKids(y)
      /\ OfList(z) = OfList(y) /\ z.stack = y.stack /\ z.ask = y.ask
  BY <1>4 DEF State, OfDisc, OfWatch, OfShow, OfKids, OfList
<1> QED BY <1>5, <1>6, <1>7

LEMMA ReadPipeInv ==
  ASSUME NEW y, NEW e, Inv(y, e), y.stack # <<>>, y.stack[1].at = "read",
         NEW single \in BOOLEAN, NEW z, z = ReadPipe(y, single)
  PROVE  Inv(z, e)
<1> DEFINE f == y.stack[1]
           c == y.stack[1].kid
<1>1. /\ y \in State /\ Live(y) /\ f.at \in LoadAt
      /\ y.stack \in Seq(Frame) /\ 1 \in 1..Len(y.stack)
  BY InvHeld, Fields, PopSeq DEF LoadAt, Held, Typed
<1>2. /\ f \in Frame /\ c \in Slot
      /\ Calmed(e) =>
           /\ y.kids[c].disc = y.disc /\ \A k \in Slot : Running(y, k) => k = c
  BY <1>1, TopLoad
<1>3. CASE y.kids[c].out = "empty"
  <2>1. z = EndRead(y, single)
    BY <1>3 DEF ReadPipe
  <2> QED BY <1>1, <2>1, EndReadInv
<1>4. CASE y.kids[c].out = "list"
  <2> DEFINE w == Consumed(y)
             b == FALSE
             l == [w EXCEPT !.list = c]
             m == [l EXCEPT !.match = b]
  <2>1. z = EndRead(m, single)
    BY <1>4 DEF ReadPipe
  <2> HIDE DEF c
  <2>2. /\ w \in State /\ w.pid = y.pid /\ w.kids[c].out = "empty"
        /\ \A k \in Slot : /\ w.kids[k].st = y.kids[k].st
                           /\ w.kids[k].disc = y.kids[k].disc
                           /\ w.kids[k].out \in {"empty", y.kids[k].out}
        /\ OfDisc(w) = OfDisc(y) /\ OfWatch(w) = OfWatch(y)
        /\ OfShow(w) = OfShow(y) /\ OfText(w) = OfText(y)
        /\ OfList(w) = OfList(y) /\ w.stack = y.stack /\ w.ask = y.ask
    BY <1>1, <1>2, ConsumedFacts DEF c
  <2> HIDE DEF w
  <2>3. /\ l \in State /\ l.pipe = w.pipe /\ l.info = w.info
        /\ OfDisc(l) = OfDisc(w) /\ OfWatch(l) = OfWatch(w) /\ OfShow(l) = OfShow(w)
        /\ OfKids(l) = OfKids(w) /\ l.stack = w.stack /\ l.ask = w.ask
    BY <1>2, <2>2 DEF State, OfDisc, OfWatch, OfShow, OfKids
  <2> HIDE DEF l
  <2>4. b \in BOOLEAN /\ ~b
    OBVIOUS
  <2> HIDE DEF b
  <2>5. /\ m \in State /\ m.match = b /\ m.pipe = l.pipe /\ m.info = l.info
        /\ OfDisc(m) = OfDisc(l) /\ OfWatch(m) = OfWatch(l) /\ OfShow(m) = OfShow(l)
        /\ OfKids(m) = OfKids(l) /\ m.stack = l.stack /\ m.ask = l.ask
    BY <2>3, <2>4 DEF State, OfDisc, OfWatch, OfShow, OfKids
  <2> HIDE DEF m
  <2>6. /\ m.kids = w.kids /\ m.pid = y.pid /\ m.pipe = y.pipe /\ m.info = y.info
        /\ m.qmode = y.qmode /\ m.disc = y.disc
    BY <2>2, <2>3, <2>5 DEF OfKids, OfList, OfText, OfShow, OfDisc
  <2>7. Calmed(e) => Text0(m)
    BY <2>4, <2>5, <2>6 DEF Inv, Source, Text0
  <2>8. m.info = <<>> \/ y.info # <<>> \/ \A k \in Slot : ~Running(y, k)
    BY <2>6
  <2>9. m.kids[f.kid].out # "match"
    BY <2>2, <2>6 DEF c
  <2>10. Inv(m, e) /\ m.stack = y.stack
    BY <1>1, <2>2, <2>3, <2>5, <2>6, <2>7, <2>8, <2>9, TopInv
  <2> QED BY <1>1, <2>1, <2>10, EndReadInv
<1>5. CASE y.kids[c].out \notin {"empty", "list"}
  <2>0. PICK t \in BOOLEAN : t = TRUE
    OBVIOUS
  <2> DEFINE w == Text(y, t)
             b == y.kids[c].out = "match"
             d == y.kids[c].out = "reg"
             l == [w EXCEPT !.match = b]
             m == [l EXCEPT !.needreg = d]
  <2>1. z = Moved(m, "rest")
    BY <1>5, <2>0 DEF ReadPipe, Moved
  <2>3. /\ w \in State
        /\ IF y.kids[c].out = "match" /\ (t \/ y.info = <<>>)
             THEN w.info = Append(y.info, y.kids[c].disc) ELSE w.info = y.info
        /\ w.match = y.match /\ w.needreg = y.needreg
        /\ OfDisc(w) = OfDisc(y) /\ OfWatch(w) = OfWatch(y)
        /\ OfShow(w) = OfShow(y) /\ OfKids(w) = OfKids(y)
        /\ OfList(w) = OfList(y) /\ w.stack = y.stack /\ w.ask = y.ask
    BY <1>1, <1>2, TextFacts
  <2>4. b \in BOOLEAN /\ d \in BOOLEAN /\ (b <=> y.kids[c].out = "match")
    OBVIOUS
  <2> HIDE DEF w, b, d, c
  <2>5. /\ l \in State /\ l.match = b /\ l.info = w.info
        /\ OfDisc(l) = OfDisc(w) /\ OfWatch(l) = OfWatch(w) /\ OfShow(l) = OfShow(w)
        /\ OfKids(l) = OfKids(w) /\ OfList(l) = OfList(w)
        /\ l.stack = w.stack /\ l.ask = w.ask
    BY SMTT(40), <2>3, <2>4 DEF State, OfDisc, OfWatch, OfShow, OfKids, OfList
  <2> HIDE DEF l
  <2>6. /\ m \in State /\ m.match = b /\ m.info = l.info
        /\ OfDisc(m) = OfDisc(l) /\ OfWatch(m) = OfWatch(l) /\ OfShow(m) = OfShow(l)
        /\ OfKids(m) = OfKids(l) /\ OfList(m) = OfList(l)
        /\ m.stack = l.stack /\ m.ask = l.ask
    BY <2>4, <2>5 DEF State, OfDisc, OfWatch, OfShow, OfKids, OfList
  <2> HIDE DEF m
  <2>7. m.stack = y.stack
    BY <2>3, <2>5, <2>6
  <2>8. /\ z \in State /\ Len(z.stack) = Len(m.stack)
        /\ z.stack[1].at = "rest" /\ z.stack[1].kid = m.stack[1].kid
        /\ z.stack[1].pid = m.stack[1].pid /\ z.stack[1].by = m.stack[1].by
        /\ \A i \in 1..Len(m.stack) : i = 1 \/ z.stack[i] = m.stack[i]
        /\ OfDisc(z) = OfDisc(m) /\ OfWatch(z) = OfWatch(m)
        /\ OfShow(z) = OfShow(m) /\ OfText(z) = OfText(m)
        /\ OfKids(z) = OfKids(m) /\ OfList(z) = OfList(m) /\ z.ask = m.ask
    BY <2>1, <2>6, <2>7, MovedFacts
  <2>9. /\ z.kids = y.kids /\ z.pid = y.pid /\ z.pipe = y.pipe /\ z.info = w.info
        /\ z.qmode = y.qmode /\ z.disc = y.disc /\ z.match = b
    BY <2>3, <2>5, <2>6, <2>8 DEF OfKids, OfList, OfText, OfShow, OfDisc
  <2>10. ASSUME Calmed(e)
         PROVE  /\ Text0(z)
                /\ z.info = <<>> \/ y.info # <<>> \/ \A k \in Slot : ~Running(y, k)
    <3>1. Text0(y) /\ Calls(y) /\ Children(y)
      BY <2>10 DEF Inv, Source
    <3>2. CASE y.kids[c].out = "match"
      <4>1. y.info = <<>>
        BY <1>1, <3>1, <3>2 DEF Calls, c
      <4>2. z.info = <<y.disc>>
        BY <1>2, <2>0, <2>3, <2>9, <2>10, <3>2, <4>1
      <4>3. y.kids[c].st = "done"
        BY <1>2, <3>1, <3>2 DEF Children
      <4>4. \A k \in Slot : ~Running(y, k)
        BY <1>2, <2>10, <4>3 DEF Running
      <4>5. z.info # <<>>
        BY <4>2
      <4> QED BY <2>9, <4>2, <4>4, <4>5 DEF Text0
    <3>3. CASE y.kids[c].out # "match"
      BY <2>3, <2>4, <2>9, <3>1, <3>3 DEF Text0
    <3> QED BY <3>2, <3>3
  <2>11. z.stack[1].at \in LoadAt /\ z.stack[1].at # "read"
    BY <2>8 DEF LoadAt
  <2>12. /\ OfDisc(z) = OfDisc(y) /\ OfWatch(z) = OfWatch(y) /\ OfShow(z) = OfShow(y)
         /\ z.ask = y.ask
    BY <2>3, <2>5, <2>6, <2>8
  <2> QED BY <1>1, <2>7, <2>8, <2>9, <2>10, <2>11, <2>12, TopInv
<1> QED BY <1>3, <1>4, <1>5

LEMMA ReadRestInv ==
  ASSUME NEW y, NEW e, Inv(y, e), y.stack # <<>>, y.stack[1].at = "rest",
         NEW single \in BOOLEAN, NEW z, z = ReadRest(y, single)
  PROVE  Inv(z, e)
<1> DEFINE f == y.stack[1]
           c == y.stack[1].kid
           b == FALSE
           w == Text(y, b)
           m == Consumed(w)
<1>1. /\ y \in State /\ Live(y) /\ f.at \in LoadAt
      /\ y.stack \in Seq(Frame) /\ 1 \in 1..Len(y.stack)
  BY InvHeld, Fields, PopSeq DEF LoadAt, Held, Typed
<1>2. /\ f \in Frame /\ c \in Slot
      /\ Calmed(e) =>
           /\ y.kids[c].disc = y.disc /\ \A k \in Slot : Running(y, k) => k = c
  BY <1>1, TopLoad
<1>3. z = EndRead(m, single)
  BY DEF ReadRest
<1>4. b \in BOOLEAN /\ ~b
  OBVIOUS
<1> HIDE DEF b
<1>5. /\ w \in State
      /\ IF y.kids[c].out = "match" /\ (b \/ y.info = <<>>)
           THEN w.info = Append(y.info, y.kids[c].disc) ELSE w.info = y.info
      /\ w.match = y.match
      /\ OfDisc(w) = OfDisc(y) /\ OfWatch(w) = OfWatch(y)
      /\ OfShow(w) = OfShow(y) /\ OfKids(w) = OfKids(y)
      /\ OfList(w) = OfList(y) /\ w.stack = y.stack /\ w.ask = y.ask
  BY <1>1, <1>2, <1>4, TextFacts
<1> HIDE DEF w
<1>6. /\ m \in State /\ m.pid = w.pid /\ m.kids[w.stack[1].kid].out = "empty"
      /\ \A k \in Slot : /\ m.kids[k].st = w.kids[k].st
                         /\ m.kids[k].disc = w.kids[k].disc
                         /\ m.kids[k].out \in {"empty", w.kids[k].out}
      /\ OfDisc(m) = OfDisc(w) /\ OfWatch(m) = OfWatch(w)
      /\ OfShow(m) = OfShow(w) /\ OfText(m) = OfText(w)
      /\ OfList(m) = OfList(w) /\ m.stack = w.stack /\ m.ask = w.ask
  BY <1>2, <1>5, ConsumedFacts
<1> HIDE DEF m, c
<1>7. /\ w.kids = y.kids /\ m.pid = y.pid /\ m.pipe = y.pipe /\ m.info = w.info
      /\ m.match = y.match /\ m.qmode = y.qmode /\ m.disc = y.disc
      /\ m.stack = y.stack
  BY <1>5, <1>6 DEF OfKids, OfList, OfText, OfShow, OfDisc
<1>8. ASSUME Calmed(e)
      PROVE  /\ Text0(m)
             /\ m.info = <<>> \/ y.info # <<>> \/ \A k \in Slot : ~Running(y, k)
  <2>1. Text0(y) /\ Children(y)
    BY <1>8 DEF Inv, Source
  <2>2. CASE y.kids[c].out = "match" /\ y.info = <<>>
    <3>1. m.info = <<y.disc>>
      BY <1>2, <1>5, <1>7, <1>8, <2>2
    <3>2. y.kids[c].st = "done"
      BY <1>2, <2>1, <2>2 DEF Children
    <3>3. \A k \in Slot : ~Running(y, k)
      BY <1>2, <1>8, <3>2 DEF Running
    <3>4. m.info # <<>>
      BY <3>1
    <3> QED BY <1>7, <3>1, <3>3, <3>4 DEF Text0
  <2>3. CASE ~(y.kids[c].out = "match" /\ y.info = <<>>)
    BY <1>4, <1>5, <1>7, <2>1, <2>3 DEF Text0
  <2> QED BY <2>2, <2>3
<1>9. m.kids[f.kid].out # "match"
  BY <1>5, <1>6
<1>10. Inv(m, e)
  BY <1>1, <1>5, <1>6, <1>7, <1>8, <1>9, TopInv
<1> QED BY <1>1, <1>3, <1>7, <1>10, EndReadInv

(* The child whose end is waited for has ended. *)
WithoutPid(p) == [p EXCEPT !.pid = 0]
LEMMA WithoutPidFacts ==
  ASSUME NEW p \in State, NEW z, z = WithoutPid(p)
  PROVE  /\ z \in State /\ z.pid = 0 /\ z.kids = p.kids
         /\ OfDisc(z) = OfDisc(p) /\ OfWatch(z) = OfWatch(p)
         /\ OfShow(z) = OfShow(p) /\ OfText(z) = OfText(p)
         /\ OfList(z) = OfList(p) /\ z.stack = p.stack /\ z.ask = p.ask
BY DEF WithoutPid, State, OfDisc, OfWatch, OfShow, OfText, OfList

LEMMA WaitchildInv ==
  ASSUME NEW y, NEW e, Inv(y, e), y.stack # <<>>, y.stack[1].at = "wait",
         y.kids[y.stack[1].pid].st = "done",
         NEW single \in BOOLEAN, NEW z, z = Waitchild(y, single)
  PROVE  Inv(z, e)
<1> DEFINE f == y.stack[1]
           p == Pop(y)
           m == WithoutPid(p)
           code == y.kids[f.pid].code
<1>1. /\ y \in State /\ f.at \in LoadAt /\ ("calm" \in e => Looked(y))
      /\ y.kids \in [Slot -> Kid]
  BY InvHeld, Fields DEF LoadAt
<1>2. /\ f.pid \in Slot /\ f.by \in Caller
      /\ "helper" \notin e => \A k \in Slot : Running(y, k) => k = f.pid
  BY <1>1, TopLoad
<1>3. z = IF f.sel THEN LoadDone(m, code, f.by) ELSE Finish(m, code, f.by, single)
  BY DEF Waitchild, WithoutPid
<1>4. /\ p \in State /\ p.stack = Tail(y.stack) /\ p.ask = y.ask
      /\ OfDisc(p) = OfDisc(y) /\ OfWatch(p) = OfWatch(y)
      /\ OfShow(p) = OfShow(y) /\ OfText(p) = OfText(y)
      /\ OfKids(p) = OfKids(y) /\ OfList(p) = OfList(y)
  BY <1>1, PopFacts
<1> HIDE DEF p
<1>5. /\ m \in State /\ m.pid = 0 /\ m.kids = p.kids
      /\ OfDisc(m) = OfDisc(p) /\ OfWatch(m) = OfWatch(p)
      /\ OfShow(m) = OfShow(p) /\ OfText(m) = OfText(p)
      /\ OfList(m) = OfList(p) /\ m.stack = p.stack /\ m.ask = p.ask
  BY <1>4, WithoutPidFacts
<1> HIDE DEF m
<1>6. /\ m.kids = y.kids /\ m.pipe = y.pipe /\ m.dlg = y.dlg /\ m.qmode = y.qmode
      /\ m.disc = y.disc /\ m.looked = y.looked
  BY <1>4, <1>5 DEF OfKids, OfShow, OfList, OfDisc
<1>7. "helper" \notin e => \A k \in Slot : ~Running(y, k)
  BY <1>2 DEF Running
<1>8. Between(m, f.by, e)
  BY <1>1, <1>4, <1>5, <1>6, <1>7, PopBetween
<1>9. "calm" \in e => Looked(m)
  BY <1>1, <1>6 DEF Looked
<1>10. \A k : Running(m, k) <=> Running(y, k)
  BY <1>6 DEF Running
<1>11. code \in {"ok", "auth", "err"}
  <2>1. y.kids[f.pid] \in Kid
    BY <1>1, <1>2
  <2> QED BY <2>1 DEF Kid
<1> HIDE DEF code, f
<1>12. CASE f.sel
  <2>1. "helper" \notin e => \A k \in Slot : ~Running(m, k)
    BY <1>7, <1>10
  <2> QED BY <1>2, <1>3, <1>8, <1>9, <1>11, <1>12, <2>1, LoadDoneInv
<1>13. CASE ~f.sel
  BY <1>2, <1>3, <1>7, <1>8, <1>9, <1>10, <1>11, <1>13, FinishInv
<1> QED BY <1>12, <1>13

-----------------------------------------------------------------------------
(* A dialog, or a question, that was answered is done with. *)
LEMMA PopAside ==
  ASSUME NEW y, NEW e, Inv(y, e), y.stack # <<>>, NEW f, f = y.stack[1],
         f.at \notin LoadAt, f.at \notin y.dlg, f.at = "ask" => y.ask = "no",
         NEW z \in State, z.stack = Tail(y.stack), z.kids = y.kids,
         z.pid \in {0, y.pid}, f.at = "ask" => z.pid = y.pid,
         z.pipe = y.pipe, z.ask = y.ask, z.dlg = y.dlg,
         OfDisc(z) = OfDisc(y), OfWatch(z) = OfWatch(y), OfText(z) = OfText(y),
         z.qmode = y.qmode
  PROVE  /\ Midway(z, f.by, e) /\ f.by \in Caller /\ (f.at = "ask" => f.by = "user")
         /\ "helper" \notin e => AllGuarded(z)
         /\ "calm" \in e => Looked(z)
         /\ \A S : At(y.stack, S) /\ f.at \notin S => At(z.stack, S)
         /\ f.at # "ask" => /\ Between(z, f.by, e)
                            /\ "helper" \notin e => \A k \in Slot : ~Running(z, k)
<1>1. /\ y \in State /\ Frames(y.stack) /\ Live(y) /\ Shown(y) /\ Held(y, "user", e)
      /\ ("helper" \notin e => AllGuarded(y))
      /\ ("calm" \in e => Looked(y)) /\ y.stack \in Seq(Frame)
  BY InvHeld, Fields DEF Held, Typed
<1>2. /\ f \in Frame /\ f.by \in Caller /\ (f.at = "ask" => f.by = "user")
      /\ 1 \in 1..Len(y.stack)
  BY <1>1, PopSeq DEF Frames, Frame
<1>3. /\ z.disc = y.disc /\ z.open = y.open /\ z.timer = y.timer
      /\ z.looked = y.looked /\ z.info = y.info /\ z.match = y.match
      /\ z.loaded = y.loaded /\ z.polling = y.polling
  BY DEF OfDisc, OfText, OfWatch
<1>4. \A k : Running(z, k) <=> Running(y, k)
  BY DEF Running
<1>5. /\ \A i \in 1..Len(z.stack) :
           i + 1 \in 1..Len(y.stack) /\ i + 1 > 1 /\ z.stack[i] = y.stack[i + 1]
      /\ \A i \in 1..Len(y.stack) :
           i = 1 \/ (i - 1 \in 1..Len(z.stack) /\ z.stack[i - 1] = y.stack[i])
  <2>1. /\ \A i \in 1..Len(Tail(y.stack)) :
             /\ i + 1 \in 1..Len(y.stack) /\ i + 1 > 1
             /\ Tail(y.stack)[i] = y.stack[i + 1]
        /\ \A i \in 1..Len(y.stack) :
             i = 1 \/ (i - 1 \in 1..Len(Tail(y.stack))
                       /\ Tail(y.stack)[i - 1] = y.stack[i])
    BY <1>1, PopSeq
  <2> QED BY <2>1
<1>6. /\ Frames(z.stack)
      /\ \A S : At(y.stack, S) /\ f.at \notin S => At(z.stack, S)
      /\ \A k, c : Guarded(y.stack, k, c) /\ f.at = "match" => c
      /\ \A k, c : Guarded(y.stack, k, c) /\ f.at \in Aside => Guarded(z.stack, k, c)
      /\ \A k, c : Guarded(y.stack, k, c) => f.at \in LoadAt \cup Aside \cup {"match"}
  BY <1>1, PopStack
<1>7. ASSUME "helper" \notin e, f.at # "ask", NEW k \in Slot PROVE ~Running(y, k)
  <2>1. Guarded(y.stack, k, Chosen(y)) => f.at = "match" /\ Chosen(y)
    BY <1>6, <1>7 DEF Aside
  <2>2. ~(f.at = "match" /\ Chosen(y))
    BY DEF Chosen
  <2> QED BY <1>1, <1>7, <2>1, <2>2 DEF AllGuarded
<1>8. Typed(z) /\ Shown(z)
  <2>1. Live(z)
    BY <1>1, <1>4 DEF Live
  <2>2. \A d \in y.dlg : f.at \notin {d}
    OBVIOUS
  <2>3. y.ask # "no" => f.at \notin {"ask"}
    OBVIOUS
  <2>4. Shown(z)
    BY <1>1, <1>6, <2>2, <2>3 DEF Shown
  <2> QED BY <1>6, <2>1, <2>4 DEF Typed
<1>9. ASSUME "helper" \notin e PROVE Only(z) /\ (z.disc # NoDisc => z.open)
  <2>1. \A k \in Slot : Running(z, k) => z.pid = y.pid
    BY <1>4, <1>7, <1>9
  <2> QED BY <1>1, <1>3, <1>4, <1>9, <2>1 DEF Held, Only
<1>10. "helper" \notin e => AllGuarded(z)
  <2>1. f.at = "ask" => f.at \in Aside
    BY DEF Aside
  <2> QED BY <1>1, <1>4, <1>6, <1>7, <2>1 DEF AllGuarded, Chosen
<1>11. ASSUME "calm" \in e PROVE Watch(z, f.by) /\ Looked(z)
  <2>1. Watch(y, "user") /\ Looked(y)
    BY <1>1, <1>11 DEF Held
  <2>2. y.disc = NoDisc =>
          f.by = "user" /\ \A i \in 1..Len(z.stack) : z.stack[i].by = "user"
    BY <1>2, <1>5, <2>1 DEF Watch
  <2>3. (\E i \in 1..Len(y.stack) : y.stack[i].by = "insert") =>
          f.by = "insert" \/ \E i \in 1..Len(z.stack) : z.stack[i].by = "insert"
    BY <1>5
  <2> QED BY <1>3, <2>1, <2>2, <2>3 DEF Watch, Looked
<1>12. ASSUME Calmed(e)
       PROVE  Source(z) /\ Later(z) /\ (f.at # "ask" => AllOver(z))
  <2>1. Source(y) /\ Later(y)
    BY <1>12 DEF Inv
  <2>2. \A g : Quiet(z, g) <=> Quiet(y, g)
    BY <1>4 DEF Quiet
  <2>3. Text0(z) /\ Children(z)
    BY <1>3, <1>4, <2>1 DEF Source, Text0, Children
  <2>4. Calls(z)
    <3> SUFFICES ASSUME NEW i \in 1..Len(z.stack), z.stack[i].at \in LoadAt,
                        NEW g, g = z.stack[i]
                 PROVE  /\ g.kid = g.pid /\ z.disc # NoDisc
                        /\ z.kids[g.kid].st # "free" /\ z.kids[g.kid].disc = z.disc
                        /\ g.at = "read" => z.info = <<>> \/ z.kids[g.kid].out # "match"
                        /\ g.kid = z.pipe => ~Running(z, g.kid)
      BY DEF Calls
    <3>1. i + 1 \in 1..Len(y.stack) /\ g = y.stack[i + 1]
      BY <1>5
    <3>2. /\ g.kid = g.pid /\ y.disc # NoDisc
          /\ y.kids[g.kid].st # "free" /\ y.kids[g.kid].disc = y.disc
          /\ g.at = "read" => y.info = <<>> \/ y.kids[g.kid].out # "match"
          /\ g.kid = y.pipe => ~Running(y, g.kid)
      BY <2>1, <3>1 DEF Source, Calls
    <3> QED BY <1>3, <1>4, <3>2
  <2>5. \A i \in 1..Len(z.stack) : z.stack[i].at \in LoadAt /\ (i > 1 \/ f.at # "ask") =>
          z.stack[i].at # "rest" /\ Quiet(z, z.stack[i])
    <3> SUFFICES ASSUME NEW i \in 1..Len(z.stack), z.stack[i].at \in LoadAt,
                        i > 1 \/ f.at # "ask"
                 PROVE  z.stack[i].at # "rest" /\ Quiet(z, z.stack[i])
      OBVIOUS
    <3>1. /\ i + 1 \in 1..Len(y.stack) /\ i + 1 > 1 /\ (i + 1 = 2 => i = 1)
          /\ z.stack[i] = y.stack[i + 1]
      BY <1>5
    <3>2. ~(i + 1 = 2 /\ y.stack[1].at = "ask")
      BY <3>1
    <3> QED BY <2>1, <2>2, <3>1, <3>2 DEF Later
  <2>6. z.pipe # 0 => z.kids[z.pipe].st # "free"
    BY <2>1 DEF Source
  <2> QED BY <2>3, <2>4, <2>5, <2>6 DEF Source, Later, AllOver, Over
<1> QED BY <1>2, <1>4, <1>6, <1>7, <1>8, <1>9, <1>10, <1>11, <1>12
        DEF Midway, Between, Held

(* What then follows. *)
Ended(y, f) ==
  CASE f.at = "ask" -> Pop(y)
    [] f.at = "reg" -> HistNew([Pop(y) EXCEPT !.reload_btn = TRUE], f.by)
    [] OTHER -> Return(Pop(y), f.by)
LEMMA ClosedInv ==
  ASSUME NEW y, NEW e, Inv(y, e), y.stack # <<>>, NEW f, f = y.stack[1],
         f.at \in Dialogs \cup {"ask"}, f.at \notin y.dlg, f.at = "ask" => y.ask = "no",
         NEW z, z = Ended(y, f)
  PROVE  Inv(z, e)
<1> DEFINE p == Pop(y)
           t == TRUE
           m == [p EXCEPT !.reload_btn = t]
<1>1. y \in State /\ Waits(y) /\ f.at \notin LoadAt
  BY InvHeld DEF LoadAt, Dialogs
<1>2. /\ p \in State /\ p.stack = Tail(y.stack) /\ p.ask = y.ask
      /\ OfDisc(p) = OfDisc(y) /\ OfWatch(p) = OfWatch(y)
      /\ OfShow(p) = OfShow(y) /\ OfText(p) = OfText(y)
      /\ OfKids(p) = OfKids(y) /\ OfList(p) = OfList(y)
  BY <1>1, PopFacts
<1>3. /\ f.at = "ask" => z = p
      /\ f.at = "reg" => z = HistNew(m, f.by)
      /\ f.at \notin {"ask", "reg"} => z = Return(p, f.by)
  BY DEF Ended
<1> HIDE DEF p
<1>4. t \in BOOLEAN
  OBVIOUS
<1>0. t = TRUE
  OBVIOUS
<1> HIDE DEF t
<1>5. /\ m \in State /\ m.qmode = p.qmode /\ m.reload_btn = t
      /\ m.dlg = p.dlg /\ m.stack = p.stack /\ m.ask = p.ask
      /\ OfDisc(m) = OfDisc(p) /\ OfWatch(m) = OfWatch(p)
      /\ OfText(m) = OfText(p) /\ OfKids(m) = OfKids(p) /\ OfList(m) = OfList(p)
  BY <1>2, <1>4, SetButton
<1> HIDE DEF m
<1>6. /\ p.qmode = y.qmode /\ p.dlg = y.dlg /\ p.reload_btn = y.reload_btn
      /\ p.kids = y.kids /\ p.pid = y.pid /\ p.pipe = y.pipe
      /\ p.disc = y.disc /\ p.looked = y.looked
      /\ m.kids = y.kids /\ m.pid = y.pid /\ m.pipe = y.pipe
  BY <1>2, <1>5 DEF OfShow, OfKids, OfList, OfDisc
<1>7. /\ Midway(p, f.by, e) /\ f.by \in Caller /\ (f.at = "ask" => f.by = "user")
      /\ "helper" \notin e => AllGuarded(p)
      /\ "calm" \in e => Looked(p)
      /\ \A S : At(y.stack, S) /\ f.at \notin S => At(p.stack, S)
  BY <1>1, <1>2, <1>6, PopAside
<1>8. f.at # "reg" => Waits(p)
  BY <1>1, <1>6, <1>7 DEF Waits, Able
<1>9. CASE f.at = "ask"
  BY <1>3, <1>7, <1>8, <1>9, MidwayInv
<1>10. CASE f.at = "reg"
  <2>1. /\ "calm" \in e => Looked(m)
        /\ Between(m, f.by, e)
        /\ "helper" \notin e => \A k \in Slot : ~Running(m, k)
    BY <1>1, <1>2, <1>5, <1>6, <1>10, PopAside
  <2>2. m.qmode = "WAIT" => At(m.stack, LoadAt)
    BY <1>1, <1>2, <1>5, <1>6, <1>7 DEF Waits
  <2>3. m.reload_btn
    BY <1>0, <1>5
  <2> QED BY <1>3, <1>7, <1>10, <2>1, <2>2, <2>3, HistNewInv
<1>11. CASE f.at \notin {"ask", "reg"}
  BY <1>3, <1>7, <1>8, <1>11, ReturnInv
<1> QED BY <1>9, <1>10, <1>11

(* The history's child has ended. *)
LEMMA AddedInv ==
  ASSUME NEW y, NEW e, Inv(y, e), y.stack # <<>>, NEW f, f = y.stack[1],
         f.at = "hist", NEW z, z = Return(WithoutPid(Pop(y)), f.by)
  PROVE  Inv(z, e)
<1> DEFINE p == Pop(y)
           m == WithoutPid(p)
<1>1. y \in State /\ Waits(y) /\ f.at \notin LoadAt /\ f.at \notin y.dlg
  <2>1. y \in State
    BY InvHeld
  <2>2. y.dlg \subseteq Dialogs
    BY <2>1, Fields
  <2> QED BY <2>1, <2>2, InvHeld DEF LoadAt, Dialogs
<1>2. /\ p \in State /\ p.stack = Tail(y.stack) /\ p.ask = y.ask
      /\ OfDisc(p) = OfDisc(y) /\ OfWatch(p) = OfWatch(y)
      /\ OfShow(p) = OfShow(y) /\ OfText(p) = OfText(y)
      /\ OfKids(p) = OfKids(y) /\ OfList(p) = OfList(y)
  BY <1>1, PopFacts
<1>3. z = Return(m, f.by)
  OBVIOUS
<1> HIDE DEF p
<1>4. /\ m \in State /\ m.pid = 0 /\ m.kids = p.kids
      /\ OfDisc(m) = OfDisc(p) /\ OfWatch(m) = OfWatch(p)
      /\ OfShow(m) = OfShow(p) /\ OfText(m) = OfText(p)
      /\ OfList(m) = OfList(p) /\ m.stack = p.stack /\ m.ask = p.ask
  BY <1>2, WithoutPidFacts
<1> HIDE DEF m
<1>5. /\ m.qmode = y.qmode /\ m.dlg = y.dlg /\ m.reload_btn = y.reload_btn
      /\ m.kids = y.kids /\ m.pipe = y.pipe
      /\ m.disc = y.disc /\ m.looked = y.looked
  BY <1>2, <1>4 DEF OfShow, OfKids, OfList, OfDisc
<1>6. /\ Midway(m, f.by, e) /\ f.by \in Caller
      /\ "helper" \notin e => AllGuarded(m)
      /\ "calm" \in e => Looked(m)
      /\ \A S : At(y.stack, S) /\ f.at \notin S => At(m.stack, S)
  BY <1>1, <1>2, <1>4, <1>5, PopAside
<1>7. Waits(m)
  BY <1>1, <1>5, <1>6 DEF Waits, Able, LoadAt
<1> QED BY <1>3, <1>6, <1>7, ReturnInv

-----------------------------------------------------------------------------
(* The child writes what it found, or ends. *)
WithKid(y, k, m) == [y EXCEPT !.kids[k] = m]
LEMMA WithKidFacts ==
  ASSUME NEW y \in State, NEW k \in Slot, NEW m \in Kid, NEW z, z = WithKid(y, k, m)
  PROVE  /\ z \in State /\ z.pid = y.pid /\ z.kids[k] = m
         /\ \A j \in Slot : j # k => z.kids[j] = y.kids[j]
         /\ OfDisc(z) = OfDisc(y) /\ OfWatch(z) = OfWatch(y)
         /\ OfShow(z) = OfShow(y) /\ OfText(z) = OfText(y)
         /\ OfList(z) = OfList(y) /\ z.stack = y.stack /\ z.ask = y.ask
<1> DEFINE K == [y.kids EXCEPT ![k] = m]
<1>1. y.kids \in [Slot -> Kid]
  BY Fields
<1>2. K \in [Slot -> Kid] /\ K[k] = m /\ \A j \in Slot : j # k => K[j] = y.kids[j]
  BY <1>1
<1>3. z = [y EXCEPT !.kids = K]
  BY DEF WithKid
<1> HIDE DEF K
<1>4. z \in State /\ z.kids = K /\ z.pid = y.pid
  BY SMTT(40), <1>2, <1>3 DEF State
<1>5. /\ OfDisc(z) = OfDisc(y) /\ OfWatch(z) = OfWatch(y)
      /\ OfShow(z) = OfShow(y) /\ OfText(z) = OfText(y)
      /\ OfList(z) = OfList(y) /\ z.stack = y.stack /\ z.ask = y.ask
  BY <1>3 DEF State, OfDisc, OfWatch, OfShow, OfText, OfList
<1> QED BY <1>2, <1>4, <1>5

(* The three ways a child that runs goes on. *)
Wrote(y, k, m, s, o) ==
  m \in Kid /\ m.st = s /\ m.out = o /\ m.disc = y.kids[k].disc
Written(y, k, s, o) == [y EXCEPT !.kids[k].st = s, !.kids[k].out = o]
LEMMA KidWrote ==
  ASSUME NEW y \in State, NEW k \in Slot, NEW s \in {"done", "select"},
         NEW o \in {"empty", "list", "match", "none", "reg"},
         NEW z, z = Written(y, k, s, o)
  PROVE  \E m : Wrote(y, k, m, s, o) /\ z = WithKid(y, k, m)
<1> DEFINE a == [y.kids[k] EXCEPT !.st = s]
           v == WithKid(y, k, a)
           b == [v.kids[k] EXCEPT !.out = o]
<1>1. y.kids \in [Slot -> Kid] /\ y.kids[k] \in Kid
  BY Fields
<1>2. a \in Kid /\ a.st = s /\ a.disc = y.kids[k].disc
  BY <1>1 DEF Kid
<1>3. v = [y EXCEPT !.kids[k].st = s]
  BY DEF WithKid
<1>4. z = [v EXCEPT !.kids[k] = b]
  BY DEF WithKid, Written
<1> HIDE DEF a, v
<1>5. v.kids[k] = a
  BY <1>2, WithKidFacts DEF v
<1>6. b \in Kid /\ b.st = s /\ b.out = o /\ b.disc = a.disc
  BY <1>2, <1>5 DEF Kid
<1> HIDE DEF b
<1>7. [v EXCEPT !.kids[k] = b] = WithKid(y, k, b)
  BY DEF v, WithKid, State
<1> QED BY <1>2, <1>4, <1>6, <1>7 DEF Wrote

Exited(y, k, code) == [y EXCEPT !.kids[k].st = "done", !.kids[k].code = code]
LEMMA KidExits ==
  ASSUME NEW y \in State, NEW k \in Slot, NEW code \in {"ok", "auth", "err"},
         NEW z, z = Exited(y, k, code)
  PROVE  \E m : Wrote(y, k, m, "done", y.kids[k].out) /\ z = WithKid(y, k, m)
<1> DEFINE a == [y.kids[k] EXCEPT !.st = "done"]
           v == WithKid(y, k, a)
           b == [v.kids[k] EXCEPT !.code = code]
<1>1. y.kids \in [Slot -> Kid] /\ y.kids[k] \in Kid
  BY Fields
<1>2. a \in Kid /\ a.st = "done" /\ a.disc = y.kids[k].disc /\ a.out = y.kids[k].out
  BY <1>1 DEF Kid
<1>3. v = [y EXCEPT !.kids[k].st = "done"]
  BY DEF WithKid
<1>4. z = [v EXCEPT !.kids[k] = b]
  BY DEF WithKid, Exited
<1> HIDE DEF a, v
<1>5. v.kids[k] = a
  BY <1>2, WithKidFacts DEF v
<1>6. b \in Kid /\ b.st = "done" /\ b.out = a.out /\ b.disc = a.disc
  BY <1>2, <1>5 DEF Kid
<1> HIDE DEF b
<1>7. [v EXCEPT !.kids[k] = b] = WithKid(y, k, b)
  BY DEF v, WithKid, State
<1> QED BY <1>2, <1>4, <1>6, <1>7 DEF Wrote

LEMMA ChildInv ==
  ASSUME NEW y, NEW e, Inv(y, e), NEW k \in Slot, Running(y, k), y.kids[k].out = "empty",
         NEW s \in {"done", "select"}, NEW o, o \in {"match", "none", "reg"} => s = "done",
         NEW m, Wrote(y, k, m, s, o), NEW z, z = WithKid(y, k, m)
  PROVE  Inv(z, e)
<1>1. /\ y \in State /\ Frames(y.stack) /\ Live(y) /\ Shown(y) /\ Held(y, "user", e)
      /\ Waits(y) /\ ("helper" \notin e => AllGuarded(y))
      /\ ("calm" \in e => Looked(y)) /\ y.stack \in Seq(Frame)
      /\ y.pid \in {0} \cup Slot /\ y.pipe \in {0} \cup Slot
  BY InvHeld, Fields DEF Held, Typed
<1>2. m \in Kid /\ m.st = s /\ m.out = o /\ m.disc = y.kids[k].disc
  BY DEF Wrote
<1>3. /\ z \in State /\ z.pid = y.pid /\ z.kids[k] = m
      /\ \A j \in Slot : j # k => z.kids[j] = y.kids[j]
      /\ OfDisc(z) = OfDisc(y) /\ OfWatch(z) = OfWatch(y)
      /\ OfShow(z) = OfShow(y) /\ OfText(z) = OfText(y)
      /\ OfList(z) = OfList(y) /\ z.stack = y.stack /\ z.ask = y.ask
  BY <1>1, <1>2, WithKidFacts
<1>4. /\ z.disc = y.disc /\ z.open = y.open /\ z.timer = y.timer
      /\ z.looked = y.looked /\ z.info = y.info /\ z.match = y.match
      /\ z.dlg = y.dlg /\ z.qmode = y.qmode /\ z.reload_btn = y.reload_btn
      /\ z.loaded = y.loaded /\ z.polling = y.polling /\ z.pipe = y.pipe
  BY <1>3 DEF OfDisc, OfWatch, OfText, OfList, OfShow
<1>5. /\ \A j \in Slot : Running(z, j) => Running(y, j)
      /\ \A j \in Slot : j # k => (Running(z, j) <=> Running(y, j))
  BY <1>3 DEF Running
<1>6. Typed(z)
  <2>1. y.pid # 0 => z.kids[y.pid].st # "free"
    BY <1>1, <1>2, <1>3 DEF Live
  <2>2. ASSUME NEW j \in Slot, Running(z, j) \/ z.kids[j].out # "empty"
        PROVE  z.kids[j].disc \in Disc
    <3>1. CASE j = k
      BY <1>1, <1>2, <1>3, <3>1 DEF Live
    <3>2. CASE j # k
      BY <1>1, <1>3, <1>5, <2>2, <3>2 DEF Live
    <3> QED BY <3>1, <3>2
  <2> QED BY <1>1, <1>3, <2>1, <2>2 DEF Typed, Live
<1>7. Waits(z) /\ Shown(z)
  BY <1>1, <1>3, <1>4 DEF Waits, Able, Shown
<1>8. "helper" \notin e => One(z)
  BY <1>1, <1>3, <1>4, <1>5 DEF Held, One, Only, AllGuarded, Chosen
<1>9. "calm" \in e => Watch(z, "user") /\ Looked(z)
  BY <1>1, <1>3, <1>4 DEF Held, Watch, Looked
<1>10. ASSUME Calmed(e) PROVE Source(z) /\ Later(z)
  <2>1. Source(y) /\ Later(y)
    BY <1>10 DEF Inv
  <2>2. Text0(z)
    BY <1>4, <2>1 DEF Source, Text0
  <2>3. y.info = <<>> /\ y.kids[k].disc = y.disc
    BY <2>1 DEF Source, Children
  <2>4. Children(z)
    <3> SUFFICES ASSUME NEW j \in Slot
                 PROVE  /\ z.kids[j].out \in {"match", "none", "reg"} =>
                             z.kids[j].st = "done"
                        /\ Running(z, j) => z.kids[j].disc = z.disc /\ z.info = <<>>
      BY DEF Children
    <3>1. CASE j = k
      BY <1>2, <1>3, <1>4, <2>3, <3>1
    <3>2. CASE j # k
      BY <1>3, <1>4, <1>5, <2>1, <3>2 DEF Source, Children
    <3> QED BY <3>1, <3>2
  <2>5. \A i \in 1..Len(y.stack) : y.stack[i].at \in LoadAt => y.stack[i].kid \in Slot
    <3>1. \A i \in 1..Len(y.stack) : y.stack[i] \in Frame
      BY <1>1
    <3>2. \A g \in Frame : g.kid # 0 => g.kid \in Slot
      BY DEF Frame
    <3> QED BY <1>1, <3>1, <3>2 DEF Frames
  <2>6. Calls(z)
    <3> SUFFICES ASSUME NEW i \in 1..Len(y.stack), y.stack[i].at \in LoadAt,
                        NEW g, g = y.stack[i]
                 PROVE  /\ g.kid = g.pid /\ z.disc # NoDisc
                        /\ z.kids[g.kid].st # "free" /\ z.kids[g.kid].disc = z.disc
                        /\ g.at = "read" => z.info = <<>> \/ z.kids[g.kid].out # "match"
                        /\ g.kid = z.pipe => ~Running(z, g.kid)
      BY <1>3 DEF Calls
    <3>1. /\ g.kid = g.pid /\ y.disc # NoDisc
          /\ y.kids[g.kid].st # "free" /\ y.kids[g.kid].disc = y.disc
          /\ g.kid = y.pipe => ~Running(y, g.kid)
      BY <2>1 DEF Source, Calls
    <3>2. g.kid \in Slot
      BY <2>5
    <3>3. z.kids[g.kid].st # "free" /\ z.kids[g.kid].disc = z.disc
      <4>1. CASE g.kid = k
        BY <1>2, <1>3, <1>4, <2>3, <4>1
      <4>2. CASE g.kid # k
        BY <1>3, <1>4, <3>1, <3>2, <4>2
      <4> QED BY <4>1, <4>2
    <3> QED BY <1>4, <1>5, <2>3, <3>1, <3>2, <3>3
  <2>7. z.pipe # 0 => z.kids[z.pipe].st # "free"
    BY <1>1, <1>2, <1>3, <1>4, <2>1 DEF Source
  <2>8. Later(z)
    <3> SUFFICES ASSUME NEW i \in 1..Len(y.stack), i > 1, y.stack[i].at \in LoadAt,
                        Quiet(y, y.stack[i])
                 PROVE  Quiet(z, y.stack[i])
      BY <1>3, <2>1 DEF Later
    <3>1. y.stack[i].kid \in Slot /\ y.stack[i].kid # k
      BY <2>5 DEF Quiet
    <3> QED BY <1>3, <1>5, <3>1 DEF Quiet
  <2> QED BY <2>2, <2>4, <2>6, <2>7, <2>8 DEF Source
<1> QED BY <1>6, <1>7, <1>8, <1>9, <1>10 DEF Inv

-----------------------------------------------------------------------------
(* The commands and the answers. *)
LEMMA SetDlg ==
  ASSUME NEW y \in State, NEW D, D \subseteq y.dlg, NEW z, z = [y EXCEPT !.dlg = D]
  PROVE  /\ z \in State /\ z.dlg = D /\ z.qmode = y.qmode
         /\ z.reload_btn = y.reload_btn /\ z.ask = y.ask /\ z.stack = y.stack
         /\ OfDisc(z) = OfDisc(y) /\ OfWatch(z) = OfWatch(y) /\ OfText(z) = OfText(y)
         /\ OfKids(z) = OfKids(y) /\ OfList(z) = OfList(y)
<1>1. D \subseteq Dialogs
  BY Fields
<1>2. z \in State /\ z.dlg = D
  BY <1>1 DEF State
<1>3. /\ z.qmode = y.qmode /\ z.reload_btn = y.reload_btn /\ z.ask = y.ask
      /\ z.stack = y.stack
      /\ OfDisc(z) = OfDisc(y) /\ OfWatch(z) = OfWatch(y) /\ OfText(z) = OfText(y)
      /\ OfKids(z) = OfKids(y) /\ OfList(z) = OfList(y)
  BY DEF State, OfDisc, OfWatch, OfText, OfKids, OfList
<1> QED BY <1>2, <1>3

LEMMA SetReloads ==
  ASSUME NEW y \in State, NEW n \in Nat, NEW z, z = [y EXCEPT !.reloads = n]
  PROVE  /\ z \in State /\ z.disc = y.disc /\ z.open = y.open
         /\ z.timer = y.timer /\ z.looked = y.looked
         /\ OfWatch(z) = OfWatch(y) /\ OfShow(z) = OfShow(y) /\ OfText(z) = OfText(y)
         /\ OfKids(z) = OfKids(y) /\ OfList(z) = OfList(y)
         /\ z.ask = y.ask /\ z.stack = y.stack
BY DEF State, OfWatch, OfShow, OfText, OfKids, OfList

LEMMA SetDrive ==
  ASSUME NEW y \in State, NEW d \in Disc \cup {NoDisc}, NEW z, z = [y EXCEPT !.drive = d]
  PROVE  /\ z \in State /\ z.disc = y.disc /\ z.open = y.open
         /\ z.timer = y.timer /\ z.looked = y.looked
         /\ OfWatch(z) = OfWatch(y) /\ OfShow(z) = OfShow(y) /\ OfText(z) = OfText(y)
         /\ OfKids(z) = OfKids(y) /\ OfList(z) = OfList(y)
         /\ z.ask = y.ask /\ z.stack = y.stack
BY DEF State, OfWatch, OfShow, OfText, OfKids, OfList

LEMMA SetHist ==
  ASSUME NEW y \in State, NEW d \in Disc \cup {NoDisc}, NEW z, z = [y EXCEPT !.hist = d]
  PROVE  /\ z \in State /\ z.stack = y.stack /\ z.ask = y.ask
         /\ OfDisc(z) = OfDisc(y) /\ OfWatch(z) = OfWatch(y)
         /\ OfShow(z) = OfShow(y) /\ OfText(z) = OfText(y)
         /\ OfKids(z) = OfKids(y) /\ OfList(z) = OfList(y)
BY DEF State, OfDisc, OfWatch, OfShow, OfText, OfKids, OfList

(* Whether to stop a load, or to load again, is asked. *)
Asking(y, q) == Push([y EXCEPT !.ask = q], Call("ask", 0, "user"))
LEMMA AskInv ==
  ASSUME NEW y, NEW e, Inv(y, e), y.ask = "no", Calmed(e) => Idle(y),
         NEW q \in {"stop", "reload"}, "calm" \in e /\ q = "reload" => y.stack = <<>>,
         NEW z, z = Asking(y, q)
  PROVE  Inv(z, e)
<1> DEFINE m == [y EXCEPT !.ask = q]
           f == Call("ask", 0, "user")
<1>1. /\ y \in State /\ Frames(y.stack) /\ Live(y) /\ Shown(y) /\ Held(y, "user", e)
      /\ Waits(y) /\ ("helper" \notin e => AllGuarded(y))
      /\ ("calm" \in e => Looked(y)) /\ y.stack \in Seq(Frame)
  BY InvHeld, Fields DEF Held, Typed
<1>2. q \in Asks
  BY DEF Asks
<1>3. /\ m \in State /\ m.ask = q /\ m.stack = y.stack
      /\ OfDisc(m) = OfDisc(y) /\ OfWatch(m) = OfWatch(y)
      /\ OfShow(m) = OfShow(y) /\ OfText(m) = OfText(y)
      /\ OfKids(m) = OfKids(y) /\ OfList(m) = OfList(y)
  BY <1>1, <1>2, SetAsk
<1> HIDE DEF m
<1>4. f \in Frame /\ f.at = "ask" /\ f.by = "user"
  BY DEF Call, Frame, Caller
<1> HIDE DEF f
<1>5. /\ z \in State /\ z.stack = <<f>> \o m.stack /\ z.ask = m.ask
      /\ OfDisc(z) = OfDisc(m) /\ OfWatch(z) = OfWatch(m)
      /\ OfShow(z) = OfShow(m) /\ OfText(z) = OfText(m)
      /\ OfKids(z) = OfKids(m) /\ OfList(z) = OfList(m)
  BY <1>3, <1>4, PushFacts DEF Asking, m, f
<1>6. /\ z.disc = y.disc /\ z.open = y.open /\ z.timer = y.timer
      /\ z.looked = y.looked /\ z.info = y.info /\ z.match = y.match
      /\ z.dlg = y.dlg /\ z.qmode = y.qmode /\ z.reload_btn = y.reload_btn
      /\ z.loaded = y.loaded /\ z.polling = y.polling /\ z.pipe = y.pipe
      /\ z.kids = y.kids /\ z.pid = y.pid /\ z.ask = q
  BY <1>3, <1>5 DEF OfDisc, OfWatch, OfText, OfList, OfShow, OfKids
<1>7. z.stack = <<f>> \o y.stack /\ y.stack \in Seq(Frame) /\ f \in Frame
  BY <1>1, <1>3, <1>4, <1>5
<1>8. /\ z.stack \in Seq(Frame) /\ Len(z.stack) = Len(y.stack) + 1
      /\ z.stack[1] = f /\ 1 \in 1..Len(z.stack)
      /\ \A i \in 1..Len(y.stack) :
           i + 1 \in 1..Len(z.stack) /\ z.stack[i + 1] = y.stack[i]
      /\ \A i \in 1..Len(z.stack) :
           i = 1 \/ (i > 1 /\ i - 1 \in 1..Len(y.stack) /\ z.stack[i] = y.stack[i - 1])
  <2>1. /\ z.stack \in Seq(Frame) /\ z.stack # <<>>
        /\ Len(z.stack) = Len(y.stack) + 1 /\ Len(y.stack) \in Nat
        /\ z.stack[1] = f /\ 1 \in 1..Len(z.stack)
        /\ \A i \in 1..Len(y.stack) : i + 1 \in 1..Len(z.stack)
                                        /\ z.stack[i + 1] = y.stack[i]
        /\ \A i \in 1..Len(z.stack) :
             i = 1 \/ (i > 1 /\ i - 1 \in 1..Len(y.stack)
                       /\ (i - 1) + 1 = i /\ z.stack[i] = y.stack[i - 1])
    BY <1>7, PushSeq
  <2> QED BY <2>1
<1>9. /\ Frames(z.stack)
      /\ \A S : At(y.stack, S) \/ f.at \in S => At(z.stack, S)
      /\ \A k, c : Guarded(y.stack, k, c) => Guarded(z.stack, k, c)
  <2>1. f.at \notin LoadAt /\ f.at \in Aside
    BY <1>4 DEF LoadAt, Aside
  <2> QED BY <1>1, <1>4, <1>7, <2>1, PushStack
<1>10. \A k : Running(z, k) <=> Running(y, k)
  BY <1>6 DEF Running
<1>11. Typed(z)
  <2>1. Live(z)
    BY <1>1, <1>6, <1>10 DEF Live
  <2> QED BY <1>5, <1>9, <2>1 DEF Typed
<1>12. Waits(z) /\ Shown(z)
  <2>1. z.looked = y.looked /\ (Able(y) => Able(z))
    BY <1>6 DEF Able
  <2> QED BY <1>1, <1>4, <1>6, <1>9, <2>1 DEF Waits, Shown
<1>13. "helper" \notin e => One(z)
  BY <1>1, <1>6, <1>9, <1>10 DEF Held, One, Only, AllGuarded, Chosen
<1>14. ASSUME "calm" \in e PROVE Watch(z, "user") /\ Looked(z)
  <2>1. Watch(y, "user") /\ Looked(y)
    BY <1>1, <1>14 DEF Held
  <2>2. y.disc = NoDisc => \A i \in 1..Len(z.stack) : z.stack[i].by = "user"
    <3> SUFFICES ASSUME y.disc = NoDisc, NEW i \in 1..Len(z.stack)
                 PROVE  z.stack[i].by = "user"
      OBVIOUS
    <3>1. CASE i = 1
      BY <1>4, <1>8, <3>1
    <3>2. CASE i # 1
      <4>1. i - 1 \in 1..Len(y.stack) /\ z.stack[i] = y.stack[i - 1]
        BY <1>8, <3>2
      <4> QED BY <2>1, <4>1 DEF Watch
    <3> QED BY <3>1, <3>2
  <2>3. (\E i \in 1..Len(y.stack) : y.stack[i].by = "insert") =>
          \E i \in 1..Len(z.stack) : z.stack[i].by = "insert"
    BY <1>8
  <2> QED BY <1>6, <2>1, <2>2, <2>3 DEF Watch, Looked
<1>15. ASSUME Calmed(e) PROVE Source(z) /\ Later(z)
  <2>1. Source(y) /\ Later(y) /\ Idle(y)
    BY <1>15 DEF Inv
  <2>2. \A g : Quiet(z, g) <=> Quiet(y, g)
    BY <1>6, <1>10 DEF Quiet
  <2>3. Text0(z) /\ Children(z)
    BY <1>6, <1>10, <2>1 DEF Source, Text0, Children
  <2>4. Calls(z)
    <3> SUFFICES ASSUME NEW i \in 1..Len(z.stack), z.stack[i].at \in LoadAt,
                        NEW g, g = z.stack[i]
                 PROVE  /\ g.kid = g.pid /\ z.disc # NoDisc
                        /\ z.kids[g.kid].st # "free" /\ z.kids[g.kid].disc = z.disc
                        /\ g.at = "read" => z.info = <<>> \/ z.kids[g.kid].out # "match"
                        /\ g.kid = z.pipe => ~Running(z, g.kid)
      BY DEF Calls
    <3>1. i # 1
      BY <1>4, <1>8 DEF LoadAt
    <3>2. i - 1 \in 1..Len(y.stack) /\ g = y.stack[i - 1]
      BY <1>8, <3>1
    <3>3. /\ g.kid = g.pid /\ y.disc # NoDisc
          /\ y.kids[g.kid].st # "free" /\ y.kids[g.kid].disc = y.disc
          /\ g.at = "read" => y.info = <<>> \/ y.kids[g.kid].out # "match"
          /\ g.kid = y.pipe => ~Running(y, g.kid)
      BY <2>1, <3>2 DEF Source, Calls
    <3> QED BY <1>6, <1>10, <3>3
  <2>5. Later(z)
    <3> SUFFICES ASSUME NEW i \in 1..Len(z.stack), i > 1, z.stack[i].at \in LoadAt
                 PROVE  /\ z.stack[i].at # "rest"
                        /\ Quiet(z, z.stack[i]) \/
                             (i = 2 /\ z.stack[1].at = "ask" /\ z.ask # "reload")
      BY DEF Later
    <3>1. i - 1 \in 1..Len(y.stack) /\ z.stack[i] = y.stack[i - 1]
      <4>1. i # 1
        BY <1>8
      <4> QED BY <1>8, <4>1
    <3>2. y.stack # <<>>
      BY <1>1, <3>1
    <3>3. q # "reload"
      BY <1>15, <3>2 DEF Calmed
    <3>4. CASE i = 2
      BY <1>4, <1>6, <1>8, <2>1, <3>1, <3>2, <3>3, <3>4 DEF Idle
    <3>5. CASE i # 2
      <4>1. i - 1 > 1
        BY <3>5
      <4>2. ~(y.stack[1].at = "ask" /\ y.ask # "reload")
        BY <2>1, <3>2 DEF Idle
      <4> QED BY <2>1, <2>2, <3>1, <4>1, <4>2 DEF Later
    <3> QED BY <3>4, <3>5
  <2> QED BY <1>6, <2>1, <2>3, <2>4, <2>5 DEF Source
<1> QED BY <1>11, <1>12, <1>13, <1>14, <1>15 DEF Inv

(* A lookup may begin, whatever is taken off the screen for it. *)
LEMMA LookupReady ==
  ASSUME NEW y, NEW e, Inv(y, e), Calmed(e) => Idle(y),
         Calmed(e) => y.ask \in {"no", "reload"} \/ y.stack = <<>>,
         NEW m \in State, m.kids = y.kids, m.pid \in {0, y.pid},
         "helper" \notin e => m.pid = y.pid,
         m.stack = y.stack, m.dlg \subseteq y.dlg, m.ask \in {"no", y.ask},
         m.disc = y.disc, m.open = y.open, m.timer = y.timer,
         OfWatch(m) = OfWatch(y), m.pipe = y.pipe, OfText(m) = OfText(y),
         m.qmode \in {"NONE", y.qmode}
  PROVE  Ready(m, "user", e)
<1>1. y \in State /\ Held(y, "user", e)
  BY InvHeld
<1>2. m.info = y.info /\ m.match = y.match
  BY DEF OfText
<1>3. Text0(y) => Text0(m)
  BY <1>2 DEF Text0
<1>4. Held(m, "user", e) /\ (Calmed(e) => (Paused(y) => Paused(m)))
  BY <1>1, <1>2, <1>3, HeldKept
<1>5. Calmed(e) => Paused(y)
  BY <1>1, IdlePaused DEF Inv
<1> QED BY <1>4, <1>5 DEF Ready

(* An entry of the list that is shown is chosen. *)
LEMMA ChosenInv ==
  ASSUME NEW y, NEW e, Inv(y, e), y.ask = "no", Calmed(e) => Idle(y),
         "helper" \notin e /\ Rejected(y) => y.pid = 0,
         NEW tag \in {0, 1}, NEW z, z = MatchselOk(y, tag, "user")
  PROVE  Inv(z, e)
<1>1. /\ y \in State /\ Midway(y, "user", e)
      /\ ("helper" \notin e => AllGuarded(y))
      /\ ("calm" \in e => Looked(y)) /\ y.stack \in Seq(Frame)
      /\ y.kids \in [Slot -> Kid] /\ y.pipe \in {0} \cup Slot
  BY InvHeld, Fields
<1>2. ASSUME Calmed(e), ~Rejected(y), y.kids[y.pipe].st # "done"
      PROVE  AllOver(y)
  <2>1. Source(y) /\ Later(y) /\ Idle(y) /\ "helper" \notin e
    BY <1>2 DEF Inv, Calmed
  <2>2. y.pipe \in Slot /\ Running(y, y.pipe)
    <3>1. y.pipe \in Slot /\ y.kids[y.pipe].st \notin {"free", "done"}
      BY <1>1, <1>2, <2>1 DEF Rejected, Source
    <3>2. y.kids[y.pipe] \in Kid
      BY <1>1, <3>1
    <3>3. y.kids[y.pipe].st \in {"free", "query", "select", "done"}
      BY <3>2 DEF Kid
    <3> QED BY <3>1, <3>3 DEF Running
  <2>3. PICK i \in 1..Len(y.stack) :
          /\ \A j \in 1..(i - 1) : y.stack[j].at \in Aside
          /\ \/ y.stack[i].at \in LoadAt /\ y.stack[i].pid = y.pipe
             \/ y.stack[i].at = "match" /\ Chosen(y)
    BY <1>1, <2>1, <2>2 DEF AllGuarded, Guarded
  <2>4. y.stack[i].at = "match"
    BY <2>1, <2>2, <2>3 DEF Source, Calls
  <2>5. y.stack[1].at \notin LoadAt
    <3>1. CASE i = 1
      BY <2>4, <3>1 DEF LoadAt
    <3>2. CASE i # 1
      <4>1. 1 \in 1..(i - 1)
        BY <3>2
      <4> QED BY <2>3, <4>1 DEF Aside, LoadAt
    <3> QED BY <3>1, <3>2
  <2>6. y.stack # <<>>
    BY <1>1
  <2>7. ~(y.stack[1].at = "ask" /\ y.ask # "reload")
    BY <2>1, <2>6 DEF Idle
  <2> SUFFICES ASSUME NEW j \in 1..Len(y.stack), y.stack[j].at \in LoadAt
               PROVE  y.stack[j].at # "rest" /\ Quiet(y, y.stack[j])
    BY DEF AllOver, Over
  <2>8. j > 1
    BY <2>5
  <2> QED BY <2>1, <2>7, <2>8 DEF Later
<1>3. ASSUME "helper" \notin e, Rejected(y), NEW k \in Slot PROVE ~Running(y, k)
  <2>1. y.pid = 0 /\ 0 \notin Slot
    BY <1>1, <1>3, Fields
  <2> QED BY <1>1, <1>3, <2>1 DEF Midway, Held, Only
<1>4. "user" \in Caller
  BY DEF Caller
<1>5. Ready(y, "user", e)
  BY <1>1, LookupReady
<1> QED BY <1>1, <1>2, <1>3, <1>4, <1>5, MatchselInv

(* The structure is cleared first. *)
LEMMA ClearedInv ==
  ASSUME NEW m, NEW e, Ready(m, "user", e),
         \E k \in Slot : m.kids[k].st = "free", NEW z, z = DbGet(Dbclear(m), "user")
  PROVE  Inv(z, e)
<1> DEFINE d == Dbclear(m)
<1>1. m \in State /\ Held(m, "user", e) /\ Live(m)
  BY DEF Ready, Held, Typed
<1>2. /\ d \in State /\ KidsCancelled(m, d) /\ d.pipe = 0
      /\ OfDisc(d) = OfDisc(m) /\ OfWatch(d) = OfWatch(m)
      /\ d.qmode = "NONE" /\ d.dlg = m.dlg
      /\ d.info = <<>> /\ ~d.match /\ d.stack = m.stack /\ d.ask = m.ask
  BY <1>1, DbclearFacts
<1>3. z = DbGet(d, "user")
  OBVIOUS
<1> HIDE DEF d
<1>4. d.disc = m.disc /\ d.open = m.open /\ d.timer = m.timer
  BY <1>2 DEF OfDisc
<1>5. Text0(d)
  BY <1>2 DEF Text0
<1>6. Held(d, "user", e) /\ (Calmed(e) => (Paused(m) => AllOver(d)))
  BY <1>1, <1>2, <1>4, <1>5, CancelledHeld
<1>7. Ready(d, "user", e)
  <2>1. Between(d, "user", e)
    BY <1>6 DEF Ready, Between
  <2> QED BY <2>1, BetweenMidway
<1>8. \E k \in Slot : d.kids[k].st = "free"
  <2>1. PICK k \in Slot : m.kids[k].st = "free"
    OBVIOUS
  <2>2. k # m.pid
    BY <1>1, <2>1, Fields DEF Live
  <2>3. d.kids[k] = m.kids[k]
    BY <1>1, <1>2, <2>2, Fields, WithoutKids DEF KidsCancelled
  <2> QED BY <2>1, <2>3
<1>9. "user" \in Caller
  BY DEF Caller
<1> QED BY <1>3, <1>7, <1>8, <1>9, DbGetInv

(* The dialog for the user's name and password is cancelled. *)
AuthCancelled(y) ==
  [y EXCEPT !.dlg = @ \ {"auth"}, !.qmode = "NONE", !.reload_btn = TRUE]
LEMMA AuthCancelledInv ==
  ASSUME NEW y, NEW e, Inv(y, e), Calmed(e) => Idle(y), y.ask = "no",
         "helper" \notin e => y.pid = 0,
         NEW z, z = HistNew(AuthCancelled(y), "user")
  PROVE  Inv(z, e)
<1> DEFINE D == y.dlg \ {"auth"}
           t == TRUE
           m == [y EXCEPT !.dlg = D]
           n == [m EXCEPT !.qmode = "NONE"]
           w == [n EXCEPT !.reload_btn = t]
<1>1. /\ y \in State /\ Frames(y.stack) /\ Held(y, "user", e)
      /\ ("calm" \in e => Looked(y)) /\ 0 \notin Slot
  BY InvHeld, Fields DEF Held, Typed
<1>2. D \subseteq y.dlg /\ t \in BOOLEAN
  OBVIOUS
<1>0. t = TRUE
  OBVIOUS
<1>3. z = HistNew(w, "user")
  BY DEF AuthCancelled
<1> HIDE DEF D, t
<1>4. /\ m \in State /\ m.dlg = D /\ m.qmode = y.qmode
      /\ m.reload_btn = y.reload_btn /\ m.ask = y.ask /\ m.stack = y.stack
      /\ OfDisc(m) = OfDisc(y) /\ OfWatch(m) = OfWatch(y) /\ OfText(m) = OfText(y)
      /\ OfKids(m) = OfKids(y) /\ OfList(m) = OfList(y)
  BY <1>1, <1>2, SetDlg
<1> HIDE DEF m
<1>5. /\ n \in State /\ n.qmode = "NONE" /\ n.reload_btn = m.reload_btn
      /\ n.dlg = m.dlg /\ n.stack = m.stack /\ n.ask = m.ask
      /\ OfDisc(n) = OfDisc(m) /\ OfWatch(n) = OfWatch(m)
      /\ OfText(n) = OfText(m) /\ OfKids(n) = OfKids(m) /\ OfList(n) = OfList(m)
  BY <1>4, SetQmode
<1> HIDE DEF n
<1>6. /\ w \in State /\ w.qmode = n.qmode /\ w.reload_btn = t
      /\ w.dlg = n.dlg /\ w.stack = n.stack /\ w.ask = n.ask
      /\ OfDisc(w) = OfDisc(n) /\ OfWatch(w) = OfWatch(n)
      /\ OfText(w) = OfText(n) /\ OfKids(w) = OfKids(n) /\ OfList(w) = OfList(n)
  BY <1>2, <1>5, SetButton
<1> HIDE DEF w
<1>7. /\ w.disc = y.disc /\ w.open = y.open /\ w.timer = y.timer
      /\ w.looked = y.looked /\ w.kids = y.kids /\ w.pid = y.pid /\ w.pipe = y.pipe
      /\ OfWatch(w) = OfWatch(y) /\ OfText(w) = OfText(y)
      /\ w.dlg = D /\ w.qmode = "NONE" /\ w.reload_btn
      /\ w.ask = y.ask /\ w.stack = y.stack
  BY <1>0, <1>4, <1>5, <1>6 DEF OfDisc, OfKids, OfList
<1>8. Ready(w, "user", e)
  BY <1>2, <1>6, <1>7, LookupReady
<1>9. ASSUME "helper" \notin e, NEW k \in Slot PROVE ~Running(w, k)
  BY <1>1, <1>7, <1>9 DEF Held, Only, Running
<1>10. Frames(w.stack)
  BY <1>1, <1>7
<1>11. Calmed(e) => AllOver(w)
  <2>1. Calmed(e) => "helper" \notin e
    BY DEF Calmed
  <2> QED BY <1>6, <1>8, <1>9, <1>10, <2>1, PausedOver DEF Ready
<1>12. Between(w, "user", e) /\ ("calm" \in e => Looked(w))
  BY <1>1, <1>7, <1>8, <1>11 DEF Ready, Between, Looked
<1>13. "user" \in Caller
  BY DEF Caller
<1> QED BY <1>3, <1>7, <1>9, <1>12, <1>13, HistNewInv

-----------------------------------------------------------------------------
(* Every step keeps the invariant. *)
LEMMA ToInv ==
  ASSUME NEW y, Inv(y, env), To(y) PROVE Inv(x, env)'
<1>1. Inv(Reap(y), env)
  BY ReapInv
<1>2. x' = Reap(y) /\ env' = env
  BY DEF To
<1> QED BY <1>1, <1>2

LEMMA RoomFree ==
  ASSUME Room(x) PROVE \E k \in Slot : x.kids[k].st = "free"
BY DEF Room

LEMMA EventIdle ==
  ASSUME Inv(x, env), Event PROVE Calmed(env) => Idle(x)
<1> SUFFICES ASSUME Calmed(env), x.stack # <<>>
             PROVE  /\ x.stack[1].at = "read" => x.kids[x.stack[1].kid].out = "empty"
                    /\ x.stack[1].at # "rest"
                    /\ x.stack[1].at = "ask" => x.ask # "no"
  BY DEF Idle
<1>1. x.stack \in Seq(Frame)
  BY InvHeld, Fields
<1>2. Top = x.stack[1]
  BY <1>1, PopSeq DEF Top
<1>3. ~GoesOn
  BY DEF Calmed, Event
<1> QED BY <1>2, <1>3 DEF GoesOn

LEMMA LookupStep ==
  ASSUME Inv(x, env), Event, Room(x),
         Calmed(env) => x.ask \in {"no", "reload"} \/ x.stack = <<>>,
         NEW m \in State, m.kids = x.kids, m.pid \in {0, x.pid},
         "helper" \notin env => m.pid = x.pid,
         m.stack = x.stack, m.dlg \subseteq x.dlg, m.ask \in {"no", x.ask},
         m.disc = x.disc, m.open = x.open, m.timer = x.timer,
         OfWatch(m) = OfWatch(x), m.pipe = x.pipe, OfText(m) = OfText(x),
         m.qmode = x.qmode
  PROVE  Inv(DbGet(m, "user"), env) /\ Inv(DbGet(Dbclear(m), "user"), env)
<1>1. Calmed(env) => Idle(x)
  BY EventIdle
<1>2. Ready(m, "user", env)
  BY <1>1, LookupReady
<1>3. \E k \in Slot : m.kids[k].st = "free"
  BY RoomFree
<1>4. "user" \in Caller
  BY DEF Caller
<1> QED BY <1>2, <1>3, <1>4, DbGetInv, ClearedInv

LEMMA LoadStep ==
  ASSUME Inv(x, env), Load PROVE Inv(x, env)'
<1>1. /\ Event /\ Room(x) /\ x.ask = "no" /\ To(DbGet(x, "user")) /\ x \in State
  BY InvHeld DEF Load, Command
<1>2. Inv(DbGet(x, "user"), env)
  BY <1>1, LookupStep
<1> QED BY <1>1, <1>2, ToInv

LEMMA ReloadTimerStep ==
  ASSUME Inv(x, env), ReloadTimer PROVE Inv(x, env)'
<1> DEFINE n == x.reloads - 1
           m == [x EXCEPT !.reloads = n]
<1>1. Event /\ Room(x) /\ Calm /\ x.reloads > 0 /\ To(DbGet(m, "user"))
  BY DEF ReloadTimer
<1>2. x \in State /\ n \in Nat
  BY <1>1, InvHeld, Fields
<1> HIDE DEF n
<1>3. /\ m \in State /\ m.disc = x.disc /\ m.open = x.open
      /\ m.timer = x.timer /\ m.looked = x.looked
      /\ OfWatch(m) = OfWatch(x) /\ OfShow(m) = OfShow(x) /\ OfText(m) = OfText(x)
      /\ OfKids(m) = OfKids(x) /\ OfList(m) = OfList(x)
      /\ m.ask = x.ask /\ m.stack = x.stack
  BY <1>2, SetReloads
<1> HIDE DEF m
<1>4. /\ m.kids = x.kids /\ m.pid = x.pid /\ m.dlg = x.dlg /\ m.qmode = x.qmode
      /\ m.pipe = x.pipe
  BY <1>3 DEF OfKids, OfShow, OfList
<1>5. Calmed(env) => x.stack = <<>>
  BY <1>1 DEF Calmed, Calm
<1>6. Inv(DbGet(m, "user"), env)
  BY <1>1, <1>3, <1>4, <1>5, LookupStep
<1> QED BY <1>1, <1>6, ToInv

LEMMA AuthOkStep ==
  ASSUME Inv(x, env), AuthOk PROVE Inv(x, env)'
<1> DEFINE D == x.dlg \ {"auth"}
           m == [x EXCEPT !.dlg = D]
<1>1. Event /\ Room(x) /\ x.ask = "no" /\ To(DbGet(m, "user")) /\ x \in State
  BY InvHeld DEF AuthOk, Answer
<1>2. D \subseteq x.dlg
  OBVIOUS
<1> HIDE DEF D
<1>3. /\ m \in State /\ m.dlg = D /\ m.qmode = x.qmode
      /\ m.reload_btn = x.reload_btn /\ m.ask = x.ask /\ m.stack = x.stack
      /\ OfDisc(m) = OfDisc(x) /\ OfWatch(m) = OfWatch(x) /\ OfText(m) = OfText(x)
      /\ OfKids(m) = OfKids(x) /\ OfList(m) = OfList(x)
  BY <1>1, <1>2, SetDlg
<1> HIDE DEF m
<1>4. /\ m.kids = x.kids /\ m.pid = x.pid /\ m.pipe = x.pipe
      /\ m.disc = x.disc /\ m.open = x.open /\ m.timer = x.timer
  BY <1>3 DEF OfKids, OfList, OfDisc
<1>5. Inv(DbGet(m, "user"), env)
  BY <1>1, <1>2, <1>3, <1>4, LookupStep
<1> QED BY <1>1, <1>5, ToInv

LEMMA UserregOkStep ==
  ASSUME Inv(x, env), UserregOk PROVE Inv(x, env)'
<1> DEFINE D == x.dlg \ {"reg"}
           d == [x EXCEPT !.dlg = D]
           m == WithoutPid(d)
<1>1. /\ Event /\ Room(x) /\ x.ask = "no" /\ x \in State /\ MayFork(x)
      /\ To(IF x.qmode = "MATCH" THEN m ELSE DbGet(Dbclear(m), "user"))
  BY InvHeld DEF UserregOk, Answer, Forked, WithoutPid
<1>2. D \subseteq x.dlg /\ D = x.dlg \ {"reg"}
  OBVIOUS
<1> HIDE DEF D
<1>3. /\ d \in State /\ d.dlg = D /\ d.qmode = x.qmode
      /\ d.reload_btn = x.reload_btn /\ d.ask = x.ask /\ d.stack = x.stack
      /\ OfDisc(d) = OfDisc(x) /\ OfWatch(d) = OfWatch(x) /\ OfText(d) = OfText(x)
      /\ OfKids(d) = OfKids(x) /\ OfList(d) = OfList(x)
  BY <1>1, <1>2, SetDlg
<1> HIDE DEF d
<1>4. /\ m \in State /\ m.pid = 0 /\ m.kids = d.kids
      /\ OfDisc(m) = OfDisc(d) /\ OfWatch(m) = OfWatch(d)
      /\ OfShow(m) = OfShow(d) /\ OfText(m) = OfText(d)
      /\ OfList(m) = OfList(d) /\ m.stack = d.stack /\ m.ask = d.ask
  BY <1>3, WithoutPidFacts
<1> HIDE DEF m
<1>5. /\ m.kids = x.kids /\ m.pipe = x.pipe /\ m.dlg = D /\ m.qmode = x.qmode
      /\ m.reload_btn = x.reload_btn
      /\ m.disc = x.disc /\ m.open = x.open /\ m.timer = x.timer
      /\ m.looked = x.looked
  BY <1>3, <1>4 DEF OfKids, OfList, OfDisc, OfShow
<1>6. "helper" \notin env => m.pid = x.pid
  BY <1>1, <1>4 DEF MayFork
<1>7. Inv(m, env)
  BY <1>1, <1>2, <1>3, <1>4, <1>5, <1>6, KeptInv
<1>8. Inv(DbGet(Dbclear(m), "user"), env)
  BY <1>1, <1>2, <1>3, <1>4, <1>5, <1>6, LookupStep
<1>9. CASE x.qmode = "MATCH"
  BY <1>1, <1>7, <1>9, ToInv
<1>10. CASE x.qmode # "MATCH"
  BY <1>1, <1>8, <1>10, ToInv
<1> QED BY <1>9, <1>10

(* The lookup is cancelled, or its child's pid forgotten, and no more. *)
LEMMA ForkedStep ==
  ASSUME NEW y, Inv(y, env), MayFork(y), To(WithoutPid(y)) PROVE Inv(x, env)'
<1> DEFINE m == WithoutPid(y)
<1>1. y \in State
  BY InvHeld
<1>2. /\ m \in State /\ m.pid = 0 /\ m.kids = y.kids
      /\ OfDisc(m) = OfDisc(y) /\ OfWatch(m) = OfWatch(y)
      /\ OfShow(m) = OfShow(y) /\ OfText(m) = OfText(y)
      /\ OfList(m) = OfList(y) /\ m.stack = y.stack /\ m.ask = y.ask
  BY <1>1, WithoutPidFacts
<1>3. To(m)
  OBVIOUS
<1> HIDE DEF m
<1>4. /\ m.pipe = y.pipe /\ m.dlg = y.dlg /\ m.qmode = y.qmode
      /\ m.reload_btn = y.reload_btn
      /\ m.disc = y.disc /\ m.open = y.open /\ m.timer = y.timer
      /\ m.looked = y.looked
  BY <1>2 DEF OfList, OfDisc, OfShow
<1>5. "helper" \notin env => m.pid = y.pid
  BY <1>2 DEF MayFork
<1>6. Inv(m, env)
  BY <1>2, <1>4, <1>5, KeptInv
<1> QED BY <1>3, <1>6, ToInv

LEMMA CancelStep ==
  ASSUME Inv(x, env), NEW c, c = Cancel(x), NEW z \in State, OfKids(z) = OfKids(c),
         z.ask \in {"no", c.ask}, z.disc = c.disc, z.open = c.open,
         z.timer = c.timer, z.looked = c.looked, OfWatch(z) = OfWatch(c),
         OfShow(z) = OfShow(c), OfText(z) = OfText(c), OfList(z) = OfList(c),
         z.stack = c.stack
  PROVE  Inv(z, env)
<1>1. x \in State
  BY InvHeld
<1>2. /\ c \in State /\ KidsCancelled(x, c)
      /\ OfDisc(c) = OfDisc(x) /\ OfWatch(c) = OfWatch(x)
      /\ OfShow(c) = OfShow(x) /\ OfText(c) = OfText(x)
      /\ OfList(c) = OfList(x) /\ c.stack = x.stack /\ c.ask = x.ask
  BY <1>1, CancelFacts
<1>3. /\ KidsCancelled(x, z) /\ z.disc = x.disc /\ z.open = x.open
      /\ z.timer = x.timer /\ z.looked = x.looked /\ OfWatch(z) = OfWatch(x)
      /\ z.pipe = x.pipe /\ z.dlg = x.dlg /\ z.qmode = x.qmode
      /\ z.reload_btn = x.reload_btn /\ OfText(z) = OfText(x)
      /\ z.stack = x.stack /\ z.ask \in {"no", x.ask}
  BY <1>2 DEF KidsCancelled, OfKids, OfDisc, OfShow, OfList
<1> QED BY <1>3, CancelledInv

LEMMA InetofflnStep ==
  ASSUME Inv(x, env), Inetoffln PROVE Inv(x, env)'
<1> DEFINE c == Cancel(x)
           n == c.reloads + 1
           m == [c EXCEPT !.reloads = n]
           y == IF x.qmode = "WAIT" THEN m ELSE x
<1>1. MayFork(y) /\ To(WithoutPid(y))
  BY DEF Inetoffln, Forked, WithoutPid
<1>2. c \in State
  BY InvHeld, CancelFacts
<1>3. n \in Nat
  BY <1>2, Fields
<1> HIDE DEF n
<1>4. /\ m \in State /\ m.disc = c.disc /\ m.open = c.open
      /\ m.timer = c.timer /\ m.looked = c.looked
      /\ OfWatch(m) = OfWatch(c) /\ OfShow(m) = OfShow(c) /\ OfText(m) = OfText(c)
      /\ OfKids(m) = OfKids(c) /\ OfList(m) = OfList(c)
      /\ m.ask = c.ask /\ m.stack = c.stack
  BY <1>2, <1>3, SetReloads
<1>5. c = Cancel(x)
  OBVIOUS
<1> HIDE DEF c, m
<1>6. Inv(m, env)
  BY <1>4, <1>5, CancelStep
<1>7. Inv(y, env)
  BY <1>6
<1> HIDE DEF y
<1> QED BY <1>1, <1>7, ForkedStep

LEMMA HelperStep ==
  ASSUME Inv(x, env), Helper PROVE Inv(x, env)'
<1>1. PICK d \in Disc \cup {NoDisc} : To([WithoutPid(x) EXCEPT !.hist = d])
  BY DEF Helper, Forked, WithoutPid
<1> DEFINE m == WithoutPid(x)
           n == [m EXCEPT !.hist = d]
<1>2. x \in State /\ MayFork(x) /\ To(n)
  BY <1>1, InvHeld DEF Helper
<1>3. /\ m \in State /\ m.pid = 0 /\ m.kids = x.kids
      /\ OfDisc(m) = OfDisc(x) /\ OfWatch(m) = OfWatch(x)
      /\ OfShow(m) = OfShow(x) /\ OfText(m) = OfText(x)
      /\ OfList(m) = OfList(x) /\ m.stack = x.stack /\ m.ask = x.ask
  BY <1>2, WithoutPidFacts
<1> HIDE DEF m
<1>4. /\ n \in State /\ n.stack = m.stack /\ n.ask = m.ask
      /\ OfDisc(n) = OfDisc(m) /\ OfWatch(n) = OfWatch(m)
      /\ OfShow(n) = OfShow(m) /\ OfText(n) = OfText(m)
      /\ OfKids(n) = OfKids(m) /\ OfList(n) = OfList(m)
  BY <1>3, SetHist
<1> HIDE DEF n
<1>5. /\ n.kids = x.kids /\ n.pid = 0 /\ n.pipe = x.pipe /\ n.dlg = x.dlg
      /\ n.qmode = x.qmode /\ n.reload_btn = x.reload_btn
      /\ n.disc = x.disc /\ n.open = x.open /\ n.timer = x.timer
      /\ n.looked = x.looked
  BY <1>3, <1>4 DEF OfList, OfDisc, OfShow, OfKids
<1>6. "helper" \notin env => n.pid = x.pid
  BY <1>2, <1>5 DEF MayFork
<1>7. Inv(n, env)
  BY <1>3, <1>4, <1>5, <1>6, KeptInv
<1> QED BY <1>2, <1>7, ToInv

LEMMA YesStep ==
  ASSUME Inv(x, env), Yes PROVE Inv(x, env)'
<1> DEFINE a == "no"
           c == Cancel(x)
           s == [c EXCEPT !.ask = a]
           m == [x EXCEPT !.ask = a]
<1>1. /\ Event
      /\ \/ x.ask = "stop" /\ To(s)
         \/ /\ x.ask = "reload" /\ Room(x)
            /\ To(IF x.disc = NoDisc THEN m ELSE DbGet(m, "user"))
  BY DEF Yes, Answer
<1>2. x \in State /\ c \in State /\ a \in Asks /\ a = "no"
  BY InvHeld, CancelFacts DEF Asks
<1> HIDE DEF a
<1>3. CASE x.ask = "stop" /\ To(s)
  <2>1. /\ s \in State /\ s.ask = a /\ s.stack = c.stack
        /\ OfDisc(s) = OfDisc(c) /\ OfWatch(s) = OfWatch(c)
        /\ OfShow(s) = OfShow(c) /\ OfText(s) = OfText(c)
        /\ OfKids(s) = OfKids(c) /\ OfList(s) = OfList(c)
    BY <1>2, SetAsk
  <2>2. c = Cancel(x)
    OBVIOUS
  <2> HIDE DEF s, c
  <2>3. s.disc = c.disc /\ s.open = c.open /\ s.timer = c.timer /\ s.looked = c.looked
    BY <2>1 DEF OfDisc
  <2>4. Inv(s, env)
    BY <1>2, <2>1, <2>2, <2>3, CancelStep
  <2> QED BY <1>3, <2>4, ToInv
<1>4. CASE /\ x.ask = "reload" /\ Room(x)
           /\ To(IF x.disc = NoDisc THEN m ELSE DbGet(m, "user"))
  <2>1. /\ m \in State /\ m.ask = a /\ m.stack = x.stack
        /\ OfDisc(m) = OfDisc(x) /\ OfWatch(m) = OfWatch(x)
        /\ OfShow(m) = OfShow(x) /\ OfText(m) = OfText(x)
        /\ OfKids(m) = OfKids(x) /\ OfList(m) = OfList(x)
    BY <1>2, SetAsk
  <2> HIDE DEF m
  <2>2. /\ m.kids = x.kids /\ m.pid = x.pid /\ m.pipe = x.pipe /\ m.dlg = x.dlg
        /\ m.qmode = x.qmode /\ m.reload_btn = x.reload_btn
        /\ m.disc = x.disc /\ m.open = x.open /\ m.timer = x.timer
        /\ m.looked = x.looked
    BY <2>1 DEF OfKids, OfList, OfDisc, OfShow
  <2>3. Inv(m, env)
    BY <1>2, <2>1, <2>2, KeptInv
  <2>4. Inv(DbGet(m, "user"), env)
    BY <1>1, <1>2, <1>4, <2>1, <2>2, LookupStep
  <2>5. CASE x.disc = NoDisc
    BY <1>4, <2>3, <2>5, ToInv
  <2>6. CASE x.disc # NoDisc
    BY <1>4, <2>4, <2>6, ToInv
  <2> QED BY <2>5, <2>6
<1> QED BY <1>1, <1>3, <1>4

LEMMA NoStep ==
  ASSUME Inv(x, env), No PROVE Inv(x, env)'
<1> DEFINE a == "no"
           m == [x EXCEPT !.ask = a]
<1>1. To(m)
  BY DEF No, Answer
<1>2. x \in State /\ a \in Asks /\ a = "no"
  BY InvHeld DEF Asks
<1> HIDE DEF a
<1>3. /\ m \in State /\ m.ask = a /\ m.stack = x.stack
      /\ OfDisc(m) = OfDisc(x) /\ OfWatch(m) = OfWatch(x)
      /\ OfShow(m) = OfShow(x) /\ OfText(m) = OfText(x)
      /\ OfKids(m) = OfKids(x) /\ OfList(m) = OfList(x)
  BY <1>2, SetAsk
<1> HIDE DEF m
<1>4. /\ m.kids = x.kids /\ m.pid = x.pid /\ m.pipe = x.pipe /\ m.dlg = x.dlg
      /\ m.qmode = x.qmode /\ m.reload_btn = x.reload_btn
      /\ m.disc = x.disc /\ m.open = x.open /\ m.timer = x.timer
      /\ m.looked = x.looked
  BY <1>3 DEF OfKids, OfList, OfDisc, OfShow
<1>5. Inv(m, env)
  BY <1>2, <1>3, <1>4, KeptInv
<1> QED BY <1>1, <1>5, ToInv

LEMMA CancelledStep ==
  ASSUME Inv(x, env), Cancelled PROVE Inv(x, env)'
<1> DEFINE D == x.dlg \ {"reg"}
           m == [x EXCEPT !.dlg = D]
<1>1. /\ Event /\ x.ask = "no"
      /\ To(m) \/ (MayFork(x) /\ To(HistNew(AuthCancelled(x), "user")))
  BY DEF Cancelled, Answer, AuthCancelled
<1>2. x \in State /\ D \subseteq x.dlg /\ D = x.dlg \ {"reg"}
  BY InvHeld
<1> HIDE DEF D
<1>3. /\ m \in State /\ m.dlg = D /\ m.qmode = x.qmode
      /\ m.reload_btn = x.reload_btn /\ m.ask = x.ask /\ m.stack = x.stack
      /\ OfDisc(m) = OfDisc(x) /\ OfWatch(m) = OfWatch(x) /\ OfText(m) = OfText(x)
      /\ OfKids(m) = OfKids(x) /\ OfList(m) = OfList(x)
  BY <1>2, SetDlg
<1> HIDE DEF m
<1>4. /\ m.kids = x.kids /\ m.pid = x.pid /\ m.pipe = x.pipe
      /\ m.disc = x.disc /\ m.open = x.open /\ m.timer = x.timer
      /\ m.looked = x.looked
  BY <1>3 DEF OfKids, OfList, OfDisc
<1>5. Inv(m, env)
  BY <1>2, <1>3, <1>4, KeptInv
<1>6. ASSUME MayFork(x) PROVE Inv(HistNew(AuthCancelled(x), "user"), env)
  <2>1. Calmed(env) => Idle(x)
    BY <1>1, EventIdle
  <2>2. "helper" \notin env => x.pid = 0
    BY <1>6 DEF MayFork
  <2> QED BY <1>1, <2>1, <2>2, AuthCancelledInv
<1> QED BY <1>1, <1>5, <1>6, ToInv

LEMMA MatchChosenStep ==
  ASSUME Inv(x, env), MatchChosen PROVE Inv(x, env)'
<1>1. PICK tag \in {0, 1} : To(MatchselOk(x, tag, "user"))
  BY DEF MatchChosen, Answer
<1>2. Event /\ x.ask = "no"
  BY DEF MatchChosen, Answer
<1>3. Calmed(env) => Idle(x)
  BY <1>2, EventIdle
<1>4. "helper" \notin env /\ Rejected(x) => x.pid = 0
  BY DEF MatchChosen, Answer, MayFork
<1>5. Inv(MatchselOk(x, tag, "user"), env)
  BY <1>2, <1>3, <1>4, ChosenInv
<1> QED BY <1>1, <1>5, ToInv

LEMMA EjectStep ==
  ASSUME Inv(x, env), Eject PROVE Inv(x, env)'
<1>1. Calm /\ To(LoadEject(x, Close))
  BY DEF Eject
<1>2. Close \in BOOLEAN
  BY DEF Close
<1>3. "calm" \in env => x.stack = <<>>
  BY <1>1 DEF Calm
<1>4. Inv(LoadEject(x, Close), env)
  BY <1>3, <1>2, LoadEjectInv
<1> QED BY <1>1, <1>4, ToInv

LEMMA DbmodeIndStep ==
  ASSUME Inv(x, env), DbmodeInd PROVE Inv(x, env)'
<1> DEFINE q == IF x.qmode = "WAIT" THEN "stop" ELSE "reload"
<1>1. Event /\ x.ask = "no" /\ (x.qmode = "WAIT" \/ Calm)
  BY DEF DbmodeInd, Command
<1>2. To(Asking(x, q))
  BY DEF DbmodeInd, Asking
<1>3. q \in {"stop", "reload"} /\ (q = "reload" => x.qmode # "WAIT")
  OBVIOUS
<1> HIDE DEF q
<1>4. "calm" \in env /\ q = "reload" => x.stack = <<>>
  BY <1>1, <1>3 DEF Calm
<1>5. Calmed(env) => Idle(x)
  BY <1>1, EventIdle
<1>6. Inv(Asking(x, q), env)
  BY <1>1, <1>3, <1>4, <1>5, AskInv
<1> QED BY <1>2, <1>6, ToInv

(* The drive is looked at, by a command or by the timer. *)
LEMMA OtherCommandStep ==
  ASSUME Inv(x, env), OtherCommand PROVE Inv(x, env)'
<1>1. Room(x) /\ (x.drive = NoDisc => Calm) /\ To(DiscReady(x, "ready", Close))
  BY DEF OtherCommand, Command
<1>2. Close \in BOOLEAN
  BY DEF Close
<1>3. x.drive = NoDisc /\ "calm" \in env => x.stack = <<>>
  BY <1>1 DEF Calm
<1>4. x \in State
  BY InvHeld
<1>5. Polled(x, x, "ready")
  BY <1>4 DEF Polled
<1>6. Inv(DiscReady(x, "ready", Close), env)
  BY <1>1, <1>3, <1>5, <1>2, RoomFree, DiscReadyInv
<1> QED BY <1>1, <1>6, ToInv

LEMMA InsertPollStep ==
  ASSUME Inv(x, env), InsertPoll PROVE Inv(x, env)'
<1> DEFINE t == FALSE
           v == [x EXCEPT !.timer = t]
<1>1. Room(x) /\ (x.drive = NoDisc => Calm) /\ To(DiscReady(v, "insert", Close))
  BY DEF InsertPoll
<1>2. Close \in BOOLEAN
  BY DEF Close
<1>3. x.drive = NoDisc /\ "calm" \in env => x.stack = <<>>
  BY <1>1 DEF Calm
<1>4. x \in State /\ t \in BOOLEAN /\ ~t
  BY InvHeld
<1> HIDE DEF t
<1>5. /\ v \in State /\ v.timer = t /\ v.stack = x.stack /\ v.ask = x.ask
      /\ v.disc = x.disc /\ v.drive = x.drive /\ v.open = x.open
      /\ v.looked = x.looked
      /\ OfWatch(v) = OfWatch(x) /\ OfShow(v) = OfShow(x) /\ OfText(v) = OfText(x)
      /\ OfKids(v) = OfKids(x) /\ OfList(v) = OfList(x)
  BY <1>4, SetTimer
<1> HIDE DEF v
<1>6. Polled(x, v, "insert")
  BY <1>4, <1>5 DEF Polled
<1>7. Inv(DiscReady(v, "insert", Close), env)
  BY <1>1, <1>3, <1>6, <1>2, RoomFree, DiscReadyInv
<1> QED BY <1>1, <1>7, ToInv

(* The innermost call goes on. *)
LEMMA GoesOnFacts ==
  ASSUME Inv(x, env), GoesOn PROVE x.stack # <<>> /\ Top = x.stack[1]
<1>1. x.stack \in Seq(Frame) /\ x.stack # <<>>
  BY InvHeld, Fields DEF GoesOn
<1> QED BY <1>1, PopSeq DEF Top

LEMMA ReadStep ==
  ASSUME Inv(x, env), Read PROVE Inv(x, env)'
<1>1. GoesOn /\ Top.at = "read" /\ To(ReadPipe(x, Single))
  BY DEF Read
<1>2. x.stack # <<>> /\ x.stack[1].at = "read"
  BY <1>1, GoesOnFacts
<1>3. Single \in BOOLEAN
  BY DEF Single
<1>4. Inv(ReadPipe(x, Single), env)
  BY <1>2, <1>3, ReadPipeInv
<1> QED BY <1>1, <1>4, ToInv

LEMMA RestStep ==
  ASSUME Inv(x, env), Rest PROVE Inv(x, env)'
<1>1. GoesOn /\ Top.at = "rest" /\ To(ReadRest(x, Single))
  BY DEF Rest
<1>2. x.stack # <<>> /\ x.stack[1].at = "rest"
  BY <1>1, GoesOnFacts
<1>3. Single \in BOOLEAN
  BY DEF Single
<1>4. Inv(ReadRest(x, Single), env)
  BY <1>2, <1>3, ReadRestInv
<1> QED BY <1>1, <1>4, ToInv

LEMMA WaitStep ==
  ASSUME Inv(x, env), Wait PROVE Inv(x, env)'
<1>1. GoesOn /\ Top.at = "wait" /\ To(Waitchild(x, Single))
  BY DEF Wait
<1>2. x.kids[Top.pid].st = "done"
  BY <1>1 DEF GoesOn, Dialogs
<1>3. x.stack # <<>> /\ x.stack[1].at = "wait" /\ x.kids[x.stack[1].pid].st = "done"
  BY <1>1, <1>2, GoesOnFacts
<1>4. Single \in BOOLEAN
  BY DEF Single
<1>5. Inv(Waitchild(x, Single), env)
  BY <1>3, <1>4, WaitchildInv
<1> QED BY <1>1, <1>5, ToInv

LEMMA ClosedStep ==
  ASSUME Inv(x, env), Closed PROVE Inv(x, env)'
<1> DEFINE f == x.stack[1]
<1>1. GoesOn /\ Top.at \in Dialogs \cup {"ask"} /\ To(Ended(x, Top))
  BY DEF Closed, Ended
<1>2. x.stack # <<>> /\ Top = f
  BY <1>1, GoesOnFacts
<1>3. x.dlg \subseteq Dialogs
  BY InvHeld, Fields
<1>4. f.at \notin x.dlg /\ (f.at = "ask" => x.ask = "no")
  BY <1>1, <1>2, <1>3 DEF GoesOn, Dialogs
<1>5. Inv(Ended(x, f), env)
  BY <1>1, <1>2, <1>4, ClosedInv
<1> HIDE DEF f
<1> QED BY <1>1, <1>2, <1>5, ToInv

LEMMA AddedStep ==
  ASSUME Inv(x, env), Added PROVE Inv(x, env)'
<1> DEFINE f == x.stack[1]
<1>1. x.stack # <<>> /\ Top.at = "hist" /\ To(Return(WithoutPid(Pop(x)), Top.by))
  BY DEF Added, WithoutPid
<1>2. Top = f
  BY <1>1, InvHeld, Fields, PopSeq DEF Top
<1>3. Inv(Return(WithoutPid(Pop(x)), f.by), env)
  BY <1>1, <1>2, AddedInv
<1> HIDE DEF f
<1> QED BY <1>1, <1>2, <1>3, ToInv

(* The child writes, waits for the choice, or ends. *)
Selects(k) == [x EXCEPT !.kids[k].st = "select", !.kids[k].out = "list"]
LEMMA WritesStep ==
  ASSUME Inv(x, env), NEW k \in Slot, Running(x, k), x.kids[k].out = "empty",
         NEW out \in {"list", "match", "none", "reg"},
         To(Writes(k, out)) PROVE Inv(x, env)'
<1>1. x \in State
  BY InvHeld
<1>2. PICK m : /\ Wrote(x, k, m, "done", out) /\ Writes(k, out) = WithKid(x, k, m)
  <2> DEFINE s == "done"
             z == Written(x, k, s, out)
  <2>1. s \in {"done", "select"} /\ out \in {"empty", "list", "match", "none", "reg"}
    OBVIOUS
  <2>2. z = Writes(k, out) /\ s = "done"
    BY DEF Writes, Written
  <2> HIDE DEF s
  <2>3. PICK m : Wrote(x, k, m, s, out) /\ z = WithKid(x, k, m)
    BY <1>1, <2>1, KidWrote
  <2> HIDE DEF z
  <2> QED BY <2>2, <2>3
<1>3. Inv(WithKid(x, k, m), env)
  BY <1>2, ChildInv
<1> QED BY <1>2, <1>3, ToInv

LEMMA SelectsStep ==
  ASSUME Inv(x, env), NEW k \in Slot, Running(x, k), x.kids[k].out = "empty",
         To(Selects(k)) PROVE Inv(x, env)'
<1>1. x \in State
  BY InvHeld
<1>2. PICK m : /\ Wrote(x, k, m, "select", "list") /\ Selects(k) = WithKid(x, k, m)
  <2> DEFINE s == "select"
             o == "list"
             z == Written(x, k, s, o)
  <2>1. s \in {"done", "select"} /\ o \in {"empty", "list", "match", "none", "reg"}
    OBVIOUS
  <2>2. z = Selects(k) /\ s = "select" /\ o = "list"
    BY DEF Selects, Written
  <2> HIDE DEF s, o
  <2>3. PICK m : Wrote(x, k, m, s, o) /\ z = WithKid(x, k, m)
    BY <1>1, <2>1, KidWrote
  <2> HIDE DEF z
  <2> QED BY <2>2, <2>3
<1>3. Inv(WithKid(x, k, m), env)
  <2> DEFINE o == "list"
  <2>1. (o \in {"match", "none", "reg"} => "select" = "done") /\ Wrote(x, k, m, "select", o)
    BY <1>2
  <2> HIDE DEF o
  <2> QED BY <2>1, ChildInv
<1> QED BY <1>2, <1>3, ToInv

LEMMA ExitsStep ==
  ASSUME Inv(x, env), NEW k \in Slot, Running(x, k), x.kids[k].out = "empty",
         NEW code \in {"auth", "err"}, To(Exits(k, code)) PROVE Inv(x, env)'
<1>1. x \in State
  BY InvHeld
<1>2. PICK m : /\ Wrote(x, k, m, "done", x.kids[k].out)
               /\ Exits(k, code) = WithKid(x, k, m)
  <2> DEFINE z == Exited(x, k, code)
  <2>1. code \in {"ok", "auth", "err"}
    OBVIOUS
  <2>2. z = Exits(k, code)
    BY DEF Exits, Exited
  <2>3. PICK m : Wrote(x, k, m, "done", x.kids[k].out) /\ z = WithKid(x, k, m)
    BY <1>1, <2>1, KidExits
  <2> HIDE DEF z
  <2> QED BY <2>2, <2>3
<1>3. Inv(WithKid(x, k, m), env)
  BY <1>2, ChildInv
<1> QED BY <1>2, <1>3, ToInv

LEMMA ChildStep ==
  ASSUME Inv(x, env), NEW k \in Slot, Child(k) PROVE Inv(x, env)'
<1>1. Running(x, k) /\ x.kids[k].out = "empty"
  BY DEF Child, Running
<1>2. \/ \E out \in {"list", "match", "none", "reg"} : To(Writes(k, out))
      \/ \E code \in {"auth", "err"} : To(Exits(k, code))
      \/ To(Selects(k))
  BY DEF Child, Selects
<1>3. CASE \E out \in {"list", "match", "none", "reg"} : To(Writes(k, out))
  BY <1>1, <1>3, WritesStep
<1>4. CASE \E code \in {"auth", "err"} : To(Exits(k, code))
  BY <1>1, <1>4, ExitsStep
<1>5. CASE To(Selects(k))
  BY <1>1, <1>5, SelectsStep
<1> QED BY <1>2, <1>3, <1>4, <1>5

(* The disc in the drive is another. *)
InDrive(d) == [x EXCEPT !.drive = d]
LEMMA DriveStep ==
  ASSUME Inv(x, env), NEW d \in Disc \cup {NoDisc}, To(InDrive(d)) PROVE Inv(x, env)'
<1> DEFINE m == [x EXCEPT !.drive = d]
<1>1. To(m)
  BY DEF InDrive
<1>2. x \in State
  BY InvHeld
<1>3. /\ m \in State /\ m.disc = x.disc /\ m.open = x.open
      /\ m.timer = x.timer /\ m.looked = x.looked
      /\ OfWatch(m) = OfWatch(x) /\ OfShow(m) = OfShow(x) /\ OfText(m) = OfText(x)
      /\ OfKids(m) = OfKids(x) /\ OfList(m) = OfList(x)
      /\ m.ask = x.ask /\ m.stack = x.stack
  BY <1>2, SetDrive
<1> HIDE DEF m
<1>4. /\ m.kids = x.kids /\ m.pid = x.pid /\ m.dlg = x.dlg /\ m.qmode = x.qmode
      /\ m.reload_btn = x.reload_btn /\ m.pipe = x.pipe
  BY <1>3 DEF OfKids, OfShow, OfList
<1>5. Inv(m, env)
  BY <1>3, <1>4, KeptInv
<1> QED BY <1>1, <1>5, ToInv

LEMMA RemoveStep ==
  ASSUME Inv(x, env), Remove PROVE Inv(x, env)'
<1>1. To(InDrive(NoDisc))
  BY DEF Remove, InDrive
<1> QED BY <1>1, DriveStep

LEMMA InsertStep ==
  ASSUME Inv(x, env), Insert PROVE Inv(x, env)'
<1>1. PICK d \in Disc : To(InDrive(d))
  BY DEF Insert, InDrive
<1> QED BY <1>1, DriveStep
-----------------------------------------------------------------------------
(* The behaviours. *)
Whole == env \in Settings /\ ops \in 0..MaxOps /\ Inv(x, env)

LEMMA Initial == Init => Whole
<1> SUFFICES ASSUME Init PROVE Whole
  OBVIOUS
<1> DEFINE e == <<>>
           K == [k \in Slot |-> FreeKid]
<1>1. env \in Settings /\ ops \in 0..MaxOps
  BY SettingsAssumption DEF Init
<1>2. e \in Seq(Disc) /\ e \in Seq(Frame) /\ Len(e) = 0
  OBVIOUS
<1>3. K \in [Slot -> Kid] /\ \A k \in Slot : K[k].st = "free" /\ K[k].out = "empty"
  <2>1. FreeKid \in Kid /\ FreeKid.st = "free" /\ FreeKid.out = "empty"
    BY DEF FreeKid, Kid
  <2> HIDE DEF FreeKid
  <2> QED BY <2>1
<1>4. x = [disc |-> NoDisc, drive |-> NoDisc, open |-> FALSE,
           polling |-> TRUE, timer |-> TRUE, reloads |-> 0, loaded |-> FALSE,
           qmode |-> "NONE", reload_btn |-> FALSE, info |-> e, match |-> FALSE,
           needreg |-> FALSE, list |-> 0, tag |-> -1, pipe |-> 0, pid |-> 0,
           stack |-> e, dlg |-> {}, ask |-> "no", kids |-> K, looked |-> NoDisc,
           hist |-> NoDisc]
  BY DEF Init
<1>5. e = <<>>
  OBVIOUS
<1> HIDE DEF e, K
<1>6. x \in State
  BY <1>2, <1>3, <1>4 DEF State, Asks
<1>7. /\ x.stack = e /\ x.info = e /\ x.kids = K /\ x.dlg = {} /\ x.ask = "no"
      /\ x.pid = 0 /\ x.pipe = 0 /\ x.disc = NoDisc /\ x.timer /\ ~x.loaded
      /\ x.qmode = "NONE" /\ ~x.match
  BY <1>4
<1>8. \A k \in Slot : ~Running(x, k) /\ x.kids[k].out = "empty"
  BY <1>3, <1>7 DEF Running
<1>9. \A i \in 1..Len(x.stack) : FALSE
  BY <1>2, <1>7
<1>10. Typed(x)
  BY <1>6, <1>7, <1>8, <1>9 DEF Typed, Frames, Live
<1>11. Waits(x) /\ Shown(x)
  BY <1>7 DEF Waits, Able, Shown
<1>12. One(x)
  BY <1>7, <1>8 DEF One, Only, AllGuarded
<1>13. Watch(x, "user") /\ Looked(x)
  BY <1>7, <1>9 DEF Watch, Looked
<1>14. Source(x) /\ Later(x)
  BY <1>5, <1>7, <1>8, <1>9 DEF Source, Text0, Children, Calls, Later
<1> QED BY <1>1, <1>10, <1>11, <1>12, <1>13, <1>14 DEF Whole, Inv

LEMMA NextInv ==
  ASSUME Inv(x, env), Next PROVE Inv(x, env)'
<1>1. \/ Eject \/ Inetoffln \/ DbmodeInd \/ Load \/ OtherCommand \/ Helper
      \/ Yes \/ No \/ MatchChosen \/ UserregOk \/ AuthOk \/ Cancelled
      \/ InsertPoll \/ ReloadTimer \/ Read \/ Rest \/ Wait \/ Closed \/ Added
      \/ (\E k \in Slot : Child(k)) \/ Remove \/ Insert
  BY DEF Next
<1> QED BY <1>1, EjectStep, InetofflnStep, DbmodeIndStep, LoadStep, OtherCommandStep,
           HelperStep, YesStep, NoStep, MatchChosenStep, UserregOkStep, AuthOkStep,
           CancelledStep, InsertPollStep, ReloadTimerStep, ReadStep, RestStep,
           WaitStep, ClosedStep, AddedStep, ChildStep, RemoveStep, InsertStep

(* The settings of a run stay, and what the user does is counted. *)
LEMMA NextOps ==
  ASSUME ops \in 0..MaxOps, Next PROVE env' = env /\ ops' \in 0..MaxOps
<1>1. \A y : To(y) => env' = env
  BY DEF To
<1>2. Counted => ops' \in 0..MaxOps
  BY SettingsAssumption DEF Counted
<1>3. CASE Eject \/ Inetoffln \/ DbmodeInd \/ Load \/ OtherCommand \/ Helper \/ Remove
  BY <1>1, <1>2, <1>3
     DEF Eject, Inetoffln, DbmodeInd, Load, OtherCommand, Helper, Remove, Command
<1>4. CASE Yes \/ No \/ MatchChosen \/ UserregOk \/ AuthOk \/ Cancelled
  BY <1>1, <1>4 DEF Yes, No, MatchChosen, UserregOk, AuthOk, Cancelled, Answer
<1>5. CASE \/ InsertPoll \/ ReloadTimer \/ Read \/ Rest \/ Wait \/ Closed \/ Added
           \/ (\E k \in Slot : Child(k)) \/ Insert
  BY <1>1, <1>5
     DEF InsertPoll, ReloadTimer, Read, Rest, Wait, Closed, Added, Child, Insert
<1> QED BY <1>3, <1>4, <1>5 DEF Next

LEMMA WholeAlways == Spec => []Whole
<1>1. ASSUME Whole, [Next]_vars PROVE Whole'
  <2>1. CASE Next
    BY <1>1, <2>1, NextInv, NextOps DEF Whole
  <2>2. CASE UNCHANGED vars
    BY <1>1, <2>2 DEF Whole, vars
  <2> QED BY <1>1, <2>1, <2>2
<1> QED BY Initial, <1>1, PTL DEF Spec

(* Type correctness: what the program knows of the disc, its calls under   *)
(* way and its children stay what they are said to be.                     *)
THEOREM DiscInfoTypeCorrect == Spec => []TypeOK
<1>1. Whole => TypeOK
  BY InvHeld DEF Whole, TypeOK
<1> QED BY <1>1, WholeAlways, PTL

(* At most one lookup runs, and it is the one whose pid the program has:   *)
(* dbprog_dbget clears, and so cancels, the last one before it forks, and  *)
(* an eject or Stop load finds the child it is to kill.  "helper": unless  *)
(* another child was forked meanwhile, the history's or another program's. *)
THEOREM OneLookupHolds == Spec => []OneLookup
<1>1. Whole => OneLookup
  <2> SUFFICES ASSUME Inv(x, env), "helper" \notin env, NEW k \in Slot,
                      x.kids[k].st \in {"query", "select"}
               PROVE  x.pid = k
    BY DEF Whole, OneLookup
  <2>1. One(x)
    BY DEF Inv
  <2> QED BY <2>1 DEF One, Only, Running
<1> QED BY <1>1, WholeAlways, PTL

(* Whatever lookups were cancelled, nested and begun anew while a pipe was *)
(* read, a disc that is shown as matched in the main loop is described by  *)
(* its own text, read once (cdinfo_load adds to what the structure holds). *)
THEOREM RightInfoHolds == Spec => []RightInfo
<1>1. Whole => RightInfo
  <2> SUFFICES ASSUME Inv(x, env), Calmly, x.qmode = "MATCH"
               PROVE  x.info = <<x.disc>>
    BY DEF Whole, RightInfo
  <2>1. Text0(x)
    BY DEF Inv, Source, Calmly, Calmed
  <2> QED BY <2>1 DEF Text0
<1> QED BY <1>1, WholeAlways, PTL

(* No disc is passed over: back in the main loop the program has looked    *)
(* up the disc it knows of, or its insert poll timer is set.               *)
THEOREM WatchedHolds == Spec => []Watched
<1>1. Whole => Watched
  <2> SUFFICES ASSUME Inv(x, env), Calmly
               PROVE  IF x.disc = NoDisc THEN x.timer ELSE x.looked = x.disc
    BY DEF Whole, Watched
  <2>1. Watch(x, "user") /\ Looked(x)
    BY DEF Inv, Calmly
  <2> QED BY <2>1 DEF Watch, Looked
<1> QED BY <1>1, WholeAlways, PTL

(* Back in the main loop the program awaits no answer, shows no question   *)
(* and takes the command to look up a disc again that it has looked up:    *)
(* each of the ends of dbget, dbprog_matchsel and the dialogs has set back *)
(* what its beginning had set.                                             *)
THEOREM ReloadableHolds == Spec => []Reloadable
<1>1. Whole => Reloadable
  <2> SUFFICES ASSUME Inv(x, env), x.stack = <<>>
               PROVE  /\ x.qmode # "WAIT" /\ x.dlg = {} /\ x.ask = "no"
                      /\ x.disc # NoDisc /\ x.looked = x.disc => x.reload_btn
    BY DEF Whole, Reloadable
  <2>1. Waits(x) /\ Shown(x) /\ x.dlg \subseteq Dialogs
    BY InvHeld, Fields DEF Inv
  <2>2. \A S : ~At(x.stack, S)
    BY DEF At
  <2> QED BY <2>1, <2>2 DEF Waits, Able, Shown
<1> QED BY <1>1, WholeAlways, PTL
=============================================================================
