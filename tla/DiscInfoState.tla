---------------------------- MODULE DiscInfoState ----------------------------
(***************************************************************************)
(* What xmcd knows about the disc: the state that the lookup of disc       *)
(* information works on, and the functions that change it, written as      *)
(* functions from a state x to the next one.  A lookup is a child process  *)
(* that writes what it finds into a pipe; the parent reads it inside an    *)
(* event loop, so that any callback or timer may run in the middle of it,  *)
(* and the lookups, lists and questions that are under way form a stack of *)
(* calls (x.stack, the innermost first).                                   *)
(***************************************************************************)
EXTENDS Naturals, Integers, Sequences

CONSTANTS Disc,     \* the discs
          NoDisc,   \* no disc
          MaxLoads, \* bound on the children alive at a time
          MaxDepth  \* bound on the calls under way when another begins

ASSUME DiscAssumption ==
  NoDisc \notin Disc /\ MaxLoads \in Nat \ {0} /\ MaxDepth \in Nat \ {0}

Slot    == 1..MaxLoads
Caller  == {"insert", "ready", "user"}
Asks    == {"no", "stop", "reload"}
Dialogs == {"match", "reg", "auth"}
Frame   == [at : {"read", "rest", "wait", "hist", "ask"} \cup Dialogs,
            kid : {0} \cup Slot, pid : {0} \cup Slot, by : Caller, sel : BOOLEAN]
Kid     == [st : {"free", "query", "select", "done"}, disc : Disc \cup {NoDisc},
            out : {"empty", "list", "match", "none", "reg"},
            code : {"ok", "auth", "err"}, sel : {"unset", "none", "one"}]
FreeKid == [st |-> "free", disc |-> NoDisc, out |-> "empty", code |-> "ok",
            sel |-> "unset"]

(* disc: the disc the program has read (none: MOD_NODISC); drive: the one  *)
(* in the drive.  pipe: the child whose pipes sav_rpp and sav_spp are;     *)
(* pid: child_pid.  list: the child whose list of matches the structure    *)
(* holds; info: the discs whose texts it holds, in the order read; hist:   *)
(* the disc at the head of the history.                                    *)
State ==
  [disc : Disc \cup {NoDisc}, drive : Disc \cup {NoDisc}, open : BOOLEAN,
   polling : BOOLEAN, timer : BOOLEAN, reloads : Nat, loaded : BOOLEAN,
   qmode : {"NONE", "WAIT", "MATCH", "ERR"}, reload_btn : BOOLEAN,
   info : Seq(Disc), match : BOOLEAN, needreg : BOOLEAN,
   list : {0} \cup Slot, tag : {-1, 0, 1}, pipe : {0} \cup Slot,
   pid : {0} \cup Slot, stack : Seq(Frame), dlg : SUBSET Dialogs,
   ask : Asks, kids : [Slot -> Kid], looked : Disc \cup {NoDisc},
   hist : Disc \cup {NoDisc}]
-----------------------------------------------------------------------------
(* The stack of calls. *)
Push(x, f) == [x EXCEPT !.stack = <<f>> \o @]
Pop(x)     == [x EXCEPT !.stack = Tail(@)]
Call(at, kid, by) ==
  [at |-> at, kid |-> kid, pid |-> kid, by |-> by, sel |-> FALSE]

(* The end of a call of dbget, for the one who asked for it. *)
Return(x, by) ==
  [x EXCEPT !.loaded = @ \/ by # "user", !.polling = @ /\ by # "insert"]

Cancel(x) ==
  IF x.pid = 0 THEN x ELSE [x EXCEPT !.kids[x.pid].st = "done", !.pid = 0]

FreeMatchlist(x) == [x EXCEPT !.list = 0, !.tag = -1, !.pipe = 0]

(* Mutants: the lookup is not cancelled; the text is not cleared. *)
CdinfoClearKeeps(x) ==
  FreeMatchlist([x EXCEPT !.info = <<>>, !.match = FALSE, !.needreg = FALSE])
CdinfoClearText(x) ==
  FreeMatchlist([Cancel(x) EXCEPT !.match = FALSE, !.needreg = FALSE])
CdinfoClear(x) ==
  FreeMatchlist([Cancel(x) EXCEPT !.info = <<>>, !.match = FALSE,
                                  !.needreg = FALSE])

(* Without a disc there is nothing to look up. *)
Dbclear(x) ==
  [CdinfoClear(x) EXCEPT !.qmode = "NONE", !.reload_btn = @ /\ x.disc # NoDisc]

(* Mutant: the next disc passes for looked up. *)
ClearCdinfoOnly(x) == Dbclear(x)
ClearCdinfo(x) == [Dbclear(x) EXCEPT !.loaded = FALSE]
-----------------------------------------------------------------------------
(* The lookup (dbprog_dbget and cdinfo_load): a child is started and its   *)
(* pipe is read; without a disc there is nothing to look up.               *)
Room(x) ==
  Len(x.stack) < MaxDepth /\ \E k \in Slot : x.kids[k].st = "free"
NewKid(x) == CHOOSE k \in Slot : x.kids[k].st = "free"

(* Both ends of a load: the question whether to stop it is taken away. *)
StopAsked(x) == [x EXCEPT !.ask = IF @ = "stop" THEN "no" ELSE @]

Outcome(x, code) ==
  CASE code # "ok" -> "ERR"
    [] code = "ok" /\ x.match -> "MATCH"
    [] code = "ok" /\ ~x.match -> "NONE"

Start(x, k, by) ==
  Push([x EXCEPT !.kids[k] = [FreeKid EXCEPT !.st = "query", !.disc = x.disc],
                 !.pid = k],
       Call("read", k, by))

DbGet(x, by) ==
  LET y == [Dbclear(x) EXCEPT !.qmode = "WAIT", !.reload_btn = FALSE,
                              !.looked = x.disc]
  IN  IF x.disc = NoDisc
        THEN Return([StopAsked(y) EXCEPT !.qmode = "ERR", !.reload_btn = TRUE], by)
        ELSE Start(y, NewKid(y), by)

(* The end of a lookup enters the disc into the history: a child writes    *)
(* the entry to the file, unless it is there already, and is waited for    *)
(* within an event loop.  child_pid is then the history's child's: 0 here, *)
(* as there is no lookup that it names.                                    *)
HistNew(x, by) ==
  IF x.disc # NoDisc /\ x.hist # x.disc
    THEN Push([x EXCEPT !.pid = 0, !.hist = x.disc], Call("hist", 0, by))
    ELSE Return(x, by)

(* Mutant: the reload button stays insensitive. *)
LoadDoneGrey(x, code, by) ==
  HistNew([StopAsked(x) EXCEPT !.qmode = Outcome(x, code)], by)
LoadDone(x, code, by) ==
  HistNew([StopAsked(x) EXCEPT !.qmode = Outcome(x, code), !.reload_btn = TRUE], by)

(* The user's choice from the list, or the only entry, goes to the child   *)
(* that waits for it, and what it then finds is read.                      *)
(* Mutant: "none of the above" is not told to the child. *)
ChooseOne(x, tag) ==
  IF tag = 0 THEN x ELSE [x EXCEPT !.kids[x.pipe].sel = "one"]
Choose(x, tag) ==
  [x EXCEPT !.kids[x.pipe].sel = IF tag = 0 THEN "none" ELSE "one"]
Rejected(x) == x.pipe = 0 \/ x.pid = 0
MatchselOk(x, tag, by) ==
  LET y == [x EXCEPT !.dlg = @ \ {"match"}, !.tag = tag,
                     !.qmode = IF tag = 0 THEN "NONE" ELSE "WAIT"]
  IN  CASE Rejected(x) -> LoadDone(y, "err", by)
        [] ~Rejected(x) /\ x.kids[x.pipe].st = "done" ->
             LoadDone(FreeMatchlist(Cancel(y)), "err", by)
        [] ~Rejected(x) /\ x.kids[x.pipe].st # "done" ->
             Push(FreeMatchlist(Choose(y, tag)),
                  [Call("read", x.pipe, by) EXCEPT !.pid = x.pid, !.sel = TRUE])

(* What dbget does with the result of the load. *)
Popup(x, dialog, by) ==
  Push([x EXCEPT !.qmode = "NONE", !.dlg = @ \cup {dialog}], Call(dialog, 0, by))
Finish(x, code, by, single) ==
  LET y == StopAsked(x)
  IN  CASE code = "auth" -> Popup(y, "auth", by)
        [] code = "ok" /\ x.list # 0 ->
             IF single THEN MatchselOk(y, 1, by) ELSE Popup(y, "match", by)
        [] code = "ok" /\ x.list = 0 /\ x.needreg -> Popup(y, "reg", by)
        [] OTHER -> LoadDone(y, code, by)
-----------------------------------------------------------------------------
(* Reading the pipe.  What is read is added to what the structure holds    *)
(* (cdinfo_getline).  The first entries are the flags; events are handled  *)
(* between two pieces, so the text comes in two: the second begins anew    *)
(* where the first was cleared.                                            *)
Text(x, first) ==
  LET k == x.kids[x.stack[1].kid]
  IN  [x EXCEPT !.info = IF k.out = "match" /\ (first \/ @ = <<>>)
                           THEN Append(@, k.disc) ELSE @]
Consumed(x) == [x EXCEPT !.kids[x.stack[1].kid].out = "empty"]

(* The end of the reading: dbget returns to show the list, with the child  *)
(* still running, or the child's end is waited for.                        *)
EndRead(x, single) ==
  LET f == x.stack[1]
  IN  IF ~f.sel /\ x.list # 0
        THEN Finish([Pop(x) EXCEPT !.tag = 0, !.pipe = f.kid], "ok", f.by, single)
        ELSE [x EXCEPT !.stack[1].at = "wait"]

ReadPipe(x, single) ==
  LET k == x.kids[x.stack[1].kid]
  IN  CASE k.out = "empty" -> EndRead(x, single)
        [] k.out = "list" ->
             EndRead([Consumed(x) EXCEPT !.list = x.stack[1].kid, !.match = FALSE],
                     single)
        [] OTHER ->
             [Text(x, TRUE) EXCEPT !.match = k.out = "match",
                                   !.needreg = k.out = "reg",
                                   !.stack[1].at = "rest"]
ReadRest(x, single) == EndRead(Consumed(Text(x, FALSE)), single)

Waitchild(x, single) ==
  LET f == x.stack[1]
      y == [Pop(x) EXCEPT !.pid = 0]
  IN  IF f.sel THEN LoadDone(y, x.kids[f.pid].code, f.by)
               ELSE Finish(y, x.kids[f.pid].code, f.by, single)
-----------------------------------------------------------------------------
(* The drive: is there a disc, and is it a new one. *)
StartInsertPoll(x) == [x EXCEPT !.timer = @ \/ ~x.polling, !.polling = TRUE]

DiscReady(x, by, close) ==
  LET none == [x EXCEPT !.disc = NoDisc, !.looked = NoDisc, !.open = ~close]
      gone == IF x.open THEN ClearCdinfo(none) ELSE none
      new  == [x EXCEPT !.open = TRUE, !.disc = x.drive, !.looked = NoDisc,
                        !.pid = 0]
  IN  CASE x.drive = NoDisc ->
             [StartInsertPoll(gone) EXCEPT !.timer = @ \/ by = "insert"]
        [] x.drive # NoDisc /\ x.disc # NoDisc ->
             [x EXCEPT !.polling = @ /\ by # "insert"]
        [] x.drive # NoDisc /\ x.disc = NoDisc ->
             IF x.loaded THEN Return(new, by) ELSE DbGet(new, by)

(* The eject button: the running lookup is cancelled first. *)
LoadEject(x, close) ==
  LET y == Cancel(x)
  IN  IF ~x.open THEN y
      ELSE StartInsertPoll(ClearCdinfo([y EXCEPT
             !.disc = NoDisc, !.looked = NoDisc, !.drive = NoDisc, !.open = ~close]))
=============================================================================
