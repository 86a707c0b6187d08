------------------------------- MODULE DiscInfo -------------------------------
(***************************************************************************)
(* The lookup of disc information: the child that asks the databases, the  *)
(* parent that reads its answer within an event loop, the list of inexact  *)
(* matches, the questions and dialogs, the timers, and the user who ejects *)
(* the disc, asks for a reload or stops one at any moment between.         *)
(***************************************************************************)
EXTENDS DiscInfoState, FiniteSets

CONSTANTS Settings, \* sets of settings, see Setting
          MaxOps    \* bound on what the user and the disc do

Setting == SUBSET {"helper", "prompt", "calm", "close", "single"}

ASSUME SettingsAssumption == Settings \subseteq Setting /\ MaxOps \in Nat

VARIABLES x,    \* see State
          env,  \* the settings of this run of the program
          ops   \* how much the user and the disc have done

vars == <<x, env, ops>>

Init ==
  /\ x = [disc |-> NoDisc, drive |-> NoDisc, open |-> FALSE,
          polling |-> TRUE, timer |-> TRUE, reloads |-> 0, loaded |-> FALSE,
          qmode |-> "NONE", reload_btn |-> FALSE, info |-> <<>>, match |-> FALSE,
          needreg |-> FALSE, list |-> 0, tag |-> -1, pipe |-> 0, pid |-> 0,
          stack |-> <<>>, dlg |-> {}, ask |-> "no",
          kids |-> [k \in Slot |-> FreeKid], looked |-> NoDisc, hist |-> NoDisc]
  /\ env \in Settings
  /\ ops = 0
-----------------------------------------------------------------------------
Top == Head(x.stack)
Single == "single" \in env
Close == "close" \in env

(* The call on top of the stack can go on: there is something in its pipe  *)
(* or the child has ended, the dialog is down, the question answered.      *)
GoesOn ==
  /\ x.stack # <<>>
  /\ \/ /\ Top.at = "read"
        /\ x.kids[Top.kid].out # "empty" \/ x.kids[Top.kid].st = "done"
     \/ Top.at = "rest"
     \/ Top.at = "wait" /\ x.kids[Top.pid].st = "done"
     \/ Top.at \in Dialogs /\ Top.at \notin x.dlg
     \/ Top.at = "ask" /\ x.ask = "no"

(* A child is forgotten when it has ended and nothing refers to it. *)
Reap(y) ==
  LET used == {y.pid, y.pipe, y.list} \cup UNION {{f.kid, f.pid} : f \in
                {y.stack[i] : i \in DOMAIN y.stack}}
  IN  [y EXCEPT !.kids = [k \in Slot |->
         IF k \notin used /\ @[k].st = "done" THEN FreeKid ELSE @[k]]]
To(y) == x' = Reap(y) /\ UNCHANGED env

(* Events are handled when nothing runs and in the loops of the calls      *)
(* under way ("prompt": only when the call has nothing else to do).        *)
Event == "prompt" \in env => ~GoesOn
Counted == ops < MaxOps /\ ops' = ops + 1
(* What the user does in the windows that no modal dialog holds. *)
Command == Event /\ Room(x) /\ Counted /\ "match" \notin x.dlg /\ x.ask = "no"
(* "calm": the disc stays, no reload is due, and whether to reload is not  *)
(* asked, before the calls are over.                                       *)
Calm == "calm" \in env => x.stack = <<>>

Eject == Command /\ Calm /\ To(LoadEject(x, Close))
(* A helper is another child, forked and waited for (cdinfo_forkwait); its *)
(* pid replaces that of a running lookup ("helper": also while one runs).  *)
(* The history's child is another, and so is the one that deletes from it, *)
(* after which any disc may be at its head.                                *)
Forked(y) == [y EXCEPT !.pid = 0]
MayFork(y) == "helper" \in env \/ y.pid = 0
Inetoffln ==
  LET y == IF x.qmode = "WAIT" THEN [Cancel(x) EXCEPT !.reloads = @ + 1] ELSE x
  IN  Command /\ MayFork(y) /\ To(Forked(y))
DbmodeInd ==
  /\ Command /\ (x.qmode = "WAIT" \/ (x.reload_btn /\ Calm))
  /\ To(Push([x EXCEPT !.ask = IF x.qmode = "WAIT" THEN "stop" ELSE "reload"],
             Call("ask", 0, "user")))
Load == Command /\ x.reload_btn /\ x.disc # NoDisc /\ To(DbGet(x, "user"))
OtherCommand ==
  Command /\ (x.drive = NoDisc => Calm) /\ To(DiscReady(x, "ready", Close))
Helper ==
  /\ Command /\ MayFork(x)
  /\ \E d \in Disc \cup {NoDisc} : To([Forked(x) EXCEPT !.hist = d])
-----------------------------------------------------------------------------
(* The answers. *)
Answer(a) == Event /\ UNCHANGED ops /\ a
Yes == Answer(
  \/ x.ask = "stop" /\ To([Cancel(x) EXCEPT !.ask = "no"])
  \/ /\ x.ask = "reload" /\ Room(x)
     /\ LET y == [x EXCEPT !.ask = "no"]
        IN  To(IF x.disc = NoDisc THEN y ELSE DbGet(y, "user")))
No == Answer(x.ask # "no" /\ To([x EXCEPT !.ask = "no"]))
MatchChosen == Answer(
  /\ "match" \in x.dlg /\ x.ask = "no" /\ (Rejected(x) => MayFork(x))
  /\ \E tag \in {0, 1} : To(MatchselOk(x, tag, "user")))
UserregOk == Answer(
  /\ "reg" \in x.dlg /\ x.ask = "no" /\ "match" \notin x.dlg
  /\ Room(x) /\ MayFork(x)
  /\ LET y == Forked([x EXCEPT !.dlg = @ \ {"reg"}])
     IN  To(IF x.qmode = "MATCH" THEN y ELSE DbGet(Dbclear(y), "user")))
AuthOk == Answer(
  /\ "auth" \in x.dlg /\ x.ask = "no" /\ "match" \notin x.dlg /\ Room(x)
  /\ To(DbGet([x EXCEPT !.dlg = @ \ {"auth"}], "user")))
Cancelled == Answer(
  /\ x.ask = "no" /\ "match" \notin x.dlg
  /\ \/ "reg" \in x.dlg /\ To([x EXCEPT !.dlg = @ \ {"reg"}])
     \/ /\ "auth" \in x.dlg /\ MayFork(x)
        /\ To(HistNew([x EXCEPT !.dlg = @ \ {"auth"}, !.qmode = "NONE",
                                !.reload_btn = TRUE], "user")))
-----------------------------------------------------------------------------
(* The timers. *)
InsertPoll ==
  /\ Event /\ Room(x) /\ x.timer /\ (x.drive = NoDisc => Calm) /\ UNCHANGED ops
  /\ To(DiscReady([x EXCEPT !.timer = FALSE], "insert", Close))
ReloadTimer ==
  /\ Event /\ Room(x) /\ Calm /\ x.reloads > 0 /\ UNCHANGED ops
  /\ To(DbGet([x EXCEPT !.reloads = @ - 1], "user"))

(* The calls under way. *)
Read  == /\ GoesOn /\ Top.at = "read" /\ UNCHANGED ops /\ To(ReadPipe(x, Single))
Rest  == /\ GoesOn /\ Top.at = "rest" /\ UNCHANGED ops /\ To(ReadRest(x, Single))
Wait  == /\ GoesOn /\ Top.at = "wait" /\ UNCHANGED ops /\ To(Waitchild(x, Single))
Closed ==
  /\ GoesOn /\ Top.at \in Dialogs \cup {"ask"} /\ UNCHANGED ops
  /\ LET y == Pop(x)
     IN  To(CASE Top.at = "ask" -> y
              [] Top.at = "reg" -> HistNew([y EXCEPT !.reload_btn = TRUE], Top.by)
              [] OTHER -> Return(y, Top.by))
(* The history's child has ended, of itself or after srv_timeout. *)
Added ==
  /\ x.stack # <<>> /\ Top.at = "hist" /\ UNCHANGED ops
  /\ To(Return([Pop(x) EXCEPT !.pid = 0], Top.by))
-----------------------------------------------------------------------------
(* The child. *)
Writes(k, out) == [x EXCEPT !.kids[k].st = "done", !.kids[k].out = out]
Exits(k, code) == [x EXCEPT !.kids[k].st = "done", !.kids[k].code = code]
Child(k) ==
  /\ x.kids[k].out = "empty" /\ UNCHANGED ops
  /\ \/ /\ x.kids[k].st = "query"
        /\ \/ \E out \in {"match", "none", "reg"} : To(Writes(k, out))
           \/ \E code \in {"auth", "err"} : To(Exits(k, code))
           \/ To([x EXCEPT !.kids[k].st = "select", !.kids[k].out = "list"])
     \/ /\ x.kids[k].st = "select" /\ x.kids[k].sel = "one"
        /\ \/ \E out \in {"match", "list"} : To(Writes(k, out))
           \/ \E code \in {"auth", "err"} : To(Exits(k, code))
     \/ /\ x.kids[k].st = "select"
        /\ \/ x.kids[k].sel = "none"
           \/ /\ x.kids[k].sel = "unset" /\ x.stack # <<>>
              /\ Top.at = "wait" /\ Top.kid = k  \* its pipes are closed
        /\ \E out \in {"match", "none"} : To(Writes(k, out))

(* The disc: it is changed by hand when the program has noticed that the   *)
(* last one is gone, and that takes longer than reading what is in a pipe. *)
Remove ==
  Counted /\ Calm /\ x.drive # NoDisc /\ To([x EXCEPT !.drive = NoDisc])
Insert ==
  /\ x.drive = NoDisc /\ x.disc = NoDisc /\ ~GoesOn /\ UNCHANGED ops
  /\ \E d \in Disc : To([x EXCEPT !.drive = d])

Next ==
  \/ Eject \/ Inetoffln \/ DbmodeInd \/ Load \/ OtherCommand \/ Helper
  \/ Yes \/ No \/ MatchChosen \/ UserregOk \/ AuthOk \/ Cancelled
  \/ InsertPoll \/ ReloadTimer \/ Read \/ Rest \/ Wait \/ Closed \/ Added
  \/ (\E k \in Slot : Child(k)) \/ Remove \/ Insert

Spec == Init /\ [][Next]_vars
(* The databases answer or are given up (srv_timeout), the parent's loops  *)
(* go round, and the user answers what is asked.                           *)
Fairness ==
  /\ WF_vars(Read) /\ WF_vars(Rest) /\ WF_vars(Wait) /\ WF_vars(Closed)
  /\ WF_vars(Added)
  /\ \A k \in Slot : WF_vars(Child(k))
  /\ WF_vars(No) /\ WF_vars(MatchChosen) /\ WF_vars(Cancelled)
FairSpec == Spec /\ Fairness
-----------------------------------------------------------------------------
Calmly == {"prompt", "calm"} \subseteq env /\ "helper" \notin env

TypeOK == x \in State /\ env \in Settings /\ ops \in 0..MaxOps

(* At most one lookup runs, and it is the one that Stop load, an eject and *)
(* the next lookup cancel (child_pid).                                     *)
OneLookup ==
  "helper" \notin env =>
    \A k \in Slot : x.kids[k].st \in {"query", "select"} => x.pid = k

(* The disc shown as matched is described by one text, its own. *)
RightInfo ==
  (Calmly /\ x.stack = <<>> /\ x.qmode = "MATCH") => x.info = <<x.disc>>

(* No disc is passed over: back in its main loop the program has looked    *)
(* the disc up, or a timer watches for one.                                *)
Watched ==
  (Calmly /\ x.stack = <<>>) =>
    IF x.disc = NoDisc THEN x.timer ELSE x.looked = x.disc

(* Back in its main loop the program does not wait for an answer, shows no *)
(* question and takes the command to look the disc up again, if it has.    *)
Reloadable ==
  x.stack = <<>> =>
    /\ x.qmode # "WAIT" /\ x.dlg = {} /\ x.ask = "no"
    /\ x.disc # NoDisc /\ x.looked = x.disc => x.reload_btn

(* Whatever is asked, cancelled and nested, the program comes back to its  *)
(* main loop.                                                              *)
LoadEnds == (x.stack # <<>>) ~> (x.stack = <<>>)
=============================================================================
