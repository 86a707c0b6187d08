------------------------------ MODULE History ------------------------------
(***************************************************************************)
(* The discs that were played: the list each program keeps, the file of    *)
(* the user that all of them share, and xmcd's window that shows the list. *)
(* A program changes its list at once, and has a child change the file     *)
(* while it waits: xmcd for events, too.  Nothing locks the file: the       *)
(* children of several programs work on it step by step, at the same time. *)
(***************************************************************************)
EXTENDS Integers, Sequences, FiniteSets, SequencesExt

CONSTANTS
  Prog,       \* the programs of the user
  Xmcd,       \* the one of them that has a window; cda daemons only add
  Disc,
  MaxHist,    \* maximumHistory
  HIST_HYST,
  MaxTime,    \* bound: entries made
  MaxFiles,   \* bound: files with a name or open in a child, at a time
  Settings    \* the settings to check: see SettingsAssumption

ASSUME ProgAssumption == Xmcd \in Prog
ASSUME BoundsAssumption ==
  MaxHist \in Nat \ {0, 1} /\ HIST_HYST \in Nat /\ MaxTime \in Nat
  /\ MaxFiles \in Nat
ASSUME SettingsAssumption ==
  Settings \subseteq SUBSET {
    "share",   \* all programs run, not just xmcd
    "nest",    \* the user acts, and discs come, while xmcd waits for a child
    "come",    \* a disc comes while xmcd waits for the child of a deletion
    "fail",    \* a child fails, or is killed, at any point
    "apart",   \* no two children rewrite the file at the same time
    "still"}   \* no disc comes while an entry is selected

VARIABLES
  env,         \* the setting
  time,
  disk,        \* the files: the entries of each, oldest first
  name,        \* which file has the name of the history, and which .bak
  list,        \* cdinfo_hist_head of each program, newest first
  tail,        \* is cdinfo_hist_tail its last entry?
  fcnt,        \* cdinfo_hist_fcnt; cdinfo_hist_mcnt is the length of the list
  calls,       \* the calls that wait for a child, inmost first
  shown,       \* what the window lists: never opened, history or changer
  widget,      \* the entries in it, in mode "hist"
  hist_cnt, dlist_pos,
  picked,      \* the entry the user has selected: for the properties
  removed      \* the entries the user has deleted: for the properties

fileVars == <<disk, name>>
winVars  == <<shown, widget, hist_cnt, dlist_pos, picked>>
vars     == <<env, time, fileVars, list, tail, fcnt, calls, winVars, removed>>

Entry   == [disc : Disc, time : 1..MaxTime]
NoEntry == [disc |-> CHOOSE d \in Disc : TRUE, time |-> 0]
File    == 1..MaxFiles     \* 0 is none of them
(* What a child is to do with the history: how far it is, and the files it *)
(* has open to read and to write.                                          *)
NewJob(o, d, a, n) == [op |-> o, del |-> d, add |-> a, skip |-> n,
                       at |-> "start", in |-> 0, out |-> 0]
AppendJob(e)  == NewJob("append", NoEntry, e, 0)
Rewrite(e, n) == NewJob("rewrite", NoEntry, e, n)
Drop(e, n)    == NewJob("rewrite", e, NoEntry, n)
Clear         == NewJob("clear", NoEntry, NoEntry, 0)

there == name.hist # 0
file  == IF there THEN disk[name.hist] ELSE <<>>

Init ==
  /\ env \in Settings /\ time = 0
  /\ disk = [f \in File |-> <<>>] /\ name = [hist |-> 0, bak |-> 0]
  /\ list = [p \in Prog |-> <<>>] /\ tail = [p \in Prog |-> FALSE]
  /\ fcnt = [p \in Prog |-> 0] /\ calls = [p \in Prog |-> <<>>]
  /\ shown = "never" /\ widget = <<>> /\ hist_cnt = 0
  /\ dlist_pos = -1 /\ picked = NoEntry /\ removed = {}

Runs(p)  == p = Xmcd \/ "share" \in env
Free(p)  == \/ calls[p] = <<>>
            \/ "nest" \in env /\ p = Xmcd /\ Len(calls[p]) = 1
Comes(p) == \/ Free(p)
            \/ "come" \in env /\ Len(calls[p]) = 1 /\ Head(calls[p]).fn # "add"
-----------------------------------------------------------------------------
(* The entries of s, but for d. *)
Kept(s, d) ==
  LET f[i \in 0..Len(s)] ==
        IF i = 0 THEN <<>>
        ELSE IF s[i] = d THEN f[i - 1] ELSE Append(f[i - 1], s[i])
  IN  f[Len(s)]
(* Mutant: one old entry too many is left out. *)
RewrittenShort(j, s) ==
  LET from == j.skip + 1
      kept == Kept(SubSeq(s, from, Len(s)), j.del)
  IN IF j.add = NoEntry THEN kept ELSE Append(kept, j.add)
(* Mutant: the deleted entry is found in the list only. *)
RewrittenAll(j, s) ==
  LET from == IF j.skip > 1 THEN j.skip ELSE 1
      kept == SubSeq(s, from, Len(s))
  IN IF j.add = NoEntry THEN kept ELSE Append(kept, j.add)
(* What cdinfo_hist_writefile makes of s: its first skip - 1 entries are   *)
(* left out.                                                               *)
Rewritten(j, s) ==
  LET from == IF j.skip > 1 THEN j.skip ELSE 1
      kept == Kept(SubSeq(s, from, Len(s)), j.del)
  IN IF j.add = NoEntry THEN kept ELSE Append(kept, j.add)
(* Written from the start of a file that has got other entries meanwhile.  *)
Over(old, s) == s \o SubSeq(old, Len(s) + 1, Len(old))

Used(n, c) ==
  {f \in File : \/ f \in {n.hist, n.bak}
                \/ \E p \in Prog : \E i \in 1..Len(c[p]) :
                     f \in {c[p][i].job.in, c[p][i].job.out}}
Unused == File \ Used(name, calls)
(* The file of fopen(path, "w") or "a". *)
Opened == IF there THEN name.hist ELSE CHOOSE f \in Unused : TRUE

(* A child goes on with job j; a file that lost its names and is not open  *)
(* is gone.                                                                *)
Step(p, i, j, n, d) ==
  LET c == [calls EXCEPT ![p][i].job = j] IN
  /\ calls' = c /\ name' = n
  /\ disk' = [f \in File |-> IF f \in Used(n, c) THEN d[f] ELSE <<>>]
  /\ UNCHANGED <<env, time, list, tail, fcnt, winVars>>
Done(j) == [j EXCEPT !.at = "end", !.in = 0, !.out = 0]

(* cdinfo_hist_writefile and the child of cdinfo_hist_delall: the old .bak *)
(* goes, the history gets its name and loses its own (by link and unlink,  *)
(* where USE_RENAME is not defined); to rewrite, it is read back from      *)
(* there and written as a new file, unless another child has made one.     *)
Unlink(p, i, j) ==
  /\ j.at = "start" /\ j.op # "append"
  /\ "apart" \in env => \A q \in Prog : \A k \in 1..Len(calls[q]) :
                          calls[q][k].job.at \in {"start", "write", "end"}
  /\ Step(p, i, [j EXCEPT !.at = "link"], [name EXCEPT !.bak = 0], disk)
  /\ UNCHANGED removed
Link(p, i, j) ==
  /\ j.at = "link" /\ UNCHANGED removed
  /\ IF there /\ name.bak = 0
     THEN Step(p, i, [j EXCEPT !.at = "unlink"], [name EXCEPT !.bak = name.hist],
               disk)
     ELSE Step(p, i, Done(j), name, disk)
UnlinkOld(p, i, j) ==
  /\ j.at = "unlink"
  /\ Step(p, i, IF j.op = "rewrite" THEN [j EXCEPT !.at = "open"] ELSE Done(j),
          [name EXCEPT !.hist = 0], disk)
  /\ removed' = IF j.op = "clear" THEN removed \cup ToSet(file) ELSE removed
OpenBak(p, i, j) ==
  /\ j.at = "open" /\ UNCHANGED removed
  /\ Step(p, i, IF name.bak = 0 THEN Done(j)
                ELSE [j EXCEPT !.at = "create", !.in = name.bak], name, disk)
Create(p, i, j) ==
  /\ j.at = "create" /\ (there \/ Unused # {}) /\ UNCHANGED removed
  /\ Step(p, i, [j EXCEPT !.at = "copy", !.out = Opened],
          [name EXCEPT !.hist = Opened], [disk EXCEPT ![Opened] = <<>>])
Copy(p, i, j) ==
  /\ j.at = "copy" /\ UNCHANGED removed
  /\ Step(p, i, Done(j), name,
          [disk EXCEPT ![j.out] = Over(@, Rewritten(j, disk[j.in]))])
(* The child of cdinfo_hist_addent that appends. *)
OpenEnd(p, i, j) ==
  /\ j.at = "start" /\ j.op = "append"
  /\ (there \/ Unused # {}) /\ UNCHANGED removed
  /\ Step(p, i, [j EXCEPT !.at = "write", !.out = Opened],
          [name EXCEPT !.hist = Opened],
          IF there THEN disk ELSE [disk EXCEPT ![Opened] = <<>>])
WriteEnd(p, i, j) ==
  /\ j.at = "write" /\ UNCHANGED removed
  /\ Step(p, i, Done(j), name, [disk EXCEPT ![j.out] = Append(@, j.add)])

Child(p, i) ==
  LET j == calls[p][i].job IN
  \/ Unlink(p, i, j) \/ Link(p, i, j) \/ UnlinkOld(p, i, j)
  \/ OpenBak(p, i, j) \/ Create(p, i, j) \/ Copy(p, i, j)
  \/ OpenEnd(p, i, j) \/ WriteEnd(p, i, j)

(* It fails, or is killed: nothing more is done, or a part of what it was  *)
(* to copy is written.                                                     *)
ChildFails(p, i) ==
  LET j == calls[p][i].job IN
  /\ "fail" \in env /\ j.at # "end" /\ UNCHANGED removed
  /\ \/ Step(p, i, Done(j), name, disk)
     \/ /\ j.at = "copy"
        /\ LET r == Rewritten(j, disk[j.in]) IN
           \E n \in 0..Len(r) :
             Step(p, i, Done(j), name,
                  [disk EXCEPT ![j.out] = Over(@, SubSeq(r, 1, n))])

Wait(p, f, j) ==
  calls' = [calls EXCEPT ![p] = <<[fn |-> f, job |-> j]>> \o @]
-----------------------------------------------------------------------------
(* cdinfo_hist_addent, from dbprog_hist_new or cda_hist_new.  A full list  *)
(* gives up its last entry; where the tail is not that entry, the code     *)
(* writes to freed memory, and the model goes no further.                  *)
Add(p, d) ==
  LET old  == list[p]
      full == Len(old) = MaxHist
      e    == [disc |-> d, time |-> time + 1]
      m    == IF full THEN MaxHist ELSE Len(old) + 1
      more == fcnt[p] + 1 - m IN
  /\ Runs(p) /\ Comes(p) /\ time < MaxTime
  /\ "still" \in env /\ p = Xmcd => dlist_pos <= 0
  /\ old # <<>> => Head(old).disc # d
  /\ full => tail[p]
  /\ time' = time + 1
  /\ list' = [list EXCEPT ![p] = <<e>> \o SubSeq(old, 1, m - 1)]
  /\ tail' = [tail EXCEPT ![p] = @ \/ old = <<>>]
  /\ IF more > HIST_HYST
       THEN /\ fcnt' = [fcnt EXCEPT ![p] = m]
            /\ Wait(p, "add", Rewrite(e, more + 1))
       ELSE /\ fcnt' = [fcnt EXCEPT ![p] = @ + 1]
            /\ Wait(p, "add", AppendJob(e))
  /\ UNCHANGED <<env, fileVars, winVars, removed>>

(* dbprog_dlist_delete, with cdinfo_hist_delent. *)
Delete ==
  LET old == list[Xmcd]
      i   == dlist_pos
      m   == Len(old) - 1 IN
  /\ Free(Xmcd) /\ shown = "hist" /\ i > 0
  /\ widget' = IF i <= Len(widget) THEN RemoveAt(widget, i) ELSE widget
  /\ \/ /\ i <= Len(old)
        /\ list' = [list EXCEPT ![Xmcd] = RemoveAt(old, i)]
        /\ tail' = [tail EXCEPT ![Xmcd] = @ /\ i # Len(old)]
        /\ fcnt' = [fcnt EXCEPT ![Xmcd] = m]
        /\ removed' = removed \cup {old[i]}
        /\ Wait(Xmcd, "del", Drop(old[i], fcnt[Xmcd] - m))
        /\ UNCHANGED <<hist_cnt, dlist_pos, picked>>
     \/ /\ i > Len(old)
        /\ hist_cnt' = (IF hist_cnt > 0 THEN hist_cnt - 1 ELSE 0)
        /\ dlist_pos' = -1 /\ picked' = NoEntry
        /\ UNCHANGED <<list, tail, fcnt, removed, calls>>
  /\ UNCHANGED <<env, time, fileVars, shown>>

(* dbprog_dlist_delall_yes, with cdinfo_hist_delall. *)
DeleteAll ==
  /\ Free(Xmcd) /\ shown = "hist" /\ list[Xmcd] # <<>>
  /\ widget' = <<>>
  /\ list' = [list EXCEPT ![Xmcd] = <<>>] /\ fcnt' = [fcnt EXCEPT ![Xmcd] = 0]
  /\ tail' = [tail EXCEPT ![Xmcd] = FALSE]
  /\ removed' = removed \cup ToSet(list[Xmcd])
  /\ Wait(Xmcd, "delall", Clear)
  /\ UNCHANGED <<env, time, fileVars, shown, hist_cnt, dlist_pos, picked>>

(* Mutant: the line that is too many stays in the window. *)
ShowNewLong(e) ==
  /\ hist_cnt' = (IF hist_cnt + 1 > MaxHist THEN hist_cnt ELSE hist_cnt + 1)
  /\ widget' = <<e>> \o widget
(* dbprog_hist_addent, and dbprog_hist_addall of an empty widget. *)
ShowNew(e) ==
  LET w == <<e>> \o widget IN
  /\ hist_cnt' = (IF hist_cnt + 1 > MaxHist THEN hist_cnt ELSE hist_cnt + 1)
  /\ widget' = IF hist_cnt + 1 > MaxHist /\ hist_cnt + 1 <= Len(w)
               THEN RemoveAt(w, hist_cnt + 1) ELSE w
ShowAll(l) == widget' = l /\ hist_cnt' = Len(l)
NoPick     == dlist_pos' = -1 /\ picked' = NoEntry

(* The inmost call returns when its child has ended. *)
Return(p) ==
  /\ calls[p] # <<>> /\ Head(calls[p]).job.at = "end"
  /\ calls' = [calls EXCEPT ![p] = Tail(@)]
  /\ LET c == Head(calls[p]) IN
     IF p # Xmcd THEN UNCHANGED winVars
     ELSE \/ /\ c.fn = "add"
             /\ IF shown = "hist" THEN ShowNew(c.job.add)
                                 ELSE UNCHANGED <<widget, hist_cnt>>
             /\ UNCHANGED <<shown, dlist_pos, picked>>
          \/ /\ c.fn = "del"
             /\ hist_cnt' = (IF hist_cnt > 0 THEN hist_cnt - 1 ELSE 0)
             /\ NoPick /\ UNCHANGED <<shown, widget>>
          \/ /\ c.fn = "delall"
             /\ hist_cnt' = 0 /\ NoPick /\ UNCHANGED <<shown, widget>>
  /\ UNCHANGED <<env, time, fileVars, list, tail, fcnt, removed>>

(* cdinfo_hist_init: at the start of a program, which for cda is on any    *)
(* day, and by dbprog_dlist_rescan.                                        *)
Newest == LET n == Len(file)
              from == IF n > MaxHist THEN n - MaxHist + 1 ELSE 1
          IN Reverse(SubSeq(file, from, n))
Load(p) ==
  /\ list' = [list EXCEPT ![p] = Newest]
  /\ fcnt' = [fcnt EXCEPT ![p] = Len(file)]
  /\ tail' = [tail EXCEPT ![p] = file # <<>>]
  /\ UNCHANGED <<env, time, fileVars, calls, removed>>

Start(p) == Runs(p) /\ p # Xmcd /\ calls[p] = <<>> /\ Load(p) /\ UNCHANGED winVars

Rescan ==
  /\ Free(Xmcd) /\ shown = "hist" /\ Load(Xmcd)
  /\ ShowAll(Newest) /\ NoPick /\ UNCHANGED shown

(* dbprog_dlist, the first time, and dbprog_dlist_mode. *)
Open ==
  /\ Free(Xmcd) /\ shown \in {"never", "chgr"}
  /\ shown' = "hist" /\ ShowAll(list[Xmcd]) /\ NoPick
  /\ UNCHANGED <<env, time, fileVars, list, tail, fcnt, calls, removed>>

Changer ==
  /\ Free(Xmcd) /\ shown = "hist"
  /\ shown' = "chgr" /\ widget' = <<>> /\ hist_cnt' = 0 /\ NoPick
  /\ UNCHANGED <<env, time, fileVars, list, tail, fcnt, calls, removed>>

(* dbprog_dlist_select; dbprog_dlist_show ends a selection, too. *)
Select ==
  /\ Free(Xmcd) /\ shown = "hist"
  /\ \/ \E i \in 1..Len(widget) :
          i # dlist_pos /\ dlist_pos' = i /\ picked' = widget[i]
     \/ dlist_pos > 0 /\ NoPick
  /\ UNCHANGED <<env, time, fileVars, list, tail, fcnt, calls, shown, widget,
                 hist_cnt, removed>>

Window == Delete \/ DeleteAll \/ Rescan \/ Open \/ Changer \/ Select

Next ==
  \/ Window
  \/ \E p \in Prog :
       \/ \E d \in Disc : Add(p, d)
       \/ \E i \in 1..Len(calls[p]) : Child(p, i) \/ ChildFails(p, i)
       \/ Return(p) \/ Start(p)

Spec == Init /\ [][Next]_vars
-----------------------------------------------------------------------------
Job  == {j \in [op : {"append", "rewrite", "clear"}, skip : Int,
                del : Entry \cup {NoEntry}, add : Entry \cup {NoEntry},
                at : {"start", "link", "unlink", "open", "create", "copy",
                      "write", "end"}, in : File \cup {0}, out : File \cup {0}] :
           /\ j.op = "append" \/ j.at = "write" => j.add # NoEntry
           /\ j.at \in {"create", "copy"} => j.in # 0
           /\ j.at \in {"copy", "write"} => j.out # 0}
Call == {c \in [fn : {"add", "del", "delall"}, job : Job] :
           c.fn = "add" => c.job.add # NoEntry}

TypeOK ==
  /\ env \in SUBSET {"share", "nest", "come", "fail", "apart", "still"}
  /\ time \in 0..MaxTime
  /\ disk \in [File -> Seq(Entry)]
  /\ name \in [hist : File \cup {0}, bak : File \cup {0}]
  /\ list \in [Prog -> Seq(Entry)] /\ tail \in [Prog -> BOOLEAN]
  /\ fcnt \in [Prog -> Nat] /\ calls \in [Prog -> Seq(Call)]
  /\ shown \in {"never", "hist", "chgr"} /\ widget \in Seq(Entry)
  /\ hist_cnt \in Nat /\ dlist_pos \in Int
  /\ picked \in Entry \cup {NoEntry} /\ removed \subseteq Entry

Idle(p) == calls[p] = <<>>

(* As long as one program runs and its children do their work, the list in *)
(* core is what the next start would read from the file: whatever was      *)
(* deleted and rewritten, no entry is only in one of them, in another      *)
(* order, or dropped too early, and the file never outgrows the list by    *)
(* more than HIST_HYST.                                                    *)
FileAgrees ==
  env \subseteq {"still"} /\ Idle(Xmcd) =>
    /\ Newest = list[Xmcd] /\ Len(file) = fcnt[Xmcd]
    /\ Len(file) <= Len(list[Xmcd]) + HIST_HYST

(* The window lists what the list in core has, line by line: Delete and    *)
(* Show take the position of a line for the position of an entry.  What    *)
(* dlist_pos leads to is the entry that was selected, after any deletions, *)
(* rescans and changes of mode, as long as no disc comes.                  *)
Shown ==
  Idle(Xmcd) =>
    /\ env \cap {"nest", "come"} = {} /\ shown = "hist" =>
         widget = list[Xmcd] /\ hist_cnt = Len(widget)
    /\ env = {"still"} /\ dlist_pos > 0 =>
         dlist_pos <= Len(list[Xmcd]) /\ list[Xmcd][dlist_pos] = picked

(* A deleted entry is gone from the file, with the entries that other      *)
(* programs add at any time, and with discs that come in the middle of the *)
(* deletion: it does not come back by a rescan.  Only a second child that  *)
(* rewrites the file at the same time could copy it back.                  *)
Gone ==
  "apart" \in env /\ env \cap {"nest", "fail"} = {} /\ Idle(Xmcd) =>
    ToSet(file) \cap removed = {}
=============================================================================
