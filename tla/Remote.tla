------------------------------- MODULE Remote -------------------------------
(***************************************************************************)
(* xmcd -remote: senders, of one command each, and the receiver whose      *)
(* window they find, over three properties of that window on the X server. *)
(* A change of a property is an event to whoever has selected it; each     *)
(* process takes its events in turn, and reads a property when it gets to  *)
(* the event.                                                              *)
(***************************************************************************)
EXTENDS Naturals, Sequences

CONSTANTS
  Sender,
  NoSender,
  Faults      \* what may happen: see FaultsAssumption

Failures  == {"noclient", "attfail", "ackfail", "destroyed", "xerror", "killed"}

ASSUME SenderAssumption ==
  NoSender \notin Sender /\ (Sender \cup {NoSender}) \cap Failures = {}
ASSUME FaultsAssumption ==
  Faults \subseteq {"kill",    \* a sender is killed
                    "quit"}    \* the receiver quits

VARIABLES
  win,         \* is the receiver's window there?
  att, req,    \* XMCD_CMD_ATT and _REQ: the sender that has set them
  ack,         \* XMCD_CMD_ACK
  pc, result,  \* where each sender is, and its exit status
  queue,       \* the events of each sender
  stale,       \* who attached with an ack event in its queue: for OwnStatus
  rqueue,      \* the events of the receiver
  attstr,      \* static attstr of cmd_propchg
  calls,       \* its calls of cmd_propchg, nested by event_loop: inmost first
  log          \* remote.log: who was attached, and whose request it was

props == <<win, att, req, ack>>
sVars == <<pc, result, queue, stale>>
rVars == <<rqueue, attstr, calls, log>>
vars  == <<props, sVars, rVars>>

Someone == Sender \cup {NoSender}
NoAck   == [of |-> NoSender, val |-> "none"]
Ack     == [of : Sender, val : {"processing", "done"}]
Call    == [of : Sender, at : {"log", "command"}]

(* The senders whose XSelectInput has been done. *)
Listening == {"attach", "wait", "putreq", "getack", "detach"}
Holding   == {"putreq", "getack", "detach"}

TypeOK ==
  /\ win \in BOOLEAN
  /\ att \in Someone /\ req \in Someone /\ ack \in Ack \cup {NoAck}
  /\ pc \in [Sender -> {"getwin", "select", "ended"} \cup Listening]
  /\ result \in [Sender -> Someone \cup Failures]
  /\ queue \in [Sender -> Seq({"ack", "free", "gone"})]
  /\ stale \subseteq Sender
  /\ rqueue \in Seq({"att", "req", "free"})
  /\ attstr \in Someone
  /\ calls \in Seq(Call)
  /\ log \subseteq Someone \X Sender

Init ==
  /\ win = TRUE /\ att = NoSender /\ req = NoSender /\ ack = NoAck
  /\ pc = [s \in Sender |-> "getwin"]
  /\ result = [s \in Sender |-> NoSender]
  /\ queue = [s \in Sender |-> <<>>] /\ stale = {}
  /\ rqueue = <<>> /\ attstr = NoSender /\ calls = <<>> /\ log = {}

Acked(q)   == \E i \in 1..Len(q) : q[i] = "ack"
Goto(s, l) == pc' = [pc EXCEPT ![s] = l]
Exit(s, r) == Goto(s, "ended") /\ result' = [result EXCEPT ![s] = r]

(* The queues after the event e, of which q are the events so far. *)
Sent(q, e) ==
  [s \in Sender |-> IF pc[s] \in Listening THEN Append(q[s], e) ELSE q[s]]
Notify(e)  == rqueue' = Append(rqueue, e)
-----------------------------------------------------------------------------
(* Without the window no client is found, or the X error handler aborts,   *)
(* unless the event of the destruction is taken first.                     *)
Lost(s) ==
  /\ ~win
  /\ \/ pc[s] = "getwin" /\ Exit(s, "noclient")
     \/ pc[s] \in {"select", "attach", "putreq", "detach"} /\ Exit(s, "xerror")
     \/ pc[s] = "putreq" /\ Exit(s, "destroyed")
  /\ UNCHANGED <<props, queue, stale, rVars>>

GetWin(s) ==
  /\ pc[s] = "getwin" /\ win
  /\ Goto(s, "select")
  /\ UNCHANGED <<props, result, queue, stale, rVars>>

(* cmd_attach: XSelectInput ... *)
SelectInput(s) ==
  /\ pc[s] = "select" /\ win
  /\ Goto(s, "attach")
  /\ UNCHANGED <<props, result, queue, stale, rVars>>

(* Mutant: whoever has attached. *)
FreeAnyway == TRUE
Free == att = NoSender

(* ... and, with the server grabbed, the property is read and set. *)
Attach(s) ==
  /\ pc[s] = "attach" /\ win
  /\ \/ /\ Free
        /\ att' = s /\ Notify("att") /\ Goto(s, "putreq")
        /\ stale' = IF Acked(queue[s]) THEN stale \cup {s} ELSE stale
     \/ /\ ~Free
        /\ Goto(s, "wait") /\ UNCHANGED <<att, rqueue, stale>>
  /\ UNCHANGED <<win, req, ack, result, queue, attstr, calls, log>>

Wait(s) ==
  /\ pc[s] = "wait" /\ queue[s] # <<>>
  /\ queue' = [queue EXCEPT ![s] = Tail(@)]
  /\ \/ Head(queue[s]) = "free" /\ Goto(s, "attach") /\ UNCHANGED result
     \/ Head(queue[s]) = "gone" /\ Exit(s, "attfail")
     \/ Head(queue[s]) = "ack" /\ UNCHANGED <<pc, result>>
  /\ UNCHANGED <<props, stale, rVars>>

(* Mutant: the command is delivered, and that is all. *)
SkipAck(s)  == Goto(s, "detach")
AwaitAck(s) == Goto(s, "getack")

PutReq(s) ==
  /\ pc[s] = "putreq" /\ win
  /\ req' = s /\ Notify("req") /\ AwaitAck(s)
  /\ UNCHANGED <<win, att, ack, result, queue, stale, attstr, calls, log>>

(* Mutants: the ack is read but not deleted; a failure exits at once. *)
KeepAck == UNCHANGED ack
TakeAck == ack' = NoAck
AckFailExits(s) == Exit(s, "ackfail")
AckFail(s) == Goto(s, "detach") /\ result' = [result EXCEPT ![s] = "ackfail"]

(* An ack event, of whatever ack it is, reads the property and deletes it. *)
GetAck(s) ==
  /\ pc[s] = "getack" /\ queue[s] # <<>>
  /\ queue' = [queue EXCEPT ![s] = Tail(@)]
  /\ \/ /\ Head(queue[s]) = "ack" /\ win
        /\ TakeAck
        /\ \/ ack = NoAck /\ AckFail(s)
           \/ ack.val = "processing" /\ UNCHANGED <<pc, result>>
           \/ /\ ack.val = "done" /\ Goto(s, "detach")
              /\ result' = [result EXCEPT ![s] = ack.of]
     \/ Head(queue[s]) = "ack" /\ ~win /\ Exit(s, "xerror") /\ UNCHANGED ack
     \/ Head(queue[s]) = "gone" /\ Exit(s, "destroyed") /\ UNCHANGED ack
     \/ Head(queue[s]) = "free" /\ UNCHANGED <<pc, result, ack>>
  /\ UNCHANGED <<win, att, req, stale, rVars>>

Detach(s) ==
  /\ pc[s] = "detach" /\ win
  /\ att' = NoSender /\ queue' = Sent(queue, "free") /\ Notify("free")
  /\ Goto(s, "ended")
  /\ UNCHANGED <<win, req, ack, result, stale, attstr, calls, log>>

(* What it has set stays, a grab does not. *)
Kill(s) ==
  /\ "kill" \in Faults /\ pc[s] # "ended"
  /\ Exit(s, "killed")
  /\ UNCHANGED <<props, queue, stale, rVars>>
-----------------------------------------------------------------------------
(* The receiver is in its event loop, the main one or that of a wait       *)
(* inside cmd_rmtlog or inside the command.                                *)
Event(e) == win /\ rqueue # <<>> /\ Head(rqueue) = e /\ rqueue' = Tail(rqueue)

(* cmd_propchg. *)
Request ==
  /\ Event("req")
  /\ \/ /\ req # NoSender
        /\ req' = NoSender
        /\ log' = log \cup {<<attstr, req>>}
        /\ calls' = <<[of |-> req, at |-> "log"]>> \o calls
     \/ req = NoSender /\ UNCHANGED <<req, log, calls>>
  /\ UNCHANGED <<win, att, ack, attstr, sVars>>

Attached ==
  /\ Event("att") /\ attstr' = att
  /\ UNCHANGED <<props, sVars, calls, log>>

Detached ==
  /\ Event("free") /\ attstr' = NoSender
  /\ UNCHANGED <<props, sVars, calls, log>>

(* The innermost call goes on: to the command, with an ack before it, and  *)
(* to its end, with an ack after it.                                       *)
SetAck(c, v) ==
  ack' = [of |-> c.of, val |-> v] /\ queue' = Sent(queue, "ack")

Command ==
  /\ win /\ calls # <<>> /\ Head(calls).at = "log"
  /\ SetAck(Head(calls), "processing")
  /\ calls' = [calls EXCEPT ![1].at = "command"]
  /\ UNCHANGED <<win, att, req, pc, result, stale, rqueue, attstr, log>>

Done ==
  /\ win /\ calls # <<>> /\ Head(calls).at = "command"
  /\ SetAck(Head(calls), "done")
  /\ calls' = Tail(calls)
  /\ UNCHANGED <<win, att, req, pc, result, stale, rqueue, attstr, log>>

(* cd_quit, from the window or by a command: the window is destroyed. *)
Quit ==
  /\ "quit" \in Faults /\ win
  /\ win' = FALSE /\ att' = NoSender /\ req' = NoSender /\ ack' = NoAck
  /\ queue' = Sent(queue, "gone")
  /\ rqueue' = <<>> /\ attstr' = NoSender /\ calls' = <<>>
  /\ UNCHANGED <<pc, result, stale, log>>

Send(s) ==
  \/ Lost(s) \/ GetWin(s) \/ SelectInput(s) \/ Attach(s) \/ Wait(s)
  \/ PutReq(s) \/ GetAck(s) \/ Detach(s)
Propchg == Request \/ Attached \/ Detached
Receive == Command \/ Done

Next ==
  \/ \E s \in Sender : Send(s) \/ Kill(s)
  \/ Propchg \/ Receive \/ Quit

Spec == Init /\ [][Next]_vars

(* Senders run on, the receiver handles its events, and its commands end. *)
FairSpec ==
  /\ Spec
  /\ \A s \in Sender : WF_vars(Send(s))
  /\ WF_vars(Propchg) /\ WF_vars(Receive)
-----------------------------------------------------------------------------
(* cmd_attach gives exclusive control: of the senders on this window, only *)
(* the one that the attach property names is past it and not yet detached. *)
Exclusive == win => \A s \in Sender : pc[s] \in Holding => att = s

(* Nor, so, does the receiver obey anybody else. *)
Obeyed == \A i \in 1..Len(calls) : calls[i].of = att

(* A status that a sender exits with is that of its own command, unless    *)
(* some sender has failed to read its ack before; and none fails so unless *)
(* some sender attached with an ack of another in its queue.               *)
OwnStatus ==
  \/ \E s \in Sender : result[s] = "ackfail" /\ stale # {}
  \/ \A s \in Sender : result[s] \in {s, NoSender} \cup (Failures \ {"ackfail"})

(* The log names the sender whose request it was, under the same condition.*)
LogRight ==
  \/ \E s \in Sender : result[s] = "ackfail"
  \/ \A e \in log : e[1] = e[2]

(* Every sender ends, unless one that was attached has been killed and so  *)
(* stays attached for ever.                                                *)
SendEnds ==
  \A s \in Sender :
    <>(pc[s] = "ended" \/ (att # NoSender /\ result[att] = "killed"))
=============================================================================
