---------------------------- MODULE RemoteProofs ----------------------------
(***************************************************************************)
(* Any number of senders, killed anywhere, and a receiver that may quit.   *)
(***************************************************************************)
EXTENDS Remote, TLAPS

(* What the steps do with a sequence leaves it one over the same set.      *)
LEMMA SeqTypes ==
  ASSUME NEW S, NEW q \in Seq(S), NEW e \in S
  PROVE  /\ Append(q, e) \in Seq(S)
         /\ <<e>> \o q \in Seq(S)
         /\ q # <<>> => [q EXCEPT ![1] = e] \in Seq(S)
OBVIOUS

(* The queues, when an event is sent to those that listen, stay queues.    *)
LEMMA SentTypes ==
  ASSUME TypeOK, NEW q \in [Sender -> Seq({"ack", "free", "gone"})],
         NEW e \in {"ack", "free", "gone"}
  PROVE  Sent(q, e) \in [Sender -> Seq({"ack", "free", "gone"})]
BY DEF Sent

(* A step of a sender keeps the types. *)
LEMMA SendTypes ==
  ASSUME TypeOK, NEW s \in Sender, Send(s) \/ Kill(s)
  PROVE  TypeOK'
<1> USE DEF TypeOK, Goto, Exit, Someone, Failures, Listening, props, rVars, sVars
<1>1. CASE Lost(s) \/ GetWin(s) \/ SelectInput(s) \/ Kill(s)
  BY <1>1 DEF Lost, GetWin, SelectInput, Kill
<1>2. CASE Attach(s)
  <2>1. pc' \in [Sender -> {"getwin", "select", "ended"} \cup Listening]
    BY <1>2 DEF Attach
  <2>2. rqueue' \in Seq({"att", "req", "free"})
    <3>1. Append(rqueue, "att") \in Seq({"att", "req", "free"})
      BY SeqTypes
    <3> QED BY <1>2, <3>1 DEF Attach, Notify
  <2>3. att' \in Someone /\ stale' \subseteq Sender
    BY <1>2 DEF Attach
  <2> QED BY <1>2, <2>1, <2>2, <2>3 DEF Attach
<1>3. CASE Wait(s)
  <2>1. queue' \in [Sender -> Seq({"ack", "free", "gone"})]
    BY <1>3 DEF Wait
  <2>2. /\ pc' \in [Sender -> {"getwin", "select", "ended"} \cup Listening]
        /\ result' \in [Sender -> Someone \cup Failures]
    BY <1>3 DEF Wait
  <2> QED BY <1>3, <2>1, <2>2 DEF Wait
<1>4. CASE PutReq(s)
  <2>1. pc' \in [Sender -> {"getwin", "select", "ended"} \cup Listening]
    BY <1>4 DEF PutReq, AwaitAck
  <2>2. rqueue' \in Seq({"att", "req", "free"})
    BY <1>4, SeqTypes DEF PutReq, Notify
  <2> QED BY <1>4, <2>1, <2>2 DEF PutReq
<1>5. CASE GetAck(s)
  <2>1. queue' \in [Sender -> Seq({"ack", "free", "gone"})]
    BY <1>5 DEF GetAck
  <2>2. ack' \in Ack \cup {NoAck}
    BY <1>5 DEF GetAck, TakeAck
  <2>3. /\ pc' \in [Sender -> {"getwin", "select", "ended"} \cup Listening]
        /\ result' \in [Sender -> Someone \cup Failures]
    <3>1. ack # NoAck => ack.of \in Someone
      BY DEF Ack
    <3>2. \/ UNCHANGED <<pc, result>> \/ AckFail(s)
          \/ \E r \in {"xerror", "destroyed"} : Exit(s, r)
          \/ /\ ack # NoAck /\ Goto(s, "detach")
             /\ result' = [result EXCEPT ![s] = ack.of]
      BY <1>5 DEF GetAck, NoAck
    <3> QED BY <3>1, <3>2 DEF AckFail
  <2> QED BY <1>5, <2>1, <2>2, <2>3 DEF GetAck
<1>6. CASE Detach(s)
  <2>1. Sent(queue, "free") \in [Sender -> Seq({"ack", "free", "gone"})]
    BY SentTypes
  <2> QED BY <1>6, <2>1 DEF Detach, Notify
<1> QED BY <1>1, <1>2, <1>3, <1>4, <1>5, <1>6 DEF Send

(* So does one of the receiver. *)
LEMMA ReceiveTypes ==
  ASSUME TypeOK, Propchg \/ Receive \/ Quit
  PROVE  TypeOK'
<1> USE DEF TypeOK, Someone, props, sVars
<1> DEFINE Events == {"att", "req", "free"}
<1>0. ASSUME NEW e \in Events, Event(e) PROVE rqueue' \in Seq(Events)
  BY <1>0 DEF Event
<1>1. CASE Request
  <2>1. rqueue' \in Seq(Events)
    BY <1>0, <1>1 DEF Request
  <2>2. calls' \in Seq(Call)
    <3>1. req # NoSender => [of |-> req, at |-> "log"] \in Call
      BY DEF Call
    <3>2. req # NoSender => <<[of |-> req, at |-> "log"]>> \o calls \in Seq(Call)
      BY <3>1, SeqTypes
    <3> QED BY <1>1, <3>2 DEF Request
  <2>3. req' \in Someone /\ log' \subseteq Someone \X Sender
    BY <1>1 DEF Request
  <2> QED BY <1>1, <2>1, <2>2, <2>3 DEF Request
<1>2. CASE Attached \/ Detached
  <2>1. rqueue' \in Seq(Events)
    BY <1>0, <1>2 DEF Attached, Detached
  <2> QED BY <1>2, <2>1 DEF Attached, Detached
<1>3. CASE Command \/ Done
  <2>1. calls # <<>> /\ Head(calls) \in Call /\ Len(calls) \in Nat \ {0}
    BY <1>3 DEF Command, Done
  <2>2. calls' \in Seq(Call)
    <3>1. CASE Command
      <4>0. calls[1] \in Call
        BY <2>1
      <4>1. [calls[1] EXCEPT !.at = "command"] \in Call
        BY <4>0 DEF Call
      <4>2. [calls EXCEPT ![1].at = "command"] =
              [calls EXCEPT ![1] = [calls[1] EXCEPT !.at = "command"]]
        OBVIOUS
      <4> QED BY <2>1, <3>1, <4>1, <4>2, SeqTypes DEF Command
    <3>2. CASE Done
      BY <2>1, <3>2 DEF Done
    <3> QED BY <1>3, <3>1, <3>2
  <2>3. Sent(queue, "ack") \in [Sender -> Seq({"ack", "free", "gone"})]
    BY SentTypes
  <2>4. ack' \in Ack
    BY <1>3, <2>1 DEF Command, Done, SetAck, Ack, Call
  <2> QED BY <1>3, <2>2, <2>3, <2>4 DEF Command, Done, SetAck
<1>4. CASE Quit
  <2>1. Sent(queue, "gone") \in [Sender -> Seq({"ack", "free", "gone"})]
    BY SentTypes
  <2>2. rqueue' \in Seq(Events) /\ calls' \in Seq(Call)
    BY <1>4 DEF Quit
  <2> QED BY <1>4, <2>1, <2>2 DEF Quit
<1> QED BY <1>1, <1>2, <1>3, <1>4 DEF Propchg, Receive

(* Every variable keeps its type, whatever is sent, killed or closed.      *)
THEOREM RemoteTypeCorrect == Spec => []TypeOK
<1>1. Init => TypeOK
  BY DEF Init, TypeOK, Someone, NoAck
<1>2. TypeOK /\ [Next]_vars => TypeOK'
  <2> SUFFICES ASSUME TypeOK, [Next]_vars PROVE TypeOK'
    OBVIOUS
  <2>1. CASE UNCHANGED vars
    BY <2>1 DEF TypeOK, vars, props, sVars, rVars
  <2> QED BY <2>1, SendTypes, ReceiveTypes DEF Next
<1> QED BY <1>1, <1>2, PTL DEF Spec

(* cmd_attach gives exclusive control: whoever is past it, and not yet     *)
(* detached, is the one that the attach property names.                    *)
THEOREM ExclusiveHolds == Spec => []Exclusive
<1>1. Init => Exclusive
  BY DEF Init, Exclusive, Holding
<1>2. TypeOK /\ Exclusive /\ [Next]_vars => Exclusive'
  <2> SUFFICES ASSUME TypeOK, Exclusive, [Next]_vars PROVE Exclusive'
    OBVIOUS
  <2> USE DEF Exclusive, Holding, Goto, Exit
  <2>0. pc \in [Sender -> {"getwin", "select", "ended"} \cup Listening]
    BY DEF TypeOK
  <2>1. CASE UNCHANGED vars
    BY <2>1 DEF vars, props, sVars
  <2>2. ASSUME NEW s \in Sender, Attach(s) PROVE Exclusive'
    <3>1. CASE Free
      BY <2>0, <2>2, <3>1, SenderAssumption DEF Attach, Free
    <3>2. CASE ~Free
      BY <2>0, <2>2, <3>2 DEF Attach
    <3> QED BY <3>1, <3>2
  <2>3. ASSUME NEW s \in Sender, Detach(s) PROVE Exclusive'
    BY <2>0, <2>3 DEF Detach
  <2>4. ASSUME NEW s \in Sender, GetAck(s) PROVE Exclusive'
    BY <2>0, <2>4 DEF GetAck, AckFail
  <2>5. ASSUME NEW s \in Sender,
               Lost(s) \/ GetWin(s) \/ SelectInput(s) \/ Wait(s)
                 \/ PutReq(s) \/ Kill(s)
        PROVE  Exclusive'
    BY <2>0, <2>5
       DEF Lost, GetWin, SelectInput, Wait, PutReq, AwaitAck, Kill, props
  <2>6. CASE Propchg \/ Receive
    BY <2>6 DEF Propchg, Receive, Request, Attached, Detached, Command, Done,
                props, sVars
  <2>7. CASE Quit
    BY <2>7 DEF Quit
  <2> QED BY <2>1, <2>2, <2>3, <2>4, <2>5, <2>6, <2>7 DEF Next, Send
<1> QED BY <1>1, <1>2, RemoteTypeCorrect, PTL DEF Spec
-----------------------------------------------------------------------------
(* Whose command it was: the invariant of the request and of its acks.     *)
Has(q, e)  == \E i \in 1..Len(q) : q[i] = e
Once(q, e) == \A i, j \in 1..Len(q) : q[i] = e /\ q[j] = e => i = j

(* How far the command of the one that is attached has got. *)
Taken   == req = NoSender /\ ~Has(rqueue, "req")
Rest    == Taken /\ calls = <<>> /\ ack = NoAck
Asked   == req = att /\ Once(rqueue, "req") /\ calls = <<>> /\ ack = NoAck
Logged  == Taken /\ calls = <<[of |-> att, at |-> "log"]>> /\ ack = NoAck
Obeying == /\ Taken /\ calls = <<[of |-> att, at |-> "command"]>>
           /\ ack \in {NoAck, [of |-> att, val |-> "processing"]}
Over    == Taken /\ calls = <<>> /\ ack = [of |-> att, val |-> "done"]
Stage   == Rest \/ Asked \/ Logged \/ Obeying \/ Over

(* Its attachment is known to the receiver before its request is. *)
AttFirst ==
  \/ attstr = att /\ ~Has(rqueue, "free")
  \/ \E i \in 1..Len(rqueue) :
       /\ rqueue[i] = "att"
       /\ \A j \in 1..Len(rqueue) :
            /\ rqueue[j] = "free" => j < i
            /\ rqueue[j] = "req" => i < j

(* As long as nobody attaches with an ack event in its queue, an ack event *)
(* finds an ack.                                                           *)
AcksDue(q) ==
  /\ ack = NoAck => ~Acked(q)
  /\ ack.val = "processing" => Once(q, "ack")

Served ==
  IF att = NoSender THEN Rest
  ELSE /\ pc[att] \in Holding \cup {"ended"} /\ Stage /\ AttFirst
       /\ pc[att] = "putreq" => Rest
       /\ pc[att] = "getack" => ~Rest
       /\ pc[att] = "detach" => Rest \/ result[att] = "ackfail"
       /\ stale = {} /\ pc[att] \in {"putreq", "getack"} =>
            AcksDue(queue[att])

(* Once a sender has detached without its ack, nothing more is promised.   *)
AckFailed == {s \in Sender : result[s] = "ackfail"}
Confused  == \E s \in AckFailed : pc[s] = "ended"
Recorded  == /\ \A s \in Sender : result[s] \in {s, NoSender} \cup Failures
             /\ \A e \in log : e[1] = e[2]
StatusInv ==
  /\ AckFailed # {} => stale # {}
  /\ Confused \/ (Recorded /\ (win => Served))
-----------------------------------------------------------------------------
(* An event is added to a queue, or taken from it.                         *)
LEMMA AppendHas ==
  ASSUME NEW S, NEW q \in Seq(S), NEW e \in S, NEW f
  PROVE  /\ Has(Append(q, e), f) <=> Has(q, f) \/ e = f
         /\ ~Has(q, f) \/ (e # f /\ Once(q, f)) => Once(Append(q, e), f)
<1> DEFINE r == Append(q, e)
<1>1. /\ Len(q) \in Nat /\ Len(r) = Len(q) + 1 /\ r[Len(q) + 1] = e
      /\ \A i \in 1..Len(q) : r[i] = q[i]
  OBVIOUS
<1> HIDE DEF r
<1>2. \A i : i \in 1..Len(r) <=> i \in 1..Len(q) \/ i = Len(q) + 1
  BY <1>1
<1>3. Has(r, f) <=> Has(q, f) \/ e = f
  BY <1>1, <1>2 DEF Has
<1>4. ~Has(q, f) \/ (e # f /\ Once(q, f)) => Once(r, f)
  BY <1>1, <1>2 DEF Has, Once
<1> QED BY <1>3, <1>4 DEF r

LEMMA TailHas ==
  ASSUME NEW S, NEW q \in Seq(S), q # <<>>, NEW f
  PROVE  /\ Has(Tail(q), f) => Has(q, f)
         /\ Head(q) = f => Has(q, f)
         /\ Once(q, f) => Once(Tail(q), f)
         /\ Once(q, f) /\ Head(q) = f => ~Has(Tail(q), f)
<1> DEFINE r == Tail(q)
<1>1. /\ Len(q) \in Nat \ {0} /\ Len(r) = Len(q) - 1 /\ Head(q) = q[1]
      /\ \A i \in 1..Len(r) : r[i] = q[i + 1]
  OBVIOUS
<1> HIDE DEF r
<1>2. \A i \in 1..Len(r) : i + 1 \in 2..Len(q) /\ i + 1 \in 1..Len(q)
  BY <1>1
<1>3. 1 \in 1..Len(q)
  BY <1>1
<1>4. Has(r, f) => Has(q, f)
  BY <1>1, <1>2 DEF Has
<1>5. Once(q, f) => Once(r, f)
  BY <1>1, <1>2 DEF Once
<1>6. Once(q, f) /\ Head(q) = f => ~Has(r, f)
  BY <1>1, <1>2, <1>3 DEF Once, Has
<1> QED BY <1>1, <1>3, <1>4, <1>5, <1>6 DEF r, Has

(* The receiver comes to know of the attachment, whatever comes behind it. *)
LEMMA AttFirstKept ==
  ASSUME TypeOK, att # NoSender, att' = att, AttFirst
  PROVE  /\ attstr' = attstr /\ rqueue' = Append(rqueue, "req") => AttFirst'
         /\ Event("req") /\ attstr' = attstr => AttFirst' /\ attstr = att
         /\ Event("att") /\ attstr' = att => AttFirst'
         /\ Event("free") => AttFirst'
         /\ UNCHANGED <<rqueue, attstr>> => AttFirst'
<1> DEFINE Events == {"att", "req", "free"}
<1>0. rqueue \in Seq(Events)
  BY DEF TypeOK
<1>1. ASSUME attstr' = attstr, rqueue' = Append(rqueue, "req") PROVE AttFirst'
  <2>1. /\ Len(rqueue) \in Nat /\ Len(rqueue') = Len(rqueue) + 1
        /\ rqueue'[Len(rqueue) + 1] = "req"
        /\ \A i \in 1..Len(rqueue) : rqueue'[i] = rqueue[i]
    BY <1>0, <1>1
  <2>2. \A i : i \in 1..Len(rqueue') <=>
                i \in 1..Len(rqueue) \/ i = Len(rqueue) + 1
    BY <2>1
  <2> QED BY <1>1, <2>1, <2>2 DEF AttFirst, Has
<1>2. ASSUME NEW e \in Events, Event(e)
      PROVE  /\ Len(rqueue) \in Nat \ {0} /\ Len(rqueue') = Len(rqueue) - 1
             /\ rqueue[1] = e /\ \A i \in 1..Len(rqueue') : rqueue'[i] = rqueue[i + 1]
  BY <1>0, <1>2 DEF Event
<1>3. ASSUME NEW e \in Events, Event(e), e = "free" \/ attstr' = attstr, e # "att"
      PROVE  AttFirst' /\ (e = "req" => attstr = att)
  <2>1. CASE attstr = att /\ ~Has(rqueue, "free")
    <3>1. e # "free"
      BY <1>2, <1>3, <2>1 DEF Has
    <3>2. ~Has(rqueue', "free")
      BY <1>2, <1>3, <2>1 DEF Has
    <3> QED BY <1>3, <2>1, <3>1, <3>2 DEF AttFirst
  <2>2. ASSUME NEW i \in 1..Len(rqueue), rqueue[i] = "att",
               \A j \in 1..Len(rqueue) : /\ rqueue[j] = "free" => j < i
                                         /\ rqueue[j] = "req" => i < j
        PROVE  AttFirst' /\ e # "req"
    <3>1. i # 1 /\ e # "req"
      BY <1>2, <1>3, <2>2
    <3>2. i - 1 \in 1..Len(rqueue') /\ rqueue'[i - 1] = "att"
      BY <1>2, <1>3, <2>2, <3>1
    <3>3. \A j \in 1..Len(rqueue') : /\ rqueue'[j] = "free" => j < i - 1
                                     /\ rqueue'[j] = "req" => i - 1 < j
      BY <1>2, <1>3, <2>2
    <3> QED BY <3>1, <3>2, <3>3 DEF AttFirst
  <2> QED BY <2>1, <2>2 DEF AttFirst
<1>4. ASSUME Event("att"), attstr' = att PROVE AttFirst'
  <2>1. ASSUME ~Has(rqueue', "free") PROVE AttFirst'
    BY <1>4, <2>1 DEF AttFirst
  <2>2. ASSUME NEW i \in 1..Len(rqueue), rqueue[i] = "att",
               \A j \in 1..Len(rqueue) : /\ rqueue[j] = "free" => j < i
                                         /\ rqueue[j] = "req" => i < j
        PROVE  AttFirst'
    <3>1. CASE i = 1
      BY <1>2, <1>4, <2>1, <2>2, <3>1 DEF Has
    <3>2. CASE i # 1
      <4>1. i - 1 \in 1..Len(rqueue') /\ rqueue'[i - 1] = "att"
        BY <1>2, <1>4, <2>2, <3>2
      <4>2. \A j \in 1..Len(rqueue') : /\ rqueue'[j] = "free" => j < i - 1
                                       /\ rqueue'[j] = "req" => i - 1 < j
        BY <1>2, <1>4, <2>2
      <4> QED BY <4>1, <4>2 DEF AttFirst
    <3> QED BY <3>1, <3>2
  <2>3. ~Has(rqueue, "free") => ~Has(rqueue', "free")
    BY <1>2, <1>4 DEF Has
  <2> QED BY <2>1, <2>2, <2>3 DEF AttFirst
<1>5. UNCHANGED <<rqueue, attstr>> => AttFirst'
  BY DEF AttFirst, Has
<1> QED BY <1>1, <1>3, <1>4, <1>5
-----------------------------------------------------------------------------
(* A sender that has ended stays as it is, and so does what confused it.   *)
LEMMA ConfusedStays ==
  ASSUME TypeOK, StatusInv, Confused, [Next]_vars
  PROVE  StatusInv'
<1> USE DEF Goto, Exit, props, sVars, rVars
<1>0. /\ pc \in [Sender -> {"getwin", "select", "ended"} \cup Listening]
      /\ result \in [Sender -> Someone \cup Failures]
  BY DEF TypeOK
<1>1. /\ \A t \in Sender : pc[t] = "ended" =>
                             pc'[t] = "ended" /\ result'[t] = result[t]
      /\ stale \subseteq stale'
  <2>1. ASSUME NEW s \in Sender, Send(s) \/ Kill(s)
        PROVE  /\ \A t \in Sender \ {s} : pc'[t] = pc[t] /\ result'[t] = result[t]
               /\ pc[s] # "ended" /\ stale \subseteq stale'
    BY <1>0, <2>1 DEF Send, Lost, GetWin, SelectInput, Attach, Wait, PutReq,
                      AwaitAck, GetAck, AckFail, Detach, Kill
  <2>2. CASE Propchg \/ Receive \/ Quit
    BY <2>2 DEF Propchg, Request, Attached, Detached, Receive, Command, Done, Quit
  <2>3. CASE UNCHANGED vars
    BY <2>3 DEF vars
  <2> QED BY <2>1, <2>2, <2>3 DEF Next
<1>2. Confused' /\ stale' # {}
  BY <1>1 DEF Confused, AckFailed, StatusInv
<1> QED BY <1>2 DEF StatusInv

(* What holds of a command that may still go right. *)
Sure == ~Confused /\ TypeOK /\ Exclusive /\ StatusInv

(* Of the other steps of a sender, nothing is to be shown but its result.  *)
LEMMA OtherSends ==
  ASSUME Sure, NEW s \in Sender,
         Lost(s) \/ GetWin(s) \/ SelectInput(s) \/ Wait(s) \/ Kill(s)
  PROVE  StatusInv'
<1> USE DEF Goto, Exit, props, sVars, rVars
<1> USE SenderAssumption DEF Sure
<1>0. /\ pc \in [Sender -> {"getwin", "select", "ended"} \cup Listening]
      /\ result \in [Sender -> Someone \cup Failures]
      /\ queue \in [Sender -> Seq({"ack", "free", "gone"})]
  BY DEF TypeOK
<1>1. /\ UNCHANGED <<win, att, req, ack, stale, rVars>>
      /\ \A t \in Sender \ {s} : UNCHANGED <<pc[t], result[t], queue[t]>>
      /\ pc[s] \notin Holding => pc'[s] \notin Holding
      /\ pc[s] \in Holding => ~win \/ pc'[s] = "ended"
      /\ pc[s] # "ended"
      /\ result'[s] \in {result[s]} \cup (Failures \ {"ackfail"})
  <2> USE DEF Holding, Failures
  <2>1. CASE Lost(s)  BY <1>0, <2>1 DEF Lost
  <2>2. CASE GetWin(s) \/ SelectInput(s)  BY <1>0, <2>2 DEF GetWin, SelectInput
  <2>3. CASE Wait(s)  BY <1>0, <2>3 DEF Wait
  <2>4. CASE Kill(s)  BY <1>0, <2>4 DEF Kill
  <2> QED BY <2>1, <2>2, <2>3, <2>4
<1>2. AckFailed' # {} => stale' # {}
  BY <1>1 DEF AckFailed, StatusInv
<1>3. Recorded'
  BY <1>1 DEF Recorded, StatusInv, Someone
<1>4. win' => Served'
  <2> SUFFICES ASSUME win PROVE Served'
    BY <1>1
  <2>1. Served
    BY DEF StatusInv
  <2>2. CASE att = NoSender
    BY <1>1, <2>1, <2>2 DEF Served, Rest, Taken, Has
  <2>3. CASE att # NoSender
    <3>1. att \in Sender
      BY <2>3 DEF TypeOK, Someone
    <3>2. AttFirst' /\ Stage' /\ Rest' = Rest
      <4>1. AttFirst'
        BY <1>1, <2>1, <2>3, AttFirstKept DEF Served
      <4>2. Stage' /\ Rest' = Rest
        BY <1>1, <2>1, <2>3
           DEF Served, Stage, Rest, Asked, Logged, Obeying, Over, Taken, Has, Once
      <4> QED BY <4>1, <4>2
    <3>3. CASE s = att
      BY <1>1, <2>1, <2>3, <3>1, <3>2, <3>3 DEF Served, Holding
    <3>4. CASE s # att
      BY <1>1, <2>1, <2>3, <3>1, <3>2, <3>4 DEF Served, AcksDue, Acked, Once
    <3> QED BY <3>3, <3>4
  <2> QED BY <2>2, <2>3
<1> QED BY <1>2, <1>3, <1>4 DEF StatusInv

(* One attaches when nothing is left of the command before. *)
LEMMA AttachServes ==
  ASSUME Sure, NEW s \in Sender, Attach(s)
  PROVE  StatusInv'
<1> USE SenderAssumption DEF Sure
<1>0. /\ pc \in [Sender -> {"getwin", "select", "ended"} \cup Listening]
      /\ queue \in [Sender -> Seq({"ack", "free", "gone"})]
      /\ rqueue \in Seq({"att", "req", "free"})
  BY DEF TypeOK
<1>1. pc[s] = "attach" /\ win /\ UNCHANGED <<win, req, ack, result, queue, calls, log>>
  BY DEF Attach
<1>2. AckFailed' # {} => stale' # {}
  BY <1>1 DEF Attach, AckFailed, StatusInv
<1>3. Recorded' /\ Served
  BY <1>1 DEF Recorded, StatusInv
<1>4. CASE ~Free
  <2>1. /\ UNCHANGED <<win, req, ack, result, queue, calls, log, att, rqueue,
                       attstr, stale>>
        /\ pc' = [pc EXCEPT ![s] = "wait"] /\ att # NoSender
    BY <1>4 DEF Attach, Goto, Free
  <2>2. att \in Sender /\ s # att
    BY <1>1, <1>3, <2>1 DEF TypeOK, Someone, Served, Holding
  <2>3. AttFirst' /\ Stage' /\ Rest' = Rest
    <3>1. AttFirst'
      BY <1>3, <2>1, AttFirstKept DEF Served
    <3>2. Stage' /\ Rest' = Rest
      BY <1>3, <2>1
         DEF Served, Stage, Rest, Asked, Logged, Obeying, Over, Taken, Has, Once
    <3> QED BY <3>1, <3>2
  <2>4. Served'
    BY <1>0, <1>3, <2>1, <2>2, <2>3 DEF Served, AcksDue, Acked, Once
  <2> QED BY <1>2, <1>3, <2>4 DEF StatusInv
<1>5. CASE Free
  <2>1. /\ att' = s /\ rqueue' = Append(rqueue, "att") /\ pc'[s] = "putreq"
        /\ UNCHANGED attstr
        /\ stale' = IF Acked(queue[s]) THEN stale \cup {s} ELSE stale
        /\ att = NoSender
    BY <1>0, <1>5 DEF Attach, Goto, Free, Notify
  <2>2. Rest
    BY <1>3, <2>1 DEF Served
  <2>3. Rest'
    BY <1>0, <1>1, <2>1, <2>2, AppendHas DEF Rest, Taken
  <2>4. AttFirst'
    <3>1. /\ Len(rqueue) \in Nat /\ Len(rqueue') = Len(rqueue) + 1
          /\ rqueue'[Len(rqueue) + 1] = "att"
          /\ \A i \in 1..Len(rqueue) : rqueue'[i] = rqueue[i]
      BY <1>0, <2>1
    <3>2. \A i : i \in 1..Len(rqueue') <=>
                  i \in 1..Len(rqueue) \/ i = Len(rqueue) + 1
      BY <3>1
    <3>3. Len(rqueue) + 1 \in 1..Len(rqueue')
      BY <3>2
    <3>4. \A i \in 1..Len(rqueue') :
            /\ rqueue'[i] = "free" => i < Len(rqueue) + 1
            /\ rqueue'[i] # "req"
      BY <2>2, <3>1, <3>2 DEF Rest, Taken, Has
    <3> QED BY <3>1, <3>3, <3>4 DEF AttFirst
  <2>5. stale' = {} => AcksDue(queue[s])'
    BY <1>1, <2>1, <2>2 DEF AcksDue, Rest, NoAck
  <2>6. Served'
    BY <1>1, <2>1, <2>3, <2>4, <2>5 DEF Served, Stage, Holding
  <2> QED BY <1>2, <1>3, <2>6 DEF StatusInv
<1> QED BY <1>4, <1>5

(* It asks, when all is at rest. *)
LEMMA PutReqServes ==
  ASSUME Sure, NEW s \in Sender, PutReq(s)
  PROVE  StatusInv'
<1> USE SenderAssumption DEF Sure
<1>0. /\ pc \in [Sender -> {"getwin", "select", "ended"} \cup Listening]
      /\ rqueue \in Seq({"att", "req", "free"})
  BY DEF TypeOK
<1>1. /\ pc[s] = "putreq" /\ win /\ req' = s /\ rqueue' = Append(rqueue, "req")
      /\ pc'[s] = "getack"
      /\ UNCHANGED <<win, att, ack, result, queue, stale, attstr, calls, log>>
  BY <1>0 DEF PutReq, AwaitAck, Goto, Notify
<1>2. AckFailed' # {} => stale' # {}
  BY <1>1 DEF AckFailed, StatusInv
<1>3. Recorded' /\ Served
  BY <1>1 DEF Recorded, StatusInv
<1>4. att = s /\ att # NoSender
  BY <1>1 DEF Exclusive, Holding
<1>5. Rest /\ AttFirst /\ (stale = {} => AcksDue(queue[s]))
  BY <1>1, <1>3, <1>4 DEF Served
<1>6. Asked' /\ ~Rest'
  <2>1. Once(rqueue', "req") /\ Has(rqueue', "req")
    BY <1>0, <1>1, <1>5, AppendHas DEF Rest, Taken
  <2> QED BY <1>1, <1>4, <1>5, <2>1 DEF Asked, Rest, Taken
<1>7. AttFirst'
  BY <1>1, <1>4, <1>5, AttFirstKept
<1>8. stale' = {} => AcksDue(queue[s])'
  BY <1>1, <1>5 DEF AcksDue, Acked, Once
<1>9. Served'
  BY <1>1, <1>4, <1>6, <1>7, <1>8 DEF Served, Stage, Holding
<1> QED BY <1>2, <1>3, <1>9 DEF StatusInv

(* It reads what it takes for its ack. *)
LEMMA GetAckServes ==
  ASSUME Sure, NEW s \in Sender, GetAck(s)
  PROVE  StatusInv'
<1> USE SenderAssumption DEF Sure
<1>0. /\ pc \in [Sender -> {"getwin", "select", "ended"} \cup Listening]
      /\ result \in [Sender -> Someone \cup Failures]
      /\ queue \in [Sender -> Seq({"ack", "free", "gone"})]
  BY DEF TypeOK
<1>1. /\ pc[s] = "getack" /\ queue[s] # <<>> /\ queue'[s] = Tail(queue[s])
      /\ UNCHANGED <<win, att, req, stale, rqueue, attstr, calls, log>>
  BY <1>0 DEF GetAck, rVars
<1>2. \/ Exit(s, "xerror") \/ Exit(s, "destroyed")
      \/ UNCHANGED <<pc, result>>
      \/ AckFail(s)
      \/ Goto(s, "detach") /\ result' = [result EXCEPT ![s] = ack.of]
  BY DEF GetAck
<1>3. CASE ~win
  <2>1. Exit(s, "xerror") \/ Exit(s, "destroyed") \/ UNCHANGED <<pc, result>>
    BY <1>3 DEF GetAck
  <2>2. \A t \in Sender : result'[t] \in {result[t]} \cup {"xerror", "destroyed"}
    BY <1>0, <2>1 DEF Exit
  <2> QED BY <1>1, <1>3, <2>2 DEF StatusInv, Recorded, AckFailed, Failures
<1>4. CASE win
  <2>1. att = s /\ s # NoSender /\ Served
    BY <1>1, <1>4 DEF Exclusive, Holding, StatusInv
  <2>2. /\ Stage /\ ~Rest /\ AttFirst
        /\ stale = {} => AcksDue(queue[s])
    BY <1>1, <2>1 DEF Served
  <2>3. AttFirst'
    BY <1>1, <2>1, <2>2, AttFirstKept
  <2>4. CASE Head(queue[s]) # "ack"
    <3>1. /\ UNCHANGED ack /\ \A t \in Sender : pc'[t] \in {pc[t], "ended"}
          /\ \A t \in Sender : result'[t] \in {result[t]} \cup {"destroyed"}
      BY <1>0, <2>4 DEF GetAck, Exit, Goto
    <3>2. stale' = {} => AcksDue(queue[s])'
      <4>1. /\ Has(Tail(queue[s]), "ack") => Has(queue[s], "ack")
            /\ Once(queue[s], "ack") => Once(Tail(queue[s]), "ack")
        BY <1>0, <1>1, TailHas
      <4> QED BY <1>1, <2>2, <3>1, <4>1 DEF AcksDue, Acked, Has
    <3>3. Stage' /\ Rest' = Rest
      BY <1>1, <2>2, <3>1
         DEF Stage, Rest, Asked, Logged, Obeying, Over, Taken, Has, Once
    <3>4. Served'
      BY <1>1, <2>1, <2>2, <2>3, <3>1, <3>2, <3>3 DEF Served, Holding
    <3> QED BY <1>1, <3>1, <3>4 DEF StatusInv, Recorded, AckFailed, Failures
  <2>5. CASE Head(queue[s]) = "ack"
    <3>0. Acked(queue[s])
      BY <1>0, <1>1, <2>5, TailHas DEF Acked, Has
    <3>1. ack' = NoAck
      BY <1>4, <2>5 DEF GetAck, TakeAck
    (* Only an ack that has come between is missed. *)
    <3>2. CASE ack = NoAck /\ AckFail(s)
      <4>1. stale # {}
        BY <2>2, <3>0, <3>2 DEF AcksDue
      <4>2. pc'[s] = "detach" /\ result'[s] = "ackfail"
            /\ \A t \in Sender \ {s} : result'[t] = result[t]
        BY <1>0, <3>2 DEF AckFail, Goto
      <4>3. Stage'
        BY <1>1, <2>2, <3>1, <3>2
           DEF Stage, Rest, Asked, Logged, Obeying, Over, Taken, Has, Once
      <4>4. Served'
        BY <1>1, <2>1, <2>3, <4>1, <4>2, <4>3 DEF Served, Holding
      <4> QED BY <1>1, <4>1, <4>2, <4>4 DEF StatusInv, Recorded, Failures
    <3>3. CASE ack.val = "processing" /\ UNCHANGED <<pc, result>>
      <4>1. Obeying
        BY <2>2, <3>3 DEF Stage, Rest, Asked, Logged, Over, NoAck
      <4>2. Obeying' /\ ~Rest'
        BY <1>1, <3>1, <4>1 DEF Obeying, Rest, Taken, Has
      <4>3. stale' = {} => AcksDue(queue[s])'
        <5>1. Once(queue[s], "ack") => ~Has(Tail(queue[s]), "ack")
          BY <1>0, <1>1, <2>5, TailHas
        <5> QED BY <1>1, <2>2, <3>1, <3>3, <5>1 DEF AcksDue, Acked, Has, NoAck
      <4>4. Served'
        BY <1>1, <2>1, <2>3, <3>3, <4>2, <4>3 DEF Served, Holding, Stage
      <4> QED BY <1>1, <3>3, <4>4 DEF StatusInv, Recorded, AckFailed
    <3>4. CASE ack.val = "done" /\ Goto(s, "detach")
               /\ result' = [result EXCEPT ![s] = ack.of]
      <4>1. Over
        BY <2>2, <3>4 DEF Stage, Rest, Asked, Logged, Obeying, NoAck
      <4>2. Rest' /\ pc'[s] = "detach"
        BY <1>0, <1>1, <3>1, <3>4, <4>1 DEF Over, Rest, Taken, Has, Goto
      <4>3. \A t \in Sender : result'[t] \in {result[t], t}
        BY <1>0, <2>1, <3>4, <4>1 DEF Over
      <4>4. Served'
        BY <1>1, <2>1, <2>3, <4>2 DEF Served, Holding, Stage
      <4>5. AckFailed' \subseteq AckFailed
        BY <4>3 DEF AckFailed, Failures
      <4> QED BY <1>1, <4>3, <4>4, <4>5 DEF StatusInv, Recorded
    <3> QED BY <1>4, <2>5, <3>2, <3>3, <3>4 DEF GetAck
  <2> QED BY <2>4, <2>5
<1> QED BY <1>3, <1>4

(* It detaches: at rest, or without its ack. *)
LEMMA DetachServes ==
  ASSUME Sure, NEW s \in Sender, Detach(s)
  PROVE  StatusInv'
<1> USE SenderAssumption DEF Sure
<1>0. /\ pc \in [Sender -> {"getwin", "select", "ended"} \cup Listening]
      /\ rqueue \in Seq({"att", "req", "free"})
  BY DEF TypeOK
<1>1. /\ pc[s] = "detach" /\ win /\ att' = NoSender /\ pc'[s] = "ended"
      /\ rqueue' = Append(rqueue, "free")
      /\ UNCHANGED <<req, ack, result, stale, calls, log>>
  BY <1>0 DEF Detach, Goto, Notify
<1>2. AckFailed' # {} => stale' # {}
  BY <1>1 DEF AckFailed, StatusInv
<1>3. Recorded' /\ Served
  BY <1>1 DEF Recorded, StatusInv
<1>4. att = s /\ att # NoSender
  BY <1>1 DEF Exclusive, Holding
<1>5. CASE Rest
  <2>1. Rest'
    BY <1>0, <1>1, <1>5, AppendHas DEF Rest, Taken
  <2> QED BY <1>1, <1>2, <1>3, <2>1 DEF StatusInv, Served
<1>6. CASE result[s] = "ackfail"
  <2>1. Confused'
    BY <1>1, <1>6 DEF Confused, AckFailed
  <2> QED BY <1>2, <2>1 DEF StatusInv
<1> QED BY <1>1, <1>3, <1>4, <1>5, <1>6 DEF Served

(* The receiver takes a request, and only the one that is attached has one.*)
LEMMA RequestServes ==
  ASSUME Sure, Request
  PROVE  StatusInv'
<1> USE SenderAssumption DEF Sure
<1>0. rqueue \in Seq({"att", "req", "free"}) /\ rqueue # <<>> /\ win
  BY DEF TypeOK, Request, Event
<1>1. /\ UNCHANGED <<win, att, ack, attstr, pc, result, queue, stale>>
      /\ Event("req") /\ rqueue' = Tail(rqueue) /\ Head(rqueue) = "req"
  BY DEF Request, sVars, Event
<1>2. AckFailed' # {} => stale' # {}
  BY <1>1 DEF AckFailed, StatusInv
<1>3. Recorded /\ Served
  BY <1>0 DEF StatusInv
<1>4. Has(rqueue, "req") /\ (Once(rqueue, "req") => ~Has(Tail(rqueue), "req"))
  BY <1>0, <1>1, TailHas
<1>5. att # NoSender /\ Asked /\ AttFirst
  BY <1>3, <1>4 DEF Served, Stage, Rest, Logged, Obeying, Over, Taken
<1>6. att \in Sender
  BY <1>5 DEF TypeOK, Someone
<1>7. AttFirst' /\ attstr = att
  BY <1>1, <1>5, AttFirstKept
<1>8. /\ req' = NoSender /\ log' = log \cup {<<att, att>>}
      /\ calls' = <<[of |-> att, at |-> "log"]>> \o calls
  BY <1>5, <1>7 DEF Request, Asked
<1>9. Logged' /\ ~Rest'
  BY <1>1, <1>4, <1>5, <1>8 DEF Asked, Logged, Rest, Taken
<1>10. Recorded'
  BY <1>1, <1>3, <1>8 DEF Recorded
<1>11. pc[att] # "putreq"
       /\ (pc[att] = "detach" => result[att] = "ackfail")
  BY <1>3, <1>4, <1>5 DEF Served, Rest, Taken
<1>12. Served'
  BY <1>1, <1>3, <1>5, <1>7, <1>9, <1>11 DEF Served, Stage, AcksDue, Acked, Once
<1> QED BY <1>2, <1>10, <1>12 DEF StatusInv

(* It hears of one that attaches or detaches. *)
LEMMA AttachedServes ==
  ASSUME Sure, Attached \/ Detached
  PROVE  StatusInv'
<1> USE SenderAssumption DEF Sure
<1>0. rqueue \in Seq({"att", "req", "free"}) /\ rqueue # <<>> /\ win
  BY DEF TypeOK, Attached, Detached, Event
<1>1. /\ UNCHANGED <<win, att, req, ack, pc, result, queue, stale, calls, log>>
      /\ rqueue' = Tail(rqueue)
      /\ Event("free") \/ (Event("att") /\ attstr' = att)
  BY DEF Attached, Detached, sVars, props, Event
<1>2. AckFailed' # {} => stale' # {}
  BY <1>1 DEF AckFailed, StatusInv
<1>3. Recorded' /\ Served
  BY <1>0, <1>1 DEF StatusInv, Recorded
<1>4. /\ Has(Tail(rqueue), "req") => Has(rqueue, "req")
      /\ Once(rqueue, "req") => Once(Tail(rqueue), "req")
  BY <1>0, TailHas
<1>5. /\ Rest => Rest'
      /\ Asked => Asked'
      /\ Logged => Logged'
      /\ Obeying => Obeying'
      /\ Over => Over'
  BY <1>1, <1>4 DEF Rest, Asked, Logged, Obeying, Over, Taken
<1>6. CASE att = NoSender
  <2>1. Rest /\ att' = NoSender
    BY <1>1, <1>3, <1>6 DEF Served
  <2>2. Served'
    BY <1>5, <2>1 DEF Served
  <2> QED BY <1>2, <1>3, <2>2 DEF StatusInv
<1>7. CASE att # NoSender
  <2>0. AttFirst /\ Stage
    BY <1>3, <1>7 DEF Served
  <2>1. AttFirst' /\ Stage'
    <3>1. AttFirst'
      BY <1>1, <1>7, <2>0, AttFirstKept
    <3> QED BY <1>5, <2>0, <3>1 DEF Stage
  <2>2. pc[att] = "getack" => ~Rest'
    <3>1. ASSUME ~Rest, Rest' PROVE Asked
      BY <1>1, <1>3, <1>7, <3>1
         DEF Served, Stage, Logged, Obeying, Over, Rest
    <3>2. ~(Asked /\ Rest')
      BY <1>1, <1>7 DEF Asked, Rest, Taken
    <3> QED BY <1>3, <1>7, <3>1, <3>2 DEF Served
  <2>3. Served'
    BY <1>1, <1>3, <1>5, <1>7, <2>1, <2>2 DEF Served, AcksDue, Acked, Once
  <2> QED BY <1>2, <1>3, <2>3 DEF StatusInv
<1> QED BY <1>6, <1>7

(* It obeys, with an ack before and an ack after. *)
LEMMA ReceiveServes ==
  ASSUME Sure, Receive
  PROVE  StatusInv'
<1> USE SenderAssumption DEF Sure
<1>0. /\ queue \in [Sender -> Seq({"ack", "free", "gone"})]
      /\ pc \in [Sender -> {"getwin", "select", "ended"} \cup Listening]
  BY DEF TypeOK
<1>1. /\ UNCHANGED <<win, att, req, pc, result, stale, rqueue, attstr, log>>
      /\ win /\ calls # <<>> /\ queue' = Sent(queue, "ack")
  BY DEF Receive, Command, Done, SetAck
<1>2. AckFailed' # {} => stale' # {}
  BY <1>1 DEF AckFailed, StatusInv
<1>3. Recorded' /\ Served
  BY <1>1 DEF StatusInv, Recorded
<1>4. att # NoSender /\ (Logged \/ Obeying)
  BY <1>1, <1>3 DEF Served, Stage, Rest, Asked, Over
<1>5. att \in Sender /\ AttFirst'
  BY <1>1, <1>3, <1>4, AttFirstKept DEF TypeOK, Someone, Served
<1>6. pc[att] # "putreq" /\ (pc[att] = "detach" => result[att] = "ackfail")
  BY <1>3, <1>4 DEF Served, Logged, Obeying, Rest
<1>7. pc[att] = "getack" => queue'[att] = Append(queue[att], "ack")
  BY <1>0, <1>1, <1>5 DEF Sent, Listening
<1>8. CASE Logged
  <2>1. Head(calls) = [of |-> att, at |-> "log"] /\ calls[1] = Head(calls)
    BY <1>8 DEF Logged
  <2>2. Command
    BY <2>1 DEF Receive, Done
  <2>3. /\ ack' = [of |-> att, val |-> "processing"]
        /\ calls' = <<[of |-> att, at |-> "command"]>>
    BY <1>8, <2>1, <2>2 DEF Command, SetAck, Logged
  <2>4. Obeying' /\ ~Rest'
    BY <1>1, <1>8, <2>3 DEF Logged, Obeying, Rest, Taken, Has
  <2>5. stale' = {} /\ pc'[att] = "getack" => AcksDue(queue[att])'
    <3>1. SUFFICES ASSUME stale = {}, pc[att] = "getack" PROVE AcksDue(queue[att])'
      BY <1>1
    <3>2. ~Has(queue[att], "ack")
      BY <1>3, <1>4, <1>8, <3>1 DEF Served, Logged, AcksDue, Acked, Has
    <3>3. Once(Append(queue[att], "ack"), "ack")
      BY <1>0, <1>5, <3>2, AppendHas
    <3> QED BY <1>1, <1>7, <2>3, <3>1, <3>3 DEF AcksDue, NoAck
  <2>6. Served'
    BY <1>1, <1>3, <1>4, <1>5, <1>6, <2>4, <2>5 DEF Served, Stage
  <2> QED BY <1>2, <1>3, <2>6 DEF StatusInv
<1>9. CASE Obeying
  <2>1. Head(calls) = [of |-> att, at |-> "command"]
    BY <1>9 DEF Obeying
  <2>2. Done
    BY <2>1 DEF Receive, Command
  <2>3. /\ ack' = [of |-> att, val |-> "done"] /\ calls' = <<>>
    BY <1>9, <2>1, <2>2 DEF Done, SetAck, Obeying
  <2>4. Over' /\ ~Rest'
    BY <1>1, <1>9, <2>3 DEF Obeying, Over, Rest, Taken, Has, NoAck
  <2>5. AcksDue(queue[att])'
    BY <2>3 DEF AcksDue, NoAck
  <2>6. Served'
    BY <1>1, <1>3, <1>4, <1>5, <1>6, <2>4, <2>5 DEF Served, Stage
  <2> QED BY <1>2, <1>3, <2>6 DEF StatusInv
<1> QED BY <1>4, <1>8, <1>9

LEMMA StatusInvariant == Spec => []StatusInv
<1>1. Init => StatusInv
  BY SenderAssumption
     DEF Init, StatusInv, AckFailed, Recorded, Served, Rest, Taken, Has, Failures
<1>2. TypeOK /\ Exclusive /\ StatusInv /\ [Next]_vars => StatusInv'
  <2> SUFFICES ASSUME TypeOK, Exclusive, StatusInv, [Next]_vars PROVE StatusInv'
    OBVIOUS
  <2>1. CASE Confused
    BY <2>1, ConfusedStays
  <2>2. CASE ~Confused
    <3>0. Sure
      BY <2>2 DEF Sure
    <3>1. ASSUME NEW s \in Sender, Send(s) \/ Kill(s) PROVE StatusInv'
      BY <3>0, <3>1, OtherSends, AttachServes, PutReqServes, GetAckServes,
         DetachServes DEF Send
    <3>2. CASE Propchg \/ Receive
      BY <3>0, <3>2, RequestServes, AttachedServes, ReceiveServes DEF Propchg
    <3>3. CASE Quit
      BY <3>3 DEF Quit, StatusInv, AckFailed, Recorded, Confused
    <3>4. CASE UNCHANGED vars
      BY <3>4 DEF vars, props, sVars, rVars, StatusInv, AckFailed, Recorded,
                  Confused, Served, Stage, Rest, Asked, Logged, Obeying, Over,
                  Taken, Has, Once, AttFirst, AcksDue, Acked
    <3> QED BY <3>1, <3>2, <3>3, <3>4 DEF Next
  <2> QED BY <2>1, <2>2
<1> QED BY <1>1, <1>2, RemoteTypeCorrect, ExclusiveHolds, PTL DEF Spec

(* The status that a sender exits with is that of its own command, unless  *)
(* some sender attached with an ack event of another in its queue and then *)
(* failed to read its own ack.                                             *)
THEOREM OwnStatusHolds == Spec => []OwnStatus
<1>1. StatusInv => OwnStatus
  BY DEF StatusInv, OwnStatus, AckFailed, Confused, Recorded
<1> QED BY <1>1, StatusInvariant, PTL

(* remote.log names the sender whose request it was, unless some sender    *)
(* has failed to read its ack.                                             *)
THEOREM LogRightHolds == Spec => []LogRight
<1>1. StatusInv => LogRight
  BY DEF StatusInv, LogRight, AckFailed, Confused, Recorded
<1> QED BY <1>1, StatusInvariant, PTL
=============================================================================
