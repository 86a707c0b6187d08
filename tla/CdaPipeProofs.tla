--------------------------- MODULE CdaPipeProofs ---------------------------
(***************************************************************************)
(* Any number of clients and requests, FIFOs of any size, any faults.      *)
(***************************************************************************)
EXTENDS CdaPipe, FiniteSetTheorems, TLAPS

(* A packet of c is in q, there is only one, they all belong to request n. *)
In(q, c)        == \E i \in 1..Len(q) : q[i].id = c
One(q, c)       == \A i, j \in 1..Len(q) : q[i].id = c /\ q[j].id = c => i = j
AllNew(q, c, n) == \A i \in 1..Len(q) : q[i].id = c => q[i].n = n

(* The same of what the daemon, or a client to put it back, has. *)
With(p, c)   == p # NoPkt /\ p.id = c
New(p, c, n) == With(p, c) => p.n = n
Held(c)      == \E d \in Client : With(held[d], c)

(* Who does something has a packet to do it with. *)
Types ==
  /\ TypeOK
  /\ dpc \in {"do", "reply", "replyquit"} => pkt # NoPkt
  /\ \A c \in Client : cpc[c] = "back" => held[c] # NoPkt

(* A packet of c is at one place only ... *)
Single(c) ==
  /\ One(send, c) /\ One(recv, c)
  /\ \A d, e \in Client : With(held[d], c) /\ With(held[e], c) => d = e
  /\ In(send, c) => ~In(recv, c) /\ ~With(pkt, c) /\ ~Held(c)
  /\ In(recv, c) => ~With(pkt, c) /\ ~Held(c)
  /\ With(pkt, c) => ~Held(c)

(* ... c has not gone on without it ... *)
Busy(c) ==
  In(send, c) \/ In(recv, c) \/ With(pkt, c) \/ Held(c) =>
    cpc[c] \in {"wait", "back", "ended"}

(* ... and it belongs to the last request of c. *)
Fresh(c) ==
  /\ AllNew(send, c, req[c]) /\ AllNew(recv, c, req[c]) /\ New(pkt, c, req[c])
  /\ \A d \in Client : New(held[d], c, req[c])

Kept(c) == Single(c) /\ Busy(c) /\ Fresh(c)
PipeInv == \A c \in Client \ Visual : Kept(c)
-----------------------------------------------------------------------------
(* A FIFO to which p is added ... *)
LEMMA AppendFacts ==
  ASSUME NEW q \in Seq(Packet), NEW p \in Packet, NEW c, NEW n
  PROVE  /\ Append(q, p) \in Seq(Packet) /\ Len(Append(q, p)) = Len(q) + 1
         /\ In(Append(q, p), c) <=> In(q, c) \/ p.id = c
         /\ One(q, c) /\ ~(In(q, c) /\ p.id = c) => One(Append(q, p), c)
         /\ AllNew(q, c, n) /\ (p.id = c => p.n = n)
              => AllNew(Append(q, p), c, n)
<1>1. /\ Append(q, p) \in Seq(Packet) /\ Len(Append(q, p)) = Len(q) + 1
      /\ \A i \in 1..Len(q) : Append(q, p)[i] = q[i]
      /\ Append(q, p)[Len(q) + 1] = p
      /\ Len(q) \in Nat
  OBVIOUS
<1> HIDE DEF Packet
<1>2. \A i \in 1..(Len(q) + 1) : i \in 1..Len(q) \/ i = Len(q) + 1
  BY <1>1
<1>3. Len(q) + 1 \in 1..(Len(q) + 1) /\ \A i \in 1..Len(q) : i \in 1..(Len(q) + 1)
  BY <1>1
<1> DEFINE r == Append(q, p)
<1> HIDE DEF r
<1>4. In(r, c) <=> In(q, c) \/ p.id = c
  BY <1>1, <1>2, <1>3 DEF In, r
<1>5. One(q, c) /\ ~(In(q, c) /\ p.id = c) => One(r, c)
  BY <1>1, <1>2, <1>3 DEF In, One, r
<1>6. AllNew(q, c, n) /\ (p.id = c => p.n = n) => AllNew(r, c, n)
  BY <1>1, <1>2, <1>3 DEF AllNew, r
<1> QED BY <1>1, <1>4, <1>5, <1>6 DEF r

(* ... and one from which the first is taken. *)
LEMMA TailFacts ==
  ASSUME NEW q \in Seq(Packet), q # <<>>, NEW c, NEW n
  PROVE  /\ Tail(q) \in Seq(Packet) /\ Len(Tail(q)) = Len(q) - 1
         /\ Head(q) \in Packet /\ Len(q) \in Nat \ {0}
         /\ In(Tail(q), c) => In(q, c)
         /\ Head(q).id = c => In(q, c)
         /\ One(q, c) => One(Tail(q), c)
         /\ One(q, c) /\ Head(q).id = c => ~In(Tail(q), c)
         /\ AllNew(q, c, n)
              => AllNew(Tail(q), c, n) /\ (Head(q).id = c => Head(q).n = n)
<1>1. /\ Tail(q) \in Seq(Packet) /\ Len(Tail(q)) = Len(q) - 1
      /\ Head(q) \in Packet /\ Len(q) \in Nat \ {0}
      /\ Head(q) = q[1] /\ 1 \in 1..Len(q)
      /\ \A i \in 1..Len(Tail(q)) :
           Tail(q)[i] = q[i + 1] /\ i + 1 \in 1..Len(q) /\ i + 1 # 1
  OBVIOUS
<1> DEFINE t == Tail(q)
<1>2. \A i, j \in 1..Len(t) : i + 1 = j + 1 => i = j
  OBVIOUS
<1> HIDE DEF t
<1>3. (In(t, c) => In(q, c)) /\ (Head(q).id = c => In(q, c))
  BY <1>1 DEF In, t
<1>4. One(q, c) => One(t, c)
  BY <1>1, <1>2 DEF One, t
<1>5. One(q, c) /\ Head(q).id = c => ~In(t, c)
  BY <1>1 DEF In, One, t
<1>6. AllNew(q, c, n) => AllNew(t, c, n) /\ (Head(q).id = c => Head(q).n = n)
  BY <1>1 DEF AllNew, t
<1> QED BY <1>1, <1>3, <1>4, <1>5, <1>6 DEF t

(* A packet, and what rejecting it makes of it. *)
LEMMA PacketFacts ==
  ASSUME NEW r \in Packet
  PROVE  /\ <<r.id, r.n>> \in Client \X (1..MaxRequests)
         /\ r.n \in 0..MaxRequests
         /\ r.rej + 1 < MaxRetries => [r EXCEPT !.rej = @ + 1] \in Packet
<1>1. /\ r.id \in Client /\ r.n \in 1..MaxRequests /\ r.rej \in 0..MaxRetries
      /\ r.exit \in BOOLEAN
      /\ r = [id |-> r.id, n |-> r.n, rej |-> r.rej, exit |-> r.exit]
  BY DEF Packet
<1>2. r.n \in 0..MaxRequests
  BY <1>1, BoundsAssumption
<1>3. r.rej + 1 < MaxRetries => r.rej + 1 \in 0..MaxRetries
  BY <1>1, BoundsAssumption
<1>4. [r EXCEPT !.rej = @ + 1] =
        [id |-> r.id, n |-> r.n, rej |-> r.rej + 1, exit |-> r.exit]
  BY <1>1
<1> QED BY <1>1, <1>2, <1>3, <1>4 DEF Packet

LEMMA InitInv == Init => Types /\ PipeInv
<1> SUFFICES ASSUME Init PROVE Types /\ PipeInv
  OBVIOUS
<1> USE DEF Init
<1>1. Types
  BY BoundsAssumption DEF Types, TypeOK, Reading
<1>2. ASSUME NEW c \in Client PROVE Kept(c)
  <2>1. \A d \in Client : ~With(held[d], c)
    BY DEF With
  <2>2. ~In(send, c) /\ ~In(recv, c) /\ ~With(pkt, c) /\ ~Held(c)
    BY <2>1 DEF In, With, Held
  <2> QED BY <2>1, <2>2
        DEF Kept, Single, Busy, Fresh, One, AllNew, New, In
<1> QED BY <1>1, <1>2 DEF PipeInv
-----------------------------------------------------------------------------
(* A client that does nothing with a packet keeps the types. *)
LEMMA ClientTypes ==
  ASSUME Types, NEW c \in Client,
         \/ OpenFifos(c) \/ Leave(c) \/ Interrupt(c)
         \/ KillClient(c) \/ Request(c)
  PROVE  Types'
<1> USE DEF Types, TypeOK, Goto, Fail, Reading, dVars
<1>1. CASE OpenFifos(c) \/ Leave(c) \/ Interrupt(c)
  BY <1>1 DEF OpenFifos, Leave, Interrupt
<1>2. CASE KillClient(c)
  <2>1. held[c] # NoPkt =>
          <<held[c].id, held[c].n>> \in Client \X (1..MaxRequests)
    BY DEF Packet
  <2>2. cpc' \in [Client -> Reading \cup {"closed", "ended"}]
    BY <1>2 DEF KillClient
  <2>3. \A d \in Client : cpc'[d] = "back" => held'[d] # NoPkt
    BY <1>2 DEF KillClient
  <2>4. held' \in [Client -> Packet \cup {NoPkt}]
    BY <1>2 DEF KillClient
  <2> QED BY <1>2, <2>1, <2>2, <2>3, <2>4 DEF KillClient
<1>3. CASE Request(c)
  <2> DEFINE p == [id |-> c, n |-> req[c] + 1, rej |-> 0, exit |-> FALSE]
  <2>1. /\ cpc' \in [Client -> Reading \cup {"closed", "ended"}]
        /\ \A d \in Client : cpc'[d] = "back" => held'[d] # NoPkt
    BY <1>3 DEF Request
  <2>2. CASE dpc # "gone" /\ Len(send) < Capacity /\ send' = Append(send, p)
              /\ req' = [req EXCEPT ![c] = @ + 1]
              /\ tries' = [tries EXCEPT ![c] = 0]
    <3>1. req[c] + 1 \in 1..MaxRequests
      BY <1>3, BoundsAssumption DEF Request
    <3>2. p \in Packet
      BY <3>1, BoundsAssumption DEF Packet
    <3>3. send' \in Seq(Packet) /\ Len(send') = Len(send) + 1
      BY <2>2, <3>2, AppendFacts
    <3>4. Len(send') <= Capacity
      BY <2>2, <3>3, BoundsAssumption
    <3>5. req' \in [Client -> 0..MaxRequests] /\ tries' \in [Client -> 0..MaxRetries]
      BY <2>2, <3>1, BoundsAssumption
    <3> QED BY <1>3, <2>1, <3>3, <3>4, <3>5 DEF Request
  <2>3. CASE UNCHANGED <<send, req, tries>>
    BY <1>3, <2>1, <2>3 DEF Request
  <2> QED BY <1>3, <2>2, <2>3 DEF Request
<1> QED BY <1>1, <1>2, <1>3

(* So does one that takes a response, or puts it back. *)
LEMMA CommandTypes ==
  ASSUME Types, NEW c \in Client, Command(c)
  PROVE  Types'
<1> USE DEF Types, TypeOK, Goto, Fail, Reading, dVars
<1>1. CASE Response(c)
  <2> DEFINE r == Head(recv)
             s == [r EXCEPT !.rej = @ + 1]
  <2>1. /\ recv' \in Seq(Packet) /\ r \in Packet /\ Len(recv') <= Capacity
    BY <1>1, TailFacts, BoundsAssumption DEF Response
  <2>2. <<r.id, r.n>> \in Client \X (1..MaxRequests) /\ r.n \in 0..MaxRequests
    BY <2>1, PacketFacts
  <2>3. r.rej + 1 < MaxRetries => s \in Packet
    BY <2>1, PacketFacts
  <2> HIDE DEF r, s
  <2>4. CASE Accept(c, r)
    BY <1>1, <2>1, <2>2, <2>4 DEF Accept, Response
  <2>5. CASE GiveUp(c, r)
    BY <1>1, <2>1, <2>2, <2>5 DEF GiveUp, Response
  <2>6. CASE Reject(c, r)
    <3>1. tries' \in [Client -> 0..MaxRetries]
      BY <2>6, BoundsAssumption DEF Reject
    <3>2. \/ /\ s \in Packet /\ Goto(c, "back")
             /\ held' = [held EXCEPT ![c] = s] /\ UNCHANGED lost
          \/ lost' = lost \cup {<<r.id, r.n>>} /\ UNCHANGED <<cpc, held>>
      BY <2>3, <2>6 DEF Reject, s
    <3>3. /\ held' \in [Client -> Packet \cup {NoPkt}]
          /\ cpc' \in [Client -> Reading \cup {"closed", "ended"}]
          /\ \A d \in Client : cpc'[d] = "back" => held'[d] # NoPkt
      BY <3>2, NoPktAssumption
    <3>4. lost' \subseteq Client \X (1..MaxRequests)
      BY <2>2, <3>2
    <3> QED BY <1>1, <2>1, <2>6, <3>1, <3>3, <3>4 DEF Reject, Response
  <2> QED BY <1>1, <2>4, <2>5, <2>6 DEF Response, r
<1>2. CASE PutBack(c)
  <2>1. held[c] \in Packet
    BY <1>2 DEF PutBack
  <2>2. <<held[c].id, held[c].n>> \in Client \X (1..MaxRequests)
    BY <2>1 DEF Packet
  <2>3. recv' \in Seq(Packet) /\ Len(recv') <= Capacity
    <3>1. /\ Append(recv, held[c]) \in Seq(Packet)
          /\ Len(Append(recv, held[c])) = Len(recv) + 1 /\ Len(recv) \in Nat
      BY <2>1, AppendFacts
    <3>2. \/ recv' = Append(recv, held[c]) /\ Len(recv) < Capacity
          \/ recv' = recv
      BY <1>2 DEF PutBack
    <3>3. Len(recv) < Capacity => Len(recv) + 1 <= Capacity
      BY <3>1, BoundsAssumption
    <3> QED BY <3>1, <3>2, <3>3
  <2>4. /\ held' \in [Client -> Packet \cup {NoPkt}]
        /\ cpc' \in [Client -> Reading \cup {"closed", "ended"}]
        /\ \A d \in Client : cpc'[d] = "back" => held'[d] # NoPkt
    BY <1>2 DEF PutBack
  <2> QED BY <1>2, <2>2, <2>3, <2>4 DEF PutBack
<1> QED BY <1>1, <1>2 DEF Command

(* So does the daemon. *)
LEMMA DaemonTypes ==
  ASSUME Types, Daemon \/ ExitIdle
  PROVE  Types'
<1> USE DEF Types, TypeOK, cVars
<1>1. CASE GetPkt
  <2>1. /\ send' \in Seq(Packet) /\ pkt' \in Packet /\ Len(send') <= Capacity
    BY <1>1, TailFacts, BoundsAssumption DEF GetPkt
  <2> QED BY <1>1, <2>1, NoPktAssumption DEF GetPkt
<1>2. CASE DoCmd
  <2>1. pkt \in Packet
    BY <1>2 DEF DoCmd
  <2>2. \A e \in BOOLEAN : [pkt EXCEPT !.exit = e] \in Packet
    BY <2>1 DEF Packet
  <2>3. pkt' \in Packet
    BY <1>2, <2>1, <2>2 DEF DoCmd
  <2> QED BY <1>2, <2>3, NoPktAssumption DEF DoCmd
<1>3. CASE Reply
  <2>1. pkt \in Packet
    BY <1>3 DEF Reply
  <2>2. recv' \in Seq(Packet) /\ Len(recv') <= Capacity
    <3>1. /\ Append(recv, pkt) \in Seq(Packet)
          /\ Len(Append(recv, pkt)) = Len(recv) + 1 /\ Len(recv) \in Nat
      BY <2>1, AppendFacts
    <3>2. \/ recv' = Append(recv, pkt) /\ Len(recv) < Capacity
          \/ recv' = recv
      BY <1>3 DEF Reply, Quit
    <3>3. Len(recv) < Capacity => Len(recv) + 1 <= Capacity
      BY <3>1, BoundsAssumption
    <3> QED BY <3>1, <3>2, <3>3
  <2> QED BY <1>3, <2>2 DEF Reply, Quit
<1>4. CASE ExitIdle
  BY <1>4 DEF ExitIdle, Quit
<1> QED BY <1>1, <1>2, <1>3, <1>4 DEF Daemon

LEMMA NextTypes == Types /\ [Next]_vars => Types'
<1> SUFFICES ASSUME Types, [Next]_vars PROVE Types'
  OBVIOUS
<1>1. CASE UNCHANGED vars
  BY <1>1 DEF Types, TypeOK, vars, dVars, cVars
<1> QED BY <1>1, ClientTypes, CommandTypes, DaemonTypes DEF Next

(* Every variable keeps its type: a FIFO never holds more than its         *)
(* capacity, a client never tries again more often than the retry limit.   *)
THEOREM PipeTypeCorrect == Spec => []TypeOK
<1>1. Types => TypeOK
  BY DEF Types
<1> QED BY <1>1, InitInv, NextTypes, PTL DEF Spec
-----------------------------------------------------------------------------
(* What a client that is asked about sees of the steps of any client d ... *)
LEMMA ClientKeeps ==
  ASSUME Types, NEW c \in Client \ Visual, Kept(c), NEW d \in Client,
         \/ OpenFifos(d) \/ Leave(d) \/ Interrupt(d)
         \/ KillClient(d) \/ Request(d)
  PROVE  Kept(c)'
<1> USE DEF Kept, Single, Busy, Fresh, Goto, Fail, Reading, dVars
<1>0. cpc \in [Client -> Reading \cup {"closed", "ended"}]
  BY DEF Types, TypeOK
<1>1. CASE OpenFifos(d) \/ Leave(d) \/ Interrupt(d)
  <2>1. \/ cpc'[c] = cpc[c] \/ cpc[c] = "closed" \/ cpc[c] = "idle"
        \/ cpc'[c] = "ended"
    BY <1>0, <1>1 DEF OpenFifos, Leave, Interrupt
  <2> QED BY <1>1, <2>1 DEF OpenFifos, Leave, Interrupt, Held
<1>2. CASE KillClient(d)
  <2>1. cpc'[c] = cpc[c] \/ cpc'[c] = "ended"
    BY <1>0, <1>2 DEF KillClient
  <2>2. \A e \in Client : held'[e] = held[e] \/ held'[e] = NoPkt
    BY <1>2 DEF KillClient, Types, TypeOK
  <2>3. \A e \in Client : With(held'[e], c) => held'[e] = held[e] /\ With(held[e], c)
    BY <2>2 DEF With
  <2>4. Held(c)' => Held(c)
    BY <2>3 DEF Held
  <2>5. \A e \in Client : New(held'[e], c, req[c])
    BY <2>3 DEF New
  <2> QED BY <1>2, <2>1, <2>3, <2>4, <2>5 DEF KillClient
<1>3. CASE Request(d)
  <2>1. CASE Fail(d) /\ UNCHANGED <<send, req, tries>>
    <3>1. cpc'[c] = cpc[c] \/ cpc'[c] = "ended"
      BY <1>0, <2>1
    <3> QED BY <1>3, <2>1, <3>1 DEF Request, Held
  <2>2. CASE /\ Len(send) < Capacity
             /\ send' = Append(send, [id |-> d, n |-> req[d] + 1, rej |-> 0,
                                      exit |-> FALSE])
             /\ req' = [req EXCEPT ![d] = @ + 1]
             /\ Goto(d, "wait")
    <3> DEFINE p == [id |-> d, n |-> req[d] + 1, rej |-> 0, exit |-> FALSE]
    <3>1. req \in [Client -> 0..MaxRequests] /\ send \in Seq(Packet)
      BY DEF Types, TypeOK
    <3>2. p \in Packet
      BY <1>3, <3>1, BoundsAssumption DEF Packet, Request
    <3>3. /\ p.id = d /\ p.n = req'[d]
          /\ d # c => req'[c] = req[c] /\ cpc'[c] = cpc[c]
          /\ d = c => cpc[c] = "idle" /\ cpc'[c] = "wait"
      BY <1>0, <1>3, <2>2, <3>1 DEF Request
    <3> HIDE DEF p
    <3>4. /\ In(send', c) <=> In(send, c) \/ d = c
          /\ One(send, c) /\ ~(In(send, c) /\ d = c) => One(send', c)
          /\ AllNew(send, c, req'[c]) => AllNew(send', c, req'[c])
      BY <2>2, <3>1, <3>2, <3>3, AppendFacts DEF p
    <3>5. UNCHANGED <<recv, pkt, held>>
      BY <1>3 DEF Request
    <3>6. CASE d = c
      <4>1. ~In(send, c) /\ ~In(recv, c) /\ ~With(pkt, c) /\ ~Held(c)
        BY <3>3, <3>6
      <4>2. /\ AllNew(send, c, req'[c]) /\ AllNew(recv, c, req'[c])
            /\ New(pkt, c, req'[c])
            /\ \A e \in Client : New(held[e], c, req'[c])
        BY <4>1 DEF In, AllNew, New, Held
      <4>3. Single(c)'
        BY <3>4, <3>5, <4>1 DEF Held
      <4>4. Fresh(c)'
        BY <3>4, <3>5, <4>2
      <4> QED BY <3>3, <3>6, <4>3, <4>4
    <3>7. CASE d # c
      BY <3>3, <3>4, <3>5, <3>7 DEF Held
    <3> QED BY <3>6, <3>7
  <2> QED BY <1>3, <2>1, <2>2 DEF Request
<1> QED BY <1>1, <1>2, <1>3

(* ... of those that move a response, which may be its own ...             *)
LEMMA CommandKeeps ==
  ASSUME Types, NEW c \in Client \ Visual, Kept(c), NEW d \in Client, Command(d)
  PROVE  Kept(c)'
<1> USE DEF Kept, Single, Busy, Fresh, Goto, Fail, Reading, dVars
<1>0. /\ cpc \in [Client -> Reading \cup {"closed", "ended"}]
      /\ recv \in Seq(Packet) /\ held \in [Client -> Packet \cup {NoPkt}]
  BY DEF Types, TypeOK
<1>1. CASE Response(d)
  <2> DEFINE r == Head(recv)
  <2>1. /\ r \in Packet
        /\ In(recv', c) => In(recv, c)
        /\ r.id = c => In(recv, c) /\ ~In(recv', c) /\ r.n = req[c]
        /\ One(recv', c) /\ AllNew(recv', c, req[c])
        /\ UNCHANGED <<send, pkt, req>>
    BY <1>0, <1>1, TailFacts DEF Response
  <2> HIDE DEF r
  <2>2. CASE Accept(d, r)
    <3>1. UNCHANGED held /\ r.id = d
      BY <2>2 DEF Accept
    <3>2. d # c => cpc'[c] = cpc[c]
      BY <1>0, <2>2 DEF Accept
    <3>3. d = c => ~In(send, c) /\ ~In(recv', c) /\ ~With(pkt, c) /\ ~Held(c)
      BY <2>1, <3>1
    <3> QED BY <2>1, <3>1, <3>2, <3>3 DEF Held
  <2>3. CASE GiveUp(d, r)
    <3>1. UNCHANGED held /\ (cpc'[c] = cpc[c] \/ cpc'[c] = "ended")
      BY <1>0, <2>3 DEF GiveUp
    <3> QED BY <2>1, <3>1 DEF Held
  <2>4. CASE UNCHANGED <<cpc, held>>
    BY <2>1, <2>4 DEF Held
  <2>5. CASE Reject(d, r) /\ Goto(d, "back")
             /\ held' = [held EXCEPT ![d] = [r EXCEPT !.rej = @ + 1]]
    <3>1. \A e \in Client : e # d => held'[e] = held[e]
      BY <1>0, <2>5
    <3>2. held'[d].id = r.id /\ held'[d].n = r.n
      BY <1>0, <2>1, <2>5 DEF Packet
    <3>3. cpc'[c] = cpc[c] \/ cpc'[c] = "back"
      BY <1>0, <2>5
    <3>4. r.id = c => ~Held(c) /\ ~In(send, c) /\ ~With(pkt, c)
      BY <2>1
    <3>5. \A e \in Client : With(held'[e], c) =>
            With(held[e], c) \/ (e = d /\ r.id = c)
      BY <3>1, <3>2 DEF With
    <3>6. Held(c)' => Held(c) \/ r.id = c
      BY <3>5 DEF Held
    <3>7. \A e, f \in Client : With(held'[e], c) /\ With(held'[f], c) => e = f
      BY <3>4, <3>5 DEF Held
    <3>8. \A e \in Client : New(held'[e], c, req[c])
      BY <2>1, <3>1, <3>2 DEF New, With
    <3>9. In(recv', c) => ~Held(c)'
      BY <2>1, <3>6
    <3>10. Single(c)'
      BY <2>1, <3>4, <3>6, <3>7, <3>9
    <3>11. Busy(c)'
      BY <2>1, <3>3, <3>6
    <3> QED BY <2>1, <3>8, <3>10, <3>11
  <2> QED BY <1>1, <2>2, <2>3, <2>4, <2>5 DEF Response, Reject, r
<1>2. CASE PutBack(d)
  <2>1. held[d] \in Packet /\ UNCHANGED <<send, pkt, req>>
    BY <1>0, <1>2 DEF PutBack, Types
  <2>2. /\ \A e \in Client : e # d => held'[e] = held[e]
        /\ held'[d] = NoPkt
    BY <1>0, <1>2 DEF PutBack
  <2>3. \A e \in Client : With(held'[e], c) => e # d /\ With(held[e], c)
    BY <2>2 DEF With
  <2>4. held[d].id = c => /\ ~Held(c)' /\ ~In(send, c) /\ ~In(recv, c)
                          /\ ~With(pkt, c) /\ held[d].n = req[c]
                          /\ cpc[c] \in {"wait", "back", "ended"}
    <3> SUFFICES ASSUME held[d].id = c PROVE /\ ~Held(c)' /\ ~In(send, c)
                          /\ ~In(recv, c) /\ ~With(pkt, c)
                          /\ held[d].n = req[c]
                          /\ cpc[c] \in {"wait", "back", "ended"}
      OBVIOUS
    <3>1. With(held[d], c) /\ Held(c)
      BY <2>1, NoPktAssumption DEF With, Held
    <3>2. ~Held(c)'
      BY <2>3, <3>1 DEF Held
    <3> QED BY <3>1, <3>2 DEF New
  <2>5. Held(c)' => Held(c)
    BY <2>3 DEF Held
  <2>6. \A e \in Client : New(held'[e], c, req[c])
    BY <2>2, <2>3 DEF New
  <2>7. cpc'[c] = cpc[c] \/ cpc'[c] = "wait" \/ cpc'[c] = "ended"
    BY <1>0, <1>2 DEF PutBack
  <2>8. CASE recv' = Append(recv, held[d])
    <3>1. /\ In(recv', c) <=> In(recv, c) \/ held[d].id = c
          /\ One(recv', c) /\ AllNew(recv', c, req[c])
      BY <1>0, <2>1, <2>4, <2>8, AppendFacts
    <3>2. Single(c)'
      BY <2>1, <2>3, <2>4, <2>5, <3>1
    <3>3. Busy(c)'
      BY <2>1, <2>4, <2>5, <2>7, <3>1
    <3> QED BY <2>1, <2>6, <3>1, <3>2, <3>3
  <2>9. CASE UNCHANGED recv
    BY <2>1, <2>3, <2>5, <2>6, <2>7, <2>9
  <2> QED BY <1>2, <2>8, <2>9 DEF PutBack
<1> QED BY <1>1, <1>2 DEF Command

(* ... and of those of the daemon.                                         *)
LEMMA DaemonKeeps ==
  ASSUME Types, NEW c \in Client \ Visual, Kept(c), Daemon \/ ExitIdle
  PROVE  Kept(c)'
<1> USE DEF Kept, Single, Busy, Fresh, cVars
<1>0. /\ send \in Seq(Packet) /\ recv \in Seq(Packet)
      /\ dpc \in {"do", "reply", "replyquit"} => pkt \in Packet /\ pkt # NoPkt
  BY DEF Types, TypeOK
<1>9. Held(c)' <=> Held(c)
  BY DEF Daemon, ExitIdle, GetPkt, DoCmd, Reply, Held
<1>1. CASE GetPkt
  <2>1. /\ In(send', c) => In(send, c)
        /\ pkt'.id = c => In(send, c) /\ ~In(send', c) /\ pkt'.n = req[c]
        /\ One(send', c) /\ AllNew(send', c, req[c])
    BY <1>0, <1>1, TailFacts DEF GetPkt
  <2> QED BY <1>1, <1>9, <2>1 DEF GetPkt, With, New
<1>2. CASE DoCmd
  <2>1. pkt'.id = pkt.id /\ pkt'.n = pkt.n /\ pkt # NoPkt
    BY <1>0, <1>2 DEF DoCmd, Packet
  <2>2. (With(pkt, c)' => With(pkt, c)) /\ New(pkt', c, req[c])
    BY <2>1 DEF With, New
  <2> QED BY <1>2, <1>9, <2>2 DEF DoCmd
<1>3. CASE Reply
  <2>1. CASE recv' = Append(recv, pkt) /\ pkt' = NoPkt /\ UNCHANGED send
    <3>1. pkt \in Packet /\ (pkt.id = c <=> With(pkt, c))
      BY <1>0, <1>3 DEF Reply, With
    <3>2. pkt.id = c => pkt.n = req[c]
      BY <3>1 DEF New
    <3>3. /\ In(recv', c) <=> In(recv, c) \/ pkt.id = c
          /\ One(recv', c) /\ AllNew(recv', c, req[c])
      BY <1>0, <2>1, <3>1, <3>2, AppendFacts
    <3>4. ~With(pkt', c)
      BY <2>1 DEF With
    <3> QED BY <1>3, <1>9, <2>1, <3>1, <3>3, <3>4 DEF Reply, New
  <2>2. CASE Quit
    <3>1. ~With(pkt', c)
      BY <2>2 DEF Quit, With
    <3> QED BY <1>3, <1>9, <2>2, <3>1 DEF Reply, Quit, New
  <2> QED BY <1>3, <2>1, <2>2 DEF Reply
<1>4. CASE ExitIdle
  <2>1. ~With(pkt', c)
    BY <1>4 DEF ExitIdle, Quit, With
  <2> QED BY <1>4, <1>9, <2>1 DEF ExitIdle, Quit, New
<1> QED BY <1>1, <1>2, <1>3, <1>4 DEF Daemon

LEMMA NextKeeps == Types /\ PipeInv /\ [Next]_vars => PipeInv'
<1> SUFFICES ASSUME Types, PipeInv, [Next]_vars, NEW c \in Client \ Visual
             PROVE  Kept(c)'
  BY DEF PipeInv
<1>1. Kept(c)
  BY DEF PipeInv
<1>2. CASE UNCHANGED vars
  BY <1>1, <1>2 DEF Kept, Single, Busy, Fresh, Held, vars, dVars, cVars
<1> QED BY <1>1, <1>2, ClientKeeps, CommandKeeps, DaemonKeeps DEF Next

(* cda_sendcmd takes a packet that bears its pid for its answer.  On the   *)
(* command line it is that: the one packet of the client's last request,   *)
(* whatever the others and the daemon have done with it.                   *)
THEOREM AnswerMatchesHolds == Spec => AnswerMatches
<1> DEFINE Match == \A c \in Client \ Visual : got'[c] # got[c] => got'[c] = req[c]
<1>1. Types /\ PipeInv /\ [Next]_vars => [Match]_vars
  <2> SUFFICES ASSUME Types, PipeInv, [Next]_vars, NEW c \in Client \ Visual,
                      got'[c] # got[c]
               PROVE  got'[c] = req[c]
    OBVIOUS
  <2>0. got \in [Client -> 0..MaxRequests] /\ recv \in Seq(Packet)
    BY DEF Types, TypeOK
  <2>1. PICK d \in Client : Response(d) /\ Accept(d, Head(recv))
    BY DEF Next, Daemon, GetPkt, DoCmd, Reply, ExitIdle, OpenFifos, Leave,
           Request, Command, PutBack, Interrupt, KillClient, Response, GiveUp,
           Reject, vars, cVars
  <2>2. d = c /\ Head(recv).id = c /\ got'[c] = Head(recv).n
    BY <2>0, <2>1 DEF Accept
  <2>3. AllNew(recv, c, req[c]) /\ recv # <<>>
    BY <2>1 DEF PipeInv, Kept, Fresh, Response
  <2> QED BY <2>0, <2>2, <2>3, TailFacts
<1> QED BY <1>1, InitInv, NextTypes, NextKeeps, PTL DEF Spec, AnswerMatches
-----------------------------------------------------------------------------
(* The packet of request n of c is in q, is p, or is somewhere. *)
Has(q, c, n) == \E i \in 1..Len(q) : q[i].id = c /\ q[i].n = n
Is(p, c, n)  == With(p, c) /\ p.n = n
Somewhere(c) ==
  \/ Has(send, c, req[c]) \/ Has(recv, c, req[c]) \/ Is(pkt, c, req[c])
  \/ \E d \in Client : Is(held[d], c, req[c])

Safe(c) == Waiting(c) /\ dpc # "gone" /\ ~Lost(c) => Somewhere(c)

(* Who takes a packet has none yet, so he overwrites none. *)
Free ==
  /\ dpc \in {"get", "gone"} => pkt = NoPkt
  /\ \A c \in Client : cpc[c] # "back" => held[c] = NoPkt

LEMMA AppendHas ==
  ASSUME NEW q \in Seq(Packet), NEW p \in Packet, NEW c, NEW n
  PROVE  Has(Append(q, p), c, n) <=> Has(q, c, n) \/ (p.id = c /\ p.n = n)
<1>1. /\ Len(Append(q, p)) = Len(q) + 1 /\ Len(q) \in Nat
      /\ \A i \in 1..Len(q) : Append(q, p)[i] = q[i]
      /\ Append(q, p)[Len(q) + 1] = p
  OBVIOUS
<1>2. \A i \in 1..(Len(q) + 1) : i \in 1..Len(q) \/ i = Len(q) + 1
  BY <1>1
<1>3. Len(q) + 1 \in 1..(Len(q) + 1) /\ \A i \in 1..Len(q) : i \in 1..(Len(q) + 1)
  BY <1>1
<1> DEFINE r == Append(q, p)
<1> HIDE DEF r
<1>4. Has(r, c, n) <=> Has(q, c, n) \/ (p.id = c /\ p.n = n)
  BY <1>1, <1>2, <1>3 DEF Has, r
<1> QED BY <1>4 DEF r

LEMMA TailHas ==
  ASSUME NEW q \in Seq(Packet), q # <<>>, NEW c, NEW n, Has(q, c, n)
  PROVE  Has(Tail(q), c, n) \/ (Head(q).id = c /\ Head(q).n = n)
<1>1. /\ Len(Tail(q)) = Len(q) - 1 /\ Len(q) \in Nat \ {0} /\ Head(q) = q[1]
      /\ \A i \in 1..Len(Tail(q)) : Tail(q)[i] = q[i + 1]
  OBVIOUS
<1>2. PICK i \in 1..Len(q) : q[i].id = c /\ q[i].n = n
  BY DEF Has
<1>3. CASE i = 1
  BY <1>1, <1>2, <1>3
<1>4. CASE i # 1
  <2>1. i - 1 \in 1..Len(Tail(q)) /\ (i - 1) + 1 = i
    BY <1>1, <1>4
  <2>2. Tail(q)[i - 1] = q[i]
    BY <1>1, <2>1
  <2> QED BY <1>2, <2>1, <2>2 DEF Has
<1> QED BY <1>3, <1>4

LEMMA FreeKeeps ==
  ASSUME Types, Free, [Next]_vars
  PROVE  Free'
<1> USE DEF Free, Goto, Fail, Reading, dVars, cVars
<1>0. /\ cpc \in [Client -> Reading \cup {"closed", "ended"}]
      /\ held \in [Client -> Packet \cup {NoPkt}]
  BY DEF Types, TypeOK
<1>1. ASSUME NEW c \in Client,
             \/ OpenFifos(c) \/ Leave(c) \/ Interrupt(c)
             \/ KillClient(c) \/ Request(c)
      PROVE  Free'
  BY <1>0, <1>1 DEF OpenFifos, Leave, Interrupt, KillClient, Request
<1>2. ASSUME NEW c \in Client, Response(c) PROVE Free'
  <2> DEFINE r == Head(recv)
  <2>1. CASE Accept(c, r) \/ GiveUp(c, r)
    BY <1>0, <1>2, <2>1 DEF Accept, GiveUp, Response
  <2>2. CASE Reject(c, r)
    BY <1>0, <1>2, <2>2 DEF Reject, Response
  <2> QED BY <1>2, <2>1, <2>2 DEF Response
<1>3. ASSUME NEW c \in Client, PutBack(c) PROVE Free'
  BY <1>0, <1>3 DEF PutBack
<1>4. CASE Daemon \/ ExitIdle
  BY <1>4 DEF Daemon, ExitIdle, GetPkt, DoCmd, Reply, Quit
<1>5. CASE UNCHANGED vars
  BY <1>5 DEF vars
<1> QED BY <1>1, <1>2, <1>3, <1>4, <1>5 DEF Next, Command

(* A client that does nothing with a packet ... *)
LEMMA ClientSafe ==
  ASSUME Types, NEW c \in Client, Safe(c), NEW d \in Client,
         \/ OpenFifos(d) \/ Leave(d) \/ Interrupt(d)
         \/ KillClient(d) \/ Request(d)
  PROVE  Safe(c)'
<1> USE DEF Safe, Somewhere, Waiting, Lost, Goto, Fail, Reading, dVars
<1>0. /\ cpc \in [Client -> Reading \cup {"closed", "ended"}]
      /\ req \in [Client -> 0..MaxRequests] /\ send \in Seq(Packet)
      /\ held \in [Client -> Packet \cup {NoPkt}]
  BY DEF Types, TypeOK
<1>1. CASE OpenFifos(d) \/ Leave(d) \/ Interrupt(d)
  <2>1. cpc'[c] \in {"wait", "back"} => cpc[c] \in {"wait", "back"}
    BY <1>0, <1>1 DEF OpenFifos, Leave, Interrupt
  <2> QED BY <1>1, <2>1 DEF OpenFifos, Leave, Interrupt
<1>2. CASE KillClient(d)
  <2>1. cpc'[c] \in {"wait", "back"} => cpc[c] \in {"wait", "back"}
    BY <1>0, <1>2 DEF KillClient
  <2>2. lost \subseteq lost' /\ UNCHANGED <<send, recv, dpc, pkt, req>>
    BY <1>2 DEF KillClient
  <2>3. \A e \in Client : Is(held[e], c, req[c]) =>
          held'[e] = held[e] \/ <<c, req[c]>> \in lost'
    BY <1>0, <1>2 DEF KillClient, Is, With
  <2> QED BY <2>1, <2>2, <2>3
<1>3. CASE Request(d)
  <2>1. CASE Fail(d) /\ UNCHANGED <<send, req>>
    <3>1. cpc'[c] \in {"wait", "back"} => cpc[c] \in {"wait", "back"}
      BY <1>0, <2>1
    <3> QED BY <1>3, <2>1, <3>1 DEF Request
  <2>2. CASE /\ send' = Append(send, [id |-> d, n |-> req[d] + 1, rej |-> 0,
                                      exit |-> FALSE])
             /\ req' = [req EXCEPT ![d] = @ + 1]
             /\ Goto(d, "wait")
    <3> DEFINE p == [id |-> d, n |-> req[d] + 1, rej |-> 0, exit |-> FALSE]
    <3>1. p \in Packet
      BY <1>0, <1>3, BoundsAssumption DEF Packet, Request
    <3>2. /\ p.id = d /\ p.n = req'[d]
          /\ d # c => req'[c] = req[c] /\ cpc'[c] = cpc[c]
      BY <1>0, <2>2
    <3> HIDE DEF p
    <3>3. /\ p.id = c /\ p.n = req'[c] => Has(send', c, req'[c])
          /\ Has(send, c, req'[c]) => Has(send', c, req'[c])
      BY <1>0, <2>2, <3>1, AppendHas DEF p
    <3> QED BY <1>3, <3>2, <3>3 DEF Request
  <2> QED BY <1>3, <2>1, <2>2 DEF Request
<1> QED BY <1>1, <1>2, <1>3

(* ... one that takes a response, or puts it back ... *)
LEMMA CommandSafe ==
  ASSUME Types, Free, NEW c \in Client, Safe(c), NEW d \in Client, Command(d)
  PROVE  Safe(c)'
<1> USE DEF Safe, Somewhere, Waiting, Lost, Goto, Fail, Reading, dVars
<1>0. /\ cpc \in [Client -> Reading \cup {"closed", "ended"}]
      /\ recv \in Seq(Packet) /\ held \in [Client -> Packet \cup {NoPkt}]
  BY DEF Types, TypeOK
<1>1. CASE Response(d)
  <2> DEFINE r == Head(recv)
  <2>1. /\ r \in Packet /\ cpc[d] = "wait"
        /\ Has(recv, c, req[c]) =>
             Has(recv', c, req[c]) \/ (r.id = c /\ r.n = req[c])
        /\ UNCHANGED <<send, pkt, dpc, req>>
    BY <1>0, <1>1, TailFacts, TailHas DEF Response
  <2> HIDE DEF r
  <2>2. CASE Accept(d, r)
    <3>1. UNCHANGED <<held, lost>> /\ r.id = d
      BY <2>2 DEF Accept
    <3>2. cpc'[c] \in {"wait", "back"} => cpc[c] \in {"wait", "back"} /\ d # c
      BY <1>0, <2>2 DEF Accept
    <3> QED BY <2>1, <3>1, <3>2
  <2>3. CASE GiveUp(d, r)
    <3>1. UNCHANGED held /\ lost' = lost \cup {<<r.id, r.n>>}
      BY <2>3 DEF GiveUp
    <3>2. cpc'[c] \in {"wait", "back"} => cpc[c] \in {"wait", "back"}
      BY <1>0, <2>3 DEF GiveUp
    <3> QED BY <2>1, <3>1, <3>2
  <2>4. CASE UNCHANGED <<cpc, held>> /\ lost' = lost \cup {<<r.id, r.n>>}
    BY <2>1, <2>4
  <2>5. CASE /\ Goto(d, "back") /\ UNCHANGED lost
             /\ held' = [held EXCEPT ![d] = [r EXCEPT !.rej = @ + 1]]
    <3>1. held[d] = NoPkt
      BY <2>1 DEF Free
    <3>2. \A e \in Client : Is(held[e], c, req[c]) => held'[e] = held[e]
      BY <1>0, <2>5, <3>1 DEF Is, With
    <3>3. held'[d].id = r.id /\ held'[d].n = r.n
      BY <1>0, <2>1, <2>5 DEF Packet
    <3>4. held'[d] # NoPkt
      <4>1. Types' /\ cpc'[d] = "back"
        BY <1>0, <1>1, <2>5, CommandTypes DEF Command
      <4> QED BY <4>1 DEF Types
    <3>5. r.id = c /\ r.n = req[c] => Is(held'[d], c, req[c])
      BY <3>3, <3>4 DEF Is, With
    <3>6. cpc'[c] \in {"wait", "back"} => cpc[c] \in {"wait", "back"}
      BY <1>0, <2>1, <2>5
    <3> QED BY <2>1, <2>5, <3>2, <3>5, <3>6
  <2> QED BY <1>1, <2>2, <2>3, <2>4, <2>5 DEF Response, Reject, r
<1>2. CASE PutBack(d)
  <2>1. held[d] \in Packet /\ UNCHANGED <<send, dpc, pkt, req>>
    BY <1>0, <1>2 DEF PutBack, Types
  <2>2. \A e \in Client : e # d => held'[e] = held[e]
    BY <1>0, <1>2 DEF PutBack
  <2>3. cpc'[c] \in {"wait", "back"} => cpc[c] \in {"wait", "back"}
    BY <1>0, <1>2 DEF PutBack
  <2>4. CASE recv' = Append(recv, held[d]) /\ UNCHANGED lost
    <3>1. Has(recv', c, req[c]) <=>
            Has(recv, c, req[c]) \/ (held[d].id = c /\ held[d].n = req[c])
      BY <1>0, <2>1, <2>4, AppendHas
    <3> QED BY <2>1, <2>2, <2>3, <2>4, <3>1 DEF Is, With
  <2>5. CASE dpc = "gone"
    BY <2>1, <2>5
  <2> QED BY <1>2, <2>4, <2>5 DEF PutBack
<1> QED BY <1>1, <1>2 DEF Command

(* ... or the daemon loses no packet but as Conserved says. *)
LEMMA DaemonSafe ==
  ASSUME Types, Free, NEW c \in Client, Safe(c), Daemon \/ ExitIdle
  PROVE  Safe(c)'
<1> USE DEF Safe, Somewhere, Waiting, Lost, cVars
<1>0. /\ send \in Seq(Packet) /\ recv \in Seq(Packet)
      /\ dpc \in {"do", "reply", "replyquit"} => pkt \in Packet /\ pkt # NoPkt
  BY DEF Types, TypeOK
<1>1. CASE GetPkt
  <2>1. pkt = NoPkt /\ pkt' = Head(send) /\ pkt' \in Packet
    BY <1>0, <1>1, TailFacts DEF GetPkt, Free
  <2>2. Has(send, c, req[c]) => Has(send', c, req[c]) \/ Is(pkt', c, req[c])
    BY <1>0, <1>1, <2>1, TailHas, NoPktAssumption DEF GetPkt, Is, With
  <2> QED BY <1>1, <2>1, <2>2 DEF GetPkt, Is, With
<1>2. CASE DoCmd
  <2>1. pkt'.id = pkt.id /\ pkt'.n = pkt.n /\ pkt' \in Packet
    BY <1>0, <1>2 DEF DoCmd, Packet
  <2>2. Is(pkt, c, req[c]) => Is(pkt', c, req[c])
    BY <2>1, NoPktAssumption DEF Is, With
  <2> QED BY <1>2, <2>2 DEF DoCmd
<1>3. CASE Reply
  <2>1. CASE recv' = Append(recv, pkt) /\ UNCHANGED send
    <3>1. pkt \in Packet
      BY <1>0, <1>3 DEF Reply
    <3>2. Has(recv', c, req[c]) <=>
            Has(recv, c, req[c]) \/ (pkt.id = c /\ pkt.n = req[c])
      BY <1>0, <2>1, <3>1, AppendHas
    <3> QED BY <1>3, <2>1, <3>2 DEF Reply, Is, With
  <2>2. CASE Quit
    BY <2>2 DEF Quit
  <2> QED BY <1>3, <2>1, <2>2 DEF Reply
<1>4. CASE ExitIdle
  BY <1>4 DEF ExitIdle, Quit
<1> QED BY <1>1, <1>2, <1>3, <1>4 DEF Daemon

(* A packet that is somewhere is one of the packets there are. *)
LEMMA SomewhereIsPacket ==
  ASSUME NEW c \in Client, Somewhere(c)
  PROVE  \E p \in Packets : p.id = c /\ p.n = req[c]
<1>1. CASE Has(send, c, req[c])
  BY <1>1 DEF Has, Packets, Items
<1>2. CASE Has(recv, c, req[c])
  BY <1>2 DEF Has, Packets, Items
<1>3. CASE Is(pkt, c, req[c])
  BY <1>3 DEF Is, With, Packets
<1>4. CASE \E d \in Client : Is(held[d], c, req[c])
  BY <1>4 DEF Is, With, Packets
<1> QED BY <1>1, <1>2, <1>3, <1>4 DEF Somewhere

(* While the daemon lives, the packet of a client that waits in            *)
(* cda_sendcmd is in a FIFO, with the daemon or with a client about to put *)
(* it back, unless the reject limit or the end of a client took it.        *)
THEOREM ConservedHolds == Spec => []Conserved
<1> DEFINE Inv == Types /\ Free /\ \A c \in Client : Safe(c)
<1>1. Init => Inv
  BY InitInv DEF Init, Free, Safe, Waiting
<1>2. Inv /\ [Next]_vars => Inv'
  <2> SUFFICES ASSUME Inv, [Next]_vars PROVE Inv'
    OBVIOUS
  <2>1. Types' /\ Free'
    BY NextTypes, FreeKeeps
  <2>2. ASSUME NEW c \in Client PROVE Safe(c)'
    <3>1. CASE UNCHANGED vars
      BY <3>1 DEF Safe, Somewhere, Waiting, Lost, vars, dVars, cVars
    <3> QED BY <3>1, ClientSafe, CommandSafe, DaemonSafe DEF Next
  <2> QED BY <2>1, <2>2
<1>3. Inv => Conserved
  BY SomewhereIsPacket DEF Conserved, Safe
<1> QED BY <1>1, <1>2, <1>3, PTL DEF Spec
-----------------------------------------------------------------------------
(* The request that a packet belongs to is that of no other packet.        *)
Ref(p)      == <<p.id, p.n>>
Uniq(q)     == \A i, j \in 1..Len(q) : Ref(q[i]) = Ref(q[j]) => i = j
NotIn(p, q) == \A i \in 1..Len(q) : Ref(q[i]) # Ref(p)
Holder      == {c \in Client : held[c] # NoPkt}

(* Nor has a client sent a request that it has not counted. *)
Sent(p)   == p.n <= req[p.id]
AllSent(q) == \A i \in 1..Len(q) : Sent(q[i])

FifosUnique ==
  /\ Uniq(send) /\ Uniq(recv) /\ \A i \in 1..Len(send) : NotIn(send[i], recv)
  /\ AllSent(send) /\ AllSent(recv)
PktUnique ==
  pkt # NoPkt =>
    /\ NotIn(pkt, send) /\ NotIn(pkt, recv) /\ Sent(pkt)
    /\ \A c \in Holder : Ref(held[c]) # Ref(pkt)
HeldUnique ==
  \A c \in Holder :
    /\ NotIn(held[c], send) /\ NotIn(held[c], recv) /\ Sent(held[c])
    /\ \A d \in Holder : Ref(held[d]) = Ref(held[c]) => d = c
Unique == FifosUnique /\ PktUnique /\ HeldUnique

(* The packets of a FIFO to which one is added, or from which the first is *)
(* taken.                                                                  *)
LEMMA AppendAt ==
  ASSUME NEW q \in Seq(Packet), NEW p \in Packet
  PROVE  /\ \A i : i \in 1..Len(Append(q, p)) <=> i \in 1..Len(q) \/ i = Len(q) + 1
         /\ \A i \in 1..Len(q) : Append(q, p)[i] = q[i]
         /\ Append(q, p)[Len(q) + 1] = p
         /\ Len(q) + 1 \notin 1..Len(q)
<1> HIDE DEF Packet
<1>1. /\ Len(Append(q, p)) = Len(q) + 1 /\ Len(q) \in Nat
      /\ \A i \in 1..Len(q) : Append(q, p)[i] = q[i]
      /\ Append(q, p)[Len(q) + 1] = p
  OBVIOUS
<1> QED BY <1>1

LEMMA TailAt ==
  ASSUME NEW q \in Seq(Packet), q # <<>>
  PROVE  /\ \A i \in 1..Len(Tail(q)) : i + 1 \in 1..Len(q) /\ i + 1 # 1
         /\ \A i \in 1..Len(Tail(q)) : Tail(q)[i] = q[i + 1]
         /\ \A i, j \in 1..Len(Tail(q)) : i + 1 = j + 1 => i = j
         /\ 1 \in 1..Len(q) /\ q[1] = Head(q)
<1> HIDE DEF Packet
<1>1. /\ Len(Tail(q)) = Len(q) - 1 /\ Len(q) \in Nat \ {0}
      /\ \A i \in 1..Len(Tail(q)) : Tail(q)[i] = q[i + 1]
      /\ q[1] = Head(q)
  OBVIOUS
<1> QED BY <1>1

LEMMA AppendUniq ==
  ASSUME NEW q \in Seq(Packet), NEW p \in Packet
  PROVE  /\ Uniq(q) /\ NotIn(p, q) => Uniq(Append(q, p))
         /\ \A r : NotIn(r, q) /\ Ref(r) # Ref(p) => NotIn(r, Append(q, p))
         /\ AllSent(q) /\ Sent(p) => AllSent(Append(q, p))
<1> DEFINE t == Append(q, p)
<1>1. /\ \A i : i \in 1..Len(t) <=> i \in 1..Len(q) \/ i = Len(q) + 1
      /\ \A i \in 1..Len(q) : t[i] = q[i]
      /\ t[Len(q) + 1] = p /\ Len(q) + 1 \notin 1..Len(q)
  BY AppendAt
<1> HIDE DEF t
<1>2. Uniq(q) /\ NotIn(p, q) => Uniq(t)
  <2> DEFINE n == Len(q) + 1
             m == Len(q)
  <2>1. /\ \A i : i \in 1..Len(t) <=> i \in 1..m \/ i = n
        /\ \A i \in 1..m : t[i] = q[i]
        /\ t[n] = p
    BY <1>1
  <2> HIDE DEF n, Ref
  <2> QED BY <2>1 DEF Uniq, NotIn
<1>3. \A r : NotIn(r, q) /\ Ref(r) # Ref(p) => NotIn(r, t)
  BY <1>1 DEF NotIn
<1>4. AllSent(q) /\ Sent(p) => AllSent(t)
  BY <1>1 DEF AllSent
<1> QED BY <1>2, <1>3, <1>4 DEF t

LEMMA TailUniq ==
  ASSUME NEW q \in Seq(Packet), q # <<>>
  PROVE  /\ Uniq(q) => Uniq(Tail(q)) /\ NotIn(Head(q), Tail(q))
         /\ \A r : NotIn(r, q) => NotIn(r, Tail(q)) /\ Ref(Head(q)) # Ref(r)
         /\ AllSent(q) => AllSent(Tail(q)) /\ Sent(Head(q))
<1> DEFINE t == Tail(q)
<1>1. /\ \A i \in 1..Len(t) : i + 1 \in 1..Len(q) /\ i + 1 # 1 /\ t[i] = q[i + 1]
      /\ \A i, j \in 1..Len(t) : i + 1 = j + 1 => i = j
      /\ 1 \in 1..Len(q) /\ q[1] = Head(q)
  BY TailAt
<1> HIDE DEF t
<1>2. Uniq(q) => Uniq(t) /\ NotIn(Head(q), t)
  <2>1. ASSUME Uniq(q), NEW i \in 1..Len(t), NEW j \in 1..Len(t),
               Ref(t[i]) = Ref(t[j])
        PROVE  i = j
    BY <1>1, <2>1 DEF Uniq
  <2>2. ASSUME Uniq(q), NEW i \in 1..Len(t) PROVE Ref(t[i]) # Ref(Head(q))
    BY <1>1, <2>2 DEF Uniq
  <2> QED BY <2>1, <2>2 DEF Uniq, NotIn
<1>3. \A r : NotIn(r, q) => NotIn(r, t) /\ Ref(Head(q)) # Ref(r)
  BY <1>1 DEF NotIn
<1>4. AllSent(q) => AllSent(t) /\ Sent(Head(q))
  BY <1>1 DEF AllSent
<1> QED BY <1>2, <1>3, <1>4 DEF t

LEMMA InitUnique == Init => Unique
BY DEF Init, Unique, FifosUnique, PktUnique, HeldUnique, Holder, Uniq, NotIn,
       AllSent

(* A request has a number that the client has not used before. *)
LEMMA RequestUnique ==
  ASSUME Types, Unique, NEW c \in Client, Request(c)
  PROVE  Unique'
<1> USE DEF Unique, FifosUnique, PktUnique, HeldUnique, Holder
<1>0. /\ req \in [Client -> 0..MaxRequests] /\ send \in Seq(Packet)
      /\ recv \in Seq(Packet) /\ pkt \in Packet \cup {NoPkt}
      /\ held \in [Client -> Packet \cup {NoPkt}]
  BY DEF Types, TypeOK
<1>1. UNCHANGED <<recv, pkt, held>>
  BY DEF Request, dVars
<1>2. CASE UNCHANGED <<send, req>>
  BY <1>1, <1>2 DEF Uniq, NotIn, AllSent, Sent, Ref
<1>3. CASE /\ send' = Append(send, [id |-> c, n |-> req[c] + 1, rej |-> 0,
                                    exit |-> FALSE])
           /\ req' = [req EXCEPT ![c] = @ + 1]
  <2> DEFINE p == [id |-> c, n |-> req[c] + 1, rej |-> 0, exit |-> FALSE]
  <2>1. p \in Packet
    BY <1>0, BoundsAssumption DEF Packet, Request
  <2>2. p.id = c /\ p.n = req[c] + 1 /\ req'[c] = req[c] + 1
    BY <1>0, <1>3
  <2>3. \A r \in Packet : Sent(r) => Ref(r) # Ref(p) /\ r.n <= req'[r.id]
    <3> SUFFICES ASSUME NEW r \in Packet, r.n <= req[r.id]
                 PROVE  Ref(r) # Ref(p) /\ r.n <= req'[r.id]
      BY DEF Sent
    <3>1. r.id \in Client /\ r.n \in Nat /\ \A d \in Client : req[d] \in Nat
      BY <1>0, BoundsAssumption DEF Packet
    <3>2. CASE r.id = c
      BY <2>2, <3>1, <3>2 DEF Ref
    <3>3. CASE r.id # c
      BY <1>0, <1>3, <2>2, <3>1, <3>3 DEF Ref
    <3> QED BY <3>2, <3>3
  <2> HIDE DEF p
  <2>4. /\ \A i \in 1..Len(send) : send[i] \in Packet
        /\ \A i \in 1..Len(recv) : recv[i] \in Packet
    BY <1>0
  <2>5. /\ NotIn(p, send) /\ NotIn(p, recv)
        /\ pkt # NoPkt => Ref(pkt) # Ref(p)
        /\ \A d \in Holder : Ref(held[d]) # Ref(p)
    BY <1>0, <2>3, <2>4 DEF NotIn, AllSent
  <2>6. send' = Append(send, p)
    BY <1>3 DEF p
  <2>7. /\ \A i : i \in 1..Len(send') <=> i \in 1..Len(send) \/ i = Len(send) + 1
        /\ \A i \in 1..Len(send) : send'[i] = send[i]
        /\ send'[Len(send) + 1] = p
    BY <1>0, <2>1, <2>6, AppendAt
  <2>8. /\ Uniq(send')
        /\ \A r : NotIn(r, send) /\ Ref(r) # Ref(p) => NotIn(r, send')
    BY <1>0, <2>1, <2>5, <2>6, AppendUniq
  <2>9. FifosUnique'
    <3>1. \A i \in 1..Len(send') : NotIn(send'[i], recv)
      BY <2>5, <2>7
    <3>2. \A i \in 1..Len(send') : send'[i].n <= req'[send'[i].id]
      BY <1>0, <2>2, <2>3, <2>4, <2>7 DEF AllSent
    <3>3. \A i \in 1..Len(recv) : recv[i].n <= req'[recv[i].id]
      BY <2>3, <2>4 DEF AllSent
    <3> QED BY <1>1, <2>8, <3>1, <3>2, <3>3 DEF AllSent, Sent
  <2>10. PktUnique'
    <3>1. ASSUME pkt # NoPkt
          PROVE  NotIn(pkt, send') /\ pkt.n <= req'[pkt.id]
      BY <1>0, <2>3, <2>5, <2>8, <3>1
    <3> QED BY <1>1, <3>1 DEF Sent
  <2>11. HeldUnique'
    <3>1. ASSUME NEW d \in Holder
          PROVE  NotIn(held[d], send') /\ held[d].n <= req'[held[d].id]
      BY <1>0, <2>3, <2>5, <2>8
    <3> QED BY <1>1, <3>1 DEF Sent
  <2> QED BY <2>9, <2>10, <2>11
<1> QED BY <1>2, <1>3 DEF Request

(* A response is taken from the FIFO, and put back. *)
LEMMA ResponseUnique ==
  ASSUME Types, Free, Unique, NEW c \in Client, Response(c)
  PROVE  Unique'
<1> USE DEF Unique, FifosUnique, PktUnique, HeldUnique, Holder
<1> DEFINE r == Head(recv)
<1>0. /\ send \in Seq(Packet) /\ recv \in Seq(Packet) /\ recv # <<>>
      /\ held \in [Client -> Packet \cup {NoPkt}] /\ r \in Packet
      /\ UNCHANGED <<send, pkt, req>> /\ recv' = Tail(recv)
      /\ \A i \in 1..Len(send) : send[i] \in Packet
  BY TailFacts DEF Types, TypeOK, Response, dVars
<1>1. /\ Uniq(recv') /\ NotIn(r, recv') /\ AllSent(recv') /\ Sent(r)
      /\ \A p : NotIn(p, recv) => NotIn(p, recv') /\ Ref(p) # Ref(r)
  BY <1>0, TailUniq
<1>2. NotIn(r, send)
  BY <1>1 DEF NotIn
<1> HIDE DEF r
<1>3. FifosUnique'
  BY <1>0, <1>1 DEF AllSent, Sent
<1>4. CASE UNCHANGED held
  BY <1>0, <1>1, <1>3, <1>4 DEF Sent
<1>5. CASE held' = [held EXCEPT ![c] = [r EXCEPT !.rej = @ + 1]]
  <2> DEFINE s == [r EXCEPT !.rej = @ + 1]
  <2>1. held[c] = NoPkt
    BY DEF Free, Response
  <2>2. Ref(s) = Ref(r) /\ s.n = r.n /\ s.id = r.id
    BY <1>0 DEF Ref, Packet
  <2>3. /\ held'[c] = s
        /\ \A d \in Client : d # c => held'[d] = held[d]
    BY <1>0, <1>5
  <2> HIDE DEF s
  <2>4. NotIn(s, send) /\ NotIn(s, recv') /\ s.n <= req[s.id]
    BY <1>1, <1>2, <2>2 DEF NotIn, Sent
  <2>5. \A d \in Holder : Ref(held[d]) # Ref(s)
    BY <1>1, <2>2
  <2>6. pkt # NoPkt => Ref(pkt) # Ref(s)
    BY <1>1, <2>2
  <2>7. \A d \in Holder' : d = c \/ (d \in Holder /\ held'[d] = held[d])
    BY <2>3
  <2>8. PktUnique'
    BY <1>0, <1>1, <2>3, <2>6, <2>7 DEF Sent
  <2>9. HeldUnique'
    <3>1. ASSUME NEW d \in Holder'
          PROVE  NotIn(held'[d], send) /\ NotIn(held'[d], recv')
                   /\ held'[d].n <= req[held'[d].id]
      BY <1>1, <2>3, <2>4, <2>7 DEF Sent
    <3>2. ASSUME NEW d \in Holder', NEW e \in Holder', Ref(held'[d]) = Ref(held'[e])
          PROVE  d = e
      <4>1. CASE d = c \/ e = c
        BY <2>3, <2>5, <2>7, <3>2, <4>1
      <4>2. CASE d # c /\ e # c
        BY <2>3, <2>7, <3>2, <4>2
      <4> QED BY <4>1, <4>2
    <3> QED BY <1>0, <3>1, <3>2 DEF Sent
  <2> QED BY <1>3, <2>8, <2>9
<1> QED BY <1>4, <1>5 DEF Response, Accept, GiveUp, Reject, r
(* A packet that is nowhere else may be added to the responses. *)
LEMMA AddToRecv ==
  ASSUME NEW q \in Seq(Packet), NEW p \in Packet, send \in Seq(Packet),
         Uniq(q), NotIn(p, q), AllSent(q), Sent(p), NotIn(p, send),
         \A i \in 1..Len(send) : NotIn(send[i], q)
  PROVE  /\ Uniq(Append(q, p)) /\ AllSent(Append(q, p))
         /\ \A i \in 1..Len(send) : NotIn(send[i], Append(q, p))
         /\ \A r : NotIn(r, q) /\ Ref(r) # Ref(p) => NotIn(r, Append(q, p))
<1>1. \A i \in 1..Len(send) : Ref(send[i]) # Ref(p)
  BY DEF NotIn
<1> QED BY <1>1, AppendUniq

LEMMA PutBackUnique ==
  ASSUME Types, Unique, NEW c \in Client, PutBack(c)
  PROVE  Unique'
<1> USE DEF Unique, FifosUnique, PktUnique, HeldUnique, Holder
<1>0. /\ send \in Seq(Packet) /\ recv \in Seq(Packet)
      /\ held \in [Client -> Packet \cup {NoPkt}]
      /\ held[c] # NoPkt /\ held[c] \in Packet
      /\ UNCHANGED <<send, pkt, req>>
      /\ held' = [held EXCEPT ![c] = NoPkt]
  BY DEF Types, TypeOK, PutBack, dVars
<1>1. \A d \in Holder' : d # c /\ d \in Holder /\ held'[d] = held[d]
  BY <1>0
<1>2. CASE UNCHANGED recv
  BY <1>0, <1>1, <1>2 DEF AllSent, Sent
<1>3. CASE recv' = Append(recv, held[c])
  <2>1. NotIn(held[c], send) /\ NotIn(held[c], recv) /\ Sent(held[c])
    BY <1>0
  <2>2. /\ Uniq(recv') /\ AllSent(recv')
        /\ \A i \in 1..Len(send) : NotIn(send[i], recv')
        /\ \A r : NotIn(r, recv) /\ Ref(r) # Ref(held[c]) => NotIn(r, recv')
    BY <1>0, <1>3, <2>1, AddToRecv
  <2>3. FifosUnique'
    BY <1>0, <2>2 DEF AllSent, Sent
  <2>4. PktUnique'
    BY <1>0, <1>1, <2>2 DEF Sent
  <2>5. HeldUnique'
    <3>1. \A d \in Holder' : Ref(held[d]) # Ref(held[c])
      BY <1>0, <1>1
    <3> QED BY <1>0, <1>1, <2>2, <3>1 DEF Sent
  <2> QED BY <2>3, <2>4, <2>5
<1> QED BY <1>2, <1>3 DEF PutBack

(* The other steps of a client move no packet. *)
LEMMA OtherUnique ==
  ASSUME Types, Unique, NEW c \in Client,
         OpenFifos(c) \/ Leave(c) \/ Interrupt(c) \/ KillClient(c)
  PROVE  Unique'
<1> USE DEF Unique, FifosUnique, PktUnique, HeldUnique, Holder
<1>0. /\ UNCHANGED <<send, recv, pkt, req>>
      /\ held \in [Client -> Packet \cup {NoPkt}]
  BY DEF Types, TypeOK, OpenFifos, Leave, Interrupt, KillClient, dVars
<1>1. \A d \in Holder' : d \in Holder /\ held'[d] = held[d]
  BY <1>0 DEF OpenFifos, Leave, Interrupt, KillClient
<1> QED BY <1>0, <1>1 DEF AllSent, Sent

LEMMA DaemonUnique ==
  ASSUME Types, Free, Unique, Daemon \/ ExitIdle
  PROVE  Unique'
<1> USE DEF Unique, FifosUnique, PktUnique, HeldUnique, Holder
<1>0. /\ send \in Seq(Packet) /\ recv \in Seq(Packet)
      /\ pkt \in Packet \cup {NoPkt}
      /\ dpc \in {"do", "reply", "replyquit"} => pkt # NoPkt
      /\ dpc = "get" => pkt = NoPkt
  BY DEF Types, TypeOK, Free
<1>1. UNCHANGED <<held, req>>
  BY DEF Daemon, ExitIdle, GetPkt, DoCmd, Reply, cVars
<1>2. CASE GetPkt
  <2> DEFINE p == Head(send)
  <2>1. /\ p \in Packet /\ UNCHANGED recv /\ pkt' = p /\ send' = Tail(send)
        /\ send # <<>> /\ pkt = NoPkt
    BY <1>0, <1>2, TailFacts DEF GetPkt
  <2>2. /\ Uniq(send') /\ NotIn(p, send') /\ AllSent(send') /\ Sent(p)
        /\ \A r : NotIn(r, send) => NotIn(r, send') /\ Ref(p) # Ref(r)
    BY <1>0, <2>1, TailUniq
  <2>3. /\ \A i \in 1..Len(send') : NotIn(send'[i], recv)
        /\ NotIn(p, recv)
    BY <1>0, <2>1, TailAt
  <2> HIDE DEF p
  <2>4. FifosUnique'
    BY <1>1, <2>1, <2>2, <2>3 DEF AllSent, Sent
  <2>5. PktUnique'
    BY <1>1, <2>1, <2>2, <2>3 DEF Sent
  <2>6. HeldUnique'
    BY <1>1, <2>1, <2>2 DEF Sent
  <2> QED BY <2>4, <2>5, <2>6
<1>3. CASE DoCmd
  <2>1. UNCHANGED <<send, recv>> /\ pkt # NoPkt /\ pkt \in Packet
    BY <1>0, <1>3 DEF DoCmd
  <2>2. pkt'.id = pkt.id /\ pkt'.n = pkt.n
    BY <1>3, <2>1 DEF DoCmd, Packet
  <2>3. Ref(pkt') = Ref(pkt)
    BY <2>2 DEF Ref
  <2> QED BY <1>1, <2>1, <2>2, <2>3 DEF NotIn, AllSent, Sent
<1>4. CASE Quit
  BY <1>1, <1>4 DEF Quit, AllSent, Sent
<1>5. CASE Reply /\ recv' = Append(recv, pkt) /\ pkt' = NoPkt /\ UNCHANGED send
  <2>1. pkt # NoPkt /\ pkt \in Packet
    BY <1>0, <1>5 DEF Reply
  <2>2. /\ Uniq(recv') /\ AllSent(recv')
        /\ \A i \in 1..Len(send) : NotIn(send[i], recv')
        /\ \A r : NotIn(r, recv) /\ Ref(r) # Ref(pkt) => NotIn(r, recv')
    BY <1>0, <1>5, <2>1, AddToRecv
  <2>3. FifosUnique'
    BY <1>1, <1>5, <2>2 DEF AllSent, Sent
  <2>4. HeldUnique'
    BY <1>1, <1>5, <2>1, <2>2 DEF Sent
  <2> QED BY <1>5, <2>3, <2>4
<1> QED BY <1>2, <1>3, <1>4, <1>5 DEF Daemon, Reply, ExitIdle
-----------------------------------------------------------------------------
(* The requests in a FIFO in which no two are the same. *)
LEMMA UniqCount ==
  ASSUME NEW q \in Seq(Packet), Uniq(q)
  PROVE  /\ IsFiniteSet({Ref(q[i]) : i \in 1..Len(q)})
         /\ Cardinality({Ref(q[i]) : i \in 1..Len(q)}) = Len(q)
<1> DEFINE S == {Ref(q[i]) : i \in 1..Len(q)}
           f == [i \in 1..Len(q) |-> Ref(q[i])]
<1> HIDE DEF Ref
<1>1. f \in Bijection(1..Len(q), S)
  <2>1. \A i, j \in 1..Len(q) : f[i] = f[j] => i = j
    BY DEF Uniq
  <2>2. f \in [1..Len(q) -> S] /\ \A t \in S : \E i \in 1..Len(q) : f[i] = t
    OBVIOUS
  <2> QED BY <2>1, <2>2 DEF Bijection, Injection, Surjection, IsInjective
<1>2. IsFiniteSet(1..Len(q)) /\ Cardinality(1..Len(q)) = Len(q)
  <2>1. Len(q) \in Nat
    OBVIOUS
  <2> QED BY <2>1, FS_Interval
<1> HIDE DEF f, S
<1>3. IsFiniteSet(S) /\ Cardinality(S) = Len(q)
  BY <1>1, <1>2, FS_Bijection DEF ExistsBijection
<1> QED BY <1>3 DEF S

(* The requests that clients hold: as many as there are holders. *)
LEMMA HeldCount ==
  ASSUME HeldUnique
  PROVE  /\ IsFiniteSet({Ref(held[c]) : c \in Holder}) /\ IsFiniteSet(Holder)
         /\ Cardinality({Ref(held[c]) : c \in Holder}) = Cardinality(Holder)
<1> DEFINE S == {Ref(held[c]) : c \in Holder}
           f == [c \in Holder |-> Ref(held[c])]
<1> HIDE DEF Ref, Holder
<1>1. f \in Bijection(Holder, S)
  <2>1. \A c, d \in Holder : f[c] = f[d] => c = d
    BY DEF HeldUnique
  <2>2. f \in [Holder -> S] /\ \A t \in S : \E c \in Holder : f[c] = t
    OBVIOUS
  <2> QED BY <2>1, <2>2 DEF Bijection, Injection, Surjection, IsInjective
<1>2. IsFiniteSet(Holder)
  BY ClientAssumption, FS_Subset DEF Holder
<1> HIDE DEF f, S
<1>3. IsFiniteSet(S) /\ Cardinality(S) = Cardinality(Holder)
  BY <1>1, <1>2, FS_Bijection DEF ExistsBijection
<1> QED BY <1>2, <1>3 DEF S

LEMMA DisjointCount ==
  ASSUME NEW S, NEW T, IsFiniteSet(S), IsFiniteSet(T), S \cap T = {}
  PROVE  /\ IsFiniteSet(S \cup T)
         /\ Cardinality(S \cup T) = Cardinality(S) + Cardinality(T)
<1>1. Cardinality(S \cap T) = 0
  BY FS_EmptySet
<1>2. /\ IsFiniteSet(S \cup T)
      /\ Cardinality(S \cup T) =
           Cardinality(S) + Cardinality(T) - Cardinality(S \cap T)
      /\ Cardinality(S) \in Nat /\ Cardinality(T) \in Nat
  BY FS_Union, FS_CardinalityType
<1> QED BY <1>1, <1>2

LEMMA UniqueCounts ==
  ASSUME Types, Unique
  PROVE  NoDuplicate
<1> USE DEF Unique
<1> DEFINE S == {Ref(send[i]) : i \in 1..Len(send)}
           R == {Ref(recv[i]) : i \in 1..Len(recv)}
           D == IF pkt = NoPkt THEN {} ELSE {Ref(pkt)}
           H == {Ref(held[c]) : c \in Holder}
           d == IF pkt = NoPkt THEN 0 ELSE 1
           h == Cardinality(Holder)
<1>1. IsFiniteSet(S) /\ Cardinality(S) = Len(send)
  BY UniqCount DEF FifosUnique, Types, TypeOK
<1>2. IsFiniteSet(R) /\ Cardinality(R) = Len(recv)
  BY UniqCount DEF FifosUnique, Types, TypeOK
<1>3. IsFiniteSet(D) /\ Cardinality(D) = d
  BY FS_EmptySet, FS_Singleton
<1>4. IsFiniteSet(H) /\ Cardinality(H) = h
  BY HeldCount
<1>5. S \cap R = {}
  BY DEF FifosUnique, NotIn
<1>6. (S \cup R) \cap D = {}
  BY DEF PktUnique, NotIn
<1>7. ((S \cup R) \cup D) \cap H = {}
  <2>1. S \cap H = {} /\ R \cap H = {}
    BY DEF HeldUnique, NotIn
  <2>2. D \cap H = {}
    BY DEF PktUnique
  <2> HIDE DEF S, R, D, H
  <2> QED BY <2>1, <2>2
<1>8. {<<p.id, p.n>> : p \in Packets} = ((S \cup R) \cup D) \cup H
  <2>1. {Ref(p) : p \in Items(send)} = S /\ {Ref(p) : p \in Items(recv)} = R
    BY DEF Items
  <2>2. {Ref(p) : p \in {pkt} \ {NoPkt}} = D
    OBVIOUS
  <2>3. {Ref(p) : p \in {held[c] : c \in Client} \ {NoPkt}} = H
    BY DEF Holder
  <2>4. {Ref(p) : p \in Packets} = ((S \cup R) \cup D) \cup H
    <3> HIDE DEF S, R, D, H, Ref
    <3> QED BY <2>1, <2>2, <2>3 DEF Packets
  <2> HIDE DEF S, R, D, H
  <2> QED BY <2>4 DEF Ref
<1> HIDE DEF S, R, D, H, d, h
<1>9. /\ IsFiniteSet(S \cup R)
      /\ Cardinality(S \cup R) = Len(send) + Len(recv)
  BY <1>1, <1>2, <1>5, DisjointCount
<1>10. /\ IsFiniteSet((S \cup R) \cup D)
       /\ Cardinality((S \cup R) \cup D) = Len(send) + Len(recv) + d
  BY <1>3, <1>6, <1>9, DisjointCount
<1>11. Cardinality(((S \cup R) \cup D) \cup H) = Len(send) + Len(recv) + d + h
  BY <1>4, <1>7, <1>10, DisjointCount
<1> QED BY <1>8, <1>11 DEF NoDuplicate, Holder, d, h

(* No step of a client or of the daemon duplicates a packet: every packet  *)
(* in a FIFO, with the daemon in cda_daemon or with a client about to put  *)
(* it back in cda_sendcmd is the only one of its request.                  *)
THEOREM NoDuplicateHolds == Spec => []NoDuplicate
<1> DEFINE Inv == Types /\ Free /\ Unique
<1>1. Init => Inv
  BY InitInv, InitUnique DEF Init, Free
<1>2. Inv /\ [Next]_vars => Inv'
  <2> SUFFICES ASSUME Inv, [Next]_vars PROVE Inv'
    OBVIOUS
  <2>1. Types' /\ Free'
    BY NextTypes, FreeKeeps
  <2>2. UNCHANGED vars => Unique'
    BY DEF Unique, FifosUnique, PktUnique, HeldUnique, Holder, AllSent, Sent,
           vars, dVars, cVars
  <2>3. Next => Unique'
    BY RequestUnique, ResponseUnique, PutBackUnique, OtherUnique,
       DaemonUnique DEF Next, Command
  <2> QED BY <2>1, <2>2, <2>3
<1>3. Inv => NoDuplicate
  BY UniqueCounts
<1> QED BY <1>1, <1>2, <1>3, PTL DEF Spec
=============================================================================
