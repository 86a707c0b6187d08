------------------------------ MODULE CdaPipe ------------------------------
(***************************************************************************)
(* The packets between cda clients and their daemon.  All clients send on  *)
(* one FIFO and read the responses from another; a packet bears the pid of *)
(* its client, and a client puts back the responses of the others.         *)
(***************************************************************************)
EXTENDS Naturals, Sequences, FiniteSets

CONSTANTS
  Client,
  Visual,        \* the clients in visual mode
  MaxRetries,    \* MAX_PKT_RETRIES
  Capacity,      \* packets a FIFO holds
  MaxRequests,   \* bound: requests of a client
  Faults,        \* what may happen: see FaultsAssumption
  NoPkt

ASSUME ClientAssumption == IsFiniteSet(Client) /\ Visual \subseteq Client
ASSUME BoundsAssumption == /\ MaxRetries \in Nat \ {0} /\ Capacity \in Nat \ {0}
                           /\ MaxRequests \in Nat
ASSUME FaultsAssumption ==
  Faults \subseteq {"intr",    \* a signal interrupts a client's read
                    "kill",    \* a client is ended by a signal
                    "exit"}    \* the daemon exits

VARIABLES
  send, recv,    \* the request and the response FIFO
  dpc, pkt,      \* where the daemon is, and *curr_pkt
  cpc,           \* where each client is
  req,           \* the number of requests each client has sent
  tries,         \* i in cda_sendcmd
  held,          \* the packet a client is about to put back
  got,           \* the request that each client's last answer belongs to
  lost           \* the requests whose packet was given up: for the properties

dVars == <<dpc, pkt>>
cVars == <<cpc, req, tries, held, got, lost>>
vars  == <<send, recv, dVars, cVars>>

(* pktid, the request it belongs to (which the code does not send), rejcnt *)
(* and whether retcode is CDA_DAEMON_EXIT.                                 *)
Packet == [id : Client, n : 1..MaxRequests, rej : 0..MaxRetries, exit : BOOLEAN]

ASSUME NoPktAssumption == NoPkt \notin Packet

Reading == {"idle", "wait", "back"}    \* with the FIFOs open

TypeOK ==
  /\ send \in Seq(Packet) /\ Len(send) <= Capacity
  /\ recv \in Seq(Packet) /\ Len(recv) <= Capacity
  /\ dpc \in {"get", "do", "reply", "replyquit", "gone"}
  /\ pkt \in Packet \cup {NoPkt}
  /\ cpc \in [Client -> Reading \cup {"closed", "ended"}]
  /\ req \in [Client -> 0..MaxRequests]
  /\ tries \in [Client -> 0..MaxRetries]
  /\ held \in [Client -> Packet \cup {NoPkt}]
  /\ got \in [Client -> 0..MaxRequests]
  /\ lost \subseteq Client \X (1..MaxRequests)

Init ==
  /\ send = <<>> /\ recv = <<>>
  /\ dpc = "get" /\ pkt = NoPkt
  /\ cpc = [c \in Client |-> "closed"]
  /\ req = [c \in Client |-> 0] /\ tries = [c \in Client |-> 0]
  /\ held = [c \in Client |-> NoPkt] /\ got = [c \in Client |-> 0]
  /\ lost = {}

Goto(c, l) == cpc' = [cpc EXCEPT ![c] = l]

(* What a failed command leads to: a command line client exits, one in     *)
(* visual mode closes its FIFOs (cda_v_errhandler).                        *)
Fail(c) == Goto(c, IF c \in Visual THEN "closed" ELSE "ended")

NoReader == \A c \in Client : cpc[c] \notin Reading
-----------------------------------------------------------------------------
(* main on the command line; cda_screen in visual mode, again and again    *)
(* while a daemon is alive.                                                *)
OpenFifos(c) ==
  /\ cpc[c] = "closed" /\ dpc # "gone"
  /\ Goto(c, "idle")
  /\ UNCHANGED <<send, recv, dVars, req, tries, held, got, lost>>

Leave(c) ==
  /\ cpc[c] = "idle" /\ Goto(c, "ended")
  /\ UNCHANGED <<send, recv, dVars, req, tries, held, got, lost>>

(* cda_sendcmd up to the request's cda_sendpkt.  A full FIFO is waited for *)
(* while the daemon lives; without a reader the write fails.               *)
Request(c) ==
  /\ cpc[c] = "idle" /\ req[c] < MaxRequests
  /\ \/ /\ dpc # "gone" /\ Len(send) < Capacity
        /\ send' = Append(send, [id |-> c, n |-> req[c] + 1, rej |-> 0,
                                 exit |-> FALSE])
        /\ req' = [req EXCEPT ![c] = @ + 1]
        /\ tries' = [tries EXCEPT ![c] = 0]
        /\ Goto(c, "wait")
     \/ /\ dpc = "gone" /\ Fail(c)
        /\ UNCHANGED <<send, req, tries>>
  /\ UNCHANGED <<recv, dVars, held, got, lost>>

(* Mutant: whosever answer it is. *)
AcceptAny(c, r) ==
  /\ got' = [got EXCEPT ![c] = r.n]
  /\ IF r.exit THEN Fail(c) ELSE Goto(c, "idle")
  /\ UNCHANGED <<tries, held, lost>>

(* What cda_sendcmd does with the packet it has read: it is the answer ... *)
Accept(c, r) ==
  /\ r.id = c
  /\ got' = [got EXCEPT ![c] = r.n]
  /\ IF r.exit THEN Fail(c) ELSE Goto(c, "idle")
  /\ UNCHANGED <<tries, held, lost>>

(* ... or another's, once too often: the packet is gone ... *)
GiveUp(c, r) ==
  /\ r.id # c /\ tries[c] >= MaxRetries
  /\ Fail(c)
  /\ lost' = lost \cup {<<r.id, r.n>>}
  /\ UNCHANGED <<tries, held, got>>

(* Mutant: once too often. *)
RejectLate(c, r) ==
  /\ r.id # c /\ tries[c] <= MaxRetries
  /\ tries' = [tries EXCEPT ![c] = @ + 1]
  /\ Goto(c, "back")
  /\ held' = [held EXCEPT ![c] = [r EXCEPT !.rej = @ + 1]]
  /\ UNCHANGED <<got, lost>>

(* ... or another's, to be put back below its reject limit. *)
Reject(c, r) ==
  /\ r.id # c /\ tries[c] < MaxRetries
  /\ tries' = [tries EXCEPT ![c] = @ + 1]
  /\ \/ /\ r.rej + 1 < MaxRetries
        /\ Goto(c, "back")
        /\ held' = [held EXCEPT ![c] = [r EXCEPT !.rej = @ + 1]]
        /\ UNCHANGED lost
     \/ /\ r.rej + 1 >= MaxRetries
        /\ lost' = lost \cup {<<r.id, r.n>>}
        /\ UNCHANGED <<cpc, held>>
  /\ UNCHANGED got

Response(c) ==
  /\ cpc[c] = "wait" /\ recv # <<>>
  /\ recv' = Tail(recv)
  /\ LET r == Head(recv) IN Accept(c, r) \/ GiveUp(c, r) \/ Reject(c, r)
  /\ UNCHANGED <<send, dVars, req>>

(* Mutant: put back, but kept. *)
PutBackKeeps(c) ==
  /\ cpc[c] = "back" /\ Len(recv) < Capacity
  /\ recv' = Append(recv, held[c])
  /\ \/ Goto(c, "wait") \/ UNCHANGED cpc
  /\ UNCHANGED <<send, dVars, req, tries, held, got, lost>>

(* The client reads the response FIFO itself, so only a full one can stop  *)
(* it, for as long as the daemon lives.                                    *)
PutBack(c) ==
  /\ cpc[c] = "back"
  /\ \/ /\ Len(recv) < Capacity
        /\ recv' = Append(recv, held[c]) /\ Goto(c, "wait")
        /\ UNCHANGED lost
     \/ /\ Len(recv) >= Capacity /\ dpc = "gone"
        /\ Fail(c) /\ lost' = lost \cup {<<held[c].id, held[c].n>>}
        /\ UNCHANGED recv
  /\ held' = [held EXCEPT ![c] = NoPkt]
  /\ UNCHANGED <<send, dVars, req, tries, got>>

(* EINTR: SIGINT on the command line; SIGWINCH or a continuation after     *)
(* SIGTSTP in visual mode.                                                 *)
Interrupt(c) ==
  /\ "intr" \in Faults /\ cpc[c] = "wait"
  /\ Fail(c)
  /\ UNCHANGED <<send, recv, dVars, req, tries, held, got, lost>>

KillClient(c) ==
  /\ "kill" \in Faults /\ cpc[c] \in Reading
  /\ Goto(c, "ended") /\ held' = [held EXCEPT ![c] = NoPkt]
  /\ lost' = IF held[c] = NoPkt THEN lost
             ELSE lost \cup {<<held[c].id, held[c].n>>}
  /\ UNCHANGED <<send, recv, dVars, req, tries, got>>
-----------------------------------------------------------------------------
(* cda_daemon: cda_getpkt. *)
GetPkt ==
  /\ dpc = "get" /\ send # <<>>
  /\ pkt' = Head(send) /\ send' = Tail(send) /\ dpc' = "do"
  /\ UNCHANGED <<recv, cVars>>

(* Mutant: a command without a response. *)
DoCmdSilent ==
  /\ dpc = "do"
  /\ \/ dpc' = "reply" /\ UNCHANGED pkt
     \/ dpc' = "get" /\ pkt' = NoPkt
  /\ UNCHANGED <<send, recv, cVars>>

(* cda_docmd returns, for CDA_OFF to quit, or it leads to cda_quit, which  *)
(* responds too.                                                           *)
DoCmd ==
  /\ dpc = "do"
  /\ \/ dpc' = "reply" /\ UNCHANGED pkt
     \/ /\ "exit" \in Faults /\ dpc' = "replyquit"
        /\ \E e \in BOOLEAN : pkt' = [pkt EXCEPT !.exit = e]
  /\ UNCHANGED <<send, recv, cVars>>

(* What is in a FIFO stays there for the clients that have it open. *)
Quit == dpc' = "gone" /\ pkt' = NoPkt /\ UNCHANGED <<send, recv>>

(* Without a reader SIGPIPE ends the daemon, or EPIPE makes it quit; a     *)
(* FIFO that stays full for PIPE_TIMEOUT seconds makes it quit.            *)
Reply ==
  /\ dpc \in {"reply", "replyquit"}
  /\ \/ /\ ~NoReader /\ Len(recv) < Capacity
        /\ recv' = Append(recv, pkt) /\ pkt' = NoPkt
        /\ dpc' = IF dpc = "reply" THEN "get" ELSE "gone"
        /\ UNCHANGED send
     \/ (NoReader \/ Len(recv) >= Capacity) /\ Quit
  /\ UNCHANGED cVars

(* The poll while no request is there: exit on eject or when done. *)
ExitIdle == "exit" \in Faults /\ dpc = "get" /\ Quit /\ UNCHANGED cVars

Daemon == GetPkt \/ DoCmd \/ Reply
Command(c) == Response(c) \/ PutBack(c)

Next ==
  \/ Daemon \/ ExitIdle
  \/ \E c \in Client : \/ OpenFifos(c) \/ Leave(c) \/ Request(c) \/ Command(c)
                       \/ Interrupt(c) \/ KillClient(c)

Spec == Init /\ [][Next]_vars

(* The daemon and clients in the middle of a command get to run; nobody    *)
(* has to send a command.                                                  *)
FairSpec ==
  Spec /\ WF_vars(Daemon) /\ \A c \in Client : WF_vars(Command(c))
-----------------------------------------------------------------------------
Items(q) == {q[i] : i \in 1..Len(q)}

(* The packets there are, wherever they are. *)
Packets == Items(send) \cup Items(recv) \cup
           (({pkt} \cup {held[c] : c \in Client}) \ {NoPkt})

Waiting(c) == cpc[c] \in {"wait", "back"}
Lost(c)    == <<c, req[c]>> \in lost

(* No response is duplicated, however often it is handed back: there are   *)
(* as many requests on their way as there are packets.                     *)
NoDuplicate ==
  Cardinality({<<p.id, p.n>> : p \in Packets}) =
    Len(send) + Len(recv) + (IF pkt = NoPkt THEN 0 ELSE 1)
              + Cardinality({c \in Client : held[c] # NoPkt})

(* While the daemon lives, the packet of a client that waits is somewhere  *)
(* on its way, unless the reject limit or the end of the client that held  *)
(* it took it.                                                             *)
Conserved ==
  \A c \in Client : Waiting(c) /\ dpc # "gone" /\ ~Lost(c) =>
    \E p \in Packets : p.id = c /\ p.n = req[c]

(* On the command line, the answer a client takes is the answer to the     *)
(* request it has sent.  (One in visual mode may take the late answer to a *)
(* request whose read was interrupted.)                                    *)
AnswerMatches ==
  [][\A c \in Client \ Visual : got'[c] # got[c] => got'[c] = req[c]]_vars

(* While the daemon lives, a client that waits gets an answer or gives up, *)
(* if its packet has not been given up: the clients do not hand each       *)
(* other's answers back for ever.  Not so one that has to put a packet     *)
(* back into a full FIFO, which only it could drain.                       *)
Stuck(c) == cpc[c] = "back" /\ Len(recv) >= Capacity
WaitEnds ==
  \A c \in Client :
    Waiting(c) ~> ~Waiting(c) \/ Lost(c) \/ Stuck(c) \/ dpc = "gone"

(* A client whose daemon exits does not wait for ever. *)
ExitEndsWait ==
  \A c \in Client : Waiting(c) /\ dpc = "gone" ~> ~Waiting(c)

(* Several clients can use one daemon: none loses its answer to another. *)
NeverLost == \A c \in Client : Waiting(c) => ~Lost(c)

(* The end of a client does not end the daemon. *)
DaemonStays == dpc # "gone"
=============================================================================
