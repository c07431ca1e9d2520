------------------------------ MODULE CgiChannel ------------------------------
(***************************************************************************)
(* The one POSIX message queue, CGI_CFGMGR_MSG_NAME, through which every    *)
(* CGI process (cgiMain, one per HTTP request) and the configuration daemon *)
(* (webProcess) talk.  Requests and answers travel through the SAME queue:  *)
(* cgiMain sends its request and then receives from the queue it just sent  *)
(* to, and webProcess does the same with its answers.                       *)
(*                                                                          *)
(* The queue itself is the kernel's (external to the repository).  It is    *)
(* modelled from how msgOpen/msgSend/msgRecv use it: blocking calls, one    *)
(* priority, default capacity.  A send hands its message to the process     *)
(* that has waited longest in a receive; a receive from a full queue lets   *)
(* in the message of the process that has waited longest in a send.         *)
(*                                                                          *)
(* A member of Clients is a slot of the web server in which CGI processes   *)
(* run one after the other.  Web servers kill a CGI process that takes too  *)
(* long (Kill), and the daemon can end and be started again (DaemonExit,    *)
(* DaemonStart): the queue, which nobody unlinks, outlives both.            *)
(***************************************************************************)
EXTENDS Naturals, Sequences, FiniteSets, SequencesExt

CONSTANTS
  Clients,      \* slots in which the web server runs CGI processes
  Daemon,       \* the thread webProcess
  MaxMsg,       \* capacity of the queue: 10 by default on Linux
  MaxOrphans,   \* bound: no client is killed once this many messages are orphaned
  MaxLost       \* bound: the daemon does not end once it took this many messages with it

ASSUME ChannelAssumption ==
  /\ IsFiniteSet(Clients)
  /\ Daemon \notin Clients
  /\ MaxMsg \in Nat \ {0}
  /\ MaxOrphans \in Nat
  /\ MaxLost \in Nat

VARIABLES
  q,        \* messages in the queue, oldest first
  rcvq,     \* processes blocked in msgRecv, longest first
  sndq,     \* processes blocked in msgSend, longest first
  pc,       \* control state of every process
  buf,      \* the process's msg: what it sends, or what it received last
  orphans,  \* history: clients killed after their send and before their receive
  lost,     \* history: messages the daemon had taken when it ended
  alone     \* history: clients whose exchange nobody has disturbed

vars == <<q, rcvq, sndq, pc, buf, orphans, lost, alone>>

Procs == Clients \cup {Daemon}

(* The message types, as far as the channel tells them apart.  The daemon   *)
(* answers a request with a RESPONSE and everything else with a confirm     *)
(* message of status CFGMGR_NOT_SUPPORT.                                    *)
Requests == {"REQUEST", "FILELOOKUP_REQUEST"}
MsgTypes == Requests \cup {"RESPONSE", "NOT_SUPPORT"}

(* A message.  The owner is history: it is the client whose request the     *)
(* message is, or whose request it descends from.                           *)
Message == [type : MsgTypes, owner : Clients]
NoMsg == [type |-> "none"]

ClientStates == {"idle", "opened", "sending", "sent", "receiving", "done"}
DaemonStates == {"down", "loop", "receiving", "busy", "sending"}

(* Clients that have sent and still expect a message.                       *)
Waiting == {c \in Clients : pc[c] \in {"sent", "receiving"}}

(* The messages the daemon has taken out of the queue and not put back.     *)
Held == IF pc[Daemon] \in {"busy", "sending"} THEN 1 ELSE 0

Init ==
  /\ q = <<>>
  /\ rcvq = <<>>
  /\ sndq = <<>>
  /\ pc = [p \in Procs |-> IF p = Daemon THEN "down" ELSE "idle"]
  /\ buf = [p \in Procs |-> NoMsg]
  /\ orphans = 0
  /\ lost = 0
  /\ alone = {}

-------------------------------------------------------------------------------
(* Slip: the CGI process prints its page without waiting for an answer.     *)
AfterSendUnanswered(p) == IF p = Daemon THEN "loop" ELSE "done"

(* Where a process goes on once its msgSend, or its msgRecv, returns.       *)
AfterSend(p) == IF p = Daemon THEN "loop" ELSE "sent"
AfterRecv(p) == IF p = Daemon THEN "busy" ELSE "done"

(* msgSend of message m by process p: the three outcomes of mq_send.        *)
SendBlocks(p, m) ==
  /\ Len(q) = MaxMsg
  /\ sndq' = Append(sndq, p)
  /\ pc' = [pc EXCEPT ![p] = "sending"]
  /\ buf' = [buf EXCEPT ![p] = m]
  /\ UNCHANGED <<q, rcvq>>

SendHandsOver(p, m) ==
  /\ Len(q) < MaxMsg
  /\ rcvq # <<>>
  /\ rcvq' = Tail(rcvq)
  /\ pc' = [pc EXCEPT ![p] = AfterSend(p), ![Head(rcvq)] = AfterRecv(Head(rcvq))]
  /\ buf' = [buf EXCEPT ![p] = m, ![Head(rcvq)] = m]
  /\ UNCHANGED <<q, sndq>>

SendQueues(p, m) ==
  /\ Len(q) < MaxMsg
  /\ rcvq = <<>>
  /\ q' = Append(q, m)
  /\ pc' = [pc EXCEPT ![p] = AfterSend(p)]
  /\ buf' = [buf EXCEPT ![p] = m]
  /\ UNCHANGED <<rcvq, sndq>>

MsgSend(p, m) == SendBlocks(p, m) \/ SendHandsOver(p, m) \/ SendQueues(p, m)

(* msgRecv by process p: the three outcomes of mq_receive.                  *)
RecvBlocks(p) ==
  /\ q = <<>>
  /\ rcvq' = Append(rcvq, p)
  /\ pc' = [pc EXCEPT ![p] = "receiving"]
  /\ UNCHANGED <<q, sndq, buf>>

(* Slip: a message that had to wait is put before those in the queue.       *)
RecvLetsInFirst(p) ==
  /\ q # <<>>
  /\ sndq # <<>>
  /\ q' = <<buf[Head(sndq)]>> \o Tail(q)
  /\ sndq' = Tail(sndq)
  /\ pc' = [pc EXCEPT ![p] = AfterRecv(p), ![Head(sndq)] = AfterSend(Head(sndq))]
  /\ buf' = [buf EXCEPT ![p] = Head(q)]
  /\ UNCHANGED rcvq

RecvTakes(p) ==
  /\ q # <<>>
  /\ sndq = <<>>
  /\ q' = Tail(q)
  /\ pc' = [pc EXCEPT ![p] = AfterRecv(p)]
  /\ buf' = [buf EXCEPT ![p] = Head(q)]
  /\ UNCHANGED <<rcvq, sndq>>

RecvLetsIn(p) ==
  /\ q # <<>>
  /\ sndq # <<>>
  /\ q' = Append(Tail(q), buf[Head(sndq)])
  /\ sndq' = Tail(sndq)
  /\ pc' = [pc EXCEPT ![p] = AfterRecv(p), ![Head(sndq)] = AfterSend(Head(sndq))]
  /\ buf' = [buf EXCEPT ![p] = Head(q)]
  /\ UNCHANGED rcvq

MsgRecv(p) == RecvBlocks(p) \/ RecvTakes(p) \/ RecvLetsIn(p)

-------------------------------------------------------------------------------
(* cgiMain up to msgOpen: the form's method has built a request.            *)
CgiStart(c) ==
  /\ pc[c] \in {"idle", "done"}
  /\ \E t \in Requests :
       buf' = [buf EXCEPT ![c] = [type |-> t, owner |-> c]]
  /\ pc' = [pc EXCEPT ![c] = "opened"]
  /\ alone' = alone \ {c}
  /\ UNCHANGED <<q, rcvq, sndq, orphans, lost>>

(* History: c's exchange begins alone when only the idle daemon is waiting  *)
(* and no other client expects a message; it disturbs everyone else's.      *)
AloneAtSend(c) == IF rcvq = <<Daemon>> /\ Waiting = {} THEN {c} ELSE {}

CgiSend(c) ==
  /\ pc[c] = "opened"
  /\ MsgSend(c, buf[c])
  /\ alone' = AloneAtSend(c)
  /\ UNCHANGED <<orphans, lost>>

CgiRecv(c) ==
  /\ pc[c] = "sent"
  /\ MsgRecv(c)
  /\ UNCHANGED <<orphans, lost, alone>>

(* webProcess up to its loop: the queue is opened as it was left.           *)
DaemonStart ==
  /\ pc[Daemon] = "down"
  /\ pc' = [pc EXCEPT ![Daemon] = "loop"]
  /\ UNCHANGED <<q, rcvq, sndq, buf, orphans, lost, alone>>

DaemonRecv ==
  /\ pc[Daemon] = "loop"
  /\ MsgRecv(Daemon)
  /\ UNCHANGED <<orphans, lost, alone>>

(* Slips: the default case leaves the cleared buffer as it is; the case of  *)
(* MSG_CGI_FILELOOKUP_REQUEST falls through into the default case.          *)
AnswersCleared(m) ==
  IF m.type \in Requests THEN {[m EXCEPT !.type = "RESPONSE"]} ELSE {NoMsg}
AnswersFallThrough(m) ==
  IF m.type = "REQUEST"
    THEN {[m EXCEPT !.type = "RESPONSE"]}
    ELSE {[m EXCEPT !.type = "NOT_SUPPORT"]}

(* doFileLookUp forwards the request to dumpcap through a queue it then     *)
(* receives from, so that it can get its own request back, and passes on    *)
(* whatever it gets; a confirm message of status OK if it gets nothing.     *)
doFileLookUp(m) == {m, [m EXCEPT !.type = "RESPONSE"]}

(* What the switch of webProcess makes of message m.                        *)
Answers(m) ==
  CASE m.type = "REQUEST" -> {[m EXCEPT !.type = "RESPONSE"]}
    [] m.type = "FILELOOKUP_REQUEST" -> doFileLookUp(m)
    [] OTHER -> {[m EXCEPT !.type = "NOT_SUPPORT"]}

(* Slip: what is not a request is not answered.                             *)
DaemonSendIfAsked ==
  /\ pc[Daemon] = "busy"
  /\ IF buf[Daemon].type \in Requests
       THEN \E m \in Answers(buf[Daemon]) : MsgSend(Daemon, m)
       ELSE /\ pc' = [pc EXCEPT ![Daemon] = "loop"]
            /\ UNCHANGED <<q, rcvq, sndq, buf>>
  /\ alone' = {c \in alone : pc[c] # "sent"}
  /\ UNCHANGED <<orphans, lost>>

DaemonSend ==
  /\ pc[Daemon] = "busy"
  /\ \E m \in Answers(buf[Daemon]) : MsgSend(Daemon, m)
  /\ alone' = {c \in alone : pc[c] # "sent"}
  /\ UNCHANGED <<orphans, lost>>

-------------------------------------------------------------------------------
(* Process p leaves the queue of blocked processes it may be in.            *)
Leave(s, p) ==
  IF Contains(s, p)
    THEN RemoveAt(s, CHOOSE i \in DOMAIN s : s[i] = p)
    ELSE s

(* The web server kills the CGI process.  A request it has sent stays.      *)
Kill(c) ==
  /\ orphans < MaxOrphans
  /\ pc[c] \in {"opened", "sending", "sent", "receiving"}
  /\ orphans' = IF c \in Waiting THEN orphans + 1 ELSE orphans
  /\ rcvq' = Leave(rcvq, c)
  /\ sndq' = Leave(sndq, c)
  /\ pc' = [pc EXCEPT ![c] = "idle"]
  /\ alone' = alone \ {c}
  /\ UNCHANGED <<q, buf, lost>>

(* The daemon ends: msgRecv or msgSend fails, an assertion fails, or the    *)
(* process is killed.  A message it has taken goes with it.                 *)
DaemonExit ==
  /\ lost < MaxLost
  /\ pc[Daemon] # "down"
  /\ lost' = lost + Held
  /\ rcvq' = Leave(rcvq, Daemon)
  /\ sndq' = Leave(sndq, Daemon)
  /\ pc' = [pc EXCEPT ![Daemon] = "down"]
  /\ alone' = {}
  /\ UNCHANGED <<q, buf, orphans>>

Next ==
  \/ \E c \in Clients : CgiStart(c) \/ CgiSend(c) \/ CgiRecv(c) \/ Kill(c)
  \/ DaemonStart \/ DaemonRecv \/ DaemonSend \/ DaemonExit

Spec == Init /\ [][Next]_vars

(* Scheduling: a process that can run does run.  Nothing makes a client     *)
(* start or a fault happen, and nothing makes the handler of a request end: *)
(* doNetConfigSave polls for a carrier that may never come, doFileLookUp    *)
(* receives from the queue of a capture process that may never answer.      *)
(* What is not a request goes to no handler.                                *)
Fairness ==
  /\ \A c \in Clients : WF_vars(CgiSend(c)) /\ WF_vars(CgiRecv(c))
  /\ WF_vars(DaemonStart) /\ WF_vars(DaemonRecv)
  /\ WF_vars(buf[Daemon].type \notin Requests /\ DaemonSend)

FairSpec == Spec /\ Fairness

-------------------------------------------------------------------------------
(* Types.  A process that sends, or has received, has a message to show.    *)
TypeOK ==
  /\ q \in Seq(Message) /\ Len(q) <= MaxMsg
  /\ rcvq \in Seq(Procs) /\ sndq \in Seq(Procs)
  /\ pc \in [Procs -> ClientStates \cup DaemonStates]
  /\ pc[Daemon] \in DaemonStates
  /\ \A c \in Clients : pc[c] \in ClientStates
  /\ buf \in [Procs -> Message \cup {NoMsg}]
  /\ \A p \in Procs :
       pc[p] \in {"opened", "sending", "busy", "done"} => buf[p] \in Message
  /\ orphans \in Nat
  /\ lost \in Nat
  /\ alone \in SUBSET Clients

(* Nobody waits for what is there: a process blocked in msgRecv means that  *)
(* the queue is empty, one blocked in msgSend that it is full, and exactly  *)
(* the processes in those calls are in the kernel's wait queues, once each. *)
BlockedJustly ==
  /\ rcvq # <<>> => q = <<>>
  /\ sndq # <<>> => Len(q) = MaxMsg
  /\ IsInjective(rcvq) /\ IsInjective(sndq)
  /\ \A p \in Procs : pc[p] = "receiving" <=> Contains(rcvq, p)
  /\ \A p \in Procs : pc[p] = "sending" <=> Contains(sndq, p)

(* Messages are neither made nor destroyed by the protocol: there is one in *)
(* flight for each client that expects one and for each client that was     *)
(* killed while it did, less those the daemon took along when it ended.     *)
Conservation ==
  Len(q) + Held + lost = Cardinality(Waiting) + orphans

(* As long as the daemon never ended with a message in hand, it is at work  *)
(* whenever a client is blocked in msgRecv: the two never wait for each     *)
(* other, whoever's message either of them got, and whatever was killed.    *)
NoMutualWait ==
  lost = 0 =>
    \A c \in Clients : pc[c] = "receiving" => pc[Daemon] \in {"busy", "sending"}

(* ... and then no two clients are ever blocked in msgRecv at once, since a *)
(* later request is handed to the client that is already waiting.           *)
OneBlockedClient ==
  lost = 0 =>
    \A c, d \in Clients : pc[c] = "receiving" /\ pc[d] = "receiving" => c = d

(* The daemon cannot be stuck in msgSend for good before more messages have *)
(* been orphaned than the queue holds: until then some client is about to   *)
(* receive and so to make room.                                             *)
NoSendWedge ==
  pc[Daemon] = "sending" /\ orphans <= MaxMsg =>
    \E c \in Clients : pc[c] = "sent"

(* A client gets the answer to its own request if it had the queue to       *)
(* itself and was already blocked in msgRecv when the daemon answered.      *)
AloneGetsOwnAnswer ==
  \A c \in alone :
    pc[c] = "done" => buf[c].owner = c /\ buf[c].type # "NOT_SUPPORT"

(* The mailbox that the queue implements.  A message that is blocked on its *)
(* way in is still its sender's: that of a client is not in the box yet,    *)
(* and that of the daemon is still in its hand.                             *)
Owners(s) == [i \in DOMAIN s |-> s[i].owner]
Box == Owners(q)
Hand == IF pc[Daemon] \in {"busy", "sending"} THEN <<buf[Daemon].owner>> ELSE <<>>
Got == [c \in Clients |-> IF pc[c] = "done" THEN <<buf[c].owner>> ELSE <<>>]

Queue == INSTANCE Mailbox WITH box <- Box, hand <- Hand, expect <- Waiting, got <- Got

(* The queue is a mailbox, whatever blocks, is killed or ends: messages are *)
(* taken in the order in which they were sent, each of them once, and the   *)
(* daemon answers with one message for each it took.                        *)
IsMailbox == Queue!Spec

(* The handler that the daemon is in never ends.                            *)
HandlerHangs == [](pc[Daemon] = "busy" /\ buf[Daemon].type \in Requests)

(* A CGI process that has built its request ends, although another may be   *)
(* killed and leave its messages behind, as long as the daemon stays up and *)
(* no handler hangs: the queue itself lets nobody starve.                   *)
EveryRequestReturns ==
  \A c \in Clients : pc[c] = "opened" ~> pc[c] \in {"done", "idle"} \/ HandlerHangs

(* webProcess has a case for every request a form can build, so no client   *)
(* is told that its operation is not supported.                             *)
SupportedIsNotRefused ==
  \A c \in Clients : pc[c] = "done" => buf[c].type # "NOT_SUPPORT"
===============================================================================
