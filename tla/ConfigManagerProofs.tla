-------------------------- MODULE ConfigManagerProofs --------------------------
(***************************************************************************)
(* Proofs about ConfigManager, for any number of clients, any forms and any *)
(* number of kills and ends of the daemon.  The channel's own proofs are    *)
(* used: the composed system is a channel, as CgiChannel specifies it.      *)
(***************************************************************************)
EXTENDS ConfigManager, TLAPS

Chan == INSTANCE CgiChannelProofs
Lans == Store!Lans
NetJob(op, lan, net, next) == Store!NetJob(op, lan, net, next)

-------------------------------------------------------------------------------
(* Where the daemon is while setNetParameters sets an interface.            *)
Moves == {"ip", "mask", "gateway", "mac", "up", "link"}

(* There are two interfaces to be set, in memory and in the file.           *)
NetsOK ==
  /\ {"net", "filter"} \subseteq DOMAIN pa
  /\ pa.net \in [Lans -> Store!netParam]
  /\ file.is = "whole" => file.doc.net \in [Lans -> Store!netParam]

(* A start that has come as far as the interfaces.                          *)
BootJob ==
  \/ job = NetJob("BOOT", 1, pa.net[1], pa.net[2])
  \/ job = NetJob("BOOT", 2, pa.net[2], pa.net[2])

(* How far the request of slot c has been carried out.                      *)
Progress(c) ==
  \/ /\ stage \in Moves
     /\ Ask[c].field = "net"
     /\ \/ job = NetJob("NETCONFIGSAVE", 1, Ask[c].value[1], Ask[c].value[2])
        \/ /\ job = NetJob("NETCONFIGSAVE", 2, Ask[c].value[2], Ask[c].value[2])
           /\ pa.net[1] = Ask[c].value[1]
  \/ /\ stage \in {"save", "write"}
     /\ pa[Ask[c].field] = Ask[c].value
  \/ /\ stage = "idle"
     /\ reply.status = "OK" /\ flushed => Holds(c)

(* The one thread of the daemon: it is at its start, or in its loop with    *)
(* nothing to do, or carries out the request that it has in its hand, and   *)
(* nothing is promised while it does.                                       *)
DaemonOK ==
  /\ handled \in BOOLEAN
  /\ pc[Daemon] = "down" =>
       /\ ~handled
       /\ stage \in {"down", "idle"} \/ (stage \in Moves /\ BootJob)
  /\ pc[Daemon] # "down" /\ ~handled => stage = "idle"
  /\ handled => /\ pc[Daemon] = "busy"
                /\ Progress(buf[Daemon].owner)
                /\ sure = {}

ManagerOK == NetsOK /\ DaemonOK /\ ConfirmedIsDurable

-------------------------------------------------------------------------------
(* The constants are a channel's.                                           *)
LEMMA ChannelConstants == Chan!ChannelAssumption
BY ManagerAssumption DEF ManagerAssumption, Channel!ChannelAssumption,
   Chan!ChannelAssumption, Channel!IsFiniteSet, Chan!IsFiniteSet

(* What the composed system does to the queue is what CgiChannel allows.    *)
LEMMA ChannelDefs ==
  /\ Channel!Procs = Chan!Procs /\ Channel!NoMsg = Chan!NoMsg
  /\ Channel!Requests = Chan!Requests
  /\ Channel!Waiting = Chan!Waiting /\ Channel!Held = Chan!Held
BY DEF Channel!Procs, Chan!Procs, Channel!NoMsg, Chan!NoMsg, Channel!Waiting,
   Chan!Waiting, Channel!Requests, Chan!Requests, Channel!Held, Chan!Held

(* msgSend and msgRecv ...                                                  *)
LEMMA SendIsSend ==
  ASSUME NEW p, NEW m, Channel!MsgSend(p, m) PROVE Chan!MsgSend(p, m)
BY DEF Channel!MsgSend, Channel!SendBlocks, Channel!SendHandsOver,
   Channel!SendQueues, Channel!AfterSend, Channel!AfterRecv,
   Chan!MsgSend, Chan!SendBlocks, Chan!SendHandsOver, Chan!SendQueues,
   Chan!AfterSend, Chan!AfterRecv

(* ... are those of the channel, ...                                        *)
LEMMA RecvIsRecv ==
  ASSUME NEW p, Channel!MsgRecv(p) PROVE Chan!MsgRecv(p)
BY DEF Channel!MsgRecv, Channel!RecvBlocks, Channel!RecvTakes,
   Channel!RecvLetsIn, Channel!AfterSend, Channel!AfterRecv,
   Chan!MsgRecv, Chan!RecvBlocks, Chan!RecvTakes, Chan!RecvLetsIn,
   Chan!AfterSend, Chan!AfterRecv

(* ... and so are leaving a wait queue ...                                  *)
LEMMA LeaveIsLeave == \A s, p : Channel!Leave(s, p) = Chan!Leave(s, p)
BY DEF Channel!Leave, Chan!Leave, Channel!Contains, Chan!Contains,
   Channel!RemoveAt, Chan!RemoveAt

(* ... and what is answered.                                               *)
LEMMA AnswersAreAnswers == \A m : Channel!Answers(m) = Chan!Answers(m)
BY DEF Channel!Answers, Chan!Answers, Channel!doFileLookUp, Chan!doFileLookUp

(* Every step of the composed system is a step of the channel, or none.     *)
LEMMA CgiIsChannelStep ==
  ASSUME NEW c \in Clients, Cgi(c)
  PROVE  Chan!CgiStart(c) \/ Chan!CgiSend(c) \/ Chan!CgiRecv(c) \/ Chan!Kill(c)
<1>1. CASE Channel!CgiStart(c)
  BY <1>1, ChannelDefs DEF Channel!CgiStart, Chan!CgiStart
<1>2. CASE Channel!CgiSend(c)
  BY <1>2, SendIsSend, ChannelDefs
  DEF Channel!CgiSend, Chan!CgiSend, Channel!AloneAtSend, Chan!AloneAtSend
<1>3. CASE Channel!CgiRecv(c)
  BY <1>3, RecvIsRecv DEF Channel!CgiRecv, Chan!CgiRecv
<1>4. CASE Channel!Kill(c)
  BY <1>4, LeaveIsLeave, ChannelDefs DEF Channel!Kill, Chan!Kill
<1> QED BY <1>1, <1>2, <1>3, <1>4 DEF Cgi

(* The loop of webProcess,                                                 *)
LEMMA LoopIsChannelStep ==
  ASSUME Loop PROVE Chan!DaemonStart \/ Chan!DaemonRecv
BY RecvIsRecv DEF Loop, Channel!DaemonStart, Chan!DaemonStart,
   Channel!DaemonRecv, Chan!DaemonRecv

(* the end of a handler,                                                    *)
LEMMA ReplyIsChannelStep == ASSUME Reply PROVE Chan!DaemonSend
BY SendIsSend, AnswersAreAnswers DEF Reply, Channel!DaemonSend, Chan!DaemonSend

(* and the end of the daemon, which may not have opened the queue yet.      *)
LEMMA ExitIsChannelStep ==
  ASSUME Exit
  PROVE  IF pc[Daemon] = "down" THEN UNCHANGED Chan!vars ELSE Chan!DaemonExit
BY LeaveIsLeave, ChannelDefs
DEF Exit, Channel!DaemonExit, Chan!DaemonExit, channel, Chan!vars

(* The queue of the composed system is the queue that CgiChannel is about:  *)
(* what is proved there holds while the daemon carries requests out, and    *)
(* ends while it does.                                                      *)
THEOREM ManagerIsChannel == Spec => Chan!Spec
<1>1. Init => Chan!Init
  BY ChannelDefs DEF Init, Channel!Init, Chan!Init
<1>2. [Next]_vars => [Chan!Next]_(Chan!vars)
  <2> SUFFICES ASSUME [Next]_vars PROVE [Chan!Next]_(Chan!vars)
    OBVIOUS
  <2>1. ASSUME NEW c \in Clients, Cgi(c) PROVE Chan!Next
    BY <2>1, CgiIsChannelStep DEF Chan!Next
  <2>2. CASE Boot \/ Handle \/ Work
    BY <2>2 DEF Boot, Handle, Work, channel, Chan!vars
  <2>3. CASE Loop
    BY <2>3, LoopIsChannelStep DEF Chan!Next
  <2>4. CASE Reply
    BY <2>4, ReplyIsChannelStep DEF Chan!Next
  <2>5. CASE Exit
    BY <2>5, ExitIsChannelStep DEF Chan!Next
  <2>6. CASE UNCHANGED vars
    BY <2>6 DEF vars, channel, Chan!vars
  <2> QED BY <2>1, <2>2, <2>3, <2>4, <2>5, <2>6 DEF Next
<1> QED BY <1>1, <1>2, PTL DEF Chan!Spec, Spec

(* So a daemon that ends in the middle of a handler, with a request in hand, *)
(* neither multiplies messages nor, unless it took one along, leaves a      *)
(* client waiting for it while it waits for the client.                     *)
THEOREM ManagerConserves == Spec => [](Chan!Conservation /\ Chan!NoMutualWait)
<1>1. Chan!Spec => []Chan!Conservation
  BY ChannelConstants, Chan!MessagesConserved, Zenon
<1>2. Chan!Spec => []Chan!NoMutualWait
  BY ChannelConstants, Chan!NobodyStuckReceiving, Zenon
<1> QED BY <1>1, <1>2, ManagerIsChannel, PTL

(* What the daemon does to the configuration is what ConfigStore allows.    *)
THEOREM ManagerIsStore == Spec => Store!Spec
<1>1. Init => Store!Init
  BY DEF Init
<1>2. [Next]_vars => [Store!Next]_(Store!vars)
  <2> SUFFICES ASSUME [Next]_vars
               PROVE  [Store!Next]_(Store!vars)
    OBVIOUS
  <2>1. ASSUME NEW c \in Clients, Cgi(c) PROVE UNCHANGED Store!vars
    BY <2>1 DEF Cgi, store, Store!vars
  <2>2. CASE Boot \/ Work \/ Exit
    BY <2>2 DEF Boot, Work, Exit, Store!Next
  <2>3. CASE Handle
    BY <2>3 DEF Handle, Begins, Store!Next, Store!Request
  <2>4. CASE Loop \/ Reply
    BY <2>4 DEF Loop, Reply, store, Store!vars
  <2>5. CASE UNCHANGED vars
    BY <2>5 DEF vars, store, Store!vars
  <2> QED BY <2>1, <2>2, <2>3, <2>4, <2>5 DEF Next
<1> QED BY <1>1, <1>2, PTL DEF Spec, Store!Spec

-------------------------------------------------------------------------------
(* The daemon among the processes: nobody but itself takes it out of its    *)
(* handler, or brings it up, since it is in no wait queue.                  *)
LEMMA CgiLeavesDaemon ==
  ASSUME Chan!ChannelOK, NEW c \in Clients,
         Chan!CgiStart(c) \/ Chan!CgiSend(c) \/ Chan!CgiRecv(c) \/ Chan!Kill(c)
  PROVE  /\ pc[Daemon] \in {"busy", "down"} =>
              pc'[Daemon] = pc[Daemon] /\ buf'[Daemon] = buf[Daemon]
         /\ pc[Daemon] # "down" => pc'[Daemon] # "down"
<1> USE ChannelConstants DEF Chan!Procs
<1>1. /\ pc \in [Chan!Procs -> Chan!ClientStates \cup Chan!DaemonStates]
      /\ c # Daemon /\ DOMAIN buf = Chan!Procs
  BY DEF Chan!ChannelOK
<1>2. /\ rcvq # <<>> /\ Head(rcvq) = Daemon => pc[Daemon] = "receiving"
      /\ sndq # <<>> /\ Head(sndq) = Daemon => pc[Daemon] = "sending"
  <2>1. /\ rcvq \in Seq(Chan!Procs) /\ Chan!IsInjective(rcvq)
        /\ sndq \in Seq(Chan!Procs) /\ Chan!IsInjective(sndq)
    BY DEF Chan!ChannelOK, Chan!BlockedJustly
  <2>2. /\ rcvq # <<>> => Chan!Contains(rcvq, Head(rcvq))
        /\ sndq # <<>> => Chan!Contains(sndq, Head(sndq))
    BY <2>1, Chan!TailWaits
  <2> QED BY <2>2 DEF Chan!ChannelOK, Chan!BlockedJustly
<1>3. CASE Chan!CgiStart(c)
  BY <1>1, <1>3 DEF Chan!CgiStart
<1>4. CASE Chan!CgiSend(c)
  BY <1>1, <1>2, <1>4 DEF Chan!CgiSend, Chan!MsgSend, Chan!SendBlocks,
     Chan!SendHandsOver, Chan!SendQueues,
     Chan!AfterSend, Chan!AfterRecv
<1>5. CASE Chan!CgiRecv(c)
  BY <1>1, <1>2, <1>5 DEF Chan!CgiRecv, Chan!MsgRecv, Chan!RecvBlocks,
     Chan!RecvTakes, Chan!RecvLetsIn,
     Chan!AfterSend, Chan!AfterRecv
<1>6. CASE Chan!Kill(c)
  BY <1>1, <1>6 DEF Chan!Kill
<1> QED BY <1>3, <1>4, <1>5, <1>6

(* The steps of setNetParameters: on to the next call, or back to where it  *)
(* was called from, with or without an error.                               *)
LEMMA MoveCases ==
  ASSUME Store!SetNetParameters
  PROVE  /\ stage \in Moves /\ file' = file /\ flushed' = flushed
         /\ \/ stage' \in Moves /\ UNCHANGED <<pa, job, reply>>
            \/ Store!NetDone
            \/ \E status \in {"ERR", "IP_INVALID"} : Store!NetFailed(status)
BY DEF Moves, Store!SetNetParameters, Store!SetIp, Store!SetMask,
   Store!SetGateway, Store!KeepMac, Store!SetMac, Store!IfUp,
   Store!LinkUp, Store!NoLinkStatus, Store!LeaveLinkWait

(* The delivered parameters, and the forms of the slots.                    *)
LEMMA DeliveredNets ==
  /\ {"net", "filter"} \subseteq DOMAIN InitPa
  /\ InitPa.net \in [Lans -> Store!netParam]
BY ManagerAssumption DEF ManagerAssumption, Store!StoreAssumption,
   Store!param, Lans

(* ... which ask for parts of the parameters.                               *)
LEMMA AskedNets ==
  ASSUME NEW c \in Clients
  PROVE  /\ Ask[c].field \in {"net", "filter"}
         /\ Ask[c].field = "net" => Ask[c].value \in [Lans -> Store!netParam]
<1>1. NetPairs \subseteq [Lans -> Store!netParam]
  BY ManagerAssumption DEF ManagerAssumption, Store!StoreAssumption, Lans
<1>2. CASE Ask[c].field = "net" /\ Ask[c].value \in NetPairs
  BY <1>1, <1>2
<1>3. CASE Ask[c].field = "filter" /\ Ask[c].value \in FilterPairs
  BY <1>3
<1> QED BY <1>2, <1>3, ManagerAssumption DEF ManagerAssumption

(* A file that was written from parameters with what slot c asks for.       *)
LEMMA WrittenHolds ==
  ASSUME NEW c \in Clients, pa[Ask[c].field] = Ask[c].value,
         file' = Store!WholeFile(pa)
  PROVE  Holds(c)'
<1> DEFINE f == Ask[c].field
           asked == [InitPa EXCEPT ![f] = Ask[c].value]
<1>1. f \in {"net", "filter"} /\ f \in DOMAIN InitPa
  BY AskedNets, DeliveredNets
<1>2. asked[f] = Ask[c].value
  BY <1>1
<1>3. pa[f] = asked[f]
  BY <1>2
<1> HIDE DEF asked
<1>4. Store!Encode(pa)[f] = Store!Encode(asked)[f]
  <2>1. CASE f = "net"
    BY <1>3, <2>1 DEF Store!Encode
  <2>2. CASE f = "filter"
    BY <1>3, <2>2 DEF Store!Encode
  <2> QED BY <1>1, <2>1, <2>2
<1>5. file'.is = "whole" /\ file'.doc = Store!Encode(pa)
  BY DEF Store!WholeFile
<1> QED BY <1>4, <1>5 DEF Holds, asked

(* What the file has it has until it is written.                            *)
LEMMA FileKeepsHolds ==
  ASSUME NEW c, Holds(c), file' = file PROVE Holds(c)'
BY DEF Holds, Store!Encode, Store!BoolText

(* What is promised, and how far a request is, as long as the store stays   *)
(* as it is.                                                                *)
LEMMA StoreKeeps ==
  ASSUME NetsOK, UNCHANGED <<pa, file, stage, job, reply, flushed>>
  PROVE  /\ NetsOK'
         /\ BootJob => BootJob'
         /\ \A c : Holds(c) => Holds(c)'
         /\ \A c : Progress(c) => Progress(c)'
<1>1. NetsOK'
  BY DEF NetsOK
<1>2. BootJob => BootJob'
  BY DEF BootJob, NetJob, Store!NetJob
<1>3. ASSUME NEW c, Holds(c) PROVE Holds(c)'
  BY <1>3, FileKeepsHolds
<1>4. ASSUME NEW c, Progress(c) PROVE Progress(c)'
  BY <1>3, <1>4 DEF Progress, NetJob, Store!NetJob
<1> QED BY <1>1, <1>2, <1>3, <1>4

(* CGI processes disturb neither the daemon nor its store.                  *)
LEMMA CgiKeeps ==
  ASSUME ManagerOK, Chan!ChannelOK, NEW c \in Clients, Cgi(c)
  PROVE  ManagerOK'
<1>1. UNCHANGED <<pa, file, stage, job, reply, flushed, handled, sure>>
  BY DEF Cgi, store
<1>2. /\ pc[Daemon] \in {"busy", "down"} =>
           pc'[Daemon] = pc[Daemon] /\ buf'[Daemon] = buf[Daemon]
      /\ pc[Daemon] # "down" => pc'[Daemon] # "down"
  BY CgiIsChannelStep, CgiLeavesDaemon
<1>3. /\ NetsOK'
      /\ BootJob => BootJob'
      /\ \A d : Holds(d) => Holds(d)'
      /\ \A d : Progress(d) => Progress(d)'
  BY <1>1, StoreKeeps DEF ManagerOK
<1>4. DaemonOK'
  BY <1>1, <1>2, <1>3 DEF ManagerOK, DaemonOK
<1> QED BY <1>1, <1>3, <1>4 DEF ManagerOK, ConfirmedIsDurable

(* The loop takes a message up while nothing is under way.                  *)
LEMMA LoopKeeps ==
  ASSUME ManagerOK, Chan!ChannelOK, Loop PROVE ManagerOK'
<1>1. UNCHANGED <<pa, file, stage, job, reply, flushed, handled, sure>> /\ stage = "idle"
  BY DEF Loop, store
<1>2. pc[Daemon] # "busy" /\ pc'[Daemon] # "down"
  <2>1. DOMAIN pc = Chan!Procs /\ Daemon \in Chan!Procs
    BY DEF Chan!ChannelOK, Chan!Procs
  <2>2. CASE Chan!DaemonStart
    BY <2>1, <2>2 DEF Chan!DaemonStart
  <2>3. CASE Chan!DaemonRecv
    BY <2>1, <2>3 DEF Chan!DaemonRecv, Chan!MsgRecv, Chan!RecvBlocks,
       Chan!RecvTakes, Chan!RecvLetsIn, Chan!AfterRecv,
       Chan!AfterSend
  <2> QED BY <2>2, <2>3, LoopIsChannelStep
<1>3. ~handled
  BY <1>2 DEF ManagerOK, DaemonOK
<1>4. NetsOK' /\ \A d : Holds(d) => Holds(d)'
  BY <1>1, StoreKeeps DEF ManagerOK
<1>5. DaemonOK'
  BY <1>1, <1>2, <1>3 DEF ManagerOK, DaemonOK
<1> QED BY <1>1, <1>4, <1>5 DEF ManagerOK, ConfirmedIsDurable

(* A reply is a promise only to the client whose request was carried out.   *)
LEMMA ReplyKeeps ==
  ASSUME ManagerOK, Chan!ChannelOK, Chan!AloneOK, Reply PROVE ManagerOK'
<1>1. /\ UNCHANGED <<pa, file, stage, job, reply, flushed>> /\ stage = "idle" /\ ~handled'
      /\ handled' = FALSE
      /\ sure' = sure \cup {c \in alone' : /\ pc[c] = "receiving" /\ pc'[c] = "done"
                                           /\ handled /\ reply.status = "OK"}
  BY DEF Reply, store
<1>2. Chan!DaemonSend
  BY ReplyIsChannelStep
<1>3. pc'[Daemon] # "down"
  <2>1. DOMAIN pc = Chan!Procs /\ Daemon \in Chan!Procs
    BY DEF Chan!ChannelOK, Chan!Procs
  <2> QED BY <1>2, <2>1 DEF Chan!DaemonSend, Chan!MsgSend, Chan!SendBlocks,
      Chan!SendHandsOver, Chan!SendQueues,
       Chan!AfterSend, Chan!AfterRecv
<1>4. NetsOK' /\ \A d : Holds(d) => Holds(d)'
  BY <1>1, StoreKeeps DEF ManagerOK
<1>5. DaemonOK'
  BY <1>1, <1>3 DEF DaemonOK
<1>6. ASSUME flushed, NEW c \in sure', c \notin sure PROVE Holds(c)
  <2>1. c \in alone' /\ pc[c] = "receiving" /\ handled /\ reply.status = "OK"
    BY <1>1, <1>6
  <2>2. c \in alone
    BY <1>2, <2>1 DEF Chan!DaemonSend
  <2>3. buf[Daemon].owner = c
    BY <2>1, <2>2 DEF Chan!AloneOK
  <2>4. Progress(c)
    BY <2>1, <2>3 DEF ManagerOK, DaemonOK
  <2> QED BY <1>1, <1>6, <2>1, <2>4 DEF Progress, Moves
<1> QED BY <1>1, <1>4, <1>5, <1>6 DEF ManagerOK, ConfirmedIsDurable

(* An end of the daemon leaves the file.                                    *)
LEMMA ExitKeeps ==
  ASSUME ManagerOK, Chan!ChannelOK, Exit PROVE ManagerOK'
<1>1. /\ file' = file /\ sure' = sure /\ handled' = FALSE /\ flushed' = flushed
      /\ stage' = "down" /\ pa' = InitPa
  BY DEF Exit, Store!Crash, Store!Unloaded
<1>2. pc'[Daemon] = "down"
  <2>1. DOMAIN pc = Chan!Procs /\ Daemon \in Chan!Procs
    BY DEF Chan!ChannelOK, Chan!Procs
  <2> QED BY <2>1, ExitIsChannelStep DEF Chan!DaemonExit, Chan!vars
<1>3. NetsOK'
  BY <1>1, DeliveredNets DEF ManagerOK, NetsOK
<1>4. DaemonOK'
  BY <1>1, <1>2 DEF DaemonOK
<1> QED BY <1>1, <1>3, <1>4, FileKeepsHolds DEF ManagerOK, ConfirmedIsDurable

(* setNetParameters has returned: what is set up next, at start and for a   *)
(* request.                                                                 *)
LEMMA BootDone ==
  ASSUME NetsOK, BootJob, Store!NetDone
  PROVE  /\ pa' = pa
         /\ stage' = "idle" \/ (stage' \in Moves /\ BootJob')
<1>1. CASE job = NetJob("BOOT", 1, pa.net[1], pa.net[2])
  BY <1>1 DEF BootJob, NetJob, Store!NetJob, Store!NetDone, Moves
<1>2. CASE job = NetJob("BOOT", 2, pa.net[2], pa.net[2])
  BY <1>2 DEF NetJob, Store!NetJob, Store!NetDone
<1> QED BY <1>1, <1>2 DEF BootJob

(* A start changes nothing in the file.                                     *)
LEMMA BootKeeps ==
  ASSUME ManagerOK, Boot PROVE ManagerOK'
<1>1. pc[Daemon] = "down" /\ UNCHANGED <<pc, buf, handled, sure>>
  BY DEF Boot, channel
<1>2. ~handled /\ (stage \in {"down", "idle"} \/ (stage \in Moves /\ BootJob))
  BY <1>1 DEF ManagerOK, DaemonOK
<1> SUFFICES /\ NetsOK' /\ file' = file /\ flushed' = flushed
             /\ stage' \in {"down", "idle"} \/ (stage' \in Moves /\ BootJob')
  BY <1>1, <1>2, FileKeepsHolds DEF ManagerOK, DaemonOK, ConfirmedIsDurable
<1>3. CASE Store!Start
  <2>1. /\ pa' = Store!Decode(file.doc) /\ file' = file /\ stage' = "ip" /\ flushed' = flushed
        /\ job' = NetJob("BOOT", 1, pa'.net[1], pa'.net[2]) /\ file.is = "whole"
    BY <1>3 DEF Store!Start, Store!Loadable, NetJob
  <2>2. NetsOK'
    BY <2>1 DEF ManagerOK, NetsOK, Store!Decode
  <2> QED BY <2>1, <2>2 DEF Moves, BootJob, NetJob, Store!NetJob
<1>4. CASE Store!SetNetParameters
  <2>1. stage \in Moves /\ file' = file /\ flushed' = flushed
    BY <1>4, MoveCases
  <2>2. BootJob
    BY <1>2, <2>1 DEF Moves
  <2>3. CASE stage' \in Moves /\ UNCHANGED <<pa, job, reply>>
    BY <2>1, <2>2, <2>3 DEF ManagerOK, NetsOK, BootJob, NetJob, Store!NetJob
  <2>4. CASE Store!NetDone
    BY <2>1, <2>2, <2>4, BootDone DEF ManagerOK, NetsOK
  <2>5. ASSUME NEW status, Store!NetFailed(status)
        PROVE  NetsOK' /\ stage' = "down"
    <3>1. job.op = "BOOT"
      BY <2>2 DEF BootJob, NetJob, Store!NetJob
    <3>2. pa' = InitPa /\ stage' = "down"
      BY <2>5, <3>1 DEF Store!NetFailed, Store!Unloaded
    <3> QED BY <2>1, <3>2, DeliveredNets DEF ManagerOK, NetsOK
  <2> QED BY <1>4, <2>1, <2>3, <2>4, <2>5, MoveCases
<1> QED BY <1>3, <1>4 DEF Boot

(* A client whose message the daemon has.                                   *)
LEMMA OwnerIsClient ==
  ASSUME Chan!ChannelOK, pc[Daemon] = "busy" PROVE buf[Daemon].owner \in Clients
<1>1. buf[Daemon] \in Chan!Message
  BY DEF Chan!ChannelOK, Chan!Procs
<1> QED BY <1>1 DEF Chan!Message

(* The handler begins with what the form of the slot says.                  *)
LEMMA HandleKeeps ==
  ASSUME ManagerOK, Chan!ChannelOK, Handle PROVE ManagerOK'
<1>1. /\ pc[Daemon] = "busy" /\ UNCHANGED <<pc, buf>> /\ handled' = TRUE /\ sure' = {}
      /\ Begins(buf[Daemon].owner)
  BY DEF Handle, channel
<1>2. PICK c \in Clients : c = buf[Daemon].owner
  BY <1>1, OwnerIsClient
<1>3. ASSUME Ask[c].field = "net", Store!doNetConfigSave,
             <<job'.net, job'.next>> = Ask[c].value
      PROVE  NetsOK' /\ Progress(c)'
  <2>1. /\ UNCHANGED <<pa, file>> /\ stage' = "ip"
        /\ \E nets \in NetPairs : job' = NetJob("NETCONFIGSAVE", 1, nets[1], nets[2])
    BY <1>3 DEF Store!doNetConfigSave, Store!Begin, NetJob
  <2>2. job' = NetJob("NETCONFIGSAVE", 1, job'.net, job'.next)
    BY <2>1 DEF NetJob, Store!NetJob
  <2>3. job'.net = Ask[c].value[1] /\ job'.next = Ask[c].value[2]
    BY <1>3
  <2>4. job' = NetJob("NETCONFIGSAVE", 1, Ask[c].value[1], Ask[c].value[2])
    BY <2>2, <2>3 DEF NetJob, Store!NetJob
  <2>5. stage' \in Moves
    BY <2>1 DEF Moves
  <2>6. Progress(c)'
    BY <1>3, <2>4, <2>5 DEF Progress, NetJob, Store!NetJob
  <2> QED BY <2>1, <2>6 DEF ManagerOK, NetsOK
<1>4. ASSUME Ask[c].field = "filter", Store!doNetFilter, pa'.filter = Ask[c].value
      PROVE  NetsOK' /\ Progress(c)'
  <2>1. file' = file /\ stage' = "save" /\ \E f \in FilterPairs : pa' = [pa EXCEPT !.filter = f]
    BY <1>4 DEF Store!doNetFilter, Store!Begin
  <2>2. Progress(c)'
    BY <1>4, <2>1 DEF Progress
  <2> QED BY <2>1, <2>2 DEF ManagerOK, NetsOK
<1>5. NetsOK' /\ Progress(c)'
  BY <1>1, <1>2, <1>3, <1>4 DEF Begins
<1>6. Progress(buf[Daemon].owner)'
  <2>1. buf'[Daemon].owner = c
    BY <1>1, <1>2
  <2> QED BY <1>5, <2>1 DEF Progress, Holds
<1> QED BY <1>1, <1>5, <1>6 DEF ManagerOK, DaemonOK, ConfirmedIsDurable

(* A step of setNetParameters for the request of slot c.                    *)
LEMMA MoveProgress ==
  ASSUME NetsOK, NEW c \in Clients, Progress(c),
         Store!SetNetParameters
  PROVE  NetsOK' /\ Progress(c)'
<1> DEFINE v == Ask[c].value
           First == NetJob("NETCONFIGSAVE", 1, v[1], v[2])
           Second == NetJob("NETCONFIGSAVE", 2, v[2], v[2])
<1>1. stage \in Moves /\ file' = file
  BY MoveCases
<1>2. Ask[c].field = "net" /\ (job = First \/ (job = Second /\ pa.net[1] = v[1]))
  BY <1>1 DEF Progress, Moves
<1>3. v \in [{1, 2} -> Store!netParam]
      /\ pa.net \in [{1, 2} -> Store!netParam] /\ "net" \in DOMAIN pa
  <2>1. Lans = {1, 2}
    BY DEF Lans, Store!Lans
  <2> QED BY <1>2, <2>1, AskedNets DEF NetsOK
<1>4. CASE stage' \in Moves /\ UNCHANGED <<pa, job, reply>>
  BY <1>1, <1>2, <1>4 DEF NetsOK, Progress, NetJob, Store!NetJob
<1>5. ASSUME NEW status \in {"ERR", "IP_INVALID"}, Store!NetFailed(status)
      PROVE  NetsOK' /\ Progress(c)'
  <2>1. job.op = "NETCONFIGSAVE"
    BY <1>2 DEF NetJob, Store!NetJob
  <2>2. pa' = pa /\ stage' = "idle" /\ reply'.status = status
    BY <1>5, <2>1 DEF Store!NetFailed, Store!Confirm
  <2> QED BY <1>1, <1>5, <2>2 DEF NetsOK, Progress
<1>6. CASE Store!NetDone
  <2>1. CASE job = First
    <3>1. job.op = "NETCONFIGSAVE" /\ job.lan = 1 /\ job.net = v[1]
      BY <2>1 DEF NetJob, Store!NetJob
    <3>2. /\ pa' = [pa EXCEPT !.net[1] = v[1]] /\ stage' = "ip"
          /\ job' = [job EXCEPT !.lan = 2, !.net = job.next]
      BY <1>6, <3>1 DEF Store!NetDone
    <3>3. job' = Second
      BY <2>1, <3>2 DEF NetJob, Store!NetJob
    <3>4. /\ pa'.net = [pa.net EXCEPT ![1] = v[1]] /\ DOMAIN pa' = DOMAIN pa
      BY <1>3, <3>2
    <3>5. NetsOK'
      BY <1>1, <1>3, <3>4 DEF NetsOK, Lans, Store!Lans
    <3>6. pa'.net[1] = v[1] /\ stage' \in Moves
      BY <1>3, <3>2, <3>4 DEF Moves
    <3> QED BY <1>2, <3>3, <3>5, <3>6 DEF Progress, NetJob, Store!NetJob
  <2>2. CASE job = Second /\ pa.net[1] = v[1]
    <3>1. job.op = "NETCONFIGSAVE" /\ job.lan = 2 /\ job.net = v[2]
      BY <2>2 DEF NetJob, Store!NetJob
    <3>2. pa' = [pa EXCEPT !.net[2] = v[2]] /\ stage' = "save"
      BY <1>6, <3>1 DEF Store!NetDone
    <3>3. /\ pa'.net = [pa.net EXCEPT ![2] = v[2]] /\ DOMAIN pa' = DOMAIN pa
      BY <1>3, <3>2
    <3>4. NetsOK'
      BY <1>1, <1>3, <3>3 DEF NetsOK, Lans, Store!Lans
    <3>5. pa'.net = v
      BY <1>3, <2>2, <3>3
    <3> QED BY <1>2, <3>2, <3>4, <3>5 DEF Progress
  <2> QED BY <1>2, <2>1, <2>2
<1> QED BY <1>4, <1>5, <1>6, MoveCases

(* A step of paramSave for it.                                              *)
LEMMA SaveProgress ==
  ASSUME NetsOK, NEW c \in Clients, Progress(c),
         Store!paramSave
  PROVE  NetsOK' /\ Progress(c)'
<1>1. stage \in {"save", "write"} /\ pa' = pa
  BY DEF Store!paramSave, Store!OpenFails, Store!Truncate,
     Store!Write
<1>2. pa[Ask[c].field] = Ask[c].value
  BY <1>1 DEF Progress, Moves
<1>3. CASE Store!OpenFails
  BY <1>1, <1>3 DEF Store!OpenFails, Store!Confirm, NetsOK, Progress
<1>4. CASE Store!Truncate
  BY <1>1, <1>2, <1>4 DEF Store!Truncate, Store!TornFile, NetsOK, Progress
<1>5. CASE Store!Write
  <2>1. /\ stage' = "idle"
        /\ file' = IF flushed' THEN Store!WholeFile(pa) ELSE Store!TornFile
    BY <1>5 DEF Store!Write, Store!Confirm
  <2>2. flushed' => Holds(c)'
    BY <1>2, <2>1, WrittenHolds
  <2>3. file'.is = "whole" => file'.doc.net = pa.net
    BY <2>1 DEF Store!WholeFile, Store!Encode, Store!TornFile
  <2> QED BY <1>1, <2>1, <2>2, <2>3 DEF NetsOK, Progress
<1> QED BY <1>3, <1>4, <1>5 DEF Store!paramSave

(* The handler goes on with the request it began.                           *)
LEMMA WorkKeeps ==
  ASSUME ManagerOK, Chan!ChannelOK, Work PROVE ManagerOK'
<1>1. pc[Daemon] = "busy" /\ UNCHANGED <<pc, buf, handled, sure>>
  BY DEF Work, channel
<1>2. stage # "idle"
  BY MoveCases DEF Work, Moves, Store!paramSave, Store!OpenFails,
     Store!Truncate, Store!Write
<1>3. handled
  BY <1>1, <1>2 DEF ManagerOK, DaemonOK
<1>4. PICK c \in Clients : c = buf[Daemon].owner
  BY <1>1, OwnerIsClient
<1>5. Progress(c) /\ sure = {}
  BY <1>3, <1>4 DEF ManagerOK, DaemonOK
<1>6. NetsOK' /\ Progress(c)'
  BY <1>5, MoveProgress, SaveProgress DEF ManagerOK, Work
<1>7. Progress(buf[Daemon].owner)'
  <2>1. buf'[Daemon].owner = c
    BY <1>1, <1>4
  <2> QED BY <1>6, <2>1 DEF Progress, Holds
<1> QED BY <1>1, <1>3, <1>5, <1>6, <1>7 DEF ManagerOK, DaemonOK,
    ConfirmedIsDurable

(* What the daemon confirmed to a client that had the queue to itself, and  *)
(* of which fclose lost nothing, is in the file, whichever clients come and *)
(* are killed and however often the daemon ends, until it takes up another  *)
(* request.                                                                 *)
THEOREM ConfirmedStays == Spec => []ConfirmedIsDurable
<1>1. Init => ManagerOK
  <2> SUFFICES ASSUME Init PROVE ManagerOK
    OBVIOUS
  <2>1. /\ pa = InitPa /\ stage = "down" /\ handled = FALSE /\ sure = {}
        /\ file \in {Store!NoFile, Store!WholeFile(InitPa)}
    BY DEF Init, Store!Init, Store!Unloaded
  <2>2. NetsOK
    <3>1. file.is = "whole" => file.doc.net = InitPa.net
      BY <2>1 DEF Store!NoFile, Store!WholeFile, Store!Encode
    <3> QED BY <2>1, <3>1, DeliveredNets DEF NetsOK
  <2>3. pc[Daemon] = "down"
    BY DEF Init, Channel!Init, Channel!Procs
  <2> QED BY <2>1, <2>2, <2>3 DEF ManagerOK, DaemonOK, ConfirmedIsDurable
<1>2. ManagerOK /\ Chan!ChannelOK /\ Chan!AloneOK /\ [Next]_vars => ManagerOK'
  <2> SUFFICES ASSUME ManagerOK, Chan!ChannelOK, Chan!AloneOK, [Next]_vars
               PROVE  ManagerOK'
    OBVIOUS
  <2>1. ASSUME NEW c \in Clients, Cgi(c) PROVE ManagerOK'
    BY <2>1, CgiKeeps
  <2>2. CASE Boot
    BY <2>2, BootKeeps
  <2>3. CASE Loop
    BY <2>3, LoopKeeps
  <2>4. CASE Handle
    BY <2>4, HandleKeeps
  <2>5. CASE Work
    BY <2>5, WorkKeeps
  <2>6. CASE Reply
    BY <2>6, ReplyKeeps
  <2>7. CASE Exit
    BY <2>7, ExitKeeps
  <2>8. CASE UNCHANGED vars
    <3>1. UNCHANGED <<pa, file, stage, job, reply, flushed, pc, buf, handled, sure>>
      BY <2>8 DEF vars, channel, store
    <3>2. /\ NetsOK'
          /\ BootJob => BootJob'
          /\ \A c : Holds(c) => Holds(c)'
          /\ \A c : Progress(c) => Progress(c)'
      BY <3>1, StoreKeeps DEF ManagerOK
    <3> QED BY <3>1, <3>2 DEF ManagerOK, DaemonOK, ConfirmedIsDurable
  <2> QED BY <2>1, <2>2, <2>3, <2>4, <2>5, <2>6, <2>7, <2>8 DEF Next
<1>3. ManagerOK => ConfirmedIsDurable
  BY DEF ManagerOK
<1>4. Spec => [](Chan!ChannelOK /\ Chan!AloneOK)
  <2>1. Chan!Spec => [](Chan!ChannelOK /\ Chan!AloneOK)
    BY ChannelConstants, Chan!AloneHolds, Zenon
  <2> QED BY <2>1, ManagerIsChannel, PTL
<1> QED BY <1>1, <1>2, <1>3, <1>4, PTL DEF Spec
===============================================================================
