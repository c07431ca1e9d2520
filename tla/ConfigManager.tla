----------------------------- MODULE ConfigManager -----------------------------
(***************************************************************************)
(* The whole of it: CGI processes that ask for changes of the configuration *)
(* (CgiChannel) and the daemon that carries them out (ConfigStore).  The    *)
(* daemon is one thread.  It handles a message between its msgRecv and its  *)
(* msgSend, in many steps, while CGI processes go on sending, receiving and *)
(* being killed; and it can end at each of those steps, and start again.    *)
(*                                                                          *)
(* What a request asks for is a matter of the slot it comes from: each slot *)
(* submits one and the same form again and again.                           *)
(***************************************************************************)
EXTENDS Naturals, Sequences

CONSTANTS
  Clients, Daemon, MaxMsg, MaxOrphans, MaxLost,          \* of CgiChannel
  NetPairs, TestNets, CapturePairs, FilterPairs, Keys,   \* of ConfigStore
  KeyMax, UserNames, InitPa, ClassMask, Crashes,
  Ask     \* the part of the parameters that a slot's form is about, and its value

VARIABLES
  q, rcvq, sndq, pc, buf, orphans, lost, alone,          \* of CgiChannel
  pa, file, iface, stage, job, reply, drift, saved,      \* of ConfigStore; stage is its pc
  flushed, blank,
  handled,  \* the daemon has begun with the request that it received last
  sure      \* history: clients that alone were told OK, with no request handled since

channel == <<q, rcvq, sndq, pc, buf, orphans, lost, alone>>
store == <<pa, file, iface, stage, job, reply, drift, saved, flushed, blank>>
vars == <<channel, store, handled, sure>>

Channel == INSTANCE CgiChannel
Store == INSTANCE ConfigStore WITH pc <- stage

ASSUME ManagerAssumption ==
  /\ Channel!ChannelAssumption
  /\ Store!StoreAssumption
  /\ \A c \in Clients : \/ Ask[c].field = "net" /\ Ask[c].value \in NetPairs
                        \/ Ask[c].field = "filter" /\ Ask[c].value \in FilterPairs

Init ==
  /\ Channel!Init
  /\ Store!Init
  /\ handled = FALSE
  /\ sure = {}

(* cgiMain, and what the web server does to it.                             *)
Cgi(c) ==
  /\ \/ Channel!CgiStart(c) \/ Channel!CgiSend(c) \/ Channel!CgiRecv(c) \/ Channel!Kill(c)
  /\ UNCHANGED <<store, handled, sure>>

(* webProcess up to its loop.  Requests are queued already.                 *)
Boot ==
  /\ pc[Daemon] = "down"
  /\ Store!Start \/ Store!SetNetParameters
  /\ UNCHANGED <<channel, handled, sure>>

Loop ==
  /\ stage = "idle"
  /\ Channel!DaemonStart \/ Channel!DaemonRecv
  /\ UNCHANGED <<store, handled, sure>>

(* The handler that the switch finds for the form of slot c begins.         *)
Begins(c) ==
  \/ /\ Ask[c].field = "net"
     /\ Store!doNetConfigSave
     /\ <<job'.net, job'.next>> = Ask[c].value
  \/ /\ Ask[c].field = "filter"
     /\ Store!doNetFilter
     /\ pa'.filter = Ask[c].value

Handle ==
  /\ pc[Daemon] = "busy"
  /\ buf[Daemon].type = "REQUEST"
  /\ ~handled
  /\ Begins(buf[Daemon].owner)
  /\ handled' = TRUE
  /\ sure' = {}
  /\ UNCHANGED channel

(* ... and goes on until it has a confirm message.                          *)
Work ==
  /\ pc[Daemon] = "busy"
  /\ Store!SetNetParameters \/ Store!paramSave
  /\ UNCHANGED <<channel, handled, sure>>

(* The confirm message, or what the other cases of the switch made, is sent. *)
Reply ==
  /\ stage = "idle"
  /\ buf[Daemon].type = "REQUEST" => handled
  /\ Channel!DaemonSend
  /\ handled' = FALSE
  /\ sure' = sure \cup {c \in alone' : /\ pc[c] = "receiving" /\ pc'[c] = "done"
                                       /\ handled /\ reply.status = "OK"}
  /\ UNCHANGED store

(* The daemon ends, at any step of its start, its loop or a handler.        *)
Exit ==
  /\ Store!Crash
  /\ IF pc[Daemon] = "down" THEN UNCHANGED channel ELSE Channel!DaemonExit
  /\ handled' = FALSE
  /\ UNCHANGED sure

Next ==
  \/ \E c \in Clients : Cgi(c)
  \/ Boot \/ Loop \/ Handle \/ Work \/ Reply \/ Exit

Spec == Init /\ [][Next]_vars

-------------------------------------------------------------------------------
(* The file has what slot c asks for.                                       *)
Holds(c) ==
  LET f == Ask[c].field
  IN  file.is = "whole" /\ file.doc[f] = Store!Encode([InitPa EXCEPT ![f] = Ask[c].value])[f]

(* A client that had the queue to itself, was blocked in msgRecv when the   *)
(* daemon answered, and reads CFGMGR_OK, can rely on it: what it asked for  *)
(* is in the file, until the daemon takes up another request, and also if   *)
(* the daemon ends in the meantime and starts again.  Only what the fclose  *)
(* of paramSave loses is confirmed without being there.                     *)
ConfirmedIsDurable == flushed => \A c \in sure : Holds(c)
===============================================================================
