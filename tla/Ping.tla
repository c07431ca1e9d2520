---------------------------------- MODULE Ping ----------------------------------
(***************************************************************************)
(* pingTest, by which a LAN test decides whether the destination answers:   *)
(* one echo request is sent, and the first ICMP packet that the raw socket  *)
(* gets within five seconds is taken for the answer or not.  Tests follow   *)
(* one another in the daemon, the sequence number runs on, and the network  *)
(* delays, loses and repeats: answers to earlier tests, and packets that    *)
(* are nobody's answer, can be the first to arrive.                         *)
(***************************************************************************)
EXTENDS Naturals, Integers

CONSTANTS
  Slots,      \* size of pingpacket[]: 128
  Half,       \* a short goes from -Half to Half - 1: 2^15
  MaxFds,     \* sockets the daemon can have open
  MaxTests    \* bound: number of tests

ASSUME PingAssumption ==
  /\ Slots \in Nat \ {0}
  /\ Half \in Nat \ {0}
  /\ MaxFds \in Nat
  /\ MaxTests \in Nat

VARIABLES
  pc,           \* "idle", or "wait" in icmp_recv
  packet_send,  \* the number the next request gets, a short
  pingpacket,   \* the table of the packets sent in this test
  socks,        \* sockets that are open: those of failed tests stay open
  result,       \* what the last pingTest returned
  net,          \* answers on their way, each of them to the request of some test
  test,         \* history: the number of the current or last test
  got,          \* history: the packet that decided the last test
  failed        \* history: tests that failed with their socket open

vars == <<pc, packet_send, pingpacket, socks, result, net, test, got, failed>>

Shorts == -Half..(Half - 1)

(* A short that is counted past its last value goes on with its first; in   *)
(* the packet the same bits are an unsigned number.                         *)
Short(n) == IF n >= Half THEN n - 2 * Half ELSE IF n < -Half THEN n + 2 * Half ELSE n
Unsigned(n) == IF n < 0 THEN n + 2 * Half ELSE n

Empty == [seq |-> 0, flag |-> 0]
Reply(n, seq) == [type |-> "ECHOREPLY", id |-> "own", seq |-> seq, test |-> n]

(* ICMP packets that are not answers to this daemon's requests.             *)
Stray == {[type |-> "OTHER", id |-> "own", seq |-> 0, test |-> 0],
          [type |-> "ECHOREPLY", id |-> "other", seq |-> 0, test |-> 0]}
NoPacket == [type |-> "none"]

Init ==
  /\ pc = "idle"
  /\ packet_send = 0
  /\ pingpacket = [i \in 1..Slots |-> Empty]
  /\ socks = 0
  /\ result = "none"
  /\ net = {}
  /\ test = 0
  /\ got = NoPacket
  /\ failed = 0

-------------------------------------------------------------------------------
(* icmp_findpacket: the first slot that is free, or that has this number.   *)
FreeSlots(table) == {i \in 1..Slots : table[i].flag = 0}
SlotsWith(table, seq) == {i \in 1..Slots : table[i].seq = seq}
First(S) == CHOOSE i \in S : \A j \in S : i <= j

(* Slip: the number is the one the next request gets.                       *)
EnterNext(table) ==
  IF FreeSlots(table) = {} THEN table
  ELSE [table EXCEPT ![First(FreeSlots(table))] =
          [seq |-> Short(packet_send + 1), flag |-> 1]]

(* icmp_send enters the request in the table, if there is room.             *)
Enter(table) ==
  IF FreeSlots(table) = {} THEN table
  ELSE [table EXCEPT ![First(FreeSlots(table))] = [seq |-> packet_send, flag |-> 1]]

(* icmp_unpack: the slot of the packet that p answers, if it answers one.   *)
Answered(table, p) ==
  IF p.type = "ECHOREPLY" /\ p.id = "own" THEN SlotsWith(table, p.seq) ELSE {}

-------------------------------------------------------------------------------
(* Slip: the table of the test before is not cleared.                       *)
BeginUncleared ==
  /\ pc = "idle"
  /\ test < MaxTests
  /\ socks < MaxFds
  /\ test' = test + 1
  /\ socks' = socks + 1
  /\ pingpacket' = Enter(pingpacket)
  /\ packet_send' = Short(packet_send + 1)
  /\ net' \in {net, net \cup {Reply(test', Unsigned(packet_send))}}
  /\ pc' = "wait"
  /\ got' = NoPacket
  /\ UNCHANGED <<result, failed>>

(* pingTest up to icmp_recv: the table is cleared, the request sent.  The   *)
(* destination answers it, if it is there.                                  *)
Begin ==
  /\ pc = "idle"
  /\ test < MaxTests
  /\ socks < MaxFds
  /\ test' = test + 1
  /\ socks' = socks + 1
  /\ pingpacket' = Enter([i \in 1..Slots |-> Empty])
  /\ packet_send' = Short(packet_send + 1)
  /\ net' \in {net, net \cup {Reply(test', Unsigned(packet_send))}}
  /\ pc' = "wait"
  /\ got' = NoPacket
  /\ UNCHANGED <<result, failed>>

(* No socket: all that can be open are.                                     *)
NoSocket ==
  /\ pc = "idle"
  /\ test < MaxTests
  /\ socks = MaxFds
  /\ test' = test + 1
  /\ pingpacket' = [i \in 1..Slots |-> Empty]
  /\ result' = "nosocket"
  /\ got' = NoPacket
  /\ UNCHANGED <<pc, packet_send, socks, net, failed>>

(* sendto fails: the number is not used up, the socket stays open.          *)
SendFails ==
  /\ pc = "idle"
  /\ test < MaxTests
  /\ socks < MaxFds
  /\ test' = test + 1
  /\ socks' = socks + 1
  /\ pingpacket' = Enter([i \in 1..Slots |-> Empty])
  /\ result' = "failed"
  /\ got' = NoPacket
  /\ failed' = failed + 1
  /\ UNCHANGED <<pc, packet_send, net>>

Fail ==
  /\ result' = "failed"
  /\ failed' = failed + 1
  /\ socks' = socks

(* Slip: the socket of a test that succeeds is not closed either.           *)
SucceedOpen ==
  /\ result' = "OK"
  /\ socks' = socks
  /\ UNCHANGED failed

(* Only a test that succeeds closes its socket.                             *)
Succeed ==
  /\ result' = "OK"
  /\ socks' = socks - 1
  /\ UNCHANGED failed

(* icmp_recv gets packet p, the first there is.                             *)
Receive(p) ==
  /\ pc = "wait"
  /\ LET found == Answered(pingpacket, p)
     IN IF found = {}
          THEN Fail /\ UNCHANGED pingpacket
          ELSE Succeed /\ pingpacket' = [pingpacket EXCEPT ![First(found)].flag = 0]
  /\ pc' = "idle"
  /\ got' = p
  /\ UNCHANGED <<packet_send, test>>

(* A packet that was received may come again.                               *)
ReceiveReply == \E p \in net : Receive(p) /\ net' \in {net, net \ {p}}
ReceiveStray == \E p \in Stray : Receive(p) /\ UNCHANGED net

(* select times out or fails; or errno is EINTR, from whatever call, and    *)
(* the packet that was received is not looked at.                           *)
Timeout ==
  /\ pc = "wait"
  /\ Fail
  /\ pc' = "idle"
  /\ UNCHANGED <<packet_send, pingpacket, net, test, got>>

(* A packet is lost, or arrives when nobody looks.                          *)
Lose ==
  /\ \E p \in net : net' = net \ {p}
  /\ UNCHANGED <<pc, packet_send, pingpacket, socks, result, test, got, failed>>

Next ==
  \/ Begin \/ NoSocket \/ SendFails
  \/ ReceiveReply \/ ReceiveStray \/ Timeout
  \/ Lose

Spec == Init /\ [][Next]_vars

-------------------------------------------------------------------------------
(* The number that the request of the test just ended had.                  *)
LastSent == Short(packet_send - 1)

(* A test succeeds only on an answer that bears its own request's number,   *)
(* or the number 0, which the cleared slots of the table have: no late      *)
(* answer to another of the earlier tests makes it succeed.                 *)
OkIsOwnOrZero ==
  pc = "idle" /\ result = "OK" => got.seq \in {LastSent, 0}

(* A test does succeed if the answer to its own request is what arrives     *)
(* first and the number is not one that a short shows as negative.          *)
OwnAnswerCounts ==
  pc = "idle" /\ got # NoPacket /\ got.test = test /\ LastSent >= 0 => result = "OK"

(* Tests that succeed cost nothing: a test lacks a socket only after as     *)
(* many tests have failed as the daemon can have sockets.                   *)
SocketsOnlyLeakByFailure == result = "nosocket" => failed >= MaxFds
===============================================================================
