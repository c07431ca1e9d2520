------------------------------- MODULE PingProofs -------------------------------
(***************************************************************************)
(* What pingTest keeps true of its sockets and of its table, for tables,    *)
(* sequence numbers and socket limits of every size.                        *)
(***************************************************************************)
EXTENDS Ping, TLAPS

(* Every socket that is open belongs to a test that failed or is under way. *)
SocketsCounted ==
  /\ pc \in {"idle", "wait"}
  /\ socks \in Nat /\ failed \in Nat
  /\ socks = IF pc = "wait" THEN failed + 1 ELSE failed
  /\ result = "nosocket" => failed >= MaxFds

(* A test lacks a socket only after MaxFds tests have failed: pingTest      *)
(* closes the socket of every test that succeeds.                           *)
THEOREM SocketLimit == Spec => []SocketsOnlyLeakByFailure
<1> USE PingAssumption
<1>1. Init => SocketsCounted
  BY DEF Init, SocketsCounted
<1>2. SocketsCounted /\ [Next]_vars => SocketsCounted'
  <2> SUFFICES ASSUME SocketsCounted, [Next]_vars PROVE SocketsCounted'
    OBVIOUS
  <2>1. CASE Begin
    BY <2>1 DEF Begin, SocketsCounted
  <2>2. CASE NoSocket
    BY <2>2 DEF NoSocket, SocketsCounted
  <2>3. CASE SendFails
    BY <2>3 DEF SendFails, SocketsCounted
  <2>4. ASSUME NEW p, Receive(p) PROVE SocketsCounted'
    <3>1. CASE Answered(pingpacket, p) = {}
      BY <2>4, <3>1 DEF Receive, Fail, SocketsCounted
    <3>2. CASE Answered(pingpacket, p) # {}
      BY <2>4, <3>2 DEF Receive, Succeed, SocketsCounted
    <3> QED BY <3>1, <3>2
  <2>5. CASE Timeout
    BY <2>5 DEF Timeout, Fail, SocketsCounted
  <2>6. CASE Lose
    BY <2>6 DEF Lose, SocketsCounted
  <2>7. CASE UNCHANGED vars
    BY <2>7 DEF vars, SocketsCounted
  <2> QED BY <2>1, <2>2, <2>3, <2>4, <2>5, <2>6, <2>7 DEF Next, ReceiveReply, ReceiveStray
<1>3. SocketsCounted => SocketsOnlyLeakByFailure
  BY DEF SocketsCounted, SocketsOnlyLeakByFailure
<1> QED BY <1>1, <1>2, <1>3, PTL DEF Spec

(* The table during a test: it holds the request of this test and cleared   *)
(* slots, whose number is 0.                                                *)
TableOK ==
  /\ packet_send \in Shorts
  /\ pingpacket \in [1..Slots -> [seq : Shorts, flag : {0, 1}]]
  /\ pc = "wait" => \A i \in 1..Slots : pingpacket[i].seq \in {LastSent, 0}
  /\ OkIsOwnOrZero

(* Counting packet_send up and back gives the number that was sent.         *)
LEMMA ShortInverse ==
  ASSUME NEW n \in Shorts
  PROVE  Short(n + 1) \in Shorts /\ Short(Short(n + 1) - 1) = n
BY PingAssumption DEF Short, Shorts

(* icmp_send enters the request's number into a cleared table.              *)
LEMMA EnterOne ==
  ASSUME packet_send \in Shorts, NEW t, t = Enter([i \in 1..Slots |-> Empty])
  PROVE  /\ t \in [1..Slots -> [seq : Shorts, flag : {0, 1}]]
         /\ \A i \in 1..Slots : t[i].seq \in {packet_send, 0}
<1> DEFINE e == [i \in 1..Slots |-> Empty]
<1>1. /\ Empty \in [seq : Shorts, flag : {0, 1}] /\ Empty.seq = 0
      /\ [seq |-> packet_send, flag |-> 1] \in [seq : Shorts, flag : {0, 1}]
  BY PingAssumption DEF Empty, Shorts
<1>2. t = e \/ t = [e EXCEPT ![First(FreeSlots(e))] = [seq |-> packet_send, flag |-> 1]]
  BY DEF Enter
<1> DEFINE r == [seq |-> packet_send, flag |-> 1]
           k == First(FreeSlots(e))
<1>3. e \in [1..Slots -> [seq : Shorts, flag : {0, 1}]]
  BY <1>1
<1>4. r.seq = packet_send
  OBVIOUS
<1>5. ASSUME NEW i \in 1..Slots PROVE e[i].seq = 0
  BY <1>1
<1> HIDE DEF e, r, k
<1>6. CASE t = e
  BY <1>3, <1>5, <1>6
<1>7. CASE t = [e EXCEPT ![k] = r]
  <2>1. t \in [1..Slots -> [seq : Shorts, flag : {0, 1}]]
    BY <1>1, <1>3, <1>7 DEF r
  <2>2. ASSUME NEW i \in 1..Slots PROVE t[i] = e[i] \/ t[i] = r
    BY <1>3, <1>7
  <2> QED BY <2>1, <2>2, <1>4, <1>5
<1> QED BY <1>2, <1>6, <1>7 DEF e, r, k

(* The table is right during a test, and the test's verdict follows it.     *)
LEMMA TableHolds == Spec => []TableOK
<1> USE PingAssumption
<1>1. Init => TableOK
  <2>1. Empty \in [seq : Shorts, flag : {0, 1}]
    BY DEF Empty, Shorts
  <2> QED BY <2>1 DEF Init, TableOK, OkIsOwnOrZero, Shorts
<1>2. TableOK /\ [Next]_vars => TableOK'
  <2> SUFFICES ASSUME TableOK, [Next]_vars PROVE TableOK'
    OBVIOUS
  <2>1. CASE Begin
    <3>1. /\ pingpacket' = Enter([i \in 1..Slots |-> Empty])
          /\ packet_send' = Short(packet_send + 1) /\ pc' = "wait"
      BY <2>1 DEF Begin
    <3>2. packet_send' \in Shorts /\ LastSent' = packet_send
      BY <3>1, ShortInverse DEF TableOK, LastSent
    <3> QED BY <3>1, <3>2, EnterOne DEF TableOK, OkIsOwnOrZero
  <2>2. CASE NoSocket
    <3>1. Empty \in [seq : Shorts, flag : {0, 1}]
      BY DEF Empty, Shorts
    <3> QED BY <2>2, <3>1 DEF NoSocket, TableOK, OkIsOwnOrZero
  <2>3. CASE SendFails
    BY <2>3, EnterOne DEF SendFails, TableOK, OkIsOwnOrZero
  <2>4. ASSUME NEW p, Receive(p) PROVE TableOK'
    <3>0. packet_send' = packet_send /\ LastSent' = LastSent /\ pc' = "idle" /\ got' = p
      BY <2>4 DEF Receive, LastSent
    <3>1. CASE Answered(pingpacket, p) = {}
      BY <2>4, <3>0, <3>1 DEF Receive, Fail, TableOK, OkIsOwnOrZero
    <3>2. CASE Answered(pingpacket, p) # {}
      <4>1. PICK i \in 1..Slots : pingpacket[i].seq = p.seq
        BY <3>2 DEF Answered, SlotsWith
      <4>2. p.seq \in {LastSent, 0}
        BY <4>1, <2>4 DEF Receive, TableOK
      <4>3. pingpacket' = [pingpacket EXCEPT ![First(Answered(pingpacket, p))].flag = 0]
        BY <2>4, <3>2 DEF Receive
      <4>4. pingpacket' \in [1..Slots -> [seq : Shorts, flag : {0, 1}]]
        BY <4>3 DEF TableOK
      <4> QED BY <3>0, <4>2, <4>4 DEF TableOK, OkIsOwnOrZero
    <3> QED BY <3>1, <3>2
  <2>5. CASE Timeout
    BY <2>5 DEF Timeout, Fail, TableOK, OkIsOwnOrZero, LastSent
  <2>6. CASE Lose
    BY <2>6 DEF Lose, TableOK, OkIsOwnOrZero, LastSent
  <2>7. CASE UNCHANGED vars
    BY <2>7 DEF vars, TableOK, OkIsOwnOrZero, LastSent
  <2> QED BY <2>1, <2>2, <2>3, <2>4, <2>5, <2>6, <2>7 DEF Next, ReceiveReply, ReceiveStray
<1> QED BY <1>1, <1>2, PTL DEF Spec

(* pingTest succeeds only on an answer with the number of its own request,  *)
(* or with the number 0 of the slots that memset has cleared.               *)
THEOREM OnlyOwnAnswer == Spec => []OkIsOwnOrZero
<1>1. TableOK => OkIsOwnOrZero
  BY DEF TableOK
<1> QED BY <1>1, TableHolds, PTL
-------------------------------------------------------------------------------
(* During a test the request is in the table under its number, and what is  *)
(* on its way as the answer to this test bears that number; answers to      *)
(* other tests are answers to earlier ones.                                 *)
AnswersOK ==
  /\ test \in Nat
  /\ \A p \in net : p.type = "ECHOREPLY" /\ p.id = "own" /\ p.test \in 1..test
  /\ pc = "wait" =>
       /\ got = NoPacket /\ test # 0
       /\ \E i \in 1..Slots : pingpacket[i].seq = LastSent
       /\ \A p \in net : p.test = test => p.seq = Unsigned(LastSent)
  /\ OwnAnswerCounts

(* icmp_findpacket finds a free slot in a cleared table.                    *)
LEMMA Entered ==
  ASSUME NEW t, t = Enter([i \in 1..Slots |-> Empty])
  PROVE  \E i \in 1..Slots : t[i].seq = packet_send
<1> DEFINE e == [i \in 1..Slots |-> Empty]
           k == First(FreeSlots(e))
           r == [seq |-> packet_send, flag |-> 1]
<1>1. FreeSlots(e) = 1..Slots /\ 1 \in 1..Slots
  BY PingAssumption DEF FreeSlots, Empty
<1>2. k \in 1..Slots
  <2>1. \E i \in 1..Slots : \A j \in 1..Slots : i <= j
    BY <1>1
  <2> QED BY <1>1, <2>1 DEF First
<1>3. t = [e EXCEPT ![k] = r]
  BY <1>1 DEF Enter
<1>4. t[k] = r
  BY <1>2, <1>3
<1> QED BY <1>2, <1>4

(* A test on whose own answer the first packet is succeeds, as long as the  *)
(* short that counts the requests is not negative: late answers to other    *)
(* tests and table entries do not get in its way.                           *)
THEOREM OwnAnswerDecides == Spec => []OwnAnswerCounts
<1> USE PingAssumption
<1>1. Init => AnswersOK
  BY DEF Init, AnswersOK, OwnAnswerCounts
<1>2. TableOK /\ AnswersOK /\ [Next]_vars => AnswersOK'
  <2> SUFFICES ASSUME TableOK, AnswersOK, [Next]_vars PROVE AnswersOK'
    OBVIOUS
  <2>1. CASE Begin
    <3>1. /\ pingpacket' = Enter([i \in 1..Slots |-> Empty])
          /\ packet_send' = Short(packet_send + 1) /\ pc' = "wait" /\ got' = NoPacket
          /\ test' = test + 1
          /\ net' \in {net, net \cup {Reply(test', Unsigned(packet_send))}}
      BY <2>1 DEF Begin
    <3>2. LastSent' = packet_send
      BY <3>1, ShortInverse DEF TableOK, LastSent
    <3>3. \E i \in 1..Slots : pingpacket'[i].seq = LastSent'
      BY <3>1, <3>2, Entered
    <3>4. test' \in Nat /\ test' # 0 /\ \A n \in 1..test : n \in 1..test' /\ n # test'
      BY <3>1 DEF AnswersOK
    <3>5. ASSUME NEW p \in net'
          PROVE  /\ p.type = "ECHOREPLY" /\ p.id = "own" /\ p.test \in 1..test'
                 /\ p.test = test' => p.seq = Unsigned(LastSent)'
      <4>1. CASE p \in net
        BY <3>4, <4>1 DEF AnswersOK
      <4>2. CASE p = Reply(test', Unsigned(packet_send))
        BY <3>2, <3>4, <4>2 DEF Reply, Unsigned
      <4> QED BY <3>1, <4>1, <4>2
    <3> QED BY <3>1, <3>3, <3>4, <3>5 DEF AnswersOK, OwnAnswerCounts
  <2>2. CASE NoSocket \/ SendFails
    <3>1. pc' = "idle" /\ net' = net /\ got' = NoPacket /\ test' = test + 1
      BY <2>2 DEF NoSocket, SendFails
    <3> QED BY <3>1 DEF AnswersOK, OwnAnswerCounts
  <2>3. ASSUME NEW p, p \in net \cup Stray, Receive(p), net' \subseteq net PROVE AnswersOK'
    <3>1. /\ pc = "wait" /\ pc' = "idle" /\ got' = p /\ test' = test
          /\ packet_send' = packet_send /\ LastSent' = LastSent
      BY <2>3 DEF Receive, LastSent
    <3>2. ASSUME p.test = test, LastSent >= 0 PROVE result' = "OK"
      <4>1. p \in net
        BY <2>3, <3>1, <3>2 DEF Stray, AnswersOK
      <4>2. p.type = "ECHOREPLY" /\ p.id = "own" /\ p.seq = LastSent
        BY <3>1, <3>2, <4>1 DEF AnswersOK, Unsigned, LastSent, Short, TableOK, Shorts
      <4>3. Answered(pingpacket, p) # {}
        BY <3>1, <4>2 DEF AnswersOK, Answered, SlotsWith
      <4> QED BY <2>3, <4>3 DEF Receive, Succeed
    <3> QED BY <2>3, <3>1, <3>2 DEF AnswersOK, OwnAnswerCounts
  <2>4. CASE Timeout
    BY <2>4 DEF Timeout, Fail, AnswersOK, OwnAnswerCounts
  <2>5. CASE Lose
    BY <2>5 DEF Lose, AnswersOK, OwnAnswerCounts, LastSent
  <2>6. CASE UNCHANGED vars
    BY <2>6 DEF vars, AnswersOK, OwnAnswerCounts, LastSent
  <2> QED BY <2>1, <2>2, <2>3, <2>4, <2>5, <2>6 DEF Next, ReceiveReply, ReceiveStray
<1>3. AnswersOK => OwnAnswerCounts
  BY DEF AnswersOK
<1> QED BY <1>1, <1>2, <1>3, TableHolds, PTL DEF Spec
===============================================================================
