--------------------------- MODULE CgiChannelProofs ---------------------------
(***************************************************************************)
(* Proofs about CgiChannel, for any number of clients, any queue capacity   *)
(* and any number of kills and daemon restarts; the last one is that the    *)
(* message queue implements the mailbox.                                    *)
(***************************************************************************)
EXTENDS CgiChannel, FiniteSetTheorems, SequenceTheorems, TLAPS

(* The part of the state that msgSend and msgRecv work on: its types and    *)
(* BlockedJustly.  It is inductive on its own.                              *)
ChannelOK ==
  /\ q \in Seq(Message) /\ Len(q) <= MaxMsg
  /\ rcvq \in Seq(Procs) /\ sndq \in Seq(Procs)
  /\ pc \in [Procs -> ClientStates \cup DaemonStates]
  /\ pc[Daemon] \in DaemonStates
  /\ \A c \in Clients : pc[c] \in ClientStates
  /\ buf \in [Procs -> Message \cup {NoMsg}]
  /\ \A p \in Procs :
       pc[p] \in {"opened", "sending", "busy", "done"} => buf[p] \in Message
  /\ BlockedJustly

(* The history variables.                                                   *)
HistoryOK == orphans \in Nat /\ lost \in Nat /\ alone \in SUBSET Clients

(* Why an exchange that nobody disturbs works: until the daemon answers, the *)
(* client's request is the only message in flight and the daemon has it.    *)
AloneOK ==
  \A c \in alone :
    \/ /\ Waiting = {c} /\ q = <<>>
       /\ pc[Daemon] = "busy"
       /\ buf[Daemon].owner = c /\ buf[Daemon].type \in Requests
    \/ /\ pc[c] = "done"
       /\ buf[c].owner = c /\ buf[c].type # "NOT_SUPPORT"

(* A client that is about to send has its own request in its buffer.        *)
OwnRequest ==
  \A c \in Clients :
    pc[c] = "opened" => buf[c].owner = c /\ buf[c].type \in Requests

-------------------------------------------------------------------------------
(* Joining the end of a wait queue.                                         *)
LEMMA AppendWaits ==
  ASSUME NEW S, NEW s \in Seq(S), IsInjective(s), NEW p \in S, ~Contains(s, p)
  PROVE  /\ Append(s, p) \in Seq(S)
         /\ IsInjective(Append(s, p))
         /\ Append(s, p) # <<>>
         /\ \A x : Contains(Append(s, p), x) <=> x = p \/ Contains(s, x)
BY DEF IsInjective, Contains

(* The process at the head of a wait queue is woken and leaves it.          *)
LEMMA TailWaits ==
  ASSUME NEW S, NEW s \in Seq(S), IsInjective(s), s # <<>>
  PROVE  /\ Tail(s) \in Seq(S)
         /\ IsInjective(Tail(s))
         /\ Head(s) \in S
         /\ Contains(s, Head(s))
         /\ \A x : Contains(Tail(s), x) <=> x # Head(s) /\ Contains(s, x)
<1>1. Len(s) \in Nat /\ Len(s) >= 1 /\ Head(s) = s[1] /\ Len(Tail(s)) = Len(s) - 1
  OBVIOUS
<1>2. \A i \in 1..(Len(s) - 1) : Tail(s)[i] = s[i + 1]
  OBVIOUS
<1>3. Tail(s) \in Seq(S) /\ DOMAIN Tail(s) = 1..(Len(s) - 1) /\ DOMAIN s = 1..Len(s)
  OBVIOUS
<1>4. IsInjective(Tail(s))
  BY <1>1, <1>2, <1>3 DEF IsInjective
<1>5. Head(s) \in S /\ Contains(s, Head(s))
  BY <1>1 DEF Contains
<1>6. ASSUME NEW x, Contains(Tail(s), x) PROVE x # Head(s) /\ Contains(s, x)
  BY <1>1, <1>2, <1>3, <1>6 DEF Contains, IsInjective
<1>7. ASSUME NEW x, x # Head(s), Contains(s, x) PROVE Contains(Tail(s), x)
  <2>1. PICK i \in 1..Len(s) : s[i] = x
    BY <1>7 DEF Contains
  <2>2. i - 1 \in 1..(Len(s) - 1) /\ Tail(s)[i - 1] = s[i]
    BY <2>1, <1>1, <1>2, <1>7
  <2> QED BY <2>1, <2>2, <1>1 DEF Contains
<1> QED BY <1>3, <1>4, <1>5, <1>6, <1>7

(* Leaving a wait queue from anywhere in it, as a killed process does.      *)
LEMMA LeaveWaits ==
  ASSUME NEW S, NEW s \in Seq(S), IsInjective(s), NEW p
  PROVE  /\ Leave(s, p) \in Seq(S)
         /\ IsInjective(Leave(s, p))
         /\ s = <<>> => Leave(s, p) = <<>>
         /\ \A x : Contains(Leave(s, p), x) <=> x # p /\ Contains(s, x)
<1>1. CASE ~Contains(s, p)
  BY <1>1 DEF Leave, Contains
<1>2. CASE Contains(s, p)
  <2> DEFINE k == CHOOSE i \in DOMAIN s : s[i] = p
             t == RemoveAt(s, k)
  <2>0. DOMAIN s = 1..Len(s) /\ Len(s) \in Nat
    OBVIOUS
  <2>1. k \in 1..Len(s) /\ s[k] = p
    BY <1>2, <2>0 DEF Contains
  <2>2. Leave(s, p) = t
    BY <1>2 DEF Leave
  <2> HIDE DEF k
  <2>3. /\ t \in Seq(S)
        /\ Len(t) = Len(s) - 1
        /\ \A i \in 1..Len(t) : t[i] = IF i < k THEN s[i] ELSE s[i + 1]
    <3> DEFINE a == SubSeq(s, 1, k - 1)
               b == SubSeq(s, k + 1, Len(s))
    <3>1. a \in Seq(S) /\ Len(a) = k - 1 /\ \A i \in 1..(k - 1) : a[i] = s[i]
      BY <2>0, <2>1
    <3>2. /\ b \in Seq(S) /\ Len(b) = Len(s) - k
          /\ \A i \in 1..(Len(s) - k) : b[i] = s[k + i]
      <4>1. /\ k + 1 \in Int /\ Len(s) \in Int
            /\ \A i \in (k + 1)..Len(s) : s[i] \in S
        BY <2>0, <2>1
      <4>2. /\ b \in Seq(S)
            /\ Len(b) = IF k + 1 <= Len(s) THEN Len(s) - (k + 1) + 1 ELSE 0
            /\ \A i \in 1..(Len(s) - (k + 1) + 1) : b[i] = s[(k + 1) + i - 1]
        BY <4>1, SubSeqProperties
      <4> HIDE DEF b
      <4>a. k \in Nat /\ Len(s) \in Nat /\ k <= Len(s)
        BY <2>0, <2>1
      <4>b. (IF k + 1 <= Len(s) THEN Len(s) - (k + 1) + 1 ELSE 0) = Len(s) - k
        BY <4>a
      <4>3. Len(b) = Len(s) - k
        BY <4>2, <4>b
      <4>4. ASSUME NEW i \in 1..(Len(s) - k) PROVE b[i] = s[k + i]
        <5>1. i \in 1..(Len(s) - (k + 1) + 1) /\ (k + 1) + i - 1 = k + i
          BY <2>0, <2>1
        <5> QED BY <5>1, <4>2
      <4> QED BY <4>2, <4>3, <4>4
    <3>3. t = a \o b
      BY DEF RemoveAt
    <3> HIDE DEF a, b, t
    <3>a. t \in Seq(S) /\ Len(t) = Len(a) + Len(b)
      BY <3>1, <3>2, <3>3
    <3>b. (k - 1) + (Len(s) - k) = Len(s) - 1
      BY <2>0, <2>1
    <3>4. t \in Seq(S) /\ Len(t) = Len(s) - 1
      BY <3>1, <3>2, <3>a, <3>b, Zenon
    <3>5. ASSUME NEW i \in 1..Len(t)
          PROVE  t[i] = IF i <= Len(a) THEN a[i] ELSE b[i - Len(a)]
      <4>1. a \in Seq(S) /\ b \in Seq(S) /\ i \in 1..(Len(a) + Len(b))
        BY <3>1, <3>2, <3>a
      <4>2. (a \o b)[i] = IF i <= Len(a) THEN a[i] ELSE b[i - Len(a)]
        BY <4>1
      <4> QED BY <3>3, <4>2
    <3>6. ASSUME NEW i \in 1..Len(t)
          PROVE  t[i] = IF i < k THEN s[i] ELSE s[i + 1]
      <4>1. CASE i < k
        <5>1. i \in 1..(k - 1)
          BY <4>1, <2>1
        <5>2. i <= Len(a)
          BY <5>1, <3>1, <2>1
        <5> QED BY <4>1, <5>1, <5>2, <3>1, <3>5
      <4>2. CASE i >= k
        <5>1. i - Len(a) \in 1..(Len(s) - k) /\ k + (i - Len(a)) = i + 1
          BY <4>2, <3>1, <3>4, <2>0, <2>1
        <5> QED BY <5>1, <4>2, <3>1, <3>2, <3>4, <3>5, <2>0, <2>1
      <4> QED BY <4>1, <4>2, <2>0, <2>1, <3>4
    <3> QED BY <3>4, <3>6
  <2> HIDE DEF t
  <2>4. DOMAIN t = 1..Len(t) /\ Len(t) \in Nat
    BY <2>3
  <2>5. IsInjective(t)
    <3>1. ASSUME NEW i \in 1..Len(t), NEW j \in 1..Len(t), t[i] = t[j] PROVE i = j
      <4> DEFINE m == IF i < k THEN i ELSE i + 1
                 n == IF j < k THEN j ELSE j + 1
      <4>1. m \in 1..Len(s) /\ n \in 1..Len(s)
        BY <2>0, <2>1, <2>3
      <4>2. s[m] = s[n]
        BY <2>3, <3>1
      <4>3. m = n
        BY <2>0, <4>1, <4>2 DEF IsInjective
      <4> QED BY <2>1, <4>3
    <3> QED BY <2>4, <3>1 DEF IsInjective
  <2>6. ASSUME NEW x, Contains(t, x) PROVE x # p /\ Contains(s, x)
    <3>1. PICK i \in 1..Len(t) : t[i] = x
      BY <2>6 DEF Contains
    <3>2. PICK j \in 1..Len(s) : j # k /\ s[j] = x
      BY <3>1, <2>0, <2>1, <2>3
    <3> QED BY <3>2, <2>0, <2>1 DEF Contains, IsInjective
  <2>7. ASSUME NEW x, x # p, Contains(s, x) PROVE Contains(t, x)
    <3>1. PICK j \in 1..Len(s) : s[j] = x
      BY <2>7 DEF Contains
    <3>2. CASE j < k
      BY <3>1, <3>2, <2>0, <2>1, <2>3 DEF Contains
    <3>3. CASE j > k
      <4>1. j - 1 \in 1..Len(t) /\ t[j - 1] = s[j]
        BY <3>3, <2>0, <2>1, <2>3
      <4> QED BY <4>1, <3>1 DEF Contains
    <3> QED BY <3>1, <3>2, <3>3, <2>0, <2>1, <2>7
  <2>8. s # <<>>
    BY <2>1
  <2> QED BY <2>2, <2>3, <2>5, <2>6, <2>7, <2>8
<1> QED BY <1>1, <1>2

-------------------------------------------------------------------------------
(* Whoever calls it, msgSend keeps the channel in order.                    *)
LEMMA SendKeepsChannel ==
  ASSUME ChannelOK, NEW p \in Procs, pc[p] \notin {"receiving", "sending"},
         NEW m \in Message, MsgSend(p, m)
  PROVE  ChannelOK'
<1> USE ChannelAssumption
<1>0. ~Contains(rcvq, p) /\ ~Contains(sndq, p)
  BY DEF ChannelOK, BlockedJustly
<1>1. CASE SendBlocks(p, m)
  <2>1. /\ sndq' \in Seq(Procs) /\ IsInjective(sndq') /\ sndq' # <<>>
        /\ \A x : Contains(sndq', x) <=> x = p \/ Contains(sndq, x)
    BY <1>0, <1>1, AppendWaits DEF ChannelOK, BlockedJustly, SendBlocks
  <2>2. pc' \in [Procs -> ClientStates \cup DaemonStates]
    BY <1>1 DEF ChannelOK, SendBlocks, ClientStates
  <2>3. pc'[Daemon] \in DaemonStates /\ \A c \in Clients : pc'[c] \in ClientStates
    BY <1>1 DEF ChannelOK, SendBlocks, ClientStates, DaemonStates, Procs
  <2>4. /\ buf' \in [Procs -> Message \cup {NoMsg}]
        /\ \A r \in Procs :
             pc'[r] \in {"opened", "sending", "busy", "done"} => buf'[r] \in Message
    BY <1>1 DEF ChannelOK, SendBlocks
  <2>5. BlockedJustly'
    BY <1>0, <1>1, <2>1 DEF ChannelOK, BlockedJustly, SendBlocks
  <2> QED BY <1>1, <2>1, <2>2, <2>3, <2>4, <2>5 DEF ChannelOK, SendBlocks
<1>2. CASE SendHandsOver(p, m)
  <2> DEFINE r == Head(rcvq)
  <2>1. /\ rcvq' \in Seq(Procs) /\ IsInjective(rcvq') /\ r \in Procs
        /\ Contains(rcvq, r)
        /\ \A x : Contains(rcvq', x) <=> x # r /\ Contains(rcvq, x)
    BY <1>2, TailWaits DEF ChannelOK, BlockedJustly, SendHandsOver
  <2>2. pc[r] = "receiving" /\ r # p /\ ~Contains(sndq, r)
    BY <2>1, <1>0 DEF ChannelOK, BlockedJustly
  <2> HIDE DEF r
  <2>3. /\ pc' = [pc EXCEPT ![p] = AfterSend(p), ![r] = AfterRecv(r)]
        /\ buf' = [buf EXCEPT ![p] = m, ![r] = m]
        /\ q' = q /\ sndq' = sndq
    BY <1>2 DEF SendHandsOver, r
  <2>4. pc' \in [Procs -> ClientStates \cup DaemonStates]
    BY <2>1, <2>3 DEF ChannelOK, AfterSend, AfterRecv, ClientStates, DaemonStates
  <2>5. pc'[Daemon] \in DaemonStates /\ \A c \in Clients : pc'[c] \in ClientStates
    BY <2>1, <2>2, <2>3
    DEF ChannelOK, AfterSend, AfterRecv, ClientStates, DaemonStates, Procs
  <2>6. /\ buf' \in [Procs -> Message \cup {NoMsg}]
        /\ \A x \in Procs :
             pc'[x] \in {"opened", "sending", "busy", "done"} => buf'[x] \in Message
    BY <2>1, <2>2, <2>3 DEF ChannelOK
  <2>7. q = <<>> /\ sndq = <<>>
    BY <1>2 DEF ChannelOK, BlockedJustly, SendHandsOver
  <2>8. /\ \A x \in Procs : pc'[x] = "receiving" <=> Contains(rcvq', x)
        /\ \A x \in Procs : pc'[x] = "sending" <=> Contains(sndq', x)
    BY <1>0, <2>1, <2>2, <2>3 DEF ChannelOK, BlockedJustly, AfterSend, AfterRecv
  <2>9. BlockedJustly'
    BY <2>1, <2>3, <2>7, <2>8 DEF ChannelOK, BlockedJustly
  <2> QED BY <2>1, <2>3, <2>4, <2>5, <2>6, <2>9 DEF ChannelOK
<1>3. CASE SendQueues(p, m)
  <2>1. q' \in Seq(Message) /\ Len(q') <= MaxMsg /\ Len(q) < MaxMsg
    BY <1>3 DEF ChannelOK, SendQueues
  <2>2. pc' \in [Procs -> ClientStates \cup DaemonStates]
    BY <1>3 DEF ChannelOK, SendQueues, AfterSend, ClientStates, DaemonStates
  <2>3. pc'[Daemon] \in DaemonStates /\ \A c \in Clients : pc'[c] \in ClientStates
    BY <1>3 DEF ChannelOK, SendQueues, AfterSend, ClientStates, DaemonStates, Procs
  <2>4. /\ buf' \in [Procs -> Message \cup {NoMsg}]
        /\ \A r \in Procs :
             pc'[r] \in {"opened", "sending", "busy", "done"} => buf'[r] \in Message
    BY <1>3 DEF ChannelOK, SendQueues
  <2>5. BlockedJustly'
    BY <1>0, <1>3, <2>1 DEF ChannelOK, BlockedJustly, SendQueues, AfterSend
  <2> QED BY <1>3, <2>1, <2>2, <2>3, <2>4, <2>5 DEF ChannelOK, SendQueues
<1> QED BY <1>1, <1>2, <1>3 DEF MsgSend

(* Whoever calls it, msgRecv keeps the channel in order.                    *)
LEMMA RecvKeepsChannel ==
  ASSUME ChannelOK, NEW p \in Procs, pc[p] \notin {"receiving", "sending"},
         MsgRecv(p)
  PROVE  ChannelOK'
<1> USE ChannelAssumption
<1>0. ~Contains(rcvq, p) /\ ~Contains(sndq, p)
  BY DEF ChannelOK, BlockedJustly
<1>1. CASE RecvBlocks(p)
  <2>1. /\ rcvq' \in Seq(Procs) /\ IsInjective(rcvq')
        /\ \A x : Contains(rcvq', x) <=> x = p \/ Contains(rcvq, x)
    BY <1>0, <1>1, AppendWaits DEF ChannelOK, BlockedJustly, RecvBlocks
  <2>2. pc' \in [Procs -> ClientStates \cup DaemonStates]
    BY <1>1 DEF ChannelOK, RecvBlocks, ClientStates
  <2>3. pc'[Daemon] \in DaemonStates /\ \A c \in Clients : pc'[c] \in ClientStates
    BY <1>1 DEF ChannelOK, RecvBlocks, ClientStates, DaemonStates, Procs
  <2>4. BlockedJustly'
    BY <1>0, <1>1, <2>1 DEF ChannelOK, BlockedJustly, RecvBlocks
  <2> QED BY <1>1, <2>1, <2>2, <2>3, <2>4 DEF ChannelOK, RecvBlocks
<1>2. CASE RecvTakes(p)
  <2>1. /\ q' \in Seq(Message) /\ Len(q') = Len(q) - 1 /\ Len(q) \in Nat
        /\ Head(q) \in Message /\ rcvq = <<>>
    BY <1>2 DEF ChannelOK, BlockedJustly, RecvTakes
  <2>2. pc' \in [Procs -> ClientStates \cup DaemonStates]
    BY <1>2 DEF ChannelOK, RecvTakes, AfterRecv, ClientStates, DaemonStates
  <2>3. pc'[Daemon] \in DaemonStates /\ \A c \in Clients : pc'[c] \in ClientStates
    BY <1>2 DEF ChannelOK, RecvTakes, AfterRecv, ClientStates, DaemonStates, Procs
  <2>4. /\ buf' \in [Procs -> Message \cup {NoMsg}]
        /\ \A r \in Procs :
             pc'[r] \in {"opened", "sending", "busy", "done"} => buf'[r] \in Message
    BY <1>2, <2>1 DEF ChannelOK, RecvTakes
  <2>5. BlockedJustly'
    BY <1>0, <1>2, <2>1 DEF ChannelOK, BlockedJustly, RecvTakes, AfterRecv
  <2> QED BY <1>2, <2>1, <2>2, <2>3, <2>4, <2>5 DEF ChannelOK, RecvTakes
<1>3. CASE RecvLetsIn(p)
  <2> DEFINE r == Head(sndq)
  <2>1. /\ sndq' \in Seq(Procs) /\ IsInjective(sndq') /\ r \in Procs
        /\ Contains(sndq, r)
        /\ \A x : Contains(sndq', x) <=> x # r /\ Contains(sndq, x)
    BY <1>3, TailWaits DEF ChannelOK, BlockedJustly, RecvLetsIn
  <2>2. pc[r] = "sending" /\ r # p /\ ~Contains(rcvq, r)
    BY <2>1, <1>0 DEF ChannelOK, BlockedJustly
  <2> HIDE DEF r
  <2>3. /\ pc' = [pc EXCEPT ![p] = AfterRecv(p), ![r] = AfterSend(r)]
        /\ buf' = [buf EXCEPT ![p] = Head(q)]
        /\ q' = Append(Tail(q), buf[r]) /\ rcvq' = rcvq
    BY <1>3 DEF RecvLetsIn, r
  <2>4. buf[r] \in Message /\ Head(q) \in Message /\ rcvq = <<>> /\ Len(q) = MaxMsg
    BY <1>3, <2>1, <2>2 DEF ChannelOK, BlockedJustly, RecvLetsIn
  <2>5. q' \in Seq(Message) /\ Len(q') = Len(q)
    BY <1>3, <2>3, <2>4 DEF ChannelOK, RecvLetsIn
  <2>6. pc' \in [Procs -> ClientStates \cup DaemonStates]
    BY <2>1, <2>3 DEF ChannelOK, AfterSend, AfterRecv, ClientStates, DaemonStates
  <2>7. pc'[Daemon] \in DaemonStates /\ \A c \in Clients : pc'[c] \in ClientStates
    BY <2>1, <2>2, <2>3
    DEF ChannelOK, AfterSend, AfterRecv, ClientStates, DaemonStates, Procs
  <2>8. /\ buf' \in [Procs -> Message \cup {NoMsg}]
        /\ \A x \in Procs :
             pc'[x] \in {"opened", "sending", "busy", "done"} => buf'[x] \in Message
    BY <2>1, <2>2, <2>3, <2>4 DEF ChannelOK, AfterSend
  <2>9. /\ \A x \in Procs : pc'[x] = "receiving" <=> Contains(rcvq', x)
        /\ \A x \in Procs : pc'[x] = "sending" <=> Contains(sndq', x)
    BY <1>0, <2>1, <2>2, <2>3 DEF ChannelOK, BlockedJustly, AfterSend, AfterRecv
  <2>10. BlockedJustly'
    BY <2>1, <2>3, <2>4, <2>5, <2>9 DEF ChannelOK, BlockedJustly
  <2> QED BY <2>1, <2>3, <2>4, <2>5, <2>6, <2>7, <2>8, <2>10 DEF ChannelOK
<1> QED BY <1>1, <1>2, <1>3 DEF MsgRecv

-------------------------------------------------------------------------------
(* An action that only takes one process from outside msgSend and msgRecv   *)
(* to elsewhere outside them, and leaves the queues alone.                  *)
LEMMA StepKeepsChannel ==
  ASSUME ChannelOK, NEW p \in Procs, pc[p] \notin {"receiving", "sending"},
         NEW st, st \notin {"receiving", "sending"},
         st \in IF p = Daemon THEN DaemonStates ELSE ClientStates,
         pc' = [pc EXCEPT ![p] = st],
         UNCHANGED <<q, rcvq, sndq>>,
         buf' \in [Procs -> Message \cup {NoMsg}],
         \A r \in Procs : r # p => buf'[r] = buf[r],
         st \in {"opened", "sending", "busy", "done"} => buf'[p] \in Message
  PROVE  ChannelOK'
<1>1. BlockedJustly'
  BY DEF ChannelOK, BlockedJustly
<1>2. pc' \in [Procs -> ClientStates \cup DaemonStates]
  BY DEF ChannelOK
<1>3. pc'[Daemon] \in DaemonStates /\ \A c \in Clients : pc'[c] \in ClientStates
  BY ChannelAssumption DEF ChannelOK, Procs
<1>4. \A r \in Procs :
        pc'[r] \in {"opened", "sending", "busy", "done"} => buf'[r] \in Message
  BY DEF ChannelOK
<1> QED BY <1>1, <1>2, <1>3, <1>4 DEF ChannelOK

(* A process that is killed leaves the wait queues.                         *)
LEMMA DeathKeepsChannel ==
  ASSUME ChannelOK, NEW p \in Procs,
         NEW st, st \in {"idle", "down"},
         st \in IF p = Daemon THEN DaemonStates ELSE ClientStates,
         pc' = [pc EXCEPT ![p] = st],
         rcvq' = Leave(rcvq, p), sndq' = Leave(sndq, p),
         UNCHANGED <<q, buf>>
  PROVE  ChannelOK'
<1>1. /\ rcvq' \in Seq(Procs) /\ IsInjective(rcvq') /\ (rcvq = <<>> => rcvq' = <<>>)
      /\ \A x : Contains(rcvq', x) <=> x # p /\ Contains(rcvq, x)
  BY LeaveWaits DEF ChannelOK, BlockedJustly
<1>2. /\ sndq' \in Seq(Procs) /\ IsInjective(sndq') /\ (sndq = <<>> => sndq' = <<>>)
      /\ \A x : Contains(sndq', x) <=> x # p /\ Contains(sndq, x)
  BY LeaveWaits DEF ChannelOK, BlockedJustly
<1>3. BlockedJustly'
  BY <1>1, <1>2 DEF ChannelOK, BlockedJustly
<1>4. pc' \in [Procs -> ClientStates \cup DaemonStates]
  BY DEF ChannelOK
<1>5. pc'[Daemon] \in DaemonStates /\ \A c \in Clients : pc'[c] \in ClientStates
  BY ChannelAssumption DEF ChannelOK, Procs
<1>6. \A r \in Procs :
        pc'[r] \in {"opened", "sending", "busy", "done"} => buf'[r] \in Message
  BY DEF ChannelOK
<1> QED BY <1>1, <1>2, <1>3, <1>4, <1>5, <1>6 DEF ChannelOK

(* Whatever webProcess answers is a message for the same client.            *)
LEMMA AnswersAreMessages ==
  ASSUME NEW m \in Message, NEW a \in Answers(m)
  PROVE  /\ a \in Message
         /\ a.owner = m.owner
         /\ m.type \in Requests => a.type # "NOT_SUPPORT"
BY DEF Answers, doFileLookUp, Message, MsgTypes, Requests

(* The channel is in order when msgOpen creates the queue.                  *)
LEMMA ChannelInit == Init => ChannelOK
<1> SUFFICES ASSUME Init PROVE ChannelOK
  OBVIOUS
<1> USE ChannelAssumption
<1>1. /\ q \in Seq(Message) /\ Len(q) = 0 /\ rcvq \in Seq(Procs) /\ sndq \in Seq(Procs)
      /\ DOMAIN rcvq = {} /\ DOMAIN sndq = {}
  BY DEF Init
<1>2. /\ pc \in [Procs -> ClientStates \cup DaemonStates]
      /\ pc[Daemon] \in DaemonStates
      /\ \A c \in Clients : pc[c] \in ClientStates
      /\ \A p \in Procs : pc[p] \in {"idle", "down"}
  BY DEF Init, Procs, ClientStates, DaemonStates
<1>3. BlockedJustly
  BY <1>1, <1>2 DEF Init, BlockedJustly, Contains, IsInjective
<1> QED BY <1>1, <1>2, <1>3 DEF Init, ChannelOK

(* Every step of cgiMain, of webProcess and of the faults keeps it so.      *)
LEMMA ChannelStep == ChannelOK /\ [Next]_vars => ChannelOK'
<1> SUFFICES ASSUME ChannelOK, [Next]_vars PROVE ChannelOK'
  OBVIOUS
<1> USE ChannelAssumption
<1>1. ASSUME NEW c \in Clients, CgiStart(c) PROVE ChannelOK'
  <2>1. PICK t \in Requests : buf' = [buf EXCEPT ![c] = [type |-> t, owner |-> c]]
    BY <1>1 DEF CgiStart
  <2>2. [type |-> t, owner |-> c] \in Message
    BY DEF Message, MsgTypes
  <2>3. c \in Procs /\ c # Daemon
    BY DEF Procs
  <2>4. /\ buf' \in [Procs -> Message \cup {NoMsg}] /\ buf'[c] \in Message
        /\ \A r \in Procs : r # c => buf'[r] = buf[r]
    BY <2>1, <2>2, <2>3 DEF ChannelOK
  <2> QED BY <1>1, <2>3, <2>4, StepKeepsChannel DEF CgiStart, ClientStates
<1>2. ASSUME NEW c \in Clients, CgiSend(c) PROVE ChannelOK'
  <2>1. c \in Procs /\ buf[c] \in Message /\ pc[c] = "opened"
    BY <1>2 DEF CgiSend, ChannelOK, Procs
  <2> QED BY <1>2, <2>1, SendKeepsChannel DEF CgiSend
<1>3. ASSUME NEW c \in Clients, CgiRecv(c) PROVE ChannelOK'
  BY <1>3, RecvKeepsChannel DEF CgiRecv, Procs
<1>4. ASSUME NEW c \in Clients, Kill(c) PROVE ChannelOK'
  BY <1>4, DeathKeepsChannel DEF Kill, Procs, ClientStates
<1>5. CASE DaemonStart
  BY <1>5, StepKeepsChannel DEF DaemonStart, Procs, DaemonStates, ChannelOK
<1>6. CASE DaemonRecv
  BY <1>6, RecvKeepsChannel DEF DaemonRecv, Procs
<1>7. CASE DaemonSend
  <2>1. PICK m \in Answers(buf[Daemon]) : MsgSend(Daemon, m)
    BY <1>7 DEF DaemonSend
  <2>2. Daemon \in Procs /\ pc[Daemon] = "busy" /\ buf[Daemon] \in Message
    BY <1>7 DEF DaemonSend, Procs, ChannelOK
  <2>3. m \in Message
    BY <2>2, AnswersAreMessages
  <2> QED BY <2>1, <2>2, <2>3, SendKeepsChannel
<1>8. CASE DaemonExit
  BY <1>8, DeathKeepsChannel DEF DaemonExit, Procs, DaemonStates
<1>9. CASE UNCHANGED vars
  BY <1>9 DEF vars, ChannelOK, BlockedJustly
<1> QED BY <1>1, <1>2, <1>3, <1>4, <1>5, <1>6, <1>7, <1>8, <1>9 DEF Next

(* The counters of orphaned and lost messages, and the set of undisturbed   *)
(* clients, keep their types.                                               *)
LEMMA HistoryStep == ChannelOK /\ HistoryOK /\ [Next]_vars => HistoryOK'
<1> SUFFICES ASSUME ChannelOK, HistoryOK, [Next]_vars PROVE HistoryOK'
  OBVIOUS
<1>1. ASSUME NEW c \in Clients, CgiStart(c) \/ CgiSend(c) \/ CgiRecv(c) \/ Kill(c)
      PROVE  HistoryOK'
  BY <1>1 DEF HistoryOK, CgiStart, CgiSend, AloneAtSend, CgiRecv, Kill
<1>2. CASE DaemonStart \/ DaemonRecv \/ DaemonSend
  BY <1>2 DEF HistoryOK, DaemonStart, DaemonRecv, DaemonSend
<1>3. CASE DaemonExit
  BY <1>3 DEF HistoryOK, DaemonExit, Held
<1>4. CASE UNCHANGED vars
  BY <1>4 DEF vars, HistoryOK
<1> QED BY <1>1, <1>2, <1>3, <1>4 DEF Next

(* The types of CgiChannel, and that processes block only for cause, hold   *)
(* in every reachable state.                                                *)
THEOREM ChannelSafe == Spec => [](TypeOK /\ BlockedJustly)
<1>1. Init => ChannelOK /\ HistoryOK
  BY ChannelInit DEF Init, HistoryOK
<1>2. ChannelOK /\ HistoryOK /\ [Next]_vars => ChannelOK' /\ HistoryOK'
  BY ChannelStep, HistoryStep
<1>3. ChannelOK /\ HistoryOK => TypeOK /\ BlockedJustly
  BY DEF ChannelOK, HistoryOK, TypeOK
<1> QED BY <1>1, <1>2, <1>3, PTL DEF Spec

-------------------------------------------------------------------------------
(* Counting the clients that expect a message.                              *)
LEMMA WaitingFinite == IsFiniteSet(Waiting) /\ Cardinality(Waiting) \in Nat
BY ChannelAssumption, FS_Subset, FS_CardinalityType DEF Waiting

(* One more client expects a message.                                       *)
LEMMA OneMore ==
  ASSUME NEW S, IsFiniteSet(S), NEW c, c \notin S
  PROVE  Cardinality(S \cup {c}) = Cardinality(S) + 1
BY FS_AddElement

(* One client less expects a message.                                       *)
LEMMA OneLess ==
  ASSUME NEW S, IsFiniteSet(S), NEW c \in S
  PROVE  /\ IsFiniteSet(S \ {c}) /\ Cardinality(S \ {c}) \in Nat
         /\ Cardinality(S \ {c}) = Cardinality(S) - 1
BY FS_RemoveElement, FS_CardinalityType

(* One client stops to expect a message and another begins to.              *)
LEMMA Swapped ==
  ASSUME NEW S, IsFiniteSet(S), Cardinality(S) \in Nat, NEW c \in S,
         NEW d, d \notin S \ {c}
  PROVE  Cardinality((S \ {c}) \cup {d}) = Cardinality(S)
<1>1. /\ IsFiniteSet(S \ {c}) /\ Cardinality(S \ {c}) \in Nat
      /\ Cardinality(S \ {c}) = Cardinality(S) - 1
  BY OneLess
<1>2. Cardinality((S \ {c}) \cup {d}) = Cardinality(S \ {c}) + 1
  BY <1>1, OneMore
<1> QED BY <1>1, <1>2

(* The messages in flight, counted on each side.                            *)
LEMMA SendConserves ==
  ASSUME ChannelOK, HistoryOK, Conservation, NEW c \in Clients, CgiSend(c)
  PROVE  Conservation'
<1> USE ChannelAssumption
<1>0. /\ c \in Procs /\ c # Daemon /\ pc[c] = "opened" /\ c \notin Waiting
      /\ orphans' = orphans /\ lost' = lost /\ orphans \in Nat /\ lost \in Nat
      /\ Len(q) \in Nat /\ pc \in [Procs -> ClientStates \cup DaemonStates]
  BY DEF CgiSend, Waiting, Procs, ChannelOK, HistoryOK
<1>a. IsFiniteSet(Waiting) /\ Cardinality(Waiting) \in Nat
  BY WaitingFinite
<1>1. CASE SendBlocks(c, buf[c])
  <2>1. Waiting' = Waiting /\ Held' = Held /\ q' = q
    BY <1>0, <1>1 DEF SendBlocks, Waiting, Held, Procs
  <2> QED BY <1>0, <2>1 DEF Conservation
<1>2. CASE SendQueues(c, buf[c])
  <2>1. Waiting' = Waiting \cup {c} /\ Held' = Held /\ Len(q') = Len(q) + 1
    BY <1>0, <1>2 DEF SendQueues, Waiting, Held, AfterSend, Procs, ChannelOK
  <2>2. Cardinality(Waiting') = Cardinality(Waiting) + 1
    BY <1>0, <1>a, <2>1, OneMore
  <2> QED BY <1>0, <1>a, <2>1, <2>2 DEF Conservation, Held
<1>3. CASE SendHandsOver(c, buf[c])
  <2> DEFINE r == Head(rcvq)
  <2>1. r \in Procs /\ pc[r] = "receiving" /\ r # c
    BY <1>0, <1>3, TailWaits DEF ChannelOK, BlockedJustly, SendHandsOver
  <2>2. pc' = [pc EXCEPT ![c] = "sent", ![r] = AfterRecv(r)] /\ q' = q
    BY <1>0, <1>3 DEF SendHandsOver, AfterSend
  <2> HIDE DEF r
  <2>3. CASE r = Daemon
    <3>1. Waiting' = Waiting \cup {c} /\ Held = 0 /\ Held' = 1
      BY <1>0, <2>1, <2>2, <2>3 DEF Waiting, Held, AfterRecv, Procs
    <3>2. Cardinality(Waiting') = Cardinality(Waiting) + 1
      BY <1>0, <1>a, <3>1, OneMore
    <3> QED BY <1>0, <1>a, <2>2, <3>1, <3>2 DEF Conservation
  <2>4. CASE r # Daemon
    <3>1. /\ Waiting' = (Waiting \ {r}) \cup {c} /\ r \in Waiting
          /\ c \notin Waiting \ {r} /\ Held' = Held
      BY <1>0, <2>1, <2>2, <2>4 DEF Waiting, Held, AfterRecv, Procs
    <3>2. Cardinality(Waiting') = Cardinality(Waiting)
      BY <1>a, <3>1, Swapped
    <3> QED BY <1>0, <1>a, <2>2, <3>1, <3>2 DEF Conservation
  <2> QED BY <2>3, <2>4
<1> QED BY <1>1, <1>2, <1>3 DEF CgiSend, MsgSend

(* A CGI process that receives takes one message and expects one less.      *)
LEMMA RecvConserves ==
  ASSUME ChannelOK, HistoryOK, Conservation, NEW c \in Clients, CgiRecv(c)
  PROVE  Conservation'
<1> USE ChannelAssumption
<1>0. /\ c \in Procs /\ c # Daemon /\ pc[c] = "sent" /\ c \in Waiting
      /\ orphans' = orphans /\ lost' = lost /\ orphans \in Nat /\ lost \in Nat
      /\ Len(q) \in Nat /\ pc \in [Procs -> ClientStates \cup DaemonStates]
  BY DEF CgiRecv, Waiting, Procs, ChannelOK, HistoryOK
<1>a. IsFiniteSet(Waiting) /\ Cardinality(Waiting) \in Nat
  BY WaitingFinite
<1>1. CASE RecvBlocks(c)
  <2>1. Waiting' = Waiting /\ Held' = Held /\ q' = q
    BY <1>0, <1>1 DEF RecvBlocks, Waiting, Held, Procs
  <2> QED BY <1>0, <2>1 DEF Conservation
<1>2. CASE RecvTakes(c)
  <2>1. Waiting' = Waiting \ {c} /\ Held' = Held /\ Len(q') = Len(q) - 1
    BY <1>0, <1>2 DEF RecvTakes, Waiting, Held, AfterRecv, Procs, ChannelOK
  <2>2. Cardinality(Waiting') = Cardinality(Waiting) - 1
    BY <1>0, <1>a, <2>1, OneLess
  <2> QED BY <1>0, <1>a, <2>1, <2>2 DEF Conservation, Held
<1>3. CASE RecvLetsIn(c)
  <2> DEFINE r == Head(sndq)
  <2>1. r \in Procs /\ pc[r] = "sending" /\ r # c
    BY <1>0, <1>3, TailWaits DEF ChannelOK, BlockedJustly, RecvLetsIn
  <2>2. pc' = [pc EXCEPT ![c] = "done", ![r] = AfterSend(r)] /\ Len(q') = Len(q)
    <3>1. buf[r] \in Message /\ q \in Seq(Message) /\ q # <<>>
      BY <1>3, <2>1 DEF ChannelOK, RecvLetsIn
    <3>2. q' = Append(Tail(q), buf[r])
      BY <1>3 DEF RecvLetsIn
    <3>3. Len(q') = Len(q)
      BY <3>1, <3>2
    <3> QED BY <1>0, <1>3, <3>3 DEF RecvLetsIn, AfterRecv
  <2> HIDE DEF r
  <2>3. CASE r = Daemon
    <3>1. Waiting' = Waiting \ {c} /\ Held = 1 /\ Held' = 0
      BY <1>0, <2>1, <2>2, <2>3 DEF Waiting, Held, AfterSend, Procs
    <3>2. Cardinality(Waiting') = Cardinality(Waiting) - 1
      BY <1>0, <1>a, <3>1, OneLess
    <3> QED BY <1>0, <1>a, <2>2, <3>1, <3>2 DEF Conservation
  <2>4. CASE r # Daemon
    <3>1. /\ Waiting' = (Waiting \ {c}) \cup {r} /\ r \notin Waiting \ {c}
          /\ Held' = Held
      BY <1>0, <2>1, <2>2, <2>4 DEF Waiting, Held, AfterSend, Procs
    <3>2. Cardinality(Waiting') = Cardinality(Waiting)
      BY <1>0, <1>a, <3>1, Swapped
    <3> QED BY <1>0, <1>a, <2>2, <3>1, <3>2 DEF Conservation
  <2> QED BY <2>3, <2>4
<1> QED BY <1>1, <1>2, <1>3 DEF CgiRecv, MsgRecv

(* The daemon that receives holds the message it takes.                     *)
LEMMA DaemonRecvConserves ==
  ASSUME ChannelOK, HistoryOK, Conservation, DaemonRecv
  PROVE  Conservation'
<1> USE ChannelAssumption
<1>0. /\ Daemon \in Procs /\ Daemon \notin Clients /\ pc[Daemon] = "loop" /\ Held = 0
      /\ orphans' = orphans /\ lost' = lost /\ orphans \in Nat /\ lost \in Nat
      /\ Len(q) \in Nat /\ pc \in [Procs -> ClientStates \cup DaemonStates]
  BY DEF DaemonRecv, Held, Procs, ChannelOK, HistoryOK
<1>a. IsFiniteSet(Waiting) /\ Cardinality(Waiting) \in Nat
  BY WaitingFinite
<1>1. CASE RecvBlocks(Daemon)
  <2>1. Waiting' = Waiting /\ Held' = Held /\ q' = q
    BY <1>0, <1>1 DEF RecvBlocks, Waiting, Held, Procs
  <2> QED BY <1>0, <2>1 DEF Conservation
<1>2. CASE RecvTakes(Daemon)
  <2>1. Waiting' = Waiting /\ Held' = 1 /\ Len(q') = Len(q) - 1
    BY <1>0, <1>2 DEF RecvTakes, Waiting, Held, AfterRecv, Procs, ChannelOK
  <2> QED BY <1>0, <1>a, <2>1 DEF Conservation
<1>3. CASE RecvLetsIn(Daemon)
  <2> DEFINE r == Head(sndq)
  <2>1. r \in Procs /\ pc[r] = "sending" /\ r # Daemon
    BY <1>0, <1>3, TailWaits DEF ChannelOK, BlockedJustly, RecvLetsIn
  <2>2. pc' = [pc EXCEPT ![Daemon] = "busy", ![r] = "sent"] /\ Len(q') = Len(q)
    <3>1. buf[r] \in Message /\ q \in Seq(Message) /\ q # <<>>
      BY <1>3, <2>1 DEF ChannelOK, RecvLetsIn
    <3>2. q' = Append(Tail(q), buf[r])
      BY <1>3 DEF RecvLetsIn
    <3>3. Len(q') = Len(q)
      BY <3>1, <3>2
    <3> QED BY <1>3, <2>1, <3>3 DEF RecvLetsIn, AfterRecv, AfterSend
  <2> HIDE DEF r
  <2>3. Waiting' = Waiting \cup {r} /\ r \notin Waiting /\ Held' = 1
    BY <1>0, <2>1, <2>2 DEF Waiting, Held, Procs
  <2>4. Cardinality(Waiting') = Cardinality(Waiting) + 1
    BY <1>a, <2>3, OneMore
  <2> QED BY <1>0, <1>a, <2>2, <2>3, <2>4 DEF Conservation
<1> QED BY <1>1, <1>2, <1>3 DEF DaemonRecv, MsgRecv

(* The daemon's answer replaces the message it held.                        *)
LEMMA DaemonSendConserves ==
  ASSUME ChannelOK, HistoryOK, Conservation, DaemonSend
  PROVE  Conservation'
<1> USE ChannelAssumption
<1>0. /\ Daemon \in Procs /\ Daemon \notin Clients /\ pc[Daemon] = "busy" /\ Held = 1
      /\ orphans' = orphans /\ lost' = lost /\ orphans \in Nat /\ lost \in Nat
      /\ Len(q) \in Nat /\ pc \in [Procs -> ClientStates \cup DaemonStates]
  BY DEF DaemonSend, Held, Procs, ChannelOK, HistoryOK
<1>a. IsFiniteSet(Waiting) /\ Cardinality(Waiting) \in Nat
  BY WaitingFinite
<1>b. PICK m \in Answers(buf[Daemon]) : MsgSend(Daemon, m)
  BY DEF DaemonSend
<1>1. CASE SendBlocks(Daemon, m)
  <2>1. Waiting' = Waiting /\ Held' = 1 /\ q' = q
    BY <1>0, <1>1 DEF SendBlocks, Waiting, Held, Procs
  <2> QED BY <1>0, <2>1 DEF Conservation
<1>2. CASE SendQueues(Daemon, m)
  <2>1. Waiting' = Waiting /\ Held' = 0 /\ Len(q') = Len(q) + 1
    BY <1>0, <1>2 DEF SendQueues, Waiting, Held, AfterSend, Procs, ChannelOK
  <2> QED BY <1>0, <1>a, <2>1 DEF Conservation
<1>3. CASE SendHandsOver(Daemon, m)
  <2> DEFINE r == Head(rcvq)
  <2>1. r \in Procs /\ pc[r] = "receiving" /\ r # Daemon
    BY <1>0, <1>3, TailWaits DEF ChannelOK, BlockedJustly, SendHandsOver
  <2>2. pc' = [pc EXCEPT ![Daemon] = "loop", ![r] = "done"] /\ q' = q
    BY <1>3, <2>1 DEF SendHandsOver, AfterSend, AfterRecv
  <2> HIDE DEF r
  <2>3. Waiting' = Waiting \ {r} /\ r \in Waiting /\ Held' = 0
    BY <1>0, <2>1, <2>2 DEF Waiting, Held, Procs
  <2>4. Cardinality(Waiting') = Cardinality(Waiting) - 1
    BY <1>a, <2>3, OneLess
  <2> QED BY <1>0, <1>a, <2>2, <2>3, <2>4 DEF Conservation
<1> QED BY <1>b, <1>1, <1>2, <1>3 DEF MsgSend

(* A client that is killed while it expects a message orphans one.          *)
LEMMA KillConserves ==
  ASSUME ChannelOK, HistoryOK, Conservation, NEW c \in Clients, Kill(c)
  PROVE  Conservation'
<1> USE ChannelAssumption
<1>0. /\ c \in Procs /\ c # Daemon /\ q' = q /\ lost' = lost
      /\ pc' = [pc EXCEPT ![c] = "idle"]
      /\ orphans \in Nat /\ lost \in Nat /\ Len(q) \in Nat
      /\ pc \in [Procs -> ClientStates \cup DaemonStates]
  BY DEF Kill, Procs, ChannelOK, HistoryOK
<1>1. Waiting' = Waiting \ {c} /\ Held' = Held
  BY <1>0 DEF Waiting, Held, Procs
<1>2. IsFiniteSet(Waiting) /\ Cardinality(Waiting) \in Nat
  BY WaitingFinite
<1>3. CASE c \in Waiting
  <2>1. Cardinality(Waiting') = Cardinality(Waiting) - 1
    BY <1>1, <1>2, <1>3, OneLess
  <2> QED BY <1>0, <1>1, <1>2, <1>3, <2>1 DEF Conservation, Kill, Held
<1>4. CASE c \notin Waiting
  <2>1. Waiting' = Waiting
    BY <1>1, <1>4
  <2> QED BY <1>0, <1>1, <1>4, <2>1 DEF Conservation, Kill
<1> QED BY <1>3, <1>4

(* Every step keeps the two counts of messages equal.                       *)
LEMMA ConservationStep ==
  ChannelOK /\ HistoryOK /\ Conservation /\ [Next]_vars => Conservation'
<1> SUFFICES ASSUME ChannelOK, HistoryOK, Conservation, [Next]_vars PROVE Conservation'
  OBVIOUS
<1> USE ChannelAssumption
<1>0. pc \in [Procs -> ClientStates \cup DaemonStates] /\ Len(q) \in Nat
  BY DEF ChannelOK
<1>1. ASSUME NEW c \in Clients, CgiStart(c) PROVE Conservation'
  <2>1. Waiting' = Waiting /\ Held' = Held
    BY <1>0, <1>1 DEF CgiStart, Waiting, Held, Procs
  <2> QED BY <1>1, <2>1 DEF Conservation, CgiStart
<1>2. CASE DaemonStart
  <2>1. Waiting' = Waiting /\ Held' = Held
    BY <1>0, <1>2 DEF DaemonStart, Waiting, Held, Procs
  <2> QED BY <1>2, <2>1 DEF Conservation, DaemonStart
<1>3. CASE DaemonExit
  <2>1. Waiting' = Waiting /\ Held' = 0 /\ lost' = lost + Held
    BY <1>0, <1>3 DEF DaemonExit, Waiting, Held, Procs
  <2>2. q' = q /\ orphans' = orphans /\ lost \in Nat /\ Held \in Nat
    BY <1>3 DEF DaemonExit, HistoryOK, Held
  <2>3. Len(q') + 0 + (lost + Held) = Len(q) + Held + lost
    BY <1>0, <2>2
  <2> QED BY <2>1, <2>2, <2>3 DEF Conservation
<1>4. CASE UNCHANGED vars
  BY <1>4 DEF vars, Conservation, Waiting, Held
<1> QED BY <1>1, <1>2, <1>3, <1>4, SendConserves, RecvConserves, KillConserves,
           DaemonRecvConserves, DaemonSendConserves DEF Next

(* Along every behaviour there is a message in flight for each client that  *)
(* expects one or was killed expecting one, but for those lost with the     *)
(* daemon.                                                                  *)
THEOREM MessagesConserved == Spec => []Conservation
<1>1. Init => ChannelOK /\ HistoryOK
  BY ChannelInit DEF Init, HistoryOK
<1>2. Init => Conservation
  <2> SUFFICES ASSUME Init PROVE Conservation
    OBVIOUS
  <2>1. Waiting = {} /\ Held = 0 /\ Len(q) = 0
    BY ChannelAssumption DEF Init, Waiting, Held, Procs
  <2> QED BY <2>1, FS_EmptySet DEF Init, Conservation
<1>3. ChannelOK /\ HistoryOK /\ Conservation /\ [Next]_vars
        => ChannelOK' /\ HistoryOK' /\ Conservation'
  BY ChannelStep, HistoryStep, ConservationStep
<1> QED BY <1>1, <1>2, <1>3, PTL DEF Spec

(* What conservation says when a client is blocked in msgRecv: the queue is *)
(* empty, so the only message in flight is the one the daemon holds.        *)
LEMMA BlockedClient ==
  ASSUME ChannelOK, HistoryOK, Conservation, lost = 0,
         NEW c \in Clients, pc[c] = "receiving"
  PROVE  pc[Daemon] \in {"busy", "sending"} /\ Waiting = {c}
<1>1. q = <<>>
  <2>1. Contains(rcvq, c)
    BY DEF ChannelOK, BlockedJustly, Procs
  <2>2. rcvq # <<>>
    BY <2>1 DEF Contains
  <2> QED BY <2>2 DEF ChannelOK, BlockedJustly
<1>2. IsFiniteSet(Waiting) /\ Cardinality(Waiting) \in Nat /\ c \in Waiting
  BY WaitingFinite DEF Waiting
<1>3. /\ IsFiniteSet(Waiting \ {c}) /\ Cardinality(Waiting \ {c}) \in Nat
      /\ Cardinality(Waiting \ {c}) = Cardinality(Waiting) - 1
  BY <1>2, OneLess
<1>4. Held = 1 /\ Cardinality(Waiting \ {c}) = 0
  BY <1>1, <1>2, <1>3 DEF Conservation, Held, HistoryOK
<1>5. Waiting \ {c} = {}
  BY <1>3, <1>4, FS_EmptySet
<1> QED BY <1>2, <1>4, <1>5 DEF Held

(* The daemon and a client never wait for each other, and no two clients    *)
(* are blocked in msgRecv, as long as no message was lost with the daemon.  *)
THEOREM NobodyStuckReceiving == Spec => [](NoMutualWait /\ OneBlockedClient)
<1>1. Spec => [](TypeOK /\ BlockedJustly) /\ []Conservation
  BY ChannelSafe, MessagesConserved
<1>2. TypeOK /\ BlockedJustly /\ Conservation => NoMutualWait /\ OneBlockedClient
  <2> SUFFICES ASSUME TypeOK, BlockedJustly, Conservation
               PROVE  NoMutualWait /\ OneBlockedClient
    OBVIOUS
  <2>1. ChannelOK /\ HistoryOK
    BY DEF TypeOK, ChannelOK, HistoryOK
  <2>2. NoMutualWait
    BY <2>1, BlockedClient DEF NoMutualWait
  <2>3. ASSUME lost = 0, NEW c \in Clients, NEW d \in Clients,
               pc[c] = "receiving", pc[d] = "receiving"
        PROVE  c = d
    BY <2>1, <2>3, BlockedClient
  <2> QED BY <2>2, <2>3 DEF OneBlockedClient
<1> QED BY <1>1, <1>2, PTL

(* The daemon is not stuck in msgSend for good until more messages have     *)
(* been orphaned than the queue can hold.                                   *)
THEOREM DaemonNotWedged == Spec => []NoSendWedge
<1>1. Spec => [](TypeOK /\ BlockedJustly) /\ []Conservation
  BY ChannelSafe, MessagesConserved
<1>2. TypeOK /\ BlockedJustly /\ Conservation => NoSendWedge
  <2> SUFFICES ASSUME TypeOK, BlockedJustly, Conservation,
                      pc[Daemon] = "sending", orphans <= MaxMsg
               PROVE  \E c \in Clients : pc[c] = "sent"
    BY DEF NoSendWedge
  <2>1. Contains(sndq, Daemon)
    BY DEF BlockedJustly, Procs
  <2>2. sndq # <<>>
    BY <2>1 DEF Contains, TypeOK
  <2>3. Len(q) = MaxMsg /\ MaxMsg \in Nat \ {0} /\ q # <<>>
    BY <2>2, ChannelAssumption DEF BlockedJustly, TypeOK
  <2>4. rcvq = <<>>
    BY <2>3 DEF BlockedJustly
  <2>5. Held = 1 /\ orphans \in Nat /\ lost \in Nat
    BY DEF Held, TypeOK
  <2>6. Cardinality(Waiting) \in Nat /\ Cardinality(Waiting) > 0
    BY <2>3, <2>5, WaitingFinite DEF Conservation
  <2>7. PICK c \in Waiting : TRUE
    BY <2>6, FS_EmptySet
  <2>8. pc[c] # "receiving"
    <3>1. ~Contains(rcvq, c)
      BY <2>4 DEF Contains
    <3> QED BY <3>1 DEF BlockedJustly, Waiting, Procs
  <2> QED BY <2>7, <2>8 DEF Waiting
<1> QED BY <1>1, <1>2, PTL

-------------------------------------------------------------------------------
(* What a CGI process is about to send is its own request.                  *)
LEMMA OwnRequestStep == ChannelOK /\ OwnRequest /\ [Next]_vars => OwnRequest'
<1> SUFFICES ASSUME ChannelOK, OwnRequest, [Next]_vars, NEW c \in Clients,
                    pc'[c] = "opened"
             PROVE  buf'[c].owner = c /\ buf'[c].type \in Requests
  BY DEF OwnRequest
<1> USE ChannelAssumption
<1>0. /\ pc \in [Procs -> ClientStates \cup DaemonStates]
      /\ buf \in [Procs -> Message \cup {NoMsg}]
      /\ c \in Procs /\ c # Daemon /\ Daemon \in Procs /\ Clients \subseteq Procs
  BY DEF ChannelOK, Procs
<1>1. ASSUME NEW p \in Procs, NEW m, MsgSend(p, m)
      PROVE  p # c /\ pc[c] = "opened" /\ buf'[c] = buf[c]
  <2>1. CASE SendBlocks(p, m) \/ SendQueues(p, m)
    BY <1>0, <1>1, <2>1 DEF SendBlocks, SendQueues, AfterSend
  <2>2. CASE SendHandsOver(p, m)
    <3>1. Head(rcvq) \in Procs /\ pc[Head(rcvq)] = "receiving"
      BY <2>2, TailWaits DEF ChannelOK, BlockedJustly, SendHandsOver
    <3> QED BY <1>0, <2>2, <3>1 DEF SendHandsOver, AfterSend, AfterRecv
  <2> QED BY <1>1, <2>1, <2>2 DEF MsgSend
<1>2. ASSUME NEW p \in Procs, MsgRecv(p)
      PROVE  p # c /\ pc[c] = "opened" /\ buf'[c] = buf[c]
  <2>1. CASE RecvBlocks(p) \/ RecvTakes(p)
    BY <1>0, <2>1 DEF RecvBlocks, RecvTakes, AfterRecv
  <2>2. CASE RecvLetsIn(p)
    <3>1. Head(sndq) \in Procs /\ pc[Head(sndq)] = "sending"
      BY <2>2, TailWaits DEF ChannelOK, BlockedJustly, RecvLetsIn
    <3> QED BY <1>0, <2>2, <3>1 DEF RecvLetsIn, AfterSend, AfterRecv
  <2> QED BY <1>2, <2>1, <2>2 DEF MsgRecv
<1>3. ASSUME NEW d \in Clients, CgiStart(d)
      PROVE  buf'[c].owner = c /\ buf'[c].type \in Requests
  <2>1. PICK t \in Requests : buf' = [buf EXCEPT ![d] = [type |-> t, owner |-> d]]
    BY <1>3 DEF CgiStart
  <2>2. CASE c = d
    BY <1>0, <2>1, <2>2
  <2>3. CASE c # d
    <3>1. pc[c] = "opened" /\ buf'[c] = buf[c]
      BY <1>0, <1>3, <2>1, <2>3 DEF CgiStart
    <3> QED BY <3>1 DEF OwnRequest
  <2> QED BY <2>2, <2>3
<1>4. ASSUME NEW d \in Clients, CgiSend(d) \/ CgiRecv(d) \/ Kill(d)
      PROVE  pc[c] = "opened" /\ buf'[c] = buf[c]
  BY <1>0, <1>1, <1>2, <1>4 DEF CgiSend, CgiRecv, Kill
<1>5. CASE DaemonStart \/ DaemonRecv \/ DaemonSend \/ DaemonExit
  <2>1. pc[c] = "opened" /\ buf'[c] = buf[c]
    BY <1>0, <1>1, <1>2, <1>5 DEF DaemonStart, DaemonRecv, DaemonSend, DaemonExit
  <2> QED BY <2>1 DEF OwnRequest
<1>6. CASE UNCHANGED vars
  BY <1>6 DEF vars, OwnRequest
<1> QED BY <1>3, <1>4, <1>5, <1>6 DEF Next, OwnRequest

(* An undisturbed exchange stays with the daemon and its client.            *)
LEMMA AloneStep ==
  ChannelOK /\ HistoryOK /\ OwnRequest /\ AloneOK /\ [Next]_vars => AloneOK'
<1> SUFFICES ASSUME ChannelOK, HistoryOK, OwnRequest, AloneOK, [Next]_vars,
                    NEW c \in alone'
             PROVE  \/ /\ Waiting' = {c} /\ q' = <<>>
                       /\ pc'[Daemon] = "busy"
                       /\ buf'[Daemon].owner = c /\ buf'[Daemon].type \in Requests
                    \/ /\ pc'[c] = "done"
                       /\ buf'[c].owner = c /\ buf'[c].type # "NOT_SUPPORT"
  BY DEF AloneOK
<1> USE ChannelAssumption
<1> DEFINE InHand == /\ Waiting = {c} /\ q = <<>>
                     /\ pc[Daemon] = "busy"
                     /\ buf[Daemon].owner = c /\ buf[Daemon].type \in Requests
           Served == pc[c] = "done" /\ buf[c].owner = c /\ buf[c].type # "NOT_SUPPORT"
<1>0. /\ pc \in [Procs -> ClientStates \cup DaemonStates]
      /\ buf \in [Procs -> Message \cup {NoMsg}]
      /\ Daemon \in Procs /\ Clients \subseteq Procs /\ Daemon \notin Clients
      /\ c \in Clients
  BY HistoryStep DEF ChannelOK, HistoryOK, Procs
<1>a. Waiting \subseteq Clients
  BY DEF Waiting
<1>b. \A d \in Clients : d \in Waiting <=> pc[d] \in {"sent", "receiving"}
  BY DEF Waiting
<1>1. ASSUME NEW d \in Clients, CgiStart(d) PROVE InHand' \/ Served'
  <2>1. c \in alone /\ c # d
    BY <1>1 DEF CgiStart
  <2>2. PICK m : buf' = [buf EXCEPT ![d] = m]
    BY <1>1 DEF CgiStart
  <2>3. Waiting' = Waiting
    BY <1>0, <1>1 DEF CgiStart, Waiting
  <2>4. q' = q /\ pc'[Daemon] = pc[Daemon] /\ buf'[Daemon] = buf[Daemon]
        /\ pc'[c] = pc[c] /\ buf'[c] = buf[c]
    BY <1>0, <1>1, <2>1, <2>2 DEF CgiStart
  <2> QED BY <2>1, <2>3, <2>4 DEF AloneOK
<1>2. ASSUME NEW d \in Clients, CgiSend(d) PROVE InHand' \/ Served'
  <2>1. rcvq = <<Daemon>> /\ Waiting = {} /\ c = d /\ pc[d] = "opened"
    BY <1>2 DEF CgiSend, AloneAtSend
  <2>2. q = <<>> /\ Head(rcvq) = Daemon /\ rcvq # <<>>
    BY <2>1 DEF ChannelOK, BlockedJustly
  <2>3. /\ pc' = [pc EXCEPT ![d] = "sent", ![Daemon] = "busy"]
        /\ buf' = [buf EXCEPT ![d] = buf[d], ![Daemon] = buf[d]]
        /\ q' = q
    <3>1. SendHandsOver(d, buf[d])
      BY <1>2, <2>2 DEF CgiSend, MsgSend, SendBlocks, SendQueues
    <3> QED BY <1>0, <2>2, <3>1 DEF SendHandsOver, AfterSend, AfterRecv
  <2>4. Waiting' = {d}
    BY <1>0, <2>1, <2>3 DEF Waiting
  <2>5. buf[d].owner = d /\ buf[d].type \in Requests
    BY <2>1 DEF OwnRequest
  <2> QED BY <1>0, <2>1, <2>2, <2>3, <2>4, <2>5
<1>3. ASSUME NEW d \in Clients, CgiRecv(d) PROVE InHand' \/ Served'
  <2>1. c \in alone /\ d \in Waiting /\ pc[d] = "sent" /\ MsgRecv(d)
    BY <1>3, <1>b DEF CgiRecv
  <2>2. CASE InHand
    <3>1. RecvBlocks(d) /\ c = d
      BY <2>1, <2>2 DEF MsgRecv, RecvTakes, RecvLetsIn
    <3>2. Waiting' = Waiting
      BY <1>0, <2>1, <3>1 DEF RecvBlocks, Waiting
    <3> QED BY <1>0, <2>2, <3>1, <3>2 DEF RecvBlocks
  <2>3. CASE Served
    <3>1. c # d
      BY <2>1, <2>3
    <3>2. CASE RecvBlocks(d) \/ RecvTakes(d)
      BY <1>0, <2>3, <3>1, <3>2 DEF RecvBlocks, RecvTakes
    <3>3. CASE RecvLetsIn(d)
      <4>1. Head(sndq) \in Procs /\ pc[Head(sndq)] = "sending"
        BY <3>3, TailWaits DEF ChannelOK, BlockedJustly, RecvLetsIn
      <4> QED BY <1>0, <2>3, <3>1, <3>3, <4>1 DEF RecvLetsIn
    <3> QED BY <2>1, <3>2, <3>3 DEF MsgRecv
  <2> QED BY <2>1, <2>2, <2>3 DEF AloneOK
<1>4. ASSUME NEW d \in Clients, Kill(d) PROVE InHand' \/ Served'
  <2>1. c \in alone /\ c # d /\ q' = q /\ buf' = buf
    BY <1>4 DEF Kill
  <2>2. Waiting' = Waiting \ {d} /\ pc'[c] = pc[c] /\ pc'[Daemon] = pc[Daemon]
    BY <1>0, <1>4, <2>1 DEF Kill, Waiting
  <2> QED BY <2>1, <2>2 DEF AloneOK
<1>5. CASE DaemonStart
  <2>1. c \in alone /\ pc'[c] = pc[c] /\ buf' = buf
    BY <1>0, <1>5 DEF DaemonStart, AloneOK, Served
  <2> QED BY <1>5, <2>1 DEF AloneOK, DaemonStart
<1>6. CASE DaemonRecv
  <2>1. c \in alone /\ Served /\ MsgRecv(Daemon)
    BY <1>6 DEF DaemonRecv, AloneOK
  <2>2. CASE RecvBlocks(Daemon) \/ RecvTakes(Daemon)
    BY <1>0, <1>6, <2>1, <2>2 DEF RecvBlocks, RecvTakes, DaemonRecv
  <2>3. CASE RecvLetsIn(Daemon)
    <3>1. Head(sndq) \in Procs /\ pc[Head(sndq)] = "sending"
      BY <2>3, TailWaits DEF ChannelOK, BlockedJustly, RecvLetsIn
    <3> QED BY <1>0, <1>6, <2>1, <2>3, <3>1 DEF RecvLetsIn, DaemonRecv
  <2> QED BY <2>1, <2>2, <2>3 DEF MsgRecv
<1>7. CASE DaemonSend
  <2>1. PICK m \in Answers(buf[Daemon]) : MsgSend(Daemon, m)
    BY <1>7 DEF DaemonSend
  <2>2. buf[Daemon] \in Message /\ c \in alone /\ pc[c] # "sent" /\ pc[Daemon] = "busy"
    BY <1>0, <1>7 DEF DaemonSend, ChannelOK
  <2>3. CASE InHand
    <3>1. c \in Clients /\ pc[c] = "receiving" /\ Len(q) < MaxMsg
      BY <1>a, <1>b, <2>2, <2>3
    <3>2. rcvq # <<>>
      <4>1. Contains(rcvq, c)
        BY <1>0, <3>1 DEF ChannelOK, BlockedJustly
      <4> QED BY <4>1 DEF Contains, ChannelOK
    <3>3. Head(rcvq) \in Procs /\ pc[Head(rcvq)] = "receiving"
      BY <3>2, TailWaits DEF ChannelOK, BlockedJustly
    <3>4. Head(rcvq) = c
      BY <1>b, <2>2, <2>3, <3>3 DEF Procs
    <3>5. SendHandsOver(Daemon, m)
      BY <2>1, <3>1, <3>2 DEF MsgSend, SendBlocks, SendQueues
    <3>6. pc'[c] = "done" /\ buf'[c] = m
      BY <1>0, <3>1, <3>4, <3>5 DEF SendHandsOver, AfterRecv
    <3>7. m.owner = c /\ m.type # "NOT_SUPPORT"
      BY <2>2, <2>3, AnswersAreMessages
    <3> QED BY <3>6, <3>7
  <2>4. CASE Served
    <3>1. CASE SendBlocks(Daemon, m) \/ SendQueues(Daemon, m)
      BY <1>0, <2>4, <2>2, <3>1 DEF SendBlocks, SendQueues
    <3>2. CASE SendHandsOver(Daemon, m)
      <4>1. Head(rcvq) \in Procs /\ pc[Head(rcvq)] = "receiving"
        BY <3>2, TailWaits DEF ChannelOK, BlockedJustly, SendHandsOver
      <4> QED BY <1>0, <2>2, <2>4, <3>2, <4>1 DEF SendHandsOver
    <3> QED BY <2>1, <3>1, <3>2 DEF MsgSend
  <2> QED BY <2>2, <2>3, <2>4 DEF AloneOK
<1>8. CASE DaemonExit
  BY <1>8 DEF DaemonExit
<1>9. CASE UNCHANGED vars
  BY <1>9 DEF vars, AloneOK, Waiting
<1> QED BY <1>1, <1>2, <1>3, <1>4, <1>5, <1>6, <1>7, <1>8, <1>9 DEF Next

(* The invariant holds.                                                     *)
LEMMA AloneHolds == Spec => [](ChannelOK /\ AloneOK)
<1>1. Init => ChannelOK /\ HistoryOK /\ OwnRequest /\ AloneOK
  <2>1. Init => HistoryOK /\ OwnRequest /\ AloneOK
    BY ChannelAssumption DEF Init, HistoryOK, OwnRequest, AloneOK, Procs
  <2> QED BY <2>1, ChannelInit
<1>2. ChannelOK /\ HistoryOK /\ OwnRequest /\ AloneOK /\ [Next]_vars
        => ChannelOK' /\ HistoryOK' /\ OwnRequest' /\ AloneOK'
  BY ChannelStep, HistoryStep, OwnRequestStep, AloneStep
<1> QED BY <1>1, <1>2, PTL DEF Spec

(* A client that had the queue to itself, and was blocked in msgRecv when   *)
(* the daemon answered, has the daemon's answer to its own request.         *)
THEOREM UndisturbedExchange == Spec => []AloneGetsOwnAnswer
<1>1. AloneOK => AloneGetsOwnAnswer
  BY DEF AloneOK, AloneGetsOwnAnswer, Waiting
<1> QED BY <1>1, AloneHolds, PTL

-------------------------------------------------------------------------------
(* The message queue implements the mailbox.                                *)
(* What a client sends, or is blocked in sending, is its own request.       *)
OwnSender ==
  \A c \in Clients : pc[c] \in {"opened", "sending"} => buf[c].owner = c

-------------------------------------------------------------------------------
(* The owners of messages are a sequence of clients.                        *)
LEMMA OwnersType ==
  ASSUME NEW s \in Seq(Message)
  PROVE  /\ Owners(s) \in Seq(Clients)
         /\ Len(Owners(s)) = Len(s)
         /\ \A i \in 1 .. Len(s) : Owners(s)[i] = s[i].owner
<1>1. DOMAIN s = 1 .. Len(s) /\ Len(s) \in Nat
  OBVIOUS
<1>a. \A m \in Message : m.owner \in Clients
  BY DEF Message
<1>b. \A i \in 1 .. Len(s) : s[i] \in Message
  OBVIOUS
<1>2. \A i \in 1 .. Len(s) : s[i].owner \in Clients
  BY <1>a, <1>b
<1>3. Owners(s) = [i \in 1 .. Len(s) |-> s[i].owner]
  BY <1>1 DEF Owners
<1> QED BY <1>1, <1>2, <1>3

(* The owners of the messages in a longer queue.                            *)
LEMMA OwnersAppend ==
  ASSUME NEW s \in Seq(Message), NEW m \in Message
  PROVE  Owners(Append(s, m)) = Append(Owners(s), m.owner)
<1>1. DOMAIN s = 1 .. Len(s) /\ Len(s) \in Nat
  OBVIOUS
<1>2. /\ Owners(s) \in Seq(Clients)
      /\ Len(Owners(s)) = Len(s)
  BY OwnersType
<1>3. DOMAIN Owners(Append(s, m)) = 1 .. Len(s) + 1
  BY <1>1 DEF Owners
<1>4. ASSUME NEW i \in 1 .. Len(s) + 1
      PROVE  Owners(Append(s, m))[i] = Append(Owners(s), m.owner)[i]
  BY <1>1, <1>2 DEF Owners
<1>5. m.owner \in Clients
  BY DEF Message
<1> QED BY <1>1, <1>2, <1>3, <1>4, <1>5 DEF Owners

(* The oldest message and the others.                                       *)
LEMMA OwnersTail ==
  ASSUME NEW s \in Seq(Message), s # <<>>
  PROVE  /\ Owners(s) # <<>>
         /\ Head(Owners(s)) = Head(s).owner
         /\ Owners(Tail(s)) = Tail(Owners(s))
<1>1. DOMAIN s = 1 .. Len(s) /\ Len(s) \in Nat \ {0}
  OBVIOUS
<1>2. /\ Owners(s) \in Seq(Clients)
      /\ Len(Owners(s)) = Len(s)
  BY OwnersType
<1>3. DOMAIN Owners(Tail(s)) = 1 .. Len(s) - 1
  BY <1>1 DEF Owners
<1>4. ASSUME NEW i \in 1 .. Len(s) - 1
      PROVE  Owners(Tail(s))[i] = Tail(Owners(s))[i]
  BY <1>1, <1>2 DEF Owners
<1> QED BY <1>1, <1>2, <1>3, <1>4 DEF Owners

-------------------------------------------------------------------------------
(* The messages that clients have: of no client but those in S ...          *)
Untouched(S) ==
  \A d \in Clients \ S :
    (pc'[d] = "done" <=> pc[d] = "done") /\ (pc[d] = "done" => buf'[d] = buf[d])

(* ... so that nobody has taken one, or one client has.                     *)
LEMMA GotFrame ==
  /\ Untouched({}) => Got' = Got
  /\ \A c \in Clients :
       Untouched({c}) /\ pc'[c] = "done" => Got' = [Got EXCEPT ![c] = <<buf'[c].owner>>]
<1>1. Untouched({}) => Got' = Got
  BY DEF Untouched, Got
<1>2. ASSUME NEW c \in Clients, Untouched({c}), pc'[c] = "done"
      PROVE  Got' = [Got EXCEPT ![c] = <<buf'[c].owner>>]
  BY <1>2 DEF Untouched, Got
<1> QED BY <1>1, <1>2

(* What the proofs below use of the types.                                  *)
LEMMA Frame ==
  ASSUME ChannelOK
  PROVE  /\ pc \in [Procs -> ClientStates \cup DaemonStates]
         /\ buf \in [Procs -> Message \cup {NoMsg}]
         /\ q \in Seq(Message)
         /\ Daemon \in Procs /\ Clients \subseteq Procs /\ Daemon \notin Clients
         /\ pc[Daemon] \notin {"sent", "done", "opened"}
         /\ \A c \in Clients : pc[c] \notin {"busy", "loop", "down"}
BY ChannelAssumption DEF ChannelOK, Procs, ClientStates, DaemonStates

(* Whoever is woken by a message has waited for it in msgRecv, on an empty  *)
(* queue.                                                                   *)
LEMMA Receiver ==
  ASSUME ChannelOK, rcvq # <<>>
  PROVE  /\ Head(rcvq) \in Procs /\ pc[Head(rcvq)] = "receiving"
         /\ q = <<>> /\ Box = <<>>
<1>1. Head(rcvq) \in Procs /\ pc[Head(rcvq)] = "receiving"
  BY TailWaits DEF ChannelOK, BlockedJustly
<1>2. q = <<>>
  BY DEF ChannelOK, BlockedJustly
<1>3. Box = <<>>
  <2>1. q \in Seq(Message) /\ Len(q) = 0
    BY <1>2, Frame
  <2>2. Owners(q) \in Seq(Clients) /\ Len(Owners(q)) = 0
    BY <2>1, OwnersType
  <2> QED BY <2>2, EmptySeq DEF Box
<1> QED BY <1>1, <1>2, <1>3

(* A request is put in the mailbox; or cgiMain is blocked with it.          *)
LEMMA ClientSends ==
  ASSUME ChannelOK, OwnSender, NEW c \in Clients, CgiSend(c)
  PROVE  Queue!Post(c) \/ UNCHANGED Queue!vars
<1> USE Frame
<1>0. /\ pc[c] = "opened" /\ buf[c] \in Message /\ buf[c].owner = c
      /\ c # Daemon /\ c \in Procs /\ c \notin Waiting
  BY DEF CgiSend, OwnSender, ChannelOK, Waiting
<1>1. CASE SendBlocks(c, buf[c])
  <2>1. Box' = Box /\ Hand' = Hand /\ Waiting' = Waiting
    BY <1>0, <1>1 DEF SendBlocks, Box, Hand, Waiting
  <2>2. Untouched({})
    BY <1>0, <1>1 DEF SendBlocks, Untouched
  <2> QED BY <2>1, <2>2, GotFrame DEF Queue!vars
<1>2. CASE SendHandsOver(c, buf[c])
  <2> DEFINE r == Head(rcvq)
  <2>1. r \in Procs /\ pc[r] = "receiving" /\ q' = q /\ Box = <<>>
    BY <1>2, Receiver DEF SendHandsOver
  <2>2. /\ pc' = [pc EXCEPT ![c] = "sent", ![r] = AfterRecv(r)]
        /\ buf' = [buf EXCEPT ![c] = buf[c], ![r] = buf[c]]
    BY <1>0, <1>2 DEF SendHandsOver, AfterSend
  <2> HIDE DEF r
  <2>3. Box' = <<>> /\ Append(Box, c) = <<c>>
    BY <2>1 DEF Box
  <2>4. <<c>> # <<>> /\ Head(<<c>>) = c /\ Tail(<<c>>) = <<>>
    OBVIOUS
  <2>5. CASE r = Daemon
    <3>1. Hand = <<>> /\ Hand' = <<c>>
      BY <1>0, <2>1, <2>2, <2>5 DEF Hand, AfterRecv
    <3>2. Waiting' = Waiting \cup {c}
      BY <1>0, <2>1, <2>2, <2>5 DEF Waiting, AfterRecv
    <3>3. Untouched({})
      BY <1>0, <2>1, <2>2, <2>5 DEF Untouched, AfterRecv
    <3> QED BY <1>0, <2>3, <2>4, <3>1, <3>2, <3>3, GotFrame DEF Queue!Post, Queue!Fetch
  <2>6. CASE r # Daemon
    <3>1. r \in Clients /\ r \in Waiting /\ r # c
      BY <1>0, <2>1, <2>6 DEF Procs, Waiting
    <3>2. Hand' = Hand
      BY <1>0, <2>1, <2>2, <2>6 DEF Hand
    <3>3. Waiting' = (Waiting \cup {c}) \ {r}
      BY <1>0, <2>1, <2>2, <2>6, <3>1 DEF Waiting, AfterRecv
    <3>4. Untouched({r}) /\ pc'[r] = "done" /\ buf'[r].owner = c
      BY <1>0, <2>1, <2>2, <2>6, <3>1 DEF Untouched, AfterRecv
    <3>5. Got' = [Got EXCEPT ![r] = <<c>>]
      BY <3>1, <3>4, GotFrame
    <3> QED BY <1>0, <2>3, <2>4, <3>1, <3>2, <3>3, <3>5 DEF Queue!Post, Queue!Collect
  <2> QED BY <2>5, <2>6
<1>3. CASE SendQueues(c, buf[c])
  <2>1. Box' = Append(Box, c)
    BY <1>0, <1>3, OwnersAppend DEF SendQueues, Box
  <2>2. Hand' = Hand /\ Waiting' = Waiting \cup {c}
    BY <1>0, <1>3 DEF SendQueues, AfterSend, Hand, Waiting
  <2>3. Untouched({})
    BY <1>0, <1>3 DEF SendQueues, AfterSend, Untouched
  <2> QED BY <1>0, <2>1, <2>2, <2>3, GotFrame DEF Queue!Post, Queue!Leave
<1> QED BY <1>1, <1>2, <1>3 DEF CgiSend, MsgSend

(* Whoever gets into a full queue was blocked in msgSend with a message of  *)
(* its own, or with the daemon's answer.                                    *)
LEMMA Sender ==
  ASSUME ChannelOK, OwnSender, sndq # <<>>
  PROVE  /\ Head(sndq) \in Procs /\ pc[Head(sndq)] = "sending"
         /\ buf[Head(sndq)] \in Message
         /\ Head(sndq) # Daemon => buf[Head(sndq)].owner = Head(sndq)
<1>1. Head(sndq) \in Procs /\ pc[Head(sndq)] = "sending"
  BY TailWaits DEF ChannelOK, BlockedJustly
<1>2. buf[Head(sndq)] \in Message
  BY <1>1 DEF ChannelOK
<1>3. Head(sndq) # Daemon => buf[Head(sndq)].owner = Head(sndq)
  BY <1>1 DEF OwnSender, Procs
<1> QED BY <1>1, <1>2, <1>3

(* The queue moves up, and lets in one more message.                        *)
LEMMA BoxMovesUp ==
  ASSUME NEW s \in Seq(Message), s # <<>>, NEW m \in Message
  PROVE  /\ Owners(s) # <<>> /\ Head(Owners(s)) = Head(s).owner
         /\ Append(Owners(s), m.owner) # <<>>
         /\ Head(Append(Owners(s), m.owner)) = Head(s).owner
         /\ Tail(Append(Owners(s), m.owner)) = Owners(Append(Tail(s), m))
         /\ Owners(s) \o <<m.owner>> = Append(Owners(s), m.owner)
<1>1. /\ Owners(s) # <<>> /\ Head(Owners(s)) = Head(s).owner
      /\ Owners(Tail(s)) = Tail(Owners(s)) /\ Tail(s) \in Seq(Message)
  BY OwnersTail
<1>2. Owners(Append(Tail(s), m)) = Append(Tail(Owners(s)), m.owner)
  BY <1>1, OwnersAppend
<1>3. Owners(s) \in Seq(Clients) /\ m.owner \in Clients
  BY OwnersType DEF Message
<1> DEFINE o == Owners(s)
           x == m.owner
<1> HIDE DEF o, x
<1>4. o \in Seq(Clients) /\ o # <<>> /\ x \in Clients
  BY <1>1, <1>3 DEF o, x
<1>5. /\ Append(o, x) # <<>> /\ Head(Append(o, x)) = Head(o)
      /\ Tail(Append(o, x)) = Append(Tail(o), x)
      /\ o \o <<x>> = Append(o, x)
  BY <1>4
<1> QED BY <1>1, <1>2, <1>5 DEF o, x

(* cgiMain takes the oldest message, after the one it may let in; or it is  *)
(* blocked.                                                                 *)
LEMMA ClientReceives ==
  ASSUME ChannelOK, OwnSender, NEW c \in Clients, CgiRecv(c)
  PROVE  Queue!Next \/ UNCHANGED Queue!vars
<1> USE Frame
<1>0. /\ pc[c] = "sent" /\ c # Daemon /\ c \in Procs /\ c \in Waiting
  BY DEF CgiRecv, Waiting
<1>1. CASE RecvBlocks(c)
  <2>1. Box' = Box /\ Hand' = Hand /\ Waiting' = Waiting
    BY <1>0, <1>1 DEF RecvBlocks, Box, Hand, Waiting
  <2>2. Untouched({})
    BY <1>0, <1>1 DEF RecvBlocks, Untouched
  <2> QED BY <2>1, <2>2, GotFrame DEF Queue!vars
<1>2. CASE RecvTakes(c)
  <2>1. Box # <<>> /\ Head(Box) = Head(q).owner /\ Box' = Tail(Box)
    BY <1>2, OwnersTail DEF RecvTakes, Box
  <2>2. Hand' = Hand /\ Waiting' = Waiting \ {c}
    BY <1>0, <1>2 DEF RecvTakes, AfterRecv, Hand, Waiting
  <2>3. Untouched({c}) /\ pc'[c] = "done" /\ buf'[c] = Head(q)
    BY <1>0, <1>2 DEF RecvTakes, AfterRecv, Untouched
  <2>4. Got' = [Got EXCEPT ![c] = <<Head(Box)>>]
    BY <2>1, <2>3, GotFrame
  <2>5. Queue!Take
    BY <1>0, <2>1, <2>2, <2>4 DEF Queue!Take, Queue!Collect
  <2> QED BY <2>5 DEF Queue!Next
<1>3. CASE RecvLetsIn(c)
  <2> DEFINE r == Head(sndq)
             b == Append(Box, buf[r].owner)
  <2>1. /\ r \in Procs /\ pc[r] = "sending" /\ buf[r] \in Message
        /\ r # Daemon => buf[r].owner = r
    BY <1>3, Sender DEF RecvLetsIn
  <2>2. /\ pc' = [pc EXCEPT ![c] = "done", ![r] = AfterSend(r)]
        /\ buf' = [buf EXCEPT ![c] = Head(q)]
        /\ q' = Append(Tail(q), buf[r])
    BY <1>0, <1>3 DEF RecvLetsIn, AfterRecv
  <2> HIDE DEF r
  <2>3. /\ b # <<>> /\ Head(b) = Head(q).owner /\ Box' = Tail(b)
        /\ Box \o <<buf[r].owner>> = b
    <3>1. q \in Seq(Message) /\ q # <<>>
      BY <1>3 DEF RecvLetsIn
    <3>2. /\ Append(Owners(q), buf[r].owner) # <<>>
          /\ Head(Append(Owners(q), buf[r].owner)) = Head(q).owner
          /\ Tail(Append(Owners(q), buf[r].owner)) = Owners(Append(Tail(q), buf[r]))
          /\ Owners(q) \o <<buf[r].owner>> = Append(Owners(q), buf[r].owner)
      BY <2>1, <3>1, BoxMovesUp, Zenon
    <3> QED BY <2>2, <3>2, Zenon DEF Box
  <2>4. r # c /\ r \notin Waiting
    BY <1>0, <2>1 DEF Waiting
  <2>5. Untouched({c}) /\ pc'[c] = "done" /\ buf'[c] = Head(q)
    BY <1>0, <2>1, <2>2, <2>4 DEF AfterSend, Untouched
  <2>6. Got' = [Got EXCEPT ![c] = <<Head(b)>>]
    BY <2>3, <2>5, GotFrame
  <2>7. CASE r = Daemon
    <3>1. Hand = <<buf[r].owner>> /\ Hand' = <<>> /\ Hand # <<>>
      BY <1>0, <2>1, <2>2, <2>4, <2>7 DEF Hand, AfterSend
    <3>2. Waiting' = Waiting \ {c}
      BY <1>0, <2>1, <2>2, <2>4, <2>7 DEF Waiting, AfterSend
    <3> HIDE DEF b
    <3>3. Queue!Reply
      BY <1>0, <2>3, <2>6, <3>1, <3>2 DEF Queue!Reply, Queue!Collect
    <3> QED BY <3>3 DEF Queue!Next
  <2>8. CASE r # Daemon
    <3>1. r \in Clients /\ buf[r].owner = r /\ b = Append(Box, r)
      BY <2>1, <2>8 DEF Procs
    <3>2. Hand' = Hand
      BY <1>0, <2>1, <2>2, <2>8 DEF Hand
    <3>3. Waiting' = (Waiting \cup {r}) \ {c}
      BY <1>0, <2>1, <2>2, <2>4, <2>8, <3>1 DEF Waiting, AfterSend
    <3> HIDE DEF b
    <3>4. Queue!Post(r)
      BY <1>0, <2>3, <2>4, <2>6, <3>1, <3>2, <3>3 DEF Queue!Post, Queue!Collect
    <3> QED BY <3>1, <3>4 DEF Queue!Next
  <2> QED BY <2>7, <2>8
<1> QED BY <1>1, <1>2, <1>3 DEF CgiRecv, MsgRecv

(* So does webProcess, in whose place nobody else sends an answer.          *)
LEMMA DaemonReceives ==
  ASSUME ChannelOK, OwnSender, DaemonRecv
  PROVE  Queue!Next \/ UNCHANGED Queue!vars
<1> USE Frame
<1>0. pc[Daemon] = "loop" /\ Hand = <<>>
  BY DEF DaemonRecv, Hand
<1>1. CASE RecvBlocks(Daemon)
  <2>1. Box' = Box /\ Hand' = Hand /\ Waiting' = Waiting
    BY <1>0, <1>1 DEF RecvBlocks, Box, Hand, Waiting
  <2>2. Untouched({})
    BY <1>0, <1>1 DEF RecvBlocks, Untouched
  <2> QED BY <2>1, <2>2, GotFrame DEF Queue!vars
<1>2. CASE RecvTakes(Daemon)
  <2>1. Box # <<>> /\ Head(Box) = Head(q).owner /\ Box' = Tail(Box)
    BY <1>2, OwnersTail DEF RecvTakes, Box
  <2>2. Hand' = <<Head(q).owner>> /\ Waiting' = Waiting
    BY <1>0, <1>2 DEF RecvTakes, AfterRecv, Hand, Waiting
  <2>3. Untouched({})
    BY <1>0, <1>2 DEF RecvTakes, AfterRecv, Untouched
  <2>4. Queue!Take
    BY <1>0, <2>1, <2>2, <2>3, GotFrame DEF Queue!Take, Queue!Fetch
  <2> QED BY <2>4 DEF Queue!Next
<1>3. CASE RecvLetsIn(Daemon)
  <2> DEFINE r == Head(sndq)
             b == Append(Box, r)
  <2>1. /\ r \in Procs /\ pc[r] = "sending" /\ buf[r] \in Message
        /\ r # Daemon => buf[r].owner = r
    BY <1>3, Sender DEF RecvLetsIn
  <2>2. /\ pc' = [pc EXCEPT ![Daemon] = "busy", ![r] = AfterSend(r)]
        /\ buf' = [buf EXCEPT ![Daemon] = Head(q)]
        /\ q' = Append(Tail(q), buf[r])
    BY <1>0, <1>3 DEF RecvLetsIn, AfterRecv
  <2> HIDE DEF r
  <2>3. r # Daemon /\ r \in Clients /\ buf[r].owner = r /\ r \notin Waiting
    BY <1>0, <2>1 DEF Procs, Waiting
  <2>4. b # <<>> /\ Head(b) = Head(q).owner /\ Box' = Tail(b)
    BY <1>3, <2>1, <2>2, <2>3, BoxMovesUp DEF RecvLetsIn, Box
  <2>5. Hand' = <<Head(q).owner>>
    BY <2>2, <2>3 DEF Hand
  <2>6. Waiting' = Waiting \cup {r}
    BY <1>0, <2>1, <2>2, <2>3 DEF Waiting, AfterSend
  <2>7. Untouched({})
    BY <1>0, <2>1, <2>2, <2>3 DEF Untouched, AfterSend
  <2>8. Got' = Got
    BY <2>7, GotFrame
  <2>9. Queue!Post(r)
    BY <1>0, <2>3, <2>4, <2>5, <2>6, <2>8 DEF Queue!Post, Queue!Fetch
  <2> QED BY <2>3, <2>9 DEF Queue!Next
<1> QED BY <1>1, <1>2, <1>3 DEF DaemonRecv, MsgRecv

(* webProcess answers, and whoever waits for a message takes it; or it is   *)
(* blocked, with the answer in its hand.                                    *)
LEMMA DaemonSends ==
  ASSUME ChannelOK, DaemonSend
  PROVE  Queue!Reply \/ UNCHANGED Queue!vars
<1> USE Frame
<1>1. PICK m \in Answers(buf[Daemon]) : MsgSend(Daemon, m)
  BY DEF DaemonSend
<1>2. pc[Daemon] = "busy" /\ buf[Daemon] \in Message
  BY DEF DaemonSend, ChannelOK
<1>3. m \in Message /\ m.owner = buf[Daemon].owner
  BY <1>1, <1>2, AnswersAreMessages
<1>4. Hand = <<m.owner>> /\ Hand # <<>>
  BY <1>2, <1>3 DEF Hand
<1>5. CASE SendBlocks(Daemon, m)
  <2>1. Box' = Box /\ Waiting' = Waiting
    BY <1>2, <1>5 DEF SendBlocks, Box, Waiting
  <2>2. Hand' = <<m.owner>>
    BY <1>2, <1>5 DEF SendBlocks, Hand
  <2>3. Untouched({})
    BY <1>2, <1>5 DEF SendBlocks, Untouched
  <2> QED BY <1>4, <2>1, <2>2, <2>3, GotFrame DEF Queue!vars
<1>6. CASE SendHandsOver(Daemon, m)
  <2> DEFINE r == Head(rcvq)
  <2>1. r \in Procs /\ pc[r] = "receiving" /\ q' = q /\ Box = <<>>
    BY <1>6, Receiver DEF SendHandsOver
  <2>2. r # Daemon /\ r \in Clients /\ r \in Waiting
    BY <1>2, <2>1 DEF Procs, Waiting
  <2>3. /\ pc' = [pc EXCEPT ![Daemon] = "loop", ![r] = "done"]
        /\ buf' = [buf EXCEPT ![Daemon] = m, ![r] = m]
    BY <1>6, <2>2 DEF SendHandsOver, AfterSend, AfterRecv
  <2> HIDE DEF r
  <2>4. Hand' = <<>> /\ Waiting' = Waiting \ {r}
    BY <1>2, <2>1, <2>2, <2>3 DEF Hand, Waiting
  <2>5. Untouched({r}) /\ pc'[r] = "done" /\ buf'[r] = m
    BY <1>2, <2>1, <2>2, <2>3 DEF Untouched
  <2>6. Got' = [Got EXCEPT ![r] = <<m.owner>>]
    BY <2>2, <2>5, GotFrame
  <2>7. Box' = <<>>
    BY <2>1 DEF Box
  <2>8. /\ Box \o Hand # <<>> /\ Head(Box \o Hand) = m.owner
        /\ Tail(Box \o Hand) = <<>>
    BY <1>4, <2>1
  <2> QED BY <1>4, <2>2, <2>4, <2>6, <2>7, <2>8 DEF Queue!Reply, Queue!Collect
<1>7. CASE SendQueues(Daemon, m)
  <2>1. Box' = Append(Box, m.owner)
    BY <1>3, <1>7, OwnersAppend DEF SendQueues, Box
  <2>2. Box \o Hand = Append(Box, m.owner)
    <3>1. Box \in Seq(Clients) /\ m.owner \in Clients
      BY <1>3, OwnersType DEF Box, Message
    <3> QED BY <1>4, <3>1
  <2>3. Hand' = <<>> /\ Waiting' = Waiting
    BY <1>2, <1>7 DEF SendQueues, AfterSend, Hand, Waiting
  <2>4. Untouched({})
    BY <1>2, <1>7 DEF SendQueues, AfterSend, Untouched
  <2> QED BY <1>4, <2>1, <2>2, <2>3, <2>4, GotFrame DEF Queue!Reply, Queue!Leave
<1> QED BY <1>1, <1>5, <1>6, <1>7 DEF MsgSend

(* A process starts over or is killed, the daemon starts or ends.           *)
LEMMA OthersAreFaults ==
  ASSUME ChannelOK
  PROVE  /\ \A c \in Clients : CgiStart(c) => Queue!Begin(c)
         /\ \A c \in Clients : Kill(c) => Queue!GiveUp(c)
         /\ DaemonStart \/ DaemonExit => Queue!Lose
<1> USE Frame
<1>1. ASSUME NEW c \in Clients, CgiStart(c) PROVE Queue!Begin(c)
  <2>1. c # Daemon /\ c \in Procs /\ pc[c] \in {"idle", "done"} /\ c \notin Waiting
    BY <1>1 DEF CgiStart, Waiting
  <2>2. pc' = [pc EXCEPT ![c] = "opened"] /\ q' = q /\ \A p \in Procs : p # c => buf'[p] = buf[p]
    BY <1>1 DEF CgiStart
  <2>3. Box' = Box /\ Hand' = Hand /\ Waiting' = Waiting
    BY <2>1, <2>2 DEF Box, Hand, Waiting
  <2>4. Got' = [Got EXCEPT ![c] = <<>>]
    BY <2>1, <2>2 DEF Got
  <2> QED BY <2>1, <2>3, <2>4 DEF Queue!Begin
<1>2. ASSUME NEW c \in Clients, Kill(c) PROVE Queue!GiveUp(c)
  <2>1. /\ c # Daemon /\ c \in Procs /\ pc[c] # "done"
        /\ pc' = [pc EXCEPT ![c] = "idle"] /\ q' = q /\ buf' = buf
    BY <1>2 DEF Kill
  <2>2. Box' = Box /\ Hand' = Hand /\ Waiting' = Waiting \ {c}
    BY <2>1 DEF Box, Hand, Waiting
  <2>3. Untouched({})
    BY <2>1 DEF Untouched
  <2> QED BY <2>2, <2>3, GotFrame DEF Queue!GiveUp
<1>3. ASSUME DaemonStart \/ DaemonExit PROVE Queue!Lose
  <2>1. /\ pc' \in {[pc EXCEPT ![Daemon] = "loop"], [pc EXCEPT ![Daemon] = "down"]}
        /\ q' = q /\ buf' = buf
    BY <1>3 DEF DaemonStart, DaemonExit
  <2>2. Box' = Box /\ Hand' = <<>> /\ Waiting' = Waiting
    BY <2>1 DEF Box, Hand, Waiting
  <2>3. Untouched({})
    BY <2>1 DEF Untouched
  <2> QED BY <2>2, <2>3, GotFrame DEF Queue!Lose
<1> QED BY <1>1, <1>2, <1>3

(* No step puts a message of somebody else in a sender's hands.             *)
LEMMA OwnSenderStep == ChannelOK /\ OwnSender /\ [Next]_vars => OwnSender'
<1> SUFFICES ASSUME ChannelOK, OwnSender, [Next]_vars, NEW c \in Clients,
                    pc'[c] \in {"opened", "sending"}
             PROVE  buf'[c].owner = c
  BY DEF OwnSender
<1> USE Frame
<1>0. c \in Procs /\ c # Daemon
  OBVIOUS
<1>1. ASSUME NEW p \in Procs, NEW m, MsgSend(p, m), p = c => m = buf[c] /\ pc[c] = "opened"
      PROVE  pc[c] \in {"opened", "sending"} /\ buf'[c] = buf[c]
  <2>1. CASE SendBlocks(p, m) \/ SendQueues(p, m)
    BY <1>0, <1>1, <2>1 DEF SendBlocks, SendQueues, AfterSend
  <2>2. CASE SendHandsOver(p, m)
    <3>1. Head(rcvq) \in Procs /\ pc[Head(rcvq)] = "receiving"
      BY <2>2, Receiver DEF SendHandsOver
    <3> QED BY <1>0, <1>1, <2>2, <3>1 DEF SendHandsOver, AfterSend, AfterRecv
  <2> QED BY <1>1, <2>1, <2>2 DEF MsgSend
<1>2. ASSUME NEW p \in Procs, MsgRecv(p), pc[p] # "sending"
      PROVE  pc[c] \in {"opened", "sending"} /\ buf'[c] = buf[c]
  <2>1. CASE RecvBlocks(p) \/ RecvTakes(p)
    BY <1>0, <1>2, <2>1 DEF RecvBlocks, RecvTakes, AfterRecv
  <2>2. CASE RecvLetsIn(p)
    <3>1. Head(sndq) \in Procs /\ pc[Head(sndq)] = "sending"
      BY <2>2, TailWaits DEF ChannelOK, BlockedJustly, RecvLetsIn
    <3> QED BY <1>0, <1>2, <2>2, <3>1 DEF RecvLetsIn, AfterSend, AfterRecv
  <2> QED BY <1>2, <2>1, <2>2 DEF MsgRecv
<1>3. ASSUME NEW d \in Clients, CgiStart(d) PROVE buf'[c].owner = c
  <2>1. PICK t \in Requests : buf' = [buf EXCEPT ![d] = [type |-> t, owner |-> d]]
    BY <1>3 DEF CgiStart
  <2>2. CASE c = d
    BY <1>0, <2>1, <2>2
  <2>3. CASE c # d
    <3>1. pc'[c] = pc[c] /\ buf'[c] = buf[c]
      BY <1>0, <1>3, <2>1, <2>3 DEF CgiStart
    <3> QED BY <3>1 DEF OwnSender
  <2> QED BY <2>2, <2>3
<1>4. ASSUME NEW d \in Clients, CgiSend(d) \/ CgiRecv(d) \/ Kill(d)
      PROVE  pc[c] \in {"opened", "sending"} /\ buf'[c] = buf[c]
  BY <1>0, <1>1, <1>2, <1>4 DEF CgiSend, CgiRecv, Kill
<1>5. CASE DaemonStart \/ DaemonRecv \/ DaemonSend \/ DaemonExit
  <2>1. pc[c] \in {"opened", "sending"} /\ buf'[c] = buf[c]
    BY <1>0, <1>1, <1>2, <1>5 DEF DaemonStart, DaemonRecv, DaemonSend, DaemonExit
  <2> QED BY <2>1 DEF OwnSender
<1>6. CASE UNCHANGED vars
  BY <1>6 DEF vars, OwnSender
<1> QED BY <1>3, <1>4, <1>5, <1>6 DEF Next, OwnSender

-------------------------------------------------------------------------------
(* The queue is empty at first, and so is the mailbox.                      *)
LEMMA MailboxInit == Init => Queue!Init
<1> SUFFICES ASSUME Init PROVE Queue!Init
  OBVIOUS
<1>1. ChannelOK /\ q = <<>> /\ rcvq = <<>>
  BY ChannelInit DEF Init
<1>2. Box = <<>>
  <2>1. q \in Seq(Message) /\ Len(q) = 0
    BY <1>1, Frame
  <2>2. Owners(q) \in Seq(Clients) /\ Len(Owners(q)) = 0
    BY <2>1, OwnersType
  <2> QED BY <2>2, EmptySeq DEF Box
<1>3. Hand = <<>> /\ Waiting = {} /\ Got = [c \in Clients |-> <<>>]
  BY ChannelAssumption DEF Init, Hand, Waiting, Got, Procs
<1> QED BY <1>2, <1>3 DEF Queue!Init

(* Every step of the queue's users is a step of the mailbox's, or none.     *)
LEMMA MailboxStep ==
  ChannelOK /\ OwnSender /\ [Next]_vars => [Queue!Next]_(Queue!vars)
<1> SUFFICES ASSUME ChannelOK, OwnSender, [Next]_vars
             PROVE  Queue!Next \/ UNCHANGED Queue!vars
  OBVIOUS
<1>1. ASSUME NEW c \in Clients, CgiSend(c) PROVE Queue!Next \/ UNCHANGED Queue!vars
  BY <1>1, ClientSends DEF Queue!Next
<1>2. ASSUME NEW c \in Clients, CgiRecv(c) PROVE Queue!Next \/ UNCHANGED Queue!vars
  BY <1>2, ClientReceives
<1>3. ASSUME NEW c \in Clients, CgiStart(c) \/ Kill(c) PROVE Queue!Next
  BY <1>3, OthersAreFaults DEF Queue!Next
<1>4. CASE DaemonRecv
  BY <1>4, DaemonReceives
<1>5. CASE DaemonSend
  BY <1>5, DaemonSends DEF Queue!Next
<1>6. CASE DaemonStart \/ DaemonExit
  BY <1>6, OthersAreFaults DEF Queue!Next
<1>7. CASE UNCHANGED vars
  BY <1>7 DEF vars, Queue!vars, Box, Owners, Hand, Waiting, Got
<1> QED BY <1>1, <1>2, <1>3, <1>4, <1>5, <1>6, <1>7 DEF Next

(* The message queue, as cgiMain and webProcess use it, implements the      *)
(* mailbox.                                                                 *)
THEOREM QueueIsMailbox == Spec => IsMailbox
<1>1. Init => ChannelOK /\ OwnSender /\ Queue!Init
  BY ChannelInit, MailboxInit, ChannelAssumption DEF Init, OwnSender, Procs
<1>2. ChannelOK /\ OwnSender /\ [Next]_vars
        => ChannelOK' /\ OwnSender' /\ [Queue!Next]_(Queue!vars)
  BY ChannelStep, OwnSenderStep, MailboxStep
<1> QED BY <1>1, <1>2, PTL DEF Spec, IsMailbox, Queue!Spec
===============================================================================
