-------------------------------- MODULE Mailbox --------------------------------
(***************************************************************************)
(* What the message queue between the CGI processes and the daemon          *)
(* promises: a mailbox without limit, in which nobody waits.  Every request *)
(* is put behind the others; whoever takes a message, a client or the       *)
(* daemon, takes the oldest one, and nobody gets it again; the daemon puts  *)
(* back one message, of the same owner, for each it took.                   *)
(*                                                                          *)
(* Whose message a client takes is not promised.  One may be put in and     *)
(* another taken out at once: that is how the queue serves a process that   *)
(* has been waiting for a message, or for room.                             *)
(***************************************************************************)
EXTENDS Naturals, Sequences

CONSTANT Clients

VARIABLES
  box,     \* the owners of the messages in the mailbox, oldest first
  hand,    \* the owner of the message the daemon has taken, as <<owner>>, or <<>>
  expect,  \* the clients that have put in a request and not taken a message
  got      \* the owner of the message a client took, as <<owner>>, or <<>>

vars == <<box, hand, expect, got>>

Init ==
  /\ box = <<>>
  /\ hand = <<>>
  /\ expect = {}
  /\ got = [c \in Clients |-> <<>>]

(* What is in the box is b, and nothing is taken out.                       *)
Leave(b) ==
  /\ box' = b
  /\ UNCHANGED got

(* Client c takes the oldest message of b; those in E expect one, then.     *)
Collect(c, b, E) ==
  /\ c \in E
  /\ b # <<>>
  /\ box' = Tail(b)
  /\ got' = [got EXCEPT ![c] = <<Head(b)>>]
  /\ expect' = E \ {c}

(* The daemon takes the oldest message of b.                                *)
Fetch(b) ==
  /\ b # <<>>
  /\ box' = Tail(b)
  /\ hand' = <<Head(b)>>
  /\ UNCHANGED got

(* A client starts over.                                                    *)
Begin(c) ==
  /\ c \notin expect
  /\ got' = [got EXCEPT ![c] = <<>>]
  /\ UNCHANGED <<box, hand, expect>>

(* A client puts in its request; somebody may take a message meanwhile.     *)
Post(c) ==
  /\ c \notin expect
  /\ LET b == Append(box, c)
         E == expect \cup {c}
     IN  \/ Leave(b) /\ expect' = E /\ UNCHANGED hand
         \/ \E d \in expect : Collect(d, b, E) /\ UNCHANGED hand
         \/ hand = <<>> /\ Fetch(b) /\ expect' = E

(* The daemon puts in its answer; a client may take a message meanwhile.    *)
Reply ==
  /\ hand # <<>>
  /\ hand' = <<>>
  /\ \/ Leave(box \o hand) /\ UNCHANGED expect
     \/ \E d \in expect : Collect(d, box \o hand, expect)

Take ==
  \/ \E c \in expect : Collect(c, box, expect) /\ UNCHANGED hand
  \/ hand = <<>> /\ Fetch(box) /\ UNCHANGED expect

(* A client that expects a message is killed, and the message stays; the    *)
(* daemon ends, and the message it has taken is lost.                       *)
GiveUp(c) ==
  /\ expect' = expect \ {c}
  /\ UNCHANGED <<box, hand, got>>

Lose ==
  /\ hand' = <<>>
  /\ UNCHANGED <<box, expect, got>>

Next ==
  \/ \E c \in Clients : Begin(c) \/ Post(c) \/ GiveUp(c)
  \/ Reply \/ Take \/ Lose

Spec == Init /\ [][Next]_vars
===============================================================================
