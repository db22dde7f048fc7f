----------------------------- MODULE PostOffice -----------------------------
(***************************************************************************)
(* Two or more Nachos machines on a network that may lose packets: class   *)
(* Network (socket, one packet of input buffer, polling), class PostOffice *)
(* with its postal worker thread and mailboxes, SynchList, and the test    *)
(* program MailTest of nettest.cc, which machine m runs with farAddr =     *)
(* Far[m].                                                                 *)
(*                                                                         *)
(* Locks and conditions are the empty ones of synch.cc: Condition::Wait is *)
(* ASSERT(FALSE), so a Receive that finds its mailbox empty stops Nachos.  *)
(* A packet is a record of the two headers and the text.                   *)
(***************************************************************************)
EXTENDS Integers, Sequences

CONSTANTS
  Machines,
  Far,          \* the address each machine is given with -o
  Boxes,        \* the mailboxes: 0..9 in system.cc
  Lossy         \* TRUE iff the reliability (-l) is below 1

ASSUME PostOfficeAssumption ==
  /\ Far \in [Machines -> Machines]
  /\ {0, 1} \subseteq Boxes
  /\ Lossy \in BOOLEAN

VARIABLES
  pc,                \* where MailTest is on each machine
  socket,            \* the packets waiting at each machine's socket
  inHdr,             \* Network::inHdr and inbox: <<>> or <<packet>>
  sending,           \* TRUE iff a NetworkSendDone interrupt is pending
  messageAvailable, messageSent,
  taken,             \* TRUE iff the worker is past P, before Receive
  boxes,
  reply,             \* the headers of the last mail received
  posted,            \* history: the packets put on each machine's wire
  delivered          \* history: the packets the worker has put in boxes

netVars == <<socket, inHdr, sending, posted>>
poVars  == <<messageAvailable, messageSent, taken, boxes, delivered>>
vars    == <<pc, netVars, poVars, reply>>

(* MailTest's steps, in order.                                             *)
Start == 0
Hello == 1
WaitHello == 2
GetHello == 3
Ack == 4
WaitAck == 5
GetAck == 6
Done == 7
Refused == 8
Stuck == 9

Up(m) == pc[m] \in Hello..GetAck

Init ==
  /\ pc = [m \in Machines |-> Start]
  /\ socket = [m \in Machines |-> <<>>]
  /\ inHdr = [m \in Machines |-> <<>>]
  /\ sending = [m \in Machines |-> FALSE]
  /\ messageAvailable = [m \in Machines |-> 0]
  /\ messageSent = [m \in Machines |-> 0]
  /\ taken = [m \in Machines |-> FALSE]
  /\ boxes = [m \in Machines |-> [b \in Boxes |-> <<>>]]
  /\ reply = [m \in Machines |-> <<>>]
  /\ posted = [m \in Machines |-> <<>>]
  /\ delivered = [m \in Machines |-> <<>>]

Goto(m, place) == pc' = [pc EXCEPT ![m] = place]

(* The PostOffice and Network constructors: the socket is bound, the       *)
(* polling starts, the worker is forked.                                   *)
Boot(m) ==
  /\ pc[m] = Start
  /\ Goto(m, Hello)
  /\ UNCHANGED <<netVars, poVars, reply>>

(* The packet goes to the socket that its addressee has bound.             *)
SendToSocket(pkt) ==
  /\ Up(pkt.to)
  /\ socket' = [socket EXCEPT ![pkt.to] = Append(@, pkt)]
  /\ posted' = [posted EXCEPT ![pkt.to] = Append(@, pkt)]

(* Network::Send: the interrupt is scheduled before the packet is lost or  *)
(* sent.                                                                   *)
NetworkSend(m, pkt) ==
  /\ sending' = [sending EXCEPT ![m] = TRUE]
  /\ \/ Lossy /\ UNCHANGED <<socket, posted>>
     \/ SendToSocket(pkt)

(* PostOffice::Send up to messageSent->P().  SendToSocket asserts that the *)
(* addressee has bound its socket.                                         *)
Send(m, pkt, then) ==
  \/ NetworkSend(m, pkt) /\ Goto(m, then)
  \/ /\ ~Up(pkt.to)
     /\ Goto(m, Refused)
     /\ UNCHANGED <<socket, sending, posted>>

SendHello(m) ==
  /\ pc[m] = Hello
  /\ Send(m, [to |-> Far[m], from |-> m, box |-> 0, reply |-> 1,
              text |-> "Hello there!"], WaitHello)
  /\ UNCHANGED <<inHdr, poVars, reply>>

(* The acknowledgement goes to the "reply to" box of what arrived.         *)
SendAck(m) ==
  /\ pc[m] = Ack
  /\ Send(m, [to |-> reply[m].from, from |-> m, box |-> reply[m].reply,
              reply |-> 1, text |-> "Got it!"], WaitAck)
  /\ UNCHANGED <<inHdr, poVars, reply>>

(* messageSent->P(), once the interrupt has come.                          *)
Sent(m) ==
  /\ pc[m] \in {WaitHello, WaitAck}
  /\ messageSent[m] > 0
  /\ messageSent' = [messageSent EXCEPT ![m] = @ - 1]
  /\ Goto(m, pc[m] + 1)
  /\ UNCHANGED <<netVars, messageAvailable, taken, boxes, reply, delivered>>

(* SynchList::Append and Remove.  Signal does nothing, and Wait, on an     *)
(* empty list, is ASSERT(FALSE).                                           *)
SynchAppend(m, b, mail) == boxes' = [boxes EXCEPT ![m][b] = Append(@, mail)]

SynchRemove(m, b) ==
  /\ boxes[m][b] # <<>>
  /\ boxes' = [boxes EXCEPT ![m][b] = Tail(@)]

(* MailBox::Put and Get: the mail is copied in and out.                    *)
Put(m, pkt) == SynchAppend(m, pkt.box, pkt)

Get(m, b) ==
  /\ SynchRemove(m, b)
  /\ reply' = [reply EXCEPT ![m] = Head(boxes[m][b])]

(* PostOffice::Receive.                                                    *)
Receive(m, b, then) ==
  /\ \/ Get(m, b) /\ Goto(m, then)
     \/ boxes[m][b] = <<>> /\ Goto(m, Stuck) /\ UNCHANGED <<boxes, reply>>
  /\ UNCHANGED <<netVars, messageAvailable, messageSent, taken, delivered>>

ReceiveHello(m) == pc[m] = GetHello /\ Receive(m, 0, Ack)

(* Mutant of ReceiveAck: MailTest halts without waiting for the            *)
(* acknowledgement.                                                        *)
HaltAtOnce(m) ==
  /\ pc[m] = GetAck
  /\ Goto(m, Done)
  /\ UNCHANGED <<netVars, poVars, reply>>

(* The last Receive, and Halt: the socket is closed.                       *)
ReceiveAck(m) == pc[m] = GetAck /\ Receive(m, 1, Done)

(* Mutant of SendDone: the handler of the post office is not called.       *)
SendDoneSilent(m) ==
  /\ Up(m) /\ sending[m]
  /\ sending' = [sending EXCEPT ![m] = FALSE]
  /\ UNCHANGED <<pc, socket, inHdr, posted, poVars, reply>>

PacketSent(m) == messageSent' = [messageSent EXCEPT ![m] = @ + 1]

(* NetworkSendDone: Network::SendDone, with its handler PacketSent.        *)
SendDone(m) ==
  /\ Up(m) /\ sending[m]
  /\ sending' = [sending EXCEPT ![m] = FALSE]
  /\ PacketSent(m)
  /\ UNCHANGED <<pc, socket, inHdr, posted, messageAvailable, taken, boxes,
                 delivered, reply>>

(* The host's socket: is there a packet, and take it.                      *)
PollSocket(m) == socket[m] # <<>>

ReadFromSocket(m) ==
  /\ inHdr' = [inHdr EXCEPT ![m] = <<Head(socket[m])>>]
  /\ socket' = [socket EXCEPT ![m] = Tail(@)]

IncomingPacket(m) == messageAvailable' = [messageAvailable EXCEPT ![m] = @ + 1]

(* Mutant of CheckPktAvail: the input buffer is not looked at.             *)
CheckPktAlways(m) ==
  /\ Up(m) /\ PollSocket(m)
  /\ ReadFromSocket(m)
  /\ IncomingPacket(m)
  /\ UNCHANGED <<pc, sending, posted, messageSent, taken, boxes, delivered, reply>>

(* The poll interrupt, which reschedules itself: CheckPktAvail moves one   *)
(* packet into an empty buffer and calls IncomingPacket.                   *)
CheckPktAvail(m) ==
  /\ Up(m) /\ inHdr[m] = <<>> /\ PollSocket(m)
  /\ ReadFromSocket(m)
  /\ IncomingPacket(m)
  /\ UNCHANGED <<pc, sending, posted, messageSent, taken, boxes, delivered, reply>>

(* PostalDelivery: P, then (interrupts may come in between) Receive and    *)
(* Put.                                                                    *)
WorkerP(m) ==
  /\ Up(m) /\ ~taken[m] /\ messageAvailable[m] > 0
  /\ messageAvailable' = [messageAvailable EXCEPT ![m] = @ - 1]
  /\ taken' = [taken EXCEPT ![m] = TRUE]
  /\ UNCHANGED <<pc, netVars, messageSent, boxes, delivered, reply>>

(* Network::Receive empties the buffer.                                    *)
NetworkReceive(m) == inHdr' = [inHdr EXCEPT ![m] = <<>>]

PostalDelivery(m) ==
  LET pkt == inHdr[m][1]
  IN  /\ Up(m) /\ taken[m]
      /\ taken' = [taken EXCEPT ![m] = FALSE]
      /\ NetworkReceive(m)
      /\ Put(m, pkt)
      /\ delivered' = [delivered EXCEPT ![m] = Append(@, pkt)]
      /\ UNCHANGED <<pc, socket, sending, posted, messageAvailable, messageSent,
                     reply>>

Next == \E m \in Machines :
  \/ Boot(m)
  \/ SendHello(m) \/ SendAck(m) \/ Sent(m)
  \/ ReceiveHello(m) \/ ReceiveAck(m)
  \/ SendDone(m) \/ CheckPktAvail(m)
  \/ WorkerP(m) \/ PostalDelivery(m)

(* The simulated clock reaches every pending interrupt, and the scheduler  *)
(* every ready thread.                                                     *)
Fairness == \A m \in Machines :
  /\ WF_vars(SendHello(m)) /\ WF_vars(SendAck(m)) /\ WF_vars(Sent(m))
  /\ WF_vars(ReceiveHello(m)) /\ WF_vars(ReceiveAck(m))
  /\ WF_vars(SendDone(m)) /\ WF_vars(CheckPktAvail(m))
  /\ WF_vars(WorkerP(m)) /\ WF_vars(PostalDelivery(m))

Spec == Init /\ [][Next]_vars /\ Fairness

-----------------------------------------------------------------------------
(* Properties.                                                             *)

(* What reaches the wire is neither lost, duplicated nor reordered: the    *)
(* one-packet buffer is never overwritten before the worker empties it,    *)
(* and the worker never reads it empty.                                    *)
WireToBox ==
  \A m \in Machines : posted[m] = delivered[m] \o inHdr[m] \o socket[m]

(* A machine that finished MailTest got the other's acknowledgement, and   *)
(* its own message had been delivered before; and no machine finds the     *)
(* other's socket closed because it has finished and halted.               *)
FinishedTogether ==
  \A m \in Machines : pc[m] = Done =>
    /\ pc[Far[m]] # Refused
    /\ reply[m].text = "Got it!" /\ reply[m].from = Far[m]
    /\ \E i \in DOMAIN delivered[Far[m]] :
         delivered[Far[m]][i].from = m /\ delivered[Far[m]][i].text = "Hello there!"

(* A thread in Send is always told that its packet has gone, lost packets  *)
(* included.                                                               *)
SendReturns == \A m \in Machines :
  /\ pc[m] = WaitHello ~> pc[m] # WaitHello
  /\ pc[m] = WaitAck ~> pc[m] # WaitAck

=============================================================================
