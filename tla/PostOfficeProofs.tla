-------------------------- MODULE PostOfficeProofs --------------------------
(***************************************************************************)
(* Proofs about the network and the post office, for any number of         *)
(* machines, each with any far address, and with or without packet loss.   *)
(***************************************************************************)
EXTENDS PostOffice, SequenceTheorems, TLAPS

Packets == [to : Machines, from : Machines, box : Boxes, reply : Boxes,
            text : {"Hello there!", "Got it!"}]

(* MailTest answers only what it has received.                             *)
TypeOK ==
  /\ pc \in [Machines -> Start..Stuck]
  /\ socket \in [Machines -> Seq(Packets)]
  /\ inHdr \in [Machines -> Seq(Packets)]
  /\ sending \in [Machines -> BOOLEAN]
  /\ messageAvailable \in [Machines -> Nat]
  /\ messageSent \in [Machines -> Nat]
  /\ taken \in [Machines -> BOOLEAN]
  /\ boxes \in [Machines -> [Boxes -> Seq(Packets)]]
  /\ reply \in [Machines -> Packets \cup {<<>>}]
  /\ posted \in [Machines -> Seq(Packets)]
  /\ delivered \in [Machines -> Seq(Packets)]
  /\ \A m \in Machines : pc[m] = Ack => reply[m] \in Packets

(* The input buffer is full exactly when the worker has been told, or is   *)
(* about to empty it.                                                      *)
Announced ==
  \A m \in Machines :
    /\ inHdr[m] = <<>> => messageAvailable[m] = 0 /\ ~taken[m]
    /\ inHdr[m] # <<>> => /\ Len(inHdr[m]) = 1
                          /\ messageAvailable[m] = IF taken[m] THEN 0 ELSE 1

IInv == TypeOK /\ Announced /\ WireToBox

(* MailTest has sent its acknowledgement, or has stopped without one; it   *)
(* never leaves these places.                                              *)
Answered == {WaitAck, GetAck, Done, Stuck}

(* The Hello of machine n has come to machine m's boxes.                   *)
Heard(m, n) ==
  \E i \in DOMAIN delivered[m] :
    delivered[m][i].from = n /\ delivered[m][i].text = "Hello there!"

(* The packets that may be on their way to machine m: the Hello of a       *)
(* machine that was told m's address, and the acknowledgement of the       *)
(* machine that m greeted.                                                 *)
Genuine(m) ==
  {pkt \in Packets :
     \/ /\ pkt.text = "Hello there!"
        /\ pkt.box = 0 /\ pkt.reply = 1 /\ Far[pkt.from] = m
     \/ /\ pkt.text = "Got it!"
        /\ pkt.box = 1 /\ Far[m] = pkt.from
        /\ pc[pkt.from] \in Answered /\ Heard(pkt.from, m)}

(* Those that have come to its box b.                                      *)
Held(m, b) ==
  {pkt \in Genuine(m) :
     pkt.box = b /\ \E i \in DOMAIN delivered[m] : delivered[m][i] = pkt}

(* There is no other mail at the socket, in the buffer and in the boxes,   *)
(* and MailTest acts on no other.                                          *)
Mail ==
  \A m \in Machines :
    /\ socket[m] \in Seq(Genuine(m))
    /\ inHdr[m] \in Seq(Genuine(m))
    /\ \A b \in Boxes : boxes[m][b] \in Seq(Held(m, b))
    /\ pc[m] = Ack => reply[m] \in Held(m, 0)
    /\ pc[m] = Done => reply[m] \in Held(m, 1)

-----------------------------------------------------------------------------
(* What the three moves of a packet do to the sequence on the wire: to the *)
(* socket, into the buffer and out of it.                                  *)
LEMMA MoveOn ==
  \A d, b, s \in Seq(Packets), x \in Packets :
    Append(d \o b \o s, x) = d \o b \o Append(s, x)
<1>1. \A d, s \in Seq(Packets), x \in Packets : Append(d \o s, x) = d \o Append(s, x)
  BY SMTT(60)
<1>2. \A d, b \in Seq(Packets) : d \o b \in Seq(Packets)
  BY SMTT(60)
<1> QED BY <1>1, <1>2, ZenonT(60)

(* A packet moves from the socket into the empty buffer.                   *)
LEMMA MoveIn ==
  ASSUME NEW S, NEW d \in Seq(S), NEW s \in Seq(S), s # <<>>
  PROVE  d \o <<>> \o s = d \o <<Head(s)>> \o Tail(s)
<1>1. Head(s) \in S /\ Tail(s) \in Seq(S) /\ <<Head(s)>> \in Seq(S)
  BY HeadTailProperties, SMTT(60)
<1>2. s = <<Head(s)>> \o Tail(s)
  BY <1>1, SMTT(60)
<1>3. d \o <<>> = d
  BY ConcatEmptySeq, ZenonT(60)
<1>4. (d \o <<Head(s)>>) \o Tail(s) = d \o (<<Head(s)>> \o Tail(s))
  BY <1>1, ConcatAssociative, SMTT(60)
<1> QED BY <1>2, <1>3, <1>4, ZenonT(60)

(* A packet moves from the buffer into a mailbox.                          *)
LEMMA MoveOut ==
  ASSUME NEW S, NEW d \in Seq(S), NEW s \in Seq(S), NEW x \in S
  PROVE  d \o <<x>> \o s = Append(d, x) \o <<>> \o s
<1>1. Append(d, x) = d \o <<x>> /\ Append(d, x) \in Seq(S)
  BY AppendIsConcat, AppendProperties, ZenonT(60)
<1>2. Append(d, x) \o <<>> = Append(d, x)
  BY <1>1, ConcatEmptySeq, ZenonT(60)
<1> QED BY <1>1, <1>2, ZenonT(60)

(* One Send keeps the invariant: a lost or refused packet never reaches    *)
(* the wire.                                                               *)
LEMMA SendStep ==
  ASSUME IInv, NEW m \in Machines, NEW pkt \in Packets,
         NEW then \in {WaitHello, WaitAck}, Send(m, pkt, then),
         UNCHANGED <<inHdr, poVars, reply>>
  PROVE  IInv'
<1> USE DEF IInv
<1>0. UNCHANGED <<inHdr, messageAvailable, messageSent, taken, boxes, delivered, reply>>
  BY ZenonT(60) DEF poVars
<1>1. pc' \in [Machines -> Start..Stuck]
      /\ \A n \in Machines : pc'[n] = Ack => pc[n] = Ack
  <2>1. PICK place \in {WaitHello, WaitAck, Refused} : pc' = [pc EXCEPT ![m] = place]
    BY ZenonT(60) DEF Send, Goto
  <2> QED BY <2>1, SMTT(60)
             DEF TypeOK, Start, Stuck, WaitHello, WaitAck, Refused, Ack
<1>2. CASE UNCHANGED <<socket, posted>> /\ sending' \in [Machines -> BOOLEAN]
  BY <1>0, <1>1, <1>2, ZenonT(60) DEF TypeOK, Announced, WireToBox
<1>3. CASE SendToSocket(pkt) /\ sending' \in [Machines -> BOOLEAN]
  <2>1. pkt.to \in Machines
    BY ZenonT(60) DEF Packets
  <2>2. socket' \in [Machines -> Seq(Packets)] /\ posted' \in [Machines -> Seq(Packets)]
    <3>1. /\ Append(socket[pkt.to], pkt) \in Seq(Packets)
          /\ Append(posted[pkt.to], pkt) \in Seq(Packets)
      BY <2>1, AppendProperties, ZenonT(60) DEF TypeOK
    <3> QED BY <1>3, <3>1, ZenonT(60) DEF SendToSocket, TypeOK
  <2>3. TypeOK' /\ Announced'
    BY <1>0, <1>1, <1>3, <2>2, ZenonT(60) DEF TypeOK, Announced
  <2>4. WireToBox'
    <3> SUFFICES ASSUME NEW n \in Machines
                 PROVE  posted'[n] = delivered'[n] \o inHdr'[n] \o socket'[n]
      BY ZenonT(60) DEF WireToBox
    <3>1. CASE n # pkt.to
      BY <1>0, <1>3, <3>1, ZenonT(60) DEF SendToSocket, TypeOK, WireToBox
    <3>2. CASE n = pkt.to
      <4>1. posted'[n] = Append(posted[n], pkt) /\ socket'[n] = Append(socket[n], pkt)
        BY <1>3, <3>2, ZenonT(60) DEF SendToSocket, TypeOK
      <4>2. posted[n] = delivered[n] \o inHdr[n] \o socket[n]
        BY ZenonT(60) DEF WireToBox
      <4>3. /\ delivered[n] \in Seq(Packets) /\ inHdr[n] \in Seq(Packets)
            /\ socket[n] \in Seq(Packets)
        BY ZenonT(60) DEF TypeOK
      <4>4. Append(delivered[n] \o inHdr[n] \o socket[n], pkt)
              = delivered[n] \o inHdr[n] \o Append(socket[n], pkt)
        BY <4>3, MoveOn, ZenonT(60)
      <4> QED BY <1>0, <4>1, <4>2, <4>4, ZenonT(60)
    <3> QED BY <3>1, <3>2, ZenonT(60)
  <2> QED BY <2>3, <2>4, ZenonT(60)
<1> QED BY <1>2, <1>3, ZenonT(60) DEF Send, NetworkSend, TypeOK

(* CheckPktAvail fills the buffer only when it is empty.                   *)
LEMMA CheckPktAvailStep ==
  ASSUME IInv, NEW m \in Machines, CheckPktAvail(m)
  PROVE  IInv'
<1> USE DEF IInv
<1>1. /\ inHdr[m] = <<>> /\ socket[m] # <<>>
      /\ inHdr' = [inHdr EXCEPT ![m] = <<Head(socket[m])>>]
      /\ socket' = [socket EXCEPT ![m] = Tail(@)]
      /\ messageAvailable' = [messageAvailable EXCEPT ![m] = @ + 1]
      /\ UNCHANGED <<pc, sending, posted, messageSent, taken, boxes, delivered, reply>>
  BY ZenonT(60) DEF CheckPktAvail, PollSocket, ReadFromSocket, IncomingPacket
<1>2. /\ socket[m] \in Seq(Packets) /\ delivered[m] \in Seq(Packets)
      /\ Head(socket[m]) \in Packets /\ Tail(socket[m]) \in Seq(Packets)
      /\ <<Head(socket[m])>> \in Seq(Packets)
  <2>1. socket[m] \in Seq(Packets) /\ delivered[m] \in Seq(Packets)
    BY ZenonT(60) DEF TypeOK
  <2> QED BY <1>1, <2>1, HeadTailProperties, SMTT(60)
<1>3. TypeOK'
  BY <1>1, <1>2, SMTT(60) DEF TypeOK
<1>4. Announced'
  BY <1>1, <1>2, SMTT(60) DEF Announced, TypeOK
<1>5. WireToBox'
  <2>1. posted[m] = delivered[m] \o <<>> \o socket[m]
    BY <1>1, ZenonT(60) DEF WireToBox
  <2>2. posted[m] = delivered[m] \o <<Head(socket[m])>> \o Tail(socket[m])
    BY <1>1, <1>2, <2>1, MoveIn, ZenonT(60)
  <2> QED BY <1>1, <2>2, ZenonT(60) DEF WireToBox, TypeOK
<1> QED BY <1>3, <1>4, <1>5, ZenonT(60)

(* The worker takes the one packet there is.                               *)
LEMMA PostalDeliveryStep ==
  ASSUME IInv, NEW m \in Machines, PostalDelivery(m)
  PROVE  IInv'
<1> USE DEF IInv
<1> DEFINE pkt == inHdr[m][1]
<1>1. /\ taken[m]
      /\ taken' = [taken EXCEPT ![m] = FALSE]
      /\ inHdr' = [inHdr EXCEPT ![m] = <<>>]
      /\ boxes' = [boxes EXCEPT ![m][pkt.box] = Append(@, pkt)]
      /\ delivered' = [delivered EXCEPT ![m] = Append(@, pkt)]
      /\ UNCHANGED <<pc, socket, sending, posted, messageAvailable, messageSent, reply>>
  BY ZenonT(60) DEF PostalDelivery, NetworkReceive, Put, SynchAppend
<1>2. inHdr[m] \in Seq(Packets) /\ Len(inHdr[m]) = 1
  BY <1>1, ZenonT(60) DEF Announced, TypeOK
<1>3. pkt \in Packets /\ inHdr[m] = <<pkt>> /\ pkt.box \in Boxes
  <2>1. pkt \in Packets
    BY <1>2, ElementOfSeq, SMTT(60)
  <2>2. inHdr[m] = <<pkt>>
    BY <1>2, SMTT(60)
  <2>3. pkt.box \in Boxes
    BY <2>1, ZenonT(60) DEF Packets
  <2> QED BY <2>1, <2>2, <2>3, ZenonT(60)
<1> HIDE DEF pkt
<1>4. TypeOK'
  <2>1. boxes' \in [Machines -> [Boxes -> Seq(Packets)]]
    BY <1>1, <1>3, SMTT(60) DEF TypeOK
  <2>2. delivered' \in [Machines -> Seq(Packets)] /\ inHdr' \in [Machines -> Seq(Packets)]
    BY <1>1, <1>3, SMTT(60) DEF TypeOK
  <2> QED BY <1>1, <2>1, <2>2, ZenonT(60) DEF TypeOK
<1>5. Announced'
  BY <1>1, <1>3, ZenonT(60) DEF Announced, TypeOK
<1>6. WireToBox'
  <2>1. posted[m] = delivered[m] \o <<pkt>> \o socket[m]
    BY <1>3, ZenonT(60) DEF WireToBox
  <2>2. delivered[m] \in Seq(Packets) /\ socket[m] \in Seq(Packets)
    BY ZenonT(60) DEF TypeOK
  <2>3. posted[m] = Append(delivered[m], pkt) \o <<>> \o socket[m]
    <3>1. delivered[m] \o <<pkt>> \o socket[m]
            = Append(delivered[m], pkt) \o <<>> \o socket[m]
      BY <1>3, <2>2, MoveOut, ZenonT(60)
    <3> QED BY <2>1, <3>1, ZenonT(60)
  <2> QED BY <1>1, <2>3, ZenonT(60) DEF WireToBox, TypeOK
<1> QED BY <1>4, <1>5, <1>6, ZenonT(60)

(* Receive leaves the wire alone.                                          *)
LEMMA ReceiveStep ==
  ASSUME IInv, NEW m \in Machines, NEW b \in Boxes, NEW then \in {Ack, Done},
         Receive(m, b, then)
  PROVE  IInv'
<1> USE DEF IInv
<1>1. UNCHANGED <<socket, inHdr, sending, posted, messageAvailable, messageSent,
                  taken, delivered>>
  BY ZenonT(60) DEF Receive, netVars
<1>2. Announced' /\ WireToBox'
  BY <1>1, ZenonT(60) DEF Announced, WireToBox
<1>3. CASE Get(m, b) /\ Goto(m, then)
  <2>1. boxes[m][b] \in Seq(Packets) /\ boxes[m][b] # <<>>
    BY <1>3, ZenonT(60) DEF Get, SynchRemove, TypeOK
  <2>2. Head(boxes[m][b]) \in Packets /\ Tail(boxes[m][b]) \in Seq(Packets)
    BY <2>1, HeadTailProperties, ZenonT(60)
  <2>3. boxes' \in [Machines -> [Boxes -> Seq(Packets)]]
    BY <1>3, <2>2, ZenonT(60) DEF Get, SynchRemove, TypeOK
  <2>4. /\ reply' \in [Machines -> Packets \cup {<<>>}]
        /\ \A n \in Machines : reply'[n] = reply[n] \/ reply'[n] \in Packets
    BY <1>3, <2>2, ZenonT(60) DEF Get, TypeOK
  <2>5. /\ pc' \in [Machines -> Start..Stuck]
        /\ \A n \in Machines \ {m} : pc'[n] = pc[n]
        /\ reply'[m] \in Packets
    BY <1>3, <2>2, SMTT(60) DEF Get, Goto, TypeOK, Start, Stuck, Ack, Done
  <2> QED BY <1>1, <1>2, <2>3, <2>4, <2>5, ZenonT(60) DEF TypeOK
<1>4. CASE Goto(m, Stuck) /\ UNCHANGED <<boxes, reply>>
  BY <1>1, <1>2, <1>4, SMTT(60) DEF TypeOK, Goto, Start, Stuck, Ack
<1> QED BY <1>3, <1>4, ZenonT(60) DEF Receive

(* The invariant holds initially.                                          *)
LEMMA InitIInv ==
  Init => IInv
<1> SUFFICES ASSUME Init PROVE IInv
  BY ZenonT(60)
<1>1. TypeOK
  BY SMTT(60) DEF Init, TypeOK, Start, Stuck, Ack
<1>2. Announced
  BY ZenonT(60) DEF Init, Announced
<1>3. <<>> \o <<>> \o <<>> = <<>>
  BY SMTT(60)
<1>4. WireToBox
  BY <1>3, ZenonT(60) DEF Init, WireToBox
<1> QED BY <1>1, <1>2, <1>4, ZenonT(60) DEF IInv

(* Every step preserves the invariant.                                     *)
LEMMA StepIInv ==
  IInv /\ [Next]_vars => IInv'
<1> SUFFICES ASSUME IInv, [Next]_vars PROVE IInv'
  BY ZenonT(60)
<1> USE DEF IInv
<1>1. ASSUME NEW m \in Machines, Boot(m) PROVE IInv'
  <2>1. TypeOK'
    BY <1>1, SMTT(60)
       DEF Boot, Goto, netVars, poVars, TypeOK, Start, Stuck, Hello, Ack
  <2> QED BY <1>1, <2>1, ZenonT(60)
             DEF Boot, netVars, poVars, Announced, WireToBox
<1>2. ASSUME NEW m \in Machines, SendHello(m) PROVE IInv'
  <2> DEFINE pkt == [to |-> Far[m], from |-> m, box |-> 0, reply |-> 1,
                     text |-> "Hello there!"]
  <2>1. pkt \in Packets
    BY PostOfficeAssumption, ZenonT(60) DEF Packets
  <2> QED BY <1>2, <2>1, SendStep, ZenonT(60) DEF SendHello
<1>3. ASSUME NEW m \in Machines, SendAck(m) PROVE IInv'
  <2> DEFINE pkt == [to |-> reply[m].from, from |-> m, box |-> reply[m].reply,
                     reply |-> 1, text |-> "Got it!"]
  <2>1. reply[m] \in Packets
    BY <1>3, ZenonT(60) DEF SendAck, TypeOK
  <2>2. pkt \in Packets
    BY <2>1, PostOfficeAssumption, ZenonT(60) DEF Packets
  <2> QED BY <1>3, <2>2, SendStep, ZenonT(60) DEF SendAck
<1>4. ASSUME NEW m \in Machines, Sent(m) PROVE IInv'
  <2>1. TypeOK'
    <3>1. pc' \in [Machines -> Start..Stuck]
          /\ \A n \in Machines : pc'[n] = Ack => pc[n] = Ack
      BY <1>4, SMTT(60)
         DEF Sent, Goto, TypeOK, Start, Stuck, WaitHello, WaitAck, Ack
    <3>2. messageSent' \in [Machines -> Nat]
      BY <1>4, SMTT(60) DEF Sent, TypeOK
    <3> QED BY <1>4, <3>1, <3>2, ZenonT(60) DEF Sent, netVars, TypeOK
  <2> QED BY <1>4, <2>1, ZenonT(60) DEF Sent, netVars, Announced, WireToBox
<1>5. ASSUME NEW m \in Machines, ReceiveHello(m) \/ ReceiveAck(m) PROVE IInv'
  BY <1>5, ReceiveStep, PostOfficeAssumption, ZenonT(60)
     DEF ReceiveHello, ReceiveAck
<1>6. ASSUME NEW m \in Machines, SendDone(m) PROVE IInv'
  <2>1. TypeOK'
    BY <1>6, SMTT(60) DEF SendDone, PacketSent, TypeOK
  <2> QED BY <1>6, <2>1, ZenonT(60) DEF SendDone, Announced, WireToBox
<1>7. ASSUME NEW m \in Machines, WorkerP(m) PROVE IInv'
  <2>1. TypeOK'
    BY <1>7, SMTT(60) DEF WorkerP, netVars, TypeOK
  <2>2. Announced'
    BY <1>7, SMTT(60) DEF WorkerP, netVars, TypeOK, Announced
  <2> QED BY <1>7, <2>1, <2>2, ZenonT(60) DEF WorkerP, netVars, WireToBox
<1>8. CASE UNCHANGED vars
  BY <1>8, ZenonT(60) DEF vars, netVars, poVars, TypeOK, Announced, WireToBox
<1> QED BY <1>1, <1>2, <1>3, <1>4, <1>5, <1>6, <1>7, <1>8,
           CheckPktAvailStep, PostalDeliveryStep, ZenonT(60) DEF Next

-----------------------------------------------------------------------------
(* For any number of machines: every packet on the wire comes to its       *)
(* machine's boxes once and in order, through a buffer for one packet that *)
(* an interrupt handler fills and the postal worker empties.               *)
THEOREM WireCorrectness ==
  Spec => []WireToBox
<1>1. IInv => WireToBox
  BY ZenonT(60) DEF IInv
<1> QED BY <1>1, InitIInv, StepIInv, PTL DEF Spec

-----------------------------------------------------------------------------
(* A machine that has answered stays so, and delivered mail is never taken *)
(* back.                                                                   *)
LEMMA Grows ==
  ASSUME IInv, [Next]_vars, NEW m \in Machines
  PROVE  /\ pc[m] \in Answered => pc'[m] \in Answered
         /\ \A i \in DOMAIN delivered[m] :
              i \in DOMAIN delivered'[m] /\ delivered'[m][i] = delivered[m][i]
<1>1. pc[m] \in Answered => pc'[m] \in Answered
  <2> SUFFICES ASSUME pc[m] \in Answered PROVE pc'[m] \in Answered
    BY ZenonT(60)
  <2>1. pc \in [Machines -> Start..Stuck]
    BY ZenonT(60) DEF IInv, TypeOK
  <2>2. ASSUME NEW n \in Machines,
               Boot(n) \/ SendHello(n) \/ SendAck(n) \/ Sent(n)
                 \/ ReceiveHello(n) \/ ReceiveAck(n)
        PROVE  pc'[m] \in Answered
    <3>1. PICK place :
            /\ pc' = [pc EXCEPT ![n] = place]
            /\ \/ pc[n] \in {Start, Hello, Ack, GetHello}
               \/ pc[n] \in {WaitHello, WaitAck} /\ place = pc[n] + 1
               \/ pc[n] = GetAck /\ place \in {Done, Stuck}
      BY <2>2, ZenonT(60)
         DEF Boot, SendHello, SendAck, Sent, ReceiveHello, ReceiveAck, Send, Receive, Goto
    <3>2. pc[n] \in Answered => place \in Answered
      BY <3>1, SMTT(60)
         DEF Answered, Start, Hello, WaitHello, GetHello, Ack, WaitAck, GetAck, Done, Stuck
    <3> QED BY <2>1, <3>1, <3>2, ZenonT(60)
  <2>3. ASSUME NEW n \in Machines,
               SendDone(n) \/ CheckPktAvail(n) \/ WorkerP(n) \/ PostalDelivery(n)
        PROVE  pc' = pc
    BY <2>3, ZenonT(60) DEF SendDone, CheckPktAvail, WorkerP, PostalDelivery
  <2> QED BY <2>2, <2>3, ZenonT(60) DEF Next, vars
<1>2. ASSUME NEW i \in DOMAIN delivered[m]
      PROVE  i \in DOMAIN delivered'[m] /\ delivered'[m][i] = delivered[m][i]
  <2>1. ASSUME NEW n \in Machines, PostalDelivery(n)
        PROVE  i \in DOMAIN delivered'[m] /\ delivered'[m][i] = delivered[m][i]
    <3>1. delivered[m] \in Seq(Packets) /\ delivered[n] \in Seq(Packets)
      BY ZenonT(60) DEF IInv, TypeOK
    <3>2. \A d \in Seq(Packets) : \A x : \A j \in DOMAIN d :
            j \in DOMAIN Append(d, x) /\ Append(d, x)[j] = d[j]
      BY SMTT(60)
    <3>3. \/ delivered'[m] = delivered[m]
          \/ \E x : delivered'[m] = Append(delivered[m], x)
      BY <2>1, ZenonT(60) DEF PostalDelivery, IInv, TypeOK
    <3>4. CASE \E x : delivered'[m] = Append(delivered[m], x)
      <4>1. PICK x : delivered'[m] = Append(delivered[m], x)
        BY <3>4, ZenonT(60)
      <4> QED BY <3>1, <3>2, <4>1, SMTT(60)
    <3> QED BY <3>3, <3>4, ZenonT(60)
  <2>2. ASSUME NEW n \in Machines,
               Boot(n) \/ SendHello(n) \/ SendAck(n) \/ Sent(n)
                 \/ ReceiveHello(n) \/ ReceiveAck(n) \/ SendDone(n)
                 \/ CheckPktAvail(n) \/ WorkerP(n)
        PROVE  delivered' = delivered
    BY <2>2, ZenonT(60)
       DEF Boot, SendHello, SendAck, Sent, ReceiveHello, ReceiveAck, Receive,
           SendDone, CheckPktAvail, WorkerP, poVars
  <2> QED BY <2>1, <2>2, ZenonT(60) DEF Next, vars, poVars
<1> QED BY <1>1, <1>2, ZenonT(60)

(* So a genuine packet stays genuine, whatever happens while it is on its  *)
(* way.                                                                    *)
LEMMA GenuineKept ==
  ASSUME IInv, [Next]_vars, NEW m \in Machines
  PROVE  /\ \A n \in Machines : Heard(m, n) => Heard(m, n)'
         /\ Genuine(m) \subseteq Genuine(m)'
         /\ \A b \in Boxes : Held(m, b) \subseteq Held(m, b)'
<1>1. \A k, n \in Machines : Heard(k, n) => Heard(k, n)'
  BY Grows, ZenonT(60) DEF Heard
<1>2. \A pkt \in Packets : pkt.from \in Machines
  BY ZenonT(60) DEF Packets
<1>3. \A k \in Machines : pc[k] \in Answered => pc'[k] \in Answered
  BY Grows, ZenonT(60)
<1>4. Genuine(m) \subseteq Genuine(m)'
  BY <1>1, <1>2, <1>3, ZenonT(60) DEF Genuine
<1>5. \A b \in Boxes : Held(m, b) \subseteq Held(m, b)'
  BY <1>4, Grows, ZenonT(60) DEF Held
<1> QED BY <1>1, <1>4, <1>5, ZenonT(60)

(* And so do the sequences of them.                                        *)
LEMMA MailKept ==
  ASSUME IInv, Mail, [Next]_vars, NEW m \in Machines
  PROVE  /\ socket[m] \in Seq(Genuine(m)')
         /\ inHdr[m] \in Seq(Genuine(m)')
         /\ \A b \in Boxes : boxes[m][b] \in Seq(Held(m, b)')
         /\ pc[m] = Ack => reply[m] \in Held(m, 0)'
         /\ pc[m] = Done => reply[m] \in Held(m, 1)'
<1>1. ASSUME NEW S, NEW T, S \subseteq T PROVE Seq(S) \subseteq Seq(T)
  BY <1>1, SMTT(60)
<1>2. /\ Seq(Genuine(m)) \subseteq Seq(Genuine(m)')
      /\ \A b \in Boxes : Seq(Held(m, b)) \subseteq Seq(Held(m, b)')
  BY <1>1, GenuineKept, ZenonT(60)
<1>3. 0 \in Boxes /\ 1 \in Boxes
  BY PostOfficeAssumption, ZenonT(60)
<1> QED BY <1>2, <1>3, GenuineKept, ZenonT(60) DEF Mail

(* What a machine sends is genuine.                                        *)
LEMMA SendMail ==
  ASSUME IInv, Mail, Next, NEW m \in Machines, NEW pkt \in Packets,
         NEW then \in {WaitHello, WaitAck}, Send(m, pkt, then),
         SendToSocket(pkt) => pkt \in Genuine(pkt.to)',
         UNCHANGED <<inHdr, poVars, reply>>
  PROVE  Mail'
<1>1. [Next]_vars /\ UNCHANGED <<inHdr, boxes, delivered, reply>>
  BY ZenonT(60) DEF poVars
<1> SUFFICES ASSUME NEW n \in Machines
             PROVE  /\ socket'[n] \in Seq(Genuine(n)')
                    /\ inHdr'[n] \in Seq(Genuine(n)')
                    /\ \A b \in Boxes : boxes'[n][b] \in Seq(Held(n, b)')
                    /\ pc'[n] = Ack => reply'[n] \in Held(n, 0)'
                    /\ pc'[n] = Done => reply'[n] \in Held(n, 1)'
  BY ZenonT(60) DEF Mail
<1>2. /\ inHdr'[n] \in Seq(Genuine(n)')
      /\ \A b \in Boxes : boxes'[n][b] \in Seq(Held(n, b)')
  BY <1>1, MailKept, ZenonT(60)
<1>3. /\ pc'[n] = Ack => pc[n] = Ack
      /\ pc'[n] = Done => pc[n] = Done
  <2>1. PICK place \in {WaitHello, WaitAck, Refused} : pc' = [pc EXCEPT ![m] = place]
    BY ZenonT(60) DEF Send, Goto
  <2>2. place # Ack /\ place # Done
    BY <2>1, SMTT(60) DEF WaitHello, WaitAck, Refused, Ack, Done
  <2>3. pc \in [Machines -> Start..Stuck]
    BY ZenonT(60) DEF IInv, TypeOK
  <2> QED BY <2>1, <2>2, <2>3, ZenonT(60)
<1>4. /\ pc'[n] = Ack => reply'[n] \in Held(n, 0)'
      /\ pc'[n] = Done => reply'[n] \in Held(n, 1)'
  BY <1>1, <1>3, MailKept, ZenonT(60)
<1>5. socket'[n] \in Seq(Genuine(n)')
  <2>0. socket[n] \in Seq(Genuine(n)')
    BY <1>1, MailKept, ZenonT(60)
  <2>1. CASE UNCHANGED socket
    BY <2>0, <2>1, ZenonT(60)
  <2>2. CASE SendToSocket(pkt)
    <3>1. socket'[n] = IF n = pkt.to THEN Append(socket[n], pkt) ELSE socket[n]
      BY <2>2, ZenonT(60) DEF SendToSocket, IInv, TypeOK
    <3>2. n = pkt.to => Append(socket[n], pkt) \in Seq(Genuine(n)')
      BY <2>0, <2>2, AppendProperties, ZenonT(60)
    <3> QED BY <2>0, <3>1, <3>2, ZenonT(60)
  <2> QED BY <2>1, <2>2, ZenonT(60) DEF Send, NetworkSend
<1> QED BY <1>2, <1>4, <1>5, ZenonT(60)

(* Mail that is read is taken from the head of its box.                    *)
LEMMA ReceiveMail ==
  ASSUME IInv, Mail, Next, NEW m \in Machines,
         ReceiveHello(m) \/ ReceiveAck(m)
  PROVE  Mail'
<1>1. [Next]_vars /\ UNCHANGED <<inHdr, socket, delivered>>
  BY ZenonT(60) DEF ReceiveHello, ReceiveAck, Receive, netVars
<1>2. pc \in [Machines -> Start..Stuck] /\ reply \in [Machines -> Packets \cup {<<>>}]
      /\ boxes \in [Machines -> [Boxes -> Seq(Packets)]]
  BY ZenonT(60) DEF IInv, TypeOK
<1>3. PICK b \in {0, 1}, then \in {Ack, Done} :
        (b = 0 <=> then = Ack) /\ Receive(m, b, then)
  <2>1. 0 # 1 /\ Ack # Done
    BY SMTT(60) DEF Ack, Done
  <2> QED BY <2>1, ZenonT(60) DEF ReceiveHello, ReceiveAck
<1>4. Stuck # Ack /\ Stuck # Done /\ Ack # Done /\ b \in Boxes /\ 0 # 1
  BY PostOfficeAssumption, SMTT(60) DEF Ack, Done, Stuck
<1> SUFFICES ASSUME NEW n \in Machines
             PROVE  /\ socket'[n] \in Seq(Genuine(n)')
                    /\ inHdr'[n] \in Seq(Genuine(n)')
                    /\ \A c \in Boxes : boxes'[n][c] \in Seq(Held(n, c)')
                    /\ pc'[n] = Ack => reply'[n] \in Held(n, 0)'
                    /\ pc'[n] = Done => reply'[n] \in Held(n, 1)'
  BY ZenonT(60) DEF Mail
<1>5. /\ socket'[n] \in Seq(Genuine(n)')
      /\ inHdr'[n] \in Seq(Genuine(n)')
  BY <1>1, MailKept, ZenonT(60)
<1>6. CASE Get(m, b) /\ Goto(m, then)
  <2>1. boxes[m][b] \in Seq(Held(m, b)') /\ boxes[m][b] # <<>>
    BY <1>1, <1>4, <1>6, MailKept, ZenonT(60) DEF Get, SynchRemove
  <2>2. Head(boxes[m][b]) \in Held(m, b)' /\ Tail(boxes[m][b]) \in Seq(Held(m, b)')
    BY <2>1, HeadTailProperties, ZenonT(60)
  <2>3. \A c \in Boxes :
          boxes'[n][c] = IF n = m /\ c = b THEN Tail(boxes[n][c]) ELSE boxes[n][c]
    BY <1>2, <1>4, <1>6, ZenonT(60) DEF Get, SynchRemove
  <2>4. \A c \in Boxes : boxes'[n][c] \in Seq(Held(n, c)')
    BY <1>1, <2>2, <2>3, MailKept, ZenonT(60)
  <2>5. CASE n = m
    <3>1. pc'[m] = then /\ reply'[m] = Head(boxes[m][b])
      BY <1>2, <1>6, ZenonT(60) DEF Get, Goto
    <3> QED BY <1>3, <1>4, <1>5, <2>2, <2>4, <2>5, <3>1, ZenonT(60)
  <2>6. CASE n # m
    <3>1. pc'[n] = pc[n] /\ reply'[n] = reply[n]
      BY <1>2, <1>6, <2>6, ZenonT(60) DEF Get, Goto
    <3> QED BY <1>1, <1>5, <2>4, <3>1, MailKept, ZenonT(60)
  <2> QED BY <2>5, <2>6, ZenonT(60)
<1>7. CASE Goto(m, Stuck) /\ UNCHANGED <<boxes, reply>>
  BY <1>1, <1>2, <1>4, <1>5, <1>7, MailKept, ZenonT(60) DEF Goto
<1> QED BY <1>3, <1>6, <1>7, ZenonT(60) DEF Receive

(* The packet that comes off the wire goes to the box it names.            *)
LEMMA DeliveryMail ==
  ASSUME IInv, Mail, Next, NEW m \in Machines, PostalDelivery(m)
  PROVE  Mail'
<1> DEFINE pkt == inHdr[m][1]
<1>1. /\ [Next]_vars /\ taken[m]
      /\ inHdr' = [inHdr EXCEPT ![m] = <<>>]
      /\ boxes' = [boxes EXCEPT ![m][pkt.box] = Append(@, pkt)]
      /\ delivered' = [delivered EXCEPT ![m] = Append(@, pkt)]
      /\ UNCHANGED <<pc, socket, reply>>
  BY ZenonT(60) DEF PostalDelivery, NetworkReceive, Put, SynchAppend
<1>2. inHdr[m] \in Seq(Genuine(m)') /\ Len(inHdr[m]) = 1
  BY <1>1, MailKept, ZenonT(60) DEF IInv, Announced
<1>3. pkt \in Genuine(m)'
  BY <1>2, ElementOfSeq, SMTT(60)
<1> HIDE DEF pkt
<1>4. pkt \in Packets /\ pkt.box \in Boxes
  BY <1>3, ZenonT(60) DEF Genuine, Packets
<1>5. PICK c \in Boxes : pkt.box = c
  BY <1>4, ZenonT(60)
<1>6. pkt \in Held(m, c)'
  <2>1. delivered[m] \in Seq(Packets) /\ delivered'[m] = Append(delivered[m], pkt)
    BY <1>1, ZenonT(60) DEF IInv, TypeOK
  <2>2. \E i \in DOMAIN delivered'[m] : delivered'[m][i] = pkt
    <3>1. /\ Len(delivered[m]) + 1 \in DOMAIN delivered'[m]
          /\ delivered'[m][Len(delivered[m]) + 1] = pkt
      BY <1>4, <2>1, AppendProperties, SMTT(60)
    <3> QED BY <3>1, ZenonT(60)
  <2> QED BY <1>3, <1>5, <2>2, ZenonT(60) DEF Held
<1> SUFFICES ASSUME NEW n \in Machines
             PROVE  /\ inHdr'[n] \in Seq(Genuine(n)')
                    /\ \A b \in Boxes : boxes'[n][b] \in Seq(Held(n, b)')
  BY <1>1, MailKept, ZenonT(60) DEF Mail
<1>7. inHdr'[n] \in Seq(Genuine(n)')
  <2>1. inHdr'[n] = IF n = m THEN <<>> ELSE inHdr[n]
    BY <1>1, ZenonT(60) DEF IInv, TypeOK
  <2>2. <<>> \in Seq(Genuine(n)')
    BY SMTT(60)
  <2> QED BY <1>1, <2>1, <2>2, MailKept, ZenonT(60)
<1>8. ASSUME NEW b \in Boxes PROVE boxes'[n][b] \in Seq(Held(n, b)')
  <2>1. boxes'[n][b] = IF n = m /\ b = c THEN Append(boxes[n][b], pkt) ELSE boxes[n][b]
    BY <1>1, <1>5, ZenonT(60) DEF IInv, TypeOK
  <2>2. boxes[n][b] \in Seq(Held(n, b)')
    BY <1>1, MailKept, ZenonT(60)
  <2>3. n = m /\ b = c => Append(boxes[n][b], pkt) \in Seq(Held(n, b)')
    BY <1>6, <2>2, AppendProperties, ZenonT(60)
  <2> QED BY <2>1, <2>2, <2>3, ZenonT(60)
<1> QED BY <1>7, <1>8, ZenonT(60)

(* Every step keeps the mail genuine.                                      *)
LEMMA StepMail ==
  IInv /\ Mail /\ [Next]_vars => Mail'
<1> SUFFICES ASSUME IInv, Mail, [Next]_vars PROVE Mail'
  BY ZenonT(60)
<1>0. pc \in [Machines -> Start..Stuck]
  BY ZenonT(60) DEF IInv, TypeOK
<1>1. ASSUME NEW m \in Machines, Boot(m) \/ Sent(m) PROVE Mail'
  <2>1. UNCHANGED <<socket, inHdr, boxes, reply>>
    BY <1>1, ZenonT(60) DEF Boot, Sent, netVars, poVars
  <2>2. PICK place :
          /\ pc' = [pc EXCEPT ![m] = place]
          /\ \/ place = Hello
             \/ pc[m] \in {WaitHello, WaitAck} /\ place = pc[m] + 1
    BY <1>1, ZenonT(60) DEF Boot, Sent, Goto
  <2>3. place # Ack /\ place # Done
    BY <2>2, SMTT(60) DEF Hello, WaitHello, WaitAck, Ack, Done
  <2>4. \A n \in Machines : (pc'[n] = Ack => pc[n] = Ack) /\ (pc'[n] = Done => pc[n] = Done)
    BY <1>0, <2>2, <2>3, ZenonT(60)
  <2> QED BY <2>1, <2>4, MailKept, ZenonT(60) DEF Mail
<1>2. ASSUME Next, NEW m \in Machines, SendHello(m) PROVE Mail'
  <2> DEFINE pkt == [to |-> Far[m], from |-> m, box |-> 0, reply |-> 1,
                     text |-> "Hello there!"]
  <2>1. pkt \in Packets
    BY PostOfficeAssumption, ZenonT(60) DEF Packets
  <2>2. pkt \in Genuine(pkt.to)'
    BY <2>1, ZenonT(60) DEF Genuine
  <2> QED BY <1>2, <2>1, <2>2, SendMail, ZenonT(60) DEF SendHello
<1>3. ASSUME Next, NEW m \in Machines, SendAck(m) PROVE Mail'
  <2> DEFINE pkt == [to |-> reply[m].from, from |-> m, box |-> reply[m].reply,
                     reply |-> 1, text |-> "Got it!"]
  <2>0. /\ pc[m] = Ack /\ Send(m, pkt, WaitAck) /\ UNCHANGED <<inHdr, poVars, reply>>
    BY <1>3, ZenonT(60) DEF SendAck
  <2>1. reply[m] \in Held(m, 0)
    BY <2>0, ZenonT(60) DEF Mail
  <2>2. 0 # 1
    BY SMTT(60)
  <2>3. /\ reply[m] \in Packets /\ reply[m].reply = 1 /\ Far[reply[m].from] = m
        /\ reply[m].text = "Hello there!" /\ Heard(m, reply[m].from)
    BY <2>1, <2>2, ZenonT(60) DEF Held, Genuine, Heard
  <2>4. reply[m].from \in Machines
    BY <2>3, ZenonT(60) DEF Packets
  <2>5. pkt \in Packets
    BY <2>3, <2>4, PostOfficeAssumption, ZenonT(60) DEF Packets
  <2>6. Heard(m, reply[m].from)'
    <3>1. \A n \in Machines : Heard(m, n) => Heard(m, n)'
      BY <1>3, GenuineKept, ZenonT(60)
    <3>2. reply' = reply
      BY <2>0, ZenonT(60)
    <3> QED BY <2>3, <2>4, <3>1, <3>2, ZenonT(60)
  <2>7. ASSUME SendToSocket(pkt) PROVE pkt \in Genuine(pkt.to)'
    <3>1. pc' = [pc EXCEPT ![m] = WaitAck]
      <4>1. Up(pkt.to)
        BY <2>7, ZenonT(60) DEF SendToSocket
      <4> QED BY <2>0, <4>1, ZenonT(60) DEF Send, Goto
    <3>2. pc'[m] \in Answered
      BY <1>0, <3>1, ZenonT(60) DEF Answered
    <3>3. reply' = reply
      BY <2>0, ZenonT(60)
    <3> QED BY <2>3, <2>5, <2>6, <3>2, <3>3, ZenonT(60) DEF Genuine, Heard
  <2> QED BY <1>3, <2>0, <2>5, <2>7, SendMail, ZenonT(60)
<1>4. ASSUME NEW m \in Machines, CheckPktAvail(m) PROVE Mail'
  <2>1. /\ socket[m] # <<>> /\ UNCHANGED <<pc, boxes, reply>>
        /\ inHdr' = [inHdr EXCEPT ![m] = <<Head(socket[m])>>]
        /\ socket' = [socket EXCEPT ![m] = Tail(@)]
    BY <1>4, ZenonT(60) DEF CheckPktAvail, PollSocket, ReadFromSocket
  <2>2. /\ Tail(socket[m]) \in Seq(Genuine(m)')
        /\ Head(socket[m]) \in Genuine(m)'
    BY <2>1, MailKept, HeadTailProperties, ZenonT(60)
  <2>3. <<Head(socket[m])>> \in Seq(Genuine(m)')
    BY <2>2, SMTT(60)
  <2>4. \A n \in Machines :
          /\ inHdr'[n] = IF n = m THEN <<Head(socket[m])>> ELSE inHdr[n]
          /\ socket'[n] = IF n = m THEN Tail(socket[m]) ELSE socket[n]
    BY <2>1, ZenonT(60) DEF IInv, TypeOK
  <2> QED BY <2>1, <2>2, <2>3, <2>4, MailKept, ZenonT(60) DEF Mail
<1>5. ASSUME NEW m \in Machines, SendDone(m) \/ WorkerP(m) PROVE Mail'
  <2>1. UNCHANGED <<pc, socket, inHdr, boxes, reply>>
    BY <1>5, ZenonT(60) DEF SendDone, WorkerP, netVars
  <2> QED BY <2>1, MailKept, ZenonT(60) DEF Mail
<1>6. CASE UNCHANGED vars
  <2>1. UNCHANGED <<pc, socket, inHdr, boxes, reply>>
    BY <1>6, ZenonT(60) DEF vars, netVars, poVars
  <2> QED BY <2>1, MailKept, ZenonT(60) DEF Mail
<1> QED BY <1>1, <1>2, <1>3, <1>4, <1>5, <1>6, ReceiveMail, DeliveryMail, ZenonT(60)
           DEF Next

(* The mail is genuine initially: there is none.                           *)
LEMMA InitMail ==
  Init => Mail
<1> SUFFICES ASSUME Init PROVE Mail
  BY ZenonT(60)
<1>1. Start # Ack /\ Start # Done
  BY SMTT(60) DEF Start, Ack, Done
<1>2. \A S : <<>> \in Seq(S)
  BY SMTT(60)
<1> QED BY <1>1, <1>2, ZenonT(60) DEF Init, Mail

(* For any number of machines with any far addresses, whatever is lost on  *)
(* the way: MailTest ends only on the acknowledgement of the machine it    *)
(* greeted, which had heard it and does not find a closed socket.          *)
THEOREM MailTestCorrectness ==
  Spec => []FinishedTogether
<1>1. IInv /\ Mail => FinishedTogether
  <2> SUFFICES ASSUME Mail, NEW m \in Machines, pc[m] = Done
               PROVE  /\ pc[Far[m]] # Refused
                      /\ reply[m].text = "Got it!" /\ reply[m].from = Far[m]
                      /\ \E i \in DOMAIN delivered[Far[m]] :
                           /\ delivered[Far[m]][i].from = m
                           /\ delivered[Far[m]][i].text = "Hello there!"
    BY ZenonT(60) DEF FinishedTogether
  <2>1. Refused \notin Answered /\ 0 # 1
    BY SMTT(60) DEF Answered, Refused, WaitAck, GetAck, Done, Stuck
  <2>2. reply[m] \in Held(m, 1)
    BY ZenonT(60) DEF Mail
  <2>3. /\ reply[m].text = "Got it!" /\ Far[m] = reply[m].from
        /\ pc[reply[m].from] \in Answered /\ Heard(reply[m].from, m)
    BY <2>1, <2>2, ZenonT(60) DEF Held, Genuine
  <2> QED BY <2>1, <2>3, ZenonT(60) DEF Heard
<1> QED BY <1>1, InitIInv, StepIInv, InitMail, StepMail, PTL DEF Spec

=============================================================================
