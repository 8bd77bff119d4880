------------------------ MODULE NetworkQueueProofs ------------------------
(***************************************************************************)
(* The packet ring of NetworkQueue implements BoundedFifo, for every ring  *)
(* size and every set of packets.                                          *)
(***************************************************************************)
EXTENDS NetworkQueue, TLAPS

(* Indices of the ring are sums of two numbers below MAX_PACKETS. *)
LEMMA ModOnce ==
    ASSUME NEW n \in Nat \ {0}, NEW a \in 0 .. 2 * n - 1
    PROVE  a % n = IF a < n THEN a ELSE a - n
OBVIOUS

(* Moving the head or the tail of a ring of n slots that holds c items from h on. *)
LEMMA RingStep ==
    ASSUME NEW n \in Nat \ {0}, NEW h \in 0 .. n - 1, NEW c \in 0 .. n
    PROVE  /\ (h + 1) % n \in 0 .. n - 1
           /\ c < n => (((h + c) % n) + 1) % n = (h + (c + 1)) % n
           /\ c > 0 => (((h + 1) % n) + (c - 1)) % n = (h + c) % n
           /\ c > 0 => h % n = h /\ (h + 1 - 1) % n = h
<1> DEFINE m(a) == a % n
<1>1. \A a \in 0 .. 2 * n - 1 : m(a) = IF a < n THEN a ELSE a - n
  BY ModOnce
<1>2. /\ m(h + 1) \in 0 .. n - 1
      /\ c < n => m(m(h + c) + 1) = m(h + (c + 1))
      /\ c > 0 => m(m(h + 1) + (c - 1)) = m(h + c)
      /\ c > 0 => m(h) = h /\ m(h + 1 - 1) = h
  <2> HIDE DEF m
  <2> QED
    BY <1>1
<1> QED
  BY <1>2

(* The slot at the tail holds none of the items; after the head has moved, item i
   is where item i + 1 was. *)
LEMMA RingItems ==
    ASSUME NEW n \in Nat \ {0}, NEW h \in 0 .. n - 1, NEW c \in 0 .. n, NEW i \in 1 .. c
    PROVE  /\ (h + i - 1) % n \in 0 .. n - 1
           /\ c < n => (h + i - 1) % n # (h + c) % n
           /\ i < c => (((h + 1) % n) + i - 1) % n = (h + (i + 1) - 1) % n
<1> DEFINE m(a) == a % n
<1>1. \A a \in 0 .. 2 * n - 1 : m(a) = IF a < n THEN a ELSE a - n
  BY ModOnce
<1>2. /\ m(h + i - 1) \in 0 .. n - 1
      /\ c < n => m(h + i - 1) # m(h + c)
      /\ i < c => m(m(h + 1) + i - 1) = m(h + (i + 1) - 1)
  <2> HIDE DEF m
  <2> QED
    BY <1>1
<1> QED
  BY <1>2

(* A sequence that extends s by one element is Append(s, e). *)
LEMMA IsAppend ==
    ASSUME NEW S, NEW s \in Seq(S), NEW t \in Seq(S), NEW e \in S,
           Len(t) = Len(s) + 1, \A i \in 1 .. Len(s) : t[i] = s[i], t[Len(s) + 1] = e
    PROVE  t = Append(s, e)
OBVIOUS

(* A sequence that holds the elements of s but the first is Tail(s). *)
LEMMA IsTail ==
    ASSUME NEW S, NEW s \in Seq(S), NEW t \in Seq(S), s # <<>>,
           Len(t) = Len(s) - 1, \A i \in 1 .. Len(t) : t[i] = s[i + 1]
    PROVE  t = Tail(s)
OBVIOUS

-----------------------------------------------------------------------------
(* Nothing waits before network_init has run. *)
EmptyUntilActive == ~active => packet_count = 0

Inv == TypeOK /\ TailFollowsHead /\ EmptyUntilActive

LEMMA ZeroMod == (0 + 0) % MAX_PACKETS = 0
BY NetworkAssumption, ModOnce

LEMMA BlankIsPacket == BlankPacket \in Packet
BY NetworkAssumption DEF BlankPacket, Packet

LEMMA VisibleIsPacket == \A p \in Packet : Visible(p) \in Packet
BY DEF Visible, Packet

LEMMA AdvanceInRing == \A i \in Index : Advance(i) \in Index
BY NetworkAssumption DEF Advance, Index

LEMMA FilledIsPacket ==
    ASSUME ip \in Ip, NEW old \in Packet, NEW dst \in Ip, NEW type \in Type,
           NEW data \in Payload \cup {NULL}, NEW length \in Length
    PROVE  Filled(old, dst, type, data, length) \in Packet
BY DEF Filled, Packet

LEMMA InitInv == Init => Inv
<1> SUFFICES ASSUME Init PROVE Inv
  OBVIOUS
<1>1. TailFollowsHead
  BY ZeroMod DEF Init, TailFollowsHead
<1>2. TypeOK
  <2>1. active \in BOOLEAN /\ ip \in Ip /\ received \in Packet \cup {NULL}
    BY DEF Init
  <2>2. /\ packet_buffer \in [Index -> Packet] /\ packet_count \in 0 .. MAX_PACKETS
        /\ packet_head \in Index /\ packet_tail \in Index
    BY NetworkAssumption, BlankIsPacket DEF Init, Index
  <2> QED
    BY <2>1, <2>2 DEF TypeOK
<1> QED
  BY <1>1, <1>2 DEF Init, Inv, EmptyUntilActive

LEMMA NextInv == Inv /\ [Next]_vars => Inv'
<1> SUFFICES ASSUME Inv, [Next]_vars PROVE Inv'
  OBVIOUS
<1> USE NetworkAssumption DEF Inv
<1>1. CASE network_init
  <2>1. TailFollowsHead'
    BY <1>1, ZeroMod DEF network_init, TailFollowsHead
  <2>2. TypeOK'
    BY <1>1, BlankIsPacket DEF network_init, TypeOK, Index
  <2> QED
    BY <1>1, <2>1, <2>2 DEF network_init, EmptyUntilActive
<1>2. ASSUME NEW dst \in Ip, NEW type \in Type, NEW data \in Payload \cup {NULL},
             NEW length \in Length, network_send_packet(dst, type, data, length)
      PROVE  Inv'
  <2> DEFINE p == Filled(packet_buffer[packet_tail], dst, type, data, length)
  <2>1. p \in Packet
    BY FilledIsPacket DEF TypeOK
  <2>2. packet_buffer' = [packet_buffer EXCEPT ![packet_tail] = p]
    BY <1>2 DEF network_send_packet
  <2> HIDE DEF p
  <2>3. packet_buffer' \in [Index -> Packet]
    BY <2>1, <2>2 DEF TypeOK
  <2>4. /\ packet_count < MAX_PACKETS
        /\ packet_count' = packet_count + 1
        /\ packet_tail' = Advance(packet_tail)
        /\ UNCHANGED <<ip, active, packet_head, received>>
    BY <1>2 DEF network_send_packet, CanSend
  <2>5. TypeOK'
    BY <2>3, <2>4, AdvanceInRing DEF TypeOK
  <2>6. TailFollowsHead'
    BY <2>4, RingStep DEF TypeOK, TailFollowsHead, Advance, Index
  <2>7. EmptyUntilActive'
    BY <1>2, <2>4 DEF network_send_packet, CanSend, EmptyUntilActive
  <2> QED
    BY <2>5, <2>6, <2>7
<1>3. CASE network_receive_packet
  <2>1. TypeOK'
    BY <1>3, VisibleIsPacket, AdvanceInRing DEF network_receive_packet, TypeOK
  <2>2. TailFollowsHead'
    <3>1. /\ packet_head \in 0 .. MAX_PACKETS - 1 /\ packet_count \in 0 .. MAX_PACKETS
          /\ packet_count > 0 /\ MAX_PACKETS \in Nat \ {0}
      BY <1>3 DEF network_receive_packet, TypeOK, Index
    <3>2. (((packet_head + 1) % MAX_PACKETS) + (packet_count - 1)) % MAX_PACKETS
             = (packet_head + packet_count) % MAX_PACKETS
      BY <3>1, RingStep
    <3> QED
      BY <1>3, <3>2 DEF network_receive_packet, TailFollowsHead, Advance
  <2>3. EmptyUntilActive'
    BY <1>3 DEF network_receive_packet, EmptyUntilActive, TypeOK
  <2> QED
    BY <2>1, <2>2, <2>3
<1>4. ASSUME NEW a \in Ip, network_set_ip(a) PROVE Inv'
  BY <1>4 DEF network_set_ip, TypeOK, TailFollowsHead, EmptyUntilActive
<1>5. CASE UNCHANGED vars
  BY <1>5 DEF vars, TypeOK, TailFollowsHead, EmptyUntilActive
<1> QED
  BY <1>1, <1>2, <1>3, <1>4, <1>5 DEF Next

LEMMA InvAlways == Spec => []Inv
BY InitInv, NextInv, PTL DEF Spec

(* The counters and packets of the ring keep their types. *)
THEOREM TypeCorrect == Spec => []TypeOK
BY InvAlways, PTL DEF Inv

(* Head, tail and count agree in every reachable state. *)
THEOREM TailFollowsHeadAlways == Spec => []TailFollowsHead
BY InvAlways, PTL DEF Inv

-----------------------------------------------------------------------------
(* Waiting is the sequence of the packet_count packets from the head on. *)
QueueShape ==
    /\ Waiting \in Seq(Packet) /\ Len(Waiting) = packet_count
    /\ \A i \in 1 .. packet_count :
          Waiting[i] = Visible(packet_buffer[(packet_head + i - 1) % MAX_PACKETS])

LEMMA WaitingIsQueue == TypeOK => QueueShape
<1> SUFFICES ASSUME TypeOK PROVE QueueShape
  OBVIOUS
<1>1. \A i \in 1 .. packet_count : (packet_head + i - 1) % MAX_PACKETS \in Index
  BY NetworkAssumption, RingItems DEF TypeOK, Index
<1>2. packet_count \in Nat
  BY NetworkAssumption DEF TypeOK
<1> QED
  BY <1>1, <1>2, VisibleIsPacket DEF Waiting, TypeOK, QueueShape

LEMMA InitRefines == Init => Fifo!Init
<1> SUFFICES ASSUME Init PROVE Fifo!Init
  OBVIOUS
<1>1. Waiting \in Seq(Packet) /\ Len(Waiting) = 0
  BY InitInv, WaitingIsQueue DEF Inv, Init, QueueShape
<1> QED
  BY <1>1 DEF Init, Fifo!Init

LEMMA NextRefines ==
    Inv /\ QueueShape /\ QueueShape' /\ [Next]_vars
       => [Fifo!Next]_<<Waiting, received>>
<1> SUFFICES ASSUME Inv, QueueShape, QueueShape', [Next]_vars
             PROVE  Fifo!Next \/ UNCHANGED <<Waiting, received>>
  OBVIOUS
<1> USE NetworkAssumption
<1>0. /\ packet_head \in 0 .. MAX_PACKETS - 1 /\ packet_count \in 0 .. MAX_PACKETS
      /\ MAX_PACKETS \in Nat \ {0}
  BY DEF Inv, TypeOK, Index
<1>1. CASE network_init
  <2>1. UNCHANGED received /\ packet_count' = 0
    BY <1>1 DEF network_init
  <2>2. packet_count = 0
    BY <1>1 DEF network_init, Inv, EmptyUntilActive
  <2> QED
    BY <2>1, <2>2 DEF QueueShape
<1>2. ASSUME NEW dst \in Ip, NEW type \in Type, NEW data \in Payload \cup {NULL},
             NEW length \in Length, network_send_packet(dst, type, data, length)
      PROVE  Fifo!Next
  <2> DEFINE p == Filled(packet_buffer[packet_tail], dst, type, data, length)
  <2>1. p \in Packet
    BY FilledIsPacket DEF Inv, TypeOK
  <2>2. packet_buffer' = [packet_buffer EXCEPT ![packet_tail] = p]
    BY <1>2 DEF network_send_packet
  <2> HIDE DEF p
  <2>3. /\ packet_count < MAX_PACKETS /\ packet_count' = packet_count + 1
        /\ packet_head' = packet_head /\ received' = received
    BY <1>2 DEF network_send_packet, CanSend
  <2>4. packet_tail = (packet_head + packet_count) % MAX_PACKETS
    BY DEF Inv, TailFollowsHead
  <2>5. \A i \in 1 .. packet_count : Waiting'[i] = Waiting[i]
    <3> TAKE i \in 1 .. packet_count
    <3>1. /\ (packet_head + i - 1) % MAX_PACKETS \in Index
          /\ (packet_head + i - 1) % MAX_PACKETS # packet_tail
      BY <1>0, <2>3, <2>4, RingItems DEF Index
    <3>2. packet_buffer'[(packet_head + i - 1) % MAX_PACKETS]
            = packet_buffer[(packet_head + i - 1) % MAX_PACKETS]
      BY <2>2, <3>1 DEF Inv, TypeOK
    <3>3. i \in 1 .. packet_count'
      BY <1>0, <2>3
    <3> QED
      BY <2>3, <3>2, <3>3 DEF QueueShape
  <2>6. Waiting'[packet_count + 1] = Visible(p)
    <3>1. packet_head' + (packet_count + 1) - 1 = packet_head + packet_count
      BY <1>0, <2>3
    <3>2. packet_buffer'[packet_tail] = p
      BY <2>2 DEF Inv, TypeOK
    <3>3. packet_count + 1 \in 1 .. packet_count'
      BY <1>0, <2>3
    <3>4. Waiting'[packet_count + 1]
            = Visible(packet_buffer'[(packet_head' + (packet_count + 1) - 1) % MAX_PACKETS])
      BY <3>3 DEF QueueShape
    <3> QED
      BY <2>4, <3>1, <3>2, <3>4
  <2>7. Visible(p) \in Packet
    BY <2>1, VisibleIsPacket
  <2>8. Waiting' = Append(Waiting, Visible(p))
    BY <1>0, <2>3, <2>5, <2>6, <2>7, IsAppend DEF QueueShape
  <2>9. Len(Waiting) < MAX_PACKETS
    BY <2>3 DEF QueueShape
  <2> QED
    BY <2>3, <2>7, <2>8, <2>9 DEF Fifo!Next, Fifo!Put
<1>3. CASE network_receive_packet
  <2>1. /\ packet_count # 0 /\ packet_count' = packet_count - 1
        /\ packet_head' = (packet_head + 1) % MAX_PACKETS
        /\ packet_buffer' = packet_buffer
        /\ received' = Visible(packet_buffer[packet_head])
    BY <1>3 DEF network_receive_packet, Advance
  <2>2. Waiting # <<>> /\ Len(Waiting') = Len(Waiting) - 1
    BY <1>0, <2>1 DEF QueueShape
  <2>3. received' = Head(Waiting)
    <3>1. (packet_head + 1 - 1) % MAX_PACKETS = packet_head
      BY <1>0, <2>1, RingStep
    <3>2. Waiting[1] = Visible(packet_buffer[(packet_head + 1 - 1) % MAX_PACKETS])
      BY <1>0, <2>1 DEF QueueShape
    <3>3. Head(Waiting) = Waiting[1]
      BY <2>2 DEF QueueShape
    <3> QED
      BY <2>1, <3>1, <3>2, <3>3
  <2>4. \A i \in 1 .. Len(Waiting') : Waiting'[i] = Waiting[i + 1]
    <3> TAKE i \in 1 .. Len(Waiting')
    <3>1. i \in 1 .. packet_count /\ i < packet_count
          /\ i + 1 \in 1 .. packet_count /\ i \in 1 .. packet_count'
      BY <1>0, <2>1 DEF QueueShape
    <3>2. (((packet_head + 1) % MAX_PACKETS) + i - 1) % MAX_PACKETS
             = (packet_head + (i + 1) - 1) % MAX_PACKETS
      BY <1>0, <3>1, RingItems
    <3>3. Waiting'[i] = Visible(packet_buffer'[(packet_head' + i - 1) % MAX_PACKETS])
      BY <3>1 DEF QueueShape
    <3>4. Waiting[i + 1] = Visible(packet_buffer[(packet_head + (i + 1) - 1) % MAX_PACKETS])
      BY <3>1 DEF QueueShape
    <3> QED
      BY <2>1, <3>2, <3>3, <3>4
  <2>5. Waiting' = Tail(Waiting)
    BY <2>2, <2>4, IsTail DEF QueueShape
  <2> QED
    BY <2>2, <2>3, <2>5 DEF Fifo!Next, Fifo!Get
<1>4. ASSUME NEW a \in Ip, network_set_ip(a) PROVE UNCHANGED <<Waiting, received>>
  BY <1>4 DEF network_set_ip, Waiting
<1>5. CASE UNCHANGED vars
  BY <1>5 DEF vars, Waiting
<1> QED
  BY <1>1, <1>2, <1>3, <1>4, <1>5 DEF Next

(* The packet ring of network.c implements a bounded FIFO: for every ring size,
   packets come out in the order they were sent, none twice and none lost. *)
THEOREM RingImplementsFifo == Spec => ImplementsFifo
<1>1. Spec => []QueueShape
  BY InvAlways, WaitingIsQueue, PTL DEF Inv
<1> QED
  BY <1>1, InvAlways, InitRefines, NextRefines, PTL DEF Spec, ImplementsFifo, Fifo!Spec
=============================================================================
