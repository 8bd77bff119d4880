---------------------------- MODULE NetworkQueue ----------------------------
(***************************************************************************)
(* The simulated network stack of kernel/network.c: one interface and a    *)
(* ring of packets that network_send_packet fills and                      *)
(* network_receive_packet empties.  Both are reached through the system    *)
(* calls SYS_NETWORK_SEND and SYS_NETWORK_RECEIVE, behind an interrupt     *)
(* gate, so each is one step.                                              *)
(*                                                                         *)
(* SYS_NETWORK_SEND passes three arguments; the wrapper's fourth one, the  *)
(* length, is whatever register esi holds: any length is possible.         *)
(***************************************************************************)
EXTENDS Naturals, Sequences

CONSTANTS
    MAX_PACKETS,      \* slots of the ring (32 in network.h)
    NET_BUFFER_SIZE,  \* longest payload (1514 in network.h)
    Ip,               \* addresses
    Type,             \* packet types a caller passes (network.h has 16-bit ones)
    Length,           \* lengths a caller passes
    Payload,          \* payloads
    NULL              \* no payload, and no packet received yet

ASSUME NetworkAssumption ==
    /\ MAX_PACKETS \in Nat \ {0}
    /\ NET_BUFFER_SIZE \in Nat
    /\ Type \subseteq Nat
    /\ Length \subseteq Nat
    /\ Ip # {}
    /\ NULL \notin Payload

VARIABLES
    ip, active,     \* netif.ip, netif.active
    packet_buffer,  \* the ring
    packet_head, packet_tail, packet_count,
    received        \* the packet network_receive_packet copied out last

vars == <<ip, active, packet_buffer, packet_head, packet_tail, packet_count, received>>

Index == 0 .. MAX_PACKETS - 1

(* The system call wrapper and network_send_packet take the type as a uint8_t. *)
TypeArg(type) == type % 256

(* network_packet_t *)
Packet ==
    [dst_ip : Ip, src_ip : Ip, type : {TypeArg(t) : t \in Type} \cup {0},
     length : Length \cup {0}, data : Payload \cup {NULL}]

(* The bytes beyond length mean nothing to a receiver. *)
Visible(p) == IF p.length = 0 THEN [p EXCEPT !.data = NULL] ELSE p

(* A static packet_buffer starts as zeros: addresses nobody asked for. *)
BlankPacket ==
    [dst_ip |-> CHOOSE a \in Ip : TRUE, src_ip |-> CHOOSE a \in Ip : TRUE,
     type |-> 0, length |-> 0, data |-> NULL]

Init ==
    /\ ip \in Ip
    /\ active = FALSE
    /\ packet_buffer = [i \in Index |-> BlankPacket]
    /\ packet_head = 0 /\ packet_tail = 0 /\ packet_count = 0
    /\ received = NULL

(* Called once, at boot, before any packet is sent. *)
network_init ==
    /\ ~active
    /\ active' = TRUE
    /\ ip' \in Ip
    /\ packet_buffer' = [i \in Index |-> BlankPacket]
    /\ packet_head' = 0 /\ packet_tail' = 0 /\ packet_count' = 0
    /\ UNCHANGED received

(* The packet written over the old content of its slot; memcpy runs only for a
   payload of at least one byte. *)
Filled(old, dst, type, data, length) ==
    [dst_ip |-> dst, src_ip |-> ip, type |-> TypeArg(type),
     length |-> length, data |-> IF data # NULL /\ length > 0 THEN data ELSE old.data]

Advance(i) == (i + 1) % MAX_PACKETS

CanSend_one_too_many(data, length) ==
    /\ active
    /\ length <= NET_BUFFER_SIZE
    /\ ~(length > 0 /\ data = NULL)
    /\ packet_count <= MAX_PACKETS

(* The early returns of network_send_packet, and room in the ring. *)
CanSend(data, length) ==
    /\ active
    /\ length <= NET_BUFFER_SIZE
    /\ ~(length > 0 /\ data = NULL)
    /\ packet_count < MAX_PACKETS

network_send_packet(dst, type, data, length) ==
    /\ CanSend(data, length)
    /\ packet_buffer' = [packet_buffer EXCEPT ![packet_tail] =
                            Filled(packet_buffer[packet_tail], dst, type, data, length)]
    /\ packet_tail' = Advance(packet_tail)
    /\ packet_count' = packet_count + 1
    /\ UNCHANGED <<ip, active, packet_head, received>>

network_receive_packet_keeps_head ==
    /\ packet_count # 0
    /\ received' = Visible(packet_buffer[packet_head])
    /\ packet_count' = packet_count - 1
    /\ UNCHANGED <<ip, active, packet_buffer, packet_tail, packet_head>>

network_receive_packet ==
    /\ packet_count # 0
    /\ received' = Visible(packet_buffer[packet_head])
    /\ packet_head' = Advance(packet_head)
    /\ packet_count' = packet_count - 1
    /\ UNCHANGED <<ip, active, packet_buffer, packet_tail>>

network_set_ip(a) ==
    /\ ip' = a
    /\ UNCHANGED <<active, packet_buffer, packet_head, packet_tail, packet_count, received>>

Next ==
    \/ network_init
    \/ \E dst \in Ip, type \in Type, data \in Payload \cup {NULL}, length \in Length :
          network_send_packet(dst, type, data, length)
    \/ network_receive_packet
    \/ \E a \in Ip : network_set_ip(a)

Spec == Init /\ [][Next]_vars

-----------------------------------------------------------------------------
TypeOK ==
    /\ ip \in Ip /\ active \in BOOLEAN
    /\ packet_buffer \in [Index -> Packet]
    /\ packet_head \in Index /\ packet_tail \in Index
    /\ packet_count \in 0 .. MAX_PACKETS
    /\ received \in Packet \cup {NULL}

(* The three counters agree: the tail is where the head plus the count points,
   after any number of turns around the ring. *)
TailFollowsHead == packet_tail = (packet_head + packet_count) % MAX_PACKETS

(* The packets waiting, oldest first. *)
Waiting ==
    [i \in 1 .. packet_count |->
        Visible(packet_buffer[(packet_head + i - 1) % MAX_PACKETS])]

Fifo == INSTANCE BoundedFifo
            WITH Item <- Packet, Capacity <- MAX_PACKETS, Nothing <- NULL,
                 queue <- Waiting, out <- received

(* The ring is a bounded FIFO: packets are received in the order they were sent,
   none twice and none lost, whatever the interleaving of sends and receives. *)
ImplementsFifo == Fifo!Spec
=============================================================================
