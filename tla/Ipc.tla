-------------------------------- MODULE Ipc --------------------------------
(***************************************************************************)
(* The message queue of kernel/ipc.c: ipc_send stores at queue_tail,       *)
(* ipc_receive searches the queue_count slots from queue_head on, takes    *)
(* the first message for the caller and shifts the later ones down.        *)
(*                                                                         *)
(* A message carries the number of its send, so that two deliveries of one *)
(* send can be told apart from deliveries of two sends.  pid 0 is the      *)
(* kernel process; as the sender argument 0 means any sender.              *)
(***************************************************************************)
EXTENDS Integers, Sequences, FiniteSets

CONSTANTS
    MAX_MESSAGES,  \* slots of the queue (16 in ipc.h)
    Pid,           \* the processes that communicate
    MaxSends       \* bound on the successful sends

ASSUME IpcAssumption ==
    /\ MAX_MESSAGES \in Nat \ {0}
    /\ Pid \subseteq Nat
    /\ MaxSends \in Nat

VARIABLES
    message_queue, queue_head, queue_tail, queue_count,
    sends,      \* how many sends succeeded
    delivered   \* the messages ipc_receive returned, in order

ipcVars == <<message_queue, queue_head, queue_tail, queue_count, sends, delivered>>

IpcIndex == 0 .. MAX_MESSAGES - 1
Message == [sender : Pid, receiver : Pid, send : 1 .. MaxSends]

(* The static array starts as zeros; no send has number 0. *)
BlankMessage == [sender |-> 0, receiver |-> 0, send |-> 0]

(* ipc_init, and the zeroed array. *)
IpcInit ==
    /\ message_queue = [i \in IpcIndex |-> BlankMessage]
    /\ queue_head = 0 /\ queue_tail = 0 /\ queue_count = 0
    /\ sends = 0
    /\ delivered = <<>>

(* A slot index moves around the array. *)
IpcAdvance_not(i) == i
IpcAdvance(i) == (i + 1) % MAX_MESSAGES

(* ipc_send of a message that is not too long, by process from. *)
ipc_send(from, to) ==
    /\ queue_count < MAX_MESSAGES
    /\ sends < MaxSends
    /\ message_queue' = [message_queue EXCEPT ![queue_tail] =
                            [sender |-> from, receiver |-> to, send |-> sends + 1]]
    /\ queue_tail' = IpcAdvance(queue_tail)
    /\ queue_count' = queue_count + 1
    /\ sends' = sends + 1
    /\ UNCHANGED <<queue_head, delivered>>

IpcSlot(i) == (queue_head + i) % MAX_MESSAGES

Matches(m, me, sender) == m.receiver = me /\ (sender = 0 \/ m.sender = sender)

(* The search stops at the i-th message from the head. *)
Found_beyond_count(i, me, sender) ==
    /\ i \in 0 .. queue_count
    /\ Matches(message_queue[IpcSlot(i)], me, sender)
    /\ \A j \in 0 .. i - 1 : ~Matches(message_queue[IpcSlot(j)], me, sender)

Found(i, me, sender) ==
    /\ i \in 0 .. queue_count - 1
    /\ Matches(message_queue[IpcSlot(i)], me, sender)
    /\ \A j \in 0 .. i - 1 : ~Matches(message_queue[IpcSlot(j)], me, sender)

(* Each of the messages after the i-th moves one slot down. *)
ShiftedDown(i) ==
    [s \in IpcIndex |->
        IF \E j \in i .. queue_count - 2 : s = IpcSlot(j)
        THEN message_queue[IpcAdvance(s)]
        ELSE message_queue[s]]

ipc_receive(me, sender) ==
    \E i \in 0 .. MAX_MESSAGES :
       /\ Found(i, me, sender)
       /\ delivered' = Append(delivered, message_queue[IpcSlot(i)])
       /\ message_queue' = ShiftedDown(i)
       /\ queue_count' = queue_count - 1
       /\ UNCHANGED <<queue_head, queue_tail, sends>>

IpcNext ==
    \/ \E from, to \in Pid : ipc_send(from, to)
    \/ \E me \in Pid, sender \in Pid \cup {0} : ipc_receive(me, sender)

IpcSpec == IpcInit /\ [][IpcNext]_ipcVars

-----------------------------------------------------------------------------
IpcTypeOK ==
    /\ message_queue \in [IpcIndex -> Message \cup {BlankMessage}]
    /\ queue_head \in IpcIndex /\ queue_tail \in IpcIndex
    /\ queue_count \in 0 .. MAX_MESSAGES
    /\ sends \in 0 .. MaxSends
    /\ delivered \in Seq(Message \cup {BlankMessage})

(* How far the queue is out of step: ipc_receive frees the last slot in use and
   leaves queue_tail where it was, so the tail runs ahead of the messages by one
   slot for every receive. *)
TailDrifts == queue_tail = (queue_head + queue_count + Len(delivered)) % MAX_MESSAGES

(* The search window never runs ahead of the sends: whatever is delivered was
   sent by somebody, never the blank content of an unused slot. *)
NoPhantomMessage == \A i \in 1 .. Len(delivered) : delivered[i].send # 0

(* ipc_receive removes what it returns ("Remove message from queue"): no send is
   delivered twice. *)
NoDuplicateDelivery ==
    \A i, j \in 1 .. Len(delivered) : delivered[i].send = delivered[j].send => i = j
=============================================================================
