------------------------------ MODULE DapQueue ------------------------------
(***************************************************************************)
(* DAP_queue.c: the ring of request buffers between the USB endpoint       *)
(* drivers and the CMSIS-DAP command interpreter.  A request is executed   *)
(* when it arrives and its response stays in the buffer of the request     *)
(* until the endpoint asks for it.  A response is represented by the       *)
(* number of the request it answers.                                       *)
(***************************************************************************)
EXTENDS Naturals

CONSTANT DAP_PACKET_COUNT
ASSUME PacketCountAssumption == DAP_PACKET_COUNT \in Nat \ {0}

Indexes == 0 .. DAP_PACKET_COUNT - 1

\* DAP_queue; buf is USB_Request with the response the interpreter left in it
QueueType ==
  [buf : [Indexes -> Nat], free_count : 0 .. DAP_PACKET_COUNT,
   send_count : 0 .. DAP_PACKET_COUNT, recv_idx : Indexes, send_idx : Indexes]

\* DAP_queue_init
InitQueue ==
  [buf |-> [i \in Indexes |-> 0], free_count |-> DAP_PACKET_COUNT,
   send_count |-> 0, recv_idx |-> 0, send_idx |-> 0]

CanSend(q) == q.send_count > 0
CanExecute(q) == q.free_count > 0

IncrNoWrap(i) == IF i = DAP_PACKET_COUNT THEN 0 ELSE i + 1   \* fault: one slot too far
Incr(i) == (i + 1) % DAP_PACKET_COUNT

\* DAP_queue_get_send_buf when CanSend: the response, and the queue after it.
\* The slot is free again at once: the caller copies the response before it returns.
Response(q) == q.buf[q.send_idx]
AfterSendKept(q) ==   \* fault: the slot of the response is not given back
  [q EXCEPT !.send_count = @ - 1, !.send_idx = Incr(@)]
AfterSend(q) ==
  [q EXCEPT !.send_count = @ - 1, !.send_idx = Incr(@), !.free_count = @ + 1]

\* DAP_queue_execute_buf when CanExecute: request r is executed into the next slot.
AfterExecuteUncounted(q, r) ==   \* fault: the slot is not taken off the free ones
  [q EXCEPT !.buf[q.recv_idx] = r, !.recv_idx = Incr(@),
            !.send_count = IF @ < DAP_PACKET_COUNT THEN @ + 1 ELSE @]
AfterExecute(q, r) ==
  [q EXCEPT !.free_count = @ - 1, !.buf[q.recv_idx] = r,
            !.recv_idx = Incr(@), !.send_count = @ + 1]

\* Of the first n requests the unsent ones lie in order from send_idx up to
\* recv_idx, and every other slot is free.
Slot(q, k) == (q.send_idx + k) % DAP_PACKET_COUNT
Popped(q, n) == n - q.send_count
RingHolds(q, n) ==
  /\ q.free_count + q.send_count = DAP_PACKET_COUNT
  /\ q.send_count <= n
  /\ q.recv_idx = Slot(q, q.send_count)
  /\ \A k \in 1 .. q.send_count : q.buf[Slot(q, k - 1)] = Popped(q, n) + k
=============================================================================
