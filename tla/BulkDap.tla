------------------------------ MODULE BulkDap ------------------------------
(***************************************************************************)
(* CMSIS-DAP over bulk endpoints: usbd_bulk.c with the request ring of     *)
(* DAP_queue.c, between the host and the two hardware endpoint buffers.    *)
(* All the handlers run in the main task; the host and the endpoints move  *)
(* on their own.                                                           *)
(***************************************************************************)
EXTENDS DapQueue

CONSTANTS
  Window,        \* requests the host leaves unanswered at most (DAP_Info packet count)
  MaxChunks,     \* full-size USB packets that fill USBD_Bulk_BulkOutBuf
  MaxRequests,   \* bound: requests the host sends
  Hosts,         \* what the host may do besides: see `host'
  MaxResets      \* bound: bus resets

\* DAP_Info tells the host DAP_PACKET_COUNT
ASSUME BulkAssumption ==
  /\ Window \in Nat /\ Window <= DAP_PACKET_COUNT
  /\ MaxRequests \in Nat /\ MaxResets \in Nat /\ MaxChunks \in Nat \ {0}
  /\ Hosts \subseteq {"plain", "resetting"}

VARIABLES
  q,              \* DAP_Cmd_queue
  USB_ResponseIdle,
  DataInReceLen,  \* full-size packets of the current request received so far
  out_ep,         \* OUT endpoint buffer: "empty", or a packet: "full", "short"
  in_ep,          \* IN endpoint buffer: 0, or the request whose response it holds
  in_event,       \* the endpoint reports that its packet was taken
  chunks,         \* packets of its current request the host has sent already
  sent, answered, last,   \* what the host has sent and read (see DapService)
  executed,       \* history: requests executed so far
  clobbered,      \* history: a response overwrote another in the IN endpoint
  resets,         \* bus resets so far
  cut,            \* history: one of them found a request or a response under way
  host            \* "plain"; "resetting": it may reset the bus

vars == <<q, USB_ResponseIdle, DataInReceLen, out_ep, in_ep, in_event, chunks,
          sent, answered, last, executed, clobbered, resets, cut, host>>

Init ==
  /\ q = InitQueue /\ USB_ResponseIdle = TRUE /\ DataInReceLen = 0
  /\ out_ep = "empty" /\ in_ep = 0 /\ in_event = FALSE
  /\ chunks = 0 /\ sent = 0 /\ answered = 0 /\ last = 0
  /\ executed = 0 /\ clobbered = FALSE
  /\ resets = 0 /\ cut = FALSE /\ host \in Hosts

\* The host puts the next packet of a request into the OUT endpoint.  A packet
\* shorter than the maximum ends the request, as does the one that fills the buffer.
HostSends ==
  /\ out_ep = "empty"
  /\ sent < MaxRequests /\ sent - answered < Window
  /\ \E packet \in {"full", "short"} :
       /\ out_ep' = packet
       /\ IF packet = "full" /\ chunks + 1 < MaxChunks
          THEN chunks' = chunks + 1 /\ UNCHANGED sent
          ELSE chunks' = 0 /\ sent' = sent + 1
  /\ UNCHANGED <<q, USB_ResponseIdle, DataInReceLen, in_ep, in_event,
                 answered, last, executed, clobbered, resets, cut, host>>

\* The host reads the packet in the IN endpoint.
HostReads ==
  /\ in_ep # 0
  /\ last' = in_ep /\ answered' = answered + 1
  /\ in_ep' = 0 /\ in_event' = TRUE
  /\ UNCHANGED <<q, USB_ResponseIdle, DataInReceLen, out_ep, chunks, sent,
                 executed, clobbered, resets, cut, host>>

\* USBD_WriteEP on the IN endpoint
WriteIn(r) == in_ep' = r /\ clobbered' = (clobbered \/ in_ep # 0)

IdleAfterOutForgotten == USB_ResponseIdle   \* fault: the driver still thinks it is idle
IdleAfterOut == FALSE

\* The packet in the endpoint is the last of a request, as the driver counts.
EndsRequest == out_ep = "short" \/ (out_ep = "full" /\ DataInReceLen + 1 >= MaxChunks)

LenAfterPacketKept == DataInReceLen + 1     \* fault: not cleared for the next request
LenAfterPacket == IF EndsRequest THEN 0 ELSE DataInReceLen + 1

\* USBD_BULK_EP_BULKOUT_Event.  With a full ring the request is dropped unanswered.
HandleOut ==
  /\ out_ep # "empty"
  /\ out_ep' = "empty"
  /\ DataInReceLen' = LenAfterPacket
  /\ IF ~EndsRequest \/ ~CanExecute(q)
     THEN UNCHANGED <<q, USB_ResponseIdle, in_ep, executed, clobbered>>
     ELSE LET done == AfterExecute(q, executed + 1)
          IN /\ executed' = executed + 1
             /\ USB_ResponseIdle' = IdleAfterOut
             /\ IF USB_ResponseIdle
                THEN q' = AfterSend(done) /\ WriteIn(Response(done))
                ELSE q' = done /\ UNCHANGED <<in_ep, clobbered>>
  /\ UNCHANGED <<in_event, chunks, sent, answered, last, resets, cut, host>>

IdleAfterInNever == USB_ResponseIdle       \* fault: an empty ring leaves it busy
IdleAfterInAlways == TRUE                  \* fault: idle although it sends
IdleAfterIn == USB_ResponseIdle \/ ~CanSend(q)

\* USBD_BULK_EP_BULKIN_Event
HandleIn ==
  /\ in_event
  /\ in_event' = FALSE
  /\ USB_ResponseIdle' = IdleAfterIn
  /\ IF CanSend(q) THEN q' = AfterSend(q) /\ WriteIn(Response(q))
                   ELSE UNCHANGED <<q, in_ep, clobbered>>
  /\ UNCHANGED <<DataInReceLen, out_ep, chunks, sent, answered, last, executed,
                 resets, cut, host>>

\* A bus reset empties the endpoints and drops events not handled yet; of the classes
\* it tells CDC and MSC (and the Set_Configuration that follows, HID), not this one,
\* whose idle flag, receive length and ring only usbd_init initialises.  The host
\* starts anew and waits for nothing it sent before.
BusReset ==
  /\ host = "resetting" /\ resets < MaxResets
  /\ resets' = resets + 1
  /\ cut' = (cut \/ ~USB_ResponseIdle \/ DataInReceLen > 0)
  /\ out_ep' = "empty" /\ in_ep' = 0 /\ in_event' = FALSE
  /\ chunks' = 0 /\ answered' = sent
  /\ UNCHANGED <<q, USB_ResponseIdle, DataInReceLen, sent, last, executed, clobbered, host>>

Next == HostSends \/ HostReads \/ HandleOut \/ HandleIn \/ BusReset

Spec == Init /\ [][Next]_vars

\* The main task serves USB events (USBD_Handler on its PROC_USB event), and a
\* host that waits for a response keeps reading.  Nobody owes a request or a reset.
Fairness == WF_vars(HandleOut) /\ WF_vars(HandleIn) /\ WF_vars(HostReads)
FairSpec == Spec /\ Fairness

(***************************************************************************)
(* Properties                                                              *)
(***************************************************************************)
\* Every variable keeps its type.
TypeOK ==
  /\ q \in QueueType
  /\ USB_ResponseIdle \in BOOLEAN /\ in_event \in BOOLEAN /\ clobbered \in BOOLEAN
  /\ DataInReceLen \in 0 .. MaxChunks - 1 /\ chunks \in 0 .. MaxChunks - 1
  /\ out_ep \in {"empty", "full", "short"}
  /\ in_ep \in Nat /\ sent \in Nat /\ answered \in Nat /\ last \in Nat
  /\ executed \in Nat /\ resets \in 0 .. MaxResets /\ cut \in BOOLEAN /\ host \in Hosts

\* The ring is consistent: every slot is either free or holds a response that was
\* not sent yet, and the unsent responses lie in order from send_idx up to recv_idx.
RingConsistent == RingHolds(q, executed)

\* A host that keeps to the advertised packet count finds the ring full, and has a
\* request dropped unanswered, only after a bus reset that came while a request or
\* a response was under way; a reset of an idle driver does no harm.
DroppedOnlyAfterCut == EndsRequest /\ ~CanExecute(q) => cut

\* A response is written to the IN endpoint only after the host took the one before,
\* or a reset did: an idle driver has no packet on its way.
NeverClobbered ==
  /\ ~clobbered
  /\ USB_ResponseIdle => in_ep = 0 /\ ~in_event

\* Responses wait in the ring with no event to come that fetches the next one only
\* after such a reset, which takes the packet and its event but not the busy flag.
StrandedOnlyAfterCut == CanSend(q) => in_ep # 0 \/ in_event \/ cut

\* For a host that never resets the bus the driver implements the service: each
\* request answered once, in order, and eventually.
ForPlain(n) == IF host = "plain" THEN n ELSE 0
Service == INSTANCE DapService
  WITH sent <- ForPlain(sent), answered <- ForPlain(answered), last <- ForPlain(last)
ImplementsService == Service!Spec
=============================================================================
