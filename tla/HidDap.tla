------------------------------- MODULE HidDap -------------------------------
(***************************************************************************)
(* CMSIS-DAP over HID reports: usbd_user_hid.c and the interrupt endpoint  *)
(* part of usbd_hid.c with the request ring of DAP_queue.c.  A report fits *)
(* one USB packet.  All the handlers run in the main task.  Unlike the     *)
(* bulk driver the HID class keeps its own record of the report in flight, *)
(* waits for it in a loop, is polled by the start-of-frame timer, answers  *)
(* Get_Report on the control pipe, and asserts that the ring has room.     *)
(***************************************************************************)
EXTENDS DapQueue

CONSTANTS
  Window,        \* requests the host leaves unanswered at most
  MaxRequests,   \* bound: requests the host sends
  Hosts,         \* what the host may do besides: see `host'
  IdleRate,      \* whether the host has set an idle rate (Set_Idle)
  MaxResets      \* bound: bus resets

ASSUME HidAssumption ==
  /\ Window \in Nat /\ Window <= DAP_PACKET_COUNT   \* what DAP_Info tells the host
  /\ MaxRequests \in Nat /\ MaxResets \in Nat
  /\ Hosts \subseteq {"plain", "resetting", "shared"} /\ IdleRate \in BOOLEAN

VARIABLES
  q,              \* DAP_Cmd_queue
  USB_ResponseIdle,
  DataOutToSend,  \* DataOutToSendLen # 0: a report was handed to the endpoint
  out_ep,         \* OUT endpoint buffer: "empty", "request", "abort"
  in_ep,          \* IN endpoint buffer: 0, or the request whose response it holds
  in_event,       \* the endpoint reports that its packet was taken
  sent, answered, last,   \* what the host has sent and read (see DapService)
  executed,       \* history: requests executed so far
  asserted,       \* history: the util_assert of usbd_hid_set_report has failed
  resets,         \* bus resets so far
  host            \* "plain"; "resetting": it may reset the bus; "shared": also
                  \* another program reads reports over the control pipe

vars == <<q, USB_ResponseIdle, DataOutToSend, out_ep, in_ep, in_event,
          sent, answered, last, executed, asserted, resets, host>>

Init ==
  /\ q = InitQueue /\ USB_ResponseIdle = TRUE /\ DataOutToSend = FALSE
  /\ out_ep = "empty" /\ in_ep = 0 /\ in_event = FALSE
  /\ sent = 0 /\ answered = 0 /\ last = 0
  /\ executed = 0 /\ asserted = FALSE /\ resets = 0
  /\ host \in Hosts

\* usbd_hid_get_report_trigger first waits for the report in flight, in the task
\* that would have to handle its end: when it has to wait, it waits forever.
Hung == USB_ResponseIdle /\ DataOutToSend /\ out_ep = "request"

HostSends ==
  /\ out_ep = "empty"
  /\ sent < MaxRequests /\ sent - answered < Window
  /\ out_ep' = "request" /\ sent' = sent + 1
  /\ UNCHANGED <<q, USB_ResponseIdle, DataOutToSend, in_ep, in_event,
                 answered, last, executed, asserted, resets, host>>

\* DAP_TransferAbort may be sent at any time and has no response.
HostAborts ==
  /\ out_ep = "empty" /\ sent > answered
  /\ out_ep' = "abort"
  /\ UNCHANGED <<q, USB_ResponseIdle, DataOutToSend, in_ep, in_event,
                 sent, answered, last, executed, asserted, resets, host>>

HostReads ==
  /\ in_ep # 0
  /\ last' = in_ep /\ answered' = answered + 1
  /\ in_ep' = 0 /\ in_event' = TRUE
  /\ UNCHANGED <<q, USB_ResponseIdle, DataOutToSend, out_ep, sent,
                 executed, asserted, resets, host>>

\* A report goes to the IN endpoint.
WriteIn(r) == in_ep' = r /\ DataOutToSend' = TRUE

IdleAfterOutForgotten == USB_ResponseIdle   \* fault: the driver still thinks it is idle
IdleAfterOut == FALSE

\* USBD_HID_EP_INTOUT_Event with usbd_hid_set_report: executed into the ring, and
\* answered at once (hid_send_packet, usbd_hid_get_report_trigger) when idle.
HandleRequest ==
  /\ out_ep = "request" /\ ~Hung
  /\ out_ep' = "empty"
  /\ IF ~CanExecute(q)
     THEN /\ asserted' = TRUE
          /\ UNCHANGED <<q, USB_ResponseIdle, DataOutToSend, in_ep, executed>>
     ELSE LET done == AfterExecute(q, executed + 1)
          IN /\ executed' = executed + 1
             /\ USB_ResponseIdle' = IdleAfterOut
             /\ IF USB_ResponseIdle
                THEN q' = AfterSend(done) /\ WriteIn(Response(done))
                ELSE q' = done /\ UNCHANGED <<in_ep, DataOutToSend>>
             /\ UNCHANGED asserted
  /\ UNCHANGED <<in_event, sent, answered, last, resets, host>>

\* ID_DAP_TransferAbort only sets DAP_TransferAbort, which the next transfer clears
\* before it looks at it.
HandleAbort ==
  /\ out_ep = "abort"
  /\ out_ep' = "empty"
  /\ UNCHANGED <<q, USB_ResponseIdle, DataOutToSend, in_ep, in_event,
                 sent, answered, last, executed, asserted, resets, host>>

IdleAfterIn == USB_ResponseIdle \/ ~CanSend(q)

\* USBD_HID_EP_INTIN_Event when the last report is out: the next one, or idle.
NextReport ==
  /\ USB_ResponseIdle' = IdleAfterIn
  /\ IF CanSend(q) THEN q' = AfterSend(q) /\ WriteIn(Response(q))
                   ELSE DataOutToSend' = FALSE /\ UNCHANGED <<q, in_ep>>

HandleIn ==
  /\ in_event /\ ~Hung
  /\ in_event' = FALSE
  /\ NextReport
  /\ UNCHANGED <<out_ep, sent, answered, last, executed, asserted, resets, host>>

\* USBD_HID_SOF_Event when the idle period of the report is over
StartOfFrame ==
  /\ IdleRate /\ ~DataOutToSend /\ ~Hung
  /\ NextReport
  /\ UNCHANGED <<in_event, out_ep, sent, answered, last, executed, asserted, resets, host>>

IdleAfterGetReportEmpty == USB_ResponseIdle \/ ~CanSend(q)  \* fault: as for the endpoint
IdleAfterGetReport == USB_ResponseIdle

\* USBD_HID_GetReport: Get_Report over the control pipe takes the oldest response of
\* the ring; with none it sends the buffer's old contents, which answers nothing.
HostGetsReport ==
  /\ host = "shared" /\ ~Hung
  /\ USB_ResponseIdle' = IdleAfterGetReport
  /\ IF CanSend(q) THEN q' = AfterSend(q) /\ last' = Response(q) /\ answered' = answered + 1
                   ELSE UNCHANGED <<q, last, answered>>
  /\ UNCHANGED <<DataOutToSend, out_ep, in_ep, in_event, sent, executed, asserted, resets, host>>

\* A bus reset and the Set_Configuration that follows empty the endpoints, drop
\* events not handled yet (USBD_Reset clears its queue of them) and
\* (USBD_HID_Configure_Event) forget the report in flight.  The ring and
\* USB_ResponseIdle are initialised only by usbd_init.  The host starts anew and
\* waits for nothing it sent before.
BusReset ==
  /\ host # "plain" /\ resets < MaxResets /\ ~Hung
  /\ resets' = resets + 1
  /\ out_ep' = "empty" /\ in_ep' = 0 /\ in_event' = FALSE
  /\ DataOutToSend' = FALSE
  /\ answered' = sent
  /\ UNCHANGED <<q, USB_ResponseIdle, sent, last, executed, asserted, host>>

Next == \/ HostSends \/ HostAborts \/ HostReads \/ HostGetsReport \/ BusReset
        \/ HandleRequest \/ HandleAbort \/ HandleIn \/ StartOfFrame

Spec == Init /\ [][Next]_vars

\* The main task serves USB events, and a host that waits for a response polls the
\* IN endpoint.  Nobody owes a request, a control read or a reset.
Fairness == WF_vars(HandleRequest) /\ WF_vars(HandleAbort) /\ WF_vars(HandleIn)
            /\ WF_vars(HostReads)
FairSpec == Spec /\ Fairness

(***************************************************************************)
(* Properties                                                              *)
(***************************************************************************)
\* Every variable keeps its type.
TypeOK ==
  /\ q \in QueueType
  /\ USB_ResponseIdle \in BOOLEAN /\ DataOutToSend \in BOOLEAN
  /\ in_event \in BOOLEAN /\ asserted \in BOOLEAN
  /\ out_ep \in {"empty", "request", "abort"}
  /\ in_ep \in Nat /\ sent \in Nat /\ answered \in Nat /\ last \in Nat
  /\ executed \in Nat /\ resets \in 0 .. MaxResets /\ host \in Hosts

\* util_assert(0) of usbd_hid_set_report (usbd_user_hid.c:120): a report from a host
\* that keeps to the advertised packet count always finds room in the ring.
NeverAsserts == ~asserted

\* It can fail only after a bus reset: no order of requests, aborts, endpoint events,
\* idle timer and control pipe reads fills the ring.
AssertsOnlyAfterReset == asserted => resets > 0

\* The main task never enters the wait loop of usbd_hid_get_report_trigger, which
\* only the main task itself could end: the driver is idle only if no report is in
\* flight.
NeverHangs == USB_ResponseIdle => ~DataOutToSend /\ in_ep = 0

\* For a plain host the driver implements the service: each request answered once,
\* in order, and eventually.
ForPlain(n) == IF host = "plain" THEN n ELSE 0
Service == INSTANCE DapService
  WITH sent <- ForPlain(sent), answered <- ForPlain(answered), last <- ForPlain(last)
ImplementsService == Service!Spec
=============================================================================
