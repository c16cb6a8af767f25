------------------------------ MODULE HidProofs ------------------------------
(***************************************************************************)
(* Proofs about HidDap for every packet count, window and number of        *)
(* requests and resets: the main task never waits for itself, the ring has *)
(* room for every request until the bus is reset, and for a plain host     *)
(* every step is a step of DapService or changes nothing the host sees.    *)
(***************************************************************************)
EXTENDS HidDap, RingProofs, TLAPS

(***************************************************************************)
(* The inductive invariant                                                 *)
(***************************************************************************)
\* DataOutToSend is the driver's record of what the IN endpoint does, and the driver
\* is idle only with nothing there and nothing to send.
Endpoint ==
  /\ DataOutToSend <=> in_ep # 0 \/ in_event
  /\ in_ep # 0 => ~in_event
  /\ USB_ResponseIdle => ~DataOutToSend /\ ~CanSend(q)

\* Until a reset every request is in one place.
Count(here) == IF here THEN 1 ELSE 0
Accounted == resets = 0 =>
  /\ ~asserted
  /\ sent = executed + Count(out_ep = "request")
  /\ executed = answered + q.send_count + Count(in_ep # 0)
  /\ sent - answered <= Window

\* A host that reads nothing over the control pipe sees the requests' order.
PlainInOrder == host = "plain" =>
  /\ resets = 0 /\ last = answered
  /\ in_ep # 0 => in_ep = answered + 1

IInv == TypeOK /\ RingHolds(q, executed) /\ Endpoint /\ Accounted /\ PlainInOrder

LEMMA Types ==
  ASSUME IInv
  PROVE  /\ TypeOK /\ q \in QueueType /\ q.send_count \in Nat /\ q.free_count \in Nat
         /\ in_ep \in Nat /\ sent \in Nat /\ answered \in Nat /\ last \in Nat
         /\ executed \in Nat /\ resets \in Nat /\ Window \in Nat /\ N \in Nat
         /\ \A r \in Indexes : q.buf[r] \in Nat
         /\ q.send_idx \in Indexes
<1>1. q \in QueueType /\ resets \in 0 .. MaxResets
  BY DEF IInv, TypeOK
<1>2. resets \in Nat
  BY <1>1, HidAssumption
<1>3. q.send_count \in Nat /\ q.free_count \in Nat
  BY <1>1, PacketCountAssumption DEF QueueType
<1> QED BY <1>1, <1>2, <1>3, HidAssumption, PacketCountAssumption
        DEF IInv, TypeOK, QueueType, N

\* Until a reset the host's window leaves room in the ring for its next request.
LEMMA RoomForRequest ==
  ASSUME IInv, out_ep = "request", resets = 0
  PROVE  CanExecute(q)
<1>1. /\ sent = executed + 1
      /\ executed = answered + q.send_count + Count(in_ep # 0)
      /\ sent - answered <= Window /\ Window <= N
  BY HidAssumption DEF IInv, Accounted, Count, N
<1>2. Count(in_ep # 0) \in Nat
  BY DEF Count
<1>3. q.free_count + q.send_count = N
  BY DEF IInv, RingHolds, N
<1> QED BY <1>1, <1>2, <1>3, Types DEF CanExecute

\* The driver never has to wait for the report in flight.
LEMMA NotHung ==
  ASSUME IInv
  PROVE  ~Hung
  BY DEF IInv, Endpoint, Hung

(***************************************************************************)
(* The actions                                                             *)
(***************************************************************************)
LEMMA InitEstablishes ==
  ASSUME Init
  PROVE  IInv
<1>1. InitQueue \in QueueType /\ RingHolds(InitQueue, 0) /\ ~CanSend(InitQueue)
  BY InitialRing
<1>2. TypeOK
  <2>1. USB_ResponseIdle \in BOOLEAN /\ DataOutToSend \in BOOLEAN /\ in_event \in BOOLEAN
        /\ asserted \in BOOLEAN
    BY Zenon DEF Init
  <2>2. resets \in 0 .. MaxResets
    BY HidAssumption DEF Init
  <2> QED BY <1>1, <2>1, <2>2 DEF Init, TypeOK
<1>3. Endpoint
  BY <1>1 DEF Init, Endpoint
<1>4. Accounted /\ PlainInOrder
  BY HidAssumption DEF Init, Accounted, PlainInOrder, Count, InitQueue
<1> QED BY <1>1, <1>2, <1>3, <1>4 DEF IInv, Init

LEMMA HostSendsKeeps ==
  ASSUME IInv, HostSends
  PROVE  IInv'
<1>1. /\ out_ep = "empty" /\ out_ep' = "request" /\ sent' = sent + 1
      /\ sent - answered < Window
      /\ UNCHANGED <<q, USB_ResponseIdle, DataOutToSend, in_ep, in_event,
                     answered, last, executed, asserted, resets, host>>
  BY DEF HostSends
<1>2. TypeOK'
  BY <1>1, Types DEF TypeOK
<1>3. Endpoint' /\ PlainInOrder'
  BY <1>1 DEF IInv, Endpoint, PlainInOrder, CanSend
<1>4. Accounted'
  <2>1. sent' - answered' <= Window
    BY <1>1, Types
  <2> QED BY <1>1, <2>1, Types DEF IInv, Accounted, Count
<1> QED BY <1>1, <1>2, <1>3, <1>4 DEF IInv

LEMMA HostAbortsKeeps ==
  ASSUME IInv, HostAborts \/ HandleAbort
  PROVE  IInv'
<1>1. /\ out_ep # "request" /\ out_ep' \in {"empty", "abort"}
      /\ UNCHANGED <<q, USB_ResponseIdle, DataOutToSend, in_ep, in_event,
                     sent, answered, last, executed, asserted, resets, host>>
  BY DEF HostAborts, HandleAbort
<1>2. TypeOK'
  BY <1>1, Types DEF TypeOK
<1>3. Endpoint' /\ PlainInOrder' /\ Accounted'
  BY <1>1 DEF IInv, Endpoint, PlainInOrder, Accounted, CanSend, Count
<1> QED BY <1>1, <1>2, <1>3 DEF IInv

LEMMA HostReadsKeeps ==
  ASSUME IInv, HostReads
  PROVE  IInv'
<1>1. /\ in_ep # 0 /\ in_ep' = 0 /\ in_event' = TRUE
      /\ answered' = answered + 1 /\ last' = in_ep
      /\ UNCHANGED <<q, USB_ResponseIdle, DataOutToSend, out_ep, sent,
                     executed, asserted, resets, host>>
  BY DEF HostReads
<1>2. TypeOK'
  BY <1>1, Types DEF TypeOK
<1>3. Endpoint' /\ PlainInOrder'
  BY <1>1, Types DEF IInv, Endpoint, PlainInOrder, CanSend
<1>4. Accounted'
  <2>1. SUFFICES ASSUME resets = 0 PROVE Accounted'
    BY <1>1 DEF Accounted
  <2>2. /\ executed' = answered' + q'.send_count + Count(in_ep' # 0)
        /\ sent' - answered' <= Window
    BY <1>1, <2>1, Types DEF IInv, Accounted, Count
  <2> QED BY <1>1, <2>1, <2>2 DEF IInv, Accounted, Count
<1> QED BY <1>1, <1>2, <1>3, <1>4 DEF IInv

\* The oldest response goes out: NextReport after the report before was taken
LEMMA NextReportKeeps ==
  ASSUME IInv, NextReport, in_ep = 0, in_event' = FALSE,
         UNCHANGED <<out_ep, sent, answered, last, executed, asserted, resets, host>>
  PROVE  IInv'
<1>1. CASE CanSend(q)
  <2>1. /\ q' = AfterSend(q) /\ in_ep' = Response(q) /\ DataOutToSend' = TRUE
        /\ ~USB_ResponseIdle /\ USB_ResponseIdle' = FALSE
    <3>1. ~USB_ResponseIdle
      BY <1>1 DEF IInv, Endpoint
    <3>2. USB_ResponseIdle' = (USB_ResponseIdle \/ ~CanSend(q))
      BY DEF NextReport, IdleAfterIn
    <3>3. USB_ResponseIdle' = FALSE
      BY <1>1, <3>1, <3>2, Zenon
    <3> QED BY <1>1, <3>1, <3>3 DEF NextReport, WriteIn
  <2>2. /\ q' \in QueueType /\ RingHolds(q', executed)
        /\ in_ep' = executed - q.send_count + 1
        /\ q'.send_count = q.send_count - 1 /\ q.send_count <= executed
    BY <1>1, <2>1, Types, SentLeavesRing DEF IInv, RingHolds
  <2>3. in_ep' \in Nat /\ in_ep' # 0
    BY <2>2, Types
  <2>4. TypeOK'
    BY <2>1, <2>2, <2>3, Types DEF TypeOK
  <2>5. Endpoint'
    BY <2>1, <2>3 DEF Endpoint
  <2>6. Accounted'
    <3>1. SUFFICES ASSUME resets = 0 PROVE Accounted'
      BY DEF Accounted
    <3>2. executed' = answered' + q'.send_count + Count(in_ep' # 0)
      BY <2>2, <2>3, <3>1, Types DEF IInv, Accounted, Count
    <3> QED BY <3>1, <3>2 DEF IInv, Accounted, Count
  <2>7. PlainInOrder'
    <3>1. SUFFICES ASSUME host = "plain" PROVE in_ep' = answered + 1
      BY DEF IInv, PlainInOrder
    <3>2. executed = answered + q.send_count
      BY <3>1, Types DEF IInv, PlainInOrder, Accounted, Count
    <3> QED BY <2>2, <3>2, Types
  <2> QED BY <2>2, <2>4, <2>5, <2>6, <2>7 DEF IInv
<1>2. CASE ~CanSend(q)
  <2>1. USB_ResponseIdle' = TRUE /\ DataOutToSend' = FALSE /\ UNCHANGED <<q, in_ep>>
    <3>1. USB_ResponseIdle' = (USB_ResponseIdle \/ ~CanSend(q))
      BY DEF NextReport, IdleAfterIn
    <3>2. USB_ResponseIdle' = TRUE
      BY <1>2, <3>1, Zenon
    <3> QED BY <1>2, <3>2 DEF NextReport
  <2>2. TypeOK'
    BY <2>1, Types DEF TypeOK
  <2>3. Endpoint'
    BY <1>2, <2>1 DEF Endpoint, CanSend
  <2>4. Accounted' /\ PlainInOrder'
    BY <2>1 DEF IInv, Accounted, PlainInOrder, Count
  <2> QED BY <2>1, <2>2, <2>3, <2>4 DEF IInv
<1> QED BY <1>1, <1>2

LEMMA HandleInKeeps ==
  ASSUME IInv, HandleIn
  PROVE  IInv'
<1>1. in_ep = 0
  BY DEF IInv, Endpoint, HandleIn
<1> QED BY <1>1, NextReportKeeps DEF HandleIn

LEMMA StartOfFrameKeeps ==
  ASSUME IInv, StartOfFrame
  PROVE  IInv'
<1>1. in_ep = 0 /\ ~in_event
  BY DEF IInv, Endpoint, StartOfFrame
<1>2. in_event' = FALSE
  <2>1. in_event \in BOOLEAN
    BY Types DEF TypeOK
  <2> QED BY <1>1, <2>1 DEF StartOfFrame
<1> QED BY <1>1, <1>2, NextReportKeeps DEF StartOfFrame

LEMMA HandleRequestKeeps ==
  ASSUME IInv, HandleRequest
  PROVE  IInv'
<1>1. /\ out_ep = "request" /\ out_ep' = "empty"
      /\ UNCHANGED <<in_event, sent, answered, last, resets, host>>
  BY DEF HandleRequest
<1>2. CASE ~CanExecute(q)
  <2>1. /\ asserted' = TRUE
        /\ UNCHANGED <<q, USB_ResponseIdle, DataOutToSend, in_ep, executed>>
    BY <1>2 DEF HandleRequest
  <2>2. resets # 0
    BY <1>1, <1>2, RoomForRequest
  <2>3. TypeOK'
    BY <1>1, <2>1, Types DEF TypeOK
  <2>4. Endpoint' /\ Accounted' /\ PlainInOrder'
    BY <1>1, <2>1, <2>2 DEF IInv, Endpoint, Accounted, PlainInOrder, CanSend
  <2> QED BY <2>1, <2>3, <2>4 DEF IInv
<1>3. CASE CanExecute(q)
  <2> DEFINE done == AfterExecute(q, executed + 1)
  <2>1. executed' = executed + 1 /\ USB_ResponseIdle' = FALSE /\ asserted' = asserted
    BY <1>3 DEF HandleRequest, IdleAfterOut
  <2>2. /\ done \in QueueType /\ RingHolds(done, executed + 1)
        /\ done.send_count = q.send_count + 1
    BY <1>3, Types, ExecutedEntersRing DEF IInv
  <2>3. resets = 0 => /\ sent = executed + 1
                      /\ executed = answered + q.send_count + Count(in_ep # 0)
    BY <1>1 DEF IInv, Accounted, Count
  <2>4. CASE USB_ResponseIdle
    <3>1. in_ep = 0 /\ ~in_event /\ ~CanSend(q)
      BY <2>4 DEF IInv, Endpoint
    <3>2. q.send_count = 0
      BY <3>1, Types DEF CanSend
    <3>3. q' = AfterSend(done) /\ in_ep' = Response(done) /\ DataOutToSend' = TRUE
      BY <1>3, <2>4 DEF HandleRequest, WriteIn
    <3>4. CanSend(done)
      BY <2>2, <3>2 DEF CanSend
    <3>5. /\ q' \in QueueType /\ RingHolds(q', executed')
          /\ in_ep' = executed + 1 /\ q'.send_count = 0
      BY <2>1, <2>2, <3>2, <3>3, <3>4, SentLeavesRing, Types
    <3>6. in_ep' \in Nat /\ in_ep' # 0
      BY <3>5, Types
    <3>7. TypeOK'
      BY <1>1, <2>1, <3>3, <3>5, <3>6, Types DEF TypeOK
    <3>8. Endpoint'
      BY <1>1, <2>1, <3>1, <3>3, <3>6 DEF Endpoint
    <3>9. Accounted'
      <4>1. SUFFICES ASSUME resets = 0 PROVE Accounted'
        BY <1>1 DEF Accounted
      <4>2. sent' = executed' + Count(out_ep' = "request")
        BY <1>1, <2>1, <2>3, <4>1, Types DEF Count
      <4>3. executed' = answered' + q'.send_count + Count(in_ep' # 0)
        BY <1>1, <2>1, <2>3, <3>1, <3>2, <3>5, <3>6, <4>1, Types DEF Count
      <4> QED BY <1>1, <2>1, <4>1, <4>2, <4>3 DEF IInv, Accounted
    <3>10. PlainInOrder'
      <4>1. SUFFICES ASSUME host = "plain" PROVE executed = answered
        BY <1>1, <3>5 DEF IInv, PlainInOrder
      <4>2. resets = 0
        BY <4>1 DEF IInv, PlainInOrder
      <4> QED BY <2>3, <3>1, <3>2, <4>2, Types DEF Count
    <3> QED BY <3>5, <3>7, <3>8, <3>9, <3>10 DEF IInv
  <2>5. CASE ~USB_ResponseIdle
    <3>1. q' = done /\ UNCHANGED <<in_ep, DataOutToSend>>
      BY <1>3, <2>5 DEF HandleRequest
    <3>2. TypeOK'
      <4>1. /\ in_ep' \in Nat /\ DataOutToSend' \in BOOLEAN /\ asserted' \in BOOLEAN
            /\ in_event' \in BOOLEAN
        BY <1>1, <2>1, <3>1, Types DEF TypeOK
      <4>2. q' \in QueueType /\ executed' \in Nat /\ USB_ResponseIdle' \in BOOLEAN
        <5>1. executed' \in Nat
          BY <2>1, Types
        <5>2. USB_ResponseIdle' \in BOOLEAN
          BY <2>1, Zenon
        <5>3. q' \in QueueType
          BY <2>2, <3>1, Zenon
        <5> QED BY <5>1, <5>2, <5>3
      <4> QED BY <1>1, <4>1, <4>2, Types DEF TypeOK
    <3>3. Endpoint'
      BY <1>1, <2>1, <3>1 DEF IInv, Endpoint
    <3>4. Accounted'
      <4>1. SUFFICES ASSUME resets = 0 PROVE Accounted'
        BY <1>1 DEF Accounted
      <4>2. sent' = executed' + Count(out_ep' = "request")
        BY <1>1, <2>1, <2>3, <4>1, Types DEF Count
      <4>3. Count(in_ep # 0) \in Nat
        BY DEF Count
      <4>4. executed' = answered' + q'.send_count + Count(in_ep' # 0)
        BY <1>1, <2>1, <2>2, <2>3, <3>1, <4>1, <4>3, Types
      <4> QED BY <1>1, <2>1, <4>1, <4>2, <4>4 DEF IInv, Accounted
    <3>5. PlainInOrder'
      BY <1>1, <3>1 DEF IInv, PlainInOrder
    <3> QED BY <2>1, <2>2, <3>1, <3>2, <3>3, <3>4, <3>5 DEF IInv
  <2> QED BY <2>4, <2>5
<1> QED BY <1>2, <1>3

LEMMA HostGetsReportKeeps ==
  ASSUME IInv, HostGetsReport
  PROVE  IInv'
<1>1. /\ host = "shared" /\ USB_ResponseIdle' = USB_ResponseIdle
      /\ UNCHANGED <<DataOutToSend, out_ep, in_ep, in_event, sent, executed, asserted,
                     resets, host>>
  BY DEF HostGetsReport, IdleAfterGetReport
<1>2. CASE CanSend(q)
  <2>1. q' = AfterSend(q) /\ last' = Response(q) /\ answered' = answered + 1
    BY <1>2 DEF HostGetsReport
  <2>2. /\ q' \in QueueType /\ RingHolds(q', executed)
        /\ last' = executed - q.send_count + 1
        /\ q'.send_count = q.send_count - 1 /\ q.send_count <= executed
    BY <1>2, <2>1, Types, SentLeavesRing DEF IInv, RingHolds
  <2>3. last' \in Nat /\ answered' \in Nat
    BY <2>1, <2>2, Types
  <2>4. TypeOK'
    BY <1>1, <2>2, <2>3, Types DEF TypeOK
  <2>5. Endpoint'
    BY <1>1, <1>2 DEF IInv, Endpoint
  <2>6. Accounted'
    <3>1. SUFFICES ASSUME resets = 0 PROVE Accounted'
      BY <1>1 DEF Accounted
    <3>2. Count(in_ep # 0) \in Nat
      BY DEF Count
    <3>3. executed' = answered' + q'.send_count + Count(in_ep' # 0)
      BY <1>1, <2>1, <2>2, <3>1, <3>2, Types DEF IInv, Accounted
    <3>4. sent' - answered' <= Window
      BY <1>1, <2>1, <3>1, Types DEF IInv, Accounted
    <3> QED BY <1>1, <3>1, <3>3, <3>4 DEF IInv, Accounted
  <2>7. PlainInOrder'
    BY <1>1 DEF PlainInOrder
  <2> QED BY <1>1, <2>2, <2>4, <2>5, <2>6, <2>7 DEF IInv
<1>3. CASE ~CanSend(q)
  <2>1. UNCHANGED <<q, last, answered>>
    BY <1>3 DEF HostGetsReport
  <2>2. TypeOK'
    BY <1>1, <2>1, Types DEF TypeOK
  <2>3. Endpoint' /\ Accounted' /\ PlainInOrder'
    BY <1>1, <2>1 DEF IInv, Endpoint, Accounted, PlainInOrder, CanSend
  <2> QED BY <1>1, <2>1, <2>2, <2>3 DEF IInv
<1> QED BY <1>2, <1>3

LEMMA BusResetKeeps ==
  ASSUME IInv, BusReset
  PROVE  IInv'
<1>1. /\ host # "plain" /\ resets < MaxResets /\ resets' = resets + 1
      /\ out_ep' = "empty" /\ in_ep' = 0 /\ in_event' = FALSE
      /\ DataOutToSend' = FALSE /\ answered' = sent
      /\ UNCHANGED <<q, USB_ResponseIdle, sent, last, executed, asserted, host>>
  BY DEF BusReset
<1>2. TypeOK'
  <2>1. resets' \in 0 .. MaxResets
    BY <1>1, Types, HidAssumption
  <2> QED BY <1>1, <2>1, Types DEF TypeOK
<1>3. Endpoint'
  BY <1>1 DEF IInv, Endpoint, CanSend
<1>4. Accounted' /\ PlainInOrder'
  <2>1. resets' # 0
    BY <1>1, Types
  <2> QED BY <1>1, <2>1 DEF Accounted, PlainInOrder
<1> QED BY <1>1, <1>2, <1>3, <1>4 DEF IInv

LEMMA NextPreserves ==
  ASSUME IInv, [Next]_vars
  PROVE  IInv'
<1>1. CASE HostSends
  BY <1>1, HostSendsKeeps
<1>2. CASE HostAborts \/ HandleAbort
  BY <1>2, HostAbortsKeeps
<1>3. CASE HostReads
  BY <1>3, HostReadsKeeps
<1>4. CASE HostGetsReport
  BY <1>4, HostGetsReportKeeps
<1>5. CASE BusReset
  BY <1>5, BusResetKeeps
<1>6. CASE HandleRequest
  BY <1>6, HandleRequestKeeps
<1>7. CASE HandleIn
  BY <1>7, HandleInKeeps
<1>8. CASE StartOfFrame
  BY <1>8, StartOfFrameKeeps
<1>9. CASE UNCHANGED vars
  BY <1>9 DEF vars, IInv, TypeOK, Endpoint, Accounted, PlainInOrder, CanSend, Count
<1> QED BY <1>1, <1>2, <1>3, <1>4, <1>5, <1>6, <1>7, <1>8, <1>9 DEF Next

(***************************************************************************)
(* The theorems                                                            *)
(***************************************************************************)
\* At any time the ring of DAP_queue.c holds the responses not sent yet, the record of
\* the report in flight agrees with the endpoint, and until a reset every request is
\* in one place.
THEOREM Invariance == Spec => []IInv
BY InitEstablishes, NextPreserves, PTL DEF Spec

\* Every variable keeps its type, the indexes and counters of the ring included.
THEOREM TypeCorrect == Spec => []TypeOK
<1>1. IInv => TypeOK
  BY DEF IInv
<1> QED BY <1>1, Invariance, PTL

\* The wait loop of usbd_hid_get_report_trigger, which the main task would wait in for
\* itself, is never entered, whatever the host does and however often it resets the bus.
THEOREM HangsNever == Spec => []NeverHangs
<1>1. IInv => NeverHangs
  BY DEF IInv, Endpoint, NeverHangs
<1> QED BY <1>1, Invariance, PTL

\* The util_assert of usbd_hid_set_report cannot fail before a bus reset, for any
\* packet count, and even if another program reads responses over the control pipe.
THEOREM ResetBeforeAssert == Spec => []AssertsOnlyAfterReset
<1>1. IInv => AssertsOnlyAfterReset
  <2> SUFFICES ASSUME IInv, asserted PROVE resets > 0
    BY DEF AssertsOnlyAfterReset
  <2>1. resets # 0
    BY DEF IInv, Accounted
  <2> QED BY <2>1, Types
<1> QED BY <1>1, Invariance, PTL

\* The safety part of the refinement for a plain host: usbd_user_hid.c answers each
\* request once and in order; the other steps change nothing that host sees.
THEOREM AnswersInOrder == Spec => Service!Init /\ [][Service!Next]_Service!vars
<1>1. Init => Service!Init
  BY DEF Init, Service!Init, ForPlain
<1>2. ASSUME IInv, [Next]_vars
      PROVE  [Service!Next]_Service!vars
  <2>1. host' = host
    BY <1>2 DEF Next, HostSends, HostAborts, HostReads, HostGetsReport, BusReset,
       HandleRequest, HandleAbort, HandleIn, StartOfFrame, vars
  <2>2. CASE host # "plain" \/ UNCHANGED <<sent, answered, last>>
    BY <2>1, <2>2 DEF Service!vars, ForPlain
  <2>3. CASE host = "plain" /\ HostSends
    <3>1. /\ ForPlain(sent) = sent /\ ForPlain(answered) = answered
          /\ ForPlain(sent)' = sent + 1 /\ ForPlain(answered)' = ForPlain(answered)
          /\ ForPlain(last)' = ForPlain(last)
      BY <2>1, <2>3 DEF HostSends, ForPlain
    <3>2. sent < MaxRequests /\ sent - answered < Window
      BY <2>3 DEF HostSends
    <3> QED BY <3>1, <3>2 DEF Service!Next, Service!Send
  <2>4. CASE host = "plain" /\ HostReads
    <3>1. in_ep = answered + 1 /\ resets = 0
      BY <1>2, <2>4 DEF IInv, PlainInOrder, HostReads
    <3>2. /\ ForPlain(sent) = sent /\ ForPlain(answered) = answered
          /\ ForPlain(sent)' = ForPlain(sent) /\ ForPlain(answered)' = answered + 1
          /\ ForPlain(last)' = answered + 1
      BY <2>1, <2>4, <3>1 DEF HostReads, ForPlain
    <3>3. answered < sent
      <4>1. /\ sent = executed + Count(out_ep = "request")
            /\ executed = answered + q.send_count + 1
        BY <1>2, <2>4, <3>1 DEF IInv, Accounted, Count, HostReads
      <4>2. Count(out_ep = "request") \in Nat
        BY DEF Count
      <4> QED BY <1>2, <4>1, <4>2, Types
    <3> QED BY <3>2, <3>3 DEF Service!Next, Service!Answer
  <2> QED BY <1>2, <2>2, <2>3, <2>4
          DEF Next, HostAborts, HostGetsReport, BusReset, HandleRequest, HandleAbort,
              HandleIn, StartOfFrame, vars
<1> QED BY <1>1, <1>2, Invariance, PTL DEF Spec
=============================================================================
