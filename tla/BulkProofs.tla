----------------------------- MODULE BulkProofs -----------------------------
(***************************************************************************)
(* Proofs about BulkDap for every packet count, window, buffer size and    *)
(* number of requests and resets: no response overwrites another, none is  *)
(* stranded and no request dropped until a bus reset cuts one short, and   *)
(* for a plain host every step is a step of DapService or changes nothing  *)
(* the host sees.                                                          *)
(***************************************************************************)
EXTENDS BulkDap, RingProofs, TLAPS

(***************************************************************************)
(* The inductive invariant                                                 *)
(***************************************************************************)
\* An idle driver has nothing in the IN endpoint and nothing to send.
Endpoint ==
  /\ ~clobbered
  /\ in_ep # 0 => ~in_event
  /\ USB_ResponseIdle => in_ep = 0 /\ ~in_event /\ ~CanSend(q)

\* Until a reset cuts one short every unanswered request is in one place, host and
\* driver agree on the packets of the next, and a busy driver has an event to come.
Count(here) == IF here THEN 1 ELSE 0
Accounted == ~cut =>
  /\ ~USB_ResponseIdle => in_ep # 0 \/ in_event
  /\ sent = answered + q.send_count + Count(in_ep # 0) + Count(EndsRequest)
  /\ sent - answered <= Window
  /\ chunks = IF out_ep = "empty" THEN DataInReceLen ELSE LenAfterPacket

\* A plain host sees the requests' order.
PlainInOrder == host = "plain" =>
  /\ ~cut /\ last = answered
  /\ executed = answered + q.send_count + Count(in_ep # 0)
  /\ in_ep # 0 => in_ep = answered + 1

IInv == TypeOK /\ RingHolds(q, executed) /\ Endpoint /\ Accounted /\ PlainInOrder

LEMMA Types ==
  ASSUME IInv
  PROVE  /\ TypeOK /\ q \in QueueType /\ q.send_count \in Nat /\ q.free_count \in Nat
         /\ in_ep \in Nat /\ sent \in Nat /\ answered \in Nat /\ last \in Nat
         /\ executed \in Nat /\ resets \in Nat /\ Window \in Nat /\ N \in Nat
         /\ DataInReceLen \in Nat /\ chunks \in Nat /\ MaxChunks \in Nat
         /\ \A here : Count(here) \in Nat
<1>1. q \in QueueType /\ resets \in 0 .. MaxResets
      /\ DataInReceLen \in 0 .. MaxChunks - 1 /\ chunks \in 0 .. MaxChunks - 1
  BY DEF IInv, TypeOK
<1>2. resets \in Nat /\ DataInReceLen \in Nat /\ chunks \in Nat /\ MaxChunks \in Nat
  BY <1>1, BulkAssumption
<1>3. q.send_count \in Nat /\ q.free_count \in Nat
  BY <1>1, PacketCountAssumption DEF QueueType
<1>4. \A here : Count(here) \in Nat
  BY DEF Count
<1> QED BY <1>1, <1>2, <1>3, <1>4, BulkAssumption, PacketCountAssumption
        DEF IInv, TypeOK, N

\* Until then the host's window leaves room in the ring for its next request.
LEMMA RoomForRequest ==
  ASSUME IInv, EndsRequest, ~cut
  PROVE  CanExecute(q)
<1>1. /\ sent = answered + q.send_count + Count(in_ep # 0) + 1
      /\ sent - answered <= Window /\ Window <= N
  BY BulkAssumption DEF IInv, Accounted, Count, N
<1>2. q.free_count + q.send_count = N
  BY DEF IInv, RingHolds, N
<1> QED BY <1>1, <1>2, Types DEF CanExecute

(***************************************************************************)
(* The actions                                                             *)
(***************************************************************************)
LEMMA InitEstablishes ==
  ASSUME Init
  PROVE  IInv
<1>1. InitQueue \in QueueType /\ RingHolds(InitQueue, 0) /\ ~CanSend(InitQueue)
      /\ InitQueue.send_count = 0
  BY InitialRing DEF InitQueue
<1>2. TypeOK
  <2>1. USB_ResponseIdle \in BOOLEAN /\ in_event \in BOOLEAN /\ clobbered \in BOOLEAN
        /\ cut \in BOOLEAN
    BY Zenon DEF Init
  <2>2. resets \in 0 .. MaxResets /\ DataInReceLen \in 0 .. MaxChunks - 1
        /\ chunks \in 0 .. MaxChunks - 1
    BY BulkAssumption DEF Init
  <2> QED BY <1>1, <2>1, <2>2 DEF Init, TypeOK
<1>3. Endpoint
  BY <1>1 DEF Init, Endpoint
<1>4. Accounted /\ PlainInOrder
  BY <1>1, BulkAssumption DEF Init, Accounted, PlainInOrder, Count, EndsRequest
<1> QED BY <1>1, <1>2, <1>3, <1>4 DEF IInv, Init

LEMMA HostSendsKeeps ==
  ASSUME IInv, HostSends
  PROVE  IInv'
<1>1. /\ out_ep = "empty" /\ sent - answered < Window
      /\ UNCHANGED <<q, USB_ResponseIdle, DataInReceLen, in_ep, in_event,
                     answered, last, executed, clobbered, resets, cut, host>>
  BY DEF HostSends
<1>2. PICK packet \in {"full", "short"} :
        /\ out_ep' = packet
        /\ IF packet = "full" /\ chunks + 1 < MaxChunks
           THEN chunks' = chunks + 1 /\ UNCHANGED sent
           ELSE chunks' = 0 /\ sent' = sent + 1
  BY Zenon DEF HostSends
<1>3. sent' \in Nat /\ chunks' \in 0 .. MaxChunks - 1
  BY <1>2, Types, BulkAssumption
<1>4. TypeOK'
  BY <1>1, <1>2, <1>3, Types DEF TypeOK
<1>5. Endpoint' /\ PlainInOrder'
  BY <1>1 DEF IInv, Endpoint, PlainInOrder, CanSend, Count
<1>6. Accounted'
  <2>1. SUFFICES ASSUME ~cut PROVE Accounted'
    BY <1>1 DEF Accounted
  <2>2. chunks = DataInReceLen /\ ~EndsRequest
    BY <1>1, <2>1 DEF IInv, Accounted, EndsRequest
  <2>3. sent = answered + q.send_count + Count(in_ep # 0)
    BY <2>1, <2>2, Types DEF IInv, Accounted, Count
  <2>4. CASE packet = "full" /\ chunks + 1 < MaxChunks
    <3>1. ~EndsRequest' /\ chunks' = LenAfterPacket' /\ sent' = sent /\ out_ep' # "empty"
      BY <1>1, <1>2, <2>2, <2>4, Types DEF EndsRequest, LenAfterPacket
    <3> QED BY <1>1, <2>1, <2>3, <3>1, Types DEF IInv, Accounted, Count
  <2>5. CASE ~(packet = "full" /\ chunks + 1 < MaxChunks)
    <3>1. EndsRequest' /\ chunks' = LenAfterPacket' /\ sent' = sent + 1 /\ out_ep' # "empty"
      BY <1>1, <1>2, <2>2, <2>5, Types DEF EndsRequest, LenAfterPacket
    <3>2. sent' - answered' <= Window
      BY <1>1, <3>1, Types
    <3> QED BY <1>1, <2>1, <2>3, <3>1, <3>2, Types DEF IInv, Accounted, Count
  <2> QED BY <2>4, <2>5
<1> QED BY <1>1, <1>4, <1>5, <1>6 DEF IInv

LEMMA HostReadsKeeps ==
  ASSUME IInv, HostReads
  PROVE  IInv'
<1>1. /\ in_ep # 0 /\ in_ep' = 0 /\ in_event' = TRUE
      /\ answered' = answered + 1 /\ last' = in_ep
      /\ UNCHANGED <<q, USB_ResponseIdle, DataInReceLen, out_ep, chunks, sent,
                     executed, clobbered, resets, cut, host>>
  BY DEF HostReads
<1>2. TypeOK'
  BY <1>1, Types DEF TypeOK
<1>3. Endpoint'
  BY <1>1 DEF IInv, Endpoint, CanSend
<1>4. PlainInOrder'
  BY <1>1, Types DEF IInv, PlainInOrder, Count
<1>5. Accounted'
  <2>1. SUFFICES ASSUME ~cut PROVE Accounted'
    BY <1>1 DEF Accounted
  <2>2. EndsRequest' = EndsRequest /\ LenAfterPacket' = LenAfterPacket
    BY <1>1 DEF EndsRequest, LenAfterPacket
  <2>3. Count(in_ep # 0) = 1 /\ Count(in_ep' # 0) = 0
    BY <1>1 DEF Count
  <2>4. sent' = answered' + q'.send_count + Count(in_ep' # 0) + Count(EndsRequest')
    BY <1>1, <2>1, <2>2, <2>3, Types DEF IInv, Accounted
  <2>5. sent' - answered' <= Window
    BY <1>1, <2>1, Types DEF IInv, Accounted
  <2> QED BY <1>1, <2>1, <2>2, <2>4, <2>5 DEF IInv, Accounted
<1> QED BY <1>1, <1>2, <1>3, <1>4, <1>5 DEF IInv

\* USBD_BULK_EP_BULKIN_Event
LEMMA HandleInKeeps ==
  ASSUME IInv, HandleIn
  PROVE  IInv'
<1>1. /\ in_event /\ in_event' = FALSE /\ in_ep = 0 /\ ~USB_ResponseIdle
      /\ UNCHANGED <<DataInReceLen, out_ep, chunks, sent, answered, last, executed,
                     resets, cut, host>>
  BY DEF HandleIn, IInv, Endpoint
<1>2. EndsRequest' = EndsRequest /\ LenAfterPacket' = LenAfterPacket
  BY <1>1 DEF EndsRequest, LenAfterPacket
<1>3. USB_ResponseIdle' = (USB_ResponseIdle \/ ~CanSend(q))
  BY DEF HandleIn, IdleAfterIn
<1>4. CASE CanSend(q)
  <2>1. /\ q' = AfterSend(q) /\ in_ep' = Response(q) /\ clobbered' = (clobbered \/ in_ep # 0)
    BY <1>4 DEF HandleIn, WriteIn
  <2>2. USB_ResponseIdle' = FALSE /\ clobbered' = FALSE
    <3>1. clobbered = FALSE
      BY Types DEF IInv, Endpoint, TypeOK
    <3> QED BY <1>1, <1>3, <1>4, <2>1, <3>1, Zenon
  <2>3. /\ q' \in QueueType /\ RingHolds(q', executed)
        /\ in_ep' = executed - q.send_count + 1
        /\ q'.send_count = q.send_count - 1 /\ q.send_count <= executed
    BY <1>4, <2>1, Types, SentLeavesRing DEF IInv, RingHolds
  <2>4. in_ep' \in Nat /\ in_ep' # 0
    BY <2>3, Types
  <2>5. TypeOK'
    BY <1>1, <2>2, <2>3, <2>4, Types DEF TypeOK
  <2>6. Endpoint'
    BY <1>1, <2>2, <2>4 DEF Endpoint
  <2>7. Count(in_ep # 0) = 0 /\ Count(in_ep' # 0) = 1
    BY <1>1, <2>4 DEF Count
  <2>8. Accounted'
    <3>1. SUFFICES ASSUME ~cut PROVE Accounted'
      BY <1>1 DEF Accounted
    <3>2. sent' = answered' + q'.send_count + Count(in_ep' # 0) + Count(EndsRequest')
      BY <1>1, <1>2, <2>3, <2>7, <3>1, Types DEF IInv, Accounted
    <3> QED BY <1>1, <1>2, <2>4, <3>1, <3>2 DEF IInv, Accounted
  <2>9. PlainInOrder'
    <3>1. SUFFICES ASSUME host = "plain" PROVE PlainInOrder'
      BY <1>1 DEF PlainInOrder
    <3>2. executed = answered + q.send_count
      BY <2>7, <3>1, Types DEF IInv, PlainInOrder
    <3>3. executed' = answered' + q'.send_count + Count(in_ep' # 0)
          /\ in_ep' = answered' + 1
      BY <1>1, <2>3, <2>7, <3>2, Types
    <3> QED BY <1>1, <3>1, <3>3 DEF IInv, PlainInOrder
  <2> QED BY <1>1, <2>3, <2>5, <2>6, <2>8, <2>9 DEF IInv
<1>5. CASE ~CanSend(q)
  <2>1. UNCHANGED <<q, in_ep, clobbered>>
    BY <1>5 DEF HandleIn
  <2>2. USB_ResponseIdle' = TRUE
    BY <1>3, <1>5, Zenon
  <2>3. TypeOK'
    BY <1>1, <2>1, <2>2, Types DEF TypeOK
  <2>4. Endpoint'
    BY <1>1, <1>5, <2>1, <2>2 DEF IInv, Endpoint, CanSend
  <2>5. Accounted' /\ PlainInOrder'
    BY <1>1, <1>2, <2>1, <2>2 DEF IInv, Accounted, PlainInOrder, Count
  <2> QED BY <1>1, <2>1, <2>3, <2>4, <2>5 DEF IInv
<1> QED BY <1>4, <1>5

\* USBD_BULK_EP_BULKOUT_Event before the last packet of a request, or with a full ring
LEMMA PacketTakenKeeps ==
  ASSUME IInv, HandleOut, ~EndsRequest \/ ~CanExecute(q)
  PROVE  IInv'
<1>1. /\ out_ep # "empty" /\ out_ep' = "empty" /\ DataInReceLen' = LenAfterPacket
      /\ UNCHANGED <<in_event, chunks, sent, answered, last, resets, cut, host>>
      /\ UNCHANGED <<q, USB_ResponseIdle, in_ep, executed, clobbered>>
  BY DEF HandleOut
<1>2. ~cut => ~EndsRequest
  BY RoomForRequest
<1>3. out_ep = "full" \/ out_ep = "short"
  BY <1>1, Types DEF TypeOK
<1>4. DataInReceLen' \in 0 .. MaxChunks - 1
  BY <1>1, <1>3, Types, BulkAssumption DEF LenAfterPacket, EndsRequest
<1>5. TypeOK'
  BY <1>1, <1>4, Types DEF TypeOK
<1>6. Endpoint' /\ PlainInOrder'
  BY <1>1 DEF IInv, Endpoint, PlainInOrder, CanSend, Count
<1>7. ~EndsRequest'
  BY <1>1 DEF EndsRequest
<1>8. Accounted'
  BY <1>1, <1>2, <1>7 DEF IInv, Accounted, Count
<1> QED BY <1>1, <1>5, <1>6, <1>8 DEF IInv

\* USBD_BULK_EP_BULKOUT_Event when the packet ends a request
LEMMA RequestExecutedKeeps ==
  ASSUME IInv, HandleOut, EndsRequest, CanExecute(q)
  PROVE  IInv'
<1> DEFINE done == AfterExecute(q, executed + 1)
<1>1. /\ out_ep # "empty" /\ out_ep' = "empty" /\ DataInReceLen' = LenAfterPacket
      /\ UNCHANGED <<in_event, chunks, sent, answered, last, resets, cut, host>>
      /\ executed' = executed + 1 /\ USB_ResponseIdle' = FALSE
  BY DEF HandleOut, IdleAfterOut
<1>2. DataInReceLen' = 0 /\ DataInReceLen' \in 0 .. MaxChunks - 1
  BY <1>1, BulkAssumption DEF LenAfterPacket
<1>3. ~EndsRequest' /\ LenAfterPacket = 0
  BY <1>1 DEF EndsRequest, LenAfterPacket
<1>4. /\ done \in QueueType /\ RingHolds(done, executed + 1)
      /\ done.send_count = q.send_count + 1
  BY Types, ExecutedEntersRing DEF IInv
<1>5. executed' \in Nat
  BY <1>1, Types
<1>6. ~cut => /\ sent = answered + q.send_count + Count(in_ep # 0) + 1
              /\ sent - answered <= Window /\ chunks = 0
  BY <1>1, <1>3 DEF IInv, Accounted, Count
<1>7. CASE USB_ResponseIdle
  <2>1. in_ep = 0 /\ ~in_event /\ ~CanSend(q)
    BY <1>7 DEF IInv, Endpoint
  <2>2. q.send_count = 0
    BY <2>1, Types DEF CanSend
  <2>3. q' = AfterSend(done) /\ in_ep' = Response(done) /\ clobbered' = (clobbered \/ in_ep # 0)
    BY <1>7 DEF HandleOut, WriteIn
  <2>4. clobbered' = FALSE
    <3>1. clobbered = FALSE
      BY Types DEF IInv, Endpoint, TypeOK
    <3> QED BY <2>1, <2>3, <3>1, Zenon
  <2>5. CanSend(done)
    BY <1>4, <2>2 DEF CanSend
  <2>6. /\ q' \in QueueType /\ RingHolds(q', executed')
        /\ in_ep' = executed + 1 /\ q'.send_count = 0
    BY <1>1, <1>4, <2>2, <2>3, <2>5, SentLeavesRing, Types
  <2>7. in_ep' \in Nat /\ in_ep' # 0
    BY <2>6, Types
  <2>8. TypeOK'
    BY <1>1, <1>2, <1>5, <2>4, <2>6, <2>7, Types DEF TypeOK
  <2>9. Endpoint'
    BY <1>1, <2>1, <2>4, <2>7 DEF Endpoint
  <2>10. Count(in_ep # 0) = 0 /\ Count(in_ep' # 0) = 1 /\ Count(EndsRequest') = 0
    BY <1>3, <2>1, <2>7 DEF Count
  <2>11. Accounted'
    <3>1. SUFFICES ASSUME ~cut PROVE Accounted'
      BY <1>1 DEF Accounted
    <3>2. sent' = answered' + q'.send_count + Count(in_ep' # 0) + Count(EndsRequest')
      BY <1>1, <1>6, <2>2, <2>6, <2>10, <3>1, Types
    <3> QED BY <1>1, <1>2, <1>6, <2>7, <3>1, <3>2 DEF Accounted
  <2>12. PlainInOrder'
    <3>1. SUFFICES ASSUME host = "plain" PROVE PlainInOrder'
      BY <1>1 DEF PlainInOrder
    <3>2. executed = answered
      BY <2>2, <2>10, <3>1, Types DEF IInv, PlainInOrder
    <3>3. executed' = answered' + q'.send_count + Count(in_ep' # 0)
          /\ in_ep' = answered' + 1
      BY <1>1, <2>6, <2>10, <3>2, Types
    <3> QED BY <1>1, <3>1, <3>3 DEF IInv, PlainInOrder
  <2> QED BY <2>6, <2>8, <2>9, <2>11, <2>12 DEF IInv
<1>8. CASE ~USB_ResponseIdle
  <2>1. q' = done /\ UNCHANGED <<in_ep, clobbered>>
    BY <1>8 DEF HandleOut
  <2>2. TypeOK'
    <3>1. q' \in QueueType
      BY <1>4, <2>1, Zenon
    <3> HIDE DEF done
    <3> QED BY <1>1, <1>2, <1>5, <2>1, <3>1, Types DEF TypeOK
  <2>3. Endpoint'
    BY <1>1, <2>1 DEF IInv, Endpoint
  <2>4. q'.send_count = q.send_count + 1 /\ Count(EndsRequest') = 0
    BY <1>3, <1>4, <2>1 DEF Count
  <2>5. Accounted'
    <3>1. SUFFICES ASSUME ~cut PROVE Accounted'
      BY <1>1 DEF Accounted
    <3>2. sent' = answered' + q'.send_count + Count(in_ep' # 0) + Count(EndsRequest')
      BY <1>1, <1>6, <2>1, <2>4, <3>1, Types
    <3>3. in_ep # 0 \/ in_event
      BY <1>8, <3>1 DEF IInv, Accounted
    <3> HIDE DEF done
    <3> QED BY <1>1, <1>2, <1>6, <2>1, <3>1, <3>2, <3>3 DEF Accounted
  <2>6. PlainInOrder'
    <3>1. SUFFICES ASSUME host = "plain" PROVE PlainInOrder'
      BY <1>1 DEF PlainInOrder
    <3>2. executed' = answered' + q'.send_count + Count(in_ep' # 0)
      BY <1>1, <2>1, <2>4, <3>1, Types DEF IInv, PlainInOrder
    <3> HIDE DEF done
    <3> QED BY <1>1, <2>1, <3>1, <3>2 DEF IInv, PlainInOrder
  <2> QED BY <1>1, <1>4, <2>1, <2>2, <2>3, <2>5, <2>6 DEF IInv
<1> QED BY <1>7, <1>8

LEMMA BusResetKeeps ==
  ASSUME IInv, BusReset
  PROVE  IInv'
<1>1. /\ host # "plain" /\ resets < MaxResets /\ resets' = resets + 1
      /\ cut' = (cut \/ ~USB_ResponseIdle \/ DataInReceLen > 0)
      /\ out_ep' = "empty" /\ in_ep' = 0 /\ in_event' = FALSE
      /\ chunks' = 0 /\ answered' = sent
      /\ UNCHANGED <<q, USB_ResponseIdle, DataInReceLen, sent, last, executed,
                     clobbered, host>>
  BY DEF BusReset
<1>2. TypeOK'
  <2>1. resets' \in 0 .. MaxResets /\ chunks' \in 0 .. MaxChunks - 1
    BY <1>1, Types, BulkAssumption
  <2>2. cut' \in BOOLEAN
    BY <1>1, Zenon
  <2> QED BY <1>1, <2>1, <2>2, Types DEF TypeOK
<1>3. Endpoint'
  BY <1>1 DEF IInv, Endpoint, CanSend
<1>4. Accounted'
  <2>1. SUFFICES ASSUME ~cut' PROVE Accounted'
    BY DEF Accounted
  <2>2. USB_ResponseIdle /\ DataInReceLen = 0
    <3>1. USB_ResponseIdle /\ ~(DataInReceLen > 0)
      BY <1>1, <2>1, Zenon
    <3> QED BY <3>1, Types
  <2>3. q.send_count = 0
    BY <2>2, Types DEF IInv, Endpoint, CanSend
  <2>4. ~EndsRequest'
    BY <1>1 DEF EndsRequest
  <2> QED BY <1>1, <2>2, <2>3, <2>4, Types DEF Accounted, Count
<1>5. PlainInOrder'
  BY <1>1 DEF PlainInOrder
<1> QED BY <1>1, <1>2, <1>3, <1>4, <1>5 DEF IInv

LEMMA NextPreserves ==
  ASSUME IInv, [Next]_vars
  PROVE  IInv'
<1>1. CASE HostSends
  BY <1>1, HostSendsKeeps
<1>2. CASE HostReads
  BY <1>2, HostReadsKeeps
<1>3. CASE HandleOut
  BY <1>3, PacketTakenKeeps, RequestExecutedKeeps
<1>4. CASE HandleIn
  BY <1>4, HandleInKeeps
<1>5. CASE BusReset
  BY <1>5, BusResetKeeps
<1>6. CASE UNCHANGED vars
  BY <1>6 DEF vars, IInv, TypeOK, Endpoint, Accounted, PlainInOrder, CanSend, Count,
              EndsRequest, LenAfterPacket
<1> QED BY <1>1, <1>2, <1>3, <1>4, <1>5, <1>6 DEF Next

LEMMA Invariance == Spec => []IInv
BY InitEstablishes, NextPreserves, PTL DEF Spec

(***************************************************************************)
(* The theorems                                                            *)
(***************************************************************************)
\* Every variable keeps its type, the two counters and indexes of the ring included.
THEOREM TypeCorrect == Spec => []TypeOK
<1>1. IInv => TypeOK
  BY DEF IInv
<1> QED BY <1>1, Invariance, PTL

\* The ring of DAP_queue.c holds exactly the responses not sent yet, in order, for any
\* packet count, and through any bus resets.
THEOREM RingStaysConsistent == Spec => []RingConsistent
<1>1. IInv => RingConsistent
  BY DEF IInv, RingConsistent
<1> QED BY <1>1, Invariance, PTL

\* USBD_BULK_EP_BULKOUT_Event drops a request of a host that leaves no more unanswered
\* than DAP_Info allows only after a bus reset that cut a request or a response short.
THEOREM CutBeforeDrop == Spec => []DroppedOnlyAfterCut
<1>1. IInv => DroppedOnlyAfterCut
  BY RoomForRequest DEF DroppedOnlyAfterCut
<1> QED BY <1>1, Invariance, PTL

\* No response overwrites another in the IN endpoint, and an idle driver has no packet
\* on its way, through any bus resets.
THEOREM ResponsesNeverClobbered == Spec => []NeverClobbered
<1>1. IInv => NeverClobbered
  BY DEF IInv, Endpoint, NeverClobbered
<1> QED BY <1>1, Invariance, PTL

\* Until such a reset a response in the ring has an event to come that will send it.
THEOREM CutBeforeStranded == Spec => []StrandedOnlyAfterCut
<1>1. IInv => StrandedOnlyAfterCut
  BY DEF IInv, Endpoint, Accounted, StrandedOnlyAfterCut
<1> QED BY <1>1, Invariance, PTL

\* For a plain host the driver implements the service but for its liveness: it answers
\* each request at most once, in order, and nothing that was not asked.
THEOREM AnswersInOrder ==
  Spec => Service!Init
          /\ [][Service!Next]_<<ForPlain(sent), ForPlain(answered), ForPlain(last)>>
<1>1. Init => Service!Init
  BY DEF Init, ForPlain, Service!Init
<1>2. ASSUME IInv, [Next]_vars
      PROVE  [Service!Next]_<<ForPlain(sent), ForPlain(answered), ForPlain(last)>>
  <2>1. UNCHANGED host
    BY <1>2 DEF Next, HostSends, HostReads, HandleOut, HandleIn, BusReset, vars
  <2>2. CASE host # "plain"
    BY <2>1, <2>2 DEF ForPlain
  <2>3. CASE host = "plain"
    <3>1. /\ ForPlain(sent) = sent /\ ForPlain(sent)' = sent'
          /\ ForPlain(answered) = answered /\ ForPlain(answered)' = answered'
          /\ ForPlain(last) = last /\ ForPlain(last)' = last'
      BY <2>1, <2>3 DEF ForPlain
    <3>2. CASE HostSends
      <4>1. sent < MaxRequests /\ sent - answered < Window
            /\ UNCHANGED <<answered, last>> /\ (sent' = sent + 1 \/ sent' = sent)
        BY <3>2 DEF HostSends
      <4> QED BY <3>1, <4>1 DEF Service!Next, Service!Send
    <3>3. CASE HostReads
      <4>1. in_ep = answered + 1 /\ Count(in_ep # 0) = 1
            /\ sent = answered + q.send_count + Count(in_ep # 0) + Count(EndsRequest)
        BY <1>2, <2>3, <3>3 DEF HostReads, IInv, PlainInOrder, Accounted, Count
      <4>2. answered < sent
        BY <1>2, <4>1, Types
      <4> QED BY <3>1, <3>3, <4>1, <4>2 DEF HostReads, Service!Next, Service!Answer
    <3>4. CASE HandleOut \/ HandleIn \/ UNCHANGED vars
      BY <3>1, <3>4 DEF HandleOut, HandleIn, vars
    <3>5. ~BusReset
      BY <2>3 DEF BusReset
    <3> QED BY <1>2, <3>2, <3>3, <3>4, <3>5 DEF Next
  <2> QED BY <2>2, <2>3
<1> QED BY <1>1, <1>2, Invariance, PTL DEF Spec
=============================================================================
