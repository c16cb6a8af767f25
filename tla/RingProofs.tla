----------------------------- MODULE RingProofs -----------------------------
(***************************************************************************)
(* What the operations of DAP_queue.c do to a ring that holds its          *)
(* responses in order, for any packet count: the lemmas both endpoint      *)
(* drivers rest on.                                                        *)
(***************************************************************************)
EXTENDS DapQueue, TLAPS

N == DAP_PACKET_COUNT

LEMMA ModBelow ==
  ASSUME NEW i \in 0 .. N - 1
  PROVE  i % N = i
BY PacketCountAssumption, SMT DEF N

LEMMA ModAbove ==
  ASSUME NEW i \in N .. 2 * N - 1
  PROVE  i % N = i - N
BY PacketCountAssumption, SMT DEF N

\* A slot number is the distance from send_idx, wrapped at most once.
LEMMA SlotWraps ==
  ASSUME NEW ring \in QueueType, NEW k \in 0 .. N
  PROVE  Slot(ring, k) = IF ring.send_idx + k < N THEN ring.send_idx + k
                                                  ELSE ring.send_idx + k - N
<1>1. ring.send_idx \in 0 .. N - 1 /\ N \in Nat \ {0}
  BY PacketCountAssumption DEF QueueType, Indexes, N
<1>2. CASE ring.send_idx + k < N
  BY <1>1, <1>2, ModBelow, ring.send_idx + k \in 0 .. N - 1 DEF Slot, N
<1>3. CASE ~(ring.send_idx + k < N)
  BY <1>1, <1>3, ModAbove, ring.send_idx + k \in N .. 2 * N - 1 DEF Slot, N
<1> QED BY <1>2, <1>3

LEMMA IncrWraps ==
  ASSUME NEW i \in Indexes
  PROVE  Incr(i) = IF i + 1 = N THEN 0 ELSE i + 1
<1>1. i \in 0 .. N - 1 /\ N \in Nat \ {0}
  BY PacketCountAssumption DEF Indexes, N
<1>2. CASE i + 1 = N
  BY <1>1, <1>2, ModAbove, N \in N .. 2 * N - 1 DEF Incr, N
<1>3. CASE i + 1 # N
  BY <1>1, <1>3, ModBelow, i + 1 \in 0 .. N - 1 DEF Incr, N
<1> QED BY <1>2, <1>3

\* The oldest response leaves the ring, and the others stay in order.
LEMMA SentLeavesRing ==
  ASSUME NEW ring \in QueueType, NEW n \in Nat, RingHolds(ring, n), CanSend(ring)
  PROVE  /\ AfterSend(ring) \in QueueType
         /\ RingHolds(AfterSend(ring), n)
         /\ Response(ring) = n - ring.send_count + 1
         /\ AfterSend(ring).send_count = ring.send_count - 1
<1> DEFINE after == AfterSend(ring)
           s == ring.send_idx
           c == ring.send_count
<1>1. /\ s \in 0 .. N - 1 /\ N \in Nat \ {0} /\ c \in 1 .. N
      /\ ring.free_count \in 0 .. N /\ ring.free_count + c = N /\ c <= n
  BY PacketCountAssumption DEF QueueType, Indexes, N, CanSend, RingHolds
<1>2. Incr(s) = IF s + 1 = N THEN 0 ELSE s + 1
  BY <1>1, IncrWraps DEF Indexes, N
<1>3. /\ after.send_idx = Incr(s) /\ after.send_count = c - 1
      /\ after.free_count = ring.free_count + 1
      /\ after.buf = ring.buf /\ after.recv_idx = ring.recv_idx
  BY <1>1 DEF AfterSend, QueueType
<1>4. after \in QueueType
  <2>1. Incr(s) \in Indexes /\ ring.free_count + 1 \in 0 .. N /\ c - 1 \in 0 .. N
    BY <1>1, <1>2 DEF Indexes, N
  <2> QED BY <2>1 DEF AfterSend, QueueType, N
<1>5. \A k \in 0 .. N - 1 : Slot(after, k) = Slot(ring, k + 1)
  <2> TAKE k \in 0 .. N - 1
  <2>1. Slot(after, k) = IF Incr(s) + k < N THEN Incr(s) + k ELSE Incr(s) + k - N
    BY <1>1, <1>3, <1>4, SlotWraps, k \in 0 .. N
  <2>2. Slot(ring, k + 1) = IF s + (k + 1) < N THEN s + (k + 1) ELSE s + (k + 1) - N
    BY <1>1, SlotWraps, k + 1 \in 0 .. N
  <2> QED BY <2>1, <2>2, <1>1, <1>2
<1>6. after.recv_idx = Slot(after, after.send_count)
  BY <1>1, <1>3, <1>5, c - 1 \in 0 .. N - 1 DEF RingHolds
<1>7. \A k \in 1 .. after.send_count :
        after.buf[Slot(after, k - 1)] = Popped(after, n) + k
  <2> TAKE k \in 1 .. after.send_count
  <2>1. Slot(after, k - 1) = Slot(ring, (k + 1) - 1)
    BY <1>1, <1>3, <1>5, k - 1 \in 0 .. N - 1, (k - 1) + 1 = (k + 1) - 1
  <2>2. ring.buf[Slot(ring, (k + 1) - 1)] = Popped(ring, n) + (k + 1)
    BY <1>1, <1>3, k + 1 \in 1 .. c DEF RingHolds
  <2> QED BY <2>1, <2>2, <1>1, <1>3 DEF Popped
<1>8. RingHolds(after, n)
  BY <1>1, <1>3, <1>6, <1>7 DEF RingHolds, N
<1>9. Response(ring) = n - c + 1
  <2>1. Slot(ring, 1 - 1) = s
    BY <1>1, SlotWraps, 1 - 1 = 0, 0 \in 0 .. N
  <2>2. ring.buf[Slot(ring, 1 - 1)] = Popped(ring, n) + 1
    BY <1>1, 1 \in 1 .. c DEF RingHolds
  <2> QED BY <2>1, <2>2 DEF Response, Popped
<1> QED BY <1>3, <1>4, <1>8, <1>9

\* A request executed into a free slot is the last to be answered, and overwrites no
\* response that waits.
LEMMA ExecutedEntersRing ==
  ASSUME NEW ring \in QueueType, NEW n \in Nat, RingHolds(ring, n), CanExecute(ring)
  PROVE  /\ AfterExecute(ring, n + 1) \in QueueType
         /\ RingHolds(AfterExecute(ring, n + 1), n + 1)
         /\ AfterExecute(ring, n + 1).send_count = ring.send_count + 1
<1> DEFINE done == AfterExecute(ring, n + 1)
           s == ring.send_idx
           c == ring.send_count
           r == ring.recv_idx
<1>1. /\ s \in 0 .. N - 1 /\ N \in Nat \ {0} /\ c \in 0 .. N - 1 /\ r \in 0 .. N - 1
      /\ ring.free_count \in 1 .. N /\ ring.free_count + c = N /\ c <= n
  BY PacketCountAssumption DEF QueueType, Indexes, N, CanExecute, RingHolds
<1>2. r = Slot(ring, c) /\ r = IF s + c < N THEN s + c ELSE s + c - N
  BY <1>1, SlotWraps, c \in 0 .. N DEF RingHolds
<1>3. Incr(r) = IF r + 1 = N THEN 0 ELSE r + 1
  BY <1>1, IncrWraps DEF Indexes, N
<1>4. /\ done.send_idx = s /\ done.send_count = c + 1 /\ done.recv_idx = Incr(r)
      /\ done.free_count = ring.free_count - 1
      /\ done.buf = [ring.buf EXCEPT ![r] = n + 1]
  BY <1>1 DEF AfterExecute, QueueType
<1>5. done \in QueueType
  <2>1. Incr(r) \in Indexes /\ ring.free_count - 1 \in 0 .. N /\ c + 1 \in 0 .. N
    BY <1>1, <1>3 DEF Indexes, N
  <2>2. [ring.buf EXCEPT ![r] = n + 1] \in [Indexes -> Nat]
    BY <1>1 DEF QueueType
  <2> QED BY <2>1, <2>2 DEF AfterExecute, QueueType, N
<1>6. \A k \in 0 .. N : Slot(done, k) = Slot(ring, k)
  BY <1>4 DEF Slot
<1>7. done.recv_idx = Slot(done, done.send_count)
  <2>1. Slot(ring, c + 1) = IF s + (c + 1) < N THEN s + (c + 1) ELSE s + (c + 1) - N
    BY <1>1, SlotWraps, c + 1 \in 0 .. N
  <2> QED BY <2>1, <1>1, <1>2, <1>3, <1>4, <1>6, c + 1 \in 0 .. N
<1>8. \A k \in 1 .. done.send_count :
        done.buf[Slot(done, k - 1)] = Popped(done, n + 1) + k
  <2> TAKE k \in 1 .. done.send_count
  <2>1. /\ k \in 1 .. c + 1 /\ k - 1 \in 0 .. N
        /\ Slot(done, k - 1) = Slot(ring, k - 1)
        /\ Popped(done, n + 1) = n - c /\ Popped(ring, n) = n - c
    <3>1. k \in 1 .. c + 1 /\ k - 1 \in 0 .. N
      BY <1>1, <1>4
    <3>2. Popped(done, n + 1) = n - c /\ Popped(ring, n) = n - c
      BY <1>1, <1>4 DEF Popped
    <3> QED BY <3>1, <3>2, <1>6
  <2>2. Slot(ring, k - 1) = IF s + (k - 1) < N THEN s + (k - 1) ELSE s + (k - 1) - N
    BY <2>1, SlotWraps
  <2>3. Slot(ring, k - 1) \in Indexes
    BY <2>1, <2>2, <1>1 DEF Indexes, N
  <2>4. CASE k = c + 1
    <3>1. Slot(ring, k - 1) = r
      BY <2>4, <1>1, <1>2, k - 1 = c
    <3>2. done.buf[r] = n + 1
      BY <1>1, <1>4 DEF QueueType, Indexes, N
    <3> QED BY <3>1, <3>2, <2>1, <2>4, <1>1
  <2>5. CASE k # c + 1
    <3>1. Slot(ring, k - 1) # r
      BY <2>1, <2>2, <2>5, <1>1, <1>2
    <3>2. done.buf[Slot(ring, k - 1)] = ring.buf[Slot(ring, k - 1)]
      BY <2>3, <3>1, <1>4 DEF QueueType
    <3>3. ring.buf[Slot(ring, k - 1)] = Popped(ring, n) + k
      BY <2>1, <2>5, <1>1, k \in 1 .. c DEF RingHolds
    <3> QED BY <3>2, <3>3, <2>1
  <2> QED BY <2>4, <2>5
<1>9. RingHolds(done, n + 1)
  BY <1>1, <1>4, <1>7, <1>8 DEF RingHolds, N
<1> QED BY <1>4, <1>5, <1>9

\* The ring DAP_queue_init leaves holds nothing.
LEMMA InitialRing == InitQueue \in QueueType /\ RingHolds(InitQueue, 0) /\ ~CanSend(InitQueue)
<1>1. 0 \in Indexes /\ N \in Nat \ {0}
  BY PacketCountAssumption, SMT DEF Indexes, N
<1>2. InitQueue \in QueueType
  BY <1>1 DEF InitQueue, QueueType, N
<1>3. Slot(InitQueue, 0) = 0
  BY <1>1, <1>2, SlotWraps, 0 \in 0 .. N DEF InitQueue
<1>4. RingHolds(InitQueue, 0)
  BY <1>1, <1>3 DEF RingHolds, InitQueue, N
<1> QED BY <1>2, <1>4 DEF CanSend, InitQueue
=============================================================================
