----------------------------- MODULE UartProofs -----------------------------
(***************************************************************************)
(* Proofs about UartBridge for rings, messages and chunks of any size: no  *)
(* interleaving of the main task with the interrupt handler makes an       *)
(* assertion fail, loses or reorders what goes to the line, or loses what  *)
(* the target sent without a message.                                      *)
(***************************************************************************)
EXTENDS UartBridge, Integers, TLAPS

(***************************************************************************)
(* The ring of circ_buf.c                                                  *)
(***************************************************************************)
LEMMA Wraps ==
  ASSUME NEW x \in Nat, x < 2 * Size
  PROVE  x % Size = IF x < Size THEN x ELSE x - Size
<1>1. Size \in Nat /\ Size > 1
  BY SizeAssumption
<1>2. CASE x < Size
  BY <1>1, <1>2
<1>3. CASE ~(x < Size)
  <2>1. x - Size \in 0 .. Size - 1 /\ x = (x - Size) + Size
    BY <1>1, <1>3
  <2> QED BY <1>1, <1>3, <2>1
<1> QED BY <1>2, <1>3

\* What is known of any ring; Place(c, i) is where its i-th byte lies.
Place(c, i) == IF c.head + i - 1 < Size THEN c.head + i - 1 ELSE c.head + i - 1 - Size

LEMMA RingTypes ==
  ASSUME NEW c \in CircBufType
  PROVE  /\ Size \in Nat /\ Size > 1
         /\ c.head \in Nat /\ c.head < Size /\ c.tail \in Nat /\ c.tail < Size
         /\ c.buf \in [Places -> Nat]
         /\ Used(c) \in Nat /\ Used(c) < Size /\ Free(c) \in Nat
         /\ Free(c) = Size - 1 - Used(c)
         /\ c.tail = Place(c, Used(c) + 1)
         /\ \A i \in 1 .. Size : /\ Place(c, i) \in Places /\ Nth(c, i) = c.buf[Place(c, i)]
                                 /\ Nth(c, i) \in Nat
         /\ \A i, j \in 1 .. Size : Place(c, i) = Place(c, j) => i = j
<1>1. /\ Size \in Nat /\ Size > 1
      /\ c.head \in Nat /\ c.head < Size /\ c.tail \in Nat /\ c.tail < Size
      /\ c.buf \in [Places -> Nat]
  BY SizeAssumption DEF CircBufType, Places
<1>2. /\ Used(c) \in Nat /\ Used(c) < Size /\ Free(c) = Size - 1 - Used(c) /\ Free(c) \in Nat
      /\ c.tail = Place(c, Used(c) + 1)
  BY <1>1 DEF Used, Free, Place
<1>3. ASSUME NEW i \in 1 .. Size
      PROVE  /\ Place(c, i) \in Places /\ Nth(c, i) = c.buf[Place(c, i)]
             /\ Nth(c, i) \in Nat
  <2> DEFINE x == c.head + i - 1
  <2>1. x \in Nat /\ x < 2 * Size
    BY <1>1
  <2>2. Place(c, i) = x % Size
    <3>1. Place(c, i) = IF x < Size THEN x ELSE x - Size
      BY <1>1, <2>1 DEF Place
    <3> HIDE DEF x
    <3> QED BY <2>1, <3>1, Wraps
  <2>3. Place(c, i) \in Places
    <3>1. Place(c, i) = IF x < Size THEN x ELSE x - Size
      BY <1>1, <2>1 DEF Place
    <3> HIDE DEF x
    <3> QED BY <1>1, <2>1, <3>1 DEF Places
  <2> QED BY <1>1, <2>2, <2>3 DEF Nth
<1>4. \A i, j \in 1 .. Size : Place(c, i) = Place(c, j) => i = j
  BY <1>1 DEF Place
<1> QED BY <1>1, <1>2, <1>3, <1>4

LEMMA EmptyRing ==
  Empty \in CircBufType /\ Used(Empty) = 0
  BY SizeAssumption DEF Empty, CircBufType, Used, Places

LEMMA AfterIs ==
  ASSUME NEW p \in Nat, p < Size
  PROVE  After(p) = (IF p + 1 = Size THEN 0 ELSE p + 1) /\ After(p) \in Places
  BY SizeAssumption DEF After, Places

\* A byte pushed into a ring with room is the last, and the others stay.
LEMMA PushAppends ==
  ASSUME NEW c \in CircBufType, NEW d \in Nat, Free(c) > 0
  PROVE  /\ Push(c, d) \in CircBufType /\ ~PushOverflows(c)
         /\ Used(Push(c, d)) = Used(c) + 1
         /\ \A i \in 1 .. Used(c) : Nth(Push(c, d), i) = Nth(c, i)
         /\ Nth(Push(c, d), Used(c) + 1) = d
<1> DEFINE e == Push(c, d)
           u == Used(c)
<1>1. /\ Size \in Nat /\ Size > 1 /\ u \in Nat /\ u + 1 < Size
      /\ c.head \in Nat /\ c.head < Size /\ c.tail \in Nat /\ c.tail < Size
      /\ c.buf \in [Places -> Nat] /\ c.tail \in Places
  BY RingTypes DEF Places
<1>2. After(c.tail) = (IF c.tail + 1 = Size THEN 0 ELSE c.tail + 1) /\ After(c.tail) \in Places
  BY <1>1, AfterIs
<1>3. /\ e.head = c.head /\ e.tail = After(c.tail)
      /\ e.buf = [c.buf EXCEPT ![c.tail] = d]
  BY DEF Push, CircBufType
<1>4. e \in CircBufType
  <2>1. [c.buf EXCEPT ![c.tail] = d] \in [Places -> Nat]
    BY <1>1
  <2> QED BY <1>2, <2>1 DEF Push, CircBufType
<1>5. ~PushOverflows(c) /\ Used(e) = u + 1
  <2>1. u = IF c.tail >= c.head THEN c.tail - c.head ELSE c.tail + Size - c.head
    BY DEF Used
  <2>2. Used(e) = IF After(c.tail) >= c.head THEN After(c.tail) - c.head
                  ELSE After(c.tail) + Size - c.head
    BY <1>3 DEF Used
  <2> HIDE DEF u, e
  <2> QED BY <1>1, <1>2, <2>1, <2>2 DEF PushOverflows
<1> HIDE DEF e
<1>6. \A i : Place(e, i) = Place(c, i)
  BY <1>3 DEF Place
<1>7. ASSUME NEW i \in 1 .. u
      PROVE  Nth(e, i) = Nth(c, i)
  <2>1. i \in 1 .. Size /\ u + 1 \in 1 .. Size /\ i # u + 1
    BY <1>1
  <2>2. Place(c, i) # c.tail /\ Place(c, i) \in Places
    BY <2>1, RingTypes
  <2>3. Nth(e, i) = e.buf[Place(c, i)] /\ Nth(c, i) = c.buf[Place(c, i)]
    BY <1>4, <1>6, <2>1, RingTypes
  <2> QED BY <1>1, <1>3, <2>2, <2>3
<1>8. Nth(e, u + 1) = d
  <2>1. u + 1 \in 1 .. Size /\ Place(c, u + 1) = c.tail
    BY <1>1, RingTypes
  <2>2. Nth(e, u + 1) = e.buf[c.tail]
    BY <1>4, <1>6, <2>1, RingTypes
  <2> QED BY <1>1, <1>3, <2>2
<1> QED BY <1>4, <1>5, <1>7, <1>8 DEF e

\* The oldest byte leaves, and the others move up.
LEMMA PopRemoves ==
  ASSUME NEW c \in CircBufType, Used(c) > 0
  PROVE  /\ Pop(c) \in CircBufType /\ ~PopUnderflows(c)
         /\ Used(Pop(c)) = Used(c) - 1
         /\ First(c) = Nth(c, 1)
         /\ \A i \in 1 .. Used(c) - 1 : Nth(Pop(c), i) = Nth(c, i + 1)
<1> DEFINE e == Pop(c)
           u == Used(c)
<1>1. /\ Size \in Nat /\ Size > 1 /\ u \in Nat /\ u < Size
      /\ c.head \in Nat /\ c.head < Size /\ c.tail \in Nat /\ c.tail < Size
      /\ c.buf \in [Places -> Nat]
  BY RingTypes
<1>2. After(c.head) = (IF c.head + 1 = Size THEN 0 ELSE c.head + 1) /\ After(c.head) \in Places
  BY <1>1, AfterIs
<1>3. e.head = After(c.head) /\ e.tail = c.tail /\ e.buf = c.buf
  BY DEF Pop, CircBufType
<1>4. e \in CircBufType
  BY <1>2 DEF Pop, CircBufType
<1>5. ~PopUnderflows(c) /\ Used(e) = u - 1
  <2>1. u = IF c.tail >= c.head THEN c.tail - c.head ELSE c.tail + Size - c.head
    BY DEF Used
  <2>2. Used(e) = IF c.tail >= After(c.head) THEN c.tail - After(c.head)
                  ELSE c.tail + Size - After(c.head)
    BY <1>3 DEF Used
  <2>3. u > 0
    OBVIOUS
  <2> HIDE DEF u, e
  <2> QED BY <1>1, <1>2, <2>1, <2>2, <2>3 DEF PopUnderflows
<1> HIDE DEF e
<1>6. First(c) = Nth(c, 1)
  <2>1. 1 \in 1 .. Size /\ Place(c, 1) = c.head
    BY <1>1 DEF Place
  <2> QED BY <2>1, RingTypes DEF First
<1>7. ASSUME NEW i \in 1 .. u - 1
      PROVE  Nth(e, i) = Nth(c, i + 1)
  <2>1. i \in 1 .. Size /\ i + 1 \in 1 .. Size
    BY <1>1
  <2>2. Place(e, i) = Place(c, i + 1)
    BY <1>1, <1>2, <1>3, <2>1 DEF Place
  <2>3. Nth(e, i) = e.buf[Place(e, i)] /\ Nth(c, i + 1) = c.buf[Place(c, i + 1)]
    BY <1>4, <2>1, RingTypes
  <2> QED BY <1>3, <2>2, <2>3
<1> QED BY <1>4, <1>5, <1>6, <1>7 DEF e

\* A run of equal bytes for which there is room is the end of the ring.
LEMMA RunAppends ==
  ASSUME NEW c \in CircBufType, NEW d \in Nat, NEW n \in Nat, n <= Free(c)
  PROVE  /\ PushRun(c, d, n) \in CircBufType
         /\ Used(PushRun(c, d, n)) = Used(c) + n
         /\ \A i \in 1 .. Used(c) : Nth(PushRun(c, d, n), i) = Nth(c, i)
         /\ \A i \in Used(c) + 1 .. Used(c) + n : Nth(PushRun(c, d, n), i) = d
<1> DEFINE e == PushRun(c, d, n)
           u == Used(c)
           t == IF c.tail + n < Size THEN c.tail + n ELSE c.tail + n - Size
<1>1. /\ Size \in Nat /\ Size > 1 /\ u \in Nat /\ u + n < Size
      /\ c.head \in Nat /\ c.head < Size /\ c.tail \in Nat /\ c.tail < Size
      /\ c.buf \in [Places -> Nat]
  BY RingTypes
<1>2. (c.tail + n) % Size = t /\ t \in Places
  <2> DEFINE x == c.tail + n
  <2>1. x \in Nat /\ x < 2 * Size /\ t = IF x < Size THEN x ELSE x - Size
    BY <1>1
  <2> HIDE DEF x, t
  <2>2. x % Size = t
    BY <2>1, Wraps
  <2>3. t \in Places
    BY <1>1, <2>1 DEF Places
  <2> QED BY <2>2, <2>3 DEF x
<1>3. /\ e.head = c.head /\ e.tail = t
      /\ e.buf = [p \in Places |->
                    IF (p + Size - c.tail) % Size < n THEN d ELSE c.buf[p]]
  BY <1>2 DEF PushRun, CircBufType
<1>4. e \in CircBufType
  <2>1. e.buf \in [Places -> Nat]
    BY <1>1, <1>3
  <2> QED BY <1>2, <1>3, <2>1 DEF PushRun, CircBufType
<1>5. Used(e) = u + n
  <2>1. u = IF c.tail >= c.head THEN c.tail - c.head ELSE c.tail + Size - c.head
    BY DEF Used
  <2>2. Used(e) = IF t >= c.head THEN t - c.head ELSE t + Size - c.head
    BY <1>3 DEF Used
  <2> HIDE DEF u, e
  <2> QED BY <1>1, <2>1, <2>2
<1> HIDE DEF e
<1>6. \A i : Place(e, i) = Place(c, i)
  BY <1>3 DEF Place
\* how far the i-th byte lies behind the tail
<1>7. ASSUME NEW i \in 1 .. u + n
      PROVE  /\ i \in 1 .. Size
             /\ (Place(c, i) + Size - c.tail) % Size =
                  IF i <= u THEN Size + i - 1 - u ELSE i - 1 - u
  <2>1. i \in 1 .. Size /\ Place(c, i) \in Nat /\ Place(c, i) < Size
    BY <1>1, RingTypes DEF Places
  <2> DEFINE x == Place(c, i) + Size - c.tail
  <2>2. x \in Nat /\ x < 2 * Size
    BY <1>1, <2>1
  <2>3. c.tail = Place(c, u + 1)
    BY RingTypes
  <2>4. x % Size = IF x < Size THEN x ELSE x - Size
    <3> HIDE DEF x
    <3> QED BY <2>2, Wraps
  <2> HIDE DEF u
  <2> QED BY <1>1, <2>1, <2>3, <2>4 DEF Place
<1>8. ASSUME NEW i \in 1 .. u + n
      PROVE  Nth(e, i) = IF i <= u THEN Nth(c, i) ELSE d
  <2>1. /\ i \in 1 .. Size /\ Place(c, i) \in Places
        /\ Nth(e, i) = e.buf[Place(c, i)] /\ Nth(c, i) = c.buf[Place(c, i)]
    BY <1>4, <1>6, <1>7, RingTypes
  <2>2. e.buf[Place(c, i)] = IF (Place(c, i) + Size - c.tail) % Size < n THEN d
                             ELSE c.buf[Place(c, i)]
    BY <1>3, <2>1
  <2>3. (Place(c, i) + Size - c.tail) % Size < n <=> i > u
    <3> HIDE DEF u
    <3> QED BY <1>1, <1>7
  <2> QED BY <1>1, <2>1, <2>2, <2>3
<1> QED BY <1>1, <1>4, <1>5, <1>8 DEF e

(***************************************************************************)
(* What waits in the read ring                                             *)
(***************************************************************************)
\* Its bytes ascend from the last that was taken out to the last that came.
Ordered(c, taken, top) ==
  /\ InOrder(c, Used(c), taken)
  /\ taken <= top /\ \A i \in 1 .. Used(c) : Nth(c, i) <= top

LEMMA PushOrdered ==
  ASSUME NEW c \in CircBufType, NEW taken \in Nat, NEW top \in Nat, Ordered(c, taken, top),
         Free(c) > 0
  PROVE  Ordered(Push(c, top + 1), taken, top + 1)
<1> DEFINE e == Push(c, top + 1)
           u == Used(c)
<1>1. /\ Used(e) = u + 1 /\ u \in Nat /\ \A i \in 1 .. u : Nth(e, i) = Nth(c, i)
      /\ Nth(e, u + 1) = top + 1
  <2>1. top + 1 \in Nat
    OBVIOUS
  <2> QED BY <2>1, PushAppends, RingTypes
<1>2. \A i \in 1 .. u : /\ Nth(c, i) \in Nat /\ Nth(c, i) <= top
                        /\ Nth(c, i) # 0 => /\ Nth(c, i) > taken
                                            /\ \A j \in 1 .. i - 1 : Nth(c, j) < Nth(c, i)
  <2>1. \A i \in 1 .. u : i \in 1 .. Size
    BY RingTypes
  <2> QED BY <2>1, RingTypes DEF Ordered, InOrder
<1> HIDE DEF e, u
<1>3. ASSUME NEW i \in 1 .. u + 1
      PROVE  /\ Nth(e, i) <= top + 1
             /\ Nth(e, i) # 0 => /\ Nth(e, i) > taken
                                 /\ \A j \in 1 .. i - 1 : Nth(e, j) < Nth(e, i)
  <2>1. CASE i = u + 1
    <3>1. \A j \in 1 .. i - 1 : Nth(e, j) <= top /\ Nth(e, j) \in Nat
      BY <1>1, <1>2, <2>1
    <3> QED BY <1>1, <2>1, <3>1 DEF Ordered
  <2>2. CASE i # u + 1
    <3>1. i \in 1 .. u /\ \A j \in 1 .. i - 1 : j \in 1 .. u
      BY <1>1, <2>2
    <3> QED BY <1>1, <1>2, <3>1
  <2> QED BY <2>1, <2>2
<1> QED BY <1>1, <1>3 DEF Ordered, InOrder, e

LEMMA PopOrdered ==
  ASSUME NEW c \in CircBufType, NEW taken \in Nat, NEW top \in Nat, Ordered(c, taken, top),
         Used(c) > 0
  PROVE  /\ Ordered(Pop(c), taken, top)
         /\ First(c) # 0 => Ordered(Pop(c), First(c), top)
<1> DEFINE e == Pop(c)
           u == Used(c)
<1>1. /\ Used(e) = u - 1 /\ u \in Nat /\ \A i \in 1 .. u - 1 : Nth(e, i) = Nth(c, i + 1)
      /\ First(c) = Nth(c, 1)
  BY PopRemoves, RingTypes
<1>2. \A i \in 1 .. u : /\ Nth(c, i) \in Nat /\ Nth(c, i) <= top
                        /\ Nth(c, i) # 0 => /\ Nth(c, i) > taken
                                            /\ \A j \in 1 .. i - 1 : Nth(c, j) < Nth(c, i)
  <2>1. \A i \in 1 .. u : i \in 1 .. Size
    BY RingTypes
  <2> QED BY <2>1, RingTypes DEF Ordered, InOrder
<1>3. u > 0
  OBVIOUS
<1> HIDE DEF e, u
<1>4. ASSUME NEW i \in 1 .. u - 1
      PROVE  /\ Nth(e, i) <= top
             /\ Nth(e, i) # 0 => /\ Nth(e, i) > taken /\ Nth(e, i) > First(c)
                                 /\ \A j \in 1 .. i - 1 : Nth(e, j) < Nth(e, i)
  <2>1. /\ i + 1 \in 1 .. u /\ 1 \in 1 .. (i + 1) - 1
        /\ \A j \in 1 .. i - 1 : j \in 1 .. u - 1 /\ j + 1 \in 1 .. (i + 1) - 1
    BY <1>1
  <2> QED BY <1>1, <1>2, <2>1
<1>5. First(c) <= top
  BY <1>1, <1>2, <1>3
<1> QED BY <1>1, <1>4, <1>5 DEF Ordered, InOrder, e

LEMMA RunOrdered ==
  ASSUME NEW c \in CircBufType, NEW taken \in Nat, NEW top \in Nat, Ordered(c, taken, top),
         NEW n \in Nat, n <= Free(c)
  PROVE  Ordered(PushRun(c, 0, n), taken, top + 1)
<1> DEFINE e == PushRun(c, 0, n)
           u == Used(c)
<1>1. /\ Used(e) = u + n /\ u \in Nat /\ \A i \in 1 .. u : Nth(e, i) = Nth(c, i)
      /\ \A i \in u + 1 .. u + n : Nth(e, i) = 0
  <2>1. 0 \in Nat
    OBVIOUS
  <2>2. Used(e) = u + n
    BY <2>1, RunAppends
  <2>3. \A i \in 1 .. u : Nth(e, i) = Nth(c, i)
    BY <2>1, RunAppends
  <2>4. \A i \in u + 1 .. u + n : Nth(e, i) = 0
    BY <2>1, RunAppends
  <2> QED BY <2>2, <2>3, <2>4, RingTypes
<1>2. \A i \in 1 .. u : /\ Nth(c, i) \in Nat /\ Nth(c, i) <= top
                        /\ Nth(c, i) # 0 => /\ Nth(c, i) > taken
                                            /\ \A j \in 1 .. i - 1 : Nth(c, j) < Nth(c, i)
  <2>1. \A i \in 1 .. u : i \in 1 .. Size
    BY RingTypes
  <2> QED BY <2>1, RingTypes DEF Ordered, InOrder
<1> HIDE DEF e, u
<1>3. ASSUME NEW i \in 1 .. u + n
      PROVE  /\ Nth(e, i) <= top + 1
             /\ Nth(e, i) # 0 => /\ Nth(e, i) > taken
                                 /\ \A j \in 1 .. i - 1 : Nth(e, j) < Nth(e, i)
  <2>1. CASE i \in 1 .. u
    <3>1. \A j \in 1 .. i - 1 : j \in 1 .. u
      BY <1>1, <2>1
    <3> QED BY <1>1, <1>2, <2>1, <3>1
  <2>2. CASE i \in u + 1 .. u + n
    BY <1>1, <2>2
  <2> QED BY <1>1, <2>1, <2>2
<1>4. taken <= top + 1
  BY DEF Ordered
<1> QED BY <1>1, <1>3, <1>4 DEF Ordered, InOrder, e

\* Where bytes are missing there is a whole message: between two bytes in the ring, in
\* front of the first, and behind the last, where less than the place for a message
\* is left only after one.
M == RX_OVRF_MSG_SIZE
Quiet(c, i, j) == \A k \in i + 1 .. j - 1 : Nth(c, k) = 0
Between(c) ==
  \A i, j \in 1 .. Used(c) :
    i < j /\ Nth(c, i) # 0 /\ Nth(c, j) # 0 /\ Quiet(c, i, j) =>
      Nth(c, j) = Nth(c, i) + 1 \/ j - i - 1 >= M
InFront(c, taken, message) ==
  \A j \in 1 .. Used(c) :
    Nth(c, j) # 0 /\ Quiet(c, 0, j) => Nth(c, j) = taken + 1 \/ message + j - 1 >= M
Behind(c, top) ==
  \A i \in 1 .. Used(c) :
    Nth(c, i) # 0 /\ Quiet(c, i, Used(c) + 1) =>
      (Free(c) >= M /\ Nth(c, i) = top) \/ Used(c) - i >= M
Alone(c, taken, message, top) ==
  Quiet(c, 0, Used(c) + 1) => (Free(c) >= M /\ taken = top) \/ message + Used(c) >= M
NoGaps(c, taken, message, top) ==
  Between(c) /\ InFront(c, taken, message) /\ Behind(c, top) /\ Alone(c, taken, message, top)

LEMMA NoGapsPush ==
  ASSUME NEW c \in CircBufType, NEW taken \in Nat, NEW message \in Nat, NEW top \in Nat,
         NoGaps(c, taken, message, top), Free(c) > M
  PROVE  NoGaps(Push(c, top + 1), taken, message, top + 1)
<1> DEFINE e == Push(c, top + 1)
           u == Used(c)
<1>1. /\ Used(e) = u + 1 /\ u \in Nat /\ u < Size /\ \A i \in 1 .. u : Nth(e, i) = Nth(c, i)
      /\ Nth(e, u + 1) = top + 1 /\ M \in Nat /\ Size \in Nat
      /\ Free(c) = Size - 1 - u /\ Free(e) = Size - 1 - (u + 1) /\ Free(e) >= M
  <2>1. M \in Nat /\ top + 1 \in Nat
    BY UartAssumption DEF M
  <2>2. Size \in Nat /\ u \in Nat /\ u < Size /\ Free(c) = Size - 1 - u
    BY RingTypes
  <2>3. Free(c) > 0
    BY <2>1, <2>2
  <2>4. /\ e \in CircBufType /\ Used(e) = u + 1 /\ Nth(e, u + 1) = top + 1
        /\ \A i \in 1 .. u : Nth(e, i) = Nth(c, i)
    BY <2>1, <2>3, PushAppends
  <2>5. Free(e) = Size - 1 - Used(e)
    BY <2>4, RingTypes
  <2> QED BY <2>1, <2>2, <2>4, <2>5
<1>2. \A i \in 0 .. u, j \in 1 .. u + 1 : Quiet(e, i, j) => Quiet(c, i, j)
  BY <1>1 DEF Quiet
<1>3. \A i \in 0 .. u : ~Quiet(e, i, u + 2)
  <2>1. \A i \in 0 .. u : u + 1 \in i + 1 .. (u + 2) - 1
    BY <1>1
  <2> QED BY <1>1, <2>1 DEF Quiet
<1>4. /\ Between(c) /\ InFront(c, taken, message) /\ Behind(c, top)
      /\ Alone(c, taken, message, top)
  BY DEF NoGaps
<1> HIDE DEF e, u
<1>5. ASSUME NEW i \in 1 .. u + 1, NEW j \in 1 .. u + 1, i < j, Nth(e, i) # 0, Nth(e, j) # 0,
             Quiet(e, i, j)
      PROVE  Nth(e, j) = Nth(e, i) + 1 \/ j - i - 1 >= M
  <2>1. i \in 1 .. u /\ i \in 0 .. u /\ Quiet(c, i, j) /\ Nth(e, i) = Nth(c, i)
    BY <1>1, <1>2, <1>5
  <2>2. CASE j \in 1 .. u
    BY <1>1, <1>4, <1>5, <2>1, <2>2 DEF Between, u
  <2>3. CASE j = u + 1
    <3>1. (Free(c) >= M /\ Nth(c, i) = top) \/ u - i >= M
      BY <1>4, <1>5, <2>1, <2>3 DEF Behind, u
    <3> QED BY <1>1, <2>1, <2>3, <3>1
  <2> QED BY <1>1, <2>2, <2>3
<1>6. ASSUME NEW j \in 1 .. u + 1, Nth(e, j) # 0, Quiet(e, 0, j)
      PROVE  Nth(e, j) = taken + 1 \/ message + j - 1 >= M
  <2>1. Quiet(c, 0, j)
    BY <1>1, <1>2, <1>6
  <2>2. CASE j \in 1 .. u
    BY <1>1, <1>4, <1>6, <2>1, <2>2 DEF InFront, u
  <2>3. CASE j = u + 1
    <3>1. (Free(c) >= M /\ taken = top) \/ message + u >= M
      BY <1>4, <2>1, <2>3 DEF Alone, u
    <3> QED BY <1>1, <2>3, <3>1
  <2> QED BY <1>1, <2>2, <2>3
<1>7. ASSUME NEW i \in 1 .. u + 1, Quiet(e, i, (u + 1) + 1)
      PROVE  Free(e) >= M /\ Nth(e, i) = top + 1
  <2>1. i = u + 1
    <3>1. (u + 1) + 1 = u + 2
      BY <1>1
    <3>2. ~(i \in 0 .. u)
      BY <1>3, <1>7, <3>1
    <3> QED BY <1>1, <3>2
  <2> QED BY <1>1, <2>1
<1>8. ~Quiet(e, 0, (u + 1) + 1)
  <2>1. (u + 1) + 1 = u + 2 /\ 0 \in 0 .. u
    BY <1>1
  <2> QED BY <1>3, <2>1
<1>9. Between(e)
  BY <1>1, <1>5 DEF Between
<1>10. InFront(e, taken, message)
  BY <1>1, <1>6 DEF InFront
<1>11. Behind(e, top + 1)
  BY <1>1, <1>7 DEF Behind
<1>12. Alone(e, taken, message, top + 1)
  BY <1>1, <1>8 DEF Alone
<1> QED BY <1>9, <1>10, <1>11, <1>12 DEF NoGaps, e

\* The main task takes the oldest byte, or a byte of a message.
LEMMA NoGapsPop ==
  ASSUME NEW c \in CircBufType, NEW taken \in Nat, NEW message \in Nat, NEW top \in Nat,
         NoGaps(c, taken, message, top), Used(c) > 0
  PROVE  /\ First(c) = 0 => NoGaps(Pop(c), taken, message + 1, top)
         /\ First(c) # 0 => /\ NoGaps(Pop(c), First(c), 0, top)
                            /\ First(c) = taken + 1 \/ message >= M
<1> DEFINE e == Pop(c)
           u == Used(c)
<1>1. /\ Used(e) = u - 1 /\ u \in Nat /\ u < Size /\ u > 0
      /\ \A i \in 1 .. u - 1 : Nth(e, i) = Nth(c, i + 1)
      /\ First(c) = Nth(c, 1) /\ M \in Nat /\ Size \in Nat
      /\ Free(c) = Size - 1 - u /\ Free(e) = Size - 1 - (u - 1)
  BY PopRemoves, RingTypes, UartAssumption DEF M
<1>2. \A i \in 0 .. u, j \in 1 .. u : Quiet(e, i, j) => Quiet(c, i + 1, j + 1)
  <2> SUFFICES ASSUME NEW i \in 0 .. u, NEW j \in 1 .. u, Quiet(e, i, j),
                      NEW k \in (i + 1) + 1 .. (j + 1) - 1
               PROVE  Nth(c, k) = 0
    BY DEF Quiet
  <2>1. k - 1 \in i + 1 .. j - 1 /\ k - 1 \in 1 .. u - 1 /\ (k - 1) + 1 = k
    BY <1>1
  <2> HIDE DEF e, u
  <2> QED BY <1>1, <2>1 DEF Quiet
<1>3. \A j \in 1 .. u : Quiet(e, 0, j) /\ First(c) = 0 => Quiet(c, 0, j + 1)
  <2> SUFFICES ASSUME NEW j \in 1 .. u, Quiet(e, 0, j), First(c) = 0,
                      NEW k \in 0 + 1 .. (j + 1) - 1
               PROVE  Nth(c, k) = 0
    BY DEF Quiet
  <2>1. CASE k = 1
    BY <1>1, <2>1
  <2>2. CASE k # 1
    <3>1. k - 1 \in 0 + 1 .. j - 1 /\ k - 1 \in 1 .. u - 1 /\ (k - 1) + 1 = k
      BY <1>1, <2>2
    <3> HIDE DEF e, u
    <3> QED BY <1>1, <3>1 DEF Quiet
  <2> QED BY <2>1, <2>2
<1>4. /\ Between(c) /\ InFront(c, taken, message) /\ Behind(c, top)
      /\ Alone(c, taken, message, top)
  BY DEF NoGaps
<1> HIDE DEF e, u
<1>5. Between(e)
  <2> SUFFICES ASSUME NEW i \in 1 .. u - 1, NEW j \in 1 .. u - 1, i < j,
                      Nth(e, i) # 0, Nth(e, j) # 0, Quiet(e, i, j)
               PROVE  Nth(e, j) = Nth(e, i) + 1 \/ j - i - 1 >= M
    BY <1>1 DEF Between
  <2>1. /\ i \in 0 .. u /\ j \in 1 .. u /\ i + 1 \in 1 .. u /\ j + 1 \in 1 .. u
        /\ i + 1 < j + 1 /\ (j + 1) - (i + 1) - 1 = j - i - 1
    BY <1>1
  <2>2. Quiet(c, i + 1, j + 1) /\ Nth(e, i) = Nth(c, i + 1) /\ Nth(e, j) = Nth(c, j + 1)
    BY <1>1, <1>2, <2>1
  <2> QED BY <1>4, <2>1, <2>2 DEF Between, u
<1>6. Behind(e, top)
  <2> SUFFICES ASSUME NEW i \in 1 .. u - 1, Nth(e, i) # 0, Quiet(e, i, (u - 1) + 1)
               PROVE  (Free(e) >= M /\ Nth(e, i) = top) \/ u - 1 - i >= M
    BY <1>1 DEF Behind
  <2>1. i \in 0 .. u /\ u \in 1 .. u /\ i + 1 \in 1 .. u /\ (u - 1) + 1 = u
    BY <1>1
  <2>2. Quiet(c, i + 1, u + 1) /\ Nth(e, i) = Nth(c, i + 1)
    BY <1>1, <1>2, <2>1
  <2>3. (Free(c) >= M /\ Nth(c, i + 1) = top) \/ u - (i + 1) >= M
    BY <1>4, <2>1, <2>2 DEF Behind, u
  <2> QED BY <1>1, <2>2, <2>3
<1>7. ASSUME First(c) = 0
      PROVE  InFront(e, taken, message + 1) /\ Alone(e, taken, message + 1, top)
  <2>1. ASSUME NEW j \in 1 .. u - 1, Nth(e, j) # 0, Quiet(e, 0, j)
        PROVE  Nth(e, j) = taken + 1 \/ message + 1 + j - 1 >= M
    <3>1. j \in 1 .. u /\ j + 1 \in 1 .. u /\ message + (j + 1) - 1 = message + 1 + j - 1
      BY <1>1
    <3>2. Quiet(c, 0, j + 1) /\ Nth(e, j) = Nth(c, j + 1)
      BY <1>1, <1>3, <1>7, <2>1, <3>1
    <3> QED BY <1>4, <2>1, <3>1, <3>2 DEF InFront, u
  <2>2. ASSUME Quiet(e, 0, (u - 1) + 1)
        PROVE  (Free(e) >= M /\ taken = top) \/ message + 1 + (u - 1) >= M
    <3>1. u \in 1 .. u /\ (u - 1) + 1 = u
      BY <1>1
    <3>2. Quiet(c, 0, u + 1)
      BY <1>3, <1>7, <2>2, <3>1
    <3>3. (Free(c) >= M /\ taken = top) \/ message + u >= M
      BY <1>4, <3>2 DEF Alone, u
    <3> QED BY <1>1, <3>3
  <2> QED BY <1>1, <2>1, <2>2 DEF InFront, Alone
<1>8. ASSUME First(c) # 0
      PROVE  /\ InFront(e, First(c), 0) /\ Alone(e, First(c), 0, top)
             /\ First(c) = taken + 1 \/ message >= M
  <2>1. ASSUME NEW j \in 1 .. u - 1, Nth(e, j) # 0, Quiet(e, 0, j)
        PROVE  Nth(e, j) = First(c) + 1 \/ 0 + j - 1 >= M
    <3>1. /\ 0 \in 0 .. u /\ j \in 1 .. u /\ 1 \in 1 .. u /\ j + 1 \in 1 .. u
          /\ 1 < j + 1 /\ (j + 1) - 1 - 1 = 0 + j - 1 /\ 0 + 1 = 1
      BY <1>1
    <3>2. Quiet(c, 0 + 1, j + 1) /\ Nth(e, j) = Nth(c, j + 1)
      BY <1>1, <1>2, <2>1, <3>1
    <3> QED BY <1>1, <1>4, <1>8, <2>1, <3>1, <3>2 DEF Between, u
  <2>2. ASSUME Quiet(e, 0, (u - 1) + 1)
        PROVE  (Free(e) >= M /\ First(c) = top) \/ 0 + (u - 1) >= M
    <3>1. 0 \in 0 .. u /\ u \in 1 .. u /\ 1 \in 1 .. u /\ (u - 1) + 1 = u /\ 0 + 1 = 1
      BY <1>1
    <3>2. Quiet(c, 0 + 1, u + 1)
      BY <1>2, <2>2, <3>1
    <3>3. (Free(c) >= M /\ Nth(c, 1) = top) \/ u - 1 >= M
      BY <1>1, <1>4, <1>8, <3>1, <3>2 DEF Behind, u
    <3> QED BY <1>1, <3>3
  <2>3. First(c) = taken + 1 \/ message >= M
    <3>1. Quiet(c, 0, 1) /\ 1 \in 1 .. u
      BY <1>1 DEF Quiet
    <3>2. Nth(c, 1) = taken + 1 \/ message + 1 - 1 >= M
      BY <1>1, <1>4, <1>8, <3>1 DEF InFront, u
    <3> QED BY <1>1, <3>2
  <2> QED BY <1>1, <2>1, <2>2, <2>3 DEF InFront, Alone
<1> QED BY <1>5, <1>6, <1>7, <1>8 DEF NoGaps, e

\* A byte that comes when there is just room for the message is replaced by it.
LEMMA NoGapsMessage ==
  ASSUME NEW c \in CircBufType, NEW taken \in Nat, NEW message \in Nat, NEW top \in Nat,
         NoGaps(c, taken, message, top), Free(c) = M
  PROVE  NoGaps(PushRun(c, 0, M), taken, message, top + 1)
<1> DEFINE e == PushRun(c, 0, M)
           u == Used(c)
<1>1. M \in Nat /\ M <= Free(c)
  BY UartAssumption DEF M
<1>2. /\ Used(e) = u + M /\ u \in Nat /\ \A i \in 1 .. u : Nth(e, i) = Nth(c, i)
      /\ \A i \in u + 1 .. u + M : Nth(e, i) = 0
  <2>1. 0 \in Nat
    OBVIOUS
  <2>2. Used(e) = u + M
    BY <1>1, <2>1, RunAppends
  <2>3. \A i \in 1 .. u : Nth(e, i) = Nth(c, i)
    BY <1>1, <2>1, RunAppends
  <2>4. \A i \in u + 1 .. u + M : Nth(e, i) = 0
    BY <1>1, <2>1, RunAppends
  <2> QED BY <2>2, <2>3, <2>4, RingTypes
<1>3. \A i \in 0 .. u, j \in 1 .. u + 1 : Quiet(e, i, j) => Quiet(c, i, j)
  BY <1>2 DEF Quiet
<1>4. Between(c) /\ InFront(c, taken, message)
  BY DEF NoGaps
<1> HIDE DEF e, u
<1>5. \A i \in 1 .. u + M : Nth(e, i) # 0 => i \in 1 .. u
  BY <1>1, <1>2
<1>6. Between(e)
  <2> SUFFICES ASSUME NEW i \in 1 .. u + M, NEW j \in 1 .. u + M, i < j,
                      Nth(e, i) # 0, Nth(e, j) # 0, Quiet(e, i, j)
               PROVE  Nth(e, j) = Nth(e, i) + 1 \/ j - i - 1 >= M
    BY <1>2 DEF Between
  <2>1. i \in 1 .. u /\ j \in 1 .. u /\ i \in 0 .. u /\ j \in 1 .. u + 1
    BY <1>2, <1>5
  <2> QED BY <1>2, <1>3, <1>4, <2>1 DEF Between, u
<1>7. InFront(e, taken, message)
  <2> SUFFICES ASSUME NEW j \in 1 .. u + M, Nth(e, j) # 0, Quiet(e, 0, j)
               PROVE  Nth(e, j) = taken + 1 \/ message + j - 1 >= M
    BY <1>2 DEF InFront
  <2>1. j \in 1 .. u /\ 0 \in 0 .. u /\ j \in 1 .. u + 1
    BY <1>2, <1>5
  <2> QED BY <1>2, <1>3, <1>4, <2>1 DEF InFront, u
<1>8. Behind(e, top + 1)
  <2>1. ASSUME NEW i \in 1 .. u + M, Nth(e, i) # 0
        PROVE  (u + M) - i >= M
    BY <1>1, <1>2, <1>5, <2>1
  <2>2. ASSUME NEW i \in 1 .. Used(e), Nth(e, i) # 0
        PROVE  Used(e) - i >= M
    BY <1>2, <2>1, <2>2
  <2> QED BY <2>2 DEF Behind
<1>9. Alone(e, taken, message, top + 1)
  BY <1>1, <1>2 DEF Alone
<1> QED BY <1>6, <1>7, <1>8, <1>9 DEF NoGaps, e

\* With less room a byte is dropped: the message is there already.
LEMMA NoGapsDropped ==
  ASSUME NEW c \in CircBufType, NEW taken \in Nat, NEW message \in Nat, NEW top \in Nat,
         NoGaps(c, taken, message, top), Free(c) < M
  PROVE  NoGaps(c, taken, message, top + 1)
<1>1. M \in Nat /\ ~(Free(c) >= M)
  BY RingTypes, UartAssumption DEF M
<1> QED BY <1>1 DEF NoGaps, Behind, Alone

(***************************************************************************)
(* The inductive invariant                                                 *)
(***************************************************************************)
\* What the main task counted is still there: the interrupt handler takes bytes out
\* of the read ring only to put others in, and only makes room in the write ring.
Counts ==
  /\ at = "read" => left <= Used(read_buffer)
  /\ at = "write" => left <= Free(write_buffer)
  /\ tie => Used(write_buffer) > 0
  /\ from_host = transmitted + Used(write_buffer)

ReadSide ==
  /\ Ordered(read_buffer, last_read, received)
  /\ overflow_detect => NoGaps(read_buffer, last_read, marked, received)

IInv == TypeOK /\ NeverAsserts /\ Counts /\ NothingLostToLine /\ ReadSide

LEMMA Types ==
  ASSUME IInv
  PROVE  /\ read_buffer \in CircBufType /\ write_buffer \in CircBufType
         /\ left \in Nat /\ left <= Chunk /\ Chunk \in Nat /\ M \in Nat /\ M > 0 /\ M < Size - 1
         /\ received \in Nat /\ last_read \in Nat /\ marked \in Nat
         /\ from_host \in Nat /\ transmitted \in Nat /\ MaxBytes \in Nat
         /\ asserted = FALSE /\ tie \in BOOLEAN /\ overflow_detect \in Detect
         /\ at \in {"idle", "read", "write"}
         /\ Size \in Nat
         /\ Used(read_buffer) \in Nat /\ Free(read_buffer) \in Nat
         /\ Free(read_buffer) = Size - 1 - Used(read_buffer)
         /\ Used(write_buffer) \in Nat /\ Free(write_buffer) \in Nat
         /\ Free(write_buffer) = Size - 1 - Used(write_buffer)
         /\ at = "read" => left <= Used(read_buffer)
         /\ at = "write" => left <= Free(write_buffer)
         /\ from_host = transmitted + Used(write_buffer)
<1>1. TypeOK /\ ~asserted
  BY DEF IInv, NeverAsserts
<1>2. asserted = FALSE
  BY <1>1 DEF TypeOK
<1>3. left \in 0 .. Chunk /\ Chunk \in Nat /\ MaxBytes \in Nat
      /\ M \in Nat /\ M > 0 /\ M < Size - 1
  BY <1>1, UartAssumption, SizeAssumption DEF TypeOK, M
<1>4. read_buffer \in CircBufType /\ write_buffer \in CircBufType
  BY <1>1 DEF TypeOK
<1>5. /\ Size \in Nat
      /\ Used(read_buffer) \in Nat /\ Free(read_buffer) \in Nat
      /\ Free(read_buffer) = Size - 1 - Used(read_buffer)
  BY <1>4, RingTypes
<1>6. /\ Used(write_buffer) \in Nat /\ Free(write_buffer) \in Nat
      /\ Free(write_buffer) = Size - 1 - Used(write_buffer)
  BY <1>4, RingTypes
<1>7. /\ at = "read" => left <= Used(read_buffer)
      /\ at = "write" => left <= Free(write_buffer)
      /\ from_host = transmitted + Used(write_buffer)
  BY DEF IInv, Counts
<1> QED BY <1>1, <1>2, <1>3, <1>4, <1>5, <1>6, <1>7 DEF TypeOK

\* The ring to the line empties in order.
LEMMA LinePop ==
  ASSUME IInv, Used(write_buffer) > 0
  PROVE  /\ First(write_buffer) = transmitted + 1
         /\ Pop(write_buffer) \in CircBufType /\ ~PopUnderflows(write_buffer)
         /\ Used(Pop(write_buffer)) = Used(write_buffer) - 1
         /\ \A i \in 1 .. Used(Pop(write_buffer)) :
              Nth(Pop(write_buffer), i) = (transmitted + 1) + i
<1> DEFINE e == Pop(write_buffer)
           u == Used(write_buffer)
<1>1. /\ e \in CircBufType /\ ~PopUnderflows(write_buffer) /\ Used(e) = u - 1
      /\ First(write_buffer) = Nth(write_buffer, 1)
      /\ \A i \in 1 .. u - 1 : Nth(e, i) = Nth(write_buffer, i + 1)
  BY Types, PopRemoves
<1>2. \A i \in 1 .. u : Nth(write_buffer, i) = transmitted + i
  BY DEF IInv, NothingLostToLine
<1>3. u \in Nat /\ transmitted \in Nat /\ u > 0
  BY Types
<1> HIDE DEF e, u
<1>4. First(write_buffer) = transmitted + 1
  BY <1>1, <1>2, <1>3
<1>5. \A i \in 1 .. u - 1 : Nth(e, i) = (transmitted + 1) + i
  <2> TAKE i \in 1 .. u - 1
  <2>1. i + 1 \in 1 .. u /\ transmitted + (i + 1) = (transmitted + 1) + i
    BY <1>3
  <2> QED BY <1>1, <1>2, <2>1
<1> QED BY <1>1, <1>4, <1>5 DEF e, u

LEMMA LinePush ==
  ASSUME IInv, Free(write_buffer) > 0
  PROVE  /\ Push(write_buffer, from_host + 1) \in CircBufType /\ ~PushOverflows(write_buffer)
         /\ Used(Push(write_buffer, from_host + 1)) = Used(write_buffer) + 1
         /\ \A i \in 1 .. Used(write_buffer) + 1 :
              Nth(Push(write_buffer, from_host + 1), i) = transmitted + i
<1> DEFINE e == Push(write_buffer, from_host + 1)
           u == Used(write_buffer)
<1>1. from_host + 1 \in Nat /\ from_host = transmitted + u /\ u \in Nat /\ transmitted \in Nat
  BY Types
<1>2. /\ e \in CircBufType /\ ~PushOverflows(write_buffer) /\ Used(e) = u + 1
      /\ \A i \in 1 .. u : Nth(e, i) = Nth(write_buffer, i)
      /\ Nth(e, u + 1) = from_host + 1
  BY <1>1, Types, PushAppends
<1>3. \A i \in 1 .. u : Nth(write_buffer, i) = transmitted + i
  BY DEF IInv, NothingLostToLine
<1> HIDE DEF e, u
<1>4. \A i \in 1 .. u + 1 : Nth(e, i) = transmitted + i
  <2> TAKE i \in 1 .. u + 1
  <2>1. CASE i \in 1 .. u
    BY <1>2, <1>3, <2>1
  <2>2. CASE i = u + 1
    BY <1>1, <1>2, <2>2
  <2> QED BY <1>1, <2>1, <2>2
<1> QED BY <1>2, <1>4 DEF e, u

(***************************************************************************)
(* The actions                                                             *)
(***************************************************************************)
LEMMA InitEstablishes ==
  ASSUME Init
  PROVE  IInv
<1>1. /\ Empty \in CircBufType /\ Used(Empty) = 0 /\ Free(Empty) = Size - 1
      /\ M \in Nat /\ M < Size - 1 /\ Size \in Nat
  <2>1. Empty \in CircBufType /\ Used(Empty) = 0
    BY EmptyRing
  <2>2. Free(Empty) = Size - 1
    BY <2>1, RingTypes
  <2> QED BY <2>1, <2>2, UartAssumption, SizeAssumption DEF M
<1>2. TypeOK
  <2>1. /\ at \in {"idle", "read", "write"} /\ left \in 0 .. Chunk
        /\ received \in Nat /\ last_read \in Nat /\ marked \in Nat
        /\ from_host \in Nat /\ transmitted \in Nat /\ overflow_detect \in Detect
    BY UartAssumption DEF Init
  <2>2. tie \in BOOLEAN /\ asserted \in BOOLEAN
    BY Zenon DEF Init
  <2>3. read_buffer \in CircBufType /\ write_buffer \in CircBufType
    BY <1>1, Zenon DEF Init
  <2> QED BY <2>1, <2>2, <2>3 DEF TypeOK
<1>3. NeverAsserts /\ Counts /\ NothingLostToLine
  BY <1>1 DEF Init, NeverAsserts, Counts, NothingLostToLine
<1>4. Ordered(Empty, 0, 0) /\ NoGaps(Empty, 0, 0, 0)
  BY <1>1 DEF Ordered, InOrder, NoGaps, Between, InFront, Behind, Alone
<1> QED BY <1>2, <1>3, <1>4 DEF IInv, ReadSide, Init

LEMMA ReadCountKeeps ==
  ASSUME IInv, ReadCount, overflow_detect' = overflow_detect
  PROVE  IInv'
<1>1. PICK free \in 0 .. Chunk : left' = Smaller(free, Used(read_buffer))
  BY DEF ReadCount
<1>2. left' \in 0 .. Chunk /\ left' <= Used(read_buffer)
  BY <1>1, Types DEF Smaller
<1>3. at' = "read" /\ UNCHANGED <<rx, tx, asserted>>
  BY DEF ReadCount
<1>4. TypeOK' /\ NeverAsserts' /\ NothingLostToLine'
  BY <1>2, <1>3 DEF IInv, TypeOK, NeverAsserts, NothingLostToLine, rx, tx
<1>5. Counts' /\ ReadSide'
  BY <1>2, <1>3 DEF IInv, Counts, ReadSide, rx, tx
<1> QED BY <1>4, <1>5 DEF IInv

\* What taking a byte out of the read ring leaves, and what it reports
LEMMA ReadPopIs ==
  ASSUME IInv, ReadPop
  PROVE  /\ Used(read_buffer) > 0
         /\ overflow_detect /\ First(read_buffer) # 0 =>
              First(read_buffer) = last_read + 1 \/ marked >= M
<1>1. Used(read_buffer) > 0
  BY Types DEF ReadPop
<1>2. ASSUME overflow_detect, First(read_buffer) # 0
      PROVE  First(read_buffer) = last_read + 1 \/ marked >= M
  <2>1. NoGaps(read_buffer, last_read, marked, received)
    BY <1>2 DEF IInv, ReadSide
  <2> QED BY <1>1, <1>2, <2>1, NoGapsPop, Types
<1> QED BY <1>1, <1>2

LEMMA ReadPopKeeps ==
  ASSUME IInv, ReadPop, overflow_detect' = overflow_detect
  PROVE  IInv'
<1> DEFINE e == Pop(read_buffer)
<1>1. /\ at = "read" /\ at' = "read" /\ left > 0 /\ left' = left - 1 /\ read_buffer' = e
      /\ asserted' = (asserted \/ PopUnderflows(read_buffer))
      /\ received' = received /\ UNCHANGED <<write_buffer, tie, from_host, transmitted>>
  BY DEF ReadPop, Asserts, tx
<1>2. Used(read_buffer) > 0 /\ left <= Used(read_buffer)
  BY <1>1, ReadPopIs DEF IInv, Counts
<1>3. /\ e \in CircBufType /\ ~PopUnderflows(read_buffer)
      /\ Used(e) = Used(read_buffer) - 1 /\ First(read_buffer) \in Nat
  <2>1. /\ e \in CircBufType /\ ~PopUnderflows(read_buffer)
        /\ Used(e) = Used(read_buffer) - 1 /\ First(read_buffer) = Nth(read_buffer, 1)
    BY <1>2, Types, PopRemoves
  <2>2. 1 \in 1 .. Size
    BY SizeAssumption
  <2> QED BY <2>1, <2>2, RingTypes, Types
<1>4. asserted' = FALSE
  BY <1>1, <1>3, Types
<1>5. /\ Ordered(read_buffer, last_read, received)
      /\ overflow_detect => NoGaps(read_buffer, last_read, marked, received)
  BY DEF IInv, ReadSide
<1>6. /\ Ordered(e, last_read, received)
      /\ First(read_buffer) # 0 => Ordered(e, First(read_buffer), received)
  BY <1>2, <1>5, Types, PopOrdered
<1>7. overflow_detect =>
        /\ First(read_buffer) = 0 => NoGaps(e, last_read, marked + 1, received)
        /\ First(read_buffer) # 0 => NoGaps(e, First(read_buffer), 0, received)
  BY <1>2, <1>5, Types, NoGapsPop
<1> HIDE DEF e
<1>8. /\ last_read' \in Nat /\ marked' \in Nat
      /\ Ordered(e, last_read', received)
      /\ overflow_detect => NoGaps(e, last_read', marked', received)
  <2>1. CASE First(read_buffer) = 0
    <3>1. marked' = marked + 1 /\ last_read' = last_read
      BY <2>1 DEF ReadPop
    <3> QED BY <1>6, <1>7, <2>1, <3>1, Types
  <2>2. CASE First(read_buffer) # 0
    <3>1. last_read' = First(read_buffer) /\ marked' = 0
      BY <2>2 DEF ReadPop
    <3> QED BY <1>3, <1>6, <1>7, <2>2, <3>1
  <2> QED BY <2>1, <2>2
<1>9. left' \in 0 .. Chunk /\ left' <= Used(e)
  BY <1>1, <1>2, <1>3, Types
<1>10. TypeOK' /\ NeverAsserts'
  BY <1>1, <1>3, <1>4, <1>8, <1>9, Types DEF TypeOK, NeverAsserts
<1>11. Counts' /\ NothingLostToLine'
  BY <1>1, <1>9 DEF IInv, Counts, NothingLostToLine
<1>12. ReadSide'
  BY <1>1, <1>8 DEF ReadSide
<1> QED BY <1>10, <1>11, <1>12 DEF IInv

LEMMA WriteCountKeeps ==
  ASSUME IInv, WriteCount, overflow_detect' = overflow_detect
  PROVE  IInv'
<1>1. PICK n \in 0 .. Smaller(Chunk, Smaller(Free(write_buffer), MaxBytes - from_host)) :
        left' = n
  BY DEF WriteCount
<1>2. left' \in 0 .. Chunk /\ left' <= Free(write_buffer)
  BY <1>1, Types DEF Smaller
<1>3. at' \in {"idle", "write"} /\ UNCHANGED <<rx, tx, asserted>>
  BY DEF WriteCount
<1>4. TypeOK' /\ NeverAsserts' /\ NothingLostToLine'
  BY <1>2, <1>3 DEF IInv, TypeOK, NeverAsserts, NothingLostToLine, rx, tx
<1>5. Counts' /\ ReadSide'
  BY <1>2, <1>3 DEF IInv, Counts, ReadSide, rx, tx
<1> QED BY <1>4, <1>5 DEF IInv

LEMMA WritePushKeeps ==
  ASSUME IInv, WritePush, overflow_detect' = overflow_detect
  PROVE  IInv'
<1> DEFINE e == Push(write_buffer, from_host + 1)
<1>1. /\ at = "write" /\ at' = "write" /\ left > 0 /\ left' = left - 1 /\ write_buffer' = e
      /\ asserted' = (asserted \/ PushOverflows(write_buffer)) /\ from_host' = from_host + 1
      /\ UNCHANGED <<read_buffer, received, last_read, marked, tie, transmitted>>
  BY DEF WritePush, Asserts, rx
<1>2. Free(write_buffer) > 0 /\ left <= Free(write_buffer)
  BY <1>1, Types
<1>3. /\ e \in CircBufType /\ ~PushOverflows(write_buffer)
      /\ Used(e) = Used(write_buffer) + 1
      /\ \A i \in 1 .. Used(write_buffer) + 1 : Nth(e, i) = transmitted + i
  BY <1>2, LinePush
<1>4. asserted' = FALSE
  BY <1>1, <1>3, Types
<1>5. Free(e) = Free(write_buffer) - 1
  BY <1>3, RingTypes, Types
<1> HIDE DEF e
<1>6. left' \in 0 .. Chunk /\ from_host' \in Nat
  BY <1>1, Types
<1>7. TypeOK' /\ NeverAsserts'
  BY <1>1, <1>3, <1>4, <1>6, Types DEF TypeOK, NeverAsserts
<1>8. Counts'
  <2>1. left' <= Free(e)
    BY <1>1, <1>2, <1>5, Types
  <2>2. Used(e) > 0 /\ from_host' = transmitted + Used(e)
    BY <1>1, <1>3, Types
  <2> QED BY <1>1, <2>1, <2>2 DEF Counts
<1>9. NothingLostToLine'
  BY <1>1, <1>3 DEF NothingLostToLine
<1>10. ReadSide'
  BY <1>1 DEF IInv, ReadSide
<1> QED BY <1>7, <1>8, <1>9, <1>10 DEF IInv

LEMMA WriteEnableKeeps ==
  ASSUME IInv, WriteEnable, overflow_detect' = overflow_detect
  PROVE  IInv'
<1>1. /\ at' = "idle" /\ tie' = (tie \/ Used(write_buffer) > 0)
      /\ UNCHANGED <<rx, write_buffer, from_host, transmitted, left, asserted>>
  BY DEF WriteEnable, TieAfterWrite
<1>2. tie' \in BOOLEAN
  BY <1>1, Zenon
<1>3. TypeOK' /\ NeverAsserts' /\ NothingLostToLine'
  BY <1>1, <1>2 DEF IInv, TypeOK, NeverAsserts, NothingLostToLine, rx
<1>4. Counts'
  <2>1. tie' => Used(write_buffer) > 0
    BY <1>1 DEF IInv, Counts
  <2> QED BY <1>1, <2>1 DEF IInv, Counts
<1>5. ReadSide'
  BY <1>1 DEF IInv, ReadSide, rx
<1> QED BY <1>3, <1>4, <1>5 DEF IInv

LEMMA ClearKeeps ==
  ASSUME IInv, Clear, overflow_detect' = overflow_detect
  PROVE  IInv'
<1>1. /\ at = "idle" /\ at' = "idle" /\ read_buffer' = Empty /\ write_buffer' = Empty
      /\ tie' = FALSE /\ last_read' = received /\ transmitted' = from_host /\ marked' = 0
      /\ UNCHANGED <<received, from_host, left, asserted>>
  BY DEF Clear
<1>2. Empty \in CircBufType /\ Used(Empty) = 0 /\ Free(Empty) = Size - 1
  <2>1. Empty \in CircBufType /\ Used(Empty) = 0
    BY EmptyRing
  <2>2. Free(Empty) = Size - 1
    BY <2>1, RingTypes
  <2> QED BY <2>1, <2>2
<1>3. Ordered(Empty, received, received) /\ NoGaps(Empty, received, 0, received)
  BY <1>2, Types DEF Ordered, InOrder, NoGaps, Between, InFront, Behind, Alone
<1>4. TypeOK' /\ NeverAsserts'
  BY <1>1, <1>2, Types DEF IInv, TypeOK, NeverAsserts
<1>5. Counts' /\ NothingLostToLine'
  BY <1>1, <1>2, Types DEF Counts, NothingLostToLine
<1>6. ReadSide'
  BY <1>1, <1>3 DEF ReadSide
<1> QED BY <1>4, <1>5, <1>6 DEF IInv

LEMMA TransmitKeeps ==
  ASSUME IInv, Transmit, overflow_detect' = overflow_detect
  PROVE  IInv'
<1> DEFINE e == Pop(write_buffer)
<1>1. /\ tie /\ write_buffer' = e /\ transmitted' = First(write_buffer)
      /\ asserted' = (asserted \/ PopUnderflows(write_buffer))
      /\ tie' = (Used(write_buffer) > 1)
      /\ UNCHANGED <<read_buffer, received, last_read, marked, from_host, at, left>>
  BY DEF Transmit, TieAfterSend, Asserts, rx
<1>2. Used(write_buffer) > 0
  BY <1>1 DEF IInv, Counts
<1>3. /\ First(write_buffer) = transmitted + 1
      /\ e \in CircBufType /\ ~PopUnderflows(write_buffer)
      /\ Used(e) = Used(write_buffer) - 1
      /\ \A i \in 1 .. Used(e) : Nth(e, i) = (transmitted + 1) + i
  BY <1>2, LinePop
<1>4. asserted' = FALSE
  BY <1>1, <1>3, Types
<1>5. Free(e) = Free(write_buffer) + 1
  BY <1>3, RingTypes, Types
<1> HIDE DEF e
<1>6. tie' \in BOOLEAN /\ transmitted' \in Nat
  BY <1>1, <1>3, Types
<1>7. TypeOK' /\ NeverAsserts'
  BY <1>1, <1>3, <1>4, <1>6, Types DEF TypeOK, NeverAsserts
<1>8. Counts'
  <2>1. at = "write" => left <= Free(e)
    BY <1>5, Types
  <2>2. tie' => Used(e) > 0
    <3>1. tie' => Used(write_buffer) > 1
      BY <1>1, Zenon
    <3> QED BY <1>3, <3>1, Types
  <2>3. from_host = transmitted' + Used(e)
    BY <1>1, <1>3, Types
  <2> QED BY <1>1, <2>1, <2>2, <2>3 DEF IInv, Counts
<1>9. NothingLostToLine'
  BY <1>1, <1>3 DEF NothingLostToLine
<1>10. ReadSide'
  BY <1>1 DEF IInv, ReadSide
<1> QED BY <1>7, <1>8, <1>9, <1>10 DEF IInv

\* What a received byte makes of the read ring: it never holds fewer bytes after.
LEMMA ReceiveKeeps ==
  ASSUME IInv, Receive, overflow_detect' = overflow_detect
  PROVE  IInv'
<1> DEFINE c == read_buffer
           byte == received + 1
<1>1. /\ received' = byte
      /\ UNCHANGED <<last_read, marked, write_buffer, tie, from_host, transmitted, at, left>>
  BY DEF Receive, tx
<1>2. byte \in Nat /\ c \in CircBufType
  BY Types
<1>3. /\ Ordered(c, last_read, received)
      /\ overflow_detect => NoGaps(c, last_read, marked, received)
  BY DEF IInv, ReadSide
\* so that only this is left to show
<1>4. ASSUME read_buffer' \in CircBufType, asserted' = FALSE,
             Used(read_buffer') >= Used(c), Used(read_buffer') \in Nat,
             Ordered(read_buffer', last_read, byte),
             overflow_detect => NoGaps(read_buffer', last_read, marked, byte)
      PROVE  IInv'
  <2>1. TypeOK' /\ NeverAsserts'
    BY <1>1, <1>2, <1>4, Types DEF IInv, TypeOK, NeverAsserts
  <2>2. Counts'
    <3>1. at = "read" => left <= Used(read_buffer')
      BY <1>4, Types
    <3> QED BY <1>1, <3>1 DEF IInv, Counts
  <2>3. NothingLostToLine'
    BY <1>1 DEF IInv, NothingLostToLine
  <2>4. ReadSide'
    BY <1>1, <1>4 DEF ReadSide
  <2> QED BY <2>1, <2>2, <2>3, <2>4 DEF IInv
<1>5. CASE /\ Free(c) > M /\ read_buffer' = Push(c, byte)
           /\ asserted' = (asserted \/ PushOverflows(c))
  <2>1. Free(c) > 0
    BY <1>5, Types
  <2>2. /\ Push(c, byte) \in CircBufType /\ ~PushOverflows(c)
        /\ Used(Push(c, byte)) = Used(c) + 1
    BY <1>2, <2>1, PushAppends
  <2>3. Ordered(Push(c, byte), last_read, byte)
    BY <1>2, <1>3, <2>1, PushOrdered, Types
  <2>4. overflow_detect => NoGaps(Push(c, byte), last_read, marked, byte)
    BY <1>2, <1>3, <1>5, NoGapsPush, Types
  <2>5. asserted' = FALSE
    BY <1>5, <2>2, Types
  <2>6. Used(c) + 1 \in Nat /\ Used(c) + 1 >= Used(c)
    BY Types
  <2>7. read_buffer' = Push(c, byte)
    BY <1>5
  <2> HIDE DEF byte
  <2> QED BY <1>4, <2>2, <2>3, <2>4, <2>5, <2>6, <2>7
<1>6. CASE /\ Free(c) = M /\ read_buffer' = PushRun(c, 0, M) /\ UNCHANGED asserted
  <2>1. 0 \in Nat /\ M \in Nat /\ M <= Free(c)
    BY <1>6, Types
  <2>2. PushRun(c, 0, M) \in CircBufType
    BY <1>2, <2>1, RunAppends
  <2>3. Used(PushRun(c, 0, M)) = Used(c) + M
    BY <1>2, <2>1, RunAppends
  <2>4. Ordered(PushRun(c, 0, M), last_read, byte)
    BY <1>2, <1>3, <2>1, RunOrdered, Types
  <2>5. overflow_detect => NoGaps(PushRun(c, 0, M), last_read, marked, byte)
    BY <1>2, <1>3, <1>6, NoGapsMessage, Types
  <2>6. Used(c) + M \in Nat /\ Used(c) + M >= Used(c) /\ asserted' = FALSE
    BY <1>6, Types
  <2> QED BY <1>4, <1>6, <2>2, <2>3, <2>4, <2>5, <2>6
<1>7. CASE /\ ~(Free(c) >= M) /\ read_buffer' = c /\ UNCHANGED asserted
  <2>1. Ordered(c, last_read, byte)
    <3>1. \A i \in 1 .. Used(c) : i \in 1 .. Size /\ Nth(c, i) \in Nat
      BY <1>2, RingTypes
    <3> QED BY <1>3, <3>1, Types DEF Ordered
  <2>2. Free(c) < M
    BY <1>7, Types
  <2>3. overflow_detect => NoGaps(c, last_read, marked, byte)
    BY <1>2, <1>3, <2>2, NoGapsDropped, Types
  <2>4. asserted' = FALSE
    BY <1>7, Types
  <2> QED BY <1>2, <1>4, <1>7, <2>1, <2>3, <2>4, Types
<1>8. CASE /\ ~(Free(c) > M) /\ ~overflow_detect /\ read_buffer' = Push(Pop(c), byte)
           /\ asserted' = (asserted \/ (PopUnderflows(c) \/ PushOverflows(Pop(c))))
  <2>1. Used(c) > 0
    BY <1>8, Types
  <2>2. Pop(c) \in CircBufType /\ ~PopUnderflows(c) /\ Used(Pop(c)) = Used(c) - 1
    BY <1>2, <2>1, PopRemoves
  <2>3. Ordered(Pop(c), last_read, received)
    BY <1>2, <1>3, <2>1, PopOrdered, Types
  <2>4. Free(Pop(c)) > 0
    BY <2>1, <2>2, RingTypes, Types
  <2>5. /\ Push(Pop(c), byte) \in CircBufType /\ ~PushOverflows(Pop(c))
        /\ Used(Push(Pop(c), byte)) = Used(Pop(c)) + 1
    BY <1>2, <2>2, <2>4, PushAppends
  <2>6. Ordered(Push(Pop(c), byte), last_read, byte)
    BY <2>2, <2>3, <2>4, PushOrdered, Types
  <2>7. asserted' = FALSE
    BY <1>8, <2>2, <2>5, Types
  <2>8. Used(Push(Pop(c), byte)) = Used(c)
    BY <2>2, <2>5, Types
  <2>9. Used(c) \in Nat /\ Used(c) >= Used(c)
    BY Types
  <2>10. read_buffer' = Push(Pop(c), byte) /\ ~overflow_detect
    BY <1>8
  <2> HIDE DEF byte
  <2> QED BY <1>4, <2>5, <2>6, <2>7, <2>8, <2>9, <2>10
<1> QED
  <2>1. \/ Free(c) > M /\ read_buffer' = Push(c, byte)
           /\ asserted' = (asserted \/ PushOverflows(c))
        \/ /\ ~(Free(c) > M) /\ UNCHANGED asserted
           /\ read_buffer' = IF Free(c) = M THEN PushRun(c, 0, M) ELSE c
        \/ /\ ~(Free(c) > M) /\ ~overflow_detect /\ read_buffer' = Push(Pop(c), byte)
           /\ asserted' = (asserted \/ (PopUnderflows(c) \/ PushOverflows(Pop(c))))
    BY DEF Receive, RoomForByte, DroppedOldest, Asserts, M
  <2>2. Free(c) \in Nat /\ M \in Nat
    BY Types
  <2> HIDE DEF c, byte
  <2> QED BY <1>5, <1>6, <1>7, <1>8, <2>1, <2>2

LEMMA NextPreserves ==
  ASSUME IInv, [Next]_vars
  PROVE  IInv'
<1>1. CASE UNCHANGED vars
  <2>1. TypeOK' /\ NeverAsserts' /\ Counts' /\ NothingLostToLine'
    BY <1>1 DEF vars, rx, tx, IInv, TypeOK, NeverAsserts, Counts, NothingLostToLine
  <2>2. ReadSide'
    BY <1>1 DEF vars, rx, tx, IInv, ReadSide
  <2> QED BY <2>1, <2>2 DEF IInv
<1>2. CASE Next
  <2>1. overflow_detect' = overflow_detect
    BY <1>2 DEF Next
  <2> QED BY <1>2, <2>1, ReadCountKeeps, ReadPopKeeps, WriteCountKeeps, WritePushKeeps,
             WriteEnableKeeps, ClearKeeps, TransmitKeeps, ReceiveKeeps DEF Next, Main
<1> QED BY <1>1, <1>2

(***************************************************************************)
(* The theorems                                                            *)
(***************************************************************************)
\* Between any two critical sections: what the main task counted is still in the ring,
\* both rings are in order, and bytes are missing only where a message stands.
THEOREM Invariance == Spec => []IInv
BY InitEstablishes, NextPreserves, PTL DEF Spec

\* Every variable keeps its type: no index leaves its ring.
THEOREM TypeCorrect == Spec => []TypeOK
<1>1. IInv => TypeOK
  BY DEF IInv
<1> QED BY <1>1, Invariance, PTL

\* No util_assert of circ_buf.c or uart.c fails, wherever the interrupt handler cuts in.
THEOREM AssertsHold == Spec => []NeverAsserts
<1>1. IInv => NeverAsserts
  BY DEF IInv
<1> QED BY <1>1, Invariance, PTL

\* The line gets every byte of the host once and in order.
THEOREM LineComplete == Spec => []NothingLostToLine
<1>1. IInv => NothingLostToLine
  BY DEF IInv
<1> QED BY <1>1, Invariance, PTL

\* Neither ring reorders bytes, even when the handler drops the oldest between two
\* reads of the main task.
THEOREM OrderKept == Spec => []KeepsOrder
<1>1. IInv => KeepsOrder
  <2> SUFFICES ASSUME IInv PROVE KeepsOrder
    OBVIOUS
  <2>1. InOrder(read_buffer, Used(read_buffer), last_read)
    BY DEF IInv, ReadSide, Ordered
  <2>2. InOrder(write_buffer, Used(write_buffer), transmitted)
    <3>1. /\ \A i \in 1 .. Used(write_buffer) : Nth(write_buffer, i) = transmitted + i
          /\ Used(write_buffer) \in Nat /\ transmitted \in Nat
      BY Types DEF IInv, NothingLostToLine
    <3> QED BY <3>1 DEF InOrder
  <2> QED BY <2>1, <2>2 DEF KeepsOrder
<1> QED BY <1>1, Invariance, PTL

\* With overflow detection the host never reads two bytes that are not neighbours
\* without a whole message in between, for rings and messages of any size.
THEOREM LossesReported == Spec => NoSilentLoss
<1>1. ASSUME IInv, [Next]_vars
      PROVE  [overflow_detect /\ last_read' > last_read + 1 =>
                marked >= RX_OVRF_MSG_SIZE \/ at = "idle"]_vars
  <2> SUFFICES ASSUME overflow_detect, last_read' > last_read + 1, at # "idle"
               PROVE  marked >= M
    BY DEF M
  <2>1. CASE ReadPop
    <3>1. First(read_buffer) # 0 /\ last_read' = First(read_buffer)
      BY <2>1, <1>1, Types DEF ReadPop
    <3> QED BY <1>1, <2>1, <3>1, ReadPopIs, Types
  <2>2. CASE UNCHANGED last_read
    BY <1>1, <2>2, Types
  <2> QED BY <1>1, <2>1, <2>2
          DEF Next, Main, ReadCount, WriteCount, WritePush, WriteEnable, Clear, Transmit,
              Receive, vars, rx, tx
<1> QED BY <1>1, Invariance, PTL DEF Spec, NoSilentLoss
=============================================================================
