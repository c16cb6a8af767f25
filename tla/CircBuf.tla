------------------------------ MODULE CircBuf ------------------------------
(***************************************************************************)
(* circ_buf.c: a byte ring shared by an interrupt handler and the main     *)
(* task.  Each operation below runs with interrupts disabled; circ_buf_read *)
(* and circ_buf_write are sequences of them and can be interrupted between. *)
(* One place stays free, so that head = tail means empty.                  *)
(***************************************************************************)
EXTENDS Naturals

CONSTANT Size                 \* circ_buf->size, at least 2
ASSUME SizeAssumption == Size \in Nat \ {0, 1}

Places == 0 .. Size - 1
CircBufType == [buf : [Places -> Nat], head : Places, tail : Places]

Empty == [buf |-> [p \in Places |-> 0], head |-> 0, tail |-> 0]

AfterNoWrap(p) == IF p < Size THEN p + 1 ELSE 0   \* fault: one place too far
After(p) == IF p + 1 >= Size THEN 0 ELSE p + 1

\* circ_buf_count_used, circ_buf_count_free
Used(c) == IF c.tail >= c.head THEN c.tail - c.head ELSE c.tail + Size - c.head
FreeAll(c) == Size - Used(c)                      \* fault: the place kept free
Free(c) == Size - Used(c) - 1

\* circ_buf_push, and the assertion that it did not overflow
Push(c, data) == [c EXCEPT !.buf[c.tail] = data, !.tail = After(@)]
PushOverflows(c) == c.head = After(c.tail)

\* circ_buf_pop, and the assertion that the ring was not empty
First(c) == c.buf[c.head]
Pop(c) == [c EXCEPT !.head = After(@)]
PopUnderflows(c) == c.head = c.tail

\* pushing the same data n times
PushRun(c, data, n) ==
  [c EXCEPT !.buf = [p \in Places |->
                       IF (p + Size - c.tail) % Size < n THEN data ELSE c.buf[p]],
            !.tail = (@ + n) % Size]

\* the i-th byte of those that are in the ring
Nth(c, i) == c.buf[(c.head + i - 1) % Size]
=============================================================================
