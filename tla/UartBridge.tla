----------------------------- MODULE UartBridge -----------------------------
(***************************************************************************)
(* The USB serial port: cdc_process_event (usbd_user_cdc_acm.c), run by    *)
(* the main task, and the UART driver of a HIC (k20dx/uart.c; the other    *)
(* drivers have the same shape) with its interrupt handler.  They share    *)
(* two rings of circ_buf.c.  The interrupt handler can run between any two *)
(* critical sections of the main task, and takes bytes out of the read     *)
(* ring itself when it drops the oldest.  Bytes are numbered as they       *)
(* arrive, 0 stands for a byte of the overflow message.  The UART vendor   *)
(* commands of CMSIS-DAP, a second reader and writer of the rings in the   *)
(* same task, are left out.                                                *)
(***************************************************************************)
EXTENDS CircBuf

CONSTANTS
  RX_OVRF_MSG_SIZE,
  Chunk,            \* sizeof(data) in cdc_process_event
  Detect,           \* values of config_get_overflow_detect()
  MaxBytes          \* bound: bytes in each direction

ASSUME UartAssumption ==
  /\ RX_OVRF_MSG_SIZE \in Nat \ {0} /\ RX_OVRF_MSG_SIZE < Size - 1
  /\ Chunk \in Nat /\ MaxBytes \in Nat /\ Detect \subseteq BOOLEAN

VARIABLES
  read_buffer, write_buffer,
  tie,          \* UART_C2_TIE: the transmit interrupt is enabled
  at,           \* where cdc_process_event stands
  left,         \* bytes the copy loop at that place has still to do
  received,     \* bytes the target has sent
  last_read, marked,    \* last byte the main task read; message bytes since
  from_host,    \* bytes the host has sent to the write ring
  transmitted,  \* the last byte that went out on the line
  asserted,     \* history: a util_assert of circ_buf.c or uart.c has failed
  overflow_detect   \* the setting, which stays as it is

rx == <<read_buffer, received, last_read, marked>>
tx == <<write_buffer, tie, from_host, transmitted>>
vars == <<rx, tx, at, left, asserted, overflow_detect>>

Init ==
  /\ read_buffer = Empty /\ write_buffer = Empty /\ tie = FALSE
  /\ at = "idle" /\ left = 0
  /\ received = 0 /\ last_read = 0 /\ marked = 0
  /\ from_host = 0 /\ transmitted = 0 /\ asserted = FALSE
  /\ overflow_detect \in Detect

Smaller(a, b) == IF a < b THEN a ELSE b
Asserts(failed) == asserted' = (asserted \/ failed)

(***************************************************************************)
(* cdc_process_event                                                       *)
(***************************************************************************)
\* uart_read_data for what the USB side has room for: circ_buf_read counts first ...
ReadCount ==
  /\ at = "idle"
  /\ \E free \in 0 .. Chunk : left' = Smaller(free, Used(read_buffer))
  /\ at' = "read"
  /\ UNCHANGED <<rx, tx, asserted>>

\* ... and pops that many bytes one by one.
ReadPop ==
  /\ at = "read" /\ left > 0
  /\ Asserts(PopUnderflows(read_buffer))
  /\ read_buffer' = Pop(read_buffer)
  /\ IF First(read_buffer) = 0
     THEN marked' = marked + 1 /\ UNCHANGED last_read
     ELSE last_read' = First(read_buffer) /\ marked' = 0
  /\ left' = left - 1
  /\ UNCHANGED <<received, tx, at>>

\* uart_write_free bounds what is read from USB, circ_buf_write counts again.  With
\* nothing from the host uart_write_data is not called.
WriteCount ==
  /\ at = "read" /\ left = 0
  /\ \E n \in 0 .. Smaller(Chunk, Smaller(Free(write_buffer), MaxBytes - from_host)) :
       left' = n /\ at' = IF n = 0 THEN "idle" ELSE "write"
  /\ UNCHANGED <<rx, tx, asserted>>

WritePush ==
  /\ at = "write" /\ left > 0
  /\ Asserts(PushOverflows(write_buffer))
  /\ write_buffer' = Push(write_buffer, from_host + 1)
  /\ from_host' = from_host + 1
  /\ left' = left - 1
  /\ UNCHANGED <<rx, tie, transmitted, at>>

\* "atomically enable TX": the interrupt handler may have sent everything already
TieAfterWriteAlways == TRUE        \* fault: the ring is not looked at again
TieAfterWriteNever == tie          \* fault: the transmitter is not started
TieAfterWrite == tie \/ Used(write_buffer) > 0

WriteEnable ==
  /\ at = "write" /\ left = 0
  /\ tie' = TieAfterWrite
  /\ at' = "idle"
  /\ UNCHANGED <<rx, write_buffer, from_host, transmitted, left, asserted>>

\* uart_reset, uart_set_configuration: both rings are cleared with TIE off.
Clear ==
  /\ at = "idle"
  /\ read_buffer' = Empty /\ write_buffer' = Empty /\ tie' = FALSE
  /\ last_read' = received /\ transmitted' = from_host /\ marked' = 0
  /\ UNCHANGED <<received, from_host, at, left, asserted>>

Main == ReadCount \/ ReadPop \/ WriteCount \/ WritePush \/ WriteEnable

(***************************************************************************)
(* UART1_RX_TX_IRQHandler                                                  *)
(***************************************************************************)
TieAfterSend == Used(write_buffer) > 1

Transmit ==
  /\ tie
  /\ Asserts(PopUnderflows(write_buffer))
  /\ transmitted' = First(write_buffer)
  /\ write_buffer' = Pop(write_buffer)
  /\ tie' = TieAfterSend
  /\ UNCHANGED <<rx, from_host, at, left>>

RoomForByteTight(free) == free >= RX_OVRF_MSG_SIZE   \* fault: no room for the message
RoomForByte(free) == free > RX_OVRF_MSG_SIZE

DroppedOldest(c) == Pop(c)

Receive ==
  LET free == Free(read_buffer)
      byte == received + 1
      dropped == DroppedOldest(read_buffer)
  IN /\ received < MaxBytes
     /\ received' = byte
     /\ \/ /\ RoomForByte(free)
           /\ read_buffer' = Push(read_buffer, byte)
           /\ Asserts(PushOverflows(read_buffer))
        \/ /\ ~RoomForByte(free) /\ overflow_detect
           /\ read_buffer' = IF free = RX_OVRF_MSG_SIZE
                             THEN PushRun(read_buffer, 0, RX_OVRF_MSG_SIZE)
                             ELSE read_buffer
           /\ UNCHANGED asserted
        \/ /\ ~RoomForByte(free) /\ ~overflow_detect
           /\ read_buffer' = Push(dropped, byte)
           /\ Asserts(PopUnderflows(read_buffer) \/ PushOverflows(dropped))
     /\ UNCHANGED <<last_read, marked, tx, at, left>>

Next == /\ Main \/ Clear \/ Transmit \/ Receive
        /\ UNCHANGED overflow_detect

Spec == Init /\ [][Next]_vars

\* cdc_process_event sends the event that runs it again, and an enabled transmit
\* interrupt is taken.
FairSpec == Spec /\ WF_vars(Next /\ Main) /\ WF_vars(Next /\ Transmit)

(***************************************************************************)
(* Properties                                                              *)
(***************************************************************************)
\* Every variable keeps its type.
TypeOK ==
  /\ read_buffer \in CircBufType /\ write_buffer \in CircBufType
  /\ tie \in BOOLEAN /\ asserted \in BOOLEAN
  /\ at \in {"idle", "read", "write"} /\ left \in 0 .. Chunk
  /\ received \in Nat /\ last_read \in Nat /\ marked \in Nat
  /\ from_host \in Nat /\ transmitted \in Nat /\ overflow_detect \in Detect

\* No interleaving of the main task with the interrupt handler makes an assertion of
\* circ_buf.c or of the handler fail: no ring overflows, no ring is read when empty,
\* the transmit interrupt is never taken with nothing to send.
NeverAsserts == ~asserted

\* The bytes that wait in a ring are in the order they came in, after everything
\* that was taken out before.
InOrder(c, n, taken) ==
  \A i \in 1 .. n : Nth(c, i) # 0 =>
    /\ Nth(c, i) > taken
    /\ \A j \in 1 .. i - 1 : Nth(c, j) < Nth(c, i)
KeepsOrder ==
  /\ InOrder(read_buffer, Used(read_buffer), last_read)
  /\ InOrder(write_buffer, Used(write_buffer), transmitted)

\* To the line nothing is lost or duplicated: every byte that cdc_process_event took
\* from USB follows the one before.  This is the path of the serial port; the vendor
\* command that writes to the UART ignores how many bytes the ring took.
NothingLostToLine ==
  \A i \in 1 .. Used(write_buffer) : Nth(write_buffer, i) = transmitted + i

\* With overflow detection no byte is lost silently: between two bytes that are not
\* neighbours the host reads a whole overflow message.
NoSilentLoss ==
  [][overflow_detect /\ last_read' > last_read + 1 =>
       marked >= RX_OVRF_MSG_SIZE \/ at = "idle"]_vars

\* Whatever the host sends goes out on the line (or is cleared).
LineServed == \A n \in 1 .. MaxBytes : from_host >= n ~> transmitted >= n
=============================================================================
