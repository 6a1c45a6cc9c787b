------------------------------ MODULE SerialTx ------------------------------
(***************************************************************************)
(* Writes to a serial port (lib/drivers/src/peripheral/serial/             *)
(* hal_serial.c): a thread puts bytes into the ring and hands the          *)
(* contiguous ones to the hardware; the transmit-done interrupt removes    *)
(* them and starts the next, until the ring is empty.  A port opened for   *)
(* blocking writes waits for that, one opened for the others returns.      *)
(*                                                                         *)
(* The hardware refuses a transmission while it is at another; a           *)
(* suspension stops it without an interrupt.                               *)
(***************************************************************************)
EXTENDS SerialFifo

CONSTANTS TxSize,        \* the capacity of the ring
          Lengths        \* lengths that callers write

\* What the constants must satisfy.
SerialTxAssumption ==
    /\ SerialFifoAssumption
    /\ TxSize \in Nat \ {0} /\ Lengths \subseteq Nat \ {0}

VARIABLES
    blocking,           \* SERIAL_O_BLCK_TX, or SERIAL_O_NBLCK_TX
    front,            \* rb's read position, modulo the capacity
    busyTx,             \* DEV_STATUS_BUSY_TX
    hw, hwFrom,         \* the hardware: bytes it is sending, and where they start
    way, size, sended, txLen, linear, from,   \* the call, its arguments and locals
    \* history
    strayed,            \* the FIFO was taken for idle under the hardware or a write
    cut, missed         \* of a port for non-blocking writes: the hardware was stopped, or
                        \* started while suspended; the last bytes left just as a write
                        \* was to queue behind them

sending == <<hw, hwFrom>>
write == <<way, size, sended, txLen, linear, from>>
doubts == <<strayed, cut, missed>>
txOnly == <<blocking, front, busyTx, sending, write, doubts>>
writeVars == <<fifoVars, txOnly>>

WriteTypeOK ==
    /\ FifoTypeOK
    /\ stored <= TxSize
    /\ place \in {"out", "mark", "check", "test", "room", "fill", "look", "load", "claim",
                  "clear", "start", "refused", "unload", "blame", "wait", "waiting", "judge",
                  "reason", "ok", "failed", "empty", "leave"}
    /\ blocking \in BOOLEAN /\ busyTx \in BOOLEAN /\ front \in 0 .. TxSize - 1
    /\ hw \in 0 .. TxSize /\ hwFrom \in 0 .. TxSize - 1
    /\ way \in {"none", "queue", "block", "start"} /\ size \in Lengths \cup {0}
    /\ sended \in 0 .. size /\ txLen \in 0 .. TxSize /\ linear \in 0 .. TxSize
    /\ from \in 0 .. TxSize - 1
    /\ strayed \in BOOLEAN /\ cut \in BOOLEAN /\ missed \in BOOLEAN

\* Nothing is in the ring; earlier writes may have moved its read position.
WriterInit ==
    /\ front \in 0 .. TxSize - 1 /\ busyTx = FALSE /\ hw = 0 /\ hwFrom = 0
    /\ way = "none" /\ size = 0 /\ sended = 0 /\ txLen = 0 /\ linear = 0 /\ from = 0
    /\ strayed = FALSE /\ cut = FALSE /\ missed = FALSE

WriteInit == FifoInit /\ WriterInit /\ blocking \in BOOLEAN /\ Cpt!Init

\* ringbuf_get_item_linear_space for n bytes from position p on
Linear(p, n) == Lesser(n, TxSize - p)

WriteLeave ==
    /\ Return
    /\ way' = "none" /\ size' = 0 /\ sended' = 0 /\ txLen' = 0 /\ linear' = 0 /\ from' = 0

-----------------------------------------------------------------------------
(* serial_write, serial_tx_block ("block"), serial_tx_nonblock ("start") *)

\* While a transmission runs, bytes are only queued.
WriteCall(c, n) ==
    /\ user = Nobody /\ user' = c /\ size' = n
    /\ way' = IF busyTx THEN "queue" ELSE IF blocking THEN "block" ELSE "start"
    /\ place' = IF way' = "block" THEN "mark" ELSE "room"
    /\ strayed' = (blocking /\ hw > 0)
    /\ UNCHANGED <<sended, txLen, linear, from, stored, fifo, port, stale, eventVars, blocking,
                   front, busyTx, sending, cut, missed>>

\* A step of the call that touches neither hardware nor completion.
Private == UNCHANGED <<port, eventVars, blocking, front, sending, cut, missed>>

WriteMark ==
    /\ CallMoves("mark", IF way = "block" THEN "check" ELSE "test") /\ Private
    /\ busyTx' = TRUE
    /\ UNCHANGED <<stored, fifo, stale, write, strayed>>

WriteCheck ==
    /\ CallMoves("check", IF suspended THEN "leave" ELSE "test") /\ Private
    /\ UNCHANGED <<stored, fifo, stale, busyTx, write, strayed>>

\* A blocking write goes round until the FIFO is idle.
TestIdle ==
    /\ place = "test" /\ Private
    /\ \/ way = "block" /\ CallMoves("test", IF busy THEN "check" ELSE "room") /\ UNCHANGED write
       \/ way = "start" /\ ~busy /\ txLen > 0 /\ CallMoves("test", "look") /\ UNCHANGED write
       \/ way = "start" /\ (busy \/ txLen = 0) /\ WriteLeave
    /\ UNCHANGED <<stored, fifo, stale, busyTx, strayed>>

\* ringbuf_in: its look at the free space, and the publication
Room ==
    /\ CallMoves("room", "fill") /\ Private
    /\ txLen' = Lesser(size - sended, TxSize - stored)
    /\ UNCHANGED <<stored, fifo, stale, busyTx, way, size, sended, linear, from, strayed>>

WriteFill ==
    /\ place = "fill" /\ Private
    /\ stored' = stored + txLen
    /\ \/ /\ way = "block" /\ UNCHANGED write
          /\ CallMoves("fill", IF txLen = 0 THEN "leave" ELSE "look")
       \/ way = "start" /\ CallMoves("fill", "mark") /\ UNCHANGED write
       \/ way = "queue" /\ WriteLeave
    /\ UNCHANGED <<fifo, stale, busyTx, strayed>>

WriteLook ==
    /\ place = "look" /\ Private
    /\ linear' = Linear(front, stored) /\ from' = front
    /\ CallMoves("look", IF linear' = 0 /\ way = "block" THEN "leave" ELSE "load")
    /\ UNCHANGED <<stored, fifo, stale, busyTx, way, size, sended, txLen, strayed>>

\* loadSize, status, waitReason are set one after the other (the first two in
\* the other order by serial_tx_nonblock, when no interrupt is expected).
WriteLoad ==
    /\ CallMoves("load", "claim") /\ Private
    /\ loadSize' = linear
    /\ UNCHANGED <<busy, waitReason, stored, stale, busyTx, write, strayed>>

Claim ==
    /\ CallMoves("claim", IF way = "block" THEN "clear" ELSE "start") /\ Private
    /\ busy' = TRUE
    /\ UNCHANGED <<loadSize, waitReason, stored, stale, busyTx, write, strayed>>

WriteClear ==
    /\ CallMoves("clear", "start") /\ Private
    /\ waitReason' = "none"
    /\ UNCHANGED <<loadSize, busy, stored, stale, busyTx, write, strayed>>

\* The hardware takes one transmission at a time.
Transmit(n, p) == hw = 0 /\ hw' = n /\ hwFrom' = p

WriteStart ==
    /\ place = "start" /\ UNCHANGED port
    /\ stale' = Leftover
    /\ cut' = (cut \/ (suspended /\ ~blocking))
    /\ \/ /\ Transmit(linear, from) /\ missed' = FALSE
          /\ IF way = "block" THEN CallMoves("start", "wait") /\ UNCHANGED write ELSE WriteLeave
       \/ hw > 0 /\ CallMoves("start", "refused") /\ UNCHANGED <<sending, write, missed>>
    /\ UNCHANGED <<stored, fifo, eventVars, blocking, front, busyTx, strayed>>

\* The transmission was refused, or its wait ended without a result: status,
\* loadSize and (if it was refused) waitReason are set, in this order.
WriteIdle ==
    /\ \/ CallMoves("refused", "unload") \/ CallMoves("failed", "empty")
    /\ Private
    /\ busy' = FALSE /\ strayed' = (strayed \/ hw > 0)
    /\ UNCHANGED <<loadSize, waitReason, stored, stale, busyTx, write>>

Unload ==
    /\ \/ CallMoves("unload", IF way = "block" THEN "blame" ELSE "leave")
       \/ CallMoves("empty", "leave")
    /\ Private
    /\ loadSize' = 0
    /\ UNCHANGED <<busy, waitReason, stored, stale, busyTx, write, strayed>>

Blame ==
    /\ CallMoves("blame", "leave") /\ Private
    /\ waitReason' = "error"
    /\ UNCHANGED <<loadSize, busy, stored, stale, busyTx, write, strayed>>

\* The bytes put into the ring are counted as sent.
Credit ==
    /\ place = "ok" /\ Private
    /\ sended' = sended + txLen
    /\ CallMoves("ok", IF sended' < size THEN "check" ELSE "leave")
    /\ UNCHANGED <<stored, fifo, stale, busyTx, way, size, txLen, linear, from, strayed>>

Leaving ==
    /\ place = "leave" /\ WriteLeave /\ Private
    /\ busyTx' = FALSE
    /\ UNCHANGED <<stored, fifo, stale, strayed>>

-----------------------------------------------------------------------------
(* serial_hw_isr: SERIAL_EVENT_INT_TXDONE, SERIAL_EVENT_DMA_TXDONE *)

\* The driver is done: the waiter is told, if there may be one.
Finish ==
    /\ busyTx' = FALSE
    /\ IF blocking THEN waitReason' = "done" /\ Ring ELSE UNCHANGED <<waitReason, eventVars>>

\* Mutant: what wrapped around in the ring is not looked for.
StaysBusyOnce(load, next) == load # 0

\* The FIFO is idle again when all that was loaded is out and no more is there.
StaysBusy(load, next) == load # 0 \/ next > 0

\* What was sent leaves the ring, and the next contiguous bytes follow.
Sent ==
    /\ hw > 0 /\ ~suspended
    /\ stored' = stored - Lesser(hw, stored)
    /\ front' = (front + Lesser(hw, stored)) % TxSize
    /\ LET next == Linear(front', stored')
           load == loadSize - hw
       IN /\ busy' = (busy /\ StaysBusy(load, next))
          /\ IF busy'
             THEN /\ loadSize' = next /\ hw' = next /\ hwFrom' = IF next > 0 THEN front' ELSE 0
                  /\ UNCHANGED <<busyTx, waitReason, eventVars>>
             ELSE /\ loadSize' = IF load = 0 THEN next ELSE load
                  /\ hw' = 0 /\ hwFrom' = 0 /\ Finish
    /\ missed' = (hw' = 0 /\ way = "queue")
    /\ UNCHANGED <<port, user, place, stale, blocking, write, strayed, cut>>

\* A suspended port does not listen: the bytes stay in the ring.
SentUnheard ==
    /\ hw > 0 /\ suspended
    /\ hw' = 0 /\ hwFrom' = 0 /\ cut' = ~blocking
    /\ UNCHANGED <<fifoVars, blocking, front, busyTx, write, strayed, missed>>

\* SERIAL_EVENT_ERR_OCCUR, of the receiver: the hardware goes on sending.
TxLineError ==
    /\ ~suspended /\ blocking
    /\ Abandon("error") /\ Ring /\ busyTx' = FALSE
    /\ strayed' = (hw > 0 \/ user # Nobody)
    /\ UNCHANGED <<stored, port, user, place, stale, blocking, front, sending, write, cut,
                   missed>>

-----------------------------------------------------------------------------
WriterStep ==
    \/ AbortableWait /\ UNCHANGED txOnly
    \/ WriteMark \/ WriteCheck \/ TestIdle \/ Room \/ WriteFill \/ WriteLook
    \/ WriteLoad \/ Claim \/ WriteClear
    \/ WriteStart \/ WriteIdle \/ Unload \/ Blame \/ Credit \/ Leaving

TxSuspendStep ==
    \/ (Suspend \/ AbortDone \/ AbortSignal \/ Resume) /\ UNCHANGED txOnly
    \/ /\ StopPort(blocking) /\ hw' = 0 /\ hwFrom' = 0 /\ cut' = (cut \/ (hw > 0 /\ ~blocking))
       /\ UNCHANGED <<blocking, front, busyTx, write, strayed, missed>>
    \/ /\ Abort /\ strayed' = (hw > 0 \/ user # Nobody)
       /\ UNCHANGED <<blocking, front, busyTx, sending, write, cut, missed>>
    \/ /\ Aborted /\ busyTx' = FALSE
       /\ UNCHANGED <<blocking, front, sending, write, doubts>>

WriteNext ==
    \/ \E c \in Users : (\E n \in Lengths : WriteCall(c, n)) \/ (CallWaits(c) /\ UNCHANGED txOnly)
    \/ WriterStep
    \/ Sent \/ SentUnheard \/ TxLineError
    \/ TxSuspendStep

WriteSpec == WriteInit /\ [][WriteNext]_writeVars

-----------------------------------------------------------------------------
\* What the hardware sends is what the FIFO expects: the front of the ring.
FromFront == hw > 0 => hwFrom = front /\ hw <= stored /\ busy /\ loadSize = hw

(* A write that is under way ends, and with the bytes out.  The hardware sends the
   front of the ring unless the FIFO was taken for idle under it (line 195 after a
   timeout, 73 after an error).  A thread that sleeps has a transmission to wait for,
   or the end of a suspension.  A wait that succeeds found everything sent (201),
   unless its done was meant for another (192).  Bytes that no write is busy with
   are being sent, on a port opened for non-blocking writes, unless a suspension
   stopped them or the last transmission ended between the look at BUSY_TX (585)
   and the queueing. *)
WritesGoOut ==
    /\ ~strayed /\ ~overtaken =>
          /\ FromFront
          /\ CallSleeps /\ way = "block" => (hw > 0 /\ ~suspended) \/ spc # "out"
          /\ place = "ok" /\ way = "block" => stale \/ (stored = 0 /\ hw = 0)
    /\ ~blocking /\ user = Nobody /\ stored > 0 => hw > 0 \/ cut \/ missed

=============================================================================
