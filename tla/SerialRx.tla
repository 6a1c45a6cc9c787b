------------------------------ MODULE SerialRx ------------------------------
(***************************************************************************)
(* Blocking reads of a serial port (lib/drivers/src/peripheral/serial/     *)
(* hal_serial.c): a thread takes what the ring holds, announces in         *)
(* loadSize how much more it wants and waits; the receive interrupt counts *)
(* loadSize down and ends the wait, and so do the error interrupt and a    *)
(* suspension.                                                             *)
(***************************************************************************)
EXTENDS SerialFifo

CONSTANTS RxSize,        \* the capacity of the ring
          Requests,      \* lengths that callers ask for
          SizeWidth,     \* size_t counts modulo this
          MaxExcess      \* bound: how far loadSize runs below zero

\* What the constants must satisfy.
SerialRxAssumption ==
    /\ SerialFifoAssumption
    /\ RxSize \in Nat \ {0} /\ Requests \subseteq Nat \ {0} /\ MaxExcess \in Nat
    /\ SizeWidth \in Nat /\ \A n \in Requests \cup {RxSize} : 2 * n < SizeWidth

VARIABLES
    want, remain, rdLen, total,   \* the arguments and locals of the call
    \* history
    surplus,            \* between two looks at the length (617 and 258; both of 286) more
                        \* came than was asked for
    unseen              \* bytes that were stored when the reader announced its wish

read == <<want, remain, rdLen, total, surplus, unseen>>
readVars == <<fifoVars, read>>

ReadTypeOK ==
    /\ FifoTypeOK
    /\ stored <= RxSize /\ loadSize \in -MaxExcess .. RxSize
    /\ place \in {"out", "measure", "check", "load", "wait", "waiting", "judge", "reason",
                  "ok", "failed", "count", "recount", "take", "excess", "nothing"}
    /\ want \in Requests \cup {0} /\ remain \in 0 .. SizeWidth - 1
    /\ rdLen \in 0 .. RxSize + MaxExcess /\ total \in Nat
    /\ surplus \in BOOLEAN /\ unseen \in 0 .. RxSize

ReaderInit == want = 0 /\ remain = 0 /\ rdLen = 0 /\ total = 0 /\ surplus = FALSE /\ unseen = 0

ReadInit == FifoInit /\ ReaderInit /\ Cpt!Init

ReadLeave ==
    /\ Return
    /\ want' = 0 /\ remain' = 0 /\ rdLen' = 0 /\ total' = 0 /\ surplus' = FALSE /\ unseen' = 0

-----------------------------------------------------------------------------
(* serial_read, serial_rx_block *)

\* What is already there is returned at once.
Read(c, n) ==
    /\ user = Nobody
    /\ \/ stored >= n /\ stored' = stored - n /\ UNCHANGED <<user, place, read>>
       \/ /\ stored < n /\ user' = c /\ place' = "measure" /\ want' = n
          /\ UNCHANGED <<stored, remain, rdLen, total, surplus, unseen>>
    /\ UNCHANGED <<fifo, port, stale, eventVars>>

\* The ring is emptied; bytes may have come since serial_read looked.
Measure ==
    /\ CallMoves("measure", "check")
    /\ total' = stored /\ stored' = 0
    /\ remain' = (want - stored) % SizeWidth
    /\ surplus' = (stored > want)
    /\ UNCHANGED <<want, rdLen, unseen, fifo, stale, eventVars>>

ReadCheck ==
    /\ place = "check"
    /\ IF suspended THEN ReadLeave /\ UNCHANGED port
       ELSE CallMoves("check", "load") /\ UNCHANGED read
    /\ UNCHANGED <<stored, fifo, stale, eventVars>>

\* With interrupts locked.
ReadLoad ==
    /\ CallMoves("load", "wait")
    /\ loadSize' = Lesser(remain, RxSize - stored) /\ rdLen' = loadSize'
    /\ busy' = TRUE /\ waitReason' = "none"
    /\ unseen' = stored /\ stale' = Leftover
    /\ UNCHANGED <<want, remain, total, surplus, stored, eventVars>>

\* The wait is over: without a result the call ends.
ReadIdle ==
    /\ place \in {"ok", "failed"} /\ UNCHANGED port
    /\ busy' = FALSE
    /\ IF place = "ok" THEN place' = "count" /\ UNCHANGED <<user, read>> ELSE ReadLeave
    /\ UNCHANGED <<loadSize, waitReason, stored, stale, eventVars>>

\* The length is read once to compare it and again to use it.
Compare ==
    /\ CallMoves("count", IF stored < rdLen THEN "recount"
                          ELSE IF rdLen = 0 THEN "nothing" ELSE "take")
    /\ UNCHANGED <<read, stored, fifo, stale, eventVars>>

Recount ==
    /\ CallMoves("recount", IF stored = 0 THEN "nothing" ELSE "take")
    /\ rdLen' = stored /\ surplus' = (surplus \/ stored > rdLen)
    /\ UNCHANGED <<want, remain, total, unseen, stored, fifo, stale, eventVars>>

\* A timeout is reported and the call ends.
Nothing ==
    /\ place = "nothing" /\ ReadLeave
    /\ UNCHANGED <<stored, fifo, port, stale, eventVars>>

ReadTake ==
    /\ CallMoves("take", "excess")
    /\ stored' = stored - rdLen /\ total' = total + rdLen
    /\ UNCHANGED <<want, remain, rdLen, surplus, unseen, fifo, stale, eventVars>>

\* Bytes beyond the announcement count as read.
Excess ==
    /\ place = "excess" /\ UNCHANGED port
    /\ LET all == IF loadSize < 0 THEN rdLen - loadSize ELSE rdLen
       IN IF remain > all
          THEN /\ place' = "check" /\ remain' = remain - all /\ rdLen' = all
               /\ UNCHANGED <<user, want, total, surplus, unseen>>
          ELSE ReadLeave
    /\ loadSize' = IF loadSize < 0 THEN 0 ELSE loadSize
    /\ UNCHANGED <<busy, waitReason, stored, stale, eventVars>>

-----------------------------------------------------------------------------
(* serial_hw_isr.  Nothing happens on a suspended port. *)

\* Mutant: only an excess ends the wait.
ReceiveMore(n) ==
    /\ ~suspended
    /\ loadSize' = (IF busy THEN loadSize - n ELSE loadSize) /\ loadSize' >= -MaxExcess
    /\ stored' = Lesser(stored + n, RxSize)
    /\ IF loadSize' < 0 THEN waitReason' = "done" /\ Ring ELSE UNCHANGED <<waitReason, eventVars>>
    /\ UNCHANGED <<busy, port, user, place, stale, read>>

\* SERIAL_EVENT_INT_RXDONE, SERIAL_EVENT_DMA_RXDONE: what does not fit is lost.
Receive(n) ==
    /\ ~suspended
    /\ loadSize' = (IF busy THEN loadSize - n ELSE loadSize) /\ loadSize' >= -MaxExcess
    /\ stored' = Lesser(stored + n, RxSize)
    /\ IF loadSize' <= 0 THEN waitReason' = "done" /\ Ring ELSE UNCHANGED <<waitReason, eventVars>>
    /\ UNCHANGED <<busy, port, user, place, stale, read>>

\* SERIAL_EVENT_ERR_OCCUR
RxLineError ==
    /\ ~suspended
    /\ Abandon("error") /\ Ring
    /\ UNCHANGED <<stored, port, user, place, stale, read>>

-----------------------------------------------------------------------------
ReaderStep ==
    \/ AbortableWait /\ UNCHANGED read
    \/ Measure \/ ReadCheck \/ ReadLoad \/ ReadIdle \/ Compare
    \/ Recount \/ Nothing \/ ReadTake \/ Excess

RxSuspendStep ==
    /\ Suspend \/ StopPort(TRUE) \/ Abort \/ AbortDone \/ AbortSignal \/ Aborted \/ Resume
    /\ UNCHANGED read

ReadNext ==
    \/ \E c \in Users : (\E n \in Requests : Read(c, n)) \/ (CallWaits(c) /\ UNCHANGED read)
    \/ ReaderStep
    \/ \E n \in 1 .. RxSize : Receive(n)
    \/ RxLineError
    \/ RxSuspendStep

ReadSpec == ReadInit /\ [][ReadNext]_readVars

-----------------------------------------------------------------------------
(* A blocking read neither sleeps on what it waits for nor gives up without a
   reason nor returns too much, outside the windows the code has.  Asleep, it has
   not received what it announced, apart from bytes that came before it announced
   it (line 258 reads the length outside of the section at 271), and a suspended
   port lets it sleep only until the waits are ended.  It reports a timeout that
   did not happen (line 290) only when the done was not meant for it - every byte
   that comes while loadSize is not positive leaves one, also when nobody reads
   (line 686) - or when there was nothing to announce.  It returns more than was
   asked for only if that much came between two looks at the length: line 286
   compares one and uses another. *)
ReadsEnd ==
    /\ CallSleeps /\ want > 0 /\ ~overtaken =>
          /\ rdLen > 0 => stored < unseen + rdLen
          /\ suspended => spc # "out"
    /\ place = "nothing" /\ ~overtaken => stale \/ unseen = RxSize \/ remain = 0
    /\ ~surplus => total <= want

=============================================================================
