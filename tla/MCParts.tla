------------------------------ MODULE MCParts ------------------------------
(***************************************************************************)
(* Small instances of the parts of the framework that do not touch each    *)
(* other: the synchronous transaction of a motor driver, both halves of    *)
(* the CAN and of the serial driver, the double buffer, the log ring and   *)
(* the timers of the port without an operating system.  They are checked   *)
(* side by side: `part` picks the one that moves, and the others stay as   *)
(* they are initially.  Motor and serial driver use the same variables for *)
(* their completion, and both halves of the serial driver for the FIFO.    *)
(***************************************************************************)
EXTENDS MotorSync, CanRx, CanTx, SerialRx, SerialTx, DoubleBuf, LogRing, TimerNone, TLC

CONSTANTS a, b,             \* two callers, readers, writers, loggers, timers
          n1, n2, n3,       \* message nodes
          none, sem, thread, suspender

Two == {a, b}

VARIABLE part

ASSUME SerialAssumption == SerialRxAssumption /\ SerialTxAssumption

PartsInit ==
    /\ part \in {"motor", "can rx", "can tx", "serial rx", "serial tx", "double buffer",
                 "log", "timer"}
    /\ OwnInit
    /\ IF part \in {"serial rx", "serial tx"} THEN Cpt!Init ELSE Event!Init
    /\ RxInit /\ rxFree = <<n1, n2>> /\ (part # "can rx" => ~rxOverwrite)
    /\ TxInit /\ txFree = <<n1, n2, n3>> /\ (part # "can tx" => ~txOverwrite)
    /\ FifoInit /\ ReaderInit
    /\ WriterInit /\ blocking \in BOOLEAN /\ (part # "serial tx" => blocking)
    /\ front = 1     \* so that the first write wraps around
    /\ Init
    /\ LogInit /\ (part # "log" => async)
    /\ TimerInit
    /\ IF part = "timer" THEN period[a] # period[b]
       ELSE clock = 0 /\ \A t \in Two : period[t] = 1 /\ mode[t] = "once"

motor == <<pending, resultOK, response, mpc, command, attempt, sent, mixed>>
canRx == <<rxFree, rxUsed, rxOverwrite, msgMatched, msgCount, isActived, rxOwner, slotToHwBank,
           hwBanks, rpc, rslot, rnode, rtail, fpc, fslot, lost, stranded, miscounted, shared,
           derailed>>
canTx == <<txFree, txUsed, txOverwrite, mailboxList, pMsgList, txOwner, hardware, tpc, wnode,
           wtail, orphans, idle, adrift>>
serialFifo == <<stored, fifo, port, user, place, stale>>
serial == <<serialFifo, read, txOnly>>
log == <<async, start, token, writePos, readPos, dropped, warnedUpto, ever, recent, lpc, taken,
         drops, emitted, fired, losses, held, crossed>>
clockVars == <<clock, queue, valid, active, suppress, deadline, mode, period, at, now, firing,
               wanted, revived, called, swept>>
vars == <<part, eventVars, motor, canRx, canTx, serial, dbVars, log, clockVars>>

PartsNext ==
    /\ UNCHANGED part
    /\ \/ /\ part = "motor" /\ MotorNext
          /\ UNCHANGED <<canRx, canTx, serial, dbVars, log, clockVars>>
       \/ /\ part = "can rx" /\ RxNext
          /\ UNCHANGED <<eventVars, motor, canTx, serial, dbVars, log, clockVars>>
       \/ /\ part = "can tx" /\ TxNext
          /\ UNCHANGED <<eventVars, motor, canRx, serial, dbVars, log, clockVars>>
       \/ /\ part = "serial rx" /\ ReadNext
          /\ UNCHANGED <<motor, canRx, canTx, txOnly, dbVars, log, clockVars>>
       \/ /\ part = "serial tx" /\ WriteNext
          /\ UNCHANGED <<motor, canRx, canTx, read, dbVars, log, clockVars>>
       \/ /\ part = "double buffer" /\ Next
          /\ UNCHANGED <<eventVars, motor, canRx, canTx, serial, log, clockVars>>
       \/ /\ part = "log" /\ LogNext
          /\ UNCHANGED <<eventVars, motor, canRx, canTx, serial, dbVars, clockVars>>
       \/ /\ part = "timer" /\ TimerNext
          /\ UNCHANGED <<eventVars, motor, canRx, canTx, serial, dbVars, log>>

PartsSpec == PartsInit /\ [][PartsNext]_vars

\* No property or action names one of the two.
Symmetry == Permutations(Two)

\* Bound: nothing is explored beyond a state in which the code of the CAN driver
\* spins, a motor transaction has met another at the completion in one of the
\* three ways that lose its done, or a waiter has overtaken a half-done done call.
BeforeDisorder == ~derailed /\ ~adrift /\ ~mixed /\ ~overtaken

-----------------------------------------------------------------------------
(* Every variable of the moving part keeps its type. *)
PartsTypeOK ==
    /\ part = "motor" => MotorTypeOK
    /\ part = "can rx" => RxTypeOK
    /\ part = "can tx" => TxTypeOK
    /\ part = "serial rx" => ReadTypeOK
    /\ part = "serial tx" => WriteTypeOK
    /\ part = "double buffer" => TypeOK
    /\ part = "log" => LogTypeOK
    /\ part = "timer" => TimerTypeOK

(* The other properties are those of the parts.  A part at rest has them, too.             *)

=============================================================================
