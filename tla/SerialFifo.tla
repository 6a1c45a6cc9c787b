----------------------------- MODULE SerialFifo -----------------------------
(***************************************************************************)
(* What both directions of the serial driver share, in                     *)
(* lib/drivers/src/peripheral/serial/hal_serial.c: the bookkeeping of a    *)
(* FIFO, the wait for its completion (module Completion) that a suspension *)
(* ends, and the commands SUSPEND and RESUME of a second thread.  Modules  *)
(* SerialRx and SerialTx extend it.                                        *)
(*                                                                         *)
(* Of the ring only the number of bytes matters here: module Pipe checks   *)
(* its contents.  One thread at a time uses a direction of the port, as    *)
(* the driver expects.                                                     *)
(***************************************************************************)
EXTENDS Integers, FiniteSets, EventVars

CONSTANTS Users, Suspender, Nobody,
          FifoBackends, FifoSem, MaxWakes   \* of Completion

\* What the constants must satisfy.
SerialFifoAssumption ==
    /\ Suspender \notin Users /\ Nobody \notin Users
    /\ FifoBackends \subseteq {"sem", "notify"}
    /\ FifoSem \notin Users /\ FifoSem # Nobody
    /\ MaxWakes \in Nat

VARIABLES
    stored,             \* bytes in rb
    loadSize, busy, waitReason,   \* loadSize, status is BUSY, waitReason
    suspended,          \* DEV_STATUS_SUSPEND
    user, place,        \* the call in progress
    spc,                \* the place of the thread that suspends and resumes
    \* history
    stale               \* the done that ends this wait may not be meant for it: one was
                        \* there or on its way before, or the port was suspended since

fifo == <<loadSize, busy, waitReason>>
port == <<suspended, spc>>
fifoVars == <<stored, fifo, port, user, place, stale, eventVars>>

\* cpt
Cpt == INSTANCE Completion WITH
            Waiters <- Users, Posters <- {Suspender}, Backends <- FifoBackends,
            Sem <- FifoSem, None <- Nobody, MaxDone <- MaxWakes

FifoTypeOK ==
    /\ stored \in Nat /\ loadSize \in Int /\ busy \in BOOLEAN
    /\ waitReason \in {"none", "done", "abort", "error"} /\ suspended \in BOOLEAN
    /\ user \in Users \cup {Nobody} /\ (user = Nobody <=> place = "out")
    /\ spc \in {"out", "stop", "abort", "done", "signal"}
    /\ stale \in BOOLEAN
    /\ Cpt!TypeOK

FifoInit ==
    /\ stored = 0 /\ loadSize = 0 /\ busy = FALSE /\ waitReason = "none"
    /\ suspended = FALSE /\ spc = "out" /\ user = Nobody /\ place = "out" /\ stale = FALSE

Lesser(m, n) == IF m < n THEN m ELSE n

\* The call moves on; what it leaves alone.
CallMoves(from, to) == place = from /\ place' = to /\ UNCHANGED <<user, port>>

Return == user' = Nobody /\ place' = "out"

\* A done is pending, or one for the suspension is still to come.
Leftover == status = "DONE" \/ spc # "out"

-----------------------------------------------------------------------------
(* serial_wait_completion_abortable: from "wait" to "ok" or "failed" *)

\* The timeouts of 120 s are finite.
BeginWait ==
    /\ CallMoves("wait", "waiting")
    /\ Cpt!WaitCall(user) /\ tmo'[user] = "finite"
    /\ UNCHANGED <<stored, fifo, stale>>

Waited ==
    /\ user # Nobody /\ wpc[user] = "out"
    /\ CallMoves("waiting", IF wret[user] = "OK" THEN "judge" ELSE "failed")
    /\ UNCHANGED <<stored, fifo, stale, eventVars>>

Judge ==
    /\ CallMoves("judge", IF suspended THEN "failed" ELSE "reason")
    /\ UNCHANGED <<stored, fifo, stale, eventVars>>

ClearReason ==
    /\ CallMoves("reason", IF waitReason \in {"abort", "error"} THEN "failed" ELSE "ok")
    /\ waitReason' = "none"
    /\ UNCHANGED <<loadSize, busy, stored, stale, eventVars>>

AbortableWait == BeginWait \/ Waited \/ Judge \/ ClearReason

\* The steps of completion_wait itself.
CallWaits(c) == Cpt!WaiterStep(c) /\ UNCHANGED <<stored, fifo, port, user, place, stale>>

\* completion_done in the interrupt handler; OM_ERROR_BUSY is as good.
Ring == IF status = "DONE" THEN UNCHANGED eventVars ELSE Cpt!DoneFromIsr

\* serial_abort_blocking_waiters: what it does to a FIFO with interrupts locked.
Abandon(why) == busy' = FALSE /\ loadSize' = 0 /\ waitReason' = why

-----------------------------------------------------------------------------
(* serial_ctrl: SERIAL_CMD_SUSPEND and SERIAL_CMD_RESUME *)

Suspend ==
    /\ spc = "out" /\ ~suspended /\ spc' = "stop"
    /\ suspended' = TRUE
    /\ UNCHANGED <<stored, fifo, user, place, stale, eventVars>>

\* The hardware stops.  Only waits of a port opened for blocking calls are ended.
StopPort(blocks) ==
    /\ spc = "stop" /\ spc' = (IF blocks THEN "abort" ELSE "out")
    /\ UNCHANGED <<stored, fifo, suspended, user, place, stale, eventVars>>

Abort ==
    /\ spc = "abort" /\ spc' = "done"
    /\ Abandon("abort")
    /\ stale' = (user # Nobody)
    /\ UNCHANGED <<stored, suspended, user, place, eventVars>>

AbortDone ==
    /\ spc = "done" /\ spc' = "signal"
    /\ Cpt!DoneCall(Suspender)
    /\ UNCHANGED <<stored, fifo, suspended, user, place, stale>>

AbortSignal ==
    /\ spc = "signal" /\ Cpt!PosterStep(Suspender)
    /\ UNCHANGED <<stored, fifo, port, user, place, stale>>

Aborted ==
    /\ spc = "signal" /\ dpc[Suspender] = "out" /\ spc' = "out"
    /\ UNCHANGED <<stored, fifo, suspended, user, place, stale, eventVars>>

\* The hardware is set up as when the port was opened.
Resume ==
    /\ spc = "out" /\ suspended
    /\ suspended' = FALSE
    /\ UNCHANGED <<stored, fifo, spc, user, place, stale, eventVars>>

-----------------------------------------------------------------------------
\* The call sleeps, and nothing that has happened is going to wake it.
CallSleeps == /\ place = "waiting" /\ wpc[user] = "sleep" /\ status # "DONE"
              /\ Cpt!Box(user) \notin signal /\ ~Cpt!InDone

=============================================================================
