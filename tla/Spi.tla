-------------------------------- MODULE Spi --------------------------------
(***************************************************************************)
(* The SPI bus of lib/drivers/src/peripheral/spi/hal_spi.c: one bus, its   *)
(* mutex, its transferDone completion (module Completion), the devices     *)
(* attached to it, a thread that transfers synchronously, the worker of    *)
(* asyncWq that carries out the asynchronous messages, a thread that       *)
(* attaches, detaches, suspends, resumes, reconfigures and aborts, and the *)
(* interrupt that ends a transfer.                                         *)
(*                                                                         *)
(* A section under the mutex that waits for nothing is one step, because   *)
(* what it touches is touched under the mutex only; `busy`, lastStatus and *)
(* the completion, which the interrupt touches, are read and written in    *)
(* steps of their own.  The synchronous transfer holds the mutex while it  *)
(* waits, the asynchronous one does not.                                   *)
(***************************************************************************)
EXTENDS Integers, FiniteSets, Sequences

CONSTANTS Devices,
          Sync, Worker, Control,  \* the three threads
          Stale,      \* the owner of a transfer nobody waits for any more
          NoOne,      \* NULL: no owner, no device
          Backends, Sem, MaxDone, \* of Completion; MaxDone bounds interrupts
          Shapes,     \* messages: sequences of segments "hold", "free", "empty"
          MaxControl  \* bound: calls that suspend, detach, reconfigure, abort

ASSUME SpiAssumption ==
    /\ {Sync, Worker, Control, Stale, NoOne} \cap Devices = {}
    /\ Sync \notin {Worker, Control, Stale, NoOne, Sem}
    /\ Worker \notin {Control, Stale, NoOne, Sem} /\ Control \notin {Stale, NoOne, Sem}
    /\ Stale \notin {NoOne, Sem} /\ NoOne # Sem
    /\ IsFiniteSet(Devices)
    /\ Backends \subseteq {"sem", "notify"}
    /\ MaxDone \in Nat /\ MaxControl \in Nat
    /\ \A s \in Shapes : s \in Seq({"hold", "free", "empty"}) /\ s # << >>

VARIABLES
    \* SpiBus
    lock,        \* the thread that holds SpiBus.lock
    busy,        \* SpiBus.busy
    last,        \* lastStatus is OM_OK; history: the transfer it came from
    lastCfg,     \* lastCfgDev
    list,        \* deviceList; deviceCount is its size
    suspendedCount,
    queue,       \* asyncWq: the devices whose asyncWork is queued
    \* HalSpiDevice
    bound,       \* devices whose `bus` is set
    suspended,
    asyncBusy,
    \* the controller (external)
    on,          \* not suspended
    hwCfg,       \* the device whose present cfg it was given
    hw,          \* whose transfer is running
    cs,          \* the devices selected
    kept,        \* history: of these, the ones a message that ended in CS_HOLD left
                 \* selected for its caller, until spi_cs_deassert or the next message
    \* the threads
    spc, sdev, srest,
    apc, adev, arest,
    aheld,       \* asyncCsHeld of the device the worker is at
    cpc, cdev, controls,
    \* transferDone
    backend, status, waitThread, signal, wpc, tmo, wret, dpc, target, dret,
    owed, calls, overtaken, unsent, crowded,
    \* history
    spare,       \* a done came that was not the end of the segment under way
    doubtful,    \* lastCfgDev names a device with a newer cfg, or a detached one
    uncounted,   \* a suspended device was detached, or one came while all were
    leaked       \* busy is set by a message that has ended

flag == <<busy, leaked, spare>>
cache == <<lastCfg, hwCfg, doubtful>>
power == <<list, suspendedCount, bound, suspended, on, uncounted>>
selected == <<cs, kept>>
wires == <<hw, selected>>
async == <<queue, asyncBusy>>
syncing == <<spc, sdev, srest>>
working == <<apc, adev, arest, aheld>>
controlling == <<cpc, cdev, controls>>
event == <<backend, status, waitThread, signal, wpc, tmo, wret, dpc, target, dret,
           owed, calls, overtaken, unsent, crowded>>
vars == <<lock, flag, last, cache, power, wires, async, syncing, working,
          controlling, event>>

Event == INSTANCE Completion WITH
            Waiters <- {Sync, Worker}, Posters <- {Control}, None <- NoOne

TypeOK ==
    /\ lock \in {NoOne, Sync, Worker, Control}
    /\ busy \in BOOLEAN /\ leaked \in BOOLEAN
    /\ last \in [ok : BOOLEAN, of : {NoOne, Sync, Worker, Stale}]
    /\ {lastCfg, hwCfg} \subseteq Devices \cup {NoOne}
    /\ list \subseteq bound /\ bound \subseteq Devices /\ suspended \subseteq bound
    /\ suspendedCount \in Nat
    /\ asyncBusy \subseteq Devices /\ aheld \in BOOLEAN
    /\ \A i \in 1..Len(queue) : queue[i] \in asyncBusy
    /\ spare \in BOOLEAN
    /\ on \in BOOLEAN /\ doubtful \in BOOLEAN /\ uncounted \in BOOLEAN
    /\ hw \in {NoOne, Sync, Worker, Stale}
    /\ kept \subseteq cs /\ cs \subseteq Devices
    /\ spc \in {"out", "lock", "arm", "start", "await", "drain"}
    /\ apc \in {"idle", "lock", "arm", "start", "await", "drain", "release",
                "relock", "settle", "clean", "done", "call"}
    /\ cpc \in {"out", "abort", "unbind"} /\ controls \in 0..MaxControl
    /\ Event!TypeOK

Init ==
    /\ lock = NoOne /\ busy = FALSE /\ leaked = FALSE /\ spare = FALSE
    /\ last = [ok |-> TRUE, of |-> NoOne]
    /\ lastCfg = NoOne /\ hwCfg = NoOne /\ doubtful = FALSE
    /\ list = Devices /\ bound = Devices
    /\ suspended = {} /\ suspendedCount = 0 /\ on = TRUE /\ uncounted = FALSE
    /\ hw = NoOne /\ cs = {} /\ kept = {}
    /\ queue = << >> /\ asyncBusy = {}
    /\ spc = "out" /\ sdev = NoOne /\ srest = << >>
    /\ apc = "idle" /\ adev = NoOne /\ arest = << >> /\ aheld = FALSE
    /\ cpc = "out" /\ cdev = NoOne /\ controls = 0
    /\ Event!Init

-----------------------------------------------------------------------------
(* Shared pieces *)

\* spi_ensure_configured, when ops->configure succeeds.
Configured(d) ==
    IF lastCfg = d THEN UNCHANGED cache
    ELSE lastCfg' = d /\ hwCfg' = d /\ doubtful' = (d \notin list)

\* History: no interrupt has come yet.
Unmark == last' = [last EXCEPT !.of = NoOne]

\* spi_cs_assert_dev, and busy = 1.
Arm(d) ==
    /\ cs' = cs \cup {d} /\ kept' = kept \ {d}
    /\ busy' = TRUE /\ leaked' = FALSE /\ UNCHANGED spare
    /\ Unmark

Deselect(d) == cs' = cs \ {d} /\ kept' = kept \ {d}

\* A message of d ended in CS_HOLD.
Keep(d) == kept' = kept \cup {d} /\ UNCHANGED cs

Idle == busy' = FALSE /\ leaked' = FALSE /\ UNCHANGED spare

\* A done given now is not the end of the transfer that a segment waits for: the
\* interrupt of one that was given up may come between the arming of the next
\* segment and transferOne, and an abort after the interrupt.
Surplus == ~((hw = Sync /\ spc = "await") \/ (hw = Worker /\ apc = "await"))

\* Nobody waits for t's transfer any more: its interrupt would be a stale one.
Abandon(t) == hw' = IF hw = t THEN Stale ELSE hw

\* completion_wait(&bus->transferDone, d), and what becomes of its result.
Wait(t, d) == Event!WaitCall(t) /\ tmo'[t] = d
TimedOut(t) == wpc[t] = "out" /\ wret[t] = "TIMEOUT"
Ended(t) == wpc[t] = "out" /\ wret[t] # "TIMEOUT"
Forget(t) ==
    /\ wret' = [wret EXCEPT ![t] = "none"]
    /\ UNCHANGED <<backend, status, waitThread, signal, wpc, tmo, dpc, target, dret,
                   owed, calls, overtaken, unsent, crowded>>

-----------------------------------------------------------------------------
(* spi_transfer: from the first check to the end the mutex is held.  Segments
   without data are skipped before anything else is looked at. *)

\* The message s from its first segment with data on: a set of one, if it has any.
HasData(s) == \E i \in 1..Len(s) : s[i] # "empty"
FromData(s) ==
    {SubSeq(s, i, Len(s)) :
        i \in {k \in 1..Len(s) : s[k] # "empty" /\ \A j \in 1..(k - 1) : s[j] = "empty"}}

SyncReturns == spc' = "out" /\ sdev' = NoOne /\ srest' = << >> /\ lock' = NoOne

SyncCall(d) ==
    /\ spc = "out"
    /\ d \in bound \ suspended
    /\ spc' = "lock" /\ sdev' = d
    /\ UNCHANGED <<srest, lock, flag, last, cache, power, wires, async, working, controlling, event>>

\* Refused if suspended or busy, or if the port cannot configure.
SyncLock ==
    /\ spc = "lock" /\ lock = NoOne
    /\ \/ /\ sdev \in suspended \/ busy \/ lastCfg # sdev
          /\ SyncReturns
          /\ UNCHANGED cache
       \/ /\ sdev \notin suspended /\ ~busy
          /\ Configured(sdev)
          /\ \E s \in Shapes :
               IF HasData(s)
               THEN lock' = Sync /\ spc' = "arm" /\ srest' \in FromData(s) /\ UNCHANGED sdev
               ELSE SyncReturns
    /\ UNCHANGED <<flag, last, power, wires, async, working, controlling, event>>

SyncArm ==
    /\ spc = "arm"
    /\ Arm(sdev)
    /\ spc' = "start"
    /\ UNCHANGED <<sdev, srest, lock, cache, power, hw, async, working, controlling, event>>

\* transferOne, which replaces whatever is still running, and the wait; or
\* transferOne refuses.
SyncStart ==
    /\ spc = "start"
    /\ \/ /\ hw' = Sync
          /\ Wait(Sync, "finite")
          /\ spc' = "await"
          /\ UNCHANGED <<sdev, srest, lock, flag, selected>>
       \/ /\ Idle /\ Deselect(sdev) /\ SyncReturns
          /\ UNCHANGED <<hw, event>>
    /\ UNCHANGED <<last, cache, power, async, working, controlling>>

\* The wait did not end by its timeout: lastStatus decides.
SyncWaited ==
    /\ spc = "await" /\ Ended(Sync)
    /\ Idle /\ Abandon(Sync) /\ Forget(Sync) /\ Unmark
    /\ \/ last.ok /\ Head(srest) = "hold" /\ HasData(Tail(srest)) /\ UNCHANGED selected
       \/ last.ok /\ Head(srest) = "hold" /\ ~HasData(Tail(srest)) /\ Keep(sdev)
       \/ ~(last.ok /\ Head(srest) = "hold") /\ Deselect(sdev)
    /\ IF last.ok /\ HasData(Tail(srest))
       THEN spc' = "arm" /\ srest' \in FromData(Tail(srest)) /\ UNCHANGED <<sdev, lock>>
       ELSE SyncReturns
    /\ UNCHANGED <<cache, power, async, working, controlling>>

\* Mutant: the timeout path leaves the done of a late interrupt in place.
SyncTimeoutUndrained ==
    /\ spc = "await" /\ TimedOut(Sync)
    /\ Idle /\ Abandon(Sync) /\ Forget(Sync)
    /\ Deselect(sdev) /\ SyncReturns
    /\ UNCHANGED <<last, cache, power, async, working, controlling>>

\* busy = 0 with interrupts masked, then a wait of zero to drain a late done.
SyncTimeout ==
    /\ spc = "await" /\ TimedOut(Sync)
    /\ Idle /\ Abandon(Sync)
    /\ Wait(Sync, "zero")
    /\ spc' = "drain"
    /\ UNCHANGED <<sdev, srest, lock, last, cache, power, selected, async, working,
                   controlling>>

SyncDrained ==
    /\ spc = "drain" /\ wpc[Sync] = "out"
    /\ Deselect(sdev) /\ SyncReturns /\ Forget(Sync)
    /\ UNCHANGED <<flag, last, cache, power, hw, async, working, controlling>>

-----------------------------------------------------------------------------
(* spi_transfer_async: a thread, or a callback, fills the device's slot.  What
   the message is does not matter before the worker looks. *)

\* Mutant: a second request is taken while the first is under way.
AsyncCallTwice(d) ==
    /\ Len(queue) < 3
    /\ d \in bound \ suspended
    /\ asyncBusy' = asyncBusy \cup {d}
    /\ queue' = Append(queue, d)
    /\ UNCHANGED <<lock, flag, last, cache, power, wires, syncing, working, controlling,
                   event>>

AsyncCall(d) ==
    /\ d \in bound \ suspended
    /\ d \notin asyncBusy
    /\ asyncBusy' = asyncBusy \cup {d}
    /\ queue' = Append(queue, d)
    /\ UNCHANGED <<lock, flag, last, cache, power, wires, syncing, working, controlling,
                   event>>

(* spi_async_worker_func *)

WorkerGoes(at) == apc' = at /\ UNCHANGED <<adev, arest, aheld>>

\* The message ends well: a device that its last segment held stays selected.
EndsHeld == IF aheld THEN Keep(adev) ELSE UNCHANGED selected

\* The slot is read when the work starts; a device without a bus is answered.
WorkerTake ==
    /\ apc = "idle" /\ queue # << >>
    /\ adev' = Head(queue) /\ queue' = Tail(queue) /\ arest' \in Shapes
    /\ aheld' = FALSE
    /\ apc' = IF Head(queue) \in bound THEN "lock" ELSE "done"
    /\ UNCHANGED <<lock, flag, last, cache, power, wires, asyncBusy, syncing, controlling, event>>

\* Refused if suspended or detached, or if the port cannot configure; busy is
\* not looked at.
WorkerLock ==
    /\ apc = "lock" /\ lock = NoOne
    /\ \/ /\ adev \notin bound \ suspended \/ lastCfg # adev
          /\ WorkerGoes("done")
          /\ UNCHANGED <<lock, cache>>
       \/ /\ adev \in bound \ suspended
          /\ Configured(adev)
          /\ lock' = Worker
          /\ WorkerGoes("arm")
    /\ UNCHANGED <<flag, last, power, wires, async, syncing, controlling, event>>

\* A segment without data is skipped; after the last one the worker leaves the
\* loop for `done`, past the unlock at `cleanup`.
WorkerSkip ==
    /\ apc = "arm" /\ (arest # << >> => Head(arest) = "empty")
    /\ IF arest = << >>
       THEN apc' = "done" /\ leaked' = busy /\ EndsHeld /\ UNCHANGED arest
       ELSE arest' = Tail(arest) /\ UNCHANGED <<apc, leaked, selected>>
    /\ UNCHANGED <<adev, aheld, lock, busy, spare, last, cache, power, hw, async, syncing,
                   controlling, event>>

WorkerArm ==
    /\ apc = "arm" /\ arest # << >> /\ Head(arest) # "empty"
    /\ Arm(adev)
    /\ aheld' = TRUE
    /\ apc' = "start"
    /\ UNCHANGED <<adev, arest, lock, cache, power, hw, async, syncing,
                   controlling, event>>

\* transferOne, the unlock, then the wait; or transferOne refuses.
WorkerStart ==
    /\ apc = "start"
    /\ lock' = NoOne
    /\ \/ /\ hw' = Worker
          /\ Wait(Worker, "finite")
          /\ WorkerGoes("await")
          /\ UNCHANGED <<flag, selected>>
       \/ /\ Idle /\ Deselect(adev)
          /\ WorkerGoes("done")
          /\ UNCHANGED <<hw, event>>
    /\ UNCHANGED <<last, cache, power, async, syncing, controlling>>

AfterSegment == IF Len(arest) > 1 THEN "relock" ELSE "settle"

\* Without the mutex: lastStatus decides, and a failure clears busy.
WorkerWaited ==
    /\ apc = "await" /\ Ended(Worker)
    /\ Abandon(Worker) /\ Forget(Worker) /\ Unmark
    /\ \/ ~last.ok /\ WorkerGoes("clean") /\ Idle
       \/ /\ last.ok
          /\ WorkerGoes(IF Head(arest) = "hold" THEN AfterSegment ELSE "release")
          /\ UNCHANGED flag
    /\ UNCHANGED <<lock, cache, power, selected, async, syncing, controlling>>

\* Mutant: the timeout path forgets busy.
WorkerTimeoutBusy ==
    /\ apc = "await" /\ TimedOut(Worker)
    /\ Abandon(Worker)
    /\ Wait(Worker, "zero")
    /\ WorkerGoes("drain")
    /\ UNCHANGED <<lock, flag, last, cache, power, selected, async, syncing, controlling>>

WorkerTimeout ==
    /\ apc = "await" /\ TimedOut(Worker)
    /\ Idle /\ Abandon(Worker)
    /\ Wait(Worker, "zero")
    /\ WorkerGoes("drain")
    /\ UNCHANGED <<lock, last, cache, power, selected, async, syncing, controlling>>

WorkerDrained ==
    /\ apc = "drain" /\ wpc[Worker] = "out"
    /\ Forget(Worker)
    /\ WorkerGoes("clean")
    /\ UNCHANGED <<lock, flag, last, cache, power, wires, async, syncing, controlling>>

\* The segment did not ask for CS_HOLD.
WorkerRelease ==
    /\ apc = "release" /\ lock = NoOne
    /\ Deselect(adev)
    /\ aheld' = FALSE
    /\ apc' = AfterSegment
    /\ UNCHANGED <<adev, arest, lock, flag, last, cache, power, hw, async,
                   syncing, controlling, event>>

\* Before the next segment: a device suspended or detached in between ends
\* the message, and busy stays set.
WorkerRelock ==
    /\ apc = "relock" /\ lock = NoOne
    /\ \/ /\ adev \in bound \ suspended
          /\ lock' = Worker
          /\ apc' = "arm" /\ arest' = Tail(arest)
          /\ UNCHANGED <<adev, aheld, selected, leaked>>
       \/ /\ adev \notin bound \ suspended
          /\ IF aheld THEN Deselect(adev) ELSE UNCHANGED selected
          /\ leaked' = busy
          /\ WorkerGoes("done")
          /\ UNCHANGED lock
    /\ UNCHANGED <<busy, spare, last, cache, power, hw, async, syncing, controlling, event>>

\* After the last segment
WorkerSettle ==
    /\ apc = "settle" /\ lock = NoOne
    /\ Idle
    /\ EndsHeld
    /\ WorkerGoes("done")
    /\ UNCHANGED <<lock, last, cache, power, hw, async, syncing, controlling, event>>

\* Mutant: cleanup leaves the device selected.
WorkerCleanSelected ==
    /\ apc = "clean" /\ lock = NoOne
    /\ WorkerGoes("done")
    /\ UNCHANGED <<lock, flag, last, cache, power, wires, async, syncing, controlling, event>>

\* cleanup: a failed segment always has its device selected.
WorkerClean ==
    /\ apc = "clean" /\ lock = NoOne
    /\ Deselect(adev)
    /\ WorkerGoes("done")
    /\ UNCHANGED <<lock, flag, last, cache, power, hw, async, syncing, controlling, event>>

\* done: the slot is given back first ...
WorkerDone ==
    /\ apc = "done"
    /\ asyncBusy' = asyncBusy \ {adev}
    /\ WorkerGoes("call")
    /\ UNCHANGED <<lock, flag, last, cache, power, wires, queue, syncing, controlling, event>>

\* ... and then the callback that it holds by now is called.
WorkerCall ==
    /\ apc = "call"
    /\ apc' = "idle" /\ adev' = NoOne /\ arest' = << >> /\ aheld' = FALSE
    /\ UNCHANGED <<lock, flag, last, cache, power, wires, async, syncing, controlling, event>>

-----------------------------------------------------------------------------
(* The control thread *)

ControlTakes == cpc = "out" /\ lock = NoOne

\* Calls that take something away are bounded, those that give it back are not.
Bounded == controls < MaxControl /\ controls' = controls + 1

\* spi_cs_deassert, called for a device that a message left selected.
Deassert(d) ==
    /\ ControlTakes /\ d \in kept \cap bound
    /\ Deselect(d)
    /\ UNCHANGED <<lock, flag, last, cache, power, hw, async, syncing, working, controlling, event>>

\* spi_device_suspend.  A suspended controller may lose its configuration.
Suspend(d) ==
    /\ ControlTakes /\ Bounded /\ d \in bound \ suspended
    /\ suspended' = suspended \cup {d}
    /\ suspendedCount' = suspendedCount + 1
    /\ IF suspendedCount + 1 = Cardinality(list)
       THEN on' = FALSE /\ hwCfg' = NoOne
       ELSE UNCHANGED <<on, hwCfg>>
    /\ UNCHANGED <<list, bound, uncounted, lastCfg, doubtful>>
    /\ UNCHANGED <<lock, flag, last, wires, async, syncing, working, cpc, cdev, event>>

\* Mutant: the count is compared after it was lowered.
ResumeLate(d) ==
    /\ ControlTakes /\ d \in suspended
    /\ on' = (on \/ suspendedCount - 1 = Cardinality(list))
    /\ suspendedCount' = suspendedCount - 1
    /\ suspended' = suspended \ {d}
    /\ lastCfg' = NoOne /\ doubtful' = FALSE
    /\ UNCHANGED <<list, bound, uncounted, hwCfg>>
    /\ UNCHANGED <<lock, flag, last, wires, async, syncing, working, controlling, event>>

\* spi_device_resume
Resume(d) ==
    /\ ControlTakes /\ d \in suspended
    /\ on' = (on \/ suspendedCount = Cardinality(list))
    /\ suspendedCount' = suspendedCount - 1
    /\ suspended' = suspended \ {d}
    /\ lastCfg' = NoOne /\ doubtful' = FALSE
    /\ UNCHANGED <<list, bound, uncounted, hwCfg>>
    /\ UNCHANGED <<lock, flag, last, wires, async, syncing, working, controlling, event>>

\* SPI_CMD_SET_CFG: the device that was configured last is not configured again,
\* so the controller keeps its old cfg.
SetCfg(d) ==
    /\ ControlTakes /\ Bounded /\ d \in bound /\ ~busy
    /\ IF lastCfg = d
       THEN hwCfg' = NoOne /\ doubtful' = TRUE /\ UNCHANGED lastCfg
       ELSE Configured(d)
    /\ UNCHANGED <<lock, flag, last, power, wires, async, syncing, working, cpc, cdev,
                   event>>

\* spi_device_attach, with a new cfg, of a device no message names: the memset
\* also clears its slot.  A suspended controller is not resumed for it.
Attach(d) ==
    /\ ControlTakes
    /\ d \notin bound \cup asyncBusy \cup {sdev, adev}
    /\ bound' = bound \cup {d} /\ list' = list \cup {d}
    /\ hwCfg' = IF hwCfg = d THEN NoOne ELSE hwCfg
    /\ uncounted' = (uncounted \/ ~on)
    /\ UNCHANGED <<suspendedCount, suspended, on, lastCfg, doubtful>>
    /\ UNCHANGED <<lock, flag, last, wires, async, syncing, working, controlling, event>>

\* Mutant: the cache keeps naming the detached device.
DetachCached(d) ==
    /\ ControlTakes /\ Bounded /\ d \in bound
    /\ list' = list \ {d}
    /\ cpc' = "unbind" /\ cdev' = d
    /\ uncounted' = (uncounted \/ d \in suspended)
    /\ UNCHANGED <<suspendedCount, bound, suspended, on, cache>>
    /\ UNCHANGED <<lock, flag, last, wires, async, syncing, working, event>>

\* spi_device_detach, under the mutex: the count of suspended devices is left.
Detach(d) ==
    /\ ControlTakes /\ Bounded /\ d \in bound
    /\ list' = list \ {d}
    /\ IF lastCfg = d THEN lastCfg' = NoOne /\ doubtful' = FALSE
                      ELSE UNCHANGED <<lastCfg, doubtful>>
    /\ cpc' = "unbind" /\ cdev' = d
    /\ uncounted' = (uncounted \/ d \in suspended)
    /\ UNCHANGED <<suspendedCount, bound, suspended, on, hwCfg>>
    /\ UNCHANGED <<lock, flag, last, wires, async, syncing, working, event>>

\* ... and after the mutex was given back.
DetachUnbinds ==
    /\ cpc = "unbind"
    /\ bound' = bound \ {cdev} /\ suspended' = suspended \ {cdev}
    /\ cpc' = "out" /\ cdev' = NoOne
    /\ UNCHANGED <<list, suspendedCount, on, uncounted, controls>>
    /\ UNCHANGED <<lock, flag, last, cache, wires, async, syncing, working, event>>

\* SPI_CMD_ABORT: the port stops the transfer and calls hal_spi_isr from this
\* thread, which drops the call when busy is clear.
Abort ==
    /\ ControlTakes /\ Bounded /\ bound # {}
    /\ hw' = NoOne
    /\ spare' = (spare \/ (busy /\ Surplus))
    /\ \/ ~busy /\ UNCHANGED <<lock, last, cpc, cdev, event>>
       \/ /\ busy
          /\ \E ok \in BOOLEAN : last' = [ok |-> ok, of |-> IF hw = NoOne THEN last.of ELSE hw]
          /\ Event!DoneCall(Control)
          /\ IF dpc'[Control] = "out" THEN UNCHANGED <<lock, cpc, cdev>>
             ELSE lock' = Control /\ cpc' = "abort" /\ UNCHANGED cdev
    /\ UNCHANGED <<busy, leaked, cache, power, selected, async, syncing, working>>

AbortPosts ==
    /\ cpc = "abort" /\ Event!PosterStep(Control)
    /\ IF dpc'[Control] = "out" THEN lock' = NoOne /\ cpc' = "out"
                                ELSE UNCHANGED <<lock, cpc>>
    /\ UNCHANGED <<cdev, controls, flag, last, cache, power, wires, async, syncing, working>>

-----------------------------------------------------------------------------
(* hal_spi_isr, called by the port when the running transfer ends *)

Isr ==
    /\ hw # NoOne /\ on
    /\ hw' = NoOne
    /\ spare' = (spare \/ (busy /\ Surplus))
    /\ \/ ~busy /\ UNCHANGED <<last, event>>
       \/ /\ busy
          /\ \E ok \in BOOLEAN : last' = [ok |-> ok, of |-> hw]
          /\ IF status = "DONE" THEN UNCHANGED event ELSE Event!DoneFromIsr
    /\ UNCHANGED <<lock, busy, leaked, cache, power, selected, async, syncing, working, controlling>>

-----------------------------------------------------------------------------
\* completion_wait goes on inside the call that a thread made.
WaitStep(t) ==
    /\ Event!WaiterStep(t)
    /\ UNCHANGED <<lock, flag, last, cache, power, wires, async, syncing, working,
                   controlling>>

SyncStep ==
    \/ SyncLock \/ SyncArm \/ SyncStart \/ SyncWaited \/ SyncTimeout \/ SyncDrained
    \/ WaitStep(Sync)

WorkerStep ==
    \/ WorkerTake \/ WorkerLock \/ WorkerSkip \/ WorkerArm \/ WorkerStart
    \/ WorkerWaited \/ WorkerTimeout \/ WorkerDrained \/ WorkerRelease \/ WorkerRelock
    \/ WorkerSettle \/ WorkerClean \/ WorkerDone \/ WorkerCall \/ WaitStep(Worker)

ControlCall ==
    \/ \E d \in Devices : Suspend(d) \/ Resume(d) \/ SetCfg(d) \/ Attach(d) \/ Detach(d)
                        \/ Deassert(d)
    \/ Abort

Next ==
    \/ \E d \in Devices : SyncCall(d) \/ AsyncCall(d)
    \/ SyncStep \/ WorkerStep
    \/ ControlCall \/ DetachUnbinds \/ AbortPosts
    \/ Isr

Spec == Init /\ [][Next]_vars

-----------------------------------------------------------------------------
(* One device on the wires: at most one device is selected at a time, whoever
   transfers (lines 562, 772 and cleanup), not counting two kinds: a device that
   a message ending in CS_HOLD left selected for its caller, whom nothing keeps
   from leaving it so while another device transfers; and the device of an
   asynchronous message that has just failed, whose cleanup still waits for the
   mutex when the next transfer may already have begun. *)
OneSelected ==
    Cardinality(cs \ (kept \cup IF apc \in {"drain", "clean"} THEN {adev} ELSE {})) <= 1

(* A segment that a wait reports ended was ended by its own interrupt, or by an
   abort of its own transfer: never by a done left over from an earlier one.
   Excluded are a done that came when no segment waited for its transfer
   (Surplus: the late interrupt of a timed-out transfer between lines 128 and
   130 of the next one, which `busy` lets through against the comment at line
   966, or an abort after the interrupt), the worker's drain at line 811, made
   without the mutex, when it meets a synchronous wait, and the done of an abort
   that a wait takes before its signal was sent. *)
OwnInterrupt ==
    Event!Orderly /\ ~spare =>
        /\ spc = "await" /\ Ended(Sync) => last.of = Sync
        /\ apc = "await" /\ Ended(Worker) => last.of = Worker

(* busy says what it is for: with the mutex free it is set exactly while an
   asynchronous message is between its first segment and its end, so that no
   synchronous transfer comes between two segments.  A message ended early at
   lines 848 to 857 leaves it set behind. *)
BusyIsAsync ==
    lock = NoOne /\ ~leaked =>
        (busy <=> apc \in {"await", "release", "relock", "settle"})

(* On a running controller a listed device transfers under its own present
   configuration.  Three things defeat the cache: SPI_CMD_SET_CFG for the device
   configured last, a synchronous transfer that configures its device after the
   device was detached, and a suspend and resume between two segments of an
   asynchronous message, whose worker does not configure again. *)
OwnConfiguration ==
    /\ spc = "start" /\ sdev \in list /\ on => hwCfg = sdev \/ doubtful
    /\ apc = "start" /\ adev \in list /\ on /\ lastCfg # NoOne =>
           hwCfg = adev \/ doubtful

(* A listed device never starts a transfer on a suspended controller, unless
   a suspended device was detached, or one attached while all were suspended. *)
Powered ==
    (spc = "start" /\ sdev \in list) \/ (apc = "start" /\ adev \in list)
        => on \/ uncounted

=============================================================================
