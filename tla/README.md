# Verification of the oh-my-robot framework

TLA+ models of the framework's concurrent core, the TLC runs that check them on
small instances, and TLAPS proofs for every instance. `PROJECT.json` lists the
components, the runs, the source lines behind every definition, the hazards and
the theorems.

To repeat it, in this directory:

    tlc -workers 2 -config Parts.cfg MCParts
    tlapm CompletionProofs.tla

## The system

The framework is a C library for robot controllers: a core (`lib/`) over an OS
abstraction with a FreeRTOS port and a bare-metal port (`platform/`).

| Component | State | Operations | What makes it correct |
|---|---|---|---|
| `lib/sync` completion | `status`, `waitThread`, a semaphore or the waiter's task notification | wait, done (task, ISR), init | one done ends one wait; no lost and no stale wake-up |
| `lib/async` workqueue | `state`, list of pending works, flags of each work, semaphore, completion `done` | init, deinit, start, stop, enqueue, cancel, flush, wait_idle; worker loop | a work is linked once, runs or is cancelled; stop joins; flush is a barrier |
| `lib/data_struct` ringbuffer | `writePos`, `readPos`, bytes | in, out, peek | bytes in order, once, across the wrap |
| `lib/data_struct` mpsc_ringbuf | the same and a ready flag per slot | in (many producers), out, out_peek | FIFO in order of reservation, no torn or lost element |
| `lib/ipc` pipe | a ring buffer, `read_sem`, `write_sem` | write, read, peek, skip, ISR forms | nobody sleeps while there is data (room) |
| `lib/data_struct` double_buf | two pages, `idx`, `len`, `drop_cnt` | get_write_ptr, commit, get_read_ptr, consume | a page is not written while it is read; drops are counted |
| `lib/data_struct` lists, AVL tree, bitmap | nodes | insert, remove, find | sequential container laws |
| `lib/drivers` device | registry list, reference count, status bits | register, find, open, close, read, write | open and close balance; only complete devices are found |
| `lib/drivers` serial | tx and rx FIFO with `status` and `loadSize`, completions | blocking and non-blocking read, write, suspend, resume; ISR | a wait ends for its own transfer; nobody waits for ever |
| `lib/drivers` CAN | free lists, filters, FIFO, mailboxes, error counters | read, write, ISR, retransmission | every message node has one owner |
| `lib/drivers` SPI | bus lock, `busy`, completion, asynchronous worker, chip select | transfer, async transfer, suspend, attach, detach; ISR | one transfer at a time; a timeout does not poison the next |
| `lib/drivers` flash, partition | geometry, lock, table | erase, read, write, find | no access outside a partition; erase is verified |
| `lib/drivers` GPIO, PWM | pin and channel tables | configure, read, write | parameter checks |
| `lib/drivers` motors | command and telemetry caches; P1010B: one synchronous transaction | send, receive, retry | an answer ends the transaction it belongs to |
| `lib/services` log | ring, doorbell, back ends, drop counter | produce, drain, register | order kept, drops reported |
| `lib/osal`, `platform/osal` | kernel objects; bare-metal timer list and semaphores | wrappers | timers fire once per deadline |
| `lib/source/core` | init table | run levels in order | priority order |
| algorithms, systems, board code, FreeRTOS, samples | - | - | not concurrency; see "Not modelled" |

How they interact: the work queue joins its worker through a completion; SPI,
serial and P1010B wait for their interrupts through one; serial and the log use
the ring buffer; the pipe is a ring buffer and two semaphores; SPI's
asynchronous transfers run on a work queue. So the order below: the completion
first, then what is built on it.

What is hard: steps of a preempted task against an interrupt or a task of higher
priority; timeouts against late answers; life-cycle calls (start, stop, suspend,
detach) against calls in progress; unsigned counters at their wrap. Nothing is
persisted but flash contents, so there is little to recover after a crash.
`PROJECT.json`, "hazards", gives each with its line.

## Modules

| Module | Models | Composition |
|---|---|---|
| `Completion` | `completion.c`, `completion_accel_cas_tn.c` | refines `OneShotEvent` |
| `OneShotEvent` | the promise of `completion_wait` and `completion_done` | abstract |
| `Workqueue` | `workqueue.c` | `Exit == INSTANCE Completion`, its variables are `wq->done` |
| `MpscRingbuf` | `mpsc_ringbuf.c` | refines `MpscQueue` |
| `MpscQueue` | the promise of `mpsc_ringbuf.h` | abstract |
| `Ringbuffer` | `ringbuffer.c/.h`, as operators | used by `Pipe` |
| `Pipe` | `pipe.c` | extends `Ringbuffer`, refines `ByteStream` |
| `ByteStream` | the promise of `pipe.h` | abstract |
| `Spi` | `hal_spi.c` | `Event == INSTANCE Completion` is `transferDone` |
| `Lists` | `list_del` and the order of the intrusive lists, which are sequences | used by `CanRx`, `TimerNone` |
| `CanRx`, `CanTx` | the two halves of `hal_can_core.c` | |
| `SerialFifo` | what both halves of `hal_serial.c` share | `Cpt == INSTANCE Completion` is `fifo->cpt` |
| `SerialRx`, `SerialTx` | blocking reads; writes of both kinds | extend `SerialFifo` |
| `EventVars` | the variables of a completion inside a driver | extended by `SerialFifo`, `MotorSync` |
| `MotorSync` | the synchronous transaction of `P1010B.c` | `Event == INSTANCE Completion` is `sync.completion` |
| `DoubleBuf` | `double_buf.c/.h` | |
| `LogRing` | `ring.c`, `log_async.c` | |
| `TimerNone` | `osal_timer_none.c` | |
| `CompletionProofs`, `WorkqueueProofs`, `PipeProofs`, `MpscRingbufProofs` | theorems | each extends its component and `TLAPS` |
| `SpiProofs` | theorems | extends `Spi`; `EventProofs == INSTANCE CompletionProofs` |
| `SerialProofs` | theorems | extends `SerialRx`, `SerialTx`; `EventProofs` as above |
| `ListProofs` | lemmas about lists; theorems about what lives on lists | extends `CanTx`, `CanRx`, `TimerNone` |
| `PartsProofs` | theorems about the other parts of `MCParts`, and about `MCParts` | extends `MCParts`, `ListProofs`, `SerialProofs` |
| `MC*` | instances for TLC | extend the component; `MCRings` composes `Pipe` and `MpscRingbuf`, `MCParts` the other eight |

Common to all: one action is one access to memory another party may change, or
one critical section under the interrupt lock, or one kernel call. A call made by
an interrupt handler is one action, because on the single core this code runs on
no task runs before the handler returns. Atomic accesses are sequentially
consistent. Names are the source's; a variable such as `wpc` holds a thread's
place in a function, so that each step of the function is an action that moves it.

### Completion

`status`, `waitThread` and `signal` (the set of boxes holding a token: the
semaphore's, or each task's notification) are the memory; `wpc`, `tmo`, `wret`
are the locals of each waiter, `dpc`, `target`, `dret` those of each poster.
`Init` picks the back end, as the build does. A wait goes `WaitCall`, `Snap`,
`Enroll` (INIT to WAIT), `RegisterWait`, `CommitWait` (WAIT to WAITING), sleep,
`Woken` or `Expired`, `Wipe`, `Drain`; the other actions are its early returns. A
done goes `DoneCall`, `DoneSwap`, `Aim` (reads `waitThread`; notification back end
only), `Post`. The finite timeout of a sleeper may expire at any moment.

Five history variables serve the properties. `calls` bounds the traffic. `owed` counts
done calls that succeeded minus waits that did. `unsent` becomes true when a wait takes a
done whose poster, a preempted thread, has exchanged `status` and not yet sent the signal;
`crowded`, when two wait calls overlap, which the API forbids but the code answers with
OM_ERROR_BUSY. `Orderly` means neither: `OneShot`, `NoStaleSignal` and `ImplementsEvent` are
stated for it, so they include a done call preempted at any place, timeouts and lost
exchanges, and exclude only what follows a token sent after its done was taken. What that
leads to, a wait that succeeds without a done, is run `completion_stale`. `overtaken` is
wider: a waiter ran at all while a done call was half way. `ErrorsNeedDisorder` (proved) says that
callers see OM_ERROR only after overlapping waits or, for done, that. The modules that use
a completion with preemptible posters speak of `overtaken` where they must.

`OneShotEvent` is the completion without backends, handles, tokens and the four-valued
status: an event that is there or not. A wait takes it, or gives up while it is not
there and only with a timeout; a done gives it, or is refused while it is there; a reset
forgets it. `ImplementsEvent` says that `Completion`, while `Orderly`, does no more than that: `given` is `status = "DONE"`, and a
call is decided once it has won or lost its exchange of `status`, however many steps
remain until it returns. That a wait which expires together with a done call answers as
if one of the two had come first, and that the repeated looks at `status` never contradict
each other, is what the refinement has to show.

### Workqueue

`pending` is the list, `flags[w]` the state word of a work, `wake` the token of
the semaphore; `kpc`, `epc`, `cpc` are the places of workers, clients and the
controller. There is one controller: `workqueue.h` allows concurrent calls of
enqueue and cancel and gives preconditions for the life cycle. Each start makes
another worker of the set `Workers`, so an old and a new one can overlap if the
join fails. A worker is gone when its `completion_done` call is over; the tail of
its thread exit touches nothing of the queue. `flush` queues a barrier work on the
caller's stack, named after the caller.

History: `late` (a work was linked while the queue was not RUNNING), `early`
(start threw away a work or a token it had published RUNNING for), `hasty` (a
worker saw an empty list, then left it non-empty), `asserted` (line 396 reached).
`EveryWorkSettles` and others are conditional on them: they name the windows that
exist in the code, and the property says that there are no others. `ahead[f]` is what a
flush still owes its caller: the works that were pending or running when its barrier was
linked, less those that ran or were cancelled since. A work that stop drops stays
in it. `FlushedWorkIsDone` is the promise of `workqueue.h` (nothing is owed when flush
returns), which the code breaks (run `workqueue_flush`); `FlushBarrier` says that it breaks it
only when stop found works to drop, start threw one away, or one was linked while the
queue did not run.

### MpscRingbuf and MpscQueue

Every atomic access of `mpscrb_in`, `mpscrb_out`, `mpscrb_out_peek` is a step, and
copying an element is two, so a torn copy shows. Counters are modulo `RingMod`,
standing for 2^32. `MpscQueue` is what the header promises: places are reserved in
FIFO order, filled by their producers in any order, and taken from the head when
filled; a refusal needs a full queue, a miss needs an empty one or an unfilled
head. `ImplementsQueue` is the refinement, with
`filling[p]` = the place reserved by producer `p` (its locals in the code).

### Ringbuffer, Pipe and ByteStream

`Setups` says which side is a task and which an interrupt handler. Bytes carry
their stream position modulo `Stamp`, so a repeated, lost or torn byte differs
from the expected one. `write_sem` starts at 1, as in the code. A task's call may
ask for no timeout, a finite one or OSAL_WAIT_FOREVER. Capacities are
powers of two: `ringbuf_init` rounds a static buffer's size up, and `pipe_init`
relies on the caller to pass a power of two.

`ByteStream` is the pipe without slots, counters, semaphores or lengths asked for: at
most `Cap` bytes under way. `Put` adds bytes at the end, `Lend` copies the oldest for a
read or a peek, `Take` removes what a read was lent or a skip asked for, `GiveBack` ends
a peek. `ImplementsStream` says that `Pipe` does no more than that: `stream` is what lies
between the counters, `lent` is what the reader has copied and not yet published. That a
write which copies byte by byte, in two pieces and across the wrap, appears in one step,
and that the writer never touches what the reader is copying, is what the refinement
has to show.

### Spi

Three threads and the interrupt. `Sync` is a caller of `spi_transfer`, which holds
the bus lock from its start to its end; `Worker` is the thread of `asyncWq`, which
takes the lock for each segment and waits without it; `Control` suspends, resumes,
attaches, detaches, reconfigures and aborts. A section under the lock is one
action, since only lock holders touch what it touches; `busy`, `lastStatus` and the
completion, which the interrupt touches, have actions of their own. `hw` says whose
transfer the controller is at, or `Stale` when nobody waits for it any more, so
that an interrupt after a timeout or an abort is a possible step. `lastCfg`, `hwCfg`
and `cs` are the configuration cache, what the controller was really given and the
selected devices: `OwnConfiguration` and `OneSelected` compare them.

A message is a sequence of segments: `hold` keeps the chip selected, `free` lets it
go, `empty` has no data. A message may end in `hold` (CS_HOLD): its device is then in
`kept`, until its caller calls `spi_cs_deassert` (`Deassert`) or uses it again. Histories name
the windows that the code has: `spare` (a done that was let through while no segment waited
for its transfer: a late interrupt between lines 128 and 130, or an abort after the
interrupt of its segment; one that comes while `busy` is clear is dropped),
`doubtful` (the cache names a device that was reconfigured or detached),
`uncounted` (`suspendedCount` is off), `leaked` (`busy` left set at 848-857).

### CanRx and CanTx

Reception: the free and the used list, the list and the count of each filter, the
banks of the controller (external); readers that test, take and copy a message in
the steps the code has, the receive interrupt, and a thread that allocates and
frees filters. A filter's callback is set when it is active. Transmission: two
lists, mailboxes, writers in a thread or an interrupt handler, the scheduler, the
end-of-transmission interrupt and software retransmission. `Places(n)` collects
everything that owns a node; `OnePlace` (`OneOwner` in `CanRx`) says that there is one.

Three places lead where a model cannot follow. `can_add_free_msg_list` without the
lock (800, 919) can tear a list, and a corrupted list makes a loop spin. And a message that a
cleared filter left stranded (1205) keeps its owner and its links: when the interrupt
overwrites it, `list_del` (568-575) writes through them into the list that this filter slot has
by then, or around other stranded messages (`Entangled`, `RxUnlinksStranded`). There
`derailed` and `adrift` become true, the properties fall silent and exploration
stops. A node that was stranded alone, under a slot whose list is empty, is overwritten
as any other. In `CanTx` a mailbox has one end interrupt to come: when the scheduler is
given a mailbox whose interrupt is pending (846), the old frame's node is lost, and that
its pending interrupt then acts on the next frame is not modelled. The histories `lost`, `stranded`, `miscounted`, `orphans` and `idle` name the
nodes that the code gives up in the windows described beside them.

### SerialFifo, SerialRx, SerialTx

Of the ring only the number of bytes matters here (and where they start, for the
transmitter, which sends contiguous bytes); `Pipe` checks contents. `SerialFifo` has
the wait that a suspension can end, in the steps of
`serial_wait_completion_abortable`, and the second thread that suspends and
resumes: it marks the port, stops the hardware, marks each FIFO aborted, posts its
completion, each a step. `SerialRx` follows `serial_rx_block` access by access: the
length is read at 617, 258 and twice at 286. `SerialTx` has `serial_tx_block` and
`serial_tx_nonblock`; a port is opened for one of the two (`blocking`). The hardware
(`hw`, `hwFrom`) takes one transmission at a time and ends it by an interrupt,
unless a suspension stops it.

`stale` is true when the done that ends a wait may have been meant for something
else; `surplus` and `unseen` measure what arrived between two looks at the length;
`strayed`, `cut` and `missed` are the ways in which bytes and hardware can part: the
FIFO was declared idle under a running transmission, a suspension stopped it, or
the last byte left between the test of BUSY_TX and the queueing.

### MotorSync

Two threads send commands to one motor driver with retries; a reply may come for
any command sent. `mixed` becomes true when two callers meet at the completion in
one of the ways described at `OwnAnswer`, the consequence of draining it before
looking whether a transaction is pending (298).

### DoubleBuf

Every access to `idx`, `len` and `drop_cnt` by producer and consumer is a step. A
page holds the number of its frame. The code keeps writer and reader apart only if
the consumer is done before the next commit; `laps` counts the reads during which
it was not, and the properties say what is still true then.

### LogRing

Loggers, the log thread and the drop warning, in the build with the thread and in
the one where each logger drains the ring. Which messages a back end accepts is a
choice. `start` includes the two ways in which `log_async_start` can fail.

### TimerNone

The list of timers, refresh and callbacks, which may call start, stop and delete on
any timer, under a clock that wraps. The clock does not run away: a refresh is at
most `MaxLag` late, as a main loop is assumed to be.

### MCRings and MCParts

`MCRings` puts the pipe and the lock-free ring side by side: `moving` is chosen
initially, only that one takes steps, and has the fairness of its own specification.

Eight parts that do not touch each other are checked side by side: `part` is chosen
initially, only that part moves, the others keep their initial values. Parts that have a
completion use the same variables for it (`EventVars`), and so do the two halves of the
serial driver for the FIFO. It is one run
because its questions are alike: which promise does each keep outside its known
windows. Every property of a part is vacuous while another moves, which costs
nothing: states of different parts are different states. Swapping the two threads
(timers, readers) is a symmetry, as the parts at rest look the same to both.

## Runs

| Run | Instance | Shows |
|---|---|---|
| `completion` | 2 waiters, 1 poster and an ISR, both back ends, 2 done calls | type invariant, `OneShot`, `NoLostWake`, `NoStaleSignal`, `ImplementsEvent`, `SleeperReturnsOK` |
| `completion_lost` | 1 waiter, 1 poster, 1 done | violation of `DoneWakesWaiter` |
| `completion_stale` | the same | violation of `WaitsAreEarned` |
| `workqueue` | 1 controller, 1 client and 1 flusher, 1 work, 2 workers, 2 starts | `FlagsAgree`, `NobodySleepsOnWork`, `StopJoins`, `LeftoversAreLate`, `FlushBarrier` |
| `workqueue_live` | 1 client, 1 work, 2 workers, 2 starts | `EveryWorkSettles`, `StopReturns` |
| `workqueue_flush` | as `workqueue`, 1 worker, 1 start | violation of `FlushedWorkIsDone` |
| `rings` | ring: 2 producers, 2 slots, 3 elements; pipe: 2 bytes, counters modulo 4, requests of 1 and 3, three setups | `ImplementsQueue`, `AllDelivered`; `ImplementsStream`, `DoorbellWithIsr`, `SleeperReturns` |
| `mpsc_wrap` | 1 producer, 2 slots, counters modulo 4 | violation of `MissIsJustified` |
| `pipe_doorbell` | the pipe, requests of 1, two tasks | violation of `Doorbell` |
| `spi` | 2 devices, messages of a held, an empty, a freed and a last held segment, and their ends, 3 dones and 2 control calls, but not all five | `OneSelected`, `OwnInterrupt`, `BusyIsAsync`, `OwnConfiguration`, `Powered` |
| `parts` | motor: 2 callers, 2 commands, 1 retry, 2 replies; CAN: 2 nodes, 2 filters, 2 readers, and 3 nodes, 2 mailboxes, 2 writers; serial: rings of 2 bytes, reads of 1 and 3, writes of 3, 2 completions; double buffer: 5 frames; log: 2 loggers, 2 slots, 4 messages, 4 drops; timers: 2, periods 1 and 2, clock modulo 7 | `OwnAnswer`; `RxNodesPlaced`, `SeenIsThere`; `TxNodesPlaced`, `NotForgotten`; `ReadsEnd`; `WritesGoOut`; `FramesAccounted`, `InOrder`; `Delivered`, `DropsReported`; `QuietTimers` |
| `timer_order` | the same instance | violation of `RefreshFiresDue` |

Why the bounds are enough. Completion: a token can be stale only for the next
wait, so two done calls are the shortest harmful history; two waiters make overlap
possible. Workqueue: two starts let a second worker meet what the first left; one
ordinary work, one barrier and an ISR meet on the list. Rings (630,000 states): two producers
fill out of order, three elements in two slots reuse one slot. In the pipe there is no bound on traffic,
the state space is finite because positions are modular; a request of
3 exceeds the buffer and forces partial transfers. Spi (1.6 million states): a
message that holds its chip over a segment and another that ends holding it, with one
call that fails and one transfer that follows, is what a leftover needs; the longest harmful history has one control
call to make the state and one to use it; three dones are what a message needs to end
successfully in CS_HOLD, and with them one control call is left (`FewEvents`). Parts (1.2 million states): two of each
actor meet (one thread in each direction of the serial port, as the driver demands);
two CAN nodes serve two filters, so one can starve the other; three transmit nodes
fill two mailboxes and leave one waiting; a write of 3 into a ring of two bytes whose
read position is odd wraps around and also does not fit; the two timers have
different periods, shorter than half the clock's range, which wraps.

Exploration stops (`BeforeDisorder`) in run `parts` at states in which the code spins or
writes through an old link, two motor callers share a done, or a done call was overtaken;
in run `spi` at states in which `transferDone` has lost its relation with the
transfers (`spare`, or not `Orderly`). `derailed`, `adrift`, `mixed`, `overtaken` and `spare` never
become false again. Most properties exclude those states; for the others
(`SeenIsThere`, `OneSelected`, `BusyIsAsync`, ...) the theorems have no such bound.

Deadlock is not checked where calls are bounded (`MaxDone`, `MaxStarts`, `MaxIn`:
everybody may be done), in `rings`, where two tasks at a pipe can really sleep on
each other, as `pipe_doorbell` exhibits, and in `parts`, where a part may be over.
`spi` checks deadlock: somebody can always make a step.

Fairness. A call in progress goes on: the scheduler runs every ready thread,
critical sections and interrupt handlers end, works return, ticks expire finite
timeouts. Nobody is assumed to make a call, with one exception: the consumer of
the mpsc ring is a loop that keeps calling `mpscrb_out` (strong fairness, since a
`peek` in between disables the call). `AllDelivered` (the consumer has taken all there is,
again and again) is eventual delivery, because at most `MaxIn` elements come.

## Findings

Six places where the code does not do what its documentation or its assertion
says; each has a run that exhibits it.

1. `completion.c:190`: the second exchange of done loses against the move of the
   waiter from WAIT to WAITING; done answers OM_ERROR and the waiter sleeps.
2. `completion.c:195`: a done call preempted before its post lets the waiter time out
   and take the DONE without the token; the token then ends the next wait, which
   returns OM_OK although nothing happened. `completion_design.md:130` calls the timeout
   path safe.
3. `workqueue.c:396`: the assertion that the worker drained the list is false
   when an enqueue passed its unlocked state test before the stop. Built without
   assertions, stop drops the works, and a flush whose barrier is among them returns
   OM_OK with a work ahead of it never run, against `workqueue.h:288`.
4. `mpsc_ringbuf.c:177`: the emptiness test `pos >= writePos` is wrong between
   the wrap of the two counters.
5. `pipe.c:113` (and 168): the doorbell decision is taken before the data is
   published.
6. `osal_timer_none.c:48`: the list is kept in descending order of deadlines,
   against the comment at 36, and the refresh looks at its head only: a due timer
   is not called back until the one with the latest deadline is due.

Seen while modelling, without a run: `pipe_design.md` (4.3) says a woken writer
always finds room; the spare initial token of `write_sem` lets the first blocked
write return OM_ERROR_WOULD_BLOCK even with OSAL_WAIT_FOREVER. And:

- SPI. `SPI_CMD_SET_CFG` for the device configured last takes no effect. A
  synchronous transfer does not look again, under the lock, whether its device was
  detached. A message abandoned between two segments leaves `busy` set. The callback
  slot can be overwritten between 890 and 893. A message whose last segment is empty
  leaves the mutex locked; the run has none, the proofs allow for it. The interrupt
  of a timed-out transfer that comes between 128 and 130 of the next segment finds
  `busy` set again, so that it ends that segment: the comment at 966 and
  `spi_design.md:378` say that `busy` keeps late interrupts out. The model has this step
  (`spare`), and `OwnInterrupt` excludes what follows. On the asynchronous path the cleanup
  of a failed message (871) takes the mutex again: until then its device stays
  selected, also while a synchronous transfer selects another.
- CAN. The scheduler may be given a mailbox whose end interrupt is pending (846),
  and the node of that frame is lost. A failed read (1332) loses a node. A frame
  between 1160 and 1161 is not counted; one between 1180 and 1200 stays in the used
  list, and overwriting it later damages the list of the filter that has its slot then. A frame that an interrupt handler writes waits for the next call (931).
- Serial. A read may return more than was asked (617 against 258, and 286), or
  report a timeout that did not happen (290), since every byte received with
  `loadSize` not positive leaves a done (686). A non-blocking transmission that was
  suspended leaves BUSY and BUSY_TX behind: nothing is sent after the resume. A
  blocking one leaves its bytes in the ring; if they fill it, later writes put in
  nothing and return 0. An error interrupt between the settings of `loadSize` and
  `status` leaves BUSY with nothing under way: the next blocking write spins.
- Motor. A caller drains the completion (298) before it looks whether another's
  transaction is pending; that caller then times out.
- Double buffer. With a lap the consumer clears a newer frame that is counted
  nowhere; `double_buf.h:25` says that dropped frames are counted.
- Log. A ring full of messages that no back end accepts stays full in the build
  without the thread (49); two drains at once repeat messages (68).
- Timers. A periodic timer whose callback starts and then stops it is armed again
  (203); a period of half the clock's range is not refused.

## Proofs

All proofs are for arbitrary sets of threads, works, nodes, devices and data and
arbitrary bounds; they assume only the named ASSUME of each module (those of the serial
modules are hypotheses of their theorems, and `MCParts` assumes them). Each
component has an inductive invariant, which TLC checked before the proof, one lemma
for each of its parts and in it one step for each action. Where a part of the
behaviour is excluded (a race, two callers that meet) it is by a history variable in
the property itself, never by an assumption of the proof.

`CompletionProofs`: `IInv` is inductive and implies type correctness and four properties.
None of them is inductive alone: they speak of tokens and results, and whether a
step keeps them depends on where the waiter is. `Agree` ties `status` to the place
of the one waiter inside; `Handle` says that a registered waiter is the one
`waitThread` names; `Owing`, that at most one done call owes a signal, to a waiter that has
not taken the done; `Tokens`, that a token lies in the box of a waiter that will take it.
These need `Orderly`, not the absence of preemption: a poster may stop between its exchange
and its post for as long as it likes while waiters run; only what follows a wait that takes
that done before the post is left out, since there a token does outlive its done. `InFlight`
serves `ErrorsNeedDisorder` alone and speaks of done calls that nobody overtook.
`EventImplemented` is the refinement, `Spec => ImplementsEvent`: `WaiterMaps` and
`PosterMaps` say that a step of one thread changes the place of that thread alone,
`EventStep` has one step for each action. Besides `IInv` it needs `InCall`: a call under
way has no result yet, and only a finite timeout expires.

`WorkqueueProofs`, first half: `FlagsAgree` from `QInv`. Besides types it needs `Held`
(a worker holds a work exactly between claiming and finishing it), a life-cycle
conjunct, and `Quiet` (the list of a queue that does not run is empty unless a
work was linked late or a start failed); three lemmas say what appending, taking
the head and unlinking do to a duplicate-free list. Second half: the remaining safety
properties of run `workqueue`, from `JInv`, which adds the completion of the join to
`QInv`. `Exit!TypeOK` and `ExitAimed` are the completion's own; `Stopping`, `Waits`,
`OneWorker` and `OneDone` relate the places of controller, worker and completion: at
most one worker is alive, its done is the only one, and it is posted when the worker is
past its last look at the list. `Heard` and `StopHeard` say that a stop request reaches
the worker as a token or as the state it tests; `Emptied`, that only late works are
left. `Behind` carries `FlushBarrier`: what was linked before a barrier stands before it
in the list or is in the worker's hands, until stop finds works to drop (`asserted`), of
which nothing is claimed; a few lemmas say how list operations keep
that order. `ExitInOrderHolds`: the queue is a user as `Completion` expects, every step of
the queue is a step of `Exit!Next` or leaves `wq->done` alone; for init, deinit and start
this means that nobody is inside. It excepts a done call that was overtaken, and must:
stop can return, and `workqueue_deinit` reset the completion, while the worker is still
about to post (TLC finds this when the exception is dropped).

`PipeProofs`: `ImplementsStream`, `DoorbellWithIsr` and types, from `PInv`, for any capacity that
divides the counters' modulus and any lengths. `Window` says that the byte at
each position between the counters carries the stamp of its place in the stream;
`Stream`, that their distance is the number of bytes under way; `Staged` and `Chunk`, what
a copy in progress has moved. `ReaderWoken` and `WriterWoken` carry the doorbell. For the
refinement, `WindowIsStream` turns the window of slots into the sequence of numbered
bytes under way; `StreamStays`, `StreamGrows` and `StreamShrinks` say that a copy into free
slots, the publication of a write and that of a read leave it alone, append to it and
take its head; `StreamStep` has one step for each action. `Intact` (each byte where it
belongs and with its number) is the same fact at the level of the slots. The theorems are about `Spec`; the run checks the same properties under `FairSpec`.

`MpscRingbufProofs`: the refinement `Spec => MpscQueue's specification`, for any
number of producers and any capacity, as long as the counters do not wrap
(`NoWrap`; finding 3 shows the hypothesis is needed). `LInv` describes every slot:
between `readPos` and `writePos` it is ready and whole, or being filled by exactly
one producer, or being released; beyond, its flag is clear. With it a step maps to
the step of the queue of the same name, or to a stutter. `MissIsJustifiedBelowWrap`: the
property that run `mpsc_wrap` refutes holds until the wrap, which is thus its only cause.

`SpiProofs`: the five safety properties and types. `Owners` says who holds the mutex at
which place, `Apart` that the two transfers exclude each other, `BusyHeld` that `busy`
keeps the synchronous one out while the worker waits without the mutex. `Selected`,
`Cached` and `Counted` give for each place what may be selected, what the
configuration cache means and what the count of suspended devices is; `OneRequest`
and `Kinds` what is queued and what is left of a message. A device that a message
ending in CS_HOLD left selected is `kept`, and `Selected` says that every other selected device
is that of the message under way or of one that waits for its cleanup.
The completion inside the bus keeps the invariant proved in `CompletionProofs`, which
is taken over by INSTANCE (`EventKept`); `WaiterEffect` is what its step looks like from
outside. `OwnInterrupt` follows from `Inside` (who is in a wait where), `Running` (a
transfer that is waited for has its interrupt to come, or had it) and `Fresh` (a done is
that of the segment under way, or about to be drained), all of them until `spare`.

`SerialProofs`: `ReadsEnd`, `WritesGoOut` and the types of both directions, for any
capacity, lengths and back ends. The completion keeps its own invariant by INSTANCE,
as in `SpiProofs`; `WaiterEffect`, `PosterEffect` and `RingEffect` are what its steps look like
to the one caller, and `Inside` says that only the call in progress waits, so that the
completion is never crowded.

- Reads, from `ReadInv`. `Promised` is why a reader does not sleep: as long as it waits,
  `loadSize` has not run out, or the done is given or about to be given, by the
  interrupt or by the suspending thread. `OwnDone` is why it does not give up: outside
  the stale dones, a wait ends because bytes came or an error is noted. `Amounts` bounds
  what is returned, although the length is read several times (`surplus` is what
  comes between two reads and exceeds the wish) and `remain` wraps.
- Writes, from `WriteInv`. `SentEnds` says that FIFO and hardware agree: the hardware
  sends from the front of the ring, and is idle while a call prepares the next
  transmission. `AwaitsSent` says that the end of a transmission is still to come for a
  write that waits, and that a done means that all is out; `Moving`, that on a
  non-blocking port bytes are being sent, or about to be by the call that put them
  there. `Ways` and `Portions` give for each place the kind and the lengths of the call.

`ListProofs` begins with lemmas about lists without repetitions: what appending, taking
the head, inserting and `list_del` do to the set of items, to their uniqueness and to
their order. Then:

- CAN transmission: `TxNodesPlaced` and `NotForgotten` from `TxInv`. `Placed` and `Agree`
  are stated over any values of lists and mailboxes, because a run of the
  scheduler, one step that gives any number of mailboxes a node each, is described by
  the values before and after (`Given`, `DispatchGives`); `GivenKeeps` says that such a
  run keeps both. `TxInv` holds even after a list was torn (`adrift`).
- CAN reception, in both modes: `RxNodesPlaced` and `SeenIsThere` from `RxInv`: `FilterSteps` and
  `ReaderSteps` say what the allocating thread and each reader hold at which place,
  `InOnePlace` where a node is, `Accounted` how the lists and counts of the filters agree
  with the used list, and that a stranded node belongs to a filter that lost count.
  Lemmas named after what happens to a node (`NodeArrives`, `NodeLeaves`, ...)
  replace a case split over the lists in each action. `SeenIsThere` is inductive with
  `Apiece` (two readers at a filter is what `shared` records).
- Timers: `QuietTimers` from `TimerInv`. `ClockSum` gives sum and distance of two times on
  a clock that wraps; `Prompt` bounds the lag of a refresh, `Listed` and `Fired` tie the list
  to what was started. `Later` makes the loop of a refresh end: a timer that was called
  back and armed again is due after the time the refresh works with, which needs
  the period and the lag together below half the range of the clock.

`PartsProofs`:

- Double buffer: `FramesAccounted`, `InOrder` and types, from `DbInv`. `Contents` says which
  frame each page may hold, given the place of the producer; `GivenFrame`, that what the
  consumer is handed is newer than what it read last, or the same after a lap;
  `Balanced`, that the error of the drop counter is bounded by the laps, with its sign.
- Log ring: `Delivered` and `DropsReported` from `LogInv`. `Drainers` and `OneDrainer` say who
  takes messages; `Positions` and `Ordered`, that what is between the counters is what was
  accepted and not yet emitted; `TokenTells` and `Attended`, that a message has a token
  or a drainer on the way, with the thread and without; `Counts` and `Warned` carry the
  account of drops between the counter and the last warning.
- Motor: `OwnAnswer` from `MotorInv`. The invariant of `CompletionProofs` is of no use here: a
  second caller that looks for old dones overlaps with the wait of the first, which is
  what `crowded` excludes there. `WaitsInside` says that such a look never gets as far as
  registering; `OneAttempt` and `Booked`, that one attempt is under way and the registration
  is its own; `StatusPlaced` and `TokensPlaced` place status and tokens although the
  second caller may have wiped `waitThread`; `EarnedDone` says that a done belongs to the
  attempt under way or will be taken, and that a wait that failed is drained to the end.

- The parts side by side: `PartsBehave` says that what run `parts` explores is, for each
  part, a behaviour of that part's own specification (those with variables of their own
  always, motor and serial when it is their turn with the completion), so that the
  theorems about the parts hold of the run's system. `PartsTypeCorrect` is one use of it.

Model-checked only: liveness (fairness and ENABLED are outside the prover); what
happens at the wrap of the mpsc counters. Every safety property of a passing run
is stated by a theorem, and so are the three refinements. The violation runs' properties
are false and have none. Not provable with the
installed provers: induction over data and anything reached from a RECURSIVE
operator; no module here declares one.

## Not modelled

Weak memory ordering: the targets are single-core, where preemption is the only
concurrency. Heap allocation and its failure. The collapsed work queue of the
bare-metal port. `pipe_deinit` and `workqueue_deinit` against calls in progress on
deleted semaphores. Numerical code (PID is floating point, CRC is a pure table
computation), board code, the FreeRTOS kernel, samples and build files.

Of modelled components: registration and removal of an SPI bus, a failing enqueue, states after
a surplus done, the notification back end of `transferDone`. CAN error counters, bus
off, FD tables, reconfiguration while open. Serial polling, non-blocking reads,
writes from interrupt handlers, open, flush, what an overflow callback may read.
Double buffer flush and queries. Log formatting, tables of back ends and modules,
panic output. Timer identifiers and queries. P1010B frames, its state machine (a fault
that an interrupt locks while CONFIGURING is saved and restored is lost,
1554-1561 against 539) and periodic telemetry. `PROJECT.json`, "components", has the
list.

Of the 78,830 lines of C about 35,000 are FreeRTOS and its ports, and most of the
rest are board support and vendor headers: third-party code that this project does not
model.

## Plan

1. Proofs: the windows and findings as action properties (which step alone can make
   `late`, `surplus` or `missed` true), from the inductive invariants.
2. `Device`: reference count, open and close against a driver's interrupt; serial
   open, close and flush on top of it.
3. Bounded algorithm checks: partition ranges, flash erase-verify, init order.
4. SPI bus removal while its queue has work; the CAN error states.
