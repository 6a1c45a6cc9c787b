------------------------------ MODULE LogRing ------------------------------
(***************************************************************************)
(* The message ring of lib/services/src/log: ring.c and log_async.c.       *)
(* Loggers (tasks and interrupt handlers) put messages into a ring; with   *)
(* OM_LOG_ASYNC a log thread, woken by a doorbell, takes them out; without *)
(* it, the logger of a message that a backend accepts takes all of them    *)
(* out on the spot.  A message is its number, given when it enters.        *)
(*                                                                         *)
(* log_ring_produce runs with interrupts disabled and is one step; the     *)
(* takes of ringbuf_out and the drop warning are interrupted by it.        *)
(***************************************************************************)
EXTENDS Integers

CONSTANTS Loggers, Thread,
          RingLen,      \* OM_LOG_RING_LEN
          DropWidth,    \* modulus of the counter `dropped`
          MaxLogs, MaxDrops     \* bounds: messages that enter, that are dropped

\* What the constants must satisfy.
ASSUME LogRingAssumption ==
    /\ Thread \notin Loggers
    /\ RingLen \in Nat \ {0} /\ DropWidth \in Nat \ {0}
    /\ MaxLogs \in Nat /\ MaxDrops \in Nat

VARIABLES
    async,              \* OM_LOG_ASYNC of the build
    start,              \* log_async_start: "new", "doorbell", "running", or how it failed
    token,              \* the binary semaphore *doorbell
    writePos, readPos,  \* of the ring
    dropped, warnedUpto, ever,  \* LogRing.dropped and LogDropWarnState
    recent,             \* less than the warning interval since last_warn_ms
    lpc, taken, drops,  \* of each context: place, message taken, `dropped` as read
    \* history
    emitted,            \* the last message given to the backends
    fired,              \* the newest message in the ring that a backend accepted
    losses,             \* messages dropped
    held,               \* the last drop warning was held back by its interval
    crossed             \* two contexts were draining at once

Contexts == Loggers \cup {Thread}

warning == <<warnedUpto, ever, recent, held>>
lrVars == <<async, start, token, writePos, readPos, dropped, warning, lpc, taken, drops,
            emitted, fired, losses, crossed>>

Draining(c) == lpc[c] \in {"look", "take", "emit", "warn", "report"}

LogTypeOK ==
    /\ async \in BOOLEAN /\ token \in BOOLEAN /\ ever \in BOOLEAN /\ recent \in BOOLEAN
    /\ start \in {"new", "doorbell", "running", "orphaned", "failed"}
    /\ writePos \in 0..MaxLogs /\ readPos \in 0..MaxLogs
    /\ ~crossed => writePos - readPos \in 0..RingLen
    /\ dropped \in 0..DropWidth - 1 /\ warnedUpto \in 0..DropWidth - 1
    /\ lpc \in [Contexts -> {"out", "wait", "look", "take", "emit", "warn", "report"}]
    /\ taken \in [Contexts -> 0..MaxLogs] /\ drops \in [Contexts -> 0..DropWidth - 1]
    /\ emitted \in 0..MaxLogs /\ fired \in 0..MaxLogs /\ losses \in 0..MaxDrops
    /\ held \in BOOLEAN /\ crossed \in BOOLEAN

\* The ring is static and empty.
LogInit ==
    /\ async \in BOOLEAN /\ start = "new" /\ token = FALSE
    /\ writePos = 0 /\ readPos = 0
    /\ dropped = 0 /\ warnedUpto = 0 /\ ever = FALSE /\ recent = FALSE
    /\ lpc = [c \in Contexts |-> "out"]
    /\ taken = [c \in Contexts |-> 0] /\ drops = [c \in Contexts |-> 0]
    /\ emitted = 0 /\ fired = 0 /\ losses = 0 /\ held = FALSE /\ crossed = FALSE

Moves(c, at) == lpc' = [lpc EXCEPT ![c] = at]

\* log_ring_drain is entered.
Enters(c) == Moves(c, "look") /\ crossed' = (crossed \/ \E d \in Contexts : Draining(d))

-----------------------------------------------------------------------------
\* Mutant: the doorbell rings for a ring with one message.
RingsLate == writePos = readPos + 1 /\ start \notin {"new", "failed"}

\* The ring was empty, and the doorbell is there.  It is there, too, when the
\* thread could not be created: then nobody waits for it.
Rings == writePos = readPos /\ start \notin {"new", "failed"}

\* log_ring_produce, for a message that some backend accepts, or none.
Produce(l, accepted) ==
    /\ lpc[l] = "out" /\ writePos - readPos # RingLen
    /\ writePos < MaxLogs
    /\ writePos' = writePos + 1
    /\ fired' = IF accepted THEN writePos' ELSE fired
    /\ token' = (token \/ (async /\ Rings))
    /\ IF ~async /\ accepted THEN Enters(l) ELSE UNCHANGED <<lpc, crossed>>
    /\ UNCHANGED <<async, start, readPos, dropped, warning, taken, drops, emitted, losses>>

\* The ring is full: the new message is dropped, whoever would accept it.
ProduceFull(l) ==
    /\ lpc[l] = "out" /\ writePos - readPos = RingLen
    /\ losses < MaxDrops
    /\ dropped' = (dropped + 1) % DropWidth
    /\ losses' = losses + 1
    /\ UNCHANGED <<async, start, token, writePos, readPos, warning, lpc, taken, drops, emitted,
                   fired, crossed>>

\* log_service_start of a build without the thread: log_ring_flush.
Flush(l) ==
    /\ ~async /\ lpc[l] = "out" /\ start = "new"
    /\ start' = "running" /\ Enters(l)
    /\ UNCHANGED <<async, token, writePos, readPos, dropped, warning, taken, drops, emitted,
                   fired, losses>>

\* log_async_start: the doorbell, then the thread; either may fail.
StartDoorbell ==
    /\ async /\ start = "new"
    /\ start' \in {"doorbell", "failed"}
    /\ UNCHANGED <<async, token, writePos, readPos, dropped, warning, lpc, taken, drops,
                   emitted, fired, losses, crossed>>

StartThread ==
    /\ start = "doorbell" /\ lpc[Thread] = "out"
    /\ \/ start' = "running" /\ Enters(Thread)
       \/ start' = "orphaned" /\ UNCHANGED <<lpc, crossed>>
    /\ UNCHANGED <<async, token, writePos, readPos, dropped, warning, taken, drops, emitted,
                   fired, losses>>

Wake ==
    /\ lpc[Thread] = "wait" /\ token
    /\ token' = FALSE /\ Enters(Thread)
    /\ UNCHANGED <<async, start, writePos, readPos, dropped, warning, taken, drops, emitted,
                   fired, losses>>

-----------------------------------------------------------------------------
(* log_ring_drain *)

Look(c) ==
    /\ lpc[c] = "look"
    /\ IF writePos = readPos
       THEN Moves(c, "warn") /\ UNCHANGED taken
       ELSE Moves(c, "take") /\ taken' = [taken EXCEPT ![c] = readPos + 1]
    /\ UNCHANGED <<async, start, token, writePos, readPos, dropped, warning, drops, emitted,
                   fired, losses, crossed>>

\* ringbuf_out has copied the message and publishes its position.
TakeOut(c) ==
    /\ lpc[c] = "take" /\ Moves(c, "emit")
    /\ readPos' = taken[c]
    /\ UNCHANGED <<async, start, token, writePos, dropped, warning, taken, drops, emitted,
                   fired, losses, crossed>>

\* log_emit_args
Emit(c) ==
    /\ lpc[c] = "emit" /\ Moves(c, "look")
    /\ emitted' = taken[c]
    /\ UNCHANGED <<async, start, token, writePos, readPos, dropped, warning, taken, drops,
                   fired, losses, crossed>>

\* After the last message: the thread waits, a logger returns.
Leaves(c) == Moves(c, IF c = Thread THEN "wait" ELSE "out")

\* `dropped` is read, and log_drop_warn decides.
Warn(c) ==
    /\ lpc[c] = "warn"
    /\ drops' = [drops EXCEPT ![c] = dropped]
    /\ IF dropped > warnedUpto /\ ~(ever /\ recent)
       THEN Moves(c, "report") /\ UNCHANGED held
       ELSE Leaves(c) /\ held' = (dropped > warnedUpto)
    /\ UNCHANGED <<async, start, token, writePos, readPos, dropped, warnedUpto, ever, recent,
                   taken, emitted, fired, losses, crossed>>

\* Mutant: the warning covers one message more.
ReportOneMore(c) ==
    /\ lpc[c] = "report" /\ Leaves(c)
    /\ warnedUpto' = (drops[c] + 1) % DropWidth /\ ever' = TRUE /\ recent' = TRUE /\ held' = FALSE
    /\ UNCHANGED <<async, start, token, writePos, readPos, dropped, taken, drops, emitted,
                   fired, losses, crossed>>

\* The warning goes to the backends.
Report(c) ==
    /\ lpc[c] = "report" /\ Leaves(c)
    /\ warnedUpto' = drops[c] /\ ever' = TRUE /\ recent' = TRUE /\ held' = FALSE
    /\ UNCHANGED <<async, start, token, writePos, readPos, dropped, taken, drops, emitted,
                   fired, losses, crossed>>

\* The warning interval ends.
Tick ==
    /\ recent /\ recent' = FALSE
    /\ UNCHANGED <<async, start, token, writePos, readPos, dropped, warnedUpto, ever, held, lpc,
                   taken, drops, emitted, fired, losses, crossed>>

-----------------------------------------------------------------------------
Drain(c) == Look(c) \/ TakeOut(c) \/ Emit(c) \/ Warn(c) \/ Report(c)

LogNext ==
    \/ \E l \in Loggers : \E accepted \in BOOLEAN : Produce(l, accepted)
    \/ \E l \in Loggers : ProduceFull(l) \/ Flush(l)
    \/ StartDoorbell \/ StartThread \/ Wake
    \/ \E c \in Contexts : Drain(c)
    \/ Tick

LogSpec == LogInit /\ [][LogNext]_lrVars

-----------------------------------------------------------------------------
Asleep == start = "running" /\ lpc[Thread] = "wait" /\ ~token

(* Messages are emitted once and in the order they entered, and none is left
   behind: the thread does not sleep on a message, and when no logger drains any
   more no accepted message is in the ring.  Without the thread two
   contexts may drain at once (line 68), and then a message comes out twice.
   A message that meets a full ring does not count as entered: without the thread
   a ring full of messages that no backend accepts is never drained again. *)
Delivered ==
    /\ async => ~crossed
    /\ ~crossed => \A c \in Contexts : lpc[c] = "emit" => taken[c] = emitted + 1
    /\ async /\ Asleep => writePos = readPos
    /\ ~async /\ ~(\E c \in Contexts : Draining(c)) => fired <= readPos

(* When the log thread sleeps, every dropped message has been reported, unless
   the last warning was held back by its interval (no timer catches up on it), or
   the counter has wrapped: after that the comparison of line 111 keeps silent. *)
DropsReported ==
    async /\ Asleep /\ ~held /\ losses < DropWidth => dropped = warnedUpto

=============================================================================
