-------------------------------- MODULE Pipe --------------------------------
(***************************************************************************)
(* lib/ipc/src/pipe.c on top of lib/data_struct/src/ringbuffer.c: a byte   *)
(* pipe of one writer and one reader, each a task or an interrupt, and the *)
(* two binary semaphores with which they wake each other.                  *)
(*                                                                         *)
(* A task's call goes step by step, one step for each access to a counter  *)
(* of the other side or to a semaphore.  An interrupt's call is one step:  *)
(* on the single core the pipe runs on, no task runs before it returns.    *)
(*                                                                         *)
(* The bytes carry their number in the stream, modulo Stamp: a lost, a     *)
(* repeated or a torn byte is one with the wrong number.                   *)
(***************************************************************************)
EXTENDS Ringbuffer

CONSTANTS
    Setups,   \* who writes and who reads: pairs of "task" and "isr"
    Lengths,  \* the lengths that callers ask for
    Stamp

ASSUME PipeAssumption ==
    /\ Setups \subseteq {"task", "isr"} \X {"task", "isr"}
    /\ Lengths \subseteq Nat \ {0}
    /\ Stamp \in Nat
    /\ Stamp > Cap

Timeouts == {"none", "some", "forever"}
Kinds == {"read", "peek", "skip"}

VARIABLES
    setup,              \* this pipe's writer and reader; never changes
    writePos, readPos,
    buf,
    readSem, writeSem,  \* the counts of read_sem and write_sem, at most 1
    writer, reader,     \* the calls in progress and their locals
    sent, got           \* how many bytes entered and left, modulo Stamp

vars == <<setup, writePos, readPos, buf, readSem, writeSem, writer, reader, sent, got>>
writerSide == <<writePos, sent, writer, readSem>>
readerSide == <<readPos, got, reader, writeSem>>

NoWrite == [pc |-> "idle", len |-> 0, timeout |-> "none",
            was_empty |-> FALSE, n |-> 0]
NoRead == [pc |-> "idle", kind |-> "read", len |-> 0, timeout |-> "none",
           was_full |-> FALSE, n |-> 0, chunk |-> <<>>]

TypeOK ==
    /\ setup \in Setups
    /\ writePos \in Count
    /\ readPos \in Count
    /\ buf \in [Slots -> 0 .. Stamp - 1]
    /\ readSem \in {0, 1}
    /\ writeSem \in {0, 1}
    /\ writer \in [pc : {"idle", "empty", "room", "copy", "publish", "ring", "wait"},
                   len : Lengths \union {0}, timeout : Timeouts,
                   was_empty : BOOLEAN, n : 0 .. Cap]
    /\ [reader EXCEPT !.chunk = <<>>]
         \in [pc : {"idle", "check", "full", "used", "copy", "publish", "ring", "wait"},
              kind : Kinds, len : Lengths \union {0}, timeout : Timeouts,
              was_full : BOOLEAN, n : 0 .. Cap, chunk : {<<>>}]
    /\ reader.chunk \in Seq(0 .. Stamp - 1)
    /\ sent \in 0 .. Stamp - 1
    /\ got \in 0 .. Stamp - 1

\* pipe_init: read_sem starts at 0 and write_sem at 1.  What the buffer holds
\* before the first byte is never read.
Init ==
    /\ setup \in Setups
    /\ writePos = 0
    /\ readPos = 0
    /\ buf = [s \in Slots |-> 0]
    /\ readSem = 0
    /\ writeSem = 1
    /\ writer = NoWrite
    /\ reader = NoRead
    /\ sent = 0
    /\ got = 0

\* The next n bytes of the stream.
Bytes(n) == [i \in 1 .. n |-> (sent + i - 1) % Stamp]
Empty == IsEmpty(writePos, readPos)
Full == IsFull(writePos, readPos)

\* Mutant: the semaphore counts without a limit.
PostCounting(sem) == sem + 1

\* A post on a semaphore that is at its limit is refused, and ignored.
Post(sem) == 1

-----------------------------------------------------------------------------
(* pipe_write, lines 105-140.                                              *)

Write(len, timeout) ==
    /\ setup[1] = "task"
    /\ writer.pc = "idle"
    /\ writer' = [NoWrite EXCEPT !.pc = "empty", !.len = len, !.timeout = timeout]
    /\ UNCHANGED <<setup, writePos, sent, readSem, buf, readerSide>>

LookEmpty ==
    /\ writer.pc = "empty"
    /\ writer' = [writer EXCEPT !.pc = "room", !.was_empty = Empty]
    /\ UNCHANGED <<setup, writePos, sent, readSem, buf, readerSide>>

LookRoom ==
    /\ writer.pc = "room"
    /\ writer' = [writer EXCEPT !.pc = "copy",
                                !.n = AtMost(writer.len, Avail(writePos, readPos))]
    /\ UNCHANGED <<setup, writePos, sent, readSem, buf, readerSide>>

CopyBytesIn ==
    /\ writer.pc = "copy"
    /\ buf' = CopyIn(buf, writePos, Bytes(writer.n))
    /\ writer' = [writer EXCEPT !.pc = "publish"]
    /\ UNCHANGED <<setup, writePos, sent, readSem, readerSide>>

\* After ringbuf_in: ring, return what was written, wait or give up.
AfterIn(w) ==
    CASE w.n > 0 /\ w.was_empty -> [NoWrite EXCEPT !.pc = "ring"]
      [] w.n = 0 /\ w.timeout # "none" -> [w EXCEPT !.pc = "wait", !.was_empty = FALSE]
      [] OTHER -> NoWrite

PublishIn ==
    /\ writer.pc = "publish"
    /\ writePos' = Advance(writePos, writer.n)
    /\ sent' = (sent + writer.n) % Stamp
    /\ writer' = AfterIn(writer)
    /\ UNCHANGED <<setup, readSem, buf, readerSide>>

RingReader ==
    /\ writer.pc = "ring"
    /\ readSem' = Post(readSem)
    /\ writer' = NoWrite
    /\ UNCHANGED <<setup, writePos, sent, buf, readerSide>>

\* The second attempt does not wait again.
AwaitRoom ==
    /\ writer.pc = "wait"
    /\ writeSem = 1
    /\ writeSem' = 0
    /\ writer' = [writer EXCEPT !.pc = "empty", !.timeout = "none"]
    /\ UNCHANGED <<setup, writePos, sent, readSem, buf, readPos, got, reader>>

WriteTimeout ==
    /\ writer.pc = "wait"
    /\ writeSem = 0
    /\ writer.timeout = "some"
    /\ writer' = NoWrite
    /\ UNCHANGED <<setup, writePos, sent, readSem, buf, readerSide>>

\* Mutant: it looks whether the pipe is empty after it has written.
WriteFromIsrLate(len) ==
    LET n == AtMost(len, Avail(writePos, readPos))
    IN /\ setup[1] = "isr"
       /\ n > 0
       /\ buf' = CopyIn(buf, writePos, Bytes(n))
       /\ writePos' = Advance(writePos, n)
       /\ sent' = (sent + n) % Stamp
       /\ readSem' = IF IsEmpty(writePos', readPos) THEN Post(readSem) ELSE readSem
       /\ UNCHANGED <<setup, writer, readerSide>>

\* pipe_write_from_isr, lines 142-158.
WriteFromIsr(len) ==
    LET n == AtMost(len, Avail(writePos, readPos))
    IN /\ setup[1] = "isr"
       /\ n > 0
       /\ buf' = CopyIn(buf, writePos, Bytes(n))
       /\ writePos' = Advance(writePos, n)
       /\ sent' = (sent + n) % Stamp
       /\ readSem' = IF Empty THEN Post(readSem) ELSE readSem
       /\ UNCHANGED <<setup, writer, readerSide>>

WriterStep == \/ LookEmpty
              \/ LookRoom
              \/ CopyBytesIn
              \/ PublishIn
              \/ RingReader
              \/ AwaitRoom

-----------------------------------------------------------------------------
(* pipe_read, lines 160-195, pipe_peek, lines 197-222, and pipe_skip,      *)
(* lines 224-244.                                                          *)

Read(kind, len, timeout) ==
    /\ setup[2] = "task"
    /\ reader.pc = "idle"
    /\ kind = "skip" => timeout = "none"
    /\ reader' = [NoRead EXCEPT
                    !.pc = CASE kind = "read" -> "full" [] kind = "peek" -> "used"
                             [] kind = "skip" -> "check",
                    !.kind = kind, !.len = len, !.timeout = timeout]
    /\ UNCHANGED <<setup, readPos, got, writeSem, buf, writerSide>>

\* Only pipe_skip looks whether there is anything at all.
CheckEmpty ==
    /\ reader.pc = "check"
    /\ reader' = IF Empty THEN NoRead ELSE [reader EXCEPT !.pc = "full"]
    /\ UNCHANGED <<setup, readPos, got, writeSem, buf, writerSide>>

LookFull ==
    /\ reader.pc = "full"
    /\ reader' = [reader EXCEPT !.pc = "used", !.was_full = Full]
    /\ UNCHANGED <<setup, readPos, got, writeSem, buf, writerSide>>

LookUsed ==
    /\ reader.pc = "used"
    /\ reader' = [reader EXCEPT !.pc = IF reader.kind = "skip" THEN "publish" ELSE "copy",
                                !.n = AtMost(reader.len, Used(writePos, readPos))]
    /\ UNCHANGED <<setup, readPos, got, writeSem, buf, writerSide>>

\* After ringbuf_out or ringbuf_out_peek.
AfterOut(r) ==
    CASE r.n > 0 /\ r.was_full -> [NoRead EXCEPT !.pc = "ring"]
      [] r.n = 0 /\ r.timeout # "none" -> [r EXCEPT !.pc = "wait", !.was_full = FALSE]
      [] OTHER -> NoRead

\* What a reader that waited does: it starts over and does not wait again.
Retry(r) == [r EXCEPT !.pc = IF r.kind = "peek" THEN "used" ELSE "full",
                      !.timeout = "none"]

CopyBytesOut ==
    /\ reader.pc = "copy"
    /\ reader' = [reader EXCEPT !.pc = "publish", !.chunk = CopyOut(buf, readPos, reader.n)]
    /\ UNCHANGED <<setup, readPos, got, writeSem, buf, writerSide>>

\* How far the reader moves readPos; for a peek not at all.
Consumed(r) == IF r.kind = "peek" THEN 0 ELSE r.n

PublishOut ==
    /\ reader.pc = "publish"
    /\ readPos' = Advance(readPos, Consumed(reader))
    /\ got' = (got + Consumed(reader)) % Stamp
    /\ reader' = AfterOut(reader)
    /\ UNCHANGED <<setup, writeSem, buf, writerSide>>

RingWriter ==
    /\ reader.pc = "ring"
    /\ writeSem' = Post(writeSem)
    /\ reader' = NoRead
    /\ UNCHANGED <<setup, readPos, got, buf, writerSide>>

AwaitData ==
    /\ reader.pc = "wait"
    /\ readSem = 1
    /\ readSem' = 0
    /\ reader' = Retry(reader)
    /\ UNCHANGED <<setup, readPos, got, writeSem, buf, writePos, sent, writer>>

ReadTimeout ==
    /\ reader.pc = "wait"
    /\ readSem = 0
    /\ reader.timeout = "some"
    /\ reader' = NoRead
    /\ UNCHANGED <<setup, readPos, got, writeSem, buf, writerSide>>

\* Mutant: it rings when it has drained the pipe.
ReadFromIsrDrained(len) ==
    LET n == AtMost(len, Used(writePos, readPos))
    IN /\ setup[2] = "isr"
       /\ n > 0
       /\ readPos' = Advance(readPos, n)
       /\ got' = (got + n) % Stamp
       /\ writeSem' = IF n = Used(writePos, readPos) THEN Post(writeSem) ELSE writeSem
       /\ UNCHANGED <<setup, reader, buf, writerSide>>

\* pipe_read_from_isr and pipe_skip_from_isr, lines 246-262 and 277-294; a
\* pipe_peek_from_isr changes nothing.
ReadFromIsr(len) ==
    LET n == AtMost(len, Used(writePos, readPos))
    IN /\ setup[2] = "isr"
       /\ n > 0
       /\ readPos' = Advance(readPos, n)
       /\ got' = (got + n) % Stamp
       /\ writeSem' = IF Full THEN Post(writeSem) ELSE writeSem
       /\ UNCHANGED <<setup, reader, buf, writerSide>>

ReaderStep == \/ CheckEmpty
              \/ LookFull
              \/ LookUsed
              \/ CopyBytesOut
              \/ PublishOut
              \/ RingWriter
              \/ AwaitData

-----------------------------------------------------------------------------

Next == \/ \E len \in Lengths, timeout \in Timeouts :
             \/ Write(len, timeout)
             \/ \E kind \in Kinds : Read(kind, len, timeout)
        \/ \E len \in Lengths : WriteFromIsr(len) \/ ReadFromIsr(len)
        \/ WriterStep
        \/ WriteTimeout
        \/ ReaderStep
        \/ ReadTimeout

Spec == Init /\ [][Next]_vars

(* A task in the middle of a call is scheduled again; nobody has to call,  *)
(* and a timeout need not come.                                            *)
FairSpec == Spec /\ WF_vars(WriterStep) /\ WF_vars(ReaderStep)

-----------------------------------------------------------------------------

Expected(n) == [i \in 1 .. n |-> (got + i - 1) % Stamp]

(* The bytes come out as they went in, whoever writes and reads, across    *)
(* the wrap of the counters: the window between readPos and writePos holds *)
(* the next bytes of the stream, and so does the chunk that pipe_read or   *)
(* pipe_peek is about to return, although the writer went on meanwhile.    *)
Intact ==
    /\ CopyOut(buf, readPos, Used(writePos, readPos)) = Expected(Used(writePos, readPos))
    /\ Expected(Used(writePos, readPos) + 1)[Used(writePos, readPos) + 1] = sent
    /\ reader.pc = "publish" /\ reader.kind # "skip" => reader.chunk = Expected(reader.n)

\* The pipe as the byte stream of module ByteStream: what lies between the
\* counters is under way, and what a read or a peek has copied is lent.
Channel == INSTANCE ByteStream WITH
    stream <- CopyOut(buf, readPos, Used(writePos, readPos)),
    next   <- sent,
    lent   <- IF reader.pc = "publish" /\ reader.kind # "skip" THEN reader.chunk ELSE <<>>

(* pipe.h: the pipe is a byte stream of one writer and one reader.  Bytes  *)
(* enter only at the end and leave only at the front, where there is room  *)
(* and where there are any; a write becomes visible in one step, although  *)
(* it copies byte by byte; and a read takes exactly what it has copied,    *)
(* although the writer goes on in between.                                 *)
ImplementsStream == Channel!Spec

\* A reader asleep while there is data, or a writer asleep while there is
\* room, with no token and nobody about to post one.
ReaderForgotten == /\ reader.pc = "wait"
                   /\ readSem = 0
                   /\ ~Empty
                   /\ writer.pc # "ring"
WriterForgotten == /\ writer.pc = "wait"
                   /\ writeSem = 0
                   /\ ~Full
                   /\ reader.pc # "ring"

(* pipe_design.md:144-157: the doorbell does not deadlock.  The reader     *)
(* either sees the data or is woken by the writer's post, and the same for *)
(* the writer and the room: nobody is left asleep forever.                 *)
Doorbell == /\ ~(ReaderForgotten /\ reader.timeout = "forever")
            /\ ~(WriterForgotten /\ writer.timeout = "forever")

(* The doorbell does hold where one of the two sides is an interrupt, so   *)
(* that its look at the buffer, its move of the counter and its post are   *)
(* one step for the other side.                                            *)
DoorbellWithIsr == setup # <<"task", "task">> => ~ReaderForgotten /\ ~WriterForgotten

(* A reader that waits, with an interrupt as the writer, returns once      *)
(* there is something to read; a writer in the same way with room.         *)
SleeperReturns ==
    /\ setup[1] = "isr" /\ reader.pc = "wait" /\ ~Empty ~> reader.pc = "idle"
    /\ setup[2] = "isr" /\ writer.pc = "wait" /\ ~Full ~> writer.pc = "idle"
=============================================================================
