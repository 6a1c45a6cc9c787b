------------------------------ MODULE SpiProofs -----------------------------
(***************************************************************************)
(* Proofs that the SPI bus keeps its safety properties for any number of   *)
(* devices and any messages of SpiAssumption.  The properties speak of one *)
(* place of a thread each; the inductive invariant relates the two threads *)
(* that transfer: who holds the mutex (Owners), that busy keeps a          *)
(* synchronous transfer out while the worker waits without the mutex       *)
(* (Apart, BusyHeld), what may be selected, configured and powered at each *)
(* place (Selected, Cached, Counted), and that a done of transferDone is   *)
(* the one of the segment under way, unless it came while no segment       *)
(* waited (Inside, Running, Fresh).  The completion keeps the invariant    *)
(* that CompletionProofs proved for it: the bus takes no step of it that   *)
(* module Completion does not have.                                        *)
(***************************************************************************)
EXTENDS Spi, FiniteSetTheorems, TLAPS

EventProofs == INSTANCE CompletionProofs WITH
            Waiters <- {Sync, Worker}, Posters <- {Control}, None <- NoOne

LEMMA EventAssumption == EventProofs!CompletionAssumption
BY SpiAssumption DEF SpiAssumption, EventProofs!CompletionAssumption

\* The completion of this module and the one that CompletionProofs speaks of.
LEMMA SameWait ==
    ASSUME NEW t
    PROVE  Event!WaitCall(t) => EventProofs!WaitCall(t)
BY DEF Event!WaitCall, EventProofs!WaitCall, Event!shared, EventProofs!shared,
       Event!posting, EventProofs!posting

LEMMA SameWaiterStep ==
    ASSUME NEW t
    PROVE  Event!WaiterStep(t) => EventProofs!WaiterStep(t)
<1> USE DEF Event!WaiterAt, EventProofs!WaiterAt, Event!InDone, EventProofs!InDone,
        Event!Sending, EventProofs!Sending, Event!Taking, EventProofs!Taking,
        Event!GoTo, EventProofs!GoTo, Event!WaitReturns, EventProofs!WaitReturns,
        Event!Consumed, EventProofs!Consumed, Event!shared, EventProofs!shared,
        Event!posting, EventProofs!posting, Event!Box, EventProofs!Box
<1>1. Event!Snap(t) => EventProofs!Snap(t)
    BY DEF Event!Snap, EventProofs!Snap
<1>2. Event!TakeDone(t) => EventProofs!TakeDone(t)
    BY DEF Event!TakeDone, EventProofs!TakeDone
<1>3. Event!Enroll(t) => EventProofs!Enroll(t)
    BY DEF Event!Enroll, EventProofs!Enroll
<1>4. Event!RegisterWait(t) => EventProofs!RegisterWait(t)
    BY DEF Event!RegisterWait, EventProofs!RegisterWait
<1>5. Event!RegisterFailed(t) => EventProofs!RegisterFailed(t)
    BY DEF Event!RegisterFailed, EventProofs!RegisterFailed
<1>6. Event!CommitWait(t) => EventProofs!CommitWait(t)
    BY DEF Event!CommitWait, EventProofs!CommitWait
<1>7. Event!LateDone(t) => EventProofs!LateDone(t)
    BY DEF Event!LateDone, EventProofs!LateDone
<1>8. Event!Odd(t) => EventProofs!Odd(t)
    BY DEF Event!Odd, EventProofs!Odd
<1>9. Event!Wake(t) => EventProofs!Wake(t)
    BY DEF Event!Wake, EventProofs!Wake
<1>10. Event!Expire(t) => EventProofs!Expire(t)
    BY DEF Event!Expire, EventProofs!Expire
<1>11. Event!Woken(t) => EventProofs!Woken(t)
    BY DEF Event!Woken, EventProofs!Woken
<1>12. Event!Expired(t) => EventProofs!Expired(t)
    BY DEF Event!Expired, EventProofs!Expired
<1>13. Event!Wipe(t) => EventProofs!Wipe(t)
    BY DEF Event!Wipe, EventProofs!Wipe
<1>14. Event!Drain(t) => EventProofs!Drain(t)
    BY DEF Event!Drain, EventProofs!Drain
<1>. QED
    BY <1>1, <1>2, <1>3, <1>4, <1>5, <1>6, <1>7, <1>8, <1>9, <1>10, <1>11, <1>12,
       <1>13, <1>14 DEF Event!WaiterStep, EventProofs!WaiterStep

LEMMA SameDone ==
    /\ Event!DoneCall(Control) => EventProofs!DoneCall(Control)
    /\ Event!PosterStep(Control) => EventProofs!PosterStep(Control)
    /\ Event!DoneFromIsr => EventProofs!DoneFromIsr
<1> USE DEF Event!DoneReturns, EventProofs!DoneReturns, Event!shared, EventProofs!shared,
        Event!waiting, EventProofs!waiting, Event!posting, EventProofs!posting,
        Event!history, EventProofs!history, Event!Box, EventProofs!Box
<1>1. Event!DoneCall(Control) => EventProofs!DoneCall(Control)
    BY DEF Event!DoneCall, EventProofs!DoneCall
<1>2. Event!DoneSwap(Control) => EventProofs!DoneSwap(Control)
    BY DEF Event!DoneSwap, EventProofs!DoneSwap
<1>3. Event!Aim(Control) => EventProofs!Aim(Control)
    BY DEF Event!Aim, EventProofs!Aim
<1>4. Event!Post(Control) => EventProofs!Post(Control)
    BY DEF Event!Post, EventProofs!Post
<1>5. Event!DoneFromIsr => EventProofs!DoneFromIsr
    BY DEF Event!DoneFromIsr, EventProofs!DoneFromIsr
<1>. QED
    BY <1>1, <1>2, <1>3, <1>4, <1>5 DEF Event!PosterStep, EventProofs!PosterStep

-----------------------------------------------------------------------------
(* What one step of completion_wait does *)

\* Every step of the completion keeps its own invariant; so does a thread that
\* has read the result of its wait.
LEMMA EventKept ==
    ASSUME EventProofs!IInv,
           \/ UNCHANGED event
           \/ \E t \in {Sync, Worker} :
                Event!WaitCall(t) \/ Event!WaiterStep(t) \/ Forget(t)
           \/ Event!DoneCall(Control) \/ Event!PosterStep(Control) \/ Event!DoneFromIsr
    PROVE  EventProofs!IInv'
<1>1. CASE \/ UNCHANGED event
           \/ \E t \in {Sync, Worker} : Event!WaitCall(t) \/ Event!WaiterStep(t)
           \/ Event!DoneCall(Control) \/ Event!PosterStep(Control) \/ Event!DoneFromIsr
  <2>1. [EventProofs!Next]_(EventProofs!vars)
    BY <1>1, SameWait, SameWaiterStep, SameDone
       DEF event, EventProofs!Next, EventProofs!vars, EventProofs!shared,
           EventProofs!waiting, EventProofs!posting, EventProofs!history
  <2>. QED
    BY <2>1, EventAssumption, EventProofs!StepInv
<1>2. ASSUME NEW t \in {Sync, Worker}, Forget(t) PROVE EventProofs!IInv'
  <2>1. EventProofs!TypeOK'
    BY <1>2 DEF Forget, EventProofs!IInv, EventProofs!TypeOK, EventProofs!Results
  <2>2. /\ EventProofs!Aimed' /\ EventProofs!Solo' /\ EventProofs!Handle'
        /\ EventProofs!Agree'
    BY <1>2 DEF Forget, EventProofs!IInv, EventProofs!Aimed, EventProofs!Solo,
                EventProofs!Handle, EventProofs!Agree
  <2>3. /\ EventProofs!NoLostWake' /\ EventProofs!InFlight' /\ EventProofs!Tokens'
        /\ EventProofs!WokenByDone' /\ EventProofs!OneShot'
    BY <1>2 DEF Forget, EventProofs!IInv, EventProofs!NoLostWake, EventProofs!InFlight,
                EventProofs!Tokens, EventProofs!WokenByDone, EventProofs!OneShot,
                EventProofs!Orderly, EventProofs!Undisturbed, EventProofs!Box
  <2>4. EventProofs!ErrorsNeedDisorder'
    BY <1>2 DEF Forget, EventProofs!IInv, EventProofs!TypeOK,
                EventProofs!ErrorsNeedDisorder, EventProofs!Undisturbed
  <2>5. EventProofs!Overtakes' /\ EventProofs!Owing'
    BY <1>2 DEF Forget, EventProofs!IInv, EventProofs!Overtakes, EventProofs!Owing,
                EventProofs!Orderly, EventProofs!Box
  <2>. QED
    BY <2>1, <2>2, <2>3, <2>4, <2>5 DEF EventProofs!IInv
<1>. QED
    BY <1>1, <1>2

Quick == {"snap", "take"}
Closing == {"wipe", "drain"}
Polling == Quick \cup Closing \cup {"resnap"}

\* The step of a waiter: what it leaves alone, and, in orderly use, that it
\* returns OM_OK only after it consumed a done itself.
WaiterEffect(t) ==
    /\ wpc[t] # "out"
    /\ \A u \in {Sync, Worker} \ {t} : wpc'[u] = wpc[u] /\ wret'[u] = wret[u] /\ tmo'[u] = tmo[u]
    /\ crowded' = crowded /\ dpc' = dpc /\ (unsent => unsent')
    /\ wpc'[t] # "out" => wret'[t] = wret[t] /\ tmo'[t] = tmo[t]
    /\ tmo[t] = "zero" /\ wpc[t] \in Polling => wpc'[t] \in Polling \cup {"out"}
    /\ wpc'[t] = "out" => wret'[t] # "none"
    /\ ~crowded /\ wpc'[t] = "out" => wret'[t] # "BUSY"
    /\ ~unsent' /\ ~crowded =>
         /\ status' = "DONE" => status = "DONE"
         /\ wpc[t] \in Quick /\ status' = "DONE" => wpc'[t] \in Quick
         /\ wpc'[t] \in Closing \/ (wpc'[t] = "out" /\ wret'[t] = "OK") =>
              \/ wpc[t] \in Closing /\ status' = status
              \/ status = "DONE" /\ status' = "INIT" /\ wpc[t] \notin Closing

LEMMA WaiterSteps ==
    ASSUME EventProofs!IInv, NEW t \in {Sync, Worker}, Event!WaiterStep(t)
    PROVE  WaiterEffect(t)
<1> USE DEF WaiterEffect, Quick, Closing, Polling, Event!WaiterAt, Event!InDone,
        Event!Sending, Event!Taking, Event!GoTo, Event!WaitReturns, Event!Consumed, Event!shared, Event!posting, Event!Box, EventProofs!IInv,
        EventProofs!TypeOK, EventProofs!Solo, EventProofs!Agree, EventProofs!WokenByDone,
        EventProofs!Orderly, EventProofs!Status, EventProofs!Results
<1>1. CASE Event!Snap(t)
  <2>1. /\ wpc[t] \in {"snap", "resnap"} /\ status' = status
        /\ unsent' = (unsent \/ (wpc[t] \in Event!Taking /\ status = "DONE" /\ Event!Sending)) /\ crowded' = crowded /\ dpc' = dpc
    BY <1>1 DEF Event!Snap
  <2>2. CASE Event!GoTo(t, "take") /\ status = "DONE" /\ wpc[t] = "snap"
    BY <2>1, <2>2
  <2>3. CASE Event!GoTo(t, "enroll") /\ status = "INIT" /\ tmo[t] # "zero"
    BY <2>1, <2>3
  <2>4. CASE Event!WaitReturns(t, "ERROR") /\ wpc[t] = "resnap"
    BY <2>1, <2>4
  <2>5. CASE Event!WaitReturns(t, "BUSY") /\ status \in {"WAIT", "WAITING"}
    BY <2>1, <2>5
  <2>6. CASE Event!WaitReturns(t, "TIMEOUT") /\ status = "INIT"
    BY <2>1, <2>6
  <2>. QED
    BY <1>1, <2>2, <2>3, <2>4, <2>5, <2>6 DEF Event!Snap
<1>2. CASE Event!TakeDone(t)
    BY <1>2 DEF Event!TakeDone
<1>3. CASE Event!Enroll(t)
    BY <1>3 DEF Event!Enroll
<1>4. CASE Event!RegisterWait(t)
    BY <1>4 DEF Event!RegisterWait
<1>5. CASE Event!RegisterFailed(t)
  <2>1. CASE wpc[t] = "undoDone" /\ status = "DONE" /\ Event!Consumed(t, "drain")
    BY <1>5, <2>1 DEF Event!RegisterFailed
  <2>2. CASE wpc[t] = "undoDone" /\ status # "DONE"
    BY <1>5, <2>2 DEF Event!RegisterFailed
  <2>3. CASE wpc[t] = "undoBusy"
    BY <1>5, <2>3 DEF Event!RegisterFailed
  <2>. QED
    BY <1>5, <2>1, <2>2, <2>3 DEF Event!RegisterFailed
<1>6. CASE Event!CommitWait(t)
    BY <1>6 DEF Event!CommitWait
<1>7. CASE Event!LateDone(t)
    BY <1>7 DEF Event!LateDone
<1>8. CASE Event!Odd(t)
    BY <1>8 DEF Event!Odd
<1>9. CASE Event!Wake(t)
    BY <1>9 DEF Event!Wake
<1>10. CASE Event!Expire(t)
    BY <1>10 DEF Event!Expire
<1>11. CASE Event!Woken(t)
    BY <1>11 DEF Event!Woken
<1>12. CASE Event!Expired(t)
    BY <1>12 DEF Event!Expired
<1>13. CASE Event!Wipe(t)
    BY <1>13 DEF Event!Wipe
<1>14. CASE Event!Drain(t)
    BY <1>14 DEF Event!Drain
<1>. QED
    BY <1>1, <1>2, <1>3, <1>4, <1>5, <1>6, <1>7, <1>8, <1>9, <1>10, <1>11, <1>12, <1>13, <1>14 DEF Event!WaiterStep

-----------------------------------------------------------------------------
(* The inductive invariant *)

SyncIn == spc \notin {"out", "lock"}
Between == {"await", "release", "relock", "settle"}
WorkerIn == {"arm", "start"} \cup Between

\* What TypeOK leaves out: the devices the threads are at, and what is left of their
\* messages.
Kinds ==
    /\ sdev \in Devices \cup {NoOne} /\ (spc # "out" => sdev \in Devices)
    /\ adev \in Devices \cup {NoOne} /\ (apc # "idle" => adev \in Devices)
    /\ cpc = "unbind" => cdev \in Devices
    /\ queue \in Seq(Devices)
    /\ arest \in Seq({"hold", "free", "empty"})
    /\ apc \in {"start"} \cup Between => arest # << >>
    /\ srest \in Seq({"hold", "free", "empty"})
    /\ SyncIn => srest # << >>

\* Who holds the mutex.  The worker may keep it for good (a message whose last
\* segment is empty); it then never comes to a section again.
Owners ==
    /\ SyncIn <=> lock = Sync
    /\ apc \in {"arm", "start"} => lock = Worker
    /\ lock = Worker => apc \in {"arm", "start", "idle", "lock", "done", "call"}
    /\ cpc = "abort" <=> lock = Control

\* The two transfers exclude each other, by the mutex and by busy.
Apart == SyncIn => apc \notin WorkerIn

\* A device is queued once, and not while the worker is at it.
OneRequest ==
    /\ \A i, j \in 1..Len(queue) : queue[i] = queue[j] => i = j
    /\ apc \notin {"idle", "call"} =>
         adev \in asyncBusy /\ \A i \in 1..Len(queue) : queue[i] # adev

\* The devices that may be selected, for each place of the two threads, not counting
\* those that a message left to its caller.
Selected ==
    LET seen == cs \ kept IN
    /\ SyncIn => seen \subseteq {sdev} \cup (IF apc \in {"drain", "clean"} THEN {adev} ELSE {})
    /\ ~SyncIn /\ apc \in WorkerIn \cup {"drain", "clean"} => seen \subseteq {adev}
    /\ spc \in {"start", "await"} => sdev \in seen
    /\ aheld /\ apc \in WorkerIn => adev \in seen
    /\ apc \in {"start", "await"} => aheld
    /\ apc = "lock" => ~aheld
    /\ apc \in {"arm", "relock", "settle"} /\ ~aheld => seen = {}
    /\ ~SyncIn /\ apc \in {"idle", "lock", "done", "call"} /\ lock # Worker => seen = {}
    /\ lock = Worker => \E d \in Devices : seen \subseteq {d}

BusyHeld ==
    /\ apc \in {"start"} \cup Between => busy
    /\ spc \in {"start", "await"} => busy
    /\ spc \in {"arm", "drain"} => ~busy
    /\ busy /\ ~leaked => spc \in {"start", "await"} \/ apc \in WorkerIn

\* What the cache means, and that nobody else configures during a transfer.
Cached ==
    /\ lastCfg \notin list \cup {NoOne} => doubtful
    /\ lastCfg \in list /\ on => hwCfg = lastCfg \/ doubtful
    /\ SyncIn => lastCfg = sdev
    /\ apc \in WorkerIn => lastCfg \in {adev, NoOne}

\* The count of suspended devices and the power of the controller.
Counted ==
    /\ suspendedCount >= Cardinality(suspended)
    /\ bound = list \cup (IF cpc = "unbind" THEN {cdev} ELSE {})
    /\ cpc = "unbind" => cdev \notin list
    /\ ~uncounted =>
         /\ suspended \subseteq list
         /\ suspendedCount = Cardinality(suspended)
         /\ ~on => suspended = list
    /\ SyncIn => sdev \notin suspended
    /\ apc \in {"arm", "start"} => adev \notin suspended

\* The calls of the completion, and the places of the threads that make them.
Inside ==
    /\ wpc[Sync] # "out" => spc \in {"await", "drain"}
    /\ wpc[Worker] # "out" => apc \in {"await", "drain"}
    /\ spc = "await" /\ wpc[Sync] = "out" => wret[Sync] # "none"
    /\ apc = "await" /\ wpc[Worker] = "out" => wret[Worker] # "none"
    /\ apc = "drain" /\ wpc[Worker] # "out" =>
         tmo[Worker] = "zero" /\ wpc[Worker] \in Polling
    /\ spc \in {"await", "drain"} /\ apc = "drain" => crowded \/ wpc[Worker] = "out"
    /\ ~crowded => wret[Sync] # "BUSY" /\ wret[Worker] # "BUSY"
    /\ dpc[Control] # "out" => cpc = "abort"

\* A transfer that is waited for runs until its interrupt comes.
Running ==
    /\ spc = "await" => hw = Sync \/ last.of # NoOne
    /\ apc = "await" => hw = Worker \/ last.of # NoOne

\* A done is always the one of the segment under way, or it is about to be drained;
\* one that was consumed is not followed by another; and an abort that is half way
\* through its done call has ended the segment that the worker still waits for.
Fresh ==
    Event!Orderly /\ ~spare =>
    /\ last.of = NoOne /\ status = "DONE" => apc = "drain" /\ wpc[Worker] \in Quick
    /\ \/ spc \in {"start", "await"} \/ (spc = "drain" /\ wpc[Sync] \in Quick)
       \/ apc \in {"start", "await"} \/ (apc = "drain" /\ wpc[Worker] \in Quick)
       \/ status # "DONE"
    /\ spc = "start" \/ apc = "start" => last.of = NoOne
    /\ spc = "await" => last.of = (IF hw = Sync THEN NoOne ELSE Sync)
    /\ apc = "await" => last.of = (IF hw = Worker THEN NoOne ELSE Worker)
    /\ spc = "await" /\ (wpc[Sync] \in Closing \/ Ended(Sync)) =>
         status # "DONE" /\ last.of # NoOne
    /\ apc = "await" /\ (wpc[Worker] \in Closing \/ Ended(Worker)) =>
         status # "DONE" /\ last.of # NoOne
    /\ dpc[Control] # "out" /\ apc = "await" => last.of # NoOne

IInv ==
    /\ TypeOK /\ Kinds /\ Owners /\ Apart /\ OneRequest
    /\ Selected /\ BusyHeld /\ Cached /\ Counted
    /\ EventProofs!IInv /\ Inside /\ Running /\ Fresh

-----------------------------------------------------------------------------
(* What is left of a message *)

Segments == {"hold", "free", "empty"}

LEMMA LaterPart ==
    ASSUME NEW s \in Seq(Segments), NEW k \in 1..Len(s)
    PROVE  SubSeq(s, k, Len(s)) \in Seq(Segments) /\ SubSeq(s, k, Len(s)) # << >>
<1> DEFINE r == SubSeq(s, k, Len(s))
<1>1. Len(s) \in Nat /\ k \in Nat \ {0} /\ k <= Len(s)
    OBVIOUS
<1>2. r \in Seq(Segments) /\ Len(r) = Len(s) - k + 1
    BY <1>1
<1>3. r # << >>
  <2> HIDE DEF r
  <2>. QED
    BY <1>1, <1>2
<1>. QED
    BY <1>2, <1>3

LEMMA TailPart ==
    ASSUME NEW s \in Seq(Segments), s # << >>
    PROVE  Tail(s) \in Seq(Segments)
OBVIOUS

LEMMA FromDataPart ==
    ASSUME NEW s \in Seq(Segments), NEW r \in FromData(s)
    PROVE  r \in Seq(Segments) /\ r # << >>
<1>1. PICK k \in 1..Len(s) : r = SubSeq(s, k, Len(s))
    BY DEF FromData
<1>. QED
    BY <1>1, LaterPart

-----------------------------------------------------------------------------
(* Each step keeps each part of the invariant *)

LEMMA KindsStep ==
    ASSUME TypeOK, Kinds, [Next]_vars
    PROVE  Kinds'
<1> USE SpiAssumption DEF TypeOK, Kinds, SyncIn, Segments, Between, flag,
       cache, power, wires, selected, async, syncing, working, controlling
<1>1. ASSUME NEW d \in Devices, SyncCall(d) PROVE Kinds'
    BY <1>1 DEF SyncCall
<1>2. ASSUME NEW d \in Devices, AsyncCall(d) PROVE Kinds'
    BY <1>2 DEF AsyncCall
<1>3. ASSUME SyncLock PROVE Kinds'
  <2>1. CASE srest' = << >> /\ spc' = "out"
    BY <1>3, <2>1 DEF SyncLock, SyncReturns
  <2>2. ASSUME NEW s \in Shapes, srest' \in FromData(s) PROVE Kinds'
    <3>1. s \in Seq(Segments)
      BY SpiAssumption
    <3>2. srest' \in Seq(Segments) /\ srest' # << >>
      BY <3>1, <2>2, FromDataPart
    <3>. QED
      BY <1>3, <3>2 DEF SyncLock, SyncReturns
  <2>. QED
    BY <1>3, <2>1, <2>2 DEF SyncLock, SyncReturns
<1>4. ASSUME SyncArm PROVE Kinds'
    BY <1>4 DEF SyncArm, Arm, Unmark
<1>5. ASSUME SyncStart PROVE Kinds'
  <2>1. CASE SyncReturns
    BY <1>5, <2>1 DEF SyncStart, SyncReturns
  <2>2. CASE spc' = "await" /\ sdev' = sdev /\ srest' = srest
    BY <1>5, <2>2 DEF SyncStart
  <2>. QED
    BY <1>5, <2>1, <2>2 DEF SyncStart
<1>6. ASSUME SyncWaited PROVE Kinds'
  <2>1. CASE srest' = << >> /\ spc' = "out"
    BY <1>6, <2>1 DEF SyncWaited, SyncReturns, Keep
  <2>2. CASE spc' = "arm" /\ srest' \in FromData(Tail(srest)) /\ sdev' = sdev
    <3>1. Tail(srest) \in Seq(Segments)
      BY <1>6, TailPart DEF SyncWaited, Keep
    <3>2. srest' \in Seq(Segments) /\ srest' # << >>
      BY <3>1, <2>2, FromDataPart
    <3>. QED
      BY <1>6, <2>2, <3>2 DEF SyncWaited, Keep
  <2>. QED
    BY <1>6, <2>1, <2>2 DEF SyncWaited, SyncReturns, Keep
<1>7. ASSUME SyncTimeout PROVE Kinds'
    BY <1>7 DEF SyncTimeout, Idle, Abandon, Wait
<1>8. ASSUME SyncDrained PROVE Kinds'
    BY <1>8 DEF SyncDrained, Deselect, SyncReturns
<1>9. ASSUME WorkerTake PROVE Kinds'
    BY <1>9 DEF WorkerTake
<1>10. ASSUME WorkerLock PROVE Kinds'
    BY <1>10 DEF WorkerLock, WorkerGoes, Configured
<1>11. ASSUME WorkerSkip PROVE Kinds'
  <2>1. CASE arest = << >>
    BY <1>11, <2>1 DEF WorkerSkip, EndsHeld, Keep
  <2>2. CASE arest # << >>
    BY <1>11, <2>2, TailPart DEF WorkerSkip, EndsHeld, Keep
  <2>. QED
    BY <2>1, <2>2
<1>12. ASSUME WorkerArm PROVE Kinds'
    BY <1>12 DEF WorkerArm, Arm, Unmark
<1>13. ASSUME WorkerStart PROVE Kinds'
    BY <1>13 DEF WorkerStart, Wait, WorkerGoes, Idle, Deselect
<1>14. ASSUME WorkerWaited PROVE Kinds'
    BY <1>14 DEF WorkerWaited, Abandon, Unmark, WorkerGoes, Idle, AfterSegment
<1>15. ASSUME WorkerTimeout PROVE Kinds'
    BY <1>15 DEF WorkerTimeout, Idle, Abandon, Wait, WorkerGoes
<1>16. ASSUME WorkerDrained PROVE Kinds'
    BY <1>16 DEF WorkerDrained, WorkerGoes
<1>17. ASSUME WorkerRelease PROVE Kinds'
    BY <1>17 DEF WorkerRelease, Deselect, AfterSegment
<1>18. ASSUME WorkerRelock PROVE Kinds'
  <2>1. CASE adev \in bound \ suspended
    <3>1. Tail(arest) \in Seq(Segments)
      BY <1>18, TailPart DEF WorkerRelock
    <3>. QED
      BY <1>18, <2>1, <3>1 DEF WorkerRelock
  <2>2. CASE adev \notin bound \ suspended
    BY <1>18, <2>2 DEF WorkerRelock, Deselect, WorkerGoes
  <2>. QED
    BY <2>1, <2>2
<1>19. ASSUME WorkerSettle PROVE Kinds'
    BY <1>19 DEF WorkerSettle, Idle, WorkerGoes, EndsHeld, Keep
<1>20. ASSUME WorkerClean PROVE Kinds'
    BY <1>20 DEF WorkerClean, Deselect, WorkerGoes
<1>21. ASSUME WorkerDone PROVE Kinds'
    BY <1>21 DEF WorkerDone, WorkerGoes
<1>22. ASSUME WorkerCall PROVE Kinds'
    BY <1>22 DEF WorkerCall
<1>23. ASSUME NEW t \in {Sync, Worker}, WaitStep(t) PROVE Kinds'
    BY <1>23 DEF WaitStep
<1>24. ASSUME NEW d \in Devices, Suspend(d) PROVE Kinds'
    BY <1>24 DEF Suspend, ControlTakes, Bounded
<1>25. ASSUME NEW d \in Devices, Resume(d) PROVE Kinds'
    BY <1>25 DEF Resume, ControlTakes
<1>26. ASSUME NEW d \in Devices, SetCfg(d) PROVE Kinds'
    BY <1>26 DEF SetCfg, ControlTakes, Bounded, Configured
<1>27. ASSUME NEW d \in Devices, Attach(d) PROVE Kinds'
    BY <1>27 DEF Attach, ControlTakes
<1>28. ASSUME NEW d \in Devices, Detach(d) PROVE Kinds'
    BY <1>28 DEF Detach, ControlTakes, Bounded
<1>29. ASSUME Abort PROVE Kinds'
    BY <1>29 DEF Abort, ControlTakes, Bounded
<1>30. ASSUME DetachUnbinds PROVE Kinds'
    BY <1>30 DEF DetachUnbinds
<1>31. ASSUME AbortPosts PROVE Kinds'
    BY <1>31 DEF AbortPosts
<1>32. ASSUME Isr PROVE Kinds'
    BY <1>32 DEF Isr
<1>34. ASSUME NEW d \in Devices, Deassert(d) PROVE Kinds'
    BY <1>34 DEF Deassert, Deselect, ControlTakes
<1>33. CASE UNCHANGED vars
    BY <1>33 DEF vars
<1>. QED
    BY <1>1, <1>2, <1>3, <1>4, <1>5, <1>6, <1>7, <1>8, <1>9, <1>10, <1>11, <1>12, <1>13,
       <1>14, <1>15, <1>16, <1>17, <1>18, <1>19, <1>20, <1>21, <1>22, <1>23, <1>24, <1>25,
       <1>26, <1>27, <1>28, <1>29, <1>30, <1>31, <1>32, <1>33,
       <1>34 DEF Next, SyncStep,
       WorkerStep, ControlCall

LEMMA OwnersStep ==
    ASSUME TypeOK, Owners, [Next]_vars
    PROVE  Owners'
<1> USE SpiAssumption DEF TypeOK, Owners, SyncIn, flag, cache, power, wires, selected, async,
       syncing, working, controlling
<1>1. ASSUME NEW d \in Devices, SyncCall(d) PROVE Owners'
    BY <1>1 DEF SyncCall
<1>2. ASSUME NEW d \in Devices, AsyncCall(d) PROVE Owners'
    BY <1>2 DEF AsyncCall
<1>3. ASSUME SyncLock PROVE Owners'
    BY <1>3 DEF SyncLock, Configured, SyncReturns
<1>4. ASSUME SyncArm PROVE Owners'
    BY <1>4 DEF SyncArm, Arm, Unmark
<1>5. ASSUME SyncStart PROVE Owners'
    BY <1>5 DEF SyncStart, Wait, Idle, Deselect, SyncReturns
<1>6. ASSUME SyncWaited PROVE Owners'
    BY <1>6 DEF SyncWaited, Idle, Abandon, Unmark, Deselect, SyncReturns, Keep
<1>7. ASSUME SyncTimeout PROVE Owners'
    BY <1>7 DEF SyncTimeout, Idle, Abandon, Wait
<1>8. ASSUME SyncDrained PROVE Owners'
    BY <1>8 DEF SyncDrained, Deselect, SyncReturns
<1>9. ASSUME WorkerTake PROVE Owners'
    BY <1>9 DEF WorkerTake
<1>10. ASSUME WorkerLock PROVE Owners'
    BY <1>10 DEF WorkerLock, WorkerGoes, Configured
<1>11. ASSUME WorkerSkip PROVE Owners'
    BY <1>11 DEF WorkerSkip, EndsHeld, Keep
<1>12. ASSUME WorkerArm PROVE Owners'
    BY <1>12 DEF WorkerArm, Arm, Unmark
<1>13. ASSUME WorkerStart PROVE Owners'
    BY <1>13 DEF WorkerStart, Wait, WorkerGoes, Idle, Deselect
<1>14. ASSUME WorkerWaited PROVE Owners'
    BY <1>14 DEF WorkerWaited, Abandon, Unmark, WorkerGoes, Idle, AfterSegment
<1>15. ASSUME WorkerTimeout PROVE Owners'
    BY <1>15 DEF WorkerTimeout, Idle, Abandon, Wait, WorkerGoes
<1>16. ASSUME WorkerDrained PROVE Owners'
    BY <1>16 DEF WorkerDrained, WorkerGoes
<1>17. ASSUME WorkerRelease PROVE Owners'
    BY <1>17 DEF WorkerRelease, Deselect, AfterSegment
<1>18. ASSUME WorkerRelock PROVE Owners'
    BY <1>18 DEF WorkerRelock, Deselect, WorkerGoes
<1>19. ASSUME WorkerSettle PROVE Owners'
    BY <1>19 DEF WorkerSettle, Idle, WorkerGoes, EndsHeld, Keep
<1>20. ASSUME WorkerClean PROVE Owners'
    BY <1>20 DEF WorkerClean, Deselect, WorkerGoes
<1>21. ASSUME WorkerDone PROVE Owners'
    BY <1>21 DEF WorkerDone, WorkerGoes
<1>22. ASSUME WorkerCall PROVE Owners'
    BY <1>22 DEF WorkerCall
<1>23. ASSUME NEW t \in {Sync, Worker}, WaitStep(t) PROVE Owners'
    BY <1>23 DEF WaitStep
<1>24. ASSUME NEW d \in Devices, Suspend(d) PROVE Owners'
    BY <1>24 DEF Suspend, ControlTakes, Bounded
<1>25. ASSUME NEW d \in Devices, Resume(d) PROVE Owners'
    BY <1>25 DEF Resume, ControlTakes
<1>26. ASSUME NEW d \in Devices, SetCfg(d) PROVE Owners'
    BY <1>26 DEF SetCfg, ControlTakes, Bounded, Configured
<1>27. ASSUME NEW d \in Devices, Attach(d) PROVE Owners'
    BY <1>27 DEF Attach, ControlTakes
<1>28. ASSUME NEW d \in Devices, Detach(d) PROVE Owners'
    BY <1>28 DEF Detach, ControlTakes, Bounded
<1>29. ASSUME Abort PROVE Owners'
    BY <1>29 DEF Abort, ControlTakes, Bounded
<1>30. ASSUME DetachUnbinds PROVE Owners'
    BY <1>30 DEF DetachUnbinds
<1>31. ASSUME AbortPosts PROVE Owners'
    BY <1>31 DEF AbortPosts
<1>32. ASSUME Isr PROVE Owners'
    BY <1>32 DEF Isr
<1>34. ASSUME NEW d \in Devices, Deassert(d) PROVE Owners'
    BY <1>34 DEF Deassert, Deselect, ControlTakes
<1>33. CASE UNCHANGED vars
    BY <1>33 DEF vars
<1>. QED
    BY <1>1, <1>2, <1>3, <1>4, <1>5, <1>6, <1>7, <1>8, <1>9, <1>10, <1>11, <1>12, <1>13,
       <1>14, <1>15, <1>16, <1>17, <1>18, <1>19, <1>20, <1>21, <1>22, <1>23, <1>24, <1>25,
       <1>26, <1>27, <1>28, <1>29, <1>30, <1>31, <1>32, <1>33,
       <1>34 DEF Next, SyncStep,
       WorkerStep, ControlCall

LEMMA ApartStep ==
    ASSUME TypeOK, Owners, Apart, BusyHeld, [Next]_vars
    PROVE  Apart'
<1> USE SpiAssumption DEF TypeOK, Owners, Apart, BusyHeld, SyncIn, WorkerIn, Between, flag,
       cache, power, wires, selected, async, syncing, working, controlling
<1>1. ASSUME NEW d \in Devices, SyncCall(d) PROVE Apart'
    BY <1>1 DEF SyncCall
<1>2. ASSUME NEW d \in Devices, AsyncCall(d) PROVE Apart'
    BY <1>2 DEF AsyncCall
<1>3. ASSUME SyncLock PROVE Apart'
    BY <1>3 DEF SyncLock, Configured, SyncReturns
<1>4. ASSUME SyncArm PROVE Apart'
    BY <1>4 DEF SyncArm, Arm, Unmark
<1>5. ASSUME SyncStart PROVE Apart'
    BY <1>5 DEF SyncStart, Wait, Idle, Deselect, SyncReturns
<1>6. ASSUME SyncWaited PROVE Apart'
    BY <1>6 DEF SyncWaited, Idle, Abandon, Unmark, Deselect, SyncReturns, Keep
<1>7. ASSUME SyncTimeout PROVE Apart'
    BY <1>7 DEF SyncTimeout, Idle, Abandon, Wait
<1>8. ASSUME SyncDrained PROVE Apart'
    BY <1>8 DEF SyncDrained, Deselect, SyncReturns
<1>9. ASSUME WorkerTake PROVE Apart'
    BY <1>9 DEF WorkerTake
<1>10. ASSUME WorkerLock PROVE Apart'
    BY <1>10 DEF WorkerLock, WorkerGoes, Configured
<1>11. ASSUME WorkerSkip PROVE Apart'
    BY <1>11 DEF WorkerSkip, EndsHeld, Keep
<1>12. ASSUME WorkerArm PROVE Apart'
    BY <1>12 DEF WorkerArm, Arm, Unmark
<1>13. ASSUME WorkerStart PROVE Apart'
    BY <1>13 DEF WorkerStart, Wait, WorkerGoes, Idle, Deselect
<1>14. ASSUME WorkerWaited PROVE Apart'
    BY <1>14 DEF WorkerWaited, Abandon, Unmark, WorkerGoes, Idle, AfterSegment
<1>15. ASSUME WorkerTimeout PROVE Apart'
    BY <1>15 DEF WorkerTimeout, Idle, Abandon, Wait, WorkerGoes
<1>16. ASSUME WorkerDrained PROVE Apart'
    BY <1>16 DEF WorkerDrained, WorkerGoes
<1>17. ASSUME WorkerRelease PROVE Apart'
    BY <1>17 DEF WorkerRelease, Deselect, AfterSegment
<1>18. ASSUME WorkerRelock PROVE Apart'
    BY <1>18 DEF WorkerRelock, Deselect, WorkerGoes
<1>19. ASSUME WorkerSettle PROVE Apart'
    BY <1>19 DEF WorkerSettle, Idle, WorkerGoes, EndsHeld, Keep
<1>20. ASSUME WorkerClean PROVE Apart'
    BY <1>20 DEF WorkerClean, Deselect, WorkerGoes
<1>21. ASSUME WorkerDone PROVE Apart'
    BY <1>21 DEF WorkerDone, WorkerGoes
<1>22. ASSUME WorkerCall PROVE Apart'
    BY <1>22 DEF WorkerCall
<1>23. ASSUME NEW t \in {Sync, Worker}, WaitStep(t) PROVE Apart'
    BY <1>23 DEF WaitStep
<1>24. ASSUME NEW d \in Devices, Suspend(d) PROVE Apart'
    BY <1>24 DEF Suspend, ControlTakes, Bounded
<1>25. ASSUME NEW d \in Devices, Resume(d) PROVE Apart'
    BY <1>25 DEF Resume, ControlTakes
<1>26. ASSUME NEW d \in Devices, SetCfg(d) PROVE Apart'
    BY <1>26 DEF SetCfg, ControlTakes, Bounded, Configured
<1>27. ASSUME NEW d \in Devices, Attach(d) PROVE Apart'
    BY <1>27 DEF Attach, ControlTakes
<1>28. ASSUME NEW d \in Devices, Detach(d) PROVE Apart'
    BY <1>28 DEF Detach, ControlTakes, Bounded
<1>29. ASSUME Abort PROVE Apart'
    BY <1>29 DEF Abort, ControlTakes, Bounded
<1>30. ASSUME DetachUnbinds PROVE Apart'
    BY <1>30 DEF DetachUnbinds
<1>31. ASSUME AbortPosts PROVE Apart'
    BY <1>31 DEF AbortPosts
<1>32. ASSUME Isr PROVE Apart'
    BY <1>32 DEF Isr
<1>34. ASSUME NEW d \in Devices, Deassert(d) PROVE Apart'
    BY <1>34 DEF Deassert, Deselect, ControlTakes
<1>33. CASE UNCHANGED vars
    BY <1>33 DEF vars
<1>. QED
    BY <1>1, <1>2, <1>3, <1>4, <1>5, <1>6, <1>7, <1>8, <1>9, <1>10, <1>11, <1>12, <1>13,
       <1>14, <1>15, <1>16, <1>17, <1>18, <1>19, <1>20, <1>21, <1>22, <1>23, <1>24, <1>25,
       <1>26, <1>27, <1>28, <1>29, <1>30, <1>31, <1>32, <1>33,
       <1>34 DEF Next, SyncStep,
       WorkerStep, ControlCall

LEMMA OneRequestStep ==
    ASSUME TypeOK, Kinds, OneRequest, [Next]_vars
    PROVE  OneRequest'
<1> USE SpiAssumption DEF TypeOK, Kinds, OneRequest, flag, cache, power, wires, selected, async,
       syncing, working, controlling
<1>1. ASSUME NEW d \in Devices, SyncCall(d) PROVE OneRequest'
    BY <1>1 DEF SyncCall
<1>2. ASSUME NEW d \in Devices, AsyncCall(d) PROVE OneRequest'
    BY <1>2 DEF AsyncCall
<1>3. ASSUME SyncLock PROVE OneRequest'
    BY <1>3 DEF SyncLock, Configured, SyncReturns
<1>4. ASSUME SyncArm PROVE OneRequest'
    BY <1>4 DEF SyncArm, Arm, Unmark
<1>5. ASSUME SyncStart PROVE OneRequest'
    BY <1>5 DEF SyncStart, Wait, Idle, Deselect, SyncReturns
<1>6. ASSUME SyncWaited PROVE OneRequest'
    BY <1>6 DEF SyncWaited, Idle, Abandon, Unmark, Deselect, SyncReturns, Keep
<1>7. ASSUME SyncTimeout PROVE OneRequest'
    BY <1>7 DEF SyncTimeout, Idle, Abandon, Wait
<1>8. ASSUME SyncDrained PROVE OneRequest'
    BY <1>8 DEF SyncDrained, Deselect, SyncReturns
<1>9. ASSUME WorkerTake PROVE OneRequest'
    BY <1>9 DEF WorkerTake
<1>10. ASSUME WorkerLock PROVE OneRequest'
    BY <1>10 DEF WorkerLock, WorkerGoes, Configured
<1>11. ASSUME WorkerSkip PROVE OneRequest'
    BY <1>11 DEF WorkerSkip, EndsHeld, Keep
<1>12. ASSUME WorkerArm PROVE OneRequest'
    BY <1>12 DEF WorkerArm, Arm, Unmark
<1>13. ASSUME WorkerStart PROVE OneRequest'
    BY <1>13 DEF WorkerStart, Wait, WorkerGoes, Idle, Deselect
<1>14. ASSUME WorkerWaited PROVE OneRequest'
    BY <1>14 DEF WorkerWaited, Abandon, Unmark, WorkerGoes, Idle, AfterSegment
<1>15. ASSUME WorkerTimeout PROVE OneRequest'
    BY <1>15 DEF WorkerTimeout, Idle, Abandon, Wait, WorkerGoes
<1>16. ASSUME WorkerDrained PROVE OneRequest'
    BY <1>16 DEF WorkerDrained, WorkerGoes
<1>17. ASSUME WorkerRelease PROVE OneRequest'
    BY <1>17 DEF WorkerRelease, Deselect, AfterSegment
<1>18. ASSUME WorkerRelock PROVE OneRequest'
    BY <1>18 DEF WorkerRelock, Deselect, WorkerGoes
<1>19. ASSUME WorkerSettle PROVE OneRequest'
    BY <1>19 DEF WorkerSettle, Idle, WorkerGoes, EndsHeld, Keep
<1>20. ASSUME WorkerClean PROVE OneRequest'
    BY <1>20 DEF WorkerClean, Deselect, WorkerGoes
<1>21. ASSUME WorkerDone PROVE OneRequest'
    BY <1>21 DEF WorkerDone, WorkerGoes
<1>22. ASSUME WorkerCall PROVE OneRequest'
    BY <1>22 DEF WorkerCall
<1>23. ASSUME NEW t \in {Sync, Worker}, WaitStep(t) PROVE OneRequest'
    BY <1>23 DEF WaitStep
<1>24. ASSUME NEW d \in Devices, Suspend(d) PROVE OneRequest'
    BY <1>24 DEF Suspend, ControlTakes, Bounded
<1>25. ASSUME NEW d \in Devices, Resume(d) PROVE OneRequest'
    BY <1>25 DEF Resume, ControlTakes
<1>26. ASSUME NEW d \in Devices, SetCfg(d) PROVE OneRequest'
    BY <1>26 DEF SetCfg, ControlTakes, Bounded, Configured
<1>27. ASSUME NEW d \in Devices, Attach(d) PROVE OneRequest'
    BY <1>27 DEF Attach, ControlTakes
<1>28. ASSUME NEW d \in Devices, Detach(d) PROVE OneRequest'
    BY <1>28 DEF Detach, ControlTakes, Bounded
<1>29. ASSUME Abort PROVE OneRequest'
    BY <1>29 DEF Abort, ControlTakes, Bounded
<1>30. ASSUME DetachUnbinds PROVE OneRequest'
    BY <1>30 DEF DetachUnbinds
<1>31. ASSUME AbortPosts PROVE OneRequest'
    BY <1>31 DEF AbortPosts
<1>32. ASSUME Isr PROVE OneRequest'
    BY <1>32 DEF Isr
<1>34. ASSUME NEW d \in Devices, Deassert(d) PROVE OneRequest'
    BY <1>34 DEF Deassert, Deselect, ControlTakes
<1>33. CASE UNCHANGED vars
    BY <1>33 DEF vars
<1>. QED
    BY <1>1, <1>2, <1>3, <1>4, <1>5, <1>6, <1>7, <1>8, <1>9, <1>10, <1>11, <1>12, <1>13,
       <1>14, <1>15, <1>16, <1>17, <1>18, <1>19, <1>20, <1>21, <1>22, <1>23, <1>24, <1>25,
       <1>26, <1>27, <1>28, <1>29, <1>30, <1>31, <1>32, <1>33,
       <1>34 DEF Next, SyncStep,
       WorkerStep, ControlCall

LEMMA SelectedStep ==
    ASSUME TypeOK, Kinds, Owners, Apart, Selected, BusyHeld, [Next]_vars
    PROVE  Selected'
<1> USE SpiAssumption DEF TypeOK, Kinds, Segments, Owners, Apart, Selected, BusyHeld,
       SyncIn, WorkerIn, Between, flag, cache, power, wires, selected, async, syncing, working,
       controlling
<1>1. ASSUME NEW d \in Devices, SyncCall(d) PROVE Selected'
    BY <1>1 DEF SyncCall
<1>2. ASSUME NEW d \in Devices, AsyncCall(d) PROVE Selected'
    BY <1>2 DEF AsyncCall
<1>3. ASSUME SyncLock PROVE Selected'
    BY <1>3 DEF SyncLock, Configured, SyncReturns
<1>4. ASSUME SyncArm PROVE Selected'
    BY <1>4 DEF SyncArm, Arm, Unmark
<1>5. ASSUME SyncStart PROVE Selected'
  <2>1. /\ lock = Sync /\ spc' \in {"await", "out"} /\ apc' = apc /\ adev' = adev
        /\ aheld' = aheld
    BY <1>5 DEF SyncStart, SyncReturns
  <2>2. CASE spc' = "await" /\ sdev' = sdev /\ lock' = lock /\ cs' = cs /\ kept' = kept
    BY <2>1, <2>2, <1>5 DEF SyncStart
  <2>3. CASE SyncReturns /\ Deselect(sdev)
    BY <2>1, <2>3, <1>5 DEF SyncStart, SyncReturns, Deselect
  <2>. QED
    BY <1>5, <2>2, <2>3 DEF SyncStart
<1>6. ASSUME SyncWaited PROVE Selected'
  <2>1. lock = Sync /\ apc' = apc /\ adev' = adev /\ aheld' = aheld
    BY <1>6 DEF SyncWaited, Keep
  <2>2. CASE spc' = "arm" /\ sdev' = sdev /\ lock' = lock
    BY <2>1, <2>2, <1>6 DEF SyncWaited, Deselect, Keep
  <2>3. CASE SyncReturns
    <3>1. ~(last.ok /\ HasData(Tail(srest)))
      BY <1>6, <2>3 DEF SyncWaited, SyncReturns
    <3>2. cs' \ kept' = (cs \ kept) \ {sdev}
      BY <1>6, <3>1 DEF SyncWaited, Deselect, Keep
    <3>. QED
      BY <2>1, <2>3, <3>2, <1>6 DEF SyncWaited, SyncReturns
  <2>. QED
    BY <1>6, <2>2, <2>3 DEF SyncWaited, Keep
<1>7. ASSUME SyncTimeout PROVE Selected'
    BY <1>7 DEF SyncTimeout, Idle, Abandon, Wait
<1>8. ASSUME SyncDrained PROVE Selected'
    BY <1>8 DEF SyncDrained, Deselect, SyncReturns
<1>9. ASSUME WorkerTake PROVE Selected'
    BY <1>9 DEF WorkerTake
<1>10. ASSUME WorkerLock PROVE Selected'
    BY <1>10 DEF WorkerLock, WorkerGoes, Configured
<1>11. ASSUME WorkerSkip PROVE Selected'
    BY <1>11 DEF WorkerSkip, EndsHeld, Keep
<1>12. ASSUME WorkerArm PROVE Selected'
    BY <1>12 DEF WorkerArm, Arm, Unmark
<1>13. ASSUME WorkerStart PROVE Selected'
    BY <1>13 DEF WorkerStart, Wait, WorkerGoes, Idle, Deselect
<1>14. ASSUME WorkerWaited PROVE Selected'
  <2>1. /\ apc = "await" /\ spc' = spc /\ sdev' = sdev /\ lock' = lock
        /\ cs' = cs /\ kept' = kept /\ adev' = adev /\ aheld' = aheld
        /\ ~SyncIn /\ cs \ kept \subseteq {adev} /\ lock # Worker /\ aheld
    BY <1>14 DEF WorkerWaited, WorkerGoes
  <2>2. CASE apc' \in {"clean", "release"}
    BY <2>1, <2>2
  <2>3. CASE apc' = AfterSegment
    BY <2>1, <2>3 DEF AfterSegment
  <2>. QED
    BY <1>14, <2>2, <2>3 DEF WorkerWaited, WorkerGoes
<1>15. ASSUME WorkerTimeout PROVE Selected'
    BY <1>15 DEF WorkerTimeout, Idle, Abandon, Wait, WorkerGoes
<1>16. ASSUME WorkerDrained PROVE Selected'
    BY <1>16 DEF WorkerDrained, WorkerGoes
<1>17. ASSUME WorkerRelease PROVE Selected'
    BY <1>17 DEF WorkerRelease, Deselect, AfterSegment
<1>18. ASSUME WorkerRelock PROVE Selected'
  <2>1. lock = NoOne /\ ~SyncIn /\ cs \ kept \subseteq {adev} /\ adev \in Devices
    BY <1>18 DEF WorkerRelock
  <2>2. CASE adev \in bound \ suspended
    <3>1. /\ apc = "relock" /\ apc' = "arm" /\ lock' = Worker
          /\ UNCHANGED <<adev, aheld, spc, sdev, cs, kept>>
      BY <1>18, <2>2 DEF WorkerRelock
    <3>. QED
      BY <2>1, <3>1
  <2>3. CASE adev \notin bound \ suspended
    BY <1>18, <2>1, <2>3 DEF WorkerRelock, Deselect, WorkerGoes
  <2>. QED
    BY <2>2, <2>3
<1>19. ASSUME WorkerSettle PROVE Selected'
    BY <1>19 DEF WorkerSettle, Idle, WorkerGoes, EndsHeld, Keep
<1>20. ASSUME WorkerClean PROVE Selected'
    BY <1>20 DEF WorkerClean, Deselect, WorkerGoes
<1>21. ASSUME WorkerDone PROVE Selected'
    BY <1>21 DEF WorkerDone, WorkerGoes
<1>22. ASSUME WorkerCall PROVE Selected'
    BY <1>22 DEF WorkerCall
<1>23. ASSUME NEW t \in {Sync, Worker}, WaitStep(t) PROVE Selected'
    BY <1>23 DEF WaitStep
<1>24. ASSUME NEW d \in Devices, Suspend(d) PROVE Selected'
    BY <1>24 DEF Suspend, ControlTakes, Bounded
<1>25. ASSUME NEW d \in Devices, Resume(d) PROVE Selected'
    BY <1>25 DEF Resume, ControlTakes
<1>26. ASSUME NEW d \in Devices, SetCfg(d) PROVE Selected'
    BY <1>26 DEF SetCfg, ControlTakes, Bounded, Configured
<1>27. ASSUME NEW d \in Devices, Attach(d) PROVE Selected'
    BY <1>27 DEF Attach, ControlTakes
<1>28. ASSUME NEW d \in Devices, Detach(d) PROVE Selected'
    BY <1>28 DEF Detach, ControlTakes, Bounded
<1>29. ASSUME Abort PROVE Selected'
    BY <1>29 DEF Abort, ControlTakes, Bounded
<1>30. ASSUME DetachUnbinds PROVE Selected'
    BY <1>30 DEF DetachUnbinds
<1>31. ASSUME AbortPosts PROVE Selected'
    BY <1>31 DEF AbortPosts
<1>32. ASSUME Isr PROVE Selected'
    BY <1>32 DEF Isr
<1>34. ASSUME NEW d \in Devices, Deassert(d) PROVE Selected'
    BY <1>34 DEF Deassert, Deselect, ControlTakes
<1>33. CASE UNCHANGED vars
    BY <1>33 DEF vars
<1>. QED
    BY <1>1, <1>2, <1>3, <1>4, <1>5, <1>6, <1>7, <1>8, <1>9, <1>10, <1>11, <1>12, <1>13,
       <1>14, <1>15, <1>16, <1>17, <1>18, <1>19, <1>20, <1>21, <1>22, <1>23, <1>24, <1>25,
       <1>26, <1>27, <1>28, <1>29, <1>30, <1>31, <1>32, <1>33,
       <1>34 DEF Next, SyncStep,
       WorkerStep, ControlCall

LEMMA BusyHeldStep ==
    ASSUME TypeOK, Owners, Apart, BusyHeld, [Next]_vars
    PROVE  BusyHeld'
<1> USE SpiAssumption DEF TypeOK, Owners, Apart, BusyHeld, SyncIn, WorkerIn, Between, flag,
       cache, power, wires, selected, async, syncing, working, controlling
<1>1. ASSUME NEW d \in Devices, SyncCall(d) PROVE BusyHeld'
    BY <1>1 DEF SyncCall
<1>2. ASSUME NEW d \in Devices, AsyncCall(d) PROVE BusyHeld'
    BY <1>2 DEF AsyncCall
<1>3. ASSUME SyncLock PROVE BusyHeld'
    BY <1>3 DEF SyncLock, Configured, SyncReturns
<1>4. ASSUME SyncArm PROVE BusyHeld'
    BY <1>4 DEF SyncArm, Arm, Unmark
<1>5. ASSUME SyncStart PROVE BusyHeld'
    BY <1>5 DEF SyncStart, Wait, Idle, Deselect, SyncReturns
<1>6. ASSUME SyncWaited PROVE BusyHeld'
    BY <1>6 DEF SyncWaited, Idle, Abandon, Unmark, Deselect, SyncReturns, Keep
<1>7. ASSUME SyncTimeout PROVE BusyHeld'
    BY <1>7 DEF SyncTimeout, Idle, Abandon, Wait
<1>8. ASSUME SyncDrained PROVE BusyHeld'
    BY <1>8 DEF SyncDrained, Deselect, SyncReturns
<1>9. ASSUME WorkerTake PROVE BusyHeld'
    BY <1>9 DEF WorkerTake
<1>10. ASSUME WorkerLock PROVE BusyHeld'
    BY <1>10 DEF WorkerLock, WorkerGoes, Configured
<1>11. ASSUME WorkerSkip PROVE BusyHeld'
    BY <1>11 DEF WorkerSkip, EndsHeld, Keep
<1>12. ASSUME WorkerArm PROVE BusyHeld'
    BY <1>12 DEF WorkerArm, Arm, Unmark
<1>13. ASSUME WorkerStart PROVE BusyHeld'
    BY <1>13 DEF WorkerStart, Wait, WorkerGoes, Idle, Deselect
<1>14. ASSUME WorkerWaited PROVE BusyHeld'
  <2>1. apc = "await" /\ spc' = spc
    BY <1>14 DEF WorkerWaited
  <2>2. CASE ~last.ok
    BY <1>14, <2>1, <2>2 DEF WorkerWaited, WorkerGoes, Idle
  <2>3. CASE last.ok
    <3>1. busy' = busy /\ leaked' = leaked /\ apc' \in {"relock", "settle", "release"}
      BY <1>14, <2>3 DEF WorkerWaited, WorkerGoes, AfterSegment
    <3>. QED
      BY <2>1, <3>1
  <2>. QED
    BY <2>2, <2>3
<1>15. ASSUME WorkerTimeout PROVE BusyHeld'
    BY <1>15 DEF WorkerTimeout, Idle, Abandon, Wait, WorkerGoes
<1>16. ASSUME WorkerDrained PROVE BusyHeld'
    BY <1>16 DEF WorkerDrained, WorkerGoes
<1>17. ASSUME WorkerRelease PROVE BusyHeld'
    BY <1>17 DEF WorkerRelease, Deselect, AfterSegment
<1>18. ASSUME WorkerRelock PROVE BusyHeld'
    BY <1>18 DEF WorkerRelock, Deselect, WorkerGoes
<1>19. ASSUME WorkerSettle PROVE BusyHeld'
    BY <1>19 DEF WorkerSettle, Idle, WorkerGoes, EndsHeld, Keep
<1>20. ASSUME WorkerClean PROVE BusyHeld'
    BY <1>20 DEF WorkerClean, Deselect, WorkerGoes
<1>21. ASSUME WorkerDone PROVE BusyHeld'
    BY <1>21 DEF WorkerDone, WorkerGoes
<1>22. ASSUME WorkerCall PROVE BusyHeld'
    BY <1>22 DEF WorkerCall
<1>23. ASSUME NEW t \in {Sync, Worker}, WaitStep(t) PROVE BusyHeld'
    BY <1>23 DEF WaitStep
<1>24. ASSUME NEW d \in Devices, Suspend(d) PROVE BusyHeld'
    BY <1>24 DEF Suspend, ControlTakes, Bounded
<1>25. ASSUME NEW d \in Devices, Resume(d) PROVE BusyHeld'
    BY <1>25 DEF Resume, ControlTakes
<1>26. ASSUME NEW d \in Devices, SetCfg(d) PROVE BusyHeld'
    BY <1>26 DEF SetCfg, ControlTakes, Bounded, Configured
<1>27. ASSUME NEW d \in Devices, Attach(d) PROVE BusyHeld'
    BY <1>27 DEF Attach, ControlTakes
<1>28. ASSUME NEW d \in Devices, Detach(d) PROVE BusyHeld'
    BY <1>28 DEF Detach, ControlTakes, Bounded
<1>29. ASSUME Abort PROVE BusyHeld'
    BY <1>29 DEF Abort, ControlTakes, Bounded
<1>30. ASSUME DetachUnbinds PROVE BusyHeld'
    BY <1>30 DEF DetachUnbinds
<1>31. ASSUME AbortPosts PROVE BusyHeld'
    BY <1>31 DEF AbortPosts
<1>32. ASSUME Isr PROVE BusyHeld'
    BY <1>32 DEF Isr
<1>34. ASSUME NEW d \in Devices, Deassert(d) PROVE BusyHeld'
    BY <1>34 DEF Deassert, Deselect, ControlTakes
<1>33. CASE UNCHANGED vars
    BY <1>33 DEF vars
<1>. QED
    BY <1>1, <1>2, <1>3, <1>4, <1>5, <1>6, <1>7, <1>8, <1>9, <1>10, <1>11, <1>12, <1>13,
       <1>14, <1>15, <1>16, <1>17, <1>18, <1>19, <1>20, <1>21, <1>22, <1>23, <1>24, <1>25,
       <1>26, <1>27, <1>28, <1>29, <1>30, <1>31, <1>32, <1>33,
       <1>34 DEF Next, SyncStep,
       WorkerStep, ControlCall

\* After spi_ensure_configured the cache names the device, rightly or doubtfully.
LEMMA ConfiguredCache ==
    ASSUME Cached, NEW d \in Devices, Configured(d)
    PROVE  /\ lastCfg' = d
           /\ d \notin list => doubtful'
           /\ on => hwCfg' = d \/ doubtful'
<1>1. CASE lastCfg = d /\ UNCHANGED cache
    BY <1>1, SpiAssumption DEF Cached, cache
<1>2. CASE lastCfg' = d /\ hwCfg' = d /\ doubtful' = (d \notin list)
    BY <1>2
<1>. QED
    BY <1>1, <1>2 DEF Configured

LEMMA CachedStep ==
    ASSUME TypeOK, Kinds, Owners, Apart, BusyHeld, Cached, Counted, [Next]_vars
    PROVE  Cached'
<1> USE SpiAssumption DEF TypeOK, Kinds, Owners, Apart, BusyHeld, Cached, Counted, SyncIn,
       WorkerIn, Between, flag, cache, power, wires, selected, async, syncing, working, controlling
<1>1. ASSUME NEW d \in Devices, SyncCall(d) PROVE Cached'
    BY <1>1 DEF SyncCall
<1>2. ASSUME NEW d \in Devices, AsyncCall(d) PROVE Cached'
    BY <1>2 DEF AsyncCall
<1>3. ASSUME SyncLock PROVE Cached'
  <2>1. /\ list' = list /\ on' = on /\ spc = "lock" /\ apc' = apc /\ adev' = adev
        /\ lock = NoOne
    BY <1>3 DEF SyncLock
  <2>2. CASE UNCHANGED cache /\ SyncReturns
    BY <2>1, <2>2 DEF SyncReturns
  <2>3. CASE ~busy /\ Configured(sdev) /\ (SyncReturns \/ (spc' = "arm" /\ sdev' = sdev))
    <3>1. apc \notin WorkerIn
      BY <2>1, <2>3
    <3>. QED
      BY <2>1, <2>3, <3>1, ConfiguredCache DEF SyncReturns
  <2>4. ASSUME NEW s \in Shapes, ~busy, Configured(sdev),
               IF HasData(s)
               THEN lock' = Sync /\ spc' = "arm" /\ srest' \in FromData(s) /\ UNCHANGED sdev
               ELSE SyncReturns
        PROVE  Cached'
    <3>1. CASE HasData(s)
      BY <2>3, <2>4, <3>1
    <3>2. CASE ~HasData(s)
      <4>1. SyncReturns
        BY <2>4, <3>2, Zenon
      <4>2. apc \notin WorkerIn
        BY <2>1, <2>4
      <4>3. spc' = "out"
        BY <4>1 DEF SyncReturns
      <4>. QED
        BY <2>1, <2>4, <4>2, <4>3, ConfiguredCache
    <3>. QED
      BY <3>1, <3>2
  <2>. QED
    BY <1>3, <2>2, <2>4 DEF SyncLock
<1>4. ASSUME SyncArm PROVE Cached'
    BY <1>4 DEF SyncArm, Arm, Unmark
<1>5. ASSUME SyncStart PROVE Cached'
    BY <1>5 DEF SyncStart, Wait, Idle, Deselect, SyncReturns
<1>6. ASSUME SyncWaited PROVE Cached'
    BY <1>6 DEF SyncWaited, Idle, Abandon, Unmark, Deselect, SyncReturns, Keep
<1>7. ASSUME SyncTimeout PROVE Cached'
    BY <1>7 DEF SyncTimeout, Idle, Abandon, Wait
<1>8. ASSUME SyncDrained PROVE Cached'
    BY <1>8 DEF SyncDrained, Deselect, SyncReturns
<1>9. ASSUME WorkerTake PROVE Cached'
    BY <1>9 DEF WorkerTake
<1>10. ASSUME WorkerLock PROVE Cached'
  <2>1. /\ list' = list /\ on' = on /\ spc' = spc /\ sdev' = sdev /\ adev' = adev
        /\ adev \in Devices /\ ~SyncIn
    BY <1>10 DEF WorkerLock, WorkerGoes
  <2>2. CASE UNCHANGED cache /\ apc' = "done"
    BY <2>1, <2>2
  <2>3. CASE Configured(adev) /\ apc' = "arm"
    BY <2>1, <2>3, ConfiguredCache
  <2>. QED
    BY <1>10, <2>2, <2>3 DEF WorkerLock, WorkerGoes
<1>11. ASSUME WorkerSkip PROVE Cached'
    BY <1>11 DEF WorkerSkip, EndsHeld, Keep
<1>12. ASSUME WorkerArm PROVE Cached'
    BY <1>12 DEF WorkerArm, Arm, Unmark
<1>13. ASSUME WorkerStart PROVE Cached'
    BY <1>13 DEF WorkerStart, Wait, WorkerGoes, Idle, Deselect
<1>14. ASSUME WorkerWaited PROVE Cached'
    BY <1>14 DEF WorkerWaited, Abandon, Unmark, WorkerGoes, Idle, AfterSegment
<1>15. ASSUME WorkerTimeout PROVE Cached'
    BY <1>15 DEF WorkerTimeout, Idle, Abandon, Wait, WorkerGoes
<1>16. ASSUME WorkerDrained PROVE Cached'
    BY <1>16 DEF WorkerDrained, WorkerGoes
<1>17. ASSUME WorkerRelease PROVE Cached'
    BY <1>17 DEF WorkerRelease, Deselect, AfterSegment
<1>18. ASSUME WorkerRelock PROVE Cached'
    BY <1>18 DEF WorkerRelock, Deselect, WorkerGoes
<1>19. ASSUME WorkerSettle PROVE Cached'
    BY <1>19 DEF WorkerSettle, Idle, WorkerGoes, EndsHeld, Keep
<1>20. ASSUME WorkerClean PROVE Cached'
    BY <1>20 DEF WorkerClean, Deselect, WorkerGoes
<1>21. ASSUME WorkerDone PROVE Cached'
    BY <1>21 DEF WorkerDone, WorkerGoes
<1>22. ASSUME WorkerCall PROVE Cached'
    BY <1>22 DEF WorkerCall
<1>23. ASSUME NEW t \in {Sync, Worker}, WaitStep(t) PROVE Cached'
    BY <1>23 DEF WaitStep
<1>24. ASSUME NEW d \in Devices, Suspend(d) PROVE Cached'
    BY <1>24 DEF Suspend, ControlTakes, Bounded
<1>25. ASSUME NEW d \in Devices, Resume(d) PROVE Cached'
    BY <1>25 DEF Resume, ControlTakes
<1>26. ASSUME NEW d \in Devices, SetCfg(d) PROVE Cached'
    BY <1>26 DEF SetCfg, ControlTakes, Bounded, Configured
<1>27. ASSUME NEW d \in Devices, Attach(d) PROVE Cached'
    BY <1>27 DEF Attach, ControlTakes
<1>28. ASSUME NEW d \in Devices, Detach(d) PROVE Cached'
    BY <1>28 DEF Detach, ControlTakes, Bounded
<1>29. ASSUME Abort PROVE Cached'
    BY <1>29 DEF Abort, ControlTakes, Bounded
<1>30. ASSUME DetachUnbinds PROVE Cached'
    BY <1>30 DEF DetachUnbinds
<1>31. ASSUME AbortPosts PROVE Cached'
    BY <1>31 DEF AbortPosts
<1>32. ASSUME Isr PROVE Cached'
    BY <1>32 DEF Isr
<1>34. ASSUME NEW d \in Devices, Deassert(d) PROVE Cached'
    BY <1>34 DEF Deassert, Deselect, ControlTakes
<1>33. CASE UNCHANGED vars
    BY <1>33 DEF vars
<1>. QED
    BY <1>1, <1>2, <1>3, <1>4, <1>5, <1>6, <1>7, <1>8, <1>9, <1>10, <1>11, <1>12, <1>13,
       <1>14, <1>15, <1>16, <1>17, <1>18, <1>19, <1>20, <1>21, <1>22, <1>23, <1>24, <1>25,
       <1>26, <1>27, <1>28, <1>29, <1>30, <1>31, <1>32, <1>33,
       <1>34 DEF Next, SyncStep,
       WorkerStep, ControlCall

\* TypeOK in parts.
Flags ==
    /\ {busy, leaked, spare, on, doubtful, uncounted, aheld} \subseteq BOOLEAN
    /\ last \in [ok : BOOLEAN, of : {NoOne, Sync, Worker, Stale}]
Places ==
    /\ lock \in {NoOne, Sync, Worker, Control}
    /\ hw \in {NoOne, Sync, Worker, Stale}
    /\ spc \in {"out", "lock", "arm", "start", "await", "drain"}
    /\ apc \in {"idle", "lock", "arm", "start", "await", "drain", "release",
                "relock", "settle", "clean", "done", "call"}
    /\ cpc \in {"out", "abort", "unbind"} /\ controls \in 0..MaxControl
Sets ==
    /\ {lastCfg, hwCfg} \subseteq Devices \cup {NoOne}
    /\ list \subseteq bound /\ bound \subseteq Devices /\ suspended \subseteq bound
    /\ suspendedCount \in Nat
    /\ asyncBusy \subseteq Devices /\ kept \subseteq cs /\ cs \subseteq Devices
    /\ \A i \in 1..Len(queue) : queue[i] \in asyncBusy

LEMMA TypeParts == TypeOK <=> Flags /\ Places /\ Sets /\ Event!TypeOK
BY DEF TypeOK, Flags, Places, Sets

LEMMA FlagsStep ==
    ASSUME Flags, Places, [Next]_vars
    PROVE  Flags'
<1> USE DEF Flags, Places, flag, cache, power, wires, selected, async, syncing, working, controlling
<1>1. ASSUME NEW d \in Devices, SyncCall(d) \/ AsyncCall(d)
    PROVE  Flags'
    BY <1>1 DEF SyncCall, AsyncCall
<1>2. ASSUME SyncArm \/ SyncDrained
    PROVE  Flags'
    BY <1>2 DEF SyncArm, SyncDrained, Arm, Unmark, Deselect, SyncReturns
<1>3. ASSUME SyncTimeout
    PROVE  Flags'
    BY <1>3 DEF SyncTimeout, Idle, Abandon, Wait
<1>4. ASSUME WorkerTake \/ WorkerArm
    PROVE  Flags'
    BY <1>4 DEF WorkerTake, WorkerArm, Arm, Unmark
<1>5. ASSUME WorkerTimeout \/ WorkerDrained
    PROVE  Flags'
    BY <1>5 DEF WorkerTimeout, WorkerDrained, Idle, Abandon, Wait, WorkerGoes
<1>6. ASSUME WorkerRelease \/ WorkerRelock \/ WorkerSettle \/ WorkerClean
    PROVE  Flags'
    BY <1>6 DEF WorkerRelease, WorkerRelock, WorkerSettle, WorkerClean, Deselect, EndsHeld, Keep,
       AfterSegment, WorkerGoes, Idle
<1>7. ASSUME WorkerDone \/ WorkerCall
    PROVE  Flags'
    BY <1>7 DEF WorkerDone, WorkerCall, WorkerGoes
<1>8. ASSUME NEW t \in {Sync, Worker}, WaitStep(t)
    PROVE  Flags'
    BY <1>8 DEF WaitStep
<1>9. ASSUME NEW d \in Devices, Suspend(d) \/ Resume(d) \/ Attach(d) \/ Detach(d)
                             \/ Deassert(d)
    PROVE  Flags'
    BY <1>9 DEF Suspend, Resume, Attach, Detach, Deassert, Deselect, ControlTakes, Bounded
<1>10. ASSUME DetachUnbinds \/ AbortPosts
    PROVE  Flags'
    BY <1>10 DEF DetachUnbinds, AbortPosts
<1>11. ASSUME SyncLock PROVE Flags'
    BY <1>11 DEF SyncLock, Configured, SyncReturns
<1>12. ASSUME SyncStart PROVE Flags'
    BY <1>12 DEF SyncStart, Wait, Idle, Deselect, SyncReturns
<1>13. ASSUME SyncWaited PROVE Flags'
    BY <1>13 DEF SyncWaited, Idle, Abandon, Unmark, Deselect, SyncReturns, Keep
<1>14. ASSUME WorkerLock PROVE Flags'
    BY <1>14 DEF WorkerLock, WorkerGoes, Configured
<1>15. ASSUME WorkerSkip PROVE Flags'
    BY <1>15 DEF WorkerSkip, EndsHeld, Keep
<1>16. ASSUME WorkerStart PROVE Flags'
    BY <1>16 DEF WorkerStart, Wait, WorkerGoes, Idle, Deselect
<1>17. ASSUME WorkerWaited PROVE Flags'
    BY <1>17 DEF WorkerWaited, Abandon, Unmark, WorkerGoes, Idle, AfterSegment
<1>18. ASSUME NEW d \in Devices, SetCfg(d) PROVE Flags'
    BY <1>18 DEF SetCfg, ControlTakes, Bounded, Configured
<1>19. ASSUME Abort PROVE Flags'
    BY <1>19 DEF Abort, ControlTakes, Bounded
<1>20. ASSUME Isr PROVE Flags'
    BY <1>20 DEF Isr
<1>21. CASE UNCHANGED vars
    BY <1>21 DEF vars
<1>. QED
    BY <1>1, <1>2, <1>3, <1>4, <1>5, <1>6, <1>7, <1>8, <1>9, <1>10, <1>11, <1>12, <1>13,
       <1>14, <1>15, <1>16, <1>17, <1>18, <1>19, <1>20, <1>21 DEF Next, SyncStep,
       WorkerStep, ControlCall

LEMMA PlacesStep ==
    ASSUME Flags, Places, [Next]_vars
    PROVE  Places'
<1> USE SpiAssumption DEF Places, flag, cache, power, wires, selected, async, syncing, working,
       controlling
<1>1. ASSUME NEW d \in Devices, SyncCall(d) \/ AsyncCall(d)
    PROVE  Places'
    BY <1>1 DEF SyncCall, AsyncCall
<1>2. ASSUME SyncArm \/ SyncDrained
    PROVE  Places'
    BY <1>2 DEF SyncArm, SyncDrained, Arm, Unmark, Deselect, SyncReturns
<1>3. ASSUME SyncTimeout
    PROVE  Places'
    BY <1>3 DEF SyncTimeout, Idle, Abandon, Wait
<1>4. ASSUME WorkerTake \/ WorkerArm
    PROVE  Places'
    BY <1>4 DEF WorkerTake, WorkerArm, Arm, Unmark
<1>5. ASSUME WorkerTimeout \/ WorkerDrained
    PROVE  Places'
    BY <1>5 DEF WorkerTimeout, WorkerDrained, Idle, Abandon, Wait, WorkerGoes
<1>6. ASSUME WorkerRelease \/ WorkerRelock \/ WorkerSettle \/ WorkerClean
    PROVE  Places'
    BY <1>6 DEF WorkerRelease, WorkerRelock, WorkerSettle, WorkerClean, Deselect, EndsHeld, Keep,
       AfterSegment, WorkerGoes, Idle
<1>7. ASSUME WorkerDone \/ WorkerCall
    PROVE  Places'
    BY <1>7 DEF WorkerDone, WorkerCall, WorkerGoes
<1>8. ASSUME NEW t \in {Sync, Worker}, WaitStep(t)
    PROVE  Places'
    BY <1>8 DEF WaitStep
<1>9. ASSUME NEW d \in Devices, Suspend(d) \/ Resume(d) \/ Attach(d) \/ Detach(d)
                             \/ Deassert(d)
    PROVE  Places'
    BY <1>9 DEF Suspend, Resume, Attach, Detach, Deassert, Deselect, ControlTakes, Bounded
<1>10. ASSUME DetachUnbinds \/ AbortPosts
    PROVE  Places'
    BY <1>10 DEF DetachUnbinds, AbortPosts
<1>11. ASSUME SyncLock PROVE Places'
    BY <1>11 DEF SyncLock, Configured, SyncReturns
<1>12. ASSUME SyncStart PROVE Places'
    BY <1>12 DEF SyncStart, Wait, Idle, Deselect, SyncReturns
<1>13. ASSUME SyncWaited PROVE Places'
    BY <1>13 DEF SyncWaited, Idle, Abandon, Unmark, Deselect, SyncReturns, Keep
<1>14. ASSUME WorkerLock PROVE Places'
    BY <1>14 DEF WorkerLock, WorkerGoes, Configured
<1>15. ASSUME WorkerSkip PROVE Places'
    BY <1>15 DEF WorkerSkip, EndsHeld, Keep
<1>16. ASSUME WorkerStart PROVE Places'
    BY <1>16 DEF WorkerStart, Wait, WorkerGoes, Idle, Deselect
<1>17. ASSUME WorkerWaited PROVE Places'
    BY <1>17 DEF WorkerWaited, Abandon, Unmark, WorkerGoes, Idle, AfterSegment
<1>18. ASSUME NEW d \in Devices, SetCfg(d) PROVE Places'
    BY <1>18 DEF SetCfg, ControlTakes, Bounded, Configured
<1>19. ASSUME Abort PROVE Places'
    BY <1>19 DEF Abort, ControlTakes, Bounded
<1>20. ASSUME Isr PROVE Places'
    BY <1>20 DEF Isr
<1>21. CASE UNCHANGED vars
    BY <1>21 DEF vars
<1>. QED
    BY <1>1, <1>2, <1>3, <1>4, <1>5, <1>6, <1>7, <1>8, <1>9, <1>10, <1>11, <1>12, <1>13,
       <1>14, <1>15, <1>16, <1>17, <1>18, <1>19, <1>20, <1>21 DEF Next, SyncStep,
       WorkerStep, ControlCall

LEMMA SetsStep ==
    ASSUME Places, Sets, Kinds, OneRequest, Selected, Counted, [Next]_vars
    PROVE  Sets'
<1>0. /\ spc # "out" => sdev \in Devices
      /\ apc # "idle" => adev \in Devices
      /\ spc = "await" => sdev \in cs
      /\ aheld /\ apc \in {"arm", "settle"} => adev \in cs
    BY DEF Kinds, Selected, SyncIn, WorkerIn, Between
<1> USE <1>0 DEF Sets, flag, cache, power, wires, selected, async, syncing, working, controlling
<1>1. ASSUME SyncArm \/ SyncStart \/ SyncDrained
    PROVE  Sets'
    BY <1>1 DEF SyncArm, SyncStart, SyncDrained, Arm, Unmark, Wait, Idle, Deselect,
       SyncReturns
<1>2. ASSUME SyncTimeout
    PROVE  Sets'
    BY <1>2 DEF SyncTimeout, Idle, Abandon, Wait
<1>3. ASSUME WorkerArm \/ WorkerStart
    PROVE  Sets'
    BY <1>3 DEF WorkerArm, WorkerStart, Arm, Unmark, Wait, WorkerGoes, Idle, Deselect
<1>4. ASSUME WorkerTimeout \/ WorkerDrained
    PROVE  Sets'
    BY <1>4 DEF WorkerTimeout, WorkerDrained, Idle, Abandon, Wait, WorkerGoes
<1>5. ASSUME WorkerRelease \/ WorkerRelock \/ WorkerSettle \/ WorkerClean
    PROVE  Sets'
    BY <1>5 DEF WorkerRelease, WorkerRelock, WorkerSettle, WorkerClean, Deselect, EndsHeld, Keep,
       AfterSegment, WorkerGoes, Idle
<1>6. ASSUME NEW t \in {Sync, Worker}, WaitStep(t)
    PROVE  Sets'
    BY <1>6 DEF WaitStep
<1>7. ASSUME NEW d \in Devices, Suspend(d) \/ Attach(d) \/ Detach(d)
                             \/ Deassert(d)
    PROVE  Sets'
    BY <1>7 DEF Suspend, Attach, Detach, Deassert, Deselect, ControlTakes, Bounded
<1>8. ASSUME AbortPosts
    PROVE  Sets'
    BY <1>8 DEF AbortPosts
<1>9. ASSUME NEW d \in Devices, SyncCall(d) PROVE Sets'
    BY <1>9 DEF SyncCall
<1>10. ASSUME NEW d \in Devices, AsyncCall(d) PROVE Sets'
  <2>1. queue \in Seq(Devices) /\ queue' = Append(queue, d) /\ asyncBusy' = asyncBusy \cup {d}
    BY <1>10 DEF AsyncCall, Kinds
  <2>2. \A i \in 1..Len(queue') : queue'[i] \in asyncBusy'
    BY <2>1
  <2>. QED
    BY <1>10, <2>2 DEF AsyncCall
<1>11. ASSUME SyncLock PROVE Sets'
  <2>1. sdev \in Devices /\ (Configured(sdev) \/ UNCHANGED cache)
    BY <1>11 DEF SyncLock
  <2>2. lastCfg' \in Devices \cup {NoOne} /\ hwCfg' \in Devices \cup {NoOne}
    BY <2>1 DEF Configured
  <2>. QED
    BY <1>11, <2>2 DEF SyncLock
<1>12. ASSUME SyncWaited PROVE Sets'
    BY <1>12 DEF SyncWaited, Idle, Abandon, Unmark, Deselect, SyncReturns, Keep
<1>13. ASSUME WorkerTake PROVE Sets'
  <2>1. queue \in Seq(Devices) /\ queue # << >> /\ queue' = Tail(queue) /\ asyncBusy' = asyncBusy
    BY <1>13 DEF WorkerTake, Kinds
  <2>2. \A i \in 1..Len(queue') : queue'[i] = queue[i + 1] /\ i + 1 \in 1..Len(queue)
    BY <2>1
  <2>3. \A i \in 1..Len(queue') : queue'[i] \in asyncBusy'
    BY <2>1, <2>2
  <2>. QED
    BY <1>13, <2>3 DEF WorkerTake
<1>14. ASSUME WorkerLock PROVE Sets'
    BY <1>14 DEF WorkerLock, WorkerGoes, Configured
<1>15. ASSUME WorkerSkip PROVE Sets'
    BY <1>15 DEF WorkerSkip, EndsHeld, Keep
<1>16. ASSUME WorkerWaited PROVE Sets'
    BY <1>16 DEF WorkerWaited, Abandon, Unmark, WorkerGoes, Idle, AfterSegment
<1>17. ASSUME WorkerDone PROVE Sets'
  <2>1. asyncBusy' = asyncBusy \ {adev} /\ queue' = queue /\ apc = "done"
    BY <1>17 DEF WorkerDone
  <2>2. \A i \in 1..Len(queue) : queue[i] # adev
    BY <2>1 DEF OneRequest
  <2>. QED
    BY <1>17, <2>1, <2>2 DEF WorkerDone, WorkerGoes
<1>18. ASSUME WorkerCall PROVE Sets'
    BY <1>18 DEF WorkerCall
<1>19. ASSUME NEW d \in Devices, Resume(d) PROVE Sets'
  <2>1. suspendedCount - 1 \in Nat
    <3>1. IsFiniteSet(suspended)
      BY SpiAssumption, FS_Subset
    <3>2. suspended # {}
      BY <1>19 DEF Resume
    <3>3. Cardinality(suspended) \in Nat /\ Cardinality(suspended) # 0
      BY <3>1, <3>2, FS_EmptySet, FS_CardinalityType
    <3>. QED
      BY <3>3 DEF Counted
  <2>. QED
    BY <1>19, <2>1 DEF Resume, ControlTakes
<1>20. ASSUME NEW d \in Devices, SetCfg(d) PROVE Sets'
    BY <1>20 DEF SetCfg, ControlTakes, Bounded, Configured
<1>21. ASSUME Abort PROVE Sets'
    BY <1>21 DEF Abort, ControlTakes, Bounded
<1>22. ASSUME DetachUnbinds PROVE Sets'
  <2>1. cdev \in Devices /\ cdev \notin list
    BY <1>22 DEF DetachUnbinds, Kinds, Counted
  <2>. QED
    BY <1>22, <2>1 DEF DetachUnbinds
<1>23. ASSUME Isr PROVE Sets'
    BY <1>23 DEF Isr
<1>24. CASE UNCHANGED vars
    BY <1>24 DEF vars
<1>. QED
    BY <1>1, <1>2, <1>3, <1>4, <1>5, <1>6, <1>7, <1>8, <1>9, <1>10, <1>11, <1>12, <1>13,
       <1>14, <1>15, <1>16, <1>17, <1>18, <1>19, <1>20, <1>21, <1>22, <1>23, <1>24 DEF
       Next, SyncStep, WorkerStep, ControlCall

LEMMA TypeStep ==
    ASSUME TypeOK, Kinds, OneRequest, Selected, Counted, EventProofs!IInv', [Next]_vars
    PROVE  TypeOK'
<1>1. Event!TypeOK'
    BY DEF EventProofs!IInv, EventProofs!TypeOK, Event!TypeOK, EventProofs!Status,
           EventProofs!Results, Event!Status, Event!Results
<1>2. Flags /\ Places /\ Sets
    BY TypeParts
<1>3. Flags' /\ Places' /\ Sets'
    BY <1>2, FlagsStep, PlacesStep, SetsStep
<1>4. (TypeOK <=> Flags /\ Places /\ Sets /\ Event!TypeOK)'
    BY TypeParts, PTL
<1>. QED
    BY <1>1, <1>3, <1>4

LEMMA CountedStep ==
    ASSUME TypeOK, Kinds, Owners, Counted, [Next]_vars
    PROVE  Counted'
<1> USE SpiAssumption DEF TypeOK, Kinds, Owners, Counted, SyncIn, flag, cache, power,
       wires, selected, async, syncing, working, controlling
<1>1. ASSUME NEW d \in Devices, SyncCall(d) \/ AsyncCall(d)
    PROVE  Counted'
    BY <1>1 DEF SyncCall, AsyncCall
<1>2. ASSUME SyncArm \/ SyncStart \/ SyncTimeout \/ SyncDrained
    PROVE  Counted'
    BY <1>2 DEF SyncArm, SyncStart, SyncTimeout, SyncDrained, Arm, Unmark, Wait, Idle,
       Deselect, SyncReturns, Idle, Abandon
<1>3. ASSUME WorkerTake \/ WorkerLock \/ WorkerArm
    PROVE  Counted'
    BY <1>3 DEF WorkerTake, WorkerLock, WorkerArm, WorkerGoes, Configured, Arm, Unmark
<1>4. ASSUME WorkerStart \/ WorkerWaited \/ WorkerTimeout \/ WorkerDrained
    PROVE  Counted'
    BY <1>4 DEF WorkerStart, WorkerWaited, WorkerTimeout, WorkerDrained, Wait, WorkerGoes,
       Idle, Deselect, Abandon, Unmark, Idle, AfterSegment
<1>5. ASSUME
           WorkerRelease \/ WorkerRelock \/ WorkerSettle \/ WorkerClean \/ WorkerDone
           \/ WorkerCall
    PROVE  Counted'
    BY <1>5 DEF WorkerRelease, WorkerRelock, WorkerSettle, WorkerClean, WorkerDone, EndsHeld, Keep,
       WorkerCall, Deselect, AfterSegment, WorkerGoes, Idle
<1>6. ASSUME NEW t \in {Sync, Worker}, WaitStep(t)
    PROVE  Counted'
    BY <1>6 DEF WaitStep
<1>7. ASSUME SyncLock PROVE Counted'
  <2>1. UNCHANGED power /\ UNCHANGED working /\ UNCHANGED controlling
    BY <1>7 DEF SyncLock
  <2>2. spc' = "out" \/ (sdev' = sdev /\ sdev \notin suspended)
    BY <1>7 DEF SyncLock, SyncReturns
  <2>. QED
    BY <2>1, <2>2
<1>8. ASSUME SyncWaited PROVE Counted'
    BY <1>8 DEF SyncWaited, Idle, Abandon, Unmark, Deselect, SyncReturns, Keep
<1>9. ASSUME WorkerSkip PROVE Counted'
    BY <1>9 DEF WorkerSkip, EndsHeld, Keep
<1>10. ASSUME NEW d \in Devices, Suspend(d) PROVE Counted'
  <2>1. bound = list /\ d \in list /\ d \notin suspended /\ suspended' = suspended \cup {d}
        /\ list' = list /\ bound' = bound /\ uncounted' = uncounted
        /\ suspendedCount' = suspendedCount + 1 /\ cpc' = cpc
    BY <1>10 DEF Suspend, ControlTakes
  <2>2. /\ IsFiniteSet(suspended) /\ IsFiniteSet(list)
        /\ Cardinality(suspended) \in Nat /\ Cardinality(list) \in Nat
    BY SpiAssumption, FS_Subset, FS_CardinalityType
  <2>3. Cardinality(suspended') = Cardinality(suspended) + 1
    BY <2>1, <2>2, FS_AddElement
  <2>4. ASSUME ~uncounted', ~on' PROVE suspended' = list'
    <3>1. suspended' \subseteq list
      BY <2>1, <2>4
    <3>2. suspendedCount + 1 = Cardinality(list)
      BY <1>10, <2>1, <2>4 DEF Suspend
    <3>3. Cardinality(list) = Cardinality(suspended')
      BY <3>2, <2>3, <2>4, <2>1
    <3>. QED
      BY <3>1, <3>3, <2>1, <2>2, FS_Subset
  <2>5. lock = NoOne /\ spc' = spc /\ apc' = apc /\ ~SyncIn /\ apc \notin {"arm", "start"}
    BY <1>10 DEF Suspend, ControlTakes
  <2>. QED
    BY <2>1, <2>2, <2>3, <2>4, <2>5
<1>11. ASSUME NEW d \in Devices, Resume(d) PROVE Counted'
  <2>1. /\ bound = list /\ d \in suspended /\ suspended' = suspended \ {d}
        /\ list' = list /\ bound' = bound /\ uncounted' = uncounted
        /\ suspendedCount' = suspendedCount - 1 /\ cpc' = cpc /\ cdev' = cdev
        /\ on' = (on \/ suspendedCount = Cardinality(list))
        /\ spc' = spc /\ sdev' = sdev /\ apc' = apc /\ adev' = adev
    BY <1>11 DEF Resume, ControlTakes
  <2>2. IsFiniteSet(suspended) /\ Cardinality(suspended) \in Nat
    BY SpiAssumption, FS_Subset, FS_CardinalityType
  <2>3. Cardinality(suspended') = Cardinality(suspended) - 1
    BY <2>1, <2>2, FS_RemoveElement
  <2>4. suspendedCount' >= Cardinality(suspended')
    BY <2>1, <2>2, <2>3
  <2>5. ASSUME ~uncounted'
        PROVE  /\ suspended' \subseteq list' /\ suspendedCount' = Cardinality(suspended')
               /\ on'
    <3>1. suspended \subseteq list /\ suspendedCount = Cardinality(suspended)
          /\ (~on => suspended = list)
      BY <2>1, <2>5
    <3>. QED
      BY <3>1, <2>1, <2>3
  <2>6. bound' = list' /\ cpc' # "unbind"
    BY <1>11, <2>1 DEF Resume, ControlTakes
  <2>. QED
    BY <2>1, <2>4, <2>5, <2>6
<1>12. ASSUME NEW d \in Devices, SetCfg(d) PROVE Counted'
    BY <1>12 DEF SetCfg, ControlTakes, Bounded, Configured
<1>13. ASSUME NEW d \in Devices, Attach(d) PROVE Counted'
    BY <1>13 DEF Attach, ControlTakes
<1>14. ASSUME NEW d \in Devices, Detach(d) PROVE Counted'
  <2>1. /\ cpc = "out" /\ cpc' = "unbind" /\ cdev' = d /\ list' = list \ {d} /\ d \in list
        /\ uncounted' = (uncounted \/ d \in suspended)
        /\ UNCHANGED <<suspendedCount, suspended, bound, on, spc, sdev, apc, adev>>
    BY <1>14 DEF Detach, ControlTakes
  <2>2. bound' = list' \cup {cdev'} /\ cdev' \notin list'
    BY <2>1
  <2>3. ASSUME ~uncounted' PROVE suspended' \subseteq list' /\ on'
    BY <2>1, <2>3
  <2>. QED
    BY <2>1, <2>2, <2>3
<1>15. ASSUME Abort PROVE Counted'
    BY <1>15 DEF Abort, ControlTakes, Bounded
<1>16. ASSUME DetachUnbinds PROVE Counted'
  <2>1. /\ cpc = "unbind" /\ cpc' = "out" /\ suspended' = suspended \ {cdev}
        /\ bound' = bound \ {cdev} /\ list' = list /\ on' = on /\ uncounted' = uncounted
        /\ suspendedCount' = suspendedCount
        /\ spc' = spc /\ sdev' = sdev /\ apc' = apc /\ adev' = adev
    BY <1>16 DEF DetachUnbinds
  <2>2. IsFiniteSet(suspended) /\ Cardinality(suspended) \in Nat
    BY SpiAssumption, FS_Subset, FS_CardinalityType
  <2>3. suspended' \subseteq suspended /\ Cardinality(suspended') <= Cardinality(suspended)
        /\ Cardinality(suspended') \in Nat
    BY <2>1, <2>2, FS_Subset, FS_CardinalityType
  <2>4. suspendedCount' >= Cardinality(suspended')
    BY <2>1, <2>2, <2>3
  <2>5. bound' = list' /\ cpc' # "unbind"
    BY <2>1
  <2>6. ~uncounted' => suspended' = suspended
    BY <2>1
  <2>. QED
    BY <2>1, <2>4, <2>5, <2>6
<1>17. ASSUME AbortPosts PROVE Counted'
    BY <1>17 DEF AbortPosts
<1>18. ASSUME Isr PROVE Counted'
    BY <1>18 DEF Isr
<1>20. ASSUME NEW d \in Devices, Deassert(d) PROVE Counted'
    BY <1>20 DEF Deassert, Deselect, ControlTakes
<1>19. CASE UNCHANGED vars
    BY <1>19 DEF vars
<1>. QED
    BY <1>1, <1>2, <1>3, <1>4, <1>5, <1>6, <1>7, <1>8, <1>9, <1>10, <1>11, <1>12, <1>13,
       <1>14, <1>15, <1>16, <1>17, <1>18, <1>19,
       <1>20 DEF Next, SyncStep, WorkerStep, ControlCall

LEMMA RunningStep ==
    ASSUME TypeOK, Owners, Apart, BusyHeld, Running, [Next]_vars
    PROVE  Running'
<1> USE SpiAssumption DEF TypeOK, Owners, Apart, BusyHeld, Running, SyncIn, WorkerIn,
       Between, flag, cache, power, wires, selected, async, syncing, working, controlling
<1>1. ASSUME NEW d \in Devices, SyncCall(d) \/ AsyncCall(d)
    PROVE  Running'
    BY <1>1 DEF SyncCall, AsyncCall
<1>2. ASSUME SyncLock \/ SyncArm \/ SyncStart
    PROVE  Running'
    BY <1>2 DEF SyncLock, SyncArm, SyncStart, Configured, SyncReturns, Arm, Unmark, Wait,
       Idle, Deselect
<1>3. ASSUME SyncWaited \/ SyncTimeout \/ SyncDrained
    PROVE  Running'
    BY <1>3 DEF SyncWaited, SyncTimeout, SyncDrained, Idle, Abandon, Unmark, Deselect, Keep,
       SyncReturns, Wait
<1>4. ASSUME WorkerTake \/ WorkerLock \/ WorkerSkip \/ WorkerArm
    PROVE  Running'
    BY <1>4 DEF WorkerTake, WorkerLock, WorkerSkip, WorkerArm, WorkerGoes, Configured, Arm, EndsHeld, Keep,
       Unmark
<1>5. ASSUME WorkerStart \/ WorkerWaited
    PROVE  Running'
    BY <1>5 DEF WorkerStart, WorkerWaited, Wait, WorkerGoes, Idle, Deselect, Abandon,
       Unmark, Idle, AfterSegment
<1>6. ASSUME WorkerTimeout \/ WorkerDrained
    PROVE  Running'
    BY <1>6 DEF WorkerTimeout, WorkerDrained, Idle, Abandon, Wait, WorkerGoes
<1>7. ASSUME
           WorkerRelease \/ WorkerRelock \/ WorkerSettle \/ WorkerClean \/ WorkerDone
           \/ WorkerCall
    PROVE  Running'
    BY <1>7 DEF WorkerRelease, WorkerRelock, WorkerSettle, WorkerClean, WorkerDone, EndsHeld, Keep,
       WorkerCall, Deselect, AfterSegment, WorkerGoes, Idle
<1>8. ASSUME NEW t \in {Sync, Worker}, WaitStep(t)
    PROVE  Running'
    BY <1>8 DEF WaitStep
<1>9. ASSUME NEW d \in Devices, Suspend(d) \/ Resume(d) \/ SetCfg(d) \/ Attach(d) \/ Detach(d)
                             \/ Deassert(d)
    PROVE  Running'
    BY <1>9 DEF Suspend, Resume, SetCfg, Attach, Detach, Deassert, Deselect, ControlTakes, Bounded, Configured
<1>10. ASSUME DetachUnbinds
    PROVE  Running'
    BY <1>10 DEF DetachUnbinds
<1>11. ASSUME Abort PROVE Running'
    BY <1>11 DEF Abort, ControlTakes, Bounded
<1>12. ASSUME AbortPosts PROVE Running'
    BY <1>12 DEF AbortPosts
<1>13. ASSUME Isr PROVE Running'
    BY <1>13 DEF Isr
<1>14. CASE UNCHANGED vars
    BY <1>14 DEF vars
<1>. QED
    BY <1>1, <1>2, <1>3, <1>4, <1>5, <1>6, <1>7, <1>8, <1>9, <1>10, <1>11, <1>12, <1>13,
       <1>14 DEF Next, SyncStep, WorkerStep, ControlCall

-----------------------------------------------------------------------------
(* The completion of the bus *)

\* What a step of the bus may do to the completion.
EventMove ==
    \/ UNCHANGED event
    \/ \E t \in {Sync, Worker} :
         Event!WaitCall(t) \/ Event!WaiterStep(t) \/ Forget(t)
    \/ Event!DoneCall(Control) \/ Event!PosterStep(Control) \/ Event!DoneFromIsr

LEMMA EventMoves ==
    ASSUME [Next]_vars
    PROVE  EventMove
<1> USE DEF EventMove
<1>1. ASSUME NEW d \in Devices, SyncCall(d) \/ AsyncCall(d)
    PROVE  EventMove
    BY <1>1 DEF SyncCall, AsyncCall
<1>2. ASSUME SyncLock \/ SyncArm
    PROVE  EventMove
    BY <1>2 DEF SyncLock, SyncArm, Configured, SyncReturns, Arm, Unmark
<1>3. ASSUME SyncStart \/ SyncTimeout \/ WorkerStart \/ WorkerTimeout
    PROVE  EventMove
    BY <1>3 DEF SyncStart, SyncTimeout, WorkerStart, WorkerTimeout, Wait, Idle,
       Deselect, SyncReturns, Idle, Abandon, WorkerGoes
<1>4. ASSUME SyncWaited \/ SyncDrained \/ WorkerWaited \/ WorkerDrained
    PROVE  EventMove
    BY <1>4 DEF SyncWaited, SyncDrained, WorkerWaited, WorkerDrained, Idle, Abandon, Keep,
       Unmark, Deselect, SyncReturns, WorkerGoes, AfterSegment
<1>5. ASSUME WorkerTake \/ WorkerLock \/ WorkerSkip \/ WorkerArm
    PROVE  EventMove
    BY <1>5 DEF WorkerTake, WorkerLock, WorkerSkip, WorkerArm, WorkerGoes, Configured, Arm, EndsHeld, Keep,
       Unmark
<1>6. ASSUME
           WorkerRelease \/ WorkerRelock \/ WorkerSettle \/ WorkerClean \/ WorkerDone
           \/ WorkerCall
    PROVE  EventMove
    BY <1>6 DEF WorkerRelease, WorkerRelock, WorkerSettle, WorkerClean, WorkerDone, EndsHeld, Keep,
       WorkerCall, Deselect, AfterSegment, WorkerGoes, Idle
<1>7. ASSUME NEW t \in {Sync, Worker}, WaitStep(t)
    PROVE  EventMove
    BY <1>7 DEF WaitStep
<1>8. ASSUME NEW d \in Devices, Suspend(d) \/ Resume(d) \/ SetCfg(d) \/ Attach(d) \/ Detach(d)
                             \/ Deassert(d)
    PROVE  EventMove
    BY <1>8 DEF Suspend, Resume, SetCfg, Attach, Detach, Deassert, Deselect, ControlTakes, Bounded, Configured
<1>9. ASSUME Abort \/ DetachUnbinds \/ AbortPosts \/ Isr
    PROVE  EventMove
    BY <1>9 DEF Abort, DetachUnbinds, AbortPosts, Isr, ControlTakes, Bounded
<1>10. CASE UNCHANGED vars
    BY <1>10 DEF vars
<1>. QED
    BY <1>1, <1>2, <1>3, <1>4, <1>5, <1>6, <1>7, <1>8, <1>9, <1>10 DEF Next, SyncStep,
       WorkerStep, ControlCall

LEMMA EventStep ==
    ASSUME EventProofs!IInv, [Next]_vars
    PROVE  EventProofs!IInv'
BY EventMoves, EventKept DEF EventMove

LEMMA InsideStep ==
    ASSUME TypeOK, EventProofs!IInv, Owners, Apart, Inside, [Next]_vars
    PROVE  Inside'
<1>0. /\ wpc = [t \in {Sync, Worker} |-> wpc[t]] /\ wret = [t \in {Sync, Worker} |-> wret[t]]
      /\ dpc = [p \in {Control} |-> dpc[p]] /\ tmo = [t \in {Sync, Worker} |-> tmo[t]]
    BY DEF TypeOK, Event!TypeOK
<1> USE SpiAssumption, <1>0 DEF Owners, Apart, Inside, Polling, Quick, Closing, SyncIn, WorkerIn, Between, event,
       Forget, flag, cache, power, wires, selected, async, syncing, working, controlling
<1>1. ASSUME NEW d \in Devices, SyncCall(d) \/ AsyncCall(d)
    PROVE  Inside'
    BY <1>1 DEF SyncCall, AsyncCall
<1>2. ASSUME SyncLock \/ SyncArm
    PROVE  Inside'
    BY <1>2 DEF SyncLock, SyncArm, Configured, SyncReturns, Arm, Unmark
<1>3. ASSUME WorkerTake \/ WorkerLock \/ WorkerSkip \/ WorkerArm
    PROVE  Inside'
    BY <1>3 DEF WorkerTake, WorkerLock, WorkerSkip, WorkerArm, WorkerGoes, Configured, Arm, EndsHeld, Keep,
       Unmark
<1>4. ASSUME
           WorkerRelease \/ WorkerRelock \/ WorkerSettle \/ WorkerClean \/ WorkerDone
           \/ WorkerCall
    PROVE  Inside'
    BY <1>4 DEF WorkerRelease, WorkerRelock, WorkerSettle, WorkerClean, WorkerDone, EndsHeld, Keep,
       WorkerCall, Deselect, AfterSegment, WorkerGoes, Idle
<1>5. ASSUME NEW d \in Devices, Suspend(d) \/ Resume(d) \/ SetCfg(d) \/ Attach(d) \/ Detach(d)
                             \/ Deassert(d)
    PROVE  Inside'
    BY <1>5 DEF Suspend, Resume, SetCfg, Attach, Detach, Deassert, Deselect, ControlTakes, Bounded, Configured
<1>6. ASSUME DetachUnbinds
    PROVE  Inside'
    BY <1>6 DEF DetachUnbinds
<1>7. ASSUME SyncStart PROVE Inside'
  <2>1. CASE Wait(Sync, "finite")
    <3>1. /\ wpc[Sync] = "out" /\ wpc' = [wpc EXCEPT ![Sync] = "snap"]
          /\ wret' = [wret EXCEPT ![Sync] = "none"] /\ dpc' = dpc
          /\ tmo' = [tmo EXCEPT ![Sync] = "finite"]
          /\ crowded' = (crowded \/ \E u \in {Sync, Worker} \ {Sync} : wpc[u] # "out")
      BY <2>1 DEF Wait, Event!WaitCall, Event!posting
    <3>. QED
      BY <1>7, <3>1 DEF SyncStart, SyncReturns
  <2>2. CASE UNCHANGED event /\ SyncReturns
    BY <1>7, <2>2 DEF SyncStart, SyncReturns
  <2>. QED
    BY <1>7, <2>1, <2>2 DEF SyncStart
<1>8. ASSUME SyncWaited PROVE Inside'
  <2>1. wret' = [wret EXCEPT ![Sync] = "none"] /\ UNCHANGED <<wpc, tmo, dpc, crowded>>
    BY <1>8 DEF SyncWaited, Forget, Keep
  <2>. QED
    BY <1>8, <2>1 DEF SyncWaited, Ended, SyncReturns, Keep
<1>9. ASSUME SyncTimeout PROVE Inside'
  <2>1. /\ wpc[Sync] = "out" /\ wpc' = [wpc EXCEPT ![Sync] = "snap"]
        /\ wret' = [wret EXCEPT ![Sync] = "none"] /\ dpc' = dpc
        /\ tmo' = [tmo EXCEPT ![Sync] = "zero"]
        /\ crowded' = (crowded \/ \E u \in {Sync, Worker} \ {Sync} : wpc[u] # "out")
    BY <1>9 DEF SyncTimeout, Wait, Event!WaitCall, Event!posting
  <2>. QED
    BY <1>9, <2>1 DEF SyncTimeout, Idle
<1>10. ASSUME SyncDrained PROVE Inside'
  <2>1. wret' = [wret EXCEPT ![Sync] = "none"] /\ UNCHANGED <<wpc, tmo, dpc, crowded>>
    BY <1>10 DEF SyncDrained, Forget
  <2>. QED
    BY <1>10, <2>1 DEF SyncDrained, SyncReturns
<1>11. ASSUME WorkerStart PROVE Inside'
  <2>1. CASE Wait(Worker, "finite")
    <3>1. /\ wpc[Worker] = "out" /\ wpc' = [wpc EXCEPT ![Worker] = "snap"]
          /\ wret' = [wret EXCEPT ![Worker] = "none"] /\ dpc' = dpc
          /\ tmo' = [tmo EXCEPT ![Worker] = "finite"]
          /\ crowded' = (crowded \/ \E u \in {Sync, Worker} \ {Worker} : wpc[u] # "out")
      BY <2>1 DEF Wait, Event!WaitCall, Event!posting
    <3>. QED
      BY <1>11, <3>1 DEF WorkerStart, WorkerGoes
  <2>2. CASE UNCHANGED event /\ apc' = "done"
    BY <1>11, <2>2 DEF WorkerStart, WorkerGoes
  <2>. QED
    BY <1>11, <2>1, <2>2 DEF WorkerStart, WorkerGoes
<1>12. ASSUME WorkerWaited PROVE Inside'
  <2>1. wret' = [wret EXCEPT ![Worker] = "none"] /\ UNCHANGED <<wpc, tmo, dpc, crowded>>
    BY <1>12 DEF WorkerWaited, Forget
  <2>. QED
    BY <1>12, <2>1 DEF WorkerWaited, Ended, WorkerGoes, AfterSegment
<1>13. ASSUME WorkerTimeout PROVE Inside'
  <2>1. /\ wpc[Worker] = "out" /\ wpc' = [wpc EXCEPT ![Worker] = "snap"]
        /\ wret' = [wret EXCEPT ![Worker] = "none"] /\ dpc' = dpc
        /\ tmo' = [tmo EXCEPT ![Worker] = "zero"]
        /\ crowded' = (crowded \/ \E u \in {Sync, Worker} \ {Worker} : wpc[u] # "out")
    BY <1>13 DEF WorkerTimeout, Wait, Event!WaitCall, Event!posting
  <2>. QED
    BY <1>13, <2>1 DEF WorkerTimeout, WorkerGoes
<1>14. ASSUME WorkerDrained PROVE Inside'
  <2>1. wret' = [wret EXCEPT ![Worker] = "none"] /\ UNCHANGED <<wpc, tmo, dpc, crowded>>
    BY <1>14 DEF WorkerDrained, Forget
  <2>. QED
    BY <1>14, <2>1 DEF WorkerDrained, WorkerGoes
<1>15. ASSUME NEW t \in {Sync, Worker}, WaitStep(t) PROVE Inside'
  <2>1. WaiterEffect(t) /\ UNCHANGED <<spc, apc, cpc>>
    BY <1>15, WaiterSteps DEF WaitStep
  <2>. QED
    BY <2>1 DEF WaiterEffect
<1>16. ASSUME Abort PROVE Inside'
  <2>1. /\ UNCHANGED <<wpc, wret, tmo, crowded, spc, apc>>
        /\ dpc'[Control] # "out" => cpc' = "abort"
    BY <1>16 DEF Abort, ControlTakes, Event!DoneCall, Event!waiting
  <2>. QED
    BY <2>1
<1>17. ASSUME AbortPosts PROVE Inside'
  <2>1. /\ UNCHANGED <<wpc, wret, tmo, crowded, spc, apc>>
        /\ dpc'[Control] # "out" => cpc' = "abort"
    BY <1>17 DEF AbortPosts, Event!PosterStep, Event!DoneSwap, Event!Aim, Event!Post,
            Event!waiting, Event!history
  <2>. QED
    BY <2>1
<1>18. ASSUME Isr PROVE Inside'
  <2>1. UNCHANGED <<wpc, wret, tmo, dpc, crowded, spc, apc, cpc>>
    BY <1>18 DEF Isr, Event!DoneFromIsr, Event!waiting, Event!posting
  <2>. QED
    BY <2>1
<1>19. CASE UNCHANGED vars
    BY <1>19 DEF vars
<1>. QED
    BY <1>1, <1>2, <1>3, <1>4, <1>5, <1>6, <1>7, <1>8, <1>9, <1>10, <1>11, <1>12, <1>13,
       <1>14, <1>15, <1>16, <1>17, <1>18, <1>19 DEF Next, SyncStep, WorkerStep, ControlCall

LEMMA FreshStep ==
    ASSUME TypeOK, EventProofs!IInv, EventProofs!IInv', Owners, Apart, BusyHeld, Inside,
           Running, Fresh, [Next]_vars
    PROVE  Fresh'
<1>0. /\ wpc = [t \in {Sync, Worker} |-> wpc[t]] /\ wret = [t \in {Sync, Worker} |-> wret[t]]
      /\ dpc = [p \in {Control} |-> dpc[p]]
      /\ DOMAIN last = {"ok", "of"}
    BY DEF TypeOK, Event!TypeOK
<1> USE SpiAssumption, <1>0 DEF Owners, Apart, BusyHeld, Inside, Running, Fresh, SyncIn,
       WorkerIn, Between, Quick, Closing, Ended, Event!Orderly, event, flag, cache, power,
       wires, selected, async, syncing, working, controlling
<1>1. ASSUME NEW d \in Devices, SyncCall(d) \/ AsyncCall(d)
    PROVE  Fresh'
    BY <1>1 DEF SyncCall, AsyncCall
<1>2. ASSUME SyncLock
    PROVE  Fresh'
    BY <1>2 DEF SyncLock, Configured, SyncReturns
<1>3. ASSUME WorkerTake \/ WorkerLock \/ WorkerSkip
    PROVE  Fresh'
    BY <1>3 DEF WorkerTake, WorkerLock, WorkerSkip, WorkerGoes, Configured, EndsHeld, Keep
<1>4. ASSUME
           WorkerRelease \/ WorkerRelock \/ WorkerSettle \/ WorkerClean \/ WorkerDone
           \/ WorkerCall
    PROVE  Fresh'
    BY <1>4 DEF WorkerRelease, WorkerRelock, WorkerSettle, WorkerClean, WorkerDone, EndsHeld, Keep,
       WorkerCall, Deselect, AfterSegment, WorkerGoes, Idle
<1>5. ASSUME NEW d \in Devices, Suspend(d) \/ Resume(d) \/ SetCfg(d) \/ Attach(d) \/ Detach(d)
                             \/ Deassert(d)
    PROVE  Fresh'
    BY <1>5 DEF Suspend, Resume, SetCfg, Attach, Detach, Deassert, Deselect, ControlTakes, Bounded, Configured
<1>6. ASSUME DetachUnbinds
    PROVE  Fresh'
    BY <1>6 DEF DetachUnbinds
<1>7. ASSUME SyncArm PROVE Fresh'
  <2>1. /\ spc = "arm" /\ spc' = "start" /\ apc' = apc /\ apc \notin {"start", "await"}
        /\ UNCHANGED event /\ spare' = spare /\ last'.of = NoOne
    BY <1>7 DEF SyncArm, Arm, Unmark
  <2>. QED
    BY <2>1
<1>8. ASSUME SyncStart PROVE Fresh'
  <2>1. CASE Wait(Sync, "finite") /\ spc' = "await" /\ spare' = spare
    <3>1. /\ wpc' = [wpc EXCEPT ![Sync] = "snap"] /\ wret' = [wret EXCEPT ![Sync] = "none"]
          /\ UNCHANGED <<dpc, status, unsent, last, apc>> /\ hw' = Sync /\ (crowded => crowded')
      BY <1>8, <2>1 DEF SyncStart, Wait, Event!WaitCall, Event!posting, Event!shared
    <3>2. spc = "start" /\ apc # "await"
      BY <1>8 DEF SyncStart
    <3>. QED
      BY <2>1, <3>1, <3>2
  <2>2. CASE Idle /\ UNCHANGED event /\ spc' \notin {"start", "await"}
    <3>1. UNCHANGED <<last, apc, hw>> /\ spc = "start" /\ spare' = spare
      BY <1>8, <2>2 DEF SyncStart, Idle
    <3>. QED
      BY <2>2, <3>1
  <2>. QED
    BY <1>8, <2>1, <2>2 DEF SyncStart, Idle, SyncReturns, WorkerGoes
<1>9. ASSUME SyncWaited PROVE Fresh'
  <2>1. /\ wret' = [wret EXCEPT ![Sync] = "none"] /\ last'.of = NoOne
        /\ UNCHANGED <<wpc, dpc, status, crowded, unsent, spare, apc>>
    BY <1>9 DEF SyncWaited, Forget, Unmark, Idle, Keep
  <2>2. spc = "await" /\ Ended(Sync) /\ wpc[Sync] = "out" /\ spc' \notin {"await", "start"}
    BY <1>9 DEF SyncWaited, Ended, SyncReturns, Keep
  <2>3. apc # "await"
    BY <2>2
  <2>4. Event!Orderly /\ ~spare => status # "DONE" /\ dpc[Control] = "out"
    BY <2>2, <2>3
  <2>. QED
    BY <2>1, <2>2, <2>3, <2>4
<1>10. ASSUME SyncTimeout PROVE Fresh'
  <2>1. /\ wpc' = [wpc EXCEPT ![Sync] = "snap"] /\ wret' = [wret EXCEPT ![Sync] = "none"]
        /\ UNCHANGED <<dpc, status, unsent, last, spare, apc>> /\ (crowded => crowded')
    BY <1>10 DEF SyncTimeout, Idle, Wait, Event!WaitCall, Event!posting, Event!shared
  <2>2. spc = "await" /\ spc' = "drain" /\ wpc[Sync] = "out"
    BY <1>10 DEF SyncTimeout, TimedOut, WorkerGoes
  <2>3. apc # "await"
    BY <2>2
  <2>. QED
    BY <2>1, <2>2, <2>3
<1>11. ASSUME SyncDrained PROVE Fresh'
  <2>1. /\ wret' = [wret EXCEPT ![Sync] = "none"]
        /\ UNCHANGED <<wpc, dpc, status, crowded, unsent, last, spare, apc, hw>>
    BY <1>11 DEF SyncDrained, Forget
  <2>2. spc = "drain" /\ wpc[Sync] = "out" /\ spc' \in {"out", "clean"}
    BY <1>11 DEF SyncDrained, SyncReturns
  <2>. QED
    BY <2>1, <2>2
<1>12. ASSUME WorkerArm PROVE Fresh'
  <2>1. /\ apc = "arm" /\ apc' = "start" /\ spc' = spc /\ ~SyncIn
        /\ UNCHANGED event /\ spare' = spare /\ last'.of = NoOne
    BY <1>12 DEF WorkerArm, Arm, Unmark
  <2>. QED
    BY <2>1
<1>13. ASSUME WorkerStart PROVE Fresh'
  <2>1. CASE Wait(Worker, "finite") /\ apc' = "await" /\ spare' = spare
    <3>1. /\ wpc' = [wpc EXCEPT ![Worker] = "snap"] /\ wret' = [wret EXCEPT ![Worker] = "none"]
          /\ UNCHANGED <<dpc, status, unsent, last, spc>> /\ hw' = Worker /\ (crowded => crowded')
      BY <1>13, <2>1 DEF WorkerStart, Wait, Event!WaitCall, Event!posting, Event!shared
    <3>2. apc = "start" /\ ~SyncIn
      BY <1>13 DEF WorkerStart
    <3>. QED
      BY <2>1, <3>1, <3>2
  <2>2. CASE Idle /\ UNCHANGED event /\ apc' \notin {"start", "await"}
    <3>1. UNCHANGED <<last, spc, hw>> /\ apc = "start" /\ spare' = spare
      BY <1>13, <2>2 DEF WorkerStart, Idle
    <3>. QED
      BY <2>2, <3>1
  <2>. QED
    BY <1>13, <2>1, <2>2 DEF WorkerStart, Idle, SyncReturns, WorkerGoes
<1>14. ASSUME WorkerWaited PROVE Fresh'
  <2>1. /\ wret' = [wret EXCEPT ![Worker] = "none"] /\ last'.of = NoOne
        /\ UNCHANGED <<wpc, dpc, status, crowded, unsent, spare, spc>>
    BY <1>14 DEF WorkerWaited, Forget, Unmark, Idle
  <2>2. apc = "await" /\ Ended(Worker) /\ wpc[Worker] = "out" /\ apc' \notin {"await", "start"}
    BY <1>14 DEF WorkerWaited, Ended, WorkerGoes, AfterSegment
  <2>3. ~SyncIn
    BY <2>2
  <2>4. Event!Orderly /\ ~spare => status # "DONE"
    BY <2>2
  <2>. QED
    BY <2>1, <2>2, <2>3, <2>4
<1>15. ASSUME WorkerTimeout PROVE Fresh'
  <2>1. /\ wpc' = [wpc EXCEPT ![Worker] = "snap"] /\ wret' = [wret EXCEPT ![Worker] = "none"]
        /\ UNCHANGED <<dpc, status, unsent, last, spare, spc>> /\ (crowded => crowded')
    BY <1>15 DEF WorkerTimeout, Idle, Wait, Event!WaitCall, Event!posting, Event!shared
  <2>2. apc = "await" /\ apc' = "drain" /\ wpc[Worker] = "out"
    BY <1>15 DEF WorkerTimeout, TimedOut, WorkerGoes
  <2>3. ~SyncIn
    BY <2>2
  <2>. QED
    BY <2>1, <2>2, <2>3
<1>16. ASSUME WorkerDrained PROVE Fresh'
  <2>1. /\ wret' = [wret EXCEPT ![Worker] = "none"]
        /\ UNCHANGED <<wpc, dpc, status, crowded, unsent, last, spare, spc, hw>>
    BY <1>16 DEF WorkerDrained, Forget
  <2>2. apc = "drain" /\ wpc[Worker] = "out" /\ apc' \in {"out", "clean"}
    BY <1>16 DEF WorkerDrained, WorkerGoes
  <2>. QED
    BY <2>1, <2>2
<1>17. ASSUME NEW t \in {Sync, Worker}, WaitStep(t) PROVE Fresh'
  <2>1. WaiterEffect(t) /\ UNCHANGED <<spc, apc, last, spare, hw>>
    BY <1>17, WaiterSteps DEF WaitStep
  <2>2. SUFFICES ASSUME Event!Orderly', ~spare' PROVE Fresh'
    OBVIOUS
  <2>3. Event!Orderly /\ ~spare /\ dpc' = dpc
    BY <2>1, <2>2 DEF WaiterEffect
  <2>4. \A u \in {Sync, Worker} : wpc'[u] = "out" => wret'[u] # "ERROR"
    BY <2>2 DEF EventProofs!IInv, EventProofs!ErrorsNeedDisorder
  <2>5. \A u \in {Sync, Worker} : wret'[u] \in {"none", "OK", "BUSY", "TIMEOUT", "ERROR"}
    BY DEF EventProofs!IInv, EventProofs!TypeOK, EventProofs!Results
  <2>6. (wpc'[t] \in Closing \/ (wpc'[t] = "out" /\ wret'[t] # "TIMEOUT")) =>
          \/ wpc[t] \in Closing /\ status' = status
          \/ status = "DONE" /\ status' = "INIT"
    BY <2>1, <2>2, <2>3, <2>4, <2>5 DEF WaiterEffect
  <2>7. CASE t = Sync
    <3>1. spc \in {"await", "drain"} /\ apc # "await"
      BY <2>1, <2>7 DEF WaiterEffect
    <3>2. status = "DONE" => last.of # NoOne
      BY <2>3, <3>1
    <3>. QED
      BY <2>1, <2>2, <2>3, <2>6, <2>7, <3>1, <3>2 DEF WaiterEffect
  <2>8. CASE t = Worker
    <3>1. apc \in {"await", "drain"} /\ spc # "await"
      BY <2>1, <2>3, <2>8 DEF WaiterEffect
    <3>. QED
      BY <2>1, <2>2, <2>3, <2>6, <2>8, <3>1 DEF WaiterEffect
  <2>. QED
    BY <2>7, <2>8
<1>18. ASSUME Abort PROVE Fresh'
  <2>1. lock = NoOne /\ ~SyncIn /\ apc # "start" /\ UNCHANGED <<spc, apc>>
    BY <1>18 DEF Abort, ControlTakes
  <2>2. CASE ~busy
    <3>1. UNCHANGED <<event, last>> /\ (spare => spare') /\ spc # "await" /\ apc # "await"
      BY <1>18, <2>2 DEF Abort
    <3>. QED
      BY <2>1, <3>1
  <2>3. ASSUME busy, Event!Orderly', ~spare' PROVE Fresh'
    <3>1. Event!DoneCall(Control) /\ spare' = (spare \/ Surplus)
      BY <1>18, <2>3 DEF Abort
    <3>2. /\ UNCHANGED <<wpc, wret, crowded, unsent>>
          /\ status' \in {status, "DONE"}
          /\ dpc'[Control] # "out" => status \in {"WAIT", "WAITING"}
      BY <3>1 DEF Event!DoneCall, Event!DoneReturns, Event!waiting
    <3>3. ~spare /\ Event!Orderly /\ last.of = NoOne /\ apc = "await" /\ hw = Worker
      BY <2>1, <2>3, <3>1, <3>2 DEF Surplus
    <3>4. last'.of = Worker /\ hw' = NoOne
      BY <1>18, <2>3, <3>3 DEF Abort
    <3>5. wpc[Sync] = "out"
      BY <2>1
    <3>6. status \in {"WAIT", "WAITING"} => wpc[Worker] \in {"casWaiting", "sleep", "expired"}
      BY <3>3, <3>5 DEF EventProofs!IInv, EventProofs!Agree, EventProofs!WokenByDone,
                        EventProofs!Orderly
    <3>. QED
      BY <2>1, <3>2, <3>3, <3>4, <3>6
  <2>. QED
    BY <2>2, <2>3
<1>19. ASSUME AbortPosts PROVE Fresh'
  <2>1. /\ UNCHANGED <<wpc, wret, crowded, unsent, spc, apc, last, spare, hw>>
        /\ dpc[Control] # "out" /\ cpc = "abort"
        /\ status' = status \/ (status \in {"WAIT", "WAITING"} /\ status' = "DONE")
    BY <1>19 DEF AbortPosts, Event!PosterStep, Event!DoneSwap, Event!Aim, Event!Post,
            Event!waiting, Event!history, Event!shared
  <2>2. ~SyncIn /\ wpc[Sync] = "out"
    BY <2>1
  <2>3. CASE status' = status
    BY <2>1, <2>3
  <2>4. ASSUME Event!Orderly, ~spare, status \in {"WAIT", "WAITING"} PROVE Fresh'
    <3>1. wpc[Worker] \in {"casWaiting", "sleep", "expired", "woken"}
      BY <2>2, <2>4 DEF EventProofs!IInv, EventProofs!Agree
    <3>2. apc = "await" /\ last.of # NoOne
      BY <2>1, <2>4, <3>1 DEF Polling
    <3>. QED
      BY <2>1, <2>2, <3>1, <3>2
  <2>. QED
    BY <2>1, <2>3, <2>4
<1>20. ASSUME Isr PROVE Fresh'
  <2>1. UNCHANGED <<wpc, wret, dpc, crowded, unsent, spc, apc>> /\ hw # NoOne /\ hw' = NoOne
    BY <1>20 DEF Isr, Event!DoneFromIsr, Event!waiting, Event!posting
  <2>2. CASE ~busy
    <3>1. UNCHANGED <<event, last>> /\ (spare => spare') /\ spc # "await" /\ apc # "await"
      BY <1>20, <2>2 DEF Isr
    <3>. QED
      BY <2>1, <3>1
  <2>3. ASSUME busy, Event!Orderly', ~spare' PROVE Fresh'
    <3>1. spare' = (spare \/ Surplus) /\ last'.of = hw
      BY <1>20, <2>3 DEF Isr
    <3>2. /\ ~spare /\ Event!Orderly /\ last.of = NoOne
          /\ (hw = Sync /\ spc = "await") \/ (hw = Worker /\ apc = "await")
      BY <2>1, <2>3, <3>1 DEF Surplus
    <3>3. CASE hw = Sync /\ spc = "await"
      BY <2>1, <3>1, <3>2, <3>3
    <3>4. CASE hw = Worker /\ apc = "await"
      BY <2>1, <3>1, <3>2, <3>4
    <3>. QED
      BY <3>2, <3>3, <3>4
  <2>. QED
    BY <2>2, <2>3
<1>21. CASE UNCHANGED vars
    BY <1>21 DEF vars
<1>. QED
    BY <1>1, <1>2, <1>3, <1>4, <1>5, <1>6, <1>7, <1>8, <1>9, <1>10, <1>11, <1>12, <1>13,
       <1>14, <1>15, <1>16, <1>17, <1>18, <1>19, <1>20, <1>21 DEF Next, SyncStep,
       WorkerStep, ControlCall

-----------------------------------------------------------------------------
(* The invariant, and the properties of the bus *)

LEMMA InitInv == Init => IInv
<1> SUFFICES ASSUME Init PROVE IInv
    OBVIOUS
<1> USE SpiAssumption DEF Init
<1>1. EventProofs!IInv
  <2>1. EventProofs!Init
    BY DEF Event!Init, EventProofs!Init
  <2>. QED
    BY <2>1, EventAssumption, EventProofs!InitInv
<1>2. Event!TypeOK
    BY <1>1 DEF EventProofs!IInv, EventProofs!TypeOK, Event!TypeOK, EventProofs!Status,
                EventProofs!Results, Event!Status, Event!Results
<1>3. TypeOK
  <2>1. Flags
    BY DEF Flags
  <2>2. Places
    BY DEF Places
  <2>3. \A i \in 1..Len(queue) : queue[i] \in asyncBusy
    OBVIOUS
  <2>4. Sets
    BY <2>3 DEF Sets
  <2>. QED
    BY <1>2, <2>1, <2>2, <2>4, TypeParts
<1>4. Kinds /\ Owners /\ Apart /\ OneRequest
    BY DEF Kinds, Owners, Apart, OneRequest, SyncIn, Between
<1>5. Selected /\ BusyHeld /\ Cached
    BY DEF Selected, BusyHeld, Cached, SyncIn, WorkerIn, Between
<1>6. Counted
    BY FS_EmptySet DEF Counted, SyncIn
<1>7. Inside /\ Running
    BY DEF Event!Init, Inside, Running
<1>8. Fresh
    BY DEF Event!Init, Fresh, Ended
<1>. QED
    BY <1>1, <1>3, <1>4, <1>5, <1>6, <1>7, <1>8 DEF IInv

LEMMA StepInv ==
    ASSUME IInv, [Next]_vars
    PROVE  IInv'
<1>1. EventProofs!IInv'
    BY EventStep DEF IInv
<1>2. TypeOK' /\ Kinds' /\ Owners' /\ Apart' /\ OneRequest'
    BY <1>1, TypeStep, KindsStep, OwnersStep, ApartStep, OneRequestStep DEF IInv
<1>3. Selected' /\ BusyHeld' /\ Cached' /\ Counted'
    BY SelectedStep, BusyHeldStep, CachedStep, CountedStep DEF IInv
<1>4. Inside' /\ Running' /\ Fresh'
    BY <1>1, InsideStep, RunningStep, FreshStep DEF IInv
<1>. QED
    BY <1>1, <1>2, <1>3, <1>4 DEF IInv

(* Every step of the bus keeps the inductive invariant, for any number of devices
   and any messages, those that end with the device held selected included. *)
THEOREM Invariance == Spec => []IInv
<1>1. Init => IInv
    BY InitInv
<1>2. IInv /\ [Next]_vars => IInv'
    BY StepInv
<1>. QED
    BY <1>1, <1>2, PTL DEF Spec

(* Every variable keeps its type: the asynchronous slot of each queued device is
   taken, and the count of suspended devices never goes below zero. *)
THEOREM TypeCorrect == Spec => []TypeOK
<1>1. IInv => TypeOK
    BY DEF IInv
<1>. QED
    BY Invariance, <1>1, PTL

(* At most one device is selected at a time, whoever transfers, apart from the devices
   that messages ending in CS_HOLD left selected for their caller, and from the device
   of a failed asynchronous message before its cleanup. *)
THEOREM OneSelectedHolds == Spec => []OneSelected
<1>1. IInv => OneSelected
  <2> SUFFICES ASSUME IInv PROVE OneSelected
    OBVIOUS
  <2> DEFINE seen == cs \ (kept \cup IF apc \in {"drain", "clean"} THEN {adev} ELSE {})
  <2>1. \E d : seen \subseteq {d}
    BY SpiAssumption DEF IInv, Owners, Kinds, Selected, TypeOK, SyncIn, WorkerIn, Between
  <2>2. PICK d : seen \subseteq {d}
    BY <2>1
  <2>3. IsFiniteSet({d}) /\ Cardinality({d}) = 1 /\ seen \in SUBSET {d}
    BY <2>2, FS_Singleton
  <2>4. Cardinality(seen) <= 1
    <3> HIDE DEF seen
    <3>. QED
      BY <2>3, FS_Subset
  <2>. QED
    BY <2>4 DEF OneSelected
<1>. QED
    BY Invariance, <1>1, PTL

(* A segment that a wait reports ended was ended by its own interrupt, or an abort of
   its own transfer.  The drain after a timeout (lines 128 to 144 and 811) and busy keep
   away the done of an earlier one, except when it comes after the next segment was
   armed: `spare` excludes that late interrupt (busy is set again, and line 966 lets
   it through), and an abort made after the interrupt of the same segment; Orderly, a
   drain that meets another wait and a done taken before its signal was sent. *)
THEOREM OwnInterruptHolds == Spec => []OwnInterrupt
<1>1. IInv => OwnInterrupt
    BY DEF IInv, Fresh, OwnInterrupt
<1>. QED
    BY Invariance, <1>1, PTL

(* With the mutex free, busy is set exactly while an asynchronous message is between
   two of its segments, except after one that was ended early. *)
THEOREM BusyIsAsyncHolds == Spec => []BusyIsAsync
<1>1. IInv => BusyIsAsync
    BY SpiAssumption
       DEF IInv, TypeOK, Owners, BusyHeld, BusyIsAsync, SyncIn, WorkerIn, Between
<1>. QED
    BY Invariance, <1>1, PTL

(* A listed device transfers under its own present configuration on a controller that
   is on, but for the three ways around lastCfgDev that `doubtful` and the reset of
   lastCfgDev record. *)
THEOREM OwnConfigurationHolds == Spec => []OwnConfiguration
<1>1. IInv => OwnConfiguration
    BY DEF IInv, Cached, OwnConfiguration, SyncIn, WorkerIn
<1>. QED
    BY Invariance, <1>1, PTL

(* No listed device starts a transfer on a suspended controller, however suspend,
   resume, attach and detach are ordered, unless one of them lost the count. *)
THEOREM PoweredHolds == Spec => []Powered
<1>1. IInv => Powered
    BY DEF IInv, TypeOK, Counted, Powered, SyncIn
<1>. QED
    BY Invariance, <1>1, PTL

=============================================================================
