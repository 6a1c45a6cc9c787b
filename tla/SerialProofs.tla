---------------------------- MODULE SerialProofs ----------------------------
(***************************************************************************)
(* Proofs that a blocking read and a write of the serial driver keep their *)
(* safety properties, for any capacity of the ring, any lengths and any    *)
(* number of threads of SerialRxAssumption and SerialTxAssumption.  Both   *)
(* directions rest on what a step of the completion may do to the wait of  *)
(* the one caller (WaiterEffect, PosterEffect, RingEffect).  For a read,   *)
(* OwnDone says that a wait ends because something came, and Promised that *)
(* loadSize has not run out while the reader is not told.  For a write,    *)
(* SentEnds says that the FIFO and the hardware agree on what is being     *)
(* sent, AwaitsSent that the end of it is still to come for one who waits, *)
(* and Moving that on a port for non-blocking writes the bytes move on.    *)
(***************************************************************************)
EXTENDS SerialRx, SerialTx, TLAPS

EventProofs == INSTANCE CompletionProofs WITH
            Waiters <- Users, Posters <- {Suspender}, Backends <- FifoBackends,
            Sem <- FifoSem, None <- Nobody, MaxDone <- MaxWakes

LEMMA EventAssumption ==
    ASSUME SerialFifoAssumption
    PROVE  EventProofs!CompletionAssumption
BY DEF SerialFifoAssumption, EventProofs!CompletionAssumption

\* The completion of this module and the one that CompletionProofs speaks of.
LEMMA SameWait ==
    ASSUME NEW t
    PROVE  Cpt!WaitCall(t) => EventProofs!WaitCall(t)
BY DEF Cpt!WaitCall, EventProofs!WaitCall, Cpt!shared, EventProofs!shared,
       Cpt!posting, EventProofs!posting

LEMMA SameWaiterStep ==
    ASSUME NEW t
    PROVE  Cpt!WaiterStep(t) => EventProofs!WaiterStep(t)
<1> USE DEF Cpt!WaiterAt, EventProofs!WaiterAt, Cpt!InDone, EventProofs!InDone,
        Cpt!Sending, EventProofs!Sending, Cpt!Taking, EventProofs!Taking,
        Cpt!GoTo, EventProofs!GoTo, Cpt!WaitReturns, EventProofs!WaitReturns,
        Cpt!Consumed, EventProofs!Consumed, Cpt!shared, EventProofs!shared,
        Cpt!posting, EventProofs!posting, Cpt!Box, EventProofs!Box
<1>1. Cpt!Snap(t) => EventProofs!Snap(t)
    BY DEF Cpt!Snap, EventProofs!Snap
<1>2. Cpt!TakeDone(t) => EventProofs!TakeDone(t)
    BY DEF Cpt!TakeDone, EventProofs!TakeDone
<1>3. Cpt!Enroll(t) => EventProofs!Enroll(t)
    BY DEF Cpt!Enroll, EventProofs!Enroll
<1>4. Cpt!RegisterWait(t) => EventProofs!RegisterWait(t)
    BY DEF Cpt!RegisterWait, EventProofs!RegisterWait
<1>5. Cpt!RegisterFailed(t) => EventProofs!RegisterFailed(t)
    BY DEF Cpt!RegisterFailed, EventProofs!RegisterFailed
<1>6. Cpt!CommitWait(t) => EventProofs!CommitWait(t)
    BY DEF Cpt!CommitWait, EventProofs!CommitWait
<1>7. Cpt!LateDone(t) => EventProofs!LateDone(t)
    BY DEF Cpt!LateDone, EventProofs!LateDone
<1>8. Cpt!Odd(t) => EventProofs!Odd(t)
    BY DEF Cpt!Odd, EventProofs!Odd
<1>9. Cpt!Wake(t) => EventProofs!Wake(t)
    BY DEF Cpt!Wake, EventProofs!Wake
<1>10. Cpt!Expire(t) => EventProofs!Expire(t)
    BY DEF Cpt!Expire, EventProofs!Expire
<1>11. Cpt!Woken(t) => EventProofs!Woken(t)
    BY DEF Cpt!Woken, EventProofs!Woken
<1>12. Cpt!Expired(t) => EventProofs!Expired(t)
    BY DEF Cpt!Expired, EventProofs!Expired
<1>13. Cpt!Wipe(t) => EventProofs!Wipe(t)
    BY DEF Cpt!Wipe, EventProofs!Wipe
<1>14. Cpt!Drain(t) => EventProofs!Drain(t)
    BY DEF Cpt!Drain, EventProofs!Drain
<1>. QED
    BY <1>1, <1>2, <1>3, <1>4, <1>5, <1>6, <1>7, <1>8, <1>9, <1>10, <1>11, <1>12,
       <1>13, <1>14 DEF Cpt!WaiterStep, EventProofs!WaiterStep

LEMMA SameDone ==
    /\ Cpt!DoneCall(Suspender) => EventProofs!DoneCall(Suspender)
    /\ Cpt!PosterStep(Suspender) => EventProofs!PosterStep(Suspender)
    /\ Cpt!DoneFromIsr => EventProofs!DoneFromIsr
<1> USE DEF Cpt!DoneReturns, EventProofs!DoneReturns, Cpt!shared, EventProofs!shared,
        Cpt!waiting, EventProofs!waiting, Cpt!posting, EventProofs!posting,
        Cpt!history, EventProofs!history, Cpt!Box, EventProofs!Box
<1>1. Cpt!DoneCall(Suspender) => EventProofs!DoneCall(Suspender)
    BY DEF Cpt!DoneCall, EventProofs!DoneCall
<1>2. Cpt!DoneSwap(Suspender) => EventProofs!DoneSwap(Suspender)
    BY DEF Cpt!DoneSwap, EventProofs!DoneSwap
<1>3. Cpt!Aim(Suspender) => EventProofs!Aim(Suspender)
    BY DEF Cpt!Aim, EventProofs!Aim
<1>4. Cpt!Post(Suspender) => EventProofs!Post(Suspender)
    BY DEF Cpt!Post, EventProofs!Post
<1>5. Cpt!DoneFromIsr => EventProofs!DoneFromIsr
    BY DEF Cpt!DoneFromIsr, EventProofs!DoneFromIsr
<1>. QED
    BY <1>1, <1>2, <1>3, <1>4, <1>5 DEF Cpt!PosterStep, EventProofs!PosterStep

-----------------------------------------------------------------------------
(* What one step of the completion does *)

\* The types of the completion, in both instances.
LEMMA SameTypes == Cpt!TypeOK <=> EventProofs!TypeOK
BY DEF Cpt!TypeOK, EventProofs!TypeOK, Cpt!Status, EventProofs!Status,
       Cpt!Results, EventProofs!Results

LEMMA EventInit ==
    ASSUME SerialFifoAssumption, Cpt!Init
    PROVE  EventProofs!IInv
<1>1. EventProofs!Init
    BY DEF Cpt!Init, EventProofs!Init
<1>. QED
    BY <1>1, EventAssumption, EventProofs!InitInv

\* The steps of the completion that the driver takes.
EventStep ==
    \/ UNCHANGED eventVars
    \/ \E c \in Users : Cpt!WaitCall(c) \/ Cpt!WaiterStep(c)
    \/ Cpt!DoneCall(Suspender) \/ Cpt!PosterStep(Suspender) \/ Cpt!DoneFromIsr

\* Every step of the completion keeps its own invariant.
LEMMA EventKept ==
    ASSUME SerialFifoAssumption, EventProofs!IInv, EventStep
    PROVE  EventProofs!IInv'
<1>1. [EventProofs!Next]_(EventProofs!vars)
    BY SameWait, SameWaiterStep, SameDone
       DEF EventStep, eventVars, EventProofs!Next, EventProofs!vars, EventProofs!shared,
           EventProofs!waiting, EventProofs!posting, EventProofs!history
<1>. QED
    BY <1>1, EventAssumption, EventProofs!StepInv

Early == {"snap", "enroll", "casWait", "casWaiting", "sleep"}
Closing == {"wipe", "drain"}

\* The caller's wait has consumed a done.
Ended(c) == wpc[c] \in Closing \/ (wpc[c] = "out" /\ wret[c] = "OK")

\* The step of a waiter: in orderly use a done stays until the waiter ends for it.
WaiterEffect(c) ==
    /\ wpc[c] # "out"
    /\ \A u \in Users \ {c} : wpc'[u] = wpc[u]
    /\ crowded' = crowded /\ dpc' = dpc /\ (overtaken => overtaken')
    /\ dpc[Suspender] # "out" => overtaken'
    /\ ~overtaken' /\ ~crowded =>
         /\ status' = "DONE" => status = "DONE"
         /\ wpc'[c] \in Early => wpc[c] \in Early /\ (status = "DONE" => status' = "DONE")
         /\ Ended(c)' => wpc[c] \in Closing \/ status = "DONE"

\* The step of the thread that suspends: when its done call is over, a done is there.
PosterEffect ==
    /\ wpc' = wpc /\ wret' = wret /\ overtaken' = overtaken /\ crowded' = crowded
    /\ status = "DONE" => status' = "DONE"
    /\ dpc'[Suspender] = "out" /\ ~overtaken /\ ~crowded => status' = "DONE"

RingEffect ==
    /\ wpc' = wpc /\ wret' = wret /\ dpc' = dpc /\ overtaken' = overtaken
    /\ crowded' = crowded /\ status' = "DONE"

LEMMA WaiterSteps ==
    ASSUME EventProofs!IInv, NEW c \in Users, Cpt!WaiterStep(c)
    PROVE  WaiterEffect(c)
<1> USE DEF WaiterEffect, Early, Closing, Ended, Cpt!WaiterAt, Cpt!InDone, Cpt!GoTo,
        Cpt!WaitReturns, Cpt!Consumed, Cpt!shared, Cpt!posting, Cpt!Box,
        EventProofs!IInv, EventProofs!TypeOK, EventProofs!Solo, EventProofs!Agree,
        EventProofs!WokenByDone, EventProofs!Overtakes, EventProofs!Orderly,
        EventProofs!Status, EventProofs!Results
<1>1. CASE Cpt!Snap(c)
  <2>1. /\ wpc[c] \in {"snap", "resnap"} /\ status' = status
        /\ overtaken' = (overtaken \/ Cpt!InDone) /\ crowded' = crowded /\ dpc' = dpc
    BY <1>1 DEF Cpt!Snap
  <2>2. CASE Cpt!GoTo(c, "take") /\ status = "DONE" /\ wpc[c] = "snap"
    BY <2>1, <2>2
  <2>3. CASE Cpt!GoTo(c, "enroll") /\ status = "INIT"
    BY <2>1, <2>3
  <2>4. CASE Cpt!WaitReturns(c, "ERROR") /\ wpc[c] = "resnap"
    BY <2>1, <2>4
  <2>5. CASE Cpt!WaitReturns(c, "BUSY") /\ status \in {"WAIT", "WAITING"}
    BY <2>1, <2>5
  <2>6. CASE Cpt!WaitReturns(c, "TIMEOUT") /\ status = "INIT"
    BY <2>1, <2>6
  <2>. QED
    BY <1>1, <2>2, <2>3, <2>4, <2>5, <2>6 DEF Cpt!Snap
<1>2. CASE Cpt!TakeDone(c)
    BY <1>2 DEF Cpt!TakeDone
<1>3. CASE Cpt!Enroll(c)
    BY <1>3 DEF Cpt!Enroll
<1>4. CASE Cpt!RegisterWait(c)
    BY <1>4 DEF Cpt!RegisterWait
<1>5. CASE Cpt!RegisterFailed(c)
  <2>1. CASE wpc[c] = "undoDone" /\ status = "DONE" /\ Cpt!Consumed(c, "drain")
    BY <1>5, <2>1 DEF Cpt!RegisterFailed
  <2>2. CASE wpc[c] = "undoDone" /\ status # "DONE"
    BY <1>5, <2>2 DEF Cpt!RegisterFailed
  <2>3. CASE wpc[c] = "undoBusy"
    BY <1>5, <2>3 DEF Cpt!RegisterFailed
  <2>. QED
    BY <1>5, <2>1, <2>2, <2>3 DEF Cpt!RegisterFailed
<1>6. CASE Cpt!CommitWait(c)
    BY <1>6 DEF Cpt!CommitWait
<1>7. CASE Cpt!LateDone(c)
    BY <1>7 DEF Cpt!LateDone
<1>8. CASE Cpt!Odd(c)
    BY <1>8 DEF Cpt!Odd
<1>9. CASE Cpt!Wake(c)
    BY <1>9 DEF Cpt!Wake
<1>10. CASE Cpt!Expire(c)
    BY <1>10 DEF Cpt!Expire
<1>11. CASE Cpt!Woken(c)
  <2>1. /\ wpc[c] \in {"woken", "lateTimeout"} /\ status' = "INIT"
        /\ overtaken' = (overtaken \/ Cpt!InDone) /\ crowded' = crowded /\ dpc' = dpc
        /\ Cpt!GoTo(c, "drain") \/ Cpt!WaitReturns(c, "OK")
    BY <1>11 DEF Cpt!Woken
  <2>2. CASE Cpt!GoTo(c, "drain")
    BY <2>1, <2>2
  <2>3. CASE Cpt!WaitReturns(c, "OK")
    BY <2>1, <2>3
  <2>. QED
    BY <2>1, <2>2, <2>3
<1>12. CASE Cpt!Expired(c)
    BY <1>12 DEF Cpt!Expired
<1>13. CASE Cpt!Wipe(c)
    BY <1>13 DEF Cpt!Wipe
<1>14. CASE Cpt!Drain(c)
    BY <1>14 DEF Cpt!Drain
<1>. QED
    BY <1>1, <1>2, <1>3, <1>4, <1>5, <1>6, <1>7, <1>8, <1>9, <1>10, <1>11, <1>12, <1>13, <1>14
       DEF Cpt!WaiterStep

LEMMA PosterSteps ==
    ASSUME EventProofs!IInv,
           Cpt!DoneCall(Suspender) \/ Cpt!PosterStep(Suspender)
    PROVE  PosterEffect
<1> USE DEF PosterEffect, Cpt!DoneReturns, Cpt!shared, Cpt!waiting, Cpt!history,
        EventProofs!IInv, EventProofs!TypeOK, EventProofs!InFlight,
        EventProofs!Undisturbed, EventProofs!Status
<1>1. CASE Cpt!DoneCall(Suspender)
    BY <1>1 DEF Cpt!DoneCall
<1>2. CASE Cpt!DoneSwap(Suspender)
    BY <1>2 DEF Cpt!DoneSwap
<1>3. CASE Cpt!Aim(Suspender)
    BY <1>3 DEF Cpt!Aim
<1>4. CASE Cpt!Post(Suspender)
    BY <1>4 DEF Cpt!Post
<1>. QED
    BY <1>1, <1>2, <1>3, <1>4 DEF Cpt!PosterStep

LEMMA RingSteps ==
    ASSUME Ring
    PROVE  RingEffect
BY DEF Ring, RingEffect, Cpt!DoneFromIsr, Cpt!waiting, Cpt!posting, eventVars

-----------------------------------------------------------------------------
(* What holds of both directions *)

\* Only the call in progress waits, and a suspension is under way only while
\* the port is suspended.
Inside ==
    /\ ~crowded
    /\ \A c \in Users : wpc[c] # "out" => user = c /\ place = "waiting"
    /\ spc # "signal" => dpc[Suspender] = "out"
    /\ spc # "out" => suspended

LEMMA InsideInit ==
    ASSUME FifoInit, Cpt!Init
    PROVE  Inside
BY DEF FifoInit, Cpt!Init, Inside

LEMMA FifoTypesInit ==
    ASSUME FifoInit, Cpt!TypeOK
    PROVE  FifoTypeOK
<1>1. busy \in BOOLEAN /\ suspended \in BOOLEAN /\ stale \in BOOLEAN
    BY Zenon DEF FifoInit
<1>. QED
    BY <1>1 DEF FifoTypeOK, FifoInit

\* A step of the call that is not one of its wait.
Off == place # "waiting" /\ UNCHANGED <<port, eventVars>>

\* A step of an interrupt handler.
Rung == UNCHANGED <<port, user, place>> /\ (UNCHANGED eventVars \/ RingEffect)

\* Every step of the driver, for what holds of both directions.
SuspenderStep ==
    \/ Suspend \/ StopPort(TRUE) \/ StopPort(FALSE) \/ Abort \/ AbortDone \/ AbortSignal
    \/ Aborted \/ Resume

FifoStep ==
    \/ Off \/ BeginWait \/ Waited \/ (\E c \in Users : CallWaits(c))
    \/ Rung \/ SuspenderStep

LEMMA InsideKept ==
    ASSUME SerialFifoAssumption, EventProofs!IInv, FifoTypeOK, Inside, FifoStep
    PROVE  Inside'
<1> USE DEF Inside, FifoTypeOK
<1>1. CASE Off
    BY <1>1 DEF Off, port, eventVars
<1>2. CASE BeginWait
  <2>1. /\ user \in Users /\ user' = user /\ place' = "waiting" /\ UNCHANGED port
        /\ Cpt!WaitCall(user)
    BY <1>2 DEF BeginWait, CallMoves, SerialFifoAssumption
  <2>2. wpc' = [wpc EXCEPT ![user] = "snap"] /\ dpc' = dpc
    BY <2>1 DEF Cpt!WaitCall, Cpt!posting
  <2>3. \A c \in Users : wpc[c] = "out"
    BY <1>2 DEF BeginWait, CallMoves
  <2>4. ~crowded'
    BY <2>1, <2>3, Zenon DEF Cpt!WaitCall
  <2>5. \A c \in Users : wpc'[c] # "out" => c = user
    BY <2>2, <2>3 DEF EventProofs!IInv, EventProofs!TypeOK
  <2>. QED
    BY <2>1, <2>2, <2>4, <2>5 DEF port
<1>3. CASE Waited
    BY <1>3 DEF Waited, CallMoves, port, eventVars
<1>4. ASSUME NEW c \in Users, CallWaits(c) PROVE Inside'
  <2>1. WaiterEffect(c) /\ UNCHANGED <<port, user, place>>
    BY <1>4, WaiterSteps DEF CallWaits
  <2>2. user = c /\ place = "waiting" /\ \A u \in Users \ {c} : wpc'[u] = "out"
    BY <2>1 DEF WaiterEffect
  <2>. QED
    BY <2>1, <2>2 DEF WaiterEffect, port
<1>5. CASE Rung
    BY <1>5 DEF Rung, RingEffect, port, eventVars
<1>6. CASE Suspend \/ StopPort(TRUE) \/ StopPort(FALSE) \/ Abort \/ Aborted \/ Resume
    BY <1>6 DEF Suspend, StopPort, Abort, Aborted, Resume, port, fifo, eventVars
<1>7. CASE AbortDone \/ AbortSignal
  <2>1. PosterEffect /\ spc' = "signal" /\ UNCHANGED <<suspended, user, place>>
    BY <1>7, PosterSteps DEF AbortDone, AbortSignal, port
  <2>2. suspended
    BY <1>7 DEF AbortDone, AbortSignal
  <2>. QED
    BY <2>1, <2>2 DEF PosterEffect
<1>. QED
    BY <1>1, <1>2, <1>3, <1>4, <1>5, <1>6, <1>7 DEF FifoStep, SuspenderStep

LEMMA BeginEffect ==
    ASSUME SerialFifoAssumption, FifoTypeOK, BeginWait
    PROVE  /\ user \in Users /\ user' = user
           /\ wpc'[user] = "snap" /\ status' = status /\ dpc' = dpc /\ overtaken' = overtaken
<1>1. user \in Users /\ user' = user /\ Cpt!WaitCall(user)
    BY DEF SerialFifoAssumption, FifoTypeOK, BeginWait, CallMoves
<1>2. user \in DOMAIN wpc
    BY <1>1 DEF FifoTypeOK, Cpt!TypeOK
<1>. QED
    BY <1>1, <1>2 DEF Cpt!WaitCall, Cpt!shared, Cpt!posting

LEMMA FifoKept ==
    ASSUME SerialFifoAssumption, EventProofs!IInv, FifoTypeOK, Inside, EventStep, FifoStep
    PROVE  EventProofs!IInv' /\ Cpt!TypeOK' /\ Inside'
<1>1. EventProofs!IInv' /\ Inside'
    BY EventKept, InsideKept
<1>2. (Cpt!TypeOK <=> EventProofs!TypeOK)'
    BY SameTypes, PTL
<1>. QED
    BY <1>1, <1>2 DEF EventProofs!IInv

-----------------------------------------------------------------------------
(* Blocking reads: the inductive invariant *)

Announced == {"wait", "waiting", "judge", "reason", "ok", "count", "recount", "take",
              "nothing", "failed"}

\* How the amounts of the call relate.
Amounts ==
    /\ user # Nobody => want \in Requests
    /\ place \in {"out", "measure"} => total = 0
    /\ place \in Announced \cup {"excess"} => rdLen <= RxSize
    /\ place = "take" => rdLen <= stored
    /\ place \in Announced \ {"recount", "take", "nothing"} /\ rdLen = 0 =>
         remain = 0 \/ unseen = RxSize
    /\ ~surplus /\ place # "measure" =>
         /\ total + remain <= want + (IF place = "excess" THEN rdLen ELSE 0)
         /\ place \in Announced \cup {"excess"} => rdLen <= remain

\* What a done that is meant for the wait says: bytes came, or an error.
Came == stored > 0 \/ waitReason = "error"

OwnDone ==
    ~stale /\ ~overtaken =>
      /\ place \in Announced \ {"take", "nothing", "failed"} =>
           spc \in {"out", "stop", "abort"}
      /\ place \in {"wait", "waiting"} /\ status = "DONE" => Came
      /\ place = "waiting" /\ Ended(user) => Came
      /\ place \in {"judge", "reason"} => Came
      /\ place \in {"ok", "count", "recount"} => stored > 0
      /\ place = "nothing" => unseen = RxSize \/ remain = 0

\* The call has announced its wish and no done has ended its wait.
Waits == place = "wait" \/ (place = "waiting" /\ wpc[user] \in Early)

\* Some of what was announced is missing, or the wait is about to be ended.
Promised ==
    /\ Waits /\ ~overtaken =>
         \/ rdLen = 0 \/ status = "DONE" \/ dpc[Suspender] # "out"
         \/ busy /\ loadSize > 0 /\ stored <= unseen + rdLen - loadSize
         \/ spc = "done" /\ stored < unseen + rdLen
    /\ /\ Waits \/ place = "load"
       /\ ~overtaken /\ suspended /\ dpc[Suspender] = "out" /\ spc \in {"out", "signal"}
       => status = "DONE"

ReadInv == EventProofs!IInv /\ ReadTypeOK /\ Inside /\ Amounts /\ OwnDone /\ Promised

LEMMA ReadInvInit ==
    ASSUME SerialRxAssumption, ReadInit
    PROVE  ReadInv
<1>1. EventProofs!IInv /\ Cpt!TypeOK /\ Inside
    BY EventInit, SameTypes, InsideInit DEF SerialRxAssumption, ReadInit, EventProofs!IInv
<1>2. ReadTypeOK
  <2>1. RxSize \in Nat \ {0} /\ MaxExcess \in Nat /\ SizeWidth \in Nat /\ 2 * RxSize < SizeWidth
    BY DEF SerialRxAssumption
  <2>2. FifoTypeOK
    BY <1>1, FifoTypesInit DEF ReadInit
  <2>3. surplus \in BOOLEAN
    BY Zenon DEF ReadInit, ReaderInit
  <2>. QED
    BY <2>1, <2>2, <2>3 DEF ReadTypeOK, ReadInit, FifoInit, ReaderInit
<1>3. Amounts /\ OwnDone /\ Promised
    BY DEF Amounts, OwnDone, Promised, Waits, Announced, ReadInit, FifoInit, ReaderInit
<1>. QED
    BY <1>1, <1>2, <1>3 DEF ReadInv

\* Every step is one of the completion or leaves it alone.
LEMMA ReadEvent ==
    ASSUME SerialRxAssumption, ReadInv, [ReadNext]_readVars
    PROVE  EventProofs!IInv' /\ Cpt!TypeOK' /\ Inside'
<1> USE DEF ReadInv
<1>0. SerialFifoAssumption /\ FifoTypeOK
    BY DEF ReadTypeOK, SerialRxAssumption
<1>. SUFFICES EventStep /\ FifoStep
    BY <1>0, FifoKept
<1>1. CASE Measure \/ ReadCheck \/ ReadLoad \/ ReadIdle \/ Compare \/ Recount \/ Nothing
           \/ ReadTake \/ Excess \/ Judge \/ ClearReason
           \/ \E c \in Users : \E n \in Requests : Read(c, n)
  <2>1. Off
    BY <1>1, <1>0 DEF Measure, ReadCheck, ReadLoad, ReadIdle, Compare, Recount, Nothing, ReadTake,
                      Excess, Judge, ClearReason, Read, CallMoves, Off, port, FifoTypeOK
  <2>. QED
    BY <2>1 DEF Off, EventStep, FifoStep
<1>2. CASE \E c \in Users : CallWaits(c)
    BY <1>2 DEF CallWaits, EventStep, FifoStep
<1>3. CASE BeginWait
  <2>1. user \in Users /\ Cpt!WaitCall(user)
    BY <1>0, <1>3 DEF BeginWait, CallMoves, FifoTypeOK
  <2>. QED
    BY <1>3, <2>1 DEF EventStep, FifoStep
<1>4. CASE Waited
    BY <1>4 DEF Waited, EventStep, FifoStep
<1>5. CASE RxLineError \/ \E n \in 1 .. RxSize : Receive(n)
  <2>1. UNCHANGED <<port, user, place>> /\ (UNCHANGED eventVars \/ Ring)
    BY <1>5 DEF RxLineError, Receive
  <2>. QED
    BY <2>1, RingSteps DEF Rung, Ring, EventStep, FifoStep
<1>6. CASE RxSuspendStep
    BY <1>6 DEF RxSuspendStep, Suspend, StopPort, Abort, AbortDone, AbortSignal, Aborted, Resume,
                SuspenderStep, EventStep, FifoStep
<1>7. CASE UNCHANGED readVars
    BY <1>7 DEF readVars, fifoVars, Rung, EventStep, FifoStep
<1>. QED
    BY <1>1, <1>2, <1>3, <1>4, <1>5, <1>6, <1>7 DEF ReadNext, ReaderStep, AbortableWait

LEMMA RestOfWant ==
    ASSUME NEW m \in Nat, NEW n \in Nat, NEW w \in Nat, m < w, n < w
    PROVE  /\ (m - n) % w \in 0 .. w - 1
           /\ n <= m => (m - n) % w = m - n
OBVIOUS

LEMMA ReadTypes ==
    ASSUME SerialRxAssumption, ReadTypeOK, Inside, Amounts, Cpt!TypeOK', [ReadNext]_readVars
    PROVE  ReadTypeOK' /\ Amounts'
<1> USE DEF ReadTypeOK, FifoTypeOK, Amounts, Announced, fifo, port, read, CallMoves, Return
<1>0. /\ RxSize \in Nat \ {0} /\ Requests \subseteq Nat \ {0} /\ MaxExcess \in Nat
      /\ SizeWidth \in Nat /\ 2 * RxSize < SizeWidth /\ \A n \in Requests : 2 * n < SizeWidth
      /\ Nobody \notin Users
    BY DEF SerialRxAssumption, SerialFifoAssumption
<1>1. ASSUME NEW c \in Users, NEW n \in Requests, Read(c, n) PROVE ReadTypeOK' /\ Amounts'
  <2>1. CASE stored >= n
    BY <1>0, <1>1, <2>1 DEF Read
  <2>2. CASE stored < n
    BY <1>0, <1>1, <2>2 DEF Read
  <2>. QED
    BY <1>0, <1>1, <2>1, <2>2 DEF Read
<1>2. CASE Measure
  <2>1. user \in Users /\ want \in Requests /\ 2 * want < SizeWidth
    BY <1>0, <1>2 DEF Measure
  <2>2. /\ (want - stored) % SizeWidth \in 0 .. SizeWidth - 1
        /\ stored <= want => (want - stored) % SizeWidth = want - stored
    BY <1>0, <2>1, RestOfWant
  <2>3. ~surplus' => ~(stored > want)
    BY <1>2, Zenon DEF Measure
  <2>4. surplus' \in BOOLEAN
    BY <1>2 DEF Measure
  <2>. QED
    BY <1>0, <1>2, <2>1, <2>2, <2>3, <2>4 DEF Measure
<1>3. CASE ReadCheck
  <2>1. busy' \in BOOLEAN /\ suspended' \in BOOLEAN /\ stale' \in BOOLEAN /\ surplus' \in BOOLEAN
    BY <1>3, Zenon DEF ReadCheck, ReadLeave
  <2>. QED
    BY <1>0, <1>3, <2>1 DEF ReadCheck, ReadLeave
<1>4. CASE ReadLoad
    BY <1>0, <1>4 DEF ReadLoad, Lesser, Leftover
<1>5. CASE ReadIdle
  <2>1. busy' \in BOOLEAN /\ suspended' \in BOOLEAN /\ stale' \in BOOLEAN /\ surplus' \in BOOLEAN
    BY <1>5, Zenon DEF ReadIdle, ReadLeave
  <2>. QED
    BY <1>0, <1>5, <2>1 DEF ReadIdle, ReadLeave
<1>6. CASE Compare
    BY <1>0, <1>6 DEF Compare
<1>7. CASE Recount
  <2>1. busy' \in BOOLEAN /\ suspended' \in BOOLEAN /\ stale' \in BOOLEAN /\ surplus' \in BOOLEAN
    BY <1>7, Zenon DEF Recount
  <2>2. ~surplus' => ~surplus /\ ~(stored > rdLen)
    BY <1>7, Zenon DEF Recount
  <2>. QED
    BY <1>0, <1>7, <2>1, <2>2 DEF Recount
<1>8. CASE Nothing
  <2>1. busy' \in BOOLEAN /\ suspended' \in BOOLEAN /\ stale' \in BOOLEAN /\ surplus' \in BOOLEAN
    BY <1>8, Zenon DEF Nothing, ReadLeave
  <2>. QED
    BY <1>0, <1>8, <2>1 DEF Nothing, ReadLeave
<1>9. CASE ReadTake
    BY <1>0, <1>9 DEF ReadTake
<1>10. CASE Excess
  <2>1. busy' \in BOOLEAN /\ suspended' \in BOOLEAN /\ stale' \in BOOLEAN /\ surplus' \in BOOLEAN
    BY <1>10, Zenon DEF Excess, ReadLeave
  <2>. QED
    BY <1>0, <1>10, <2>1 DEF Excess, ReadLeave
<1>11. ASSUME AbortableWait, UNCHANGED read PROVE ReadTypeOK' /\ Amounts'
    BY <1>0, <1>11 DEF AbortableWait, BeginWait, Waited, Judge, ClearReason
<1>12. ASSUME NEW n \in 1 .. RxSize, Receive(n) PROVE ReadTypeOK' /\ Amounts'
    BY <1>0, <1>12 DEF Receive, Lesser
<1>13. CASE RxLineError
  <2>1. busy' \in BOOLEAN /\ suspended' \in BOOLEAN /\ stale' \in BOOLEAN /\ surplus' \in BOOLEAN
    BY <1>13, Zenon DEF RxLineError, Abandon
  <2>. QED
    BY <1>0, <1>13, <2>1 DEF RxLineError, Abandon
<1>14. CASE RxSuspendStep
  <2>1. busy' \in BOOLEAN /\ suspended' \in BOOLEAN /\ stale' \in BOOLEAN /\ surplus' \in BOOLEAN
    BY <1>14, Zenon DEF RxSuspendStep, Suspend, StopPort, Abort, AbortDone, AbortSignal, Aborted,
                        Resume, Abandon
  <2>. QED
    BY <1>0, <1>14, <2>1 DEF RxSuspendStep, Suspend, StopPort, Abort, AbortDone, AbortSignal,
                             Aborted, Resume, Abandon
<1>15. ASSUME NEW c \in Users, CallWaits(c), UNCHANGED read PROVE ReadTypeOK' /\ Amounts'
    BY <1>0, <1>15 DEF CallWaits
<1>16. CASE UNCHANGED readVars
    BY <1>0, <1>16 DEF readVars, fifoVars
<1>. QED
    BY <1>1, <1>2, <1>3, <1>4, <1>5, <1>6, <1>7, <1>8, <1>9, <1>10, <1>11, <1>12, <1>13, <1>14,
       <1>15, <1>16
       DEF ReadNext, ReaderStep

LEMMA ReadOwnDone ==
    ASSUME SerialRxAssumption, ReadInv, [ReadNext]_readVars
    PROVE  OwnDone'
<1> USE DEF OwnDone, Announced, Came, Ended, fifo, port, eventVars, read, CallMoves, Return
<1>0. /\ RxSize \in Nat \ {0} /\ Nobody \notin Users
      /\ EventProofs!IInv /\ Inside /\ OwnDone /\ FifoTypeOK /\ SerialFifoAssumption
      /\ stored \in Nat /\ stored <= RxSize /\ rdLen \in Nat /\ (user = Nobody <=> place = "out")
      /\ user \in Users \cup {Nobody} /\ spc \in {"out", "stop", "abort", "done", "signal"}
    BY DEF SerialRxAssumption, SerialFifoAssumption, ReadInv, ReadTypeOK, FifoTypeOK
<1>1. ASSUME NEW c \in Users, NEW n \in Requests, Read(c, n) PROVE OwnDone'
    BY <1>0, <1>1 DEF Read
<1>2. CASE Measure
    BY <1>2 DEF Measure
<1>3. CASE ReadCheck
    BY <1>3 DEF ReadCheck, ReadLeave
<1>4. CASE ReadLoad
    BY <1>0, <1>4 DEF ReadLoad, Leftover
<1>5. CASE ReadIdle
    BY <1>0, <1>5 DEF ReadIdle, ReadLeave
<1>6. CASE Compare
  <2>1. place = "count" /\ rdLen = 0 => remain = 0 \/ unseen = RxSize
    BY DEF ReadInv, Amounts
  <2>2. stored < rdLen \/ stored >= rdLen
    BY <1>0
  <2>. QED
    BY <1>0, <1>6, <2>1, <2>2 DEF Compare
<1>7. CASE Recount
    BY <1>0, <1>7 DEF Recount
<1>8. CASE Nothing
    BY <1>8 DEF Nothing, ReadLeave
<1>9. CASE ReadTake
    BY <1>9 DEF ReadTake
<1>10. CASE Excess
    BY <1>10 DEF Excess, ReadLeave
<1>11. ASSUME BeginWait, UNCHANGED read PROVE OwnDone'
    BY <1>0, <1>11, BeginEffect DEF BeginWait, Closing
<1>12. ASSUME Waited \/ Judge \/ ClearReason, UNCHANGED read PROVE OwnDone'
    BY <1>0, <1>12 DEF Waited, Judge, ClearReason
<1>13. ASSUME NEW n \in 1 .. RxSize, Receive(n) PROVE OwnDone'
    BY <1>0, <1>13, RingSteps DEF Receive, Lesser, RingEffect
<1>14. CASE RxLineError
    BY <1>0, <1>14, RingSteps DEF RxLineError, Abandon, RingEffect
<1>15. ASSUME Suspend \/ StopPort(TRUE) \/ Resume \/ Aborted, UNCHANGED read PROVE OwnDone'
  <2>1. CASE Suspend
    BY <1>0, <1>15, <2>1 DEF Suspend, Inside
  <2>2. CASE StopPort(TRUE)
    BY <1>0, <1>15, <2>2 DEF StopPort, Inside
  <2>3. CASE Resume
    BY <1>0, <1>15, <2>3 DEF Resume, Inside
  <2>4. CASE Aborted
    BY <1>0, <1>15, <2>4 DEF Aborted, Inside
  <2>. QED
    BY <1>15, <2>1, <2>2, <2>3, <2>4
<1>16. ASSUME Abort, UNCHANGED read PROVE OwnDone'
    BY <1>0, <1>16 DEF Abort, Abandon
<1>17. ASSUME AbortDone \/ AbortSignal, UNCHANGED read PROVE OwnDone'
    BY <1>0, <1>17, PosterSteps DEF AbortDone, AbortSignal, PosterEffect
<1>18. ASSUME NEW c \in Users, CallWaits(c), UNCHANGED read PROVE OwnDone'
  <2>1. WaiterEffect(c) /\ user = c /\ place = "waiting"
    BY <1>0, <1>18, WaiterSteps DEF CallWaits, WaiterEffect, Inside
  <2>. QED
    BY <1>0, <1>18, <2>1 DEF CallWaits, WaiterEffect, Inside, Closing
<1>19. CASE UNCHANGED readVars
    BY <1>0, <1>19 DEF readVars, fifoVars
<1>. QED
    BY <1>1, <1>2, <1>3, <1>4, <1>5, <1>6, <1>7, <1>8, <1>9, <1>10, <1>11, <1>12, <1>13, <1>14,
       <1>15, <1>16, <1>17, <1>18, <1>19
       DEF ReadNext, ReaderStep, AbortableWait, RxSuspendStep

LEMMA ReadPromised ==
    ASSUME SerialRxAssumption, ReadInv, [ReadNext]_readVars
    PROVE  Promised'
<1> USE DEF Promised, Waits, fifo, port, eventVars, read, CallMoves, Return
<1>0. /\ RxSize \in Nat \ {0} /\ Nobody \notin Users
      /\ EventProofs!IInv /\ Inside /\ Promised /\ FifoTypeOK /\ SerialFifoAssumption
      /\ stored \in Nat /\ stored <= RxSize /\ rdLen \in Nat /\ (user = Nobody <=> place = "out")
      /\ loadSize \in Int /\ remain \in Nat /\ unseen \in Nat
      /\ user \in Users \cup {Nobody} /\ spc \in {"out", "stop", "abort", "done", "signal"}
    BY DEF SerialRxAssumption, SerialFifoAssumption, ReadInv, ReadTypeOK, FifoTypeOK
<1>1. ASSUME NEW c \in Users, NEW n \in Requests, Read(c, n) PROVE Promised'
    BY <1>0, <1>1 DEF Read
<1>2. CASE Measure
    BY <1>2 DEF Measure
<1>3. CASE ReadCheck
    BY <1>0, <1>3 DEF ReadCheck, ReadLeave, Inside
<1>4. CASE ReadLoad
    BY <1>0, <1>4 DEF ReadLoad, Lesser
<1>5. CASE ReadIdle
    BY <1>5 DEF ReadIdle, ReadLeave
<1>6. CASE Compare
    BY <1>6 DEF Compare
<1>7. CASE Recount
    BY <1>7 DEF Recount
<1>8. CASE Nothing
    BY <1>8 DEF Nothing, ReadLeave
<1>9. CASE ReadTake
    BY <1>9 DEF ReadTake
<1>10. CASE Excess
    BY <1>10 DEF Excess, ReadLeave
<1>11. ASSUME BeginWait, UNCHANGED read PROVE Promised'
    BY <1>0, <1>11, BeginEffect DEF BeginWait
<1>12. ASSUME Waited \/ Judge \/ ClearReason, UNCHANGED read PROVE Promised'
    BY <1>0, <1>12 DEF Waited, Judge, ClearReason
<1>13. ASSUME NEW n \in 1 .. RxSize, Receive(n) PROVE Promised'
  <2>1. ~suspended /\ UNCHANGED <<suspended, spc, user, place, rdLen, unseen, busy>>
    BY <1>13 DEF Receive
  <2>2. spc # "done"
    BY <1>0, <2>1 DEF Inside
  <2>3. CASE loadSize' <= 0
    BY <1>13, <2>1, <2>3, RingSteps DEF Receive, RingEffect
  <2>4. CASE loadSize' > 0 /\ busy
    <3>1. /\ UNCHANGED eventVars /\ loadSize' = loadSize - n /\ stored' <= stored + n
          /\ loadSize > 0 /\ loadSize' \in Int /\ stored' \in Nat
      BY <1>0, <1>13, <2>4 DEF Receive, Lesser
    <3>. QED
      BY <1>0, <2>1, <2>2, <2>4, <3>1
  <2>5. CASE loadSize' > 0 /\ ~busy
    <3>1. UNCHANGED eventVars
      BY <1>0, <1>13, <2>5 DEF Receive
    <3>. QED
      BY <1>0, <2>1, <2>2, <2>5, <3>1
  <2>6. loadSize' <= 0 \/ loadSize' > 0
    BY <1>0, <1>13 DEF Receive
  <2>. QED
    BY <2>3, <2>4, <2>5, <2>6
<1>14. CASE RxLineError
    BY <1>0, <1>14, RingSteps DEF RxLineError, Abandon, RingEffect
<1>15. ASSUME Suspend \/ StopPort(TRUE) \/ Resume \/ Aborted, UNCHANGED read PROVE Promised'
  <2>1. CASE Suspend
    BY <1>0, <1>15, <2>1 DEF Suspend, Inside
  <2>2. CASE StopPort(TRUE)
    BY <1>0, <1>15, <2>2 DEF StopPort, Inside
  <2>3. CASE Resume
    BY <1>0, <1>15, <2>3 DEF Resume, Inside
  <2>4. CASE Aborted
    BY <1>0, <1>15, <2>4 DEF Aborted, Inside
  <2>. QED
    BY <1>15, <2>1, <2>2, <2>3, <2>4
<1>16. ASSUME Abort, UNCHANGED read PROVE Promised'
  <2>1. /\ spc = "abort" /\ spc' = "done" /\ dpc[Suspender] = "out"
        /\ UNCHANGED <<stored, suspended, user, place, eventVars, read>>
    BY <1>0, <1>16 DEF Abort, Inside
  <2>. QED
    BY <1>0, <2>1
<1>17. ASSUME AbortDone \/ AbortSignal, UNCHANGED read PROVE Promised'
    BY <1>0, <1>17, PosterSteps DEF AbortDone, AbortSignal, PosterEffect, Inside
<1>18. ASSUME NEW c \in Users, CallWaits(c), UNCHANGED read PROVE Promised'
  <2>1. WaiterEffect(c) /\ user = c /\ place = "waiting"
    BY <1>0, <1>18, WaiterSteps DEF CallWaits, WaiterEffect, Inside
  <2>. QED
    BY <1>0, <1>18, <2>1 DEF CallWaits, WaiterEffect, Inside
<1>19. CASE UNCHANGED readVars
    BY <1>0, <1>19 DEF readVars, fifoVars
<1>. QED
    BY <1>1, <1>2, <1>3, <1>4, <1>5, <1>6, <1>7, <1>8, <1>9, <1>10, <1>11, <1>12, <1>13, <1>14,
       <1>15, <1>16, <1>17, <1>18, <1>19
       DEF ReadNext, ReaderStep, AbortableWait, RxSuspendStep

LEMMA ReadStep ==
    ASSUME SerialRxAssumption, ReadInv, [ReadNext]_readVars
    PROVE  ReadInv'
<1>1. EventProofs!IInv' /\ Cpt!TypeOK' /\ Inside'
    BY ReadEvent
<1>2. ReadTypeOK' /\ Amounts'
    BY <1>1, ReadTypes DEF ReadInv
<1>. QED
    BY <1>1, <1>2, ReadOwnDone, ReadPromised DEF ReadInv

LEMMA ReadKeepsWant ==
    ASSUME SerialRxAssumption, ReadTypeOK, Amounts
    PROVE  ~surplus => total <= want
<1>1. /\ want \in Nat /\ total \in Nat /\ remain \in Nat /\ rdLen \in Nat
    BY DEF ReadTypeOK, SerialRxAssumption, SerialFifoAssumption
<1>. QED
    BY <1>1 DEF Amounts

LEMMA ReadInvEnds ==
    ASSUME SerialRxAssumption, ReadInv
    PROVE  ReadsEnd
<1>1. EventProofs!IInv /\ ReadTypeOK /\ Inside /\ Amounts /\ OwnDone /\ Promised
    BY DEF ReadInv
<1>2. CASE CallSleeps /\ ~overtaken
  <2>1. /\ Waits /\ status # "DONE" /\ dpc[Suspender] = "out"
    BY <1>2 DEF CallSleeps, Waits, Early, Cpt!InDone
  <2>2. stored \in Nat /\ unseen \in Nat /\ rdLen \in Nat /\ loadSize \in Int
    BY <1>1 DEF ReadTypeOK, FifoTypeOK
  <2>3. /\ rdLen > 0 => stored < unseen + rdLen
        /\ suspended => spc # "out"
    BY <1>1, <1>2, <2>1, <2>2 DEF Promised
  <2>4. place = "waiting"
    BY <1>2 DEF CallSleeps
  <2>. QED
    BY <1>1, <2>3, <2>4, ReadKeepsWant DEF ReadsEnd
<1>3. CASE ~(CallSleeps /\ ~overtaken)
    BY <1>1, <1>3, ReadKeepsWant DEF ReadsEnd, OwnDone
<1>. QED
    BY <1>2, <1>3

(* Reads keep their inductive invariant. *)
THEOREM ReadInvariance == ASSUME SerialRxAssumption PROVE ReadSpec => []ReadInv
<1>1. ReadInit => ReadInv
    BY ReadInvInit
<1>2. ReadInv /\ [ReadNext]_readVars => ReadInv'
    BY ReadStep
<1>. QED
    BY <1>1, <1>2, PTL DEF ReadSpec

(* The types of a read hold in every state: no amount leaves its range. *)
THEOREM ReadTypeCorrect == ASSUME SerialRxAssumption PROVE ReadSpec => []ReadTypeOK
<1>1. ReadInv => ReadTypeOK
    BY DEF ReadInv
<1>. QED
    BY <1>1, ReadInvariance, PTL

(* hal_serial.c: a blocking read does not sleep on what it waits for, does not give up
   without a reason and does not return too much. *)
THEOREM ReadsEndHolds == ASSUME SerialRxAssumption PROVE ReadSpec => []ReadsEnd
<1>1. ReadInv => ReadsEnd
    BY ReadInvEnds
<1>. QED
    BY <1>1, ReadInvariance, PTL

-----------------------------------------------------------------------------
(* Writes: the inductive invariant *)

Preparing == {"look", "load", "claim", "clear", "start"}
Awaiting == {"wait", "waiting", "judge", "reason", "ok"}

\* The places of the three ways to write, and what a port that does not block lacks.
Ways ==
    /\ way = "none" <=> user = Nobody
    /\ way = "queue" => place \in {"room", "fill"}
    /\ way = "start" =>
         ~blocking /\ place \in {"room", "fill", "mark", "test", "look", "load", "claim", "start"}
    /\ way = "block" => blocking
    /\ ~blocking => ~strayed /\ spc \in {"out", "stop"}

\* How the lengths of the call relate.
Portions ==
    /\ way # "none" => size > 0
    /\ way \in {"none", "start"} => sended = 0
    /\ place \in {"mark", "check", "test", "room"} /\ way = "block" => sended < size
    /\ place \in {"fill", "refused"} \cup Preparing \cup Awaiting => sended + txLen <= size
    /\ place \in {"mark", "test"} /\ way = "start" => txLen <= size
    /\ place = "fill" => stored + txLen <= TxSize

\* The hardware is at the front of the ring, and idle while a call prepares the next
\* transmission; what is prepared is there.
SentEnds ==
    /\ ~strayed => FromFront
    /\ ~strayed /\ way = "block" /\ place \in {"room", "fill", "unload", "empty"} \cup Preparing =>
         hw = 0
    /\ way = "start" => hw = 0
    /\ ~strayed /\ place \in {"load", "claim", "clear", "start"} =>
         linear <= stored /\ linear > 0 /\ from = front
    /\ ~strayed /\ place \in {"claim", "clear", "start"} => loadSize = linear
    /\ ~strayed /\ place \in {"clear", "start"} => busy
    /\ ~blocking /\ hw > 0 => busyTx
    /\ way = "start" /\ place \in {"test"} \cup Preparing => busyTx

AllOut == stored = 0 /\ hw = 0

\* A done that is meant for the wait says that all is out; one is still to come for
\* a write that waits.
AwaitsSent ==
    ~strayed /\ way = "block"
    /\ place \in {"test", "room", "fill"} \cup Preparing \cup Awaiting =>
      /\ suspended => spc \in {"stop", "abort"}
      /\ Waits /\ ~overtaken => status = "DONE" \/ hw > 0 \/ suspended
      /\ ~overtaken /\ ~stale =>
           /\ place \in {"wait", "waiting"} /\ status = "DONE" => AllOut
           /\ place = "waiting" /\ Ended(user) => AllOut
           /\ place \in {"judge", "reason", "ok"} => AllOut

\* On a port for non-blocking writes, bytes are being sent, or about to be by the call
\* that put them there.
Moving ==
    ~blocking =>
      /\ busy => hw > 0 \/ cut \/ place = "start"
      /\ user = Nobody /\ (busyTx \/ stored > 0) => hw > 0 \/ cut \/ missed
      /\ way = "queue" => hw > 0 \/ cut \/ missed
      /\ way = "start" =>
           /\ place = "room" => stored = 0 \/ cut \/ missed
           /\ place \in {"fill", "mark", "test"} => txLen > 0 \/ cut \/ missed
           /\ place \in {"mark", "test"} /\ txLen > 0 => stored > 0
           /\ place = "look" => stored > 0

WriteInv ==
    /\ EventProofs!IInv /\ WriteTypeOK /\ Inside
    /\ Ways /\ Portions /\ SentEnds /\ AwaitsSent /\ Moving

LEMMA WriteInvInit ==
    ASSUME SerialTxAssumption, WriteInit
    PROVE  WriteInv
<1>1. EventProofs!IInv /\ Cpt!TypeOK /\ Inside /\ FifoTypeOK
    BY EventInit, SameTypes, InsideInit, FifoTypesInit
       DEF SerialTxAssumption, WriteInit, EventProofs!IInv
<1>2. WriteTypeOK
  <2>1. blocking \in BOOLEAN /\ busyTx \in BOOLEAN /\ strayed \in BOOLEAN /\ cut \in BOOLEAN
        /\ missed \in BOOLEAN
    BY Zenon DEF WriteInit, WriterInit
  <2>. QED
    BY <1>1, <2>1 DEF WriteTypeOK, WriteInit, FifoInit, WriterInit, SerialTxAssumption
<1>3. Ways /\ Portions /\ SentEnds /\ AwaitsSent /\ Moving
    BY DEF Ways, Portions, SentEnds, AwaitsSent, Moving, Preparing, Awaiting, FromFront,
           WriteInit, FifoInit, WriterInit
<1>. QED
    BY <1>1, <1>2, <1>3 DEF WriteInv

LEMMA WriteEvent ==
    ASSUME SerialTxAssumption, WriteInv, [WriteNext]_writeVars
    PROVE  EventProofs!IInv' /\ Cpt!TypeOK' /\ Inside'
<1> USE DEF WriteInv
<1>0. SerialFifoAssumption /\ FifoTypeOK
    BY DEF WriteTypeOK, SerialTxAssumption
<1>. SUFFICES EventStep /\ FifoStep
    BY <1>0, FifoKept
<1>1. CASE WriteMark \/ WriteCheck \/ TestIdle \/ Room \/ WriteFill \/ WriteLook \/ WriteLoad
           \/ Claim \/ WriteClear
           \/ WriteStart \/ WriteIdle \/ Unload \/ Blame \/ Credit \/ Leaving \/ Judge \/ ClearReason
           \/ \E c \in Users : \E n \in Lengths : WriteCall(c, n)
  <2>1. Off
    BY <1>1, <1>0 DEF WriteMark, WriteCheck, TestIdle, Room, WriteFill, WriteLook,
                      WriteLoad, Claim, WriteClear, WriteStart, WriteIdle, Unload, Blame, Credit, Leaving, Judge, ClearReason, WriteCall,
                      Private, CallMoves, Off, port, FifoTypeOK
  <2>. QED
    BY <2>1 DEF Off, EventStep, FifoStep
<1>2. CASE \E c \in Users : CallWaits(c)
    BY <1>2 DEF CallWaits, EventStep, FifoStep
<1>3. CASE BeginWait
  <2>1. user \in Users /\ Cpt!WaitCall(user)
    BY <1>0, <1>3 DEF BeginWait, CallMoves, FifoTypeOK
  <2>. QED
    BY <1>3, <2>1 DEF EventStep, FifoStep
<1>4. CASE Waited
    BY <1>4 DEF Waited, EventStep, FifoStep
<1>5. CASE Sent \/ SentUnheard \/ TxLineError
  <2>1. UNCHANGED <<port, user, place>> /\ (UNCHANGED eventVars \/ Ring)
    BY <1>5 DEF Sent, SentUnheard, TxLineError, Finish, fifoVars
  <2>. QED
    BY <2>1, RingSteps DEF Rung, Ring, EventStep, FifoStep
<1>6. CASE TxSuspendStep
  <2>1. blocking = TRUE \/ blocking = FALSE
    BY DEF WriteTypeOK
  <2>2. SuspenderStep
    BY <1>6, <2>1 DEF TxSuspendStep, SuspenderStep
  <2>3. EventStep
    BY <1>6 DEF TxSuspendStep, Suspend, StopPort, Abort, AbortDone, AbortSignal, Aborted, Resume,
                EventStep
  <2>. QED
    BY <2>2, <2>3 DEF FifoStep
<1>7. CASE UNCHANGED writeVars
    BY <1>7 DEF writeVars, fifoVars, Rung, EventStep, FifoStep
<1>. QED
    BY <1>1, <1>2, <1>3, <1>4, <1>5, <1>6, <1>7 DEF WriteNext, WriterStep, AbortableWait

Flags ==
    /\ busy \in BOOLEAN /\ suspended \in BOOLEAN /\ stale \in BOOLEAN /\ blocking \in BOOLEAN
    /\ busyTx \in BOOLEAN /\ strayed \in BOOLEAN /\ cut \in BOOLEAN /\ missed \in BOOLEAN

LEMMA WriteFlags ==
    ASSUME Flags, [WriteNext]_writeVars
    PROVE  Flags'
<1> USE DEF Flags, fifo, port, doubts, sending, txOnly, write, CallMoves, Private, Return
<1>1. ASSUME NEW c \in Users, NEW n \in Lengths, WriteCall(c, n) PROVE Flags'
    BY <1>1, Zenon DEF WriteCall
<1>2. CASE WriteMark \/ WriteCheck \/ Room \/ WriteFill \/ WriteLook \/ WriteLoad \/ Claim
           \/ WriteClear
    BY <1>2, Zenon DEF WriteMark, WriteCheck, Room, WriteFill, WriteLook, WriteLoad, Claim,
                       WriteClear
<1>11. CASE TestIdle
    BY <1>11, Zenon DEF TestIdle, WriteLeave
<1>3. CASE WriteIdle \/ Unload \/ Blame \/ Credit \/ Leaving
    BY <1>3, Zenon DEF WriteIdle, Unload, Blame, Credit, Leaving
<1>4. CASE WriteStart
    BY <1>4, Zenon DEF WriteStart, Transmit, Leftover
<1>5. CASE Sent
    BY <1>5, Zenon DEF Sent, Finish
<1>6. CASE SentUnheard \/ TxLineError
    BY <1>6, Zenon DEF SentUnheard, TxLineError, Abandon, fifoVars
<1>7. CASE TxSuspendStep
    BY <1>7, Zenon DEF TxSuspendStep, Suspend, StopPort, Abort, AbortDone, AbortSignal, Aborted,
                       Resume, Abandon
<1>8. ASSUME AbortableWait, UNCHANGED txOnly PROVE Flags'
    BY <1>8, Zenon DEF AbortableWait, BeginWait, Waited, Judge, ClearReason
<1>9. ASSUME NEW c \in Users, CallWaits(c), UNCHANGED txOnly PROVE Flags'
    BY <1>9, Zenon DEF CallWaits
<1>10. CASE UNCHANGED writeVars
    BY <1>10, Zenon DEF writeVars, fifoVars
<1>. QED
    BY <1>1, <1>2, <1>3, <1>4, <1>5, <1>6, <1>7, <1>8, <1>9, <1>10, <1>11
       DEF WriteNext, WriterStep

LEMMA LinearFits ==
    ASSUME NEW p \in Nat, NEW n \in Nat, TxSize \in Nat, p < TxSize
    PROVE  /\ Linear(p, n) \in Nat /\ Linear(p, n) <= n /\ Linear(p, n) <= TxSize
           /\ Linear(p, n) = 0 => n = 0
BY DEF Linear, Lesser

\* What the interrupt does: what was sent leaves the ring, and the rest is sent, or
\* nothing is left and the end is told.
SentEffect ==
    /\ hw > 0 /\ ~suspended
    /\ stored' \in Nat /\ stored' <= stored /\ front' \in 0 .. TxSize - 1
    /\ hw' \in 0 .. TxSize /\ hwFrom' \in 0 .. TxSize - 1 /\ loadSize' \in Int
    /\ waitReason' \in {waitReason, "done"}
    /\ UNCHANGED <<port, user, place, stale, blocking, write, strayed, cut>>
    /\ hw' = 0 /\ way = "queue" => missed'
    /\ hw' > 0 => ~missed'
    /\ FromFront => FromFront' /\ (busy' <=> hw' > 0) /\ (hw' = 0 => stored' = 0)
    /\ FromFront /\ hw' > 0 => UNCHANGED <<busyTx, eventVars>>
    /\ FromFront /\ hw' = 0 /\ blocking => RingEffect
    /\ FromFront /\ hw' = 0 => ~busyTx'
    /\ UNCHANGED eventVars \/ RingEffect

LEMMA SentSteps ==
    ASSUME SerialTxAssumption, WriteTypeOK, Sent
    PROVE  SentEffect
<1> DEFINE next == Linear(front', stored')
<1>0. /\ TxSize \in Nat \ {0} /\ stored \in Nat /\ stored <= TxSize /\ hw \in Nat /\ hw <= TxSize
      /\ front \in Nat /\ front < TxSize /\ loadSize \in Int
    BY DEF SerialTxAssumption, WriteTypeOK, FifoTypeOK
<1>1. /\ hw > 0 /\ ~suspended
      /\ UNCHANGED <<port, user, place, stale, blocking, write, strayed, cut>>
      /\ stored' = stored - Lesser(hw, stored)
      /\ front' = (front + Lesser(hw, stored)) % TxSize
    BY DEF Sent
<1>7. (hw' = 0 /\ way = "queue" => missed') /\ (missed' => hw' = 0)
    BY Zenon DEF Sent
<1>2. /\ stored' \in Nat /\ stored' <= stored /\ Lesser(hw, stored) \in Nat
      /\ hw <= stored => stored' = stored - hw
    BY <1>0, <1>1 DEF Lesser
<1>3. front' \in Nat /\ front' < TxSize
  <2>1. \A m \in Nat : m % TxSize \in Nat /\ m % TxSize < TxSize
    BY <1>0
  <2>2. front + Lesser(hw, stored) \in Nat
    BY <1>0, <1>2
  <2>. QED
    BY <1>1, <2>1, <2>2
<1>4. next \in Nat /\ next <= stored' /\ next <= TxSize /\ (next = 0 => stored' = 0)
    BY <1>0, <1>2, <1>3, LinearFits
<1> HIDE DEF next
<1>5. CASE busy'
  <2>1. /\ busy /\ (loadSize - hw # 0 \/ next > 0)
        /\ loadSize' = next /\ hw' = next /\ hwFrom' = IF next > 0 THEN front' ELSE 0
        /\ UNCHANGED <<busyTx, waitReason, eventVars>>
    BY <1>5, Zenon DEF Sent, StaysBusy, next
  <2>2. hw' > 0 => hw' # 0
    BY <1>0, <1>2, <1>4, <2>1
  <2>3. /\ hw' \in 0 .. TxSize /\ hwFrom' \in 0 .. TxSize - 1 /\ loadSize' \in Int
    BY <1>0, <1>2, <1>3, <1>4, <2>1
  <2>4. FromFront => FromFront' /\ (busy' <=> hw' > 0) /\ (hw' = 0 => stored' = 0)
    BY <1>0, <1>1, <1>2, <1>4, <1>5, <2>1 DEF FromFront
  <2>5. FromFront => hw' # 0
    BY <1>0, <1>1, <1>4, <2>1 DEF FromFront
  <2>. QED
    BY <1>0, <1>1, <1>2, <1>3, <1>7, <2>1, <2>2, <2>3, <2>4, <2>5 DEF SentEffect
<1>6. CASE ~busy'
  <2>1. /\ ~(busy /\ (loadSize - hw # 0 \/ next > 0))
        /\ loadSize' = (IF loadSize - hw = 0 THEN next ELSE loadSize - hw)
        /\ hw' = 0 /\ hwFrom' = 0 /\ ~busyTx'
    BY <1>6, Zenon DEF Sent, StaysBusy, Finish, next
  <2>2. /\ waitReason' \in {waitReason, "done"}
        /\ IF blocking THEN RingEffect ELSE UNCHANGED eventVars
    BY <1>6, RingSteps DEF Sent, Finish
  <2>3. hw' \in 0 .. TxSize /\ hwFrom' \in 0 .. TxSize - 1 /\ loadSize' \in Int
    BY <1>0, <1>2, <1>4, <2>1
  <2>4. FromFront => FromFront' /\ (busy' <=> hw' > 0) /\ (hw' = 0 => stored' = 0)
    BY <1>0, <1>1, <1>2, <1>4, <1>6, <2>1 DEF FromFront
  <2>5. ~(hw' > 0)
    BY <2>1
  <2>. QED
    BY <1>0, <1>1, <1>2, <1>3, <1>7, <2>1, <2>2, <2>3, <2>4, <2>5 DEF SentEffect
<1>. QED
    BY <1>5, <1>6

LEMMA WriteTypes ==
    ASSUME SerialTxAssumption, WriteTypeOK, Ways, Portions, Cpt!TypeOK', [WriteNext]_writeVars
    PROVE  WriteTypeOK' /\ Portions'
<1> USE DEF Portions, Preparing, Awaiting, fifo, port, sending, write, doubts, txOnly, CallMoves,
            Private, Return
<1>0. /\ TxSize \in Nat \ {0} /\ Lengths \subseteq Nat \ {0} /\ Nobody \notin Users
      /\ user = Nobody <=> place = "out"
      /\ way = "none" <=> user = Nobody
    BY DEF SerialTxAssumption, SerialFifoAssumption, WriteTypeOK, FifoTypeOK, Ways
<1>f. Flags'
    BY WriteFlags DEF WriteTypeOK, FifoTypeOK, Flags
<1> USE DEF WriteTypeOK, FifoTypeOK, Flags
<1>1. ASSUME NEW c \in Users, NEW n \in Lengths, WriteCall(c, n) PROVE WriteTypeOK' /\ Portions'
  <2>1. /\ user' = c /\ size' = n /\ n \in Nat \ {0} /\ sended = 0 /\ sended' = 0
        /\ UNCHANGED <<txLen, linear, from, stored, front, sending, fifo, port>>
        /\ Cpt!TypeOK'
    BY <1>0, <1>1 DEF WriteCall
  <2>2. \/ way' = "block" /\ place' = "mark"
        \/ way' \in {"queue", "start"} /\ place' = "room"
    BY <1>1 DEF WriteCall
  <2>. QED
    BY <1>0, <1>f, <2>1, <2>2
<1>2. CASE WriteMark
    BY <1>0, <1>f, <1>2 DEF WriteMark
<1>3. CASE WriteCheck
    BY <1>0, <1>f, <1>3 DEF WriteCheck, Ways
<1>4. CASE TestIdle
  <2>1. CASE way = "block"
    BY <1>0, <1>f, <1>4, <2>1 DEF TestIdle
  <2>2. CASE way = "start" /\ CallMoves("test", "look") /\ UNCHANGED write
    BY <1>0, <1>f, <1>4, <2>2 DEF TestIdle
  <2>3. CASE way = "start" /\ WriteLeave
    BY <1>0, <1>f, <1>4, <2>3 DEF TestIdle, WriteLeave
  <2>. QED
    BY <1>4, <2>1, <2>2, <2>3 DEF TestIdle
<1>5. CASE Room
    BY <1>0, <1>f, <1>5 DEF Room, Lesser, Ways
<1>6. CASE WriteFill
    BY <1>0, <1>f, <1>6 DEF WriteFill, WriteLeave
<1>7. CASE WriteLook
    BY <1>0, <1>f, <1>7, LinearFits DEF WriteLook
<1>8. CASE WriteLoad \/ Claim \/ WriteClear
    BY <1>0, <1>f, <1>8 DEF WriteLoad, Claim, WriteClear
<1>9. CASE WriteStart
    BY <1>0, <1>f, <1>9 DEF WriteStart, Transmit, WriteLeave
<1>10. CASE WriteIdle \/ Unload \/ Blame
    BY <1>0, <1>f, <1>10 DEF WriteIdle, Unload, Blame
<1>11. CASE Credit
  <2>1. /\ place = "ok" /\ sended' = sended + txLen /\ sended + txLen <= size
        /\ UNCHANGED <<user, stored, fifo, way, size, txLen, linear, from, front, sending, port>>
    BY <1>11 DEF Credit
  <2>2. \/ place' = "check" /\ sended' < size
        \/ place' = "leave"
    BY <1>11 DEF Credit
  <2>3. way # "start" /\ way # "none"
    BY <1>0, <2>1 DEF Ways
  <2>. QED
    BY <1>0, <1>f, <2>1, <2>2, <2>3
<1>12. CASE Leaving
    BY <1>0, <1>f, <1>12 DEF Leaving, WriteLeave
<1>13. CASE Sent
    BY <1>0, <1>f, <1>13, SentSteps DEF SentEffect
<1>14. CASE SentUnheard \/ TxLineError
    BY <1>0, <1>f, <1>14 DEF SentUnheard, TxLineError, Abandon, fifoVars
<1>15. CASE TxSuspendStep
    BY <1>0, <1>f, <1>15 DEF TxSuspendStep, Suspend, StopPort, Abort, AbortDone, AbortSignal, Aborted,
                             Resume, Abandon
<1>16. ASSUME AbortableWait, UNCHANGED txOnly PROVE WriteTypeOK' /\ Portions'
    BY <1>0, <1>f, <1>16 DEF AbortableWait, BeginWait, Waited, Judge, ClearReason
<1>17. ASSUME NEW c \in Users, CallWaits(c), UNCHANGED txOnly PROVE WriteTypeOK' /\ Portions'
    BY <1>0, <1>f, <1>17 DEF CallWaits
<1>18. CASE UNCHANGED writeVars
    BY <1>0, <1>f, <1>18 DEF writeVars, fifoVars
<1>. QED
    BY <1>1, <1>2, <1>3, <1>4, <1>5, <1>6, <1>7, <1>8, <1>9, <1>10, <1>11, <1>12, <1>13, <1>14,
       <1>15, <1>16, <1>17, <1>18
       DEF WriteNext, WriterStep

LEMMA WriteWays ==
    ASSUME SerialTxAssumption, WriteInv, [WriteNext]_writeVars
    PROVE  Ways'
<1> USE DEF Ways, fifo, port, sending, write, doubts, txOnly, CallMoves, Private, Return
<1>0. /\ Ways /\ Nobody \notin Users /\ blocking \in BOOLEAN /\ (user = Nobody <=> place = "out")
      /\ way \in {"none", "queue", "block", "start"}
      /\ ~strayed => FromFront
      /\ way = "start" => hw = 0
    BY DEF SerialTxAssumption, SerialFifoAssumption, WriteInv, WriteTypeOK, FifoTypeOK, SentEnds
<1>1. ASSUME NEW c \in Users, NEW n \in Lengths, WriteCall(c, n) PROVE Ways'
  <2>1. /\ way' = "block" => blocking /\ place' = "mark"
        /\ way' = "start" => ~blocking /\ place' = "room"
        /\ way' = "queue" => place' = "room"
        /\ way' # "none" /\ user' = c /\ ~blocking => ~strayed'
        /\ UNCHANGED <<blocking, port>>
    BY <1>1, <1>0 DEF WriteCall
  <2>. QED
    BY <1>0, <1>1, <2>1 DEF WriteCall
<1>2. CASE WriteMark \/ WriteCheck \/ Room \/ WriteLook \/ WriteLoad \/ Claim \/ WriteClear
    BY <1>0, <1>2 DEF WriteMark, WriteCheck, Room, WriteLook, WriteLoad, Claim, WriteClear
<1>3. CASE TestIdle
    BY <1>0, <1>3 DEF TestIdle, WriteLeave
<1>4. CASE WriteFill
    BY <1>0, <1>4 DEF WriteFill, WriteLeave
<1>5. CASE WriteStart
    BY <1>0, <1>5 DEF WriteStart, Transmit, WriteLeave
<1>6. CASE WriteIdle \/ Unload \/ Blame \/ Credit
    BY <1>0, <1>6 DEF WriteIdle, Unload, Blame, Credit
<1>7. CASE Leaving
    BY <1>0, <1>7 DEF Leaving, WriteLeave
<1>8. CASE Sent \/ SentUnheard \/ TxLineError
    BY <1>0, <1>8 DEF Sent, SentUnheard, TxLineError, fifoVars
<1>9. CASE TxSuspendStep
    BY <1>0, <1>9 DEF TxSuspendStep, Suspend, StopPort, Abort, AbortDone, AbortSignal,
                         Aborted, Resume
<1>10. ASSUME AbortableWait, UNCHANGED txOnly PROVE Ways'
    BY <1>0, <1>10 DEF AbortableWait, BeginWait, Waited, Judge, ClearReason
<1>11. ASSUME NEW c \in Users, CallWaits(c), UNCHANGED txOnly PROVE Ways'
    BY <1>0, <1>11 DEF CallWaits
<1>12. CASE UNCHANGED writeVars
    BY <1>0, <1>12 DEF writeVars, fifoVars
<1>. QED
    BY <1>1, <1>2, <1>3, <1>4, <1>5, <1>6, <1>7, <1>8, <1>9, <1>10, <1>11, <1>12
       DEF WriteNext, WriterStep

LEMMA WriteSentEnds ==
    ASSUME SerialTxAssumption, WriteInv, [WriteNext]_writeVars
    PROVE  SentEnds'
<1> USE DEF SentEnds, Preparing, FromFront, fifo, port, sending, write, doubts, txOnly, CallMoves,
            Private, Return
<1>0. /\ Nobody \notin Users /\ blocking \in BOOLEAN /\ TxSize \in Nat \ {0}
      /\ (user = Nobody <=> place = "out") /\ (way = "none" <=> user = Nobody)
      /\ way = "queue" => place \in {"room", "fill"}
      /\ way = "start" =>
         ~blocking /\ place \in {"room", "fill", "mark", "test", "look", "load", "claim", "start"}
      /\ way = "block" => blocking
      /\ ~blocking => ~strayed /\ spc \in {"out", "stop"}
      /\ way \in {"none", "queue", "block", "start"}
      /\ stored \in Nat /\ hw \in Nat /\ front \in Nat /\ front < TxSize /\ txLen \in Nat
      /\ linear \in Nat /\ loadSize \in Int /\ SentEnds
    BY DEF SerialTxAssumption, SerialFifoAssumption, WriteInv, WriteTypeOK, FifoTypeOK, Ways
<1>1. ASSUME NEW c \in Users, NEW n \in Lengths, WriteCall(c, n) PROVE SentEnds'
  <2>1. /\ UNCHANGED <<stored, fifo, blocking, front, busyTx, sending>>
        /\ place' \in {"mark", "room"}
        /\ ~strayed' => ~blocking \/ ~(hw > 0)
        /\ way' = "block" => blocking /\ place' = "mark"
        /\ way' = "start" => ~blocking /\ ~busyTx
    BY <1>1, <1>0, Zenon DEF WriteCall
  <2>. QED
    BY <1>0, <2>1
<1>2. CASE WriteMark \/ WriteCheck \/ Room \/ WriteLoad \/ Claim \/ WriteClear
    BY <1>0, <1>2 DEF WriteMark, WriteCheck, Room, WriteLoad, Claim, WriteClear
<1>13. CASE WriteLook
  <2>1. /\ linear' = Linear(front, stored) /\ from' = front /\ place = "look"
        /\ place' = (IF linear' = 0 /\ way = "block" THEN "leave" ELSE "load")
        /\ UNCHANGED <<stored, way, busyTx, strayed, fifo, blocking, front, sending, user>>
    BY <1>13 DEF WriteLook
  <2>2. linear' \in Nat /\ linear' <= stored /\ (linear' = 0 => stored = 0)
    BY <1>0, <2>1, LinearFits
  <2>3. way = "start" => stored > 0
    BY <1>0, <2>1 DEF WriteInv, Moving
  <2>4. way \in {"block", "start"}
    BY <1>0, <2>1
  <2>. QED
    BY <1>0, <2>1, <2>2, <2>3, <2>4
<1>3. CASE TestIdle
    BY <1>0, <1>3 DEF TestIdle, WriteLeave
<1>4. CASE WriteFill
    BY <1>0, <1>4 DEF WriteFill, WriteLeave
<1>5. CASE WriteStart
  <2>1. /\ place = "start" /\ UNCHANGED <<stored, fifo, blocking, front, busyTx, strayed>>
        /\ place' \notin {"unload", "empty", "room", "fill", "test"} \cup Preparing
    BY <1>5 DEF WriteStart, WriteLeave
  <2>2. way \in {"block", "start"}
    BY <1>0, <2>1
  <2>3. CASE hw = 0 /\ hw' = linear /\ hwFrom' = from /\ way' # "start"
    BY <1>0, <2>1, <2>2, <2>3
  <2>4. CASE hw > 0 /\ UNCHANGED <<sending, write>>
    BY <1>0, <2>1, <2>2, <2>4
  <2>. QED
    BY <1>5, <2>2, <2>3, <2>4 DEF WriteStart, Transmit, WriteLeave
<1>6. CASE WriteIdle \/ Unload \/ Blame \/ Credit
    BY <1>0, <1>6 DEF WriteIdle, Unload, Blame, Credit
<1>7. CASE Leaving
    BY <1>0, <1>7 DEF Leaving, WriteLeave
<1>8. CASE Sent
  <2>1. SentEffect
    BY <1>8, SentSteps DEF WriteInv
  <2>. QED
    BY <1>0, <2>1 DEF SentEffect
<1>14. CASE SentUnheard \/ TxLineError
    BY <1>0, <1>14 DEF SentUnheard, TxLineError, Abandon, fifoVars
<1>9. CASE TxSuspendStep
    BY <1>0, <1>9 DEF TxSuspendStep, Suspend, StopPort, Abort, AbortDone, AbortSignal, Aborted,
                      Resume, Abandon
<1>10. ASSUME AbortableWait, UNCHANGED txOnly PROVE SentEnds'
    BY <1>0, <1>10 DEF AbortableWait, BeginWait, Waited, Judge, ClearReason
<1>11. ASSUME NEW c \in Users, CallWaits(c), UNCHANGED txOnly PROVE SentEnds'
    BY <1>0, <1>11 DEF CallWaits
<1>12. CASE UNCHANGED writeVars
    BY <1>0, <1>12 DEF writeVars, fifoVars
<1>. QED
    BY <1>1, <1>2, <1>3, <1>4, <1>5, <1>6, <1>7, <1>8, <1>9, <1>10, <1>11, <1>12, <1>13, <1>14
       DEF WriteNext, WriterStep

LEMMA WriteAwaitsSent ==
    ASSUME SerialTxAssumption, WriteInv, [WriteNext]_writeVars
    PROVE  AwaitsSent'
<1> USE DEF AwaitsSent, AllOut, Waits, Ended, Preparing, Awaiting, fifo, port, sending, write,
            doubts, txOnly, eventVars, CallMoves, Private, Return
<1>0. /\ Nobody \notin Users /\ blocking \in BOOLEAN
      /\ (user = Nobody <=> place = "out") /\ (way = "none" <=> user = Nobody)
      /\ way = "block" => blocking
      /\ stored \in Nat /\ hw \in Nat /\ linear \in Nat
      /\ AwaitsSent /\ EventProofs!IInv /\ Inside /\ SerialFifoAssumption /\ FifoTypeOK
      /\ spc \in {"out", "stop", "abort", "done", "signal"}
      /\ ~strayed => FromFront
      /\ ~strayed /\ place = "start" => linear > 0
    BY DEF SerialTxAssumption, SerialFifoAssumption, WriteInv, WriteTypeOK, FifoTypeOK, Ways,
           SentEnds
<1>1. ASSUME NEW c \in Users, NEW n \in Lengths, WriteCall(c, n) PROVE AwaitsSent'
  <2>1. way' = "block" => place' = "mark"
    BY <1>1, <1>0 DEF WriteCall
  <2>. QED
    BY <2>1
<1>2. CASE WriteMark \/ Room \/ WriteLoad \/ Claim \/ WriteClear
    BY <1>0, <1>2 DEF WriteMark, Room, WriteLoad, Claim, WriteClear
<1>3. CASE WriteCheck
    BY <1>0, <1>3 DEF WriteCheck, Inside
<1>4. CASE TestIdle
    BY <1>0, <1>4 DEF TestIdle, WriteLeave
<1>5. CASE WriteFill \/ WriteLook
    BY <1>0, <1>5 DEF WriteFill, WriteLook, WriteLeave
<1>6. CASE WriteStart
    BY <1>0, <1>6 DEF WriteStart, Transmit, WriteLeave, Leftover
<1>7. CASE WriteIdle \/ Unload \/ Blame \/ Credit \/ Leaving
    BY <1>0, <1>7 DEF WriteIdle, Unload, Blame, Credit, Leaving, WriteLeave
<1>8. CASE Sent
  <2>1. SentEffect
    BY <1>8, SentSteps DEF WriteInv
  <2>. QED
    BY <1>0, <2>1 DEF SentEffect, RingEffect
<1>9. CASE SentUnheard
    BY <1>0, <1>9 DEF SentUnheard, fifoVars
<1>10. CASE TxLineError
    BY <1>0, <1>10 DEF TxLineError
<1>11. ASSUME Suspend \/ Resume, UNCHANGED txOnly PROVE AwaitsSent'
    BY <1>0, <1>11 DEF Suspend, Resume, Inside
<1>12. ASSUME StopPort(blocking), TxSuspendStep PROVE AwaitsSent'
    BY <1>0, <1>12 DEF StopPort, TxSuspendStep, Inside
<1>13. ASSUME Abort, strayed' = (hw > 0 \/ user # Nobody), UNCHANGED way PROVE AwaitsSent'
    BY <1>0, <1>13 DEF Abort
<1>14. CASE TxSuspendStep /\ (AbortDone \/ AbortSignal \/ Aborted)
    BY <1>0, <1>14 DEF TxSuspendStep, AbortDone, AbortSignal, Aborted, Inside
<1>15. ASSUME BeginWait, UNCHANGED txOnly PROVE AwaitsSent'
    BY <1>0, <1>15, BeginEffect DEF BeginWait, Closing
<1>16. ASSUME Waited \/ Judge \/ ClearReason, UNCHANGED txOnly PROVE AwaitsSent'
    BY <1>0, <1>16 DEF Waited, Judge, ClearReason
<1>17. ASSUME NEW c \in Users, CallWaits(c), UNCHANGED txOnly PROVE AwaitsSent'
  <2>1. WaiterEffect(c) /\ user = c /\ place = "waiting"
    BY <1>0, <1>17, WaiterSteps DEF CallWaits, WaiterEffect, Inside
  <2>. QED
    BY <1>0, <1>17, <2>1 DEF CallWaits, WaiterEffect, Inside, Closing
<1>18. CASE UNCHANGED writeVars
    BY <1>0, <1>18 DEF writeVars, fifoVars
<1>. QED
    BY <1>1, <1>2, <1>3, <1>4, <1>5, <1>6, <1>7, <1>8, <1>9, <1>10, <1>11, <1>12, <1>13, <1>14,
       <1>15, <1>16, <1>17, <1>18
       DEF WriteNext, WriterStep, AbortableWait, TxSuspendStep

LEMMA WriteMoving ==
    ASSUME SerialTxAssumption, WriteInv, [WriteNext]_writeVars
    PROVE  Moving'
<1> USE DEF Moving, fifo, port, sending, write, doubts, txOnly, CallMoves, Private, Return
<1>n. stored \in Nat /\ hw \in Nat /\ txLen \in Nat /\ size \in Nat /\ sended \in Nat
  <2>1. size \in Nat
    BY DEF WriteInv, WriteTypeOK, SerialTxAssumption
  <2>. QED
    BY <2>1 DEF SerialTxAssumption, WriteInv, WriteTypeOK, FifoTypeOK
<1>t. /\ Nobody \notin Users /\ blocking \in BOOLEAN /\ TxSize \in Nat \ {0} /\ stored <= TxSize
      /\ (user = Nobody <=> place = "out") /\ (way = "none" <=> user = Nobody)
      /\ Ways /\ Moving /\ way \in {"none", "queue", "block", "start"}
    BY DEF SerialTxAssumption, SerialFifoAssumption, WriteInv, WriteTypeOK, FifoTypeOK, Ways
<1>s. /\ way # "none" => size > 0
      /\ way \in {"none", "start"} => sended = 0
      /\ way = "start" => hw = 0
      /\ ~strayed => FromFront
      /\ ~blocking /\ hw > 0 => busyTx
      /\ ~strayed /\ place \in {"load", "claim", "clear", "start"} => linear > 0
    BY DEF WriteInv, Portions, SentEnds
<1>1. ASSUME NEW c \in Users, NEW n \in Lengths, WriteCall(c, n) PROVE Moving'
  <2>1. /\ UNCHANGED <<stored, fifo, blocking, front, busyTx, sending, cut, missed>>
        /\ user' # Nobody /\ user = Nobody /\ place' # "start"
        /\ way' = "queue" => busyTx
        /\ way' = "start" => place' = "room" /\ ~busyTx /\ ~blocking
    BY <1>n, <1>t, <1>s, <1>1 DEF WriteCall
  <2>. QED
    BY <1>n, <1>t, <1>s, <2>1
<1>2. CASE WriteMark \/ WriteCheck \/ WriteLoad \/ WriteClear
    BY <1>n, <1>t, <1>s, <1>2 DEF WriteMark, WriteCheck, WriteLoad, WriteClear, Ways
<1>3. CASE TestIdle
    BY <1>n, <1>t, <1>s, <1>3 DEF TestIdle, WriteLeave
<1>4. CASE Room
    BY <1>n, <1>t, <1>s, <1>4 DEF Room, Lesser
<1>5. CASE WriteFill
    BY <1>n, <1>t, <1>s, <1>5 DEF WriteFill, WriteLeave
<1>6. CASE WriteLook
    BY <1>n, <1>t, <1>s, <1>6 DEF WriteLook
<1>7. CASE Claim
    BY <1>n, <1>t, <1>s, <1>7 DEF Claim, Ways
<1>8. CASE WriteStart
    BY <1>n, <1>t, <1>s, <1>8 DEF WriteStart, Transmit, WriteLeave, Ways
<1>9. CASE WriteIdle \/ Unload \/ Blame \/ Credit \/ Leaving
    BY <1>n, <1>t, <1>s, <1>9 DEF WriteIdle, Unload, Blame, Credit, Leaving, WriteLeave, Ways
<1>10. CASE Sent
  <2>1. SentEffect
    BY <1>10, SentSteps DEF WriteInv
  <2>. QED
    BY <1>n, <1>t, <1>s, <2>1 DEF SentEffect, Ways
<1>11. CASE SentUnheard \/ TxLineError
    BY <1>n, <1>t, <1>s, <1>11 DEF SentUnheard, TxLineError, fifoVars
<1>12. CASE TxSuspendStep
    BY <1>n, <1>t, <1>s, <1>12 DEF TxSuspendStep, Suspend, StopPort, Abort, AbortDone, AbortSignal,
                                   Aborted, Resume, Ways
<1>13. ASSUME AbortableWait, UNCHANGED txOnly PROVE Moving'
    BY <1>n, <1>t, <1>s, <1>13 DEF AbortableWait, BeginWait, Waited, Judge, ClearReason
<1>14. ASSUME NEW c \in Users, CallWaits(c), UNCHANGED txOnly PROVE Moving'
    BY <1>n, <1>t, <1>s, <1>14 DEF CallWaits
<1>15. CASE UNCHANGED writeVars
    BY <1>n, <1>t, <1>s, <1>15 DEF writeVars, fifoVars
<1>. QED
    BY <1>1, <1>2, <1>3, <1>4, <1>5, <1>6, <1>7, <1>8, <1>9, <1>10, <1>11, <1>12, <1>13, <1>14,
       <1>15
       DEF WriteNext, WriterStep

LEMMA WriteStep ==
    ASSUME SerialTxAssumption, WriteInv, [WriteNext]_writeVars
    PROVE  WriteInv'
<1>1. EventProofs!IInv' /\ Cpt!TypeOK' /\ Inside'
    BY WriteEvent
<1>2. WriteTypeOK' /\ Portions'
    BY <1>1, WriteTypes DEF WriteInv
<1>. QED
    BY <1>1, <1>2, WriteWays, WriteSentEnds, WriteAwaitsSent, WriteMoving DEF WriteInv

LEMMA WriteInvGoesOut ==
    ASSUME SerialTxAssumption, WriteInv
    PROVE  WritesGoOut
<1>1. /\ hw \in Nat /\ stored \in Nat
      /\ (user = Nobody <=> place = "out") /\ (way = "none" <=> user = Nobody)
    BY DEF WriteInv, WriteTypeOK, FifoTypeOK, Ways
<1>2. place \in {"waiting", "ok"} => way = "block"
    BY <1>1 DEF WriteInv, WriteTypeOK, Ways
<1>3. ASSUME ~strayed, ~overtaken, CallSleeps
      PROVE  (hw > 0 /\ ~suspended) \/ spc # "out"
  <2>1. Waits /\ status # "DONE" /\ place = "waiting"
    BY <1>3 DEF CallSleeps, Waits, Early
  <2>. QED
    BY <1>2, <1>3, <2>1 DEF WriteInv, AwaitsSent, Awaiting
<1>4. ASSUME ~strayed, ~overtaken, place = "ok", ~stale
      PROVE  stored = 0 /\ hw = 0
    BY <1>2, <1>4 DEF WriteInv, AwaitsSent, Awaiting, AllOut
<1>5. ~strayed => FromFront
    BY DEF WriteInv, SentEnds
<1>6. ~blocking /\ user = Nobody /\ stored > 0 => hw > 0 \/ cut \/ missed
    BY DEF WriteInv, Moving
<1>. QED
    BY <1>3, <1>4, <1>5, <1>6 DEF WritesGoOut

(* Writes keep their inductive invariant. *)
THEOREM WriteInvariance == ASSUME SerialTxAssumption PROVE WriteSpec => []WriteInv
<1>1. WriteInit => WriteInv
    BY WriteInvInit
<1>2. WriteInv /\ [WriteNext]_writeVars => WriteInv'
    BY WriteStep
<1>. QED
    BY <1>1, <1>2, PTL DEF WriteSpec

(* The types of a write hold in every state: the ring never holds more than it can, and
   no more is counted as sent than the caller gave. *)
THEOREM WriteTypeCorrect == ASSUME SerialTxAssumption PROVE WriteSpec => []WriteTypeOK
<1>1. WriteInv => WriteTypeOK
    BY DEF WriteInv
<1>. QED
    BY <1>1, WriteInvariance, PTL

(* hal_serial.c: what is written goes out in order, and the write that waits for it is
   told when all is out and not before. *)
THEOREM WritesGoOutHolds == ASSUME SerialTxAssumption PROVE WriteSpec => []WritesGoOut
<1>1. WriteInv => WritesGoOut
    BY WriteInvGoesOut
<1>. QED
    BY <1>1, WriteInvariance, PTL

=============================================================================
