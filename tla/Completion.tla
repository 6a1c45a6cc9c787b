----------------------------- MODULE Completion -----------------------------
(***************************************************************************)
(* The one-shot event of lib/sync: one waiter blocks in completion_wait    *)
(* until some caller runs completion_done.  The code has two backends with *)
(* the same compare-and-swap protocol on `status`: the reference one       *)
(* (lib/sync/src/completion.c) signals through a binary semaphore, the     *)
(* FreeRTOS one (platform/sync/freertos/completion_accel_cas_tn.c) through *)
(* a task notification sent to whichever task `waitThread` names.  The     *)
(* build picks one; so does Init.                                          *)
(*                                                                         *)
(* Every access to shared memory is a step of its own.  A thread's done    *)
(* call may lose the processor between its steps; a done call made by an   *)
(* interrupt handler cannot lose it to a thread, so it is one step.  A     *)
(* write of NULL to waitThread is merged with the exchange or store of     *)
(* status that follows it, if one does: only step Aim reads waitThread.    *)
(***************************************************************************)
EXTENDS Integers, FiniteSets

CONSTANTS Waiters,   \* threads that call completion_wait
          Posters,   \* threads that call completion_done
          Backends,  \* backends the build may choose from
          Sem,       \* the semaphore of the reference backend
          None,      \* the NULL thread handle
          MaxDone    \* bound: the number of done calls

ASSUME CompletionAssumption ==
    /\ Waiters \cap Posters = {}
    /\ Backends \subseteq {"sem", "notify"}
    /\ Sem \notin Waiters /\ None \notin Waiters /\ Sem # None
    /\ MaxDone \in Nat

Status == {"INIT", "WAIT", "DONE", "WAITING"}
Results == {"none", "OK", "BUSY", "TIMEOUT", "ERROR"}

VARIABLES
    backend,     \* "sem" or "notify"
    status,      \* Completion.status
    waitThread,  \* Completion.waitThread
    signal,      \* boxes holding a token: Sem, or the task notified
    wpc, tmo, wret,     \* each waiter's place in wait, timeout, last result
    dpc, target, dret,  \* each poster's place in done, box to signal, result
    owed,        \* history: done calls that succeeded minus waits that did
    calls,       \* history: done calls made, capped by MaxDone
    overtaken,   \* history: a waiter ran while a done call was half way
    unsent,      \* history: a wait took a done before its signal was sent
    crowded      \* history: two wait calls overlapped

shared == <<status, waitThread, signal>>
waiting == <<wpc, tmo, wret>>
posting == <<dpc, target, dret>>
history == <<owed, calls, overtaken, unsent, crowded>>
vars == <<backend, shared, waiting, posting, history>>

Box(t) == IF backend = "sem" THEN Sem ELSE t

TypeOK ==
    /\ backend \in Backends
    /\ status \in Status
    /\ waitThread \in Waiters \cup {None}
    /\ signal \subseteq Waiters \cup {Sem}
    /\ wpc \in [Waiters -> {"out", "snap", "take", "resnap", "enroll", "casWait",
                            "undoDone", "undoBusy", "casWaiting", "lateDone",
                            "lateTimeout", "odd", "sleep", "woken", "expired",
                            "wipe", "wipeTimeout", "drain"}]
    /\ tmo \in [Waiters -> {"zero", "finite", "forever"}]
    /\ wret \in [Waiters -> Results]
    /\ dpc \in [Posters -> {"out", "fromWAIT", "fromWAITING", "aim", "post"}]
    /\ target \in [Posters -> Waiters \cup {Sem, None}]
    /\ dret \in [Posters -> Results]
    /\ owed \in Int
    /\ calls \in 0..MaxDone
    /\ overtaken \in BOOLEAN
    /\ unsent \in BOOLEAN
    /\ crowded \in BOOLEAN

Init ==
    /\ backend \in Backends
    /\ status = "INIT"
    /\ waitThread = None
    /\ signal = {}
    /\ wpc = [t \in Waiters |-> "out"]
    /\ tmo = [t \in Waiters |-> "forever"]
    /\ wret = [t \in Waiters |-> "none"]
    /\ dpc = [p \in Posters |-> "out"]
    /\ target = [p \in Posters |-> None]
    /\ dret = [p \in Posters |-> "none"]
    /\ owed = 0
    /\ calls = 0
    /\ overtaken = FALSE
    /\ unsent = FALSE
    /\ crowded = FALSE

-----------------------------------------------------------------------------
(* completion_wait *)

InDone == \E p \in Posters : dpc[p] # "out"

\* A done call has won its exchange and has not sent its signal.
Sending == \E p \in Posters : dpc[p] \in {"aim", "post"}

\* The places whose access ends a DONE.
Taking == {"take", "undoDone", "lateDone", "lateTimeout", "woken"}

\* One access by waiter t at place `at`: it may overtake a half-done done call,
\* and take its DONE before the signal is sent.
WaiterAt(t, at) ==
    /\ wpc[t] = at
    /\ overtaken' = (overtaken \/ InDone)
    /\ unsent' = (unsent \/ (at \in Taking /\ status = "DONE" /\ Sending))
    /\ UNCHANGED <<backend, posting, calls, crowded>>

GoTo(t, at) == wpc' = [wpc EXCEPT ![t] = at] /\ UNCHANGED <<tmo, wret>>
WaitReturns(t, r) ==
    /\ wpc' = [wpc EXCEPT ![t] = "out"]
    /\ tmo' = [tmo EXCEPT ![t] = "forever"]
    /\ wret' = [wret EXCEPT ![t] = r]

\* The exchange DONE -> INIT: the call will drain the signal and return OM_OK.
Consumed(t, next) ==
    /\ status' = "INIT"
    /\ owed' = owed - 1
    /\ GoTo(t, next)

WaitCall(t) ==
    /\ wpc[t] = "out"
    /\ wpc' = [wpc EXCEPT ![t] = "snap"]
    /\ \E d \in {"zero", "finite", "forever"} : tmo' = [tmo EXCEPT ![t] = d]
    /\ wret' = [wret EXCEPT ![t] = "none"]
    /\ crowded' = (crowded \/ \E u \in Waiters \ {t} : wpc[u] # "out")
    /\ UNCHANGED <<backend, shared, posting, owed, calls, overtaken, unsent>>

\* Phase 1: the snapshot of status; `resnap` is the second look, taken when
\* another waiter consumed the DONE first.
Snap(t) ==
    \E at \in {"snap", "resnap"} :
        /\ WaiterAt(t, at)
        /\ \/ status = "DONE" /\ at = "snap" /\ GoTo(t, "take")
           \/ status = "DONE" /\ at = "resnap" /\ WaitReturns(t, "ERROR")
           \/ status \in {"WAIT", "WAITING"} /\ WaitReturns(t, "BUSY")
           \/ status = "INIT" /\ tmo[t] = "zero" /\ WaitReturns(t, "TIMEOUT")
           \/ status = "INIT" /\ tmo[t] # "zero" /\ GoTo(t, "enroll")
        /\ UNCHANGED <<shared, owed>>

TakeDone(t) ==
    /\ WaiterAt(t, "take")
    /\ \/ status = "DONE" /\ Consumed(t, "wipe")
       \/ status # "DONE" /\ GoTo(t, "resnap") /\ UNCHANGED <<status, owed>>
    /\ UNCHANGED <<waitThread, signal>>

\* Phase 2: name the thread to wake, then INIT -> WAIT.
Enroll(t) ==
    /\ WaiterAt(t, "enroll")
    /\ waitThread' = t
    /\ GoTo(t, "casWait")
    /\ UNCHANGED <<status, signal, owed>>

RegisterWait(t) ==
    /\ WaiterAt(t, "casWait")
    /\ \/ status = "INIT" /\ status' = "WAIT" /\ GoTo(t, "casWaiting")
       \/ status = "DONE" /\ GoTo(t, "undoDone") /\ UNCHANGED status
       \/ status \in {"WAIT", "WAITING"} /\ GoTo(t, "undoBusy") /\ UNCHANGED status
    /\ UNCHANGED <<waitThread, signal, owed>>

\* The INIT -> WAIT exchange failed.
RegisterFailed(t) ==
    /\ \/ /\ WaiterAt(t, "undoDone")
          /\ \/ status = "DONE" /\ Consumed(t, "drain")
             \/ /\ status # "DONE"
                /\ WaitReturns(t, IF status = "INIT" THEN "ERROR" ELSE "BUSY")
                /\ UNCHANGED <<status, owed>>
       \/ /\ WaiterAt(t, "undoBusy")
          /\ WaitReturns(t, "BUSY")
          /\ UNCHANGED <<status, owed>>
    /\ waitThread' = None
    /\ UNCHANGED signal

\* Phase 3: WAIT -> WAITING, unless the done call came in between.
CommitWait(t) ==
    /\ WaiterAt(t, "casWaiting")
    /\ \/ status = "WAIT" /\ status' = "WAITING" /\ GoTo(t, "sleep")
       \/ status = "DONE" /\ GoTo(t, "lateDone") /\ UNCHANGED status
       \/ status \in {"INIT", "WAITING"} /\ GoTo(t, "odd") /\ UNCHANGED status
    /\ UNCHANGED <<waitThread, signal, owed>>

\* Mutant: the late done is consumed but its signal is not drained.
LateDoneUndrained(t) ==
    /\ WaiterAt(t, "lateDone")
    /\ status' = IF status = "DONE" THEN "INIT" ELSE status
    /\ owed' = owed - 1
    /\ waitThread' = None
    /\ WaitReturns(t, "OK")
    /\ UNCHANGED signal

\* Phase 3 found DONE: the result of the exchange DONE -> INIT is ignored.
LateDone(t) ==
    /\ WaiterAt(t, "lateDone")
    /\ status' = IF status = "DONE" THEN "INIT" ELSE status
    /\ owed' = owed - 1
    /\ waitThread' = None
    /\ GoTo(t, "drain")
    /\ UNCHANGED signal

\* An impossible status: it is overwritten and the call fails.
Odd(t) ==
    /\ WaiterAt(t, "odd")
    /\ status' = "INIT"
    /\ waitThread' = None
    /\ WaitReturns(t, "ERROR")
    /\ UNCHANGED <<signal, owed>>

\* Phase 4: block until the signal, or until a finite timeout expires.
Wake(t) ==
    /\ WaiterAt(t, "sleep")
    /\ Box(t) \in signal
    /\ signal' = signal \ {Box(t)}
    /\ GoTo(t, "woken")
    /\ UNCHANGED <<status, waitThread, owed>>

Expire(t) ==
    /\ WaiterAt(t, "sleep")
    /\ tmo[t] = "finite"
    /\ Box(t) \notin signal
    /\ GoTo(t, "expired")
    /\ UNCHANGED <<shared, owed>>

\* The event was seen, by its signal or by the failed exchange after a
\* timeout: INIT is stored.  After a wake-up by notification no box is drained.
Woken(t) ==
    /\ \/ /\ WaiterAt(t, "woken")
          /\ IF backend = "sem" THEN GoTo(t, "drain") ELSE WaitReturns(t, "OK")
       \/ WaiterAt(t, "lateTimeout") /\ GoTo(t, "drain")
    /\ status' = "INIT"
    /\ owed' = owed - 1
    /\ waitThread' = None
    /\ UNCHANGED signal

\* Mutant: the timeout path stores INIT instead of exchanging WAITING for it.
ExpiredStores(t) ==
    /\ WaiterAt(t, "expired")
    /\ status' = "INIT"
    /\ GoTo(t, "wipeTimeout")
    /\ UNCHANGED <<waitThread, signal, owed>>

\* Mutant: the timeout path does not expect to lose against a done call.
ExpiredSurprised(t) ==
    /\ WaiterAt(t, "expired")
    /\ \/ status = "WAITING" /\ status' = "INIT" /\ GoTo(t, "wipeTimeout")
       \/ status # "WAITING" /\ GoTo(t, "odd") /\ UNCHANGED status
    /\ UNCHANGED <<waitThread, signal, owed>>

Expired(t) ==
    /\ WaiterAt(t, "expired")
    /\ \/ /\ status = "WAITING"
          /\ status' = "INIT"
          /\ GoTo(t, "wipeTimeout")
       \/ status = "DONE" /\ GoTo(t, "lateTimeout") /\ UNCHANGED status
       \/ status \in {"INIT", "WAIT"} /\ GoTo(t, "odd") /\ UNCHANGED status
    /\ UNCHANGED <<waitThread, signal, owed>>

\* The handle is cleared after the exchange that ended the wait.
Wipe(t) ==
    /\ \/ WaiterAt(t, "wipe") /\ GoTo(t, "drain")
       \/ WaiterAt(t, "wipeTimeout") /\ WaitReturns(t, "TIMEOUT")
    /\ waitThread' = None
    /\ UNCHANGED <<status, signal, owed>>

Drain(t) ==
    /\ WaiterAt(t, "drain")
    /\ signal' = signal \ {Box(t)}
    /\ WaitReturns(t, "OK")
    /\ UNCHANGED <<status, waitThread, owed>>

-----------------------------------------------------------------------------
(* completion_done *)

DoneReturns(p, r) ==
    /\ dpc' = [dpc EXCEPT ![p] = "out"]
    /\ target' = [target EXCEPT ![p] = None]
    /\ dret' = [dret EXCEPT ![p] = r]

\* Mutant: the fast path takes WAITING for INIT and signals nobody.
DoneCallFast(p) ==
    /\ dpc[p] = "out"
    /\ calls < MaxDone
    /\ calls' = calls + 1
    /\ \/ /\ status \in {"INIT", "WAITING"}
          /\ status' = "DONE"
          /\ owed' = owed + 1
          /\ DoneReturns(p, "OK")
       \/ status = "DONE" /\ DoneReturns(p, "BUSY") /\ UNCHANGED <<status, owed>>
       \/ /\ status = "WAIT"
          /\ dpc' = [dpc EXCEPT ![p] = "fromWAIT"]
          /\ UNCHANGED <<status, owed, target, dret>>
    /\ UNCHANGED <<backend, waitThread, signal, waiting, overtaken, unsent, crowded>>

\* The call and its first exchange, INIT -> DONE.
DoneCall(p) ==
    /\ dpc[p] = "out"
    /\ calls < MaxDone
    /\ calls' = calls + 1
    /\ \/ /\ status = "INIT"
          /\ status' = "DONE"
          /\ owed' = owed + 1
          /\ DoneReturns(p, "OK")
       \/ /\ status = "DONE"
          /\ DoneReturns(p, "BUSY")
          /\ UNCHANGED <<status, owed>>
       \/ /\ status \in {"WAIT", "WAITING"}
          /\ dpc' = [dpc EXCEPT ![p] = IF status = "WAIT" THEN "fromWAIT" ELSE "fromWAITING"]
          /\ dret' = [dret EXCEPT ![p] = "none"]
          /\ UNCHANGED <<status, owed, target>>
    /\ UNCHANGED <<backend, waitThread, signal, waiting, overtaken, unsent, crowded>>

\* The second exchange expects the status the first one found.
DoneSwap(p) ==
    /\ dpc[p] \in {"fromWAIT", "fromWAITING"}
    /\ \/ /\ status = IF dpc[p] = "fromWAIT" THEN "WAIT" ELSE "WAITING"
          /\ status' = "DONE"
          /\ owed' = owed + 1
          /\ IF backend = "sem"
             THEN /\ dpc' = [dpc EXCEPT ![p] = "post"]
                  /\ target' = [target EXCEPT ![p] = Sem]
             ELSE /\ dpc' = [dpc EXCEPT ![p] = "aim"]
                  /\ UNCHANGED target
          /\ UNCHANGED dret
       \/ /\ status # IF dpc[p] = "fromWAIT" THEN "WAIT" ELSE "WAITING"
          /\ DoneReturns(p, IF status = "DONE" THEN "BUSY" ELSE "ERROR")
          /\ UNCHANGED <<status, owed>>
    /\ UNCHANGED <<backend, waitThread, signal, waiting, calls, overtaken, unsent, crowded>>

\* Mutant: the handle is not compared with NULL.
AimUnchecked(p) ==
    /\ dpc[p] = "aim"
    /\ dpc' = [dpc EXCEPT ![p] = "post"]
    /\ target' = [target EXCEPT ![p] = waitThread]
    /\ UNCHANGED <<dret, backend, shared, waiting, history>>

\* The notification backend reads the handle of the task to notify.
Aim(p) ==
    /\ dpc[p] = "aim"
    /\ IF waitThread = None
       THEN DoneReturns(p, "OK")
       ELSE /\ dpc' = [dpc EXCEPT ![p] = "post"]
            /\ target' = [target EXCEPT ![p] = waitThread]
            /\ UNCHANGED dret
    /\ UNCHANGED <<backend, shared, waiting, history>>

\* Mutant: the signal is dropped.
PostNothing(p) ==
    /\ dpc[p] = "post"
    /\ DoneReturns(p, "OK")
    /\ UNCHANGED <<backend, shared, waiting, history>>

Post(p) ==
    /\ dpc[p] = "post"
    /\ signal' = signal \cup {target[p]}
    /\ DoneReturns(p, "OK")
    /\ UNCHANGED <<backend, status, waitThread, waiting, history>>

\* The whole call, made by an interrupt handler.  With status DONE it answers
\* OM_ERROR_BUSY and changes nothing.
DoneFromIsr ==
    /\ calls < MaxDone
    /\ calls' = calls + 1
    /\ status # "DONE"
    /\ status' = "DONE"
    /\ owed' = owed + 1
    /\ signal' = IF status = "INIT" THEN signal
                 ELSE signal \cup ({Box(waitThread)} \ {None})
    /\ UNCHANGED <<backend, waitThread, waiting, posting, overtaken, unsent, crowded>>

-----------------------------------------------------------------------------
(* completion_init / completion_deinit, also the reset of a completion that
   is used again: the notification backend leaves a pending notification
   where it is.  A done nobody waited for is discarded. *)

Reset ==
    /\ status' = "INIT"
    /\ waitThread' = None
    /\ signal' = IF backend = "sem" THEN {} ELSE signal
    /\ owed' = 0
    /\ UNCHANGED <<backend, waiting, posting, calls, overtaken, unsent, crowded>>

\* The owner resets the completion while nobody is using it.
Reinit ==
    /\ \A t \in Waiters : wpc[t] = "out"
    /\ ~InDone
    /\ Reset

-----------------------------------------------------------------------------
WaiterStep(t) ==
    \/ Snap(t) \/ TakeDone(t) \/ Enroll(t) \/ RegisterWait(t)
    \/ RegisterFailed(t) \/ CommitWait(t) \/ LateDone(t) \/ Odd(t)
    \/ Wake(t) \/ Expire(t) \/ Woken(t) \/ Expired(t) \/ Wipe(t)
    \/ Drain(t)

PosterStep(p) == DoneSwap(p) \/ Aim(p) \/ Post(p)

Next ==
    \/ \E t \in Waiters : WaitCall(t) \/ WaiterStep(t)
    \/ \E p \in Posters : DoneCall(p) \/ PosterStep(p)
    \/ DoneFromIsr
    \/ Reinit

Spec == Init /\ [][Next]_vars

\* A call that has begun goes on: the scheduler runs every ready thread, and
\* the tick makes finite timeouts expire.  Nobody is obliged to make a call.
Fairness ==
    /\ \A t \in Waiters : WF_vars(WaiterStep(t))
    /\ \A p \in Posters : WF_vars(PosterStep(p))

FairSpec == Spec /\ Fairness

-----------------------------------------------------------------------------
\* The two uses the protocol does not cover: waits that overlap, and a wait that
\* took a DONE, and may have returned, before the thread that set it sent the
\* signal (completion.c:190-195 preempted between the exchange and the post).
Orderly == ~unsent /\ ~crowded

\* Stricter: no waiter ran at all while a done call was half way.
Undisturbed == ~overtaken /\ ~crowded

(* One done, one wake-up: while no done is taken before its signal is sent and
   no waits overlap, the done calls that returned OM_OK exceed the waits that
   did by one exactly when a DONE is there to be taken (completion_design.md:
   one done wakes exactly one waiter, a repeated done answers BUSY). *)
OneShot == Orderly => owed = (IF status = "DONE" THEN 1 ELSE 0)

(* No lost wake-up: a waiter asleep on a completion that is DONE has its
   signal in its box, or the done call that will put it there is under way.
   Lines 126 and 190 of completion.c race for status; this is why the waiter
   registers in two exchanges. *)
NoLostWake ==
    ~crowded =>
    \A t \in Waiters :
        wpc[t] = "sleep" /\ status = "DONE" =>
            \/ Box(t) \in signal
            \/ \E p \in Posters :
                 \/ dpc[p] = "post" /\ target[p] = Box(t)
                 \/ dpc[p] = "aim" /\ waitThread = t

(* A signal that was sent before its DONE was taken is drained by the wait
   that takes it, on every path and however the caller of done is preempted: a
   signal is only ever in the box of a waiter that is inside its wait.  The
   signal that is sent afterwards is not drained: see WaitsAreEarned. *)
NoStaleSignal ==
    Orderly =>
    \A b \in signal : \E t \in Waiters : b = Box(t) /\ wpc[t] # "out"

(* A wait returns OM_ERROR only when two waits overlapped, and a done call only
   when a waiter ran between its exchanges: the defensive branches of the wait
   path are otherwise unreachable. *)
ErrorsNeedDisorder ==
    /\ (\E t \in Waiters : wret[t] = "ERROR") => crowded
    /\ (\E p \in Posters : dret[p] = "ERROR") => ~Undisturbed

\* The completion as the event of module OneShotEvent: a call is decided once
\* it has won, or lost, its exchange of status.
WaitPlace(t) ==
    CASE wpc[t] = "out" -> "out"
      [] wpc[t] \in {"wipe", "drain"} -> "took"
      [] wpc[t] = "wipeTimeout" -> "late"
      [] OTHER -> IF tmo[t] = "forever" THEN "forever" ELSE "timed"

DonePlace(p) ==
    CASE dpc[p] = "out" -> "out"
      [] dpc[p] \in {"aim", "post"} -> "gave"
      [] OTHER -> "in"

Promise == INSTANCE OneShotEvent WITH
    given <- status = "DONE",
    waits <- [t \in Waiters |-> WaitPlace(t)],
    heard <- wret,
    tells <- [p \in Posters |-> DonePlace(p)],
    told  <- dret

(* Until a done is taken before its signal is sent, or waits overlap, the
   completion is the event of OneShotEvent: each OM_OK of a wait takes one
   done, a wait times out only while no done is there to be taken, a done
   answers BUSY only while one is and OM_ERROR only while none is, and each call
   looks as if it took effect at one instant, its exchange, whatever the other
   side does before and after. *)
ImplementsEvent ==
    Promise!Init /\ [][~Orderly' \/ Promise!Next]_(Promise!evars)

(* A waiter that sleeps when a done call succeeds returns OM_OK, even if that
   call is preempted before it posts and even if the timeout expires at the
   same time. *)
SleeperReturnsOK ==
    \A t \in Waiters :
        (wpc[t] = "sleep" /\ status = "DONE" /\ ~crowded)
            ~> (crowded \/ (wpc[t] = "out" /\ wret[t] = "OK"))

(* completion_design.md:104 says that done does not tell WAIT from WAITING and
   wakes the waiter in both.  So a done call never fails while the waiter goes
   on sleeping for it. *)
DoneWakesWaiter == \A p \in Posters : dret[p] = "ERROR" => status # "WAITING"

(* completion_design.md:130 says that the timeout path is safe as well: when its
   exchange fails the waiter consumes the signal of the done and returns OM_OK.
   So no signal is left over for a later wait, and no wait returns OM_OK that no
   done has earned. *)
WaitsAreEarned == ~crowded => owed >= 0

=============================================================================
